------------------------ MODULE MCBusinessOperation -------------------------
(* Two operations: of one correlation, or of two behind one public key.     *)
EXTENDS BusinessOperation
CONSTANTS first, again, run1, run2
=============================================================================
