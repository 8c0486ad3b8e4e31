---------------------------- MODULE MCAskStream ----------------------------
(***************************************************************************)
(* Small instances of AskStream.tla.                                        *)
(***************************************************************************)
EXTENDS AskStream

\* A frame of one unit, a frame of the largest size and one that is too large.
AllSizes == {1, 2, 3}
=============================================================================
