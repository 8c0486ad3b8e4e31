--------------------------- MODULE MCThreadMemory ---------------------------
(***************************************************************************)
(* Small instances of ThreadMemory.tla: three requests, of one scope or of  *)
(* two, chosen in the initial states.                                       *)
(***************************************************************************)
EXTENDS ThreadMemory, TLC

CONSTANTS a, b, c, s1, s2

Alike == Permutations(Requests) \cup Permutations(Scopes)
=============================================================================
