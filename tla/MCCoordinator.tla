--------------------------- MODULE MCCoordinator ---------------------------
(***************************************************************************)
(* Small instances of Coordinator.tla.                                      *)
(***************************************************************************)
EXTENDS Coordinator

\* Nothing, an id that nobody returned, and what the first action returns.
FewCitations == {{}, {0}, {1}}
=============================================================================
