--------------------------- MODULE MCContinuation ---------------------------
(***************************************************************************)
(* Small instances of Continuation.tla.                                     *)
(***************************************************************************)
EXTENDS Continuation

CONSTANTS q1, q2, q3, k1, k2, r1, r2, r3

\* Two requests of one key and one of another key, each with its own run id.
KeyOfAll == [q \in Replies |-> IF q = q3 THEN k2 ELSE k1]
RetryRun == [q \in Replies |-> CASE q = q1 -> r1 [] q = q2 -> r2 [] q = q3 -> r3]

\* All of one key.
SameKeyAll == [q \in Replies |-> k1]

AllBound == [q \in Replies |-> TRUE]

AllChoices == [q \in Replies |-> "choice"]
\* The second request picks a choice that asks for a value.
OnePrompt == [q \in Replies |-> IF q = q2 THEN "prompt" ELSE "choice"]
=============================================================================
