--------------------------- MODULE CommitOrCancel ---------------------------
(***************************************************************************)
(* What the cancel registry promises of a run: a cancellation and a commit  *)
(* race, one of them wins, and the loser finds out.  A run that crossed its *)
(* commit boundary is no longer interrupted; one whose cancellation was     *)
(* recorded before never crosses it; and what is over stays so.             *)
(* CancelRegistry.tla shows that the records, the messages and the local    *)
(* registrations implement it for run ids that are not reused.              *)
(***************************************************************************)
CONSTANT Attempts

VARIABLES stage,        \* of each attempt
          cancelled,    \* attempts whose cancellation came in time
          interrupted   \* attempts whose task was cancelled and has not seen it

vars == <<stage, cancelled, interrupted>>

Init ==
    /\ stage = [a \in Attempts |-> "running"]
    /\ cancelled = {}
    /\ interrupted = {}

Move(a, from, to) ==
    /\ stage[a] \in from
    /\ stage' = [stage EXCEPT ![a] = to]

Cancel(a) ==
    /\ stage[a] = "running"
    /\ cancelled' = cancelled \cup {a}
    /\ UNCHANGED <<stage, interrupted>>

Interrupt(a) ==
    /\ stage[a] = "running"
    /\ interrupted' = interrupted \cup {a}
    /\ UNCHANGED <<stage, cancelled>>

\* The boundary: begin_finalize.
Commit(a) ==
    /\ a \notin cancelled \cup interrupted
    /\ Move(a, {"running"}, "committing")
    /\ UNCHANGED <<cancelled, interrupted>>

\* The transcript is written: this is not taken back.
Write(a) ==
    /\ Move(a, {"committing"}, "written")
    /\ UNCHANGED <<cancelled, interrupted>>

\* It stops or fails, before the boundary or behind it, and wrote nothing.
Stop(a) ==
    /\ Move(a, {"running", "committing"}, "over")
    /\ interrupted' = interrupted \ {a}
    /\ UNCHANGED cancelled

Next == \E a \in Attempts :
            Cancel(a) \/ Interrupt(a) \/ Commit(a) \/ Write(a) \/ Stop(a)

Spec == Init /\ [][Next]_vars
=============================================================================
