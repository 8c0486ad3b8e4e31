----------------------- MODULE SingleUseContinuation -----------------------
(***************************************************************************)
(* What a clarification ticket promises: one idempotency key takes it, it   *)
(* is settled once, and the settled outcome never changes until the record  *)
(* expires.  Continuation.tla shows that the Redis record implements it.    *)
(***************************************************************************)
CONSTANTS Holders,   \* who may take a ticket: (idempotency key, run id)
          Outcomes,  \* what a settled ticket may hold
          Nothing

VARIABLES stage,     \* where the ticket is in its life
          holder,    \* who took it
          outcome    \* the stored answer

vars == <<stage, holder, outcome>>

Init ==
    /\ stage = "ABSENT"
    /\ holder = Nothing
    /\ outcome = Nothing

Mint ==
    /\ stage = "ABSENT" /\ stage' = "PENDING"
    /\ UNCHANGED <<holder, outcome>>

Take ==
    /\ stage = "PENDING" /\ stage' = "CLAIMED"
    /\ holder' \in Holders
    /\ UNCHANGED outcome

Answer ==
    /\ stage = "CLAIMED" /\ stage' = "COMPLETED"
    /\ outcome' \in Outcomes
    /\ UNCHANGED holder

Fail ==
    /\ stage = "CLAIMED" /\ stage' = "TERMINAL_FAILED"
    /\ UNCHANGED <<holder, outcome>>

Vanish ==
    /\ stage # "ABSENT" /\ stage' = "EXPIRED"
    /\ UNCHANGED <<holder, outcome>>

Next == Mint \/ Take \/ Answer \/ Fail \/ Vanish

Spec == Init /\ [][Next]_vars
=============================================================================
