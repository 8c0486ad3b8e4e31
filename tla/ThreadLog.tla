----------------------------- MODULE ThreadLog -----------------------------
(***************************************************************************)
(* What the stored memory of one thread promises: every write puts its      *)
(* exchanges behind what is there at that moment and keeps the newest       *)
(* Bound of them, a thread is its owner's until it is lost or past its      *)
(* lifetime, and its age is never reset while it lives.  ThreadMemory.tla   *)
(* shows that the optimistic writes of the Redis store implement it.        *)
(***************************************************************************)
EXTENDS Naturals, Sequences

CONSTANTS Owners, Exchanges, Bound, Lifetime, Nothing

VARIABLES thread, clock

vars == <<thread, clock>>

Newest(s) == IF Len(s) > Bound THEN SubSeq(s, Len(s) - Bound + 1, Len(s)) ELSE s

Gone == thread = Nothing \/ clock - thread.created > Lifetime

Init == thread = Nothing /\ clock = 0

Begin(o, es) ==
    /\ Gone
    /\ \E at \in 0 .. clock :
          thread' = [owner |-> o, created |-> at, turns |-> Newest(es)]
    /\ UNCHANGED clock

Extend(o, es) ==
    /\ ~Gone /\ thread.owner = o
    /\ thread' = [thread EXCEPT !.turns = Newest(@ \o es)]
    /\ UNCHANGED clock

Lose == thread' = Nothing /\ UNCHANGED clock

Pass == clock' = clock + 1 /\ UNCHANGED thread

Next ==
    \/ \E o \in Owners, es \in Exchanges : Begin(o, es) \/ Extend(o, es)
    \/ Lose \/ Pass

Spec == Init /\ [][Next]_vars
=============================================================================
