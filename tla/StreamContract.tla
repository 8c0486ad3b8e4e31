--------------------------- MODULE StreamContract ---------------------------
(***************************************************************************)
(* What the client of a streamed turn may rely on: the frames are numbered  *)
(* from 1 without a gap, at most one of them is terminal and it is the      *)
(* last, and once the stream is over nothing is sent.  A terminal frame     *)
(* that the budget imposes carries the number 1 instead of its own.         *)
(***************************************************************************)
EXTENDS Naturals, Sequences

CONSTANTS Kinds, Terminal

VARIABLES frames, over

vars == <<frames, over>>

Init == frames = <<>> /\ over = FALSE

Send(kind, seq) == frames' = Append(frames, [kind |-> kind, seq |-> seq])

Data ==
    /\ ~over /\ UNCHANGED over
    /\ \E kind \in Kinds \ Terminal : Send(kind, Len(frames) + 1)

Conclude ==
    /\ ~over /\ over' = TRUE
    /\ \E kind \in Terminal : Send(kind, Len(frames) + 1)

TimeOut ==
    /\ ~over /\ over' = TRUE
    /\ Send("stream_error", 1)

\* The stream ends without a terminal frame.
Drop == ~over /\ over' = TRUE /\ UNCHANGED frames

Next == Data \/ Conclude \/ TimeOut \/ Drop

Spec == Init /\ [][Next]_vars
=============================================================================
