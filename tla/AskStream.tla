----------------------------- MODULE AskStream -----------------------------
(***************************************************************************)
(* One streamed turn: the generator that sends SSE frames to the client     *)
(* (stream_ask_v2_events), the producer task that runs the turn and queues  *)
(* its frames (_produce_v2_stream_events, with the child task of            *)
(* AskV2Service.ask), the byte-bounded queue between them, and what the     *)
(* turn leaves behind: Query Record terminals, transcript markers and the   *)
(* snapshot sealed under its restore reference.                             *)
(*                                                                          *)
(* asyncio runs one task at a time; a step is the code between two awaits.  *)
(* The producer has no await between the answer and the end of the turn, so *)
(* while it delivers ("deliver") nobody else moves.                         *)
(***************************************************************************)
EXTENDS Naturals, Sequences

CONSTANTS
    Sizes,      \* wire sizes of frames
    MaxFrame,   \* MAX_FRAME_BYTES
    MaxBuffer,  \* MAX_TABLE_BUFFER_BYTES
    MaxFrames   \* bound: frames of a turn before its terminal one

ASSUME SizesAssumption ==
    /\ Sizes \subseteq Nat
    /\ MaxFrame \in Nat /\ MaxBuffer \in Nat /\ MaxFrames \in Nat

VARIABLES
    gen,        \* what the generator does next
    cause,      \* terminal_cause
    wire,       \* frames sent to the client
    expected,   \* the validator's _expected_sequence
    ended,      \* the validator's _terminal_reached
    queue,      \* frames put and not got yet
    closed,     \* the queue's _closed
    bytes,      \* the queue's _current_bytes
    task,       \* what the producer task does next
    cancelling, \* it was cancelled and has not been resumed since
    next,       \* TurnSequence._next
    recorded,   \* the outcome the writer captured
    commits,    \* Query Record terminals the writer scheduled
    timeouts,   \* Query Record terminals scheduled as timeouts
    transcript, \* markers in the transcript
    sealed,     \* what the restore reference names
    detached,   \* the detached stopped write
    late,       \* the deadline has passed
    signal,     \* expiry_event
    gone,       \* the client has closed
    stopped     \* POST /api/cancel reached the turn

genVars == <<gen, cause, wire, expected, ended>>
queueVars == <<queue, closed, bytes>>
taskVars == <<task, cancelling, next, recorded>>
writtenVars == <<commits, timeouts, transcript, sealed>>
envVars == <<detached, late, signal, gone, stopped>>
vars == <<genVars, queueVars, taskVars, writtenVars, envVars>>

Terminal == {"turn_outcome", "stream_error"}
Kinds == Terminal \cup {"turn_accepted", "activity", "table_start", "table_end",
                        "text", "interaction"}
Outcomes == {"completed", "stopped", "error"}

\* Steps of the child task of AskV2Service.ask, and those of the producer.
\* No await ends the steps of Busy.
Child == {"work", "seal", "persist", "verify"}
Busy == {"refuse", "deliver", "conclude"}
Steps == Child \cup Busy \cup {"none", "starting", "asked", "marking", "done"}

Frame(kind, seq, size) == [kind |-> kind, seq |-> seq, size |-> size]

Init ==
    /\ gen = "start" /\ cause = "none" /\ wire = <<>>
    /\ expected = 1 /\ ended = FALSE
    /\ queue = <<>> /\ closed = FALSE /\ bytes = 0
    /\ task = "none" /\ cancelling = FALSE /\ next = 1 /\ recorded = "none"
    /\ commits = <<>> /\ timeouts = 0 /\ transcript = <<>> /\ sealed = "none"
    /\ detached = "none"
    /\ late = FALSE /\ signal = FALSE /\ gone = FALSE /\ stopped = FALSE
-----------------------------------------------------------------------------
(* The queue.                                                               *)

\* put_nowait of an ordinary frame; the second form only bounds the frame.
Fits_Frame(size) == size <= MaxFrame
Fits(size) == size <= MaxFrame /\ bytes + size <= MaxBuffer

Put(kind, size) ==
    /\ queue' = Append(queue, Frame(kind, next, size))
    /\ bytes' = bytes + size
    /\ next' = next + 1

\* A stream_error bypasses both limits and is not accounted.
ErrorFrame(seq) == Frame("stream_error", seq, 0)

\* A frame that is got leaves room for the ones behind it.
Freed(f) == IF bytes > f.size THEN bytes - f.size ELSE 0
-----------------------------------------------------------------------------
(* DeferredTerminalWriter.                                                  *)

\* commit: the first call schedules the record, later ones do nothing; the
\* second form does not remember that it committed.
Committed_Again(done, outcome) == Append(done, outcome)
Committed(done, outcome) == IF done = <<>> THEN <<outcome>> ELSE done

\* What commit writes: an override, else the captured outcome, else the
\* fallback, else "error".  In the second form the fallback overrides, the
\* third has no default.
Resolved_Fallback(captured, fallback) ==
    IF fallback # "none" THEN fallback
    ELSE IF captured # "none" THEN captured ELSE "error"
Resolved_NoDefault(captured, fallback) ==
    IF captured # "none" THEN captured ELSE fallback
Resolved(captured, fallback) ==
    IF captured # "none" THEN captured
    ELSE IF fallback # "none" THEN fallback ELSE "error"

\* _ask_traced's "finally" captures an outcome for an attempt that has none.
Captured(outcome) == IF recorded = "none" THEN outcome ELSE recorded

\* writer.record; the second form is an attempt that was handed no writer.
Record_Elsewhere(outcome) == UNCHANGED recorded
Record(outcome) == recorded' = outcome
-----------------------------------------------------------------------------
(* How the producer ends.                                                   *)

\* An "except" arm and the "finally": one stream_error, the commit, the close.
\* The second form queues no frame.
FailTurn_Silent(captured) ==
    /\ recorded' = captured
    /\ closed' = TRUE /\ UNCHANGED <<queue, bytes, next>>
    /\ commits' = Committed(commits, Resolved(captured, "none"))
    /\ task' = "done"
FailTurn(captured) ==
    /\ recorded' = captured
    /\ queue' = Append(queue, ErrorFrame(next)) /\ next' = next + 1
    /\ closed' = TRUE /\ UNCHANGED bytes
    /\ commits' = Committed(commits, Resolved(captured, "none"))
    /\ task' = "done"

\* "except QueueBufferExceededError" overrides the captured outcome, and the
\* "finally" commits again.
Overflowed ==
    /\ recorded' = Captured("error")
    /\ closed' = TRUE
    /\ commits' = Committed(Committed(commits, "error"), Resolved(recorded, "none"))
    /\ task' = "done"

\* "except CancelledError" and the "finally": no frame.
StopTurn(captured) ==
    /\ recorded' = captured
    /\ closed' = TRUE /\ UNCHANGED <<queue, bytes, next>>
    /\ commits' = Committed(Committed(commits, Resolved(captured, "stopped")),
                            Resolved(captured, "none"))
    /\ task' = "done"

\* A coroutine goes on only if its task was not cancelled meanwhile.
At(step) == task = step /\ ~cancelling

\* The frames of a turn are bounded in the model.
Room == next <= MaxFrames
-----------------------------------------------------------------------------
(* The producer.                                                            *)

\* turn_accepted, then deadline.check_not_expired, once the generator waits.
Start(size) ==
    /\ At("starting") /\ gen = "wait" /\ Fits(size)
    /\ Put("turn_accepted", size)
    /\ task' = IF late THEN "refuse" ELSE "work"
    /\ UNCHANGED <<genVars, closed, cancelling, recorded, writtenVars, envVars>>

\* The steps and thoughts shown while the turn runs, and those sink.finish or
\* sink.fail closes.  The sink drops a frame the queue refuses and spends no number on it; the
\* second form spends it.
Dropped_Spent == next' = next + 1
Dropped == UNCHANGED next

Progress(size) ==
    /\ task \notin {"none", "starting", "done"} /\ ~cancelling /\ Room
    /\ \/ Fits(size) /\ Put("activity", size)
       \/ ~Fits(size) /\ Dropped /\ UNCHANGED <<queue, bytes>>
    /\ UNCHANGED <<genVars, closed, task, cancelling, recorded, writtenVars,
                   envVars>>

\* begin_finalize: from here POST /api/cancel no longer stops the turn.
BeginFinalize ==
    /\ At("work")
    /\ task' = "seal"
    /\ UNCHANGED <<genVars, queueVars, cancelling, next, recorded, writtenVars,
                   envVars>>

\* A reference is sealed once: a second insert keeps the stored row.
Seal(what) == sealed' = IF sealed = "none" THEN what ELSE sealed

\* publish_turn_evidence; a failure, or nothing to retain, leaves no snapshot.
SealAnswer ==
    /\ At("seal")
    /\ Seal("answer") \/ UNCHANGED sealed
    /\ task' = "persist"
    /\ UNCHANGED <<genVars, queueVars, cancelling, next, recorded, commits,
                   timeouts, transcript, envVars>>

\* persist_exchange fails open, then the writer captures "completed".
PersistAnswer ==
    /\ At("persist")
    /\ transcript' = Append(transcript, "answer") \/ UNCHANGED transcript
    /\ Record("completed")
    /\ task' = "verify"
    /\ UNCHANGED <<genVars, queueVars, cancelling, next, commits, timeouts,
                   sealed, envVars>>

\* The evidence barrier of _ask_body (and the card, if the answer asks back).
Verified ==
    /\ At("verify")
    /\ task' \in {"deliver", "asked"}
    /\ UNCHANGED <<genVars, queueVars, cancelling, next, recorded, writtenVars,
                   envVars>>

\* An exception where the code before the outcome frame awaits or computes:
\* missing evidence, a lost claim, a store that is down, disclosure_violation.
\* The outcome captured by then is kept.
Fails ==
    /\ \/ At("work") \/ At("seal") \/ At("persist") \/ At("verify") \/ At("asked")
       \/ At("refuse") \/ At("deliver")
    /\ FailTurn(IF task \in Child THEN Captured("error") ELSE recorded)
    /\ UNCHANGED <<genVars, cancelling, timeouts, transcript, sealed, envVars>>

\* paint_committed_table, during the turn (publish_committed_bq) or after it.
Paint(size) ==
    /\ At("work") \/ At("deliver")
    /\ next < MaxFrames /\ size <= MaxFrame /\ bytes + 2 * size <= MaxBuffer
    /\ queue' = Append(Append(queue, Frame("table_start", next, size)),
                       Frame("table_end", next + 1, size))
    /\ bytes' = bytes + 2 * size
    /\ next' = next + 2
    /\ UNCHANGED <<genVars, closed, task, cancelling, recorded, writtenVars,
                   envVars>>

\* The row batches are cut before the start frame, but the cells are checked
\* and the buffer is charged behind it: either may fail a table that began.
PaintBreaks(size) ==
    /\ At("work") \/ At("deliver")
    /\ Room /\ Fits(size)
    /\ queue' = Append(Append(queue, Frame("table_start", next, size)),
                       ErrorFrame(next + 1))
    /\ bytes' = bytes + size /\ next' = next + 2
    /\ Overflowed
    /\ UNCHANGED <<genVars, cancelling, timeouts, transcript, sealed, envVars>>

\* A frame or the buffer is over its limit.
Overflows(size) ==
    /\ At("deliver") \/ At("conclude") \/ At("asked")
    /\ ~Fits(size)
    /\ queue' = Append(queue, ErrorFrame(next)) /\ next' = next + 1
    /\ UNCHANGED bytes
    /\ Overflowed
    /\ UNCHANGED <<genVars, cancelling, timeouts, transcript, sealed, envVars>>

\* Citations, details and text of an answer.
Text(size) ==
    /\ At("deliver") /\ Room /\ Fits(size)
    /\ Put("text", size)
    /\ UNCHANGED <<genVars, closed, task, cancelling, recorded, writtenVars,
                   envVars>>

\* The last deadline check of an answer.
Check ==
    /\ At("deliver") /\ ~late
    /\ task' = "conclude"
    /\ UNCHANGED <<genVars, queueVars, cancelling, next, recorded, writtenVars,
                   envVars>>

\* The card of a clarification, behind its own evidence barrier.
Interaction(size) ==
    /\ At("asked") /\ Fits(size)
    /\ Put("interaction", size)
    /\ task' = "conclude"
    /\ UNCHANGED <<genVars, closed, cancelling, recorded, writtenVars, envVars>>

\* The outcome frame, the "finally" behind it.
Conclude(size) ==
    /\ At("conclude") /\ Fits(size)
    /\ Put("turn_outcome", size)
    /\ closed' = TRUE
    /\ commits' = Committed(commits, Resolved(recorded, "none"))
    /\ task' = "done"
    /\ UNCHANGED <<genVars, cancelling, recorded, timeouts, transcript, sealed,
                   envVars>>
-----------------------------------------------------------------------------
(* Interrupting the producer.                                               *)

\* What a step that is interrupted in its write may have written.
MayHaveWritten ==
    /\ \/ task = "seal" /\ Seal("answer")
       \/ UNCHANGED sealed
    /\ \/ task = "persist" /\ transcript' = Append(transcript, "answer")
       \/ task = "marking" /\ transcript' = Append(transcript, "timeout")
       \/ UNCHANGED transcript

\* POST /api/cancel cancels the child before begin_finalize; the producer
\* sees a CancelledError that is no timeout.
Cancel ==
    /\ At("work") /\ ~signal
    /\ stopped' = TRUE
    /\ StopTurn("stopped")
    /\ UNCHANGED <<genVars, cancelling, timeouts, transcript, sealed, detached,
                   late, signal, gone>>

\* AskV2Service.ask: a timeout schedules a terminal of its own and writes the
\* marker (the step "marking") before it raises DeadlineExpiredError.
TimeOut ==
    /\ recorded' = Captured("error")
    /\ timeouts' = timeouts + 1
    /\ task' = "marking"
    /\ MayHaveWritten
    /\ UNCHANGED <<queueVars, next, commits>>

\* The turn budget's timer in AskV2Service.ask.
Expire ==
    /\ late /\ task \in Child /\ ~cancelling
    /\ signal' = TRUE
    /\ TimeOut
    /\ UNCHANGED <<genVars, cancelling, detached, late, gone, stopped>>

\* persist_timeout_history, twice at most, then the except arm.
Mark ==
    /\ At("marking")
    /\ transcript' = Append(transcript, "timeout") \/ UNCHANGED transcript
    /\ FailTurn(recorded)
    /\ UNCHANGED <<genVars, cancelling, timeouts, sealed, envVars>>

\* The generator's cancel is raised at the await.  A task that never started
\* runs nothing, its "finally" included.
Interrupt ==
    /\ cancelling
    /\ cancelling' = FALSE
    /\ \/ /\ task = "starting" /\ task' = "done"
          /\ UNCHANGED <<queueVars, next, recorded, writtenVars>>
       \/ /\ task \in Child /\ signal
          /\ TimeOut
       \/ /\ task \in Child /\ ~signal
          /\ StopTurn(Captured("stopped"))
          /\ MayHaveWritten /\ UNCHANGED timeouts
       \/ /\ task \in {"marking", "asked"}
          /\ StopTurn(recorded)
          /\ MayHaveWritten /\ UNCHANGED timeouts
    /\ UNCHANGED <<genVars, envVars>>
-----------------------------------------------------------------------------
(* The generator.                                                           *)

Send(kind, seq) == wire' = Append(wire, [kind |-> kind, seq |-> seq])

\* cancel_and_join: the generator goes on when the producer is done.
Joined == task \in {"none", "done"}

\* The loop ends and the producer, if it still runs, is cancelled.
Leave(c) ==
    /\ gen' = "join" /\ cause' = c
    /\ cancelling' = ~Joined

\* Nobody moves while the producer does, and a task that waits to start runs
\* before one that waits for an event.
Awake == task \notin Busy \cup {"starting"}

\* The checks before the turn: a client that is gone, Gate C, the deadline.
Open ==
    /\ gen = "start"
    /\ \/ gone /\ gen' = "end" /\ UNCHANGED wire
       \/ ~gone /\ gen' = "end" /\ Send("stream_error", 1)
       \/ ~gone /\ ~late /\ gen' = "reserve" /\ UNCHANGED wire
    /\ UNCHANGED <<cause, expected, ended, queueVars, taskVars, writtenVars, envVars>>

\* _reserve_execution_if_configured, then the producer and the race.
Reserve ==
    /\ gen = "reserve" /\ gen' = "loop"
    /\ task' = "starting"
    /\ UNCHANGED <<cause, wire, expected, ended, queueVars, cancelling, next,
                   recorded, writtenVars, envVars>>

\* The budget ends the reservation.
ReserveLate ==
    /\ gen = "reserve" /\ late /\ gen' = "end"
    /\ signal' = TRUE
    /\ timeouts' = timeouts + 1
    /\ transcript' = Append(transcript, "timeout") \/ UNCHANGED transcript
    /\ Send("stream_error", 1)
    /\ UNCHANGED <<cause, expected, ended, queueVars, taskVars, commits, sealed,
                   detached, late, gone, stopped>>

\* wait_stream_cause looks at the clock first, then waits.
Loop ==
    /\ gen = "loop" /\ task \notin Busy
    /\ IF late THEN signal' = TRUE /\ Leave("budget")
       ELSE gen' = "wait" /\ UNCHANGED <<cause, cancelling, signal>>
    /\ UNCHANGED <<wire, expected, ended, queueVars, task, next, recorded,
                   writtenVars, detached, late, gone, stopped>>

\* V2EventSequenceValidator.validate_next.
Accepts(f) == f.seq = expected /\ ~ended

\* A frame is got, validated and sent; one out of sequence ends the stream
\* with an error.
Get ==
    /\ gen = "wait" /\ Awake /\ queue # <<>>
    /\ queue' = Tail(queue)
    /\ bytes' = Freed(Head(queue))
    /\ IF Accepts(Head(queue))
       THEN /\ Send(Head(queue).kind, Head(queue).seq)
            /\ expected' = expected + 1
            /\ ended' = (Head(queue).kind \in Terminal)
            /\ gen' = "yield" /\ UNCHANGED <<cause, cancelling>>
       ELSE /\ Send("stream_error", Head(queue).seq)
            /\ Leave("rejected") /\ UNCHANGED <<expected, ended>>
    /\ UNCHANGED <<closed, task, next, recorded, writtenVars, envVars>>

\* The queue is closed and empty, the client is gone, or time is up.  Which
\* of several wakes the generator is the event loop's choice.
Leaves ==
    /\ gen = "wait" /\ Awake
    /\ \/ queue = <<>> /\ closed /\ Leave("closed") /\ UNCHANGED signal
       \/ gone /\ Leave("disconnect") /\ UNCHANGED signal
       \/ late /\ signal' = TRUE /\ Leave("budget")
    /\ UNCHANGED <<wire, expected, ended, queueVars, task, next, recorded,
                   writtenVars, detached, late, gone, stopped>>

\* A comment frame keeps an idle stream open.
KeepAlive ==
    /\ gen = "wait" /\ Awake /\ gen' = "loop"
    /\ UNCHANGED <<cause, wire, expected, ended, queueVars, taskVars,
                   writtenVars, envVars>>

\* The client took the frame: a terminal one ends the loop; the second form
\* goes on.
Taken_On == gen' = "loop" /\ UNCHANGED <<cause, cancelling>>
Taken ==
    IF wire[Len(wire)].kind \in Terminal THEN Leave(wire[Len(wire)].kind)
    ELSE gen' = "loop" /\ UNCHANGED <<cause, cancelling>>

Resume ==
    /\ gen = "yield" /\ Awake
    /\ Taken
    /\ UNCHANGED <<wire, expected, ended, queueVars, task, next, recorded,
                   writtenVars, envVars>>

\* The response is dropped while the generator is suspended at its yield or
\* still reserves: no terminal cause is set.
CloseStream ==
    /\ gone /\ Awake
    /\ \/ gen = "yield" /\ Leave("none")
       \/ gen = "reserve" /\ gen' = "end" /\ UNCHANGED <<cause, cancelling>>
    /\ UNCHANGED <<wire, expected, ended, queueVars, task, next, recorded,
                   writtenVars, envVars>>

\* The budget's frame; its number is always 1.
LastWord ==
    IF cause = "budget" THEN Send("stream_error", 1) ELSE UNCHANGED wire

\* _close_timeout_reservation of the budget arm.
Closes ==
    IF cause = "budget"
    THEN /\ timeouts' = timeouts + 1
         /\ transcript' = Append(transcript, "timeout") \/ UNCHANGED transcript
    ELSE UNCHANGED <<timeouts, transcript>>

\* The generator returns; a turn that ended without a terminal cause leaves a
\* detached stopped write behind.
Return ==
    /\ gen = "join" /\ Awake /\ Joined
    /\ gen' = "end"
    /\ LastWord /\ Closes
    /\ detached' = IF cause \in Terminal \cup {"budget"} THEN detached ELSE "mark"
    /\ UNCHANGED <<cause, expected, ended, queueVars, taskVars, commits, sealed,
                   late, signal, gone, stopped>>

\* A closing client cancels the generator, and with it the task it joins.
Recancel ==
    /\ gen = "join" /\ Awake /\ gone /\ ~Joined /\ ~cancelling
    /\ cancelling' = TRUE
    /\ UNCHANGED <<genVars, queueVars, task, next, recorded, writtenVars, envVars>>

\* persist_stopped_history: the marker, then the snapshot; its 2 s ceiling may
\* end it before either.
Stopped ==
    /\ \/ /\ detached = "mark"
          /\ transcript' = Append(transcript, "stopped") \/ UNCHANGED transcript
          /\ detached' = "seal" /\ UNCHANGED sealed
       \/ /\ detached = "seal"
          /\ Seal("stopped") \/ UNCHANGED sealed
          /\ detached' = "done" /\ UNCHANGED transcript
    /\ UNCHANGED <<genVars, queueVars, taskVars, commits, timeouts, late, signal,
                   gone, stopped>>
-----------------------------------------------------------------------------
DeadlinePasses ==
    /\ ~late /\ gen # "end"
    /\ late' = TRUE
    /\ UNCHANGED <<genVars, queueVars, taskVars, writtenVars, detached, signal,
                   gone, stopped>>

ClientCloses ==
    /\ ~gone /\ gen # "end"
    /\ gone' = TRUE
    /\ UNCHANGED <<genVars, queueVars, taskVars, writtenVars, detached, late,
                   signal, stopped>>

Producer ==
    \/ BeginFinalize \/ SealAnswer \/ PersistAnswer \/ Verified \/ Fails \/ Check
    \/ Expire \/ Mark \/ Interrupt
    \/ \E size \in Sizes : Start(size) \/ Overflows(size) \/ Interaction(size)
                           \/ Conclude(size)

\* What a turn may do any number of times, up to the bound.
Emit == \E size \in Sizes : Progress(size) \/ Paint(size) \/ PaintBreaks(size)
                            \/ Text(size)

Generator ==
    \/ Open \/ Reserve \/ ReserveLate \/ Loop \/ Get \/ Leaves \/ Resume
    \/ CloseStream \/ Return

Next ==
    \/ Producer \/ Emit \/ Cancel \/ Generator \/ KeepAlive \/ Recancel \/ Stopped
    \/ DeadlinePasses \/ ClientCloses

Spec == Init /\ [][Next]_vars

\* The event loop runs every task that can go on, the client takes a frame or
\* leaves, and the deadline passes.
FairSpec == /\ Spec
            /\ WF_vars(Producer) /\ WF_vars(Generator)
            /\ WF_vars(DeadlinePasses)
-----------------------------------------------------------------------------
(* Properties.                                                              *)

Frames == [kind: Kinds, seq: Nat, size: Nat]

TypeOK ==
    /\ gen \in {"start", "reserve", "loop", "wait", "yield", "join", "end"}
    /\ cause \in Terminal \cup {"none", "closed", "disconnect", "budget", "rejected"}
    /\ wire \in Seq([kind: Kinds, seq: Nat])
    /\ expected \in Nat /\ ended \in BOOLEAN
    /\ queue \in Seq(Frames) /\ closed \in BOOLEAN /\ bytes \in Nat
    /\ task \in Steps /\ cancelling \in BOOLEAN /\ next \in Nat
    /\ recorded \in Outcomes \cup {"none"}
    /\ commits \in Seq(Outcomes) /\ timeouts \in Nat
    /\ transcript \in Seq({"answer", "timeout", "stopped"})
    /\ sealed \in {"none", "answer", "stopped"}
    /\ detached \in {"none", "mark", "seal", "done"}
    /\ late \in BOOLEAN /\ signal \in BOOLEAN /\ gone \in BOOLEAN
    /\ stopped \in BOOLEAN

\* The validator never refuses a frame of the producer, whatever the sink
\* dropped: the numbers leave the queue without a gap (TurnSequence,
\* AskV2ProgressSink._enqueue, V2EventSequenceValidator).
NeverRejected == cause # "rejected"

IsTerminal(f) == f.kind \in Terminal

\* The client was sent its terminal frame.
LastIsTerminal == wire # <<>> /\ IsTerminal(wire[Len(wire)])

\* The client gets at most one terminal frame and nothing behind it, although
\* the producer, the budget arm and the validator may all send one.
OneTerminalFrame ==
    \A i \in 1..Len(wire) : IsTerminal(wire[i]) => i = Len(wire)

\* The buffered bytes are those of the frames in the queue and stay within the
\* bound whatever is put, dropped, got or abandoned (ByteBoundedAskQueue).
Buffered[i \in 0..Len(queue)] ==
    IF i = 0 THEN 0 ELSE Buffered[i - 1] + queue[i].size
BufferBounded == bytes = Buffered[Len(queue)] /\ bytes <= MaxBuffer

\* A turn commits one Query Record through its writer, however it ends; only a
\* task cancelled before its first step commits none, and then the budget arm
\* closes the reservation.
CommittedOnce ==
    /\ Len(commits) <= 1
    /\ gen = "end" /\ task # "none" => commits # <<>> \/ timeouts > 0

\* A client that is shown an outcome and the ledger agree: the attempt was
\* committed as completed, the writer's fallbacks notwithstanding.
ShownIsCompleted ==
    \A i \in 1..Len(wire) :
        wire[i].kind = "turn_outcome" => commits = <<"completed">>

\* The stopped outcome never replaces what an interrupted attempt had captured.
CaptureKept ==
    recorded \in {"completed", "error"} /\ task = "done" =>
        commits # <<"stopped">>

\* The generator does not return while its producer still runs.
NoTaskLeft == gen = "end" => task \in {"none", "done"}

\* Every stream ends, and a client that stays and did not cancel gets a
\* terminal frame.
EveryStreamConcludes ==
    <>(gen = "end" /\ (gone \/ stopped \/ LastIsTerminal))

\* What the client sees is a contract of its own: StreamContract.tla.
Contract == INSTANCE StreamContract WITH
    frames <- wire,
    over <- gen = "end" \/ LastIsTerminal
ContractSpec == Contract!Spec
-----------------------------------------------------------------------------
(* The inductive invariant of the proofs.                                   *)

\* The queue holds the numbers the validator expects next; a terminal frame is
\* the last of a producer that is done.
QueueInv ==
    /\ next = expected + Len(queue)
    /\ \A i \in 1..Len(queue) :
           /\ queue[i].seq = expected + i - 1
           /\ IsTerminal(queue[i]) => i = Len(queue) /\ task = "done"
    /\ ended => queue = <<>> /\ task = "done"

\* Until the generator returns the wire holds what was accepted, and it is
\* past its loop once a terminal frame was.
WireInv ==
    /\ gen # "end" => Len(wire) = expected - 1 /\ (ended <=> LastIsTerminal)
    /\ OneTerminalFrame /\ NeverRejected /\ NoTaskLeft
    /\ gen \in {"start", "reserve"} => wire = <<>> /\ queue = <<>> /\ task = "none"
    /\ gen \in {"loop", "wait"} => ~ended
    /\ gen = "yield" => wire # <<>>
    /\ gen = "join" /\ cause = "budget" => ~ended

\* The record of a turn is committed where its task ends; one that was
\* cancelled before its first step leaves it to the budget arm.
LedgerInv ==
    /\ task # "done" => commits = <<>>
    /\ Len(commits) <= 1
    /\ task \in {"verify", "deliver", "asked", "conclude"} => recorded = "completed"
    /\ task = "none" => ~cancelling
    /\ task = "starting" /\ cancelling => gen = "join" /\ cause = "budget"
    /\ task = "starting" /\ ~cancelling => gen \in {"loop", "wait"}
    /\ task = "done" /\ commits = <<>> =>
           \/ gen = "join" /\ cause = "budget"
           \/ gen = "end" /\ timeouts > 0
    /\ \A i \in 1..Len(queue) :
           queue[i].kind = "turn_outcome" => commits = <<"completed">>
    /\ ShownIsCompleted /\ CaptureKept
=============================================================================
