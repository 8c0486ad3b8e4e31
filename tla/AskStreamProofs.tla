-------------------------- MODULE AskStreamProofs --------------------------
(***************************************************************************)
(* The streamed turn of AskStream.tla for any frame sizes, limits and       *)
(* number of frames: types, the sequence of the wire, the bytes of the      *)
(* queue, and that it implements StreamContract.                            *)
(***************************************************************************)
EXTENDS AskStream, WellFoundedInduction, TLAPS

\* The fields of a frame.
LEMMA FrameType ==
    ASSUME NEW kind \in Kinds, NEW seq \in Nat, NEW size \in Nat
    PROVE  /\ Frame(kind, seq, size) \in Frames
           /\ Frame(kind, seq, size).kind = kind
           /\ Frame(kind, seq, size).seq = seq
           /\ Frame(kind, seq, size).size = size
BY DEF Frame, Frames

LEMMA ErrorFrameType ==
    ASSUME NEW seq \in Nat
    PROVE  /\ ErrorFrame(seq) \in Frames
           /\ ErrorFrame(seq).kind = "stream_error"
           /\ ErrorFrame(seq).seq = seq
<1>1. "stream_error" \in Kinds
  BY DEF Kinds, Terminal
<1> QED
  BY <1>1, FrameType DEF ErrorFrame

\* What commit and the writer leave.
LEMMA CommitType ==
    ASSUME NEW done \in Seq(Outcomes), NEW outcome \in Outcomes
    PROVE  Committed(done, outcome) \in Seq(Outcomes) \ {<<>>}
BY DEF Committed

LEMMA ResolvedType ==
    ASSUME NEW captured \in Outcomes \cup {"none"},
           NEW fallback \in Outcomes \cup {"none"}
    PROVE  Resolved(captured, fallback) \in Outcomes
BY DEF Resolved, Outcomes

LEMMA CapturedType ==
    ASSUME recorded \in Outcomes \cup {"none"}, NEW outcome \in Outcomes
    PROVE  Captured(outcome) \in Outcomes
BY DEF Captured

LEMMA OutcomeNames ==
    {"completed", "stopped", "error"} \subseteq Outcomes
BY DEF Outcomes

LEMMA PutType ==
    ASSUME TypeOK, NEW kind \in Kinds, NEW size \in Sizes, Put(kind, size)
    PROVE  queue' \in Seq(Frames) /\ bytes' \in Nat /\ next' \in Nat
<1>1. next \in Nat /\ size \in Nat /\ bytes \in Nat /\ queue \in Seq(Frames)
  BY SizesAssumption DEF TypeOK
<1>2. Frame(kind, next, size) \in Frames
  BY <1>1, FrameType
<1> QED
  BY <1>1, <1>2 DEF Put

LEMMA FailTurnType ==
    ASSUME TypeOK, NEW captured \in Outcomes \cup {"none"}, FailTurn(captured)
    PROVE  /\ recorded' \in Outcomes \cup {"none"} /\ task' \in Steps
           /\ queue' \in Seq(Frames) /\ closed' \in BOOLEAN
           /\ bytes' \in Nat /\ next' \in Nat /\ commits' \in Seq(Outcomes)
<1>1. next \in Nat /\ bytes \in Nat /\ queue \in Seq(Frames)
      /\ commits \in Seq(Outcomes)
  BY DEF TypeOK
<1>2. ErrorFrame(next) \in Frames
  BY <1>1, ErrorFrameType
<1>3. Resolved(captured, "none") \in Outcomes
  BY ResolvedType
<1>4. Committed(commits, Resolved(captured, "none")) \in Seq(Outcomes)
  BY <1>1, <1>3, CommitType
<1> QED
  BY <1>1, <1>2, <1>4 DEF FailTurn, Steps

LEMMA OverflowedType ==
    ASSUME TypeOK, Overflowed
    PROVE  /\ recorded' \in Outcomes \cup {"none"} /\ task' \in Steps
           /\ closed' \in BOOLEAN /\ commits' \in Seq(Outcomes)
<1>1. commits \in Seq(Outcomes) /\ recorded \in Outcomes \cup {"none"}
  BY DEF TypeOK
<1>2. Captured("error") \in Outcomes
  BY <1>1, OutcomeNames, CapturedType
<1>3. Resolved(recorded, "none") \in Outcomes
  BY <1>1, ResolvedType
<1>4. Committed(commits, "error") \in Seq(Outcomes)
  BY <1>1, OutcomeNames, CommitType
<1>5. Committed(Committed(commits, "error"), Resolved(recorded, "none"))
        \in Seq(Outcomes)
  BY <1>3, <1>4, CommitType
<1> QED
  BY <1>2, <1>5 DEF Overflowed, Steps

LEMMA StopTurnType ==
    ASSUME TypeOK, NEW captured \in Outcomes \cup {"none"}, StopTurn(captured)
    PROVE  /\ recorded' \in Outcomes \cup {"none"} /\ task' \in Steps
           /\ UNCHANGED <<queue, bytes, next>> /\ closed' \in BOOLEAN
           /\ commits' \in Seq(Outcomes)
<1>1. commits \in Seq(Outcomes)
  BY DEF TypeOK
<1>2. Resolved(captured, "stopped") \in Outcomes
  BY OutcomeNames, ResolvedType
<1>3. Resolved(captured, "none") \in Outcomes
  BY ResolvedType
<1>4. Committed(commits, Resolved(captured, "stopped")) \in Seq(Outcomes)
  BY <1>1, <1>2, CommitType
<1>5. Committed(Committed(commits, Resolved(captured, "stopped")),
                Resolved(captured, "none")) \in Seq(Outcomes)
  BY <1>3, <1>4, CommitType
<1> QED
  BY <1>5 DEF StopTurn, Steps

LEMMA WrittenType ==
    ASSUME TypeOK, MayHaveWritten
    PROVE  /\ transcript' \in Seq({"answer", "timeout", "stopped"})
           /\ sealed' \in {"none", "answer", "stopped"}
<1>1. transcript \in Seq({"answer", "timeout", "stopped"})
      /\ sealed \in {"none", "answer", "stopped"}
  BY DEF TypeOK
<1>2. sealed' \in {"none", "answer", "stopped"}
  BY <1>1 DEF MayHaveWritten, Seal
<1>3. transcript' \in Seq({"answer", "timeout", "stopped"})
  BY <1>1 DEF MayHaveWritten
<1> QED
  BY <1>2, <1>3

LEMMA TimeOutType ==
    ASSUME TypeOK, TimeOut
    PROVE  /\ recorded' \in Outcomes \cup {"none"} /\ task' \in Steps
           /\ timeouts' \in Nat
           /\ transcript' \in Seq({"answer", "timeout", "stopped"})
           /\ sealed' \in {"none", "answer", "stopped"}
           /\ UNCHANGED <<queueVars, next, commits>>
<1>1. Captured("error") \in Outcomes
  BY OutcomeNames, CapturedType DEF TypeOK
<1>2. timeouts \in Nat
  BY DEF TypeOK
<1>3. MayHaveWritten
  BY DEF TimeOut
<1>4. /\ transcript' \in Seq({"answer", "timeout", "stopped"})
      /\ sealed' \in {"none", "answer", "stopped"}
  BY <1>3, WrittenType
<1>5. "marking" \in Steps
  BY DEF Steps
<1> QED
  BY <1>1, <1>2, <1>4, <1>5 DEF TimeOut

\* The variables that no step of the producer touches, and the others.
GenTypes ==
    /\ gen \in {"start", "reserve", "loop", "wait", "yield", "join", "end"}
    /\ cause \in Terminal \cup {"none", "closed", "disconnect", "budget", "rejected"}
    /\ wire \in Seq([kind: Kinds, seq: Nat])
    /\ expected \in Nat /\ ended \in BOOLEAN

EnvTypes ==
    /\ detached \in {"none", "mark", "seal", "done"}
    /\ late \in BOOLEAN /\ signal \in BOOLEAN /\ gone \in BOOLEAN
    /\ stopped \in BOOLEAN

TaskTypes ==
    /\ queue \in Seq(Frames) /\ closed \in BOOLEAN /\ bytes \in Nat
    /\ task \in Steps /\ cancelling \in BOOLEAN /\ next \in Nat
    /\ recorded \in Outcomes \cup {"none"}

WrittenTypes ==
    /\ commits \in Seq(Outcomes) /\ timeouts \in Nat
    /\ transcript \in Seq({"answer", "timeout", "stopped"})
    /\ sealed \in {"none", "answer", "stopped"}

LEMMA TypeParts == TypeOK <=> GenTypes /\ EnvTypes /\ TaskTypes /\ WrittenTypes
BY DEF TypeOK, GenTypes, EnvTypes, TaskTypes, WrittenTypes

LEMMA TypePartsNext ==
    GenTypes' /\ EnvTypes' /\ TaskTypes' /\ WrittenTypes' => TypeOK'
BY DEF TypeOK, GenTypes, EnvTypes, TaskTypes, WrittenTypes

LEMMA GenKept == GenTypes /\ UNCHANGED genVars => GenTypes'
BY DEF GenTypes, genVars

LEMMA EnvKept == EnvTypes /\ UNCHANGED envVars => EnvTypes'
BY DEF EnvTypes, envVars

LEMMA TaskKept == TaskTypes /\ UNCHANGED <<queueVars, taskVars>> => TaskTypes'
BY DEF TaskTypes, queueVars, taskVars

LEMMA WrittenKept == WrittenTypes /\ UNCHANGED writtenVars => WrittenTypes'
BY DEF WrittenTypes, writtenVars

LEMMA TypeInit == Init => TypeOK
<1> SUFFICES ASSUME Init PROVE TypeOK
  OBVIOUS
<1>1. GenTypes
  <2>1. ended \in BOOLEAN
    BY DEF Init
  <2>2. expected \in Nat /\ wire \in Seq([kind: Kinds, seq: Nat])
    BY DEF Init
  <2> QED
    BY <2>1, <2>2 DEF Init, GenTypes
<1>2. EnvTypes
  BY DEF Init, EnvTypes
<1>3. TaskTypes
  <2>1. closed \in BOOLEAN /\ cancelling \in BOOLEAN
    BY DEF Init
  <2>2. bytes \in Nat /\ next \in Nat /\ queue \in Seq(Frames)
    BY DEF Init
  <2> QED
    BY <2>1, <2>2 DEF Init, TaskTypes, Steps
<1>4. WrittenTypes
  BY DEF Init, WrittenTypes
<1> QED
  BY <1>1, <1>2, <1>3, <1>4, TypeParts

\* The steps of the producer that only move on, write or queue a frame.
LEMMA ProducerType ==
    ASSUME TypeOK,
           \/ BeginFinalize \/ SealAnswer \/ PersistAnswer \/ Verified \/ Check
           \/ \E size \in Sizes : \/ Start(size) \/ Interaction(size)
                                  \/ Text(size) \/ Progress(size)
    PROVE  TypeOK'
<1>p. GenTypes /\ EnvTypes /\ TaskTypes /\ WrittenTypes
  BY TypeParts
<1>s. {"refuse", "work", "seal", "persist", "verify", "deliver", "asked",
       "conclude"} \subseteq Steps
  BY DEF Steps, Child, Busy
<1>k. {"turn_accepted", "interaction", "text", "activity"} \subseteq Kinds
  BY DEF Kinds
<1>1. UNCHANGED genVars /\ UNCHANGED envVars
  BY DEF BeginFinalize, SealAnswer, PersistAnswer, Verified, Check, Start,
     Interaction, Text, Progress, envVars
<1>2. TaskTypes'
  <2>1. CASE BeginFinalize \/ SealAnswer \/ PersistAnswer \/ Verified \/ Check
    <3>1. UNCHANGED <<queueVars, cancelling, next>> /\ task' \in Steps
      BY <2>1, <1>s DEF BeginFinalize, SealAnswer, PersistAnswer, Verified, Check
    <3>2. recorded' = recorded \/ recorded' = "completed"
      BY <2>1
      DEF BeginFinalize, SealAnswer, PersistAnswer, Verified, Check, Record
    <3>3. recorded' \in Outcomes \cup {"none"}
      BY <3>2, <1>p, OutcomeNames DEF TaskTypes
    <3> QED
      BY <3>1, <3>3, <1>p DEF TaskTypes, queueVars
  <2>2. ASSUME NEW size \in Sizes,
               Start(size) \/ Interaction(size) \/ Text(size)
        PROVE  TaskTypes'
    <3>1. PICK kind \in Kinds : Put(kind, size)
      BY <2>2, <1>k DEF Start, Interaction, Text
    <3>2. UNCHANGED <<closed, cancelling, recorded>> /\ task' \in Steps
      BY <2>2, <1>s, <1>p DEF Start, Interaction, Text, TaskTypes
    <3> QED
      BY <3>1, <3>2, <1>p, PutType DEF TaskTypes
  <2>3. ASSUME NEW size \in Sizes, Progress(size)
        PROVE  TaskTypes'
    <3>1. UNCHANGED <<closed, task, cancelling, recorded>>
      BY <2>3 DEF Progress
    <3>2. Put("activity", size) \/ UNCHANGED <<next, queue, bytes>>
      BY <2>3 DEF Progress, Dropped
    <3> QED
      BY <3>1, <3>2, <1>p, <1>k, PutType DEF TaskTypes
  <2> QED
    BY <2>1, <2>2, <2>3
<1>3. WrittenTypes'
  <2>1. CASE SealAnswer
    BY <2>1, <1>p DEF SealAnswer, WrittenTypes, Seal
  <2>2. CASE PersistAnswer
    BY <2>2, <1>p DEF PersistAnswer, WrittenTypes
  <2>3. CASE ~SealAnswer /\ ~PersistAnswer
    <3>1. UNCHANGED writtenVars
      BY <2>3 DEF BeginFinalize, Verified, Check, Start, Interaction, Text, Progress
    <3> QED
      BY <3>1, <1>p, WrittenKept
  <2> QED
    BY <2>1, <2>2, <2>3
<1> QED
  BY <1>p, <1>1, <1>2, <1>3, GenKept, EnvKept, TypePartsNext

\* The ends of a turn.
LEMMA EndType ==
    ASSUME TypeOK,
           Fails \/ Cancel \/ Mark \/ Expire \/ Interrupt
    PROVE  TypeOK'
<1>p. GenTypes /\ EnvTypes /\ TaskTypes /\ WrittenTypes
  BY TypeParts
<1>o. recorded \in Outcomes \cup {"none"} /\ Captured("error") \in Outcomes
      /\ Captured("stopped") \in Outcomes /\ "stopped" \in Outcomes
  BY <1>p, OutcomeNames, CapturedType DEF TaskTypes
<1>g. UNCHANGED genVars
  BY DEF Fails, Cancel, Mark, Expire, Interrupt
<1>e. EnvTypes'
  BY <1>p DEF Fails, Cancel, Mark, Expire, Interrupt, EnvTypes, envVars
<1>c. cancelling' \in BOOLEAN
  BY <1>p DEF Fails, Cancel, Mark, Expire, Interrupt, TaskTypes
<1>1. ASSUME NEW captured \in Outcomes \cup {"none"}, FailTurn(captured),
             UNCHANGED <<timeouts, sealed>>,
             \/ UNCHANGED transcript
             \/ transcript' = Append(transcript, "timeout")
      PROVE  TypeOK'
  <2>1. TaskTypes' /\ commits' \in Seq(Outcomes)
    BY <1>1, <1>c, FailTurnType DEF TaskTypes
  <2>2. WrittenTypes'
    BY <1>1, <1>p, <2>1 DEF WrittenTypes
  <2> QED
    BY <2>1, <2>2, <1>p, <1>g, <1>e, GenKept, TypePartsNext
<1>2. ASSUME NEW captured \in Outcomes \cup {"none"}, StopTurn(captured),
             UNCHANGED timeouts,
             \/ MayHaveWritten \/ UNCHANGED <<transcript, sealed>>
      PROVE  TypeOK'
  <2>1. TaskTypes' /\ commits' \in Seq(Outcomes)
    BY <1>2, <1>c, <1>p, StopTurnType DEF TaskTypes
  <2>2. /\ transcript' \in Seq({"answer", "timeout", "stopped"})
        /\ sealed' \in {"none", "answer", "stopped"}
    BY <1>2, <1>p, WrittenType DEF WrittenTypes
  <2>3. WrittenTypes'
    BY <1>2, <1>p, <2>1, <2>2 DEF WrittenTypes
  <2> QED
    BY <2>1, <2>3, <1>p, <1>g, <1>e, GenKept, TypePartsNext
<1>3. ASSUME TimeOut PROVE TypeOK'
  <2>1. TaskTypes'
    BY <1>3, <1>c, <1>p, TimeOutType DEF TaskTypes, queueVars
  <2>2. WrittenTypes'
    BY <1>3, <1>p, TimeOutType DEF WrittenTypes
  <2> QED
    BY <2>1, <2>2, <1>p, <1>g, <1>e, GenKept, TypePartsNext
<1>4. CASE Fails
  <2>1. (IF task \in Child THEN Captured("error") ELSE recorded)
            \in Outcomes \cup {"none"}
    BY <1>o
  <2> QED
    BY <1>4, <2>1, <1>1 DEF Fails
<1>5. CASE Cancel
  BY <1>5, <1>o, <1>2 DEF Cancel
<1>6. CASE Mark
  BY <1>6, <1>o, <1>1 DEF Mark
<1>7. CASE Expire
  BY <1>7, <1>3 DEF Expire
<1>8. CASE Interrupt
  <2>1. CASE task = "starting" /\ task' = "done"
             /\ UNCHANGED <<queueVars, next, recorded, writtenVars>>
    <3>1. TaskTypes'
      BY <2>1, <1>c, <1>p DEF TaskTypes, queueVars, Steps
    <3> QED
      BY <2>1, <3>1, <1>p, <1>g, <1>e, GenKept, WrittenKept, TypePartsNext
  <2>2. CASE TimeOut
    BY <2>2, <1>3
  <2>3. CASE StopTurn(Captured("stopped")) /\ MayHaveWritten /\ UNCHANGED timeouts
    BY <2>3, <1>o, <1>2
  <2>4. CASE StopTurn(recorded) /\ MayHaveWritten /\ UNCHANGED timeouts
    BY <2>4, <1>o, <1>2
  <2> QED
    BY <1>8, <2>1, <2>2, <2>3, <2>4 DEF Interrupt
<1> QED
  BY <1>4, <1>5, <1>6, <1>7, <1>8

\* The frames of a table and what a limit ends.
LEMMA FrameStepType ==
    ASSUME TypeOK, NEW size \in Sizes,
           \/ Paint(size) \/ PaintBreaks(size) \/ Overflows(size)
           \/ Conclude(size)
    PROVE  TypeOK'
<1>p. GenTypes /\ EnvTypes /\ TaskTypes /\ WrittenTypes
  BY TypeParts
<1>n. /\ size \in Nat /\ next \in Nat /\ next + 1 \in Nat /\ bytes \in Nat
      /\ queue \in Seq(Frames) /\ commits \in Seq(Outcomes)
      /\ closed \in BOOLEAN /\ cancelling \in BOOLEAN
  BY <1>p, SizesAssumption DEF TaskTypes, WrittenTypes
<1>k. {"table_start", "table_end", "turn_outcome"} \subseteq Kinds
  BY DEF Kinds, Terminal
<1>g. UNCHANGED genVars /\ UNCHANGED envVars /\ cancelling' \in BOOLEAN
  BY <1>n DEF Paint, PaintBreaks, Overflows, Conclude
<1>f. /\ Frame("table_start", next, size) \in Frames
      /\ Frame("table_end", next + 1, size) \in Frames
      /\ ErrorFrame(next) \in Frames /\ ErrorFrame(next + 1) \in Frames
  BY <1>n, <1>k, FrameType, ErrorFrameType
<1>1. CASE Paint(size)
  <2>1. queue' \in Seq(Frames) /\ bytes' \in Nat /\ next' \in Nat
    BY <1>1, <1>n, <1>f DEF Paint
  <2>2. TaskTypes' /\ UNCHANGED writtenVars
    BY <1>1, <2>1, <1>g, <1>p DEF Paint, TaskTypes
  <2> QED
    BY <2>2, <1>p, <1>g, GenKept, EnvKept, WrittenKept, TypePartsNext
<1>2. CASE PaintBreaks(size)
  <2>1. queue' \in Seq(Frames) /\ bytes' \in Nat /\ next' \in Nat
    BY <1>2, <1>n, <1>f DEF PaintBreaks
  <2>2. TaskTypes' /\ commits' \in Seq(Outcomes)
    BY <1>2, <2>1, <1>g, OverflowedType DEF PaintBreaks, TaskTypes
  <2>3. WrittenTypes'
    BY <1>2, <2>2, <1>p DEF PaintBreaks, WrittenTypes
  <2> QED
    BY <2>2, <2>3, <1>p, <1>g, GenKept, EnvKept, TypePartsNext
<1>3. CASE Overflows(size)
  <2>1. queue' \in Seq(Frames) /\ bytes' \in Nat /\ next' \in Nat
    BY <1>3, <1>n, <1>f DEF Overflows
  <2>2. TaskTypes' /\ commits' \in Seq(Outcomes)
    BY <1>3, <2>1, <1>g, OverflowedType DEF Overflows, TaskTypes
  <2>3. WrittenTypes'
    BY <1>3, <2>2, <1>p DEF Overflows, WrittenTypes
  <2> QED
    BY <2>2, <2>3, <1>p, <1>g, GenKept, EnvKept, TypePartsNext
<1>4. CASE Conclude(size)
  <2>1. queue' \in Seq(Frames) /\ bytes' \in Nat /\ next' \in Nat
    BY <1>4, <1>k, PutType DEF Conclude
  <2>2. closed' \in BOOLEAN /\ task' \in Steps /\ recorded' = recorded
    BY <1>4 DEF Conclude, Steps
  <2>3. Resolved(recorded, "none") \in Outcomes
    BY <1>p, ResolvedType DEF TaskTypes
  <2>4. commits' \in Seq(Outcomes)
    BY <1>4, <1>n, <2>3, CommitType DEF Conclude
  <2>5. TaskTypes' /\ WrittenTypes'
    BY <1>4, <2>1, <2>2, <2>4, <1>g, <1>p DEF Conclude, TaskTypes, WrittenTypes
  <2> QED
    BY <2>5, <1>p, <1>g, GenKept, EnvKept, TypePartsNext
<1> QED
  BY <1>1, <1>2, <1>3, <1>4

LEMMA SendType ==
    ASSUME wire \in Seq([kind: Kinds, seq: Nat]),
           NEW kind \in Kinds, NEW seq \in Nat, Send(kind, seq)
    PROVE  wire' \in Seq([kind: Kinds, seq: Nat])
<1>1. [kind |-> kind, seq |-> seq] \in [kind: Kinds, seq: Nat]
  OBVIOUS
<1> QED
  BY <1>1 DEF Send

LEMMA LeaveType ==
    ASSUME NEW c \in Terminal \cup {"none", "closed", "disconnect", "budget", "rejected"},
           Leave(c)
    PROVE  /\ gen' = "join" /\ cause' = c /\ cancelling' \in BOOLEAN
BY DEF Leave, Joined

LEMMA HeadFrame ==
    ASSUME queue \in Seq(Frames), queue # <<>>, bytes \in Nat
    PROVE  /\ Head(queue).kind \in Kinds /\ Head(queue).seq \in Nat
           /\ Tail(queue) \in Seq(Frames) /\ Freed(Head(queue)) \in Nat
<1>1. Head(queue) \in Frames /\ Tail(queue) \in Seq(Frames)
  OBVIOUS
<1>2. /\ Head(queue).kind \in Kinds /\ Head(queue).seq \in Nat
      /\ Head(queue).size \in Nat
  BY <1>1 DEF Frames
<1>3. Freed(Head(queue)) \in Nat
  BY <1>2 DEF Freed
<1> QED
  BY <1>1, <1>2, <1>3

\* A frame that is got.
LEMMA GetType == TypeOK /\ Get => TypeOK'
<1> SUFFICES ASSUME TypeOK, Get PROVE TypeOK'
  OBVIOUS
<1>p. GenTypes /\ EnvTypes /\ TaskTypes /\ WrittenTypes
  BY TypeParts
<1>h. /\ Head(queue).kind \in Kinds /\ Head(queue).seq \in Nat
      /\ Tail(queue) \in Seq(Frames) /\ Freed(Head(queue)) \in Nat
  BY <1>p, HeadFrame DEF Get, TaskTypes
<1>k. "stream_error" \in Kinds
  BY DEF Kinds, Terminal
<1>1. CASE Accepts(Head(queue))
  <2>1. wire' \in Seq([kind: Kinds, seq: Nat])
    BY <1>1, <1>p, <1>h, SendType DEF Get, GenTypes
  <2>2. gen' = "yield" /\ UNCHANGED <<cause, cancelling>>
    BY <1>1 DEF Get
  <2>3. expected' \in Nat
    BY <1>1, <1>p DEF Get, GenTypes
  <2>4. ended' \in BOOLEAN
    BY <1>1 DEF Get
  <2> QED
    BY <2>1, <2>2, <2>3, <2>4, <1>p, <1>h, WrittenKept, EnvKept, TypePartsNext
    DEF Get, GenTypes, TaskTypes
<1>2. CASE ~Accepts(Head(queue))
  <2>1. wire' \in Seq([kind: Kinds, seq: Nat])
    BY <1>2, <1>p, <1>h, <1>k, SendType DEF Get, GenTypes
  <2>2. gen' = "join" /\ cause' = "rejected" /\ cancelling' \in BOOLEAN
    BY <1>2, LeaveType DEF Get
  <2>3. UNCHANGED <<expected, ended>>
    BY <1>2 DEF Get
  <2> QED
    BY <2>1, <2>2, <2>3, <1>p, <1>h, WrittenKept, EnvKept, TypePartsNext
    DEF Get, GenTypes, TaskTypes
<1> QED
  BY <1>1, <1>2

\* The other steps of the generator and of the detached write.
LEMMA GeneratorType ==
    ASSUME TypeOK,
           \/ Open \/ Reserve \/ ReserveLate \/ Loop \/ Leaves \/ KeepAlive
           \/ Resume \/ CloseStream \/ Recancel \/ Stopped
           \/ DeadlinePasses \/ ClientCloses
    PROVE  TypeOK'
<1>p. GenTypes /\ EnvTypes /\ TaskTypes /\ WrittenTypes
  BY TypeParts
<1>k. "stream_error" \in Kinds /\ "stream_error" \in Terminal /\ 1 \in Nat
  BY DEF Kinds, Terminal
<1>1. UNCHANGED <<queueVars, next, recorded, expected, ended, commits>>
  BY DEF Open, Reserve, ReserveLate, Loop, Leaves, KeepAlive, Resume,
     CloseStream, Recancel, Stopped, DeadlinePasses, ClientCloses, genVars,
     taskVars, writtenVars
<1>2. wire' = wire \/ Send("stream_error", 1)
  BY DEF Open, Reserve, ReserveLate, Loop, Leaves, KeepAlive, Resume,
     CloseStream, Recancel, Stopped, DeadlinePasses, ClientCloses, genVars
<1>3. wire' \in Seq([kind: Kinds, seq: Nat])
  BY <1>2, <1>p, <1>k, SendType DEF GenTypes
<1>4. \/ UNCHANGED cause
      \/ \E c \in Terminal \cup {"none", "closed", "disconnect", "budget"} : Leave(c)
  BY DEF Open, Reserve, ReserveLate, Loop, Leaves, KeepAlive, Resume, Taken,
     CloseStream, Recancel, Stopped, DeadlinePasses, ClientCloses, genVars
<1>5. cause' \in Terminal \cup {"none", "closed", "disconnect", "budget", "rejected"}
  BY <1>4, <1>p DEF Leave, GenTypes
<1>6. gen' \in {"start", "reserve", "loop", "wait", "yield", "join", "end"}
  BY <1>p DEF Open, Reserve, ReserveLate, Loop, Leaves, KeepAlive, Resume, Taken,
     CloseStream, Recancel, Stopped, DeadlinePasses, ClientCloses, genVars,
     Leave, GenTypes
<1>7. GenTypes'
  BY <1>1, <1>3, <1>5, <1>6, <1>p DEF GenTypes
<1>8. EnvTypes'
  BY <1>p DEF Open, Reserve, ReserveLate, Loop, Leaves, KeepAlive, Resume,
     CloseStream, Recancel, Stopped, DeadlinePasses, ClientCloses, EnvTypes, envVars
<1>9. cancelling' \in BOOLEAN
  BY <1>p DEF Open, Reserve, ReserveLate, Loop, Leaves, KeepAlive, Resume, Taken,
     CloseStream, Recancel, Stopped, DeadlinePasses, ClientCloses, taskVars,
     Leave, Joined, TaskTypes
<1>10. task' \in Steps
  BY <1>p DEF Open, Reserve, ReserveLate, Loop, Leaves, KeepAlive, Resume,
     CloseStream, Recancel, Stopped, DeadlinePasses, ClientCloses, taskVars,
     TaskTypes, Steps
<1>11. TaskTypes'
  BY <1>1, <1>9, <1>10, <1>p DEF TaskTypes, queueVars
<1>12. timeouts' = timeouts \/ timeouts' = timeouts + 1
  BY DEF Open, Reserve, ReserveLate, Loop, Leaves, KeepAlive, Resume,
     CloseStream, Recancel, Stopped, DeadlinePasses, ClientCloses, writtenVars
<1>13. \/ transcript' = transcript
       \/ \E m \in {"timeout", "stopped"} : transcript' = Append(transcript, m)
  BY DEF Open, Reserve, ReserveLate, Loop, Leaves, KeepAlive, Resume,
     CloseStream, Recancel, Stopped, DeadlinePasses, ClientCloses, writtenVars
<1>14. sealed' \in {sealed, "stopped"}
  BY DEF Open, Reserve, ReserveLate, Loop, Leaves, KeepAlive, Resume, Seal,
     CloseStream, Recancel, Stopped, DeadlinePasses, ClientCloses, writtenVars
<1>15. WrittenTypes'
  <2>1. timeouts' \in Nat
    BY <1>12, <1>p DEF WrittenTypes
  <2>2. transcript' \in Seq({"answer", "timeout", "stopped"})
    <3>1. ASSUME NEW m \in {"answer", "timeout", "stopped"}
          PROVE  Append(transcript, m) \in Seq({"answer", "timeout", "stopped"})
      BY <1>p DEF WrittenTypes
    <3> QED
      BY <1>13, <1>p, <3>1 DEF WrittenTypes
  <2> QED
    BY <2>1, <2>2, <1>1, <1>14, <1>p DEF WrittenTypes
<1> QED
  BY <1>7, <1>8, <1>11, <1>15, TypePartsNext

LEMMA ReturnType == TypeOK /\ Return => TypeOK'
<1> SUFFICES ASSUME TypeOK, Return PROVE TypeOK'
  OBVIOUS
<1>p. GenTypes /\ EnvTypes /\ TaskTypes /\ WrittenTypes
  BY TypeParts
<1>k. "stream_error" \in Kinds /\ 1 \in Nat
  BY DEF Kinds, Terminal
<1>1. wire' \in Seq([kind: Kinds, seq: Nat])
  BY <1>p, <1>k, SendType DEF Return, LastWord, GenTypes
<1>2. GenTypes'
  BY <1>1, <1>p DEF Return, GenTypes
<1>3. EnvTypes'
  BY <1>p DEF Return, EnvTypes
<1>4. WrittenTypes'
  BY <1>p DEF Return, Closes, WrittenTypes
<1>5. UNCHANGED <<queueVars, taskVars>>
  BY DEF Return
<1> QED
  BY <1>2, <1>3, <1>4, <1>5, <1>p, TaskKept, TypePartsNext

LEMMA TypeStep == TypeOK /\ [Next]_vars => TypeOK'
<1> SUFFICES ASSUME TypeOK, [Next]_vars PROVE TypeOK'
  OBVIOUS
<1>1. CASE Producer
  BY <1>1, ProducerType, EndType, FrameStepType DEF Producer
<1>2. CASE Emit
  BY <1>2, ProducerType, FrameStepType DEF Emit
<1>3. CASE Cancel
  BY <1>3, EndType
<1>4. CASE Generator
  BY <1>4, GetType, ReturnType, GeneratorType DEF Generator
<1>5. CASE KeepAlive \/ Recancel \/ Stopped \/ DeadlinePasses \/ ClientCloses
  BY <1>5, GeneratorType
<1>6. CASE UNCHANGED vars
  <2>1. UNCHANGED genVars /\ UNCHANGED envVars /\ UNCHANGED writtenVars
        /\ UNCHANGED <<queueVars, taskVars>>
    BY <1>6 DEF vars
  <2> QED
    BY <2>1, TypeParts, GenKept, EnvKept, WrittenKept, TaskKept, TypePartsNext
<1> QED
  BY <1>1, <1>2, <1>3, <1>4, <1>5, <1>6 DEF Next

\* Every variable of a streamed turn keeps its type, whatever the sizes of its
\* frames and the limits of its buffer.
THEOREM TypeCorrect == Spec => []TypeOK
BY TypeInit, TypeStep, PTL DEF Spec
-----------------------------------------------------------------------------
(* The sequence of the wire.                                                *)

\* What a step of the producer makes of the queue.
Puts(f) == queue' = Append(queue, f) /\ next' = next + 1 /\ f.seq = next

\* A producer that may move has sent no terminal frame, and the generator has
\* not returned.
LEMMA Unended ==
    ASSUME TypeOK, QueueInv, WireInv, task \notin {"none", "done"}
    PROVE  /\ ~ended /\ gen \in {"loop", "wait", "yield", "join"}
           /\ \A i \in 1..Len(queue) : ~IsTerminal(queue[i])
BY DEF TypeOK, QueueInv, WireInv, NoTaskLeft

\* The producer moves on and leaves the queue alone.
LEMMA QueueKept ==
    ASSUME TypeOK, QueueInv, WireInv, task \notin {"none", "done"},
           UNCHANGED genVars, UNCHANGED <<queue, next>>
    PROVE  QueueInv' /\ WireInv'
<1>1. ~ended /\ gen \in {"loop", "wait", "yield", "join"}
      /\ \A i \in 1..Len(queue) : ~IsTerminal(queue[i])
  BY Unended
<1>2. UNCHANGED <<gen, cause, wire, expected, ended>>
  BY DEF genVars
<1>3. QueueInv'
  BY <1>1, <1>2 DEF QueueInv, IsTerminal
<1>4. WireInv'
  BY <1>1, <1>2 DEF WireInv, LastIsTerminal, OneTerminalFrame, NeverRejected,
     NoTaskLeft, IsTerminal
<1> QED
  BY <1>3, <1>4

\* The producer puts a frame; a terminal one is its last.
LEMMA QueuePut ==
    ASSUME TypeOK, QueueInv, WireInv, task \notin {"none", "done"},
           UNCHANGED genVars, NEW f \in Frames, Puts(f),
           IsTerminal(f) => task' = "done"
    PROVE  QueueInv' /\ WireInv'
<1>1. ~ended /\ gen \in {"loop", "wait", "yield", "join"}
      /\ \A i \in 1..Len(queue) : ~IsTerminal(queue[i])
  BY Unended
<1>2. UNCHANGED <<gen, cause, wire, expected, ended>>
  BY DEF genVars
<1>3. /\ queue \in Seq(Frames) /\ expected \in Nat
      /\ next = expected + Len(queue) /\ f.seq = next
      /\ queue' = Append(queue, f) /\ next' = next + 1
  BY DEF TypeOK, QueueInv, Puts
<1>4. /\ Len(queue') = Len(queue) + 1 /\ queue'[Len(queue')] = f
      /\ \A i \in 1..Len(queue) : queue'[i] = queue[i]
  BY <1>3
<1>5. next' = expected' + Len(queue')
  BY <1>2, <1>3, <1>4
<1>6. ASSUME NEW i \in 1..Len(queue')
      PROVE  /\ queue'[i].seq = expected' + i - 1
             /\ IsTerminal(queue'[i]) => i = Len(queue') /\ task' = "done"
  <2>1. CASE i = Len(queue')
    BY <1>2, <1>3, <1>4, <2>1
  <2>2. CASE i # Len(queue')
    <3>1. i \in 1..Len(queue) /\ queue'[i] = queue[i]
      BY <1>3, <1>4, <2>2
    <3>2. queue[i].seq = expected + i - 1 /\ ~IsTerminal(queue[i])
      BY <3>1, <1>1 DEF QueueInv
    <3> QED
      BY <3>1, <3>2, <1>2
  <2> QED
    BY <2>1, <2>2
<1>7. QueueInv'
  BY <1>1, <1>2, <1>5, <1>6 DEF QueueInv, IsTerminal
<1>8. WireInv'
  BY <1>1, <1>2 DEF WireInv, LastIsTerminal, OneTerminalFrame, NeverRejected,
     NoTaskLeft, IsTerminal
<1> QED
  BY <1>7, <1>8

\* A table puts two frames at once.
LEMMA QueuePutTwo ==
    ASSUME TypeOK, QueueInv, WireInv, task \notin {"none", "done"},
           UNCHANGED genVars, NEW f \in Frames, NEW g \in Frames,
           f.seq = next, g.seq = next + 1, ~IsTerminal(f),
           queue' = Append(Append(queue, f), g), next' = next + 2,
           IsTerminal(g) => task' = "done"
    PROVE  QueueInv' /\ WireInv'
<1>1. ~ended /\ gen \in {"loop", "wait", "yield", "join"}
      /\ \A i \in 1..Len(queue) : ~IsTerminal(queue[i])
  BY Unended
<1>2. UNCHANGED <<gen, cause, wire, expected, ended>>
  BY DEF genVars
<1>3. /\ queue \in Seq(Frames) /\ expected \in Nat
      /\ next = expected + Len(queue)
  BY DEF TypeOK, QueueInv
<1>4. /\ Len(queue') = Len(queue) + 2 /\ queue'[Len(queue')] = g
      /\ queue'[Len(queue) + 1] = f
      /\ \A i \in 1..Len(queue) : queue'[i] = queue[i]
  BY <1>3
<1>5. next' = expected' + Len(queue')
  BY <1>2, <1>3, <1>4
<1>6. ASSUME NEW i \in 1..Len(queue')
      PROVE  /\ queue'[i].seq = expected' + i - 1
             /\ IsTerminal(queue'[i]) => i = Len(queue') /\ task' = "done"
  <2>1. CASE i = Len(queue')
    BY <1>2, <1>3, <1>4, <2>1
  <2>2. CASE i = Len(queue) + 1
    BY <1>2, <1>3, <1>4, <2>2
  <2>3. CASE i \notin {Len(queue'), Len(queue) + 1}
    <3>1. i \in 1..Len(queue) /\ queue'[i] = queue[i]
      BY <1>3, <1>4, <2>3
    <3>2. queue[i].seq = expected + i - 1 /\ ~IsTerminal(queue[i])
      BY <3>1, <1>1 DEF QueueInv
    <3> QED
      BY <3>1, <3>2, <1>2
  <2> QED
    BY <2>1, <2>2, <2>3
<1>7. QueueInv'
  BY <1>1, <1>2, <1>5, <1>6 DEF QueueInv, IsTerminal
<1>8. WireInv'
  BY <1>1, <1>2 DEF WireInv, LastIsTerminal, OneTerminalFrame, NeverRejected,
     NoTaskLeft, IsTerminal
<1> QED
  BY <1>7, <1>8

LEMMA KindNames ==
    /\ {"turn_accepted", "activity", "table_start", "table_end", "text",
        "interaction"} \subseteq Kinds \ Terminal
    /\ {"turn_outcome", "stream_error"} \subseteq Kinds
    /\ Terminal = {"turn_outcome", "stream_error"}
BY DEF Kinds, Terminal

\* What Put and ErrorFrame put.
LEMMA PutPuts ==
    ASSUME TypeOK, NEW kind \in Kinds, NEW size \in Sizes, Put(kind, size)
    PROVE  \E f \in Frames : Puts(f) /\ f.kind = kind
<1>1. next \in Nat /\ size \in Nat
  BY SizesAssumption DEF TypeOK
<1>2. /\ Frame(kind, next, size) \in Frames
      /\ Frame(kind, next, size).kind = kind
      /\ Frame(kind, next, size).seq = next
  BY <1>1, FrameType
<1> QED
  BY <1>2 DEF Put, Puts

LEMMA FailPuts ==
    ASSUME TypeOK, queue' = Append(queue, ErrorFrame(next)), next' = next + 1
    PROVE  \E f \in Frames : Puts(f) /\ f.kind = "stream_error"
BY ErrorFrameType DEF TypeOK, Puts

\* A producer that is stopped leaves the queue as it is, one that fails puts
\* its error, and the others put one frame or two.
LEMMA ProducerSequence ==
    ASSUME TypeOK, QueueInv, WireInv, Producer \/ Emit \/ Cancel
    PROVE  QueueInv' /\ WireInv'
<1>k. /\ {"turn_accepted", "activity", "table_start", "table_end", "text",
          "interaction"} \subseteq Kinds \ Terminal
      /\ {"turn_outcome", "stream_error"} \subseteq Kinds
  BY KindNames
<1>p. ASSUME task \notin {"none", "done"}, UNCHANGED genVars,
             NEW f \in Frames, Puts(f),
             f.kind \notin Terminal \/ task' = "done"
      PROVE  QueueInv' /\ WireInv'
  BY <1>p, QueuePut DEF IsTerminal
<1>1. CASE BeginFinalize \/ SealAnswer \/ PersistAnswer \/ Verified \/ Check
  <2>1. task \notin {"none", "done"}
    BY <1>1 DEF BeginFinalize, SealAnswer, PersistAnswer, Verified, Check, At
  <2>2. UNCHANGED genVars /\ UNCHANGED <<queue, next>>
    BY <1>1 DEF BeginFinalize, SealAnswer, PersistAnswer, Verified, Check, queueVars
  <2> QED
    BY <2>1, <2>2, QueueKept
<1>2. CASE Cancel \/ Expire
  <2>1. task \notin {"none", "done"}
    BY <1>2 DEF Cancel, Expire, At, Child
  <2>2. UNCHANGED genVars /\ UNCHANGED <<queue, next>>
    BY <1>2 DEF Cancel, Expire, StopTurn, TimeOut, queueVars
  <2> QED
    BY <2>1, <2>2, QueueKept
<1>3. CASE Interrupt
  <2>1. task \notin {"none", "done"}
    BY <1>3 DEF Interrupt, Child
  <2>2. UNCHANGED genVars /\ UNCHANGED <<queue, next>>
    BY <1>3 DEF Interrupt, StopTurn, TimeOut, queueVars
  <2> QED
    BY <2>1, <2>2, QueueKept
<1>4. CASE Fails \/ Mark
  <2>1. task \notin {"none", "done"} /\ UNCHANGED genVars
    BY <1>4 DEF Fails, Mark, At
  <2>2. task' = "done" /\ queue' = Append(queue, ErrorFrame(next))
        /\ next' = next + 1
    BY <1>4 DEF Fails, Mark, FailTurn
  <2> QED
    BY <2>1, <2>2, <1>p, FailPuts
<1>5. ASSUME NEW size \in Sizes, Start(size) \/ Interaction(size) \/ Text(size)
      PROVE  QueueInv' /\ WireInv'
  <2>1. task \notin {"none", "done"} /\ UNCHANGED genVars
    BY <1>5 DEF Start, Interaction, Text, At
  <2>2. PICK kind \in Kinds \ Terminal : Put(kind, size)
    BY <1>5, <1>k DEF Start, Interaction, Text
  <2> QED
    BY <2>1, <2>2, <1>p, PutPuts
<1>6. ASSUME NEW size \in Sizes, Progress(size) PROVE QueueInv' /\ WireInv'
  <2>1. task \notin {"none", "done"} /\ UNCHANGED genVars
    BY <1>6 DEF Progress
  <2>2. CASE Put("activity", size)
    BY <2>1, <2>2, <1>k, <1>p, PutPuts
  <2>3. CASE UNCHANGED <<queue, next>>
    BY <2>1, <2>3, QueueKept
  <2> QED
    BY <1>6, <2>2, <2>3 DEF Progress, Dropped
<1>7. ASSUME NEW size \in Sizes, Conclude(size) PROVE QueueInv' /\ WireInv'
  <2>1. task \notin {"none", "done"} /\ UNCHANGED genVars
        /\ Put("turn_outcome", size) /\ task' = "done"
    BY <1>7 DEF Conclude, At
  <2> QED
    BY <2>1, <1>k, <1>p, PutPuts
<1>8. ASSUME NEW size \in Sizes, Overflows(size) PROVE QueueInv' /\ WireInv'
  <2>1. task \notin {"none", "done"} /\ UNCHANGED genVars
    BY <1>8 DEF Overflows, At
  <2>2. task' = "done" /\ queue' = Append(queue, ErrorFrame(next))
        /\ next' = next + 1
    BY <1>8 DEF Overflows, Overflowed
  <2> QED
    BY <2>1, <2>2, <1>p, FailPuts
<1>9. ASSUME NEW size \in Sizes, Paint(size) \/ PaintBreaks(size)
      PROVE  QueueInv' /\ WireInv'
  <2>1. task \notin {"none", "done"} /\ UNCHANGED genVars
    BY <1>9 DEF Paint, PaintBreaks, At
  <2>2. next \in Nat /\ size \in Nat /\ next + 1 \in Nat
    BY SizesAssumption DEF TypeOK
  <2> DEFINE f == Frame("table_start", next, size)
             g == Frame("table_end", next + 1, size)
             e == ErrorFrame(next + 1)
  <2>3. /\ f \in Frames /\ f.seq = next /\ ~IsTerminal(f)
        /\ g \in Frames /\ g.seq = next + 1 /\ ~IsTerminal(g)
        /\ e \in Frames /\ e.seq = next + 1
    BY <2>2, <1>k, FrameType, ErrorFrameType DEF IsTerminal
  <2>4. /\ next' = next + 2
        /\ \/ queue' = Append(Append(queue, f), g)
           \/ queue' = Append(Append(queue, f), e) /\ task' = "done"
    BY <1>9 DEF Paint, PaintBreaks, Overflowed
  <2> HIDE DEF f, g, e
  <2> QED
    BY <2>1, <2>3, <2>4, QueuePutTwo
<1> QED
  BY <1>1, <1>2, <1>3, <1>4, <1>5, <1>6, <1>7, <1>8, <1>9 DEF Producer, Emit

\* A frame that is got is the next one, so it is accepted.
LEMMA GetSequence ==
    ASSUME TypeOK, QueueInv, WireInv, Get
    PROVE  QueueInv' /\ WireInv'
<1>1. /\ queue \in Seq(Frames) /\ queue # <<>> /\ queue' = Tail(queue)
      /\ expected \in Nat /\ next = expected + Len(queue) /\ gen = "wait"
      /\ UNCHANGED <<task, next>> /\ ~ended
      /\ wire \in Seq([kind: Kinds, seq: Nat]) /\ Len(wire) = expected - 1
      /\ ~LastIsTerminal /\ OneTerminalFrame /\ NeverRejected /\ NoTaskLeft
  BY DEF TypeOK, QueueInv, WireInv, Get, taskVars
<1> DEFINE h == Head(queue)
<1>2. h = queue[1] /\ 1 \in 1..Len(queue)
  BY <1>1
<1>3. h.seq = expected /\ (IsTerminal(h) => Len(queue) = 1 /\ task = "done")
  <2>1. /\ queue[1].seq = expected + 1 - 1
        /\ IsTerminal(queue[1]) => 1 = Len(queue) /\ task = "done"
    BY <1>2 DEF QueueInv
  <2>2. expected + 1 - 1 = expected
    BY <1>1
  <2> QED
    BY <2>1, <2>2, <1>2
<1>a. Accepts(Head(queue))
  <2>1. Head(queue).seq = expected
    BY <1>3
  <2> QED
    BY <1>1, <2>1 DEF Accepts
<1>4. /\ wire' = Append(wire, [kind |-> h.kind, seq |-> h.seq])
      /\ expected' = expected + 1 /\ (ended' <=> IsTerminal(h))
      /\ gen' = "yield" /\ cause' = cause
  BY <1>a DEF Get, Send, IsTerminal
<1>b. Len(queue) \in Nat /\ Len(queue') \in Nat
  BY <1>1
<1>h. h.kind \in Kinds /\ h.seq \in Nat
  BY <1>1, HeadFrame DEF TypeOK
<1> HIDE DEF h
<1>5. /\ Len(wire') = Len(wire) + 1 /\ wire'[Len(wire')].kind = h.kind
      /\ \A i \in 1..Len(wire) : wire'[i] = wire[i]
      /\ wire' # <<>>
  <2>1. h.kind \in Kinds /\ h.seq \in Nat
    BY <1>h
  <2>2. [kind |-> h.kind, seq |-> h.seq] \in [kind: Kinds, seq: Nat]
    BY <2>1
  <2>3. [kind |-> h.kind, seq |-> h.seq].kind = h.kind
    OBVIOUS
  <2> DEFINE w == [kind |-> h.kind, seq |-> h.seq]
  <2> HIDE DEF w
  <2>4. wire' = Append(wire, w) /\ w \in [kind: Kinds, seq: Nat] /\ w.kind = h.kind
    BY <2>2, <2>3, <1>4 DEF w
  <2> QED
    BY <2>4, <1>1
<1>6. /\ Len(queue') = Len(queue) - 1
      /\ \A i \in 1..Len(queue') : i + 1 \in 1..Len(queue) /\ queue'[i] = queue[i + 1]
  <2>1. Len(queue') = Len(queue) - 1
    BY <1>1
  <2>2. \A i \in 1..Len(queue') : queue'[i] = queue[i + 1]
    BY <1>1
  <2> QED
    BY <2>1, <2>2, <1>b
<1>7. QueueInv'
  <2>1. next' = expected' + Len(queue')
    BY <1>1, <1>4, <1>6
  <2>2. ASSUME NEW i \in 1..Len(queue')
        PROVE  /\ queue'[i].seq = expected' + i - 1
               /\ IsTerminal(queue'[i]) => i = Len(queue') /\ task' = "done"
    <3>1. /\ queue[i + 1].seq = expected + (i + 1) - 1
          /\ IsTerminal(queue[i + 1]) => i + 1 = Len(queue) /\ task = "done"
      BY <1>6 DEF QueueInv
    <3>2. queue'[i] = queue[i + 1] /\ (i + 1 = Len(queue) => i = Len(queue'))
      BY <1>b, <1>6
    <3>3. expected + (i + 1) - 1 = expected' + i - 1
      BY <1>1, <1>4
    <3> QED
      BY <3>1, <3>2, <3>3, <1>1
  <2>3. ended' => queue' = <<>> /\ task' = "done"
    <3>1. Len(queue) = 1 => queue' = <<>>
      BY <1>1
    <3> QED
      BY <3>1, <1>1, <1>3, <1>4
  <2> QED
    BY <2>1, <2>2, <2>3 DEF QueueInv, IsTerminal
<1>8. \A i \in 1..Len(wire) : ~IsTerminal(wire[i])
  <2>1. SUFFICES ASSUME NEW i \in 1..Len(wire), IsTerminal(wire[i]) PROVE FALSE
    OBVIOUS
  <2>2. i = Len(wire) /\ wire # <<>>
    BY <1>1, <2>1 DEF OneTerminalFrame
  <2> QED
    BY <1>1, <2>1, <2>2 DEF LastIsTerminal
<1>9. OneTerminalFrame'
  <2>1. Len(wire) \in Nat
    BY <1>1
  <2>2. \A i \in 1..Len(wire') : i \in 1..Len(wire) \/ i = Len(wire')
    BY <2>1, <1>5
  <2>3. \A i \in 1..Len(wire) : ~IsTerminal(wire'[i])
    BY <1>5, <1>8
  <2> QED
    BY <2>2, <2>3 DEF OneTerminalFrame
<1>10. ended' <=> LastIsTerminal'
  <2>1. IsTerminal(h) <=> IsTerminal(wire'[Len(wire')])
    BY <1>5 DEF IsTerminal
  <2> QED
    BY <2>1, <1>4, <1>5 DEF LastIsTerminal
<1>11. Len(wire') = expected' - 1
  BY <1>1, <1>4, <1>5
<1>12. NeverRejected' /\ NoTaskLeft'
  BY <1>1, <1>4 DEF NeverRejected, NoTaskLeft
<1>13. WireInv'
  BY <1>4, <1>5, <1>9, <1>10, <1>11, <1>12 DEF WireInv
<1> QED
  BY <1>7, <1>13

\* Nothing the sequence depends on changes.
LEMMA SequenceKept ==
    ASSUME QueueInv, WireInv,
           UNCHANGED <<gen, cause, wire, expected, ended, queue, next, task>>
    PROVE  QueueInv' /\ WireInv'
BY DEF QueueInv, WireInv, LastIsTerminal, OneTerminalFrame, NeverRejected,
   NoTaskLeft, IsTerminal

\* The generator moves on and sends nothing.
LEMMA GeneratorMoves ==
    ASSUME QueueInv, WireInv,
           UNCHANGED <<wire, expected, ended, queue, next, task>>,
           cause' # "rejected",
           gen \in {"loop", "wait", "yield"}, gen' \in {"loop", "wait", "join"},
           gen' \in {"loop", "wait"} => ~ended,
           gen' = "join" /\ cause' = "budget" => ~ended
    PROVE  QueueInv' /\ WireInv'
<1>1. QueueInv'
  BY DEF QueueInv, IsTerminal
<1>2. WireInv'
  BY DEF WireInv, LastIsTerminal, OneTerminalFrame, NeverRejected, NoTaskLeft,
     IsTerminal
<1> QED
  BY <1>1, <1>2

\* A first frame is the only one.
LEMMA FirstFrame ==
    ASSUME wire = <<>>, NEW kind \in Kinds, NEW seq \in Nat, Send(kind, seq)
    PROVE  OneTerminalFrame'
<1> DEFINE w == [kind |-> kind, seq |-> seq]
<1>1. w \in [kind: Kinds, seq: Nat]
  OBVIOUS
<1> HIDE DEF w
<1>2. wire' = Append(wire, w)
  BY DEF Send, w
<1>3. Len(wire') = 1
  BY <1>1, <1>2
<1> QED
  BY <1>3 DEF OneTerminalFrame

LEMMA ReturnSequence ==
    ASSUME TypeOK, QueueInv, WireInv, Return
    PROVE  QueueInv' /\ WireInv'
<1>1. /\ UNCHANGED <<expected, ended, queue, next, task, cause>>
      /\ gen = "join" /\ gen' = "end" /\ Joined /\ LastWord
  BY DEF Return, queueVars, taskVars
<1>2. QueueInv'
  BY <1>1 DEF QueueInv, IsTerminal
<1>3. OneTerminalFrame'
  <2>1. CASE cause = "budget"
    <3> DEFINE w == [kind |-> "stream_error", seq |-> 1]
    <3>1. w \in [kind: Kinds, seq: Nat]
      BY KindNames
    <3> HIDE DEF w
    <3>2. wire' = Append(wire, w) /\ wire \in Seq([kind: Kinds, seq: Nat])
      BY <1>1, <2>1 DEF LastWord, Send, TypeOK, w
    <3>3. /\ Len(wire') = Len(wire) + 1 /\ Len(wire) \in Nat
          /\ \A i \in 1..Len(wire) : wire'[i] = wire[i]
      BY <3>1, <3>2
    <3>4. \A i \in 1..Len(wire) : ~IsTerminal(wire[i])
      <4>1. OneTerminalFrame /\ ~LastIsTerminal
        BY <1>1, <2>1 DEF WireInv
      <4>2. \A i \in 1..Len(wire) : wire # <<>>
        BY <3>2
      <4> QED
        BY <4>1, <4>2 DEF OneTerminalFrame, LastIsTerminal
    <3>5. \A i \in 1..Len(wire') : i \in 1..Len(wire) \/ i = Len(wire')
      BY <3>3
    <3>6. \A i \in 1..Len(wire) : ~IsTerminal(wire'[i])
      BY <3>3, <3>4
    <3> QED
      BY <3>5, <3>6 DEF OneTerminalFrame
  <2>2. CASE cause # "budget"
    <3>1. wire' = wire
      BY <1>1, <2>2 DEF LastWord
    <3> QED
      BY <3>1 DEF WireInv, OneTerminalFrame, IsTerminal
  <2> QED
    BY <2>1, <2>2
<1>4. NeverRejected' /\ NoTaskLeft'
  BY <1>1 DEF WireInv, NeverRejected, NoTaskLeft, Joined
<1>5. WireInv'
  BY <1>1, <1>3, <1>4 DEF WireInv
<1> QED
  BY <1>2, <1>5

LEMMA GeneratorSequence ==
    ASSUME TypeOK, QueueInv, WireInv, Generator
    PROVE  QueueInv' /\ WireInv'
<1>1. CASE Open \/ ReserveLate \/ (CloseStream /\ gen = "reserve")
  <2>1. /\ wire = <<>> /\ queue = <<>> /\ task = "none"
        /\ UNCHANGED <<cause, expected, ended, queue, next, task>>
        /\ cause # "rejected" /\ gen' \in {"reserve", "end"}
    BY <1>1 DEF Open, ReserveLate, CloseStream, WireInv, NeverRejected,
       queueVars, taskVars
  <2>2. gen' = "reserve" => wire' = <<>> /\ ~ended /\ expected - 1 = 0
    BY <1>1, <2>1 DEF Open, ReserveLate, CloseStream, WireInv, LastIsTerminal
  <2>3. wire' = wire \/ Send("stream_error", 1)
    BY <1>1 DEF Open, ReserveLate, CloseStream
  <2>4. OneTerminalFrame'
    <3>1. CASE wire' = wire
      BY <2>1, <3>1 DEF OneTerminalFrame
    <3>2. CASE Send("stream_error", 1)
      BY <2>1, <3>2, KindNames, FirstFrame
    <3> QED
      BY <2>3, <3>1, <3>2
  <2>5. QueueInv'
    BY <2>1 DEF QueueInv, IsTerminal
  <2>6. NeverRejected' /\ NoTaskLeft'
    BY <2>1 DEF NeverRejected, NoTaskLeft
  <2>7. WireInv'
    BY <2>1, <2>2, <2>4, <2>6 DEF WireInv, LastIsTerminal
  <2> QED
    BY <2>5, <2>7
<1>2. CASE Reserve
  <2>1. /\ wire = <<>> /\ queue = <<>> /\ gen = "reserve" /\ gen' = "loop"
        /\ UNCHANGED <<wire, cause, expected, ended, queue, next>>
        /\ task' = "starting"
    BY <1>2 DEF Reserve, WireInv, queueVars
  <2>2. ~ended
    BY <2>1 DEF WireInv, LastIsTerminal
  <2>3. QueueInv'
    BY <2>1, <2>2 DEF QueueInv
  <2>4. WireInv'
    BY <2>1, <2>2 DEF WireInv, LastIsTerminal, OneTerminalFrame, NeverRejected,
       NoTaskLeft
  <2> QED
    BY <2>3, <2>4
<1>3. CASE Loop \/ Leaves
  <2>1. /\ UNCHANGED <<wire, expected, ended, queue, next, task>>
        /\ gen \in {"loop", "wait"} /\ gen' \in {"wait", "join"}
        /\ cause' = cause \/ cause' \in {"budget", "closed", "disconnect"}
    BY <1>3 DEF Loop, Leaves, Leave, queueVars
  <2>2. ~ended /\ cause # "rejected"
    BY <2>1 DEF WireInv, NeverRejected
  <2> QED
    BY <2>1, <2>2, GeneratorMoves
<1>4. CASE Get
  BY <1>4, GetSequence
<1>5. CASE Resume
  <2>1. /\ UNCHANGED <<wire, expected, ended, queue, next, task>>
        /\ gen = "yield" /\ wire # <<>> /\ cause # "rejected" /\ Taken
    BY <1>5 DEF Resume, WireInv, NeverRejected, queueVars
  <2>2. ended <=> IsTerminal(wire[Len(wire)])
    BY <2>1 DEF WireInv, LastIsTerminal
  <2>3. CASE IsTerminal(wire[Len(wire)])
    <3>1. gen' = "join" /\ cause' \in Terminal
      BY <2>1, <2>3 DEF Taken, Leave, IsTerminal
    <3> QED
      BY <2>1, <3>1, GeneratorMoves DEF Terminal
  <2>4. CASE ~IsTerminal(wire[Len(wire)])
    <3>1. gen' = "loop" /\ cause' = cause /\ ~ended
      BY <2>1, <2>2, <2>4 DEF Taken, IsTerminal
    <3> QED
      BY <2>1, <3>1, GeneratorMoves
  <2> QED
    BY <2>3, <2>4
<1>6. CASE CloseStream /\ gen # "reserve"
  <2>1. /\ UNCHANGED <<wire, expected, ended, queue, next, task>>
        /\ gen = "yield" /\ gen' = "join" /\ cause' = "none"
    BY <1>6 DEF CloseStream, Leave, queueVars
  <2> QED
    BY <2>1, GeneratorMoves
<1>7. CASE Return
  BY <1>7, ReturnSequence
<1> QED
  BY <1>1, <1>2, <1>3, <1>4, <1>5, <1>6, <1>7 DEF Generator

LEMMA SequenceInit == Init => QueueInv /\ WireInv
<1> SUFFICES ASSUME Init PROVE QueueInv /\ WireInv
  OBVIOUS
<1>1. QueueInv
  BY DEF Init, QueueInv
<1>2. WireInv
  BY DEF Init, WireInv, LastIsTerminal, OneTerminalFrame, NeverRejected, NoTaskLeft
<1> QED
  BY <1>1, <1>2

LEMMA SequenceStep ==
    TypeOK /\ QueueInv /\ WireInv /\ [Next]_vars => QueueInv' /\ WireInv'
<1> SUFFICES ASSUME TypeOK, QueueInv, WireInv, [Next]_vars
             PROVE  QueueInv' /\ WireInv'
  OBVIOUS
<1>1. CASE Producer \/ Emit \/ Cancel
  BY <1>1, ProducerSequence
<1>2. CASE Generator
  BY <1>2, GeneratorSequence
<1>3. CASE KeepAlive
  <2>1. /\ UNCHANGED <<wire, expected, ended, queue, next, task, cause>>
        /\ gen = "wait" /\ gen' = "loop"
    BY <1>3 DEF KeepAlive, queueVars, taskVars
  <2>2. ~ended /\ cause # "rejected"
    BY <2>1 DEF WireInv, NeverRejected
  <2> QED
    BY <2>1, <2>2, GeneratorMoves
<1>4. CASE Recancel \/ Stopped \/ DeadlinePasses \/ ClientCloses \/ UNCHANGED vars
  <2>1. UNCHANGED <<gen, cause, wire, expected, ended, queue, next, task>>
    BY <1>4 DEF Recancel, Stopped, DeadlinePasses, ClientCloses, vars, genVars,
       queueVars, taskVars
  <2> QED
    BY <2>1, SequenceKept
<1> QED
  BY <1>1, <1>2, <1>3, <1>4 DEF Next

LEMMA Sequence == Spec => [](TypeOK /\ QueueInv /\ WireInv)
BY TypeInit, TypeStep, SequenceInit, SequenceStep, PTL DEF Spec

\* The numbers a producer spends leave the queue without a gap: the validator
\* never refuses one of its frames.
THEOREM SequenceAccepted == Spec => []NeverRejected
<1>1. WireInv => NeverRejected
  BY DEF WireInv
<1> QED
  BY <1>1, Sequence, PTL

\* Producer, budget arm and validator together send at most one terminal
\* frame, and nothing behind it.
THEOREM TerminalOnce == Spec => []OneTerminalFrame
<1>1. WireInv => OneTerminalFrame
  BY DEF WireInv
<1> QED
  BY <1>1, Sequence, PTL

\* The generator joins its producer before it returns.
THEOREM ProducerJoined == Spec => []NoTaskLeft
<1>1. WireInv => NoTaskLeft
  BY DEF WireInv
<1> QED
  BY <1>1, Sequence, PTL
-----------------------------------------------------------------------------
(* The wire implements StreamContract.                                      *)

\* The stream is over: what the contract's variable stands for.
Over == gen = "end" \/ LastIsTerminal

\* A frame sent last decides whether the wire ends in a terminal one.
LEMMA SentLast ==
    ASSUME wire \in Seq([kind: Kinds, seq: Nat]),
           NEW kind \in Kinds, NEW seq \in Nat, Send(kind, seq)
    PROVE  LastIsTerminal' <=> kind \in Terminal
<1> DEFINE w == [kind |-> kind, seq |-> seq]
<1>1. w \in [kind: Kinds, seq: Nat] /\ w.kind = kind
  OBVIOUS
<1>2. wire' = Append(wire, w)
  BY DEF Send
<1> HIDE DEF w
<1>3. wire' # <<>> /\ wire'[Len(wire')] = w
  BY <1>1, <1>2
<1> QED
  BY <1>1, <1>3 DEF LastIsTerminal, IsTerminal

LEMMA ContractStutters ==
    ASSUME UNCHANGED wire, Over' <=> Over
    PROVE  UNCHANGED Contract!vars
<1>1. (gen = "end" \/ LastIsTerminal)' = (gen = "end" \/ LastIsTerminal)
  BY DEF Over
<1> QED
  BY <1>1 DEF Contract!vars

LEMMA ContractDrops ==
    ASSUME UNCHANGED wire, ~Over, Over'
    PROVE  Contract!Next
<1>1. Contract!Drop
  BY DEF Contract!Drop, Over
<1> QED
  BY <1>1 DEF Contract!Next

LEMMA ContractData ==
    ASSUME NEW kind \in Kinds \ Terminal, Send(kind, Len(wire) + 1),
           ~Over, ~Over'
    PROVE  Contract!Next
<1>1. (gen = "end" \/ LastIsTerminal)' = (gen = "end" \/ LastIsTerminal)
  BY DEF Over
<1>2. Contract!Send(kind, Len(wire) + 1)
  BY DEF Contract!Send, Send
<1>3. Contract!Data
  BY <1>1, <1>2 DEF Contract!Data, Over
<1> QED
  BY <1>3 DEF Contract!Next

LEMMA ContractConcludes ==
    ASSUME NEW kind \in Terminal, Send(kind, Len(wire) + 1), ~Over, Over'
    PROVE  Contract!Next
<1>1. (gen = "end" \/ LastIsTerminal)' = TRUE
  BY DEF Over
<1>2. Contract!Send(kind, Len(wire) + 1)
  BY DEF Contract!Send, Send
<1>3. Contract!Conclude
  BY <1>1, <1>2 DEF Contract!Conclude, Over
<1> QED
  BY <1>3 DEF Contract!Next

LEMMA ContractTimesOut ==
    ASSUME Send("stream_error", 1), ~Over, Over'
    PROVE  Contract!Next
<1>1. (gen = "end" \/ LastIsTerminal)' = TRUE
  BY DEF Over
<1>2. Contract!Send("stream_error", 1)
  BY DEF Contract!Send, Send
<1>3. Contract!TimeOut
  BY <1>1, <1>2 DEF Contract!TimeOut, Over
<1> QED
  BY <1>3 DEF Contract!Next

LEMMA ContractInit == Init => Contract!Init
<1> SUFFICES ASSUME Init PROVE Contract!Init
  OBVIOUS
<1>1. (gen = "end" \/ LastIsTerminal) = FALSE
  BY DEF Init, LastIsTerminal
<1> QED
  BY <1>1 DEF Init, Contract!Init

\* Only the frames the generator gets and the errors it sends itself change
\* what the client sees.
LEMMA ContractStep ==
    TypeOK /\ QueueInv /\ WireInv /\ [Next]_vars
        => [Contract!Next]_(Contract!vars)
<1> SUFFICES ASSUME TypeOK, QueueInv, WireInv, [Next]_vars
             PROVE  Contract!Next \/ UNCHANGED Contract!vars
  OBVIOUS
<1>q. ASSUME UNCHANGED wire, gen' = "end" <=> gen = "end"
      PROVE  Contract!Next \/ UNCHANGED Contract!vars
  <2>1. Over' <=> Over
    BY <1>q DEF Over, LastIsTerminal, IsTerminal
  <2> QED
    BY <1>q, <2>1, ContractStutters
<1>e. ASSUME UNCHANGED wire, gen' = "end"
      PROVE  Contract!Next \/ UNCHANGED Contract!vars
  <2>1. Over'
    BY <1>e DEF Over
  <2> QED
    BY <1>e, <2>1, ContractStutters, ContractDrops
<1>k. "stream_error" \in Kinds /\ "stream_error" \in Terminal /\ 1 \in Nat
  BY KindNames
<1>f. ASSUME wire = <<>>, gen # "end", gen' = "end", Send("stream_error", 1)
      PROVE  Contract!Next
  <2>1. ~Over /\ Over'
    BY <1>f DEF Over, LastIsTerminal
  <2> QED
    BY <1>f, <2>1, ContractTimesOut
<1>1. CASE Producer \/ Emit \/ Cancel
  <2>1. UNCHANGED genVars
    BY <1>1 DEF Producer, Emit, Cancel, BeginFinalize, SealAnswer, PersistAnswer,
       Verified, Fails, Check, Expire, Mark, Interrupt, Start, Overflows,
       Interaction, Conclude, Progress, Paint, PaintBreaks, Text
  <2>2. UNCHANGED wire /\ (gen' = "end" <=> gen = "end")
    BY <2>1 DEF genVars
  <2> QED
    BY <2>2, <1>q
<1>2. CASE Open
  <2>1. gen = "start" /\ wire = <<>>
    BY <1>2 DEF Open, WireInv
  <2>2. CASE UNCHANGED wire /\ gen' = "end"
    BY <2>2, <1>e
  <2>3. CASE UNCHANGED wire /\ gen' = "reserve"
    BY <2>1, <2>3, <1>q
  <2>4. CASE Send("stream_error", 1) /\ gen' = "end"
    BY <2>1, <2>4, <1>f
  <2> QED
    BY <1>2, <2>2, <2>3, <2>4 DEF Open
<1>3. CASE ReserveLate
  BY <1>3, <1>f DEF ReserveLate, WireInv
<1>4. CASE Reserve \/ Loop \/ Leaves \/ Resume \/ (CloseStream /\ gen = "yield")
  <2>1. UNCHANGED wire /\ gen # "end" /\ gen' # "end"
    BY <1>4 DEF Reserve, Loop, Leaves, Resume, CloseStream, Taken, Leave
  <2> QED
    BY <2>1, <1>q
<1>5. CASE CloseStream /\ gen # "yield"
  BY <1>5, <1>e DEF CloseStream
<1>6. CASE Get
  <2>1. /\ QueueInv /\ gen = "wait" /\ ~ended /\ queue # <<>>
        /\ queue \in Seq(Frames) /\ bytes \in Nat
        /\ Len(wire) = expected - 1 /\ ~LastIsTerminal /\ expected \in Nat
        /\ wire \in Seq([kind: Kinds, seq: Nat])
    BY <1>6 DEF Get, WireInv, TypeOK
  <2>2. Head(queue).kind \in Kinds /\ Head(queue).seq \in Nat
    BY <2>1, HeadFrame
  <2>3. Head(queue).seq = expected
    <3>1. Head(queue) = queue[1] /\ 1 \in 1..Len(queue)
      BY <2>1
    <3>2. queue[1].seq = expected + 1 - 1
      BY <3>1 DEF QueueInv
    <3> QED
      BY <3>1, <3>2, <2>1
  <2>4. Accepts(Head(queue))
    BY <2>1, <2>3 DEF Accepts
  <2>5. Send(Head(queue).kind, Len(wire) + 1) /\ gen' = "yield"
    <3>1. Send(Head(queue).kind, Head(queue).seq) /\ gen' = "yield"
      BY <1>6, <2>4 DEF Get
    <3>2. Head(queue).seq = Len(wire) + 1
      BY <2>1, <2>3
    <3> QED
      BY <3>1, <3>2
  <2>6. LastIsTerminal' <=> Head(queue).kind \in Terminal
    <3>1. Len(wire) + 1 \in Nat
      BY <2>1
    <3> QED
      BY <2>1, <2>2, <2>5, <3>1, SentLast
  <2>7. ~Over
    BY <2>1 DEF Over
  <2>8. CASE Head(queue).kind \in Terminal
    <3>1. Over'
      BY <2>6, <2>8 DEF Over
    <3> QED
      BY <2>5, <2>7, <2>8, <3>1, ContractConcludes
  <2>9. CASE Head(queue).kind \notin Terminal
    <3>1. ~Over'
      BY <2>5, <2>6, <2>9 DEF Over
    <3> QED
      BY <2>2, <2>5, <2>7, <2>9, <3>1, ContractData
  <2> QED
    BY <2>8, <2>9
<1>7. CASE Return
  <2>1. gen = "join" /\ gen' = "end" /\ LastWord
    BY <1>7 DEF Return
  <2>2. CASE cause = "budget"
    <3>1. Send("stream_error", 1) /\ ~LastIsTerminal
      BY <2>1, <2>2 DEF LastWord, WireInv
    <3>2. ~Over /\ Over'
      BY <2>1, <3>1 DEF Over
    <3> QED
      BY <3>1, <3>2, ContractTimesOut
  <2>3. CASE cause # "budget"
    BY <2>1, <2>3, <1>e DEF LastWord
  <2> QED
    BY <2>2, <2>3
<1>8. CASE KeepAlive \/ Recancel \/ Stopped \/ DeadlinePasses \/ ClientCloses
           \/ UNCHANGED vars
  <2>1. UNCHANGED wire /\ (gen' = "end" <=> gen = "end")
    BY <1>8 DEF KeepAlive, Recancel, Stopped, DeadlinePasses, ClientCloses, vars,
       genVars
  <2> QED
    BY <2>1, <1>q
<1> QED
  BY <1>1, <1>2, <1>3, <1>4, <1>5, <1>6, <1>7, <1>8 DEF Next, Generator,
     CloseStream

\* What the client sees of a turn is a stream as StreamContract.tla has it.
THEOREM ContractKept == Spec => ContractSpec
<1>1. Spec => Contract!Init /\ [][Contract!Next]_(Contract!vars)
  BY ContractInit, ContractStep, Sequence, PTL DEF Spec
<1> QED
  BY <1>1 DEF ContractSpec, Contract!Spec
-----------------------------------------------------------------------------
(* The ledger.                                                              *)

\* A producer that may move has committed nothing and shown no outcome.
NoOutcome(frames) == \A i \in 1..Len(frames) : frames[i].kind # "turn_outcome"

LEMMA NothingShown ==
    ASSUME LedgerInv, task # "done"
    PROVE  commits = <<>> /\ NoOutcome(queue) /\ NoOutcome(wire)
<1>1. commits # <<"completed">> /\ commits = <<>>
  BY DEF LedgerInv
<1> QED
  BY <1>1 DEF LedgerInv, ShownIsCompleted, NoOutcome

LEMMA AppendNoOutcome ==
    ASSUME NEW S, NEW frames \in Seq(S), NEW f \in S,
           NoOutcome(frames), f.kind # "turn_outcome"
    PROVE  NoOutcome(Append(frames, f))
<1>1. /\ Len(frames) \in Nat /\ Len(Append(frames, f)) = Len(frames) + 1
      /\ Append(frames, f)[Len(frames) + 1] = f
      /\ \A i \in 1..Len(frames) : Append(frames, f)[i] = frames[i]
  OBVIOUS
<1>2. ASSUME NEW i \in 1..Len(Append(frames, f))
      PROVE  Append(frames, f)[i].kind # "turn_outcome"
  <2>1. CASE i = Len(frames) + 1
    BY <1>1, <2>1
  <2>2. CASE i # Len(frames) + 1
    <3>1. i \in 1..Len(frames)
      BY <1>1, <2>2
    <3> QED
      BY <1>1, <3>1 DEF NoOutcome
  <2> QED
    BY <2>1, <2>2
<1> QED
  BY <1>2 DEF NoOutcome

\* commit, called once or twice with nothing committed.
LEMMA CommitOnce ==
    ASSUME NEW o, NEW p
    PROVE  /\ Committed(<<>>, o) = <<o>>
           /\ Committed(Committed(<<>>, o), p) = <<o>>
BY DEF Committed

LEMMA ResolvedKeeps ==
    ASSUME NEW captured \in Outcomes, NEW fallback
    PROVE  Resolved(captured, fallback) = captured
BY DEF Resolved, Outcomes

\* A step of the producer that is not its last.
LEMMA LedgerGoes ==
    ASSUME LedgerInv, task \notin {"none", "done"},
           task' \notin {"none", "starting", "done"},
           UNCHANGED genVars, UNCHANGED commits, NoOutcome(queue'),
           task' \in {"verify", "deliver", "asked", "conclude"} =>
               recorded' = "completed"
    PROVE  LedgerInv'
<1>1. commits = <<>> /\ NoOutcome(wire)
  BY NothingShown
<1>2. UNCHANGED <<gen, cause, wire>>
  BY DEF genVars
<1>3. ShownIsCompleted' /\ CaptureKept'
  BY <1>1, <1>2 DEF ShownIsCompleted, CaptureKept, NoOutcome
<1>4. Len(commits') <= 1
  BY DEF LedgerInv
<1> QED
  BY <1>1, <1>2, <1>3, <1>4 DEF LedgerInv, NoOutcome

\* Its last step commits what it had captured.
LEMMA LedgerEnds ==
    ASSUME LedgerInv, task \notin {"none", "done"}, task' = "done",
           UNCHANGED genVars, NEW o \in Outcomes, commits' = <<o>>,
           NoOutcome(queue') \/ o = "completed",
           recorded' \in {"completed", "error"} => o # "stopped"
    PROVE  LedgerInv'
<1>1. NoOutcome(wire)
  BY NothingShown
<1>2. UNCHANGED <<gen, cause, wire>>
  BY DEF genVars
<1>3. Len(commits') = 1 /\ commits' # <<>> /\ (o # "stopped" => commits' # <<"stopped">>)
  OBVIOUS
<1>4. ShownIsCompleted' /\ CaptureKept'
  BY <1>1, <1>2, <1>3 DEF ShownIsCompleted, CaptureKept, NoOutcome
<1>5. \A i \in 1..Len(queue') :
          queue'[i].kind = "turn_outcome" => commits' = <<"completed">>
  BY DEF NoOutcome
<1> QED
  BY <1>3, <1>4, <1>5 DEF LedgerInv

LEMMA LedgerFails ==
    ASSUME TypeOK, LedgerInv, task \notin {"none", "done"}, UNCHANGED genVars,
           NEW captured \in Outcomes \cup {"none"}, FailTurn(captured)
    PROVE  LedgerInv'
<1>1. commits = <<>> /\ NoOutcome(queue) /\ queue \in Seq(Frames) /\ next \in Nat
  BY NothingShown DEF TypeOK
<1> DEFINE o == Resolved(captured, "none")
<1>2. o \in Outcomes /\ (captured \in {"completed", "error"} => o # "stopped")
  BY ResolvedType, ResolvedKeeps, OutcomeNames
<1>3. commits' = <<o>> /\ recorded' = captured /\ task' = "done"
      /\ queue' = Append(queue, ErrorFrame(next))
  BY <1>1, CommitOnce DEF FailTurn
<1>4. NoOutcome(queue')
  BY <1>1, <1>3, ErrorFrameType, AppendNoOutcome
<1> HIDE DEF o
<1> QED
  BY <1>2, <1>3, <1>4, LedgerEnds

LEMMA LedgerStops ==
    ASSUME TypeOK, LedgerInv, task \notin {"none", "done"}, UNCHANGED genVars,
           NEW captured \in Outcomes \cup {"none"}, StopTurn(captured)
    PROVE  LedgerInv'
<1>1. commits = <<>> /\ NoOutcome(queue)
  BY NothingShown
<1> DEFINE o == Resolved(captured, "stopped")
<1>2. o \in Outcomes /\ (captured \in {"completed", "error"} => o # "stopped")
  BY ResolvedType, ResolvedKeeps, OutcomeNames
<1>3. commits' = <<o>> /\ recorded' = captured /\ task' = "done" /\ queue' = queue
  BY <1>1, CommitOnce DEF StopTurn
<1> HIDE DEF o
<1> QED
  BY <1>1, <1>2, <1>3, LedgerEnds

LEMMA LedgerOverflows ==
    ASSUME LedgerInv, task \notin {"none", "done"}, UNCHANGED genVars,
           Overflowed, NoOutcome(queue')
    PROVE  LedgerInv'
<1>1. commits = <<>>
  BY NothingShown
<1>2. commits' = <<"error">> /\ task' = "done"
  BY <1>1, CommitOnce DEF Overflowed
<1> QED
  BY <1>2, OutcomeNames, LedgerEnds

\* The frame Put puts is an outcome only if it is said to be one.
LEMMA PutNoOutcome ==
    ASSUME TypeOK, NoOutcome(queue), NEW kind \in Kinds, NEW size \in Sizes,
           Put(kind, size), kind # "turn_outcome"
    PROVE  NoOutcome(queue')
<1>1. next \in Nat /\ size \in Nat /\ queue \in Seq(Frames)
  BY SizesAssumption DEF TypeOK
<1>2. Frame(kind, next, size) \in Frames /\ Frame(kind, next, size).kind = kind
  BY <1>1, FrameType
<1> QED
  BY <1>1, <1>2, AppendNoOutcome DEF Put

LEMMA LedgerProducer ==
    ASSUME TypeOK, LedgerInv, Producer \/ Emit \/ Cancel
    PROVE  LedgerInv'
<1>k. /\ {"turn_accepted", "activity", "table_start", "table_end", "text",
          "interaction"} \subseteq Kinds \ {"turn_outcome"}
      /\ "turn_outcome" \in Kinds
  BY KindNames
<1>o. recorded \in Outcomes \cup {"none"} /\ Captured("error") \in Outcomes
      /\ Captured("stopped") \in Outcomes /\ "stopped" \in Outcomes
  BY OutcomeNames, CapturedType DEF TypeOK
<1>r. task \in {"verify", "deliver", "asked", "conclude"} => recorded = "completed"
  BY DEF LedgerInv
<1>1. CASE BeginFinalize \/ SealAnswer \/ PersistAnswer \/ Verified \/ Check
  <2>1. /\ task \notin {"none", "done"} /\ UNCHANGED genVars
        /\ task' \notin {"none", "starting", "done"}
        /\ UNCHANGED commits /\ queue' = queue
    BY <1>1 DEF BeginFinalize, SealAnswer, PersistAnswer, Verified, Check, At,
       queueVars, writtenVars
  <2>2. task' \in {"verify", "deliver", "asked", "conclude"} =>
            recorded' = "completed"
    BY <1>1, <1>r DEF BeginFinalize, SealAnswer, PersistAnswer, Verified, Check,
       At, Record
  <2> QED
    BY <2>1, <2>2, NothingShown, LedgerGoes
<1>2. CASE Cancel
  BY <1>2, <1>o, LedgerStops DEF Cancel, At
<1>3. ASSUME task \notin {"none", "done"}, UNCHANGED genVars, TimeOut
      PROVE  LedgerInv'
  <2>1. task' = "marking" /\ UNCHANGED commits /\ queue' = queue
    BY <1>3 DEF TimeOut, queueVars
  <2> QED
    BY <2>1, <1>3, NothingShown, LedgerGoes
<1>4. CASE Expire
  <2>1. task \notin {"none", "done"} /\ UNCHANGED genVars /\ TimeOut
    BY <1>4 DEF Expire, Child
  <2> QED
    BY <2>1, <1>3
<1>5. CASE Interrupt
  <2>1. task \notin {"none", "done"} /\ UNCHANGED genVars
    BY <1>5 DEF Interrupt, Child
  <2>2. CASE task = "starting" /\ task' = "done"
             /\ UNCHANGED <<queueVars, next, recorded, writtenVars>>
    <3>1. gen = "join" /\ cause = "budget"
      BY <1>5, <2>2 DEF Interrupt, LedgerInv
    <3>2. commits = <<>> /\ NoOutcome(queue) /\ NoOutcome(wire)
      BY <2>2, NothingShown
    <3>3. UNCHANGED <<gen, cause, wire, queue, commits>>
      BY <2>1, <2>2 DEF genVars, queueVars, writtenVars
    <3>4. ShownIsCompleted' /\ CaptureKept'
      BY <3>2, <3>3 DEF ShownIsCompleted, CaptureKept, NoOutcome
    <3>5. Len(commits') <= 1
      BY <3>2, <3>3
    <3> QED
      BY <2>2, <3>1, <3>2, <3>3, <3>4, <3>5 DEF LedgerInv, NoOutcome
  <2>3. CASE TimeOut
    BY <2>1, <2>3, <1>3
  <2>4. CASE StopTurn(Captured("stopped"))
    BY <2>1, <2>4, <1>o, LedgerStops
  <2>5. CASE StopTurn(recorded)
    BY <2>1, <2>5, <1>o, LedgerStops
  <2> QED
    BY <1>5, <2>2, <2>3, <2>4, <2>5 DEF Interrupt
<1>6. CASE Fails
  <2>1. (IF task \in Child THEN Captured("error") ELSE recorded)
            \in Outcomes \cup {"none"}
    BY <1>o
  <2>2. task \notin {"none", "done"} /\ UNCHANGED genVars
    BY <1>6 DEF Fails, At
  <2> QED
    BY <1>6, <2>1, <2>2, LedgerFails DEF Fails
<1>7. CASE Mark
  BY <1>7, <1>o, LedgerFails DEF Mark, At
<1>8. ASSUME NEW size \in Sizes,
             Start(size) \/ Interaction(size) \/ Text(size) \/ Progress(size)
      PROVE  LedgerInv'
  <2>1. /\ task \notin {"none", "done"} /\ UNCHANGED genVars
        /\ UNCHANGED <<recorded, commits>>
    BY <1>8 DEF Start, Interaction, Text, Progress, At, writtenVars
  <2>2. task' \notin {"none", "starting", "done"}
    BY <1>8 DEF Start, Interaction, Text, Progress, At
  <2>3. task' \in {"verify", "deliver", "asked", "conclude"} =>
            recorded = "completed"
    BY <1>8, <1>r DEF Start, Interaction, Text, Progress, At
  <2>4. queue' = queue \/ \E kind \in Kinds \ {"turn_outcome"} : Put(kind, size)
    BY <1>8, <1>k DEF Start, Interaction, Text, Progress
  <2>5. NoOutcome(queue')
    BY <2>1, <2>4, NothingShown, PutNoOutcome
  <2> QED
    BY <2>1, <2>2, <2>3, <2>5, LedgerGoes
<1>9. ASSUME NEW size \in Sizes, Paint(size) \/ PaintBreaks(size)
      PROVE  LedgerInv'
  <2>1. /\ task \notin {"none", "done"} /\ UNCHANGED genVars
        /\ next \in Nat /\ size \in Nat /\ next + 1 \in Nat
        /\ queue \in Seq(Frames)
    BY <1>9, SizesAssumption DEF Paint, PaintBreaks, At, TypeOK
  <2> DEFINE f == Frame("table_start", next, size)
             g == Frame("table_end", next + 1, size)
             e == ErrorFrame(next + 1)
  <2>2. /\ f \in Frames /\ g \in Frames /\ e \in Frames
        /\ f.kind # "turn_outcome" /\ g.kind # "turn_outcome"
        /\ e.kind # "turn_outcome"
    BY <2>1, <1>k, FrameType, ErrorFrameType
  <2>3. queue' = Append(Append(queue, f), g) \/ queue' = Append(Append(queue, f), e)
    BY <1>9 DEF Paint, PaintBreaks
  <2> HIDE DEF f, g, e
  <2>4. NoOutcome(Append(queue, f)) /\ Append(queue, f) \in Seq(Frames)
    BY <2>1, <2>2, NothingShown, AppendNoOutcome
  <2>5. NoOutcome(queue')
    BY <2>2, <2>3, <2>4, AppendNoOutcome
  <2>6. CASE Paint(size)
    <3>1. UNCHANGED <<task, recorded, commits>> /\ task \in {"work", "deliver"}
      BY <2>6 DEF Paint, writtenVars, At
    <3> QED
      BY <2>1, <2>5, <3>1, <1>r, LedgerGoes
  <2>7. CASE PaintBreaks(size)
    BY <2>1, <2>5, <2>7, LedgerOverflows DEF PaintBreaks
  <2> QED
    BY <1>9, <2>6, <2>7
<1>10. ASSUME NEW size \in Sizes, Overflows(size) PROVE LedgerInv'
  <2>1. /\ task \notin {"none", "done"} /\ UNCHANGED genVars /\ Overflowed
        /\ queue' = Append(queue, ErrorFrame(next))
        /\ next \in Nat /\ queue \in Seq(Frames)
    BY <1>10 DEF Overflows, At, TypeOK
  <2>2. NoOutcome(queue')
    BY <2>1, NothingShown, ErrorFrameType, AppendNoOutcome
  <2> QED
    BY <2>1, <2>2, LedgerOverflows
<1>11. ASSUME NEW size \in Sizes, Conclude(size) PROVE LedgerInv'
  <2>1. /\ task \notin {"none", "done"} /\ UNCHANGED genVars /\ task' = "done"
        /\ recorded = "completed"
    BY <1>11, <1>r DEF Conclude, At
  <2>2. commits' = <<"completed">>
    BY <1>11, <2>1, NothingShown, CommitOnce, ResolvedKeeps, OutcomeNames
    DEF Conclude
  <2> QED
    BY <2>1, <2>2, OutcomeNames, LedgerEnds
<1> QED
  BY <1>1, <1>2, <1>4, <1>5, <1>6, <1>7, <1>8, <1>9, <1>10, <1>11
  DEF Producer, Emit

\* The generator changes neither the record nor, where it only moves, the wire.
LEMMA LedgerMoves ==
    ASSUME LedgerInv, UNCHANGED <<commits, task, recorded>>,
           NoOutcome(wire') \/ wire' = wire \/ commits = <<"completed">>,
           NoOutcome(queue') \/ queue' = queue \/ commits = <<"completed">>,
           task' = "none" => ~cancelling',
           task' # "starting",
           task' = "done" /\ commits' = <<>> =>
               \/ gen' = "join" /\ cause' = "budget"
               \/ gen' = "end" /\ timeouts' > 0
    PROVE  LedgerInv'
<1>1. ShownIsCompleted' /\ CaptureKept'
  BY DEF LedgerInv, ShownIsCompleted, CaptureKept, NoOutcome
<1>2. \A i \in 1..Len(queue') :
          queue'[i].kind = "turn_outcome" => commits' = <<"completed">>
  BY DEF LedgerInv, NoOutcome
<1>3. Len(commits') <= 1
  BY DEF LedgerInv
<1> QED
  BY <1>1, <1>2, <1>3 DEF LedgerInv

LEMMA SendNoOutcome ==
    ASSUME wire \in Seq([kind: Kinds, seq: Nat]), NoOutcome(wire),
           NEW kind \in Kinds, NEW seq \in Nat, Send(kind, seq),
           kind # "turn_outcome"
    PROVE  NoOutcome(wire')
<1> DEFINE w == [kind |-> kind, seq |-> seq]
<1>1. w \in [kind: Kinds, seq: Nat] /\ w.kind = kind
  OBVIOUS
<1>2. wire' = Append(wire, w)
  BY DEF Send
<1> HIDE DEF w
<1> QED
  BY <1>1, <1>2, AppendNoOutcome

\* An error frame on the wire shows no outcome.
LEMMA ErrorSent ==
    ASSUME TypeOK, LedgerInv, NEW seq \in Nat, Send("stream_error", seq)
    PROVE  NoOutcome(wire') \/ commits = <<"completed">>
<1>1. CASE commits = <<"completed">>
  BY <1>1
<1>2. CASE commits # <<"completed">>
  <2>1. NoOutcome(wire)
    BY <1>2 DEF LedgerInv, ShownIsCompleted, NoOutcome
  <2> QED
    BY <2>1, KindNames, SendNoOutcome DEF TypeOK
<1> QED
  BY <1>1, <1>2

LEMMA GetLedger ==
    ASSUME TypeOK, LedgerInv, Get
    PROVE  LedgerInv'
<1>1. /\ queue \in Seq(Frames) /\ queue # <<>> /\ queue' = Tail(queue)
      /\ gen = "wait" /\ task # "starting" /\ bytes \in Nat
      /\ wire \in Seq([kind: Kinds, seq: Nat])
      /\ UNCHANGED <<commits, task, recorded>>
  BY DEF TypeOK, Get, Awake, writtenVars
<1>2. \/ cancelling' = cancelling \/ cancelling' = ~Joined
  BY DEF Get, Leave
<1>3. task' = "none" => ~cancelling'
  BY <1>1, <1>2 DEF LedgerInv, Joined
<1>4. ~(task = "done" /\ commits = <<>>)
  BY <1>1 DEF LedgerInv
<1>5. NoOutcome(queue') \/ commits = <<"completed">>
  <2>1. \A i \in 1..Len(queue') : i + 1 \in 1..Len(queue) /\ queue'[i] = queue[i + 1]
    BY <1>1
  <2> QED
    BY <2>1 DEF LedgerInv, NoOutcome
<1>6. NoOutcome(wire') \/ commits = <<"completed">>
  <2>1. /\ Head(queue).kind \in Kinds /\ Head(queue).seq \in Nat
        /\ Head(queue) = queue[1] /\ 1 \in 1..Len(queue)
    BY <1>1, HeadFrame
  <2>2. SUFFICES ASSUME commits # <<"completed">> PROVE NoOutcome(wire')
    OBVIOUS
  <2>3. NoOutcome(wire) /\ Head(queue).kind # "turn_outcome"
    BY <2>1, <2>2 DEF LedgerInv, ShownIsCompleted, NoOutcome
  <2>4. \/ Send(Head(queue).kind, Head(queue).seq)
        \/ Send("stream_error", Head(queue).seq)
    BY DEF Get
  <2> QED
    BY <1>1, <2>1, <2>3, <2>4, KindNames, SendNoOutcome
<1> QED
  BY <1>1, <1>3, <1>4, <1>5, <1>6, LedgerMoves

LEMMA ReturnLedger ==
    ASSUME TypeOK, LedgerInv, Return
    PROVE  LedgerInv'
<1>1. /\ UNCHANGED <<commits, task, recorded, queue, cancelling>>
      /\ task # "starting" /\ gen = "join" /\ gen' = "end"
      /\ LastWord /\ Closes /\ timeouts \in Nat
  BY DEF Return, Awake, queueVars, taskVars, TypeOK
<1>2. NoOutcome(wire') \/ wire' = wire \/ commits = <<"completed">>
  <2>1. wire' = wire \/ Send("stream_error", 1)
    BY <1>1 DEF LastWord
  <2> QED
    BY <2>1, ErrorSent
<1>3. task = "done" /\ commits = <<>> => timeouts' > 0
  <2>1. task = "done" /\ commits = <<>> => cause = "budget"
    BY <1>1 DEF LedgerInv
  <2> QED
    BY <1>1, <2>1 DEF Closes
<1>4. task' = "none" => ~cancelling'
  BY <1>1 DEF LedgerInv
<1> QED
  BY <1>1, <1>2, <1>3, <1>4, LedgerMoves

LEMMA LedgerGenerator ==
    ASSUME TypeOK, WireInv, LedgerInv, Generator \/ KeepAlive \/ Recancel
    PROVE  LedgerInv'
<1>1. CASE Open \/ ReserveLate \/ (CloseStream /\ gen = "reserve")
  <2>1. /\ task = "none" /\ ~cancelling
        /\ UNCHANGED <<commits, task, recorded, queue, cancelling>>
    BY <1>1 DEF Open, ReserveLate, CloseStream, WireInv, LedgerInv,
       queueVars, taskVars, writtenVars
  <2>2. wire' = wire \/ Send("stream_error", 1)
    BY <1>1 DEF Open, ReserveLate, CloseStream
  <2>3. NoOutcome(wire') \/ wire' = wire \/ commits = <<"completed">>
    BY <2>2, ErrorSent
  <2> QED
    BY <2>1, <2>3, LedgerMoves
<1>2. CASE Reserve
  <2>1. /\ task = "none" /\ ~cancelling /\ gen' = "loop" /\ task' = "starting"
        /\ UNCHANGED <<wire, cause, commits, recorded, queue, cancelling>>
    BY <1>2 DEF Reserve, WireInv, LedgerInv, queueVars, writtenVars
  <2>2. ShownIsCompleted' /\ CaptureKept' /\ Len(commits') <= 1
    BY <2>1 DEF LedgerInv, ShownIsCompleted, CaptureKept
  <2> QED
    BY <2>1, <2>2 DEF LedgerInv
<1>3. CASE Loop
  <2>1. /\ UNCHANGED <<wire, queue, task, recorded, commits>> /\ gen = "loop"
        /\ \/ Leave("budget")
           \/ gen' = "wait" /\ UNCHANGED <<cause, cancelling>>
    BY <1>3 DEF Loop, queueVars, writtenVars
  <2>2. ShownIsCompleted' /\ CaptureKept' /\ Len(commits') <= 1
    BY <2>1 DEF LedgerInv, ShownIsCompleted, CaptureKept
  <2>3. ~(task = "done" /\ commits = <<>>)
        /\ ~(task = "starting" /\ cancelling)
    BY <2>1 DEF LedgerInv
  <2>4. CASE Leave("budget")
    <3>1. gen' = "join" /\ cause' = "budget" /\ (task = "none" => ~cancelling')
      BY <2>4 DEF Leave, Joined
    <3>2. task = "starting" => cancelling'
      BY <2>4 DEF Leave, Joined
    <3> QED
      BY <2>1, <2>2, <2>3, <3>1, <3>2 DEF LedgerInv
  <2>5. CASE gen' = "wait" /\ UNCHANGED <<cause, cancelling>>
    BY <2>1, <2>2, <2>3, <2>5 DEF LedgerInv
  <2> QED
    BY <2>1, <2>4, <2>5
<1>4. CASE Get
  BY <1>4, GetLedger
<1>5. CASE Leaves \/ Resume \/ (CloseStream /\ gen # "reserve") \/ KeepAlive
  <2>1. /\ UNCHANGED <<wire, queue, task, recorded, commits>>
        /\ gen \in {"wait", "yield"} /\ task # "starting"
    BY <1>5 DEF Leaves, Resume, CloseStream, KeepAlive, Awake, queueVars,
       taskVars, writtenVars
  <2>2. cancelling' = cancelling \/ cancelling' = ~Joined
    BY <1>5 DEF Leaves, Resume, CloseStream, KeepAlive, Taken, Leave, taskVars
  <2>3. task' = "none" => ~cancelling'
    BY <2>1, <2>2 DEF LedgerInv, Joined
  <2>4. ~(task = "done" /\ commits = <<>>)
    BY <2>1 DEF LedgerInv
  <2> QED
    BY <2>1, <2>3, <2>4, LedgerMoves
<1>6. CASE Return
  BY <1>6, ReturnLedger
<1>7. CASE Recancel
  <2>1. /\ UNCHANGED <<wire, queue, task, recorded, commits, gen, cause>>
        /\ task \notin {"starting", "none", "done"}
    BY <1>7 DEF Recancel, Awake, Joined, genVars, queueVars, writtenVars
  <2> QED
    BY <2>1, LedgerMoves
<1> QED
  BY <1>1, <1>2, <1>3, <1>4, <1>5, <1>6, <1>7 DEF Generator

LEMMA LedgerInit == Init => LedgerInv
<1> SUFFICES ASSUME Init PROVE LedgerInv
  OBVIOUS
<1>1. ShownIsCompleted /\ CaptureKept
  BY DEF Init, ShownIsCompleted, CaptureKept
<1>2. Len(commits) <= 1
  BY DEF Init
<1>3. ~cancelling
  BY DEF Init
<1> QED
  BY <1>1, <1>2, <1>3 DEF Init, LedgerInv

LEMMA LedgerStep ==
    TypeOK /\ WireInv /\ LedgerInv /\ [Next]_vars => LedgerInv'
<1> SUFFICES ASSUME TypeOK, WireInv, LedgerInv, [Next]_vars PROVE LedgerInv'
  OBVIOUS
<1>1. CASE Producer \/ Emit \/ Cancel
  BY <1>1, LedgerProducer
<1>2. CASE Generator \/ KeepAlive \/ Recancel
  BY <1>2, LedgerGenerator
<1>3. CASE Stopped \/ DeadlinePasses \/ ClientCloses \/ UNCHANGED vars
  <2>1. UNCHANGED <<gen, cause, wire, queue, task, cancelling, recorded,
                    commits, timeouts>>
    BY <1>3 DEF Stopped, DeadlinePasses, ClientCloses, vars, genVars, queueVars,
       taskVars, writtenVars
  <2> QED
    BY <2>1 DEF LedgerInv, ShownIsCompleted, CaptureKept
<1> QED
  BY <1>1, <1>2, <1>3 DEF Next

LEMMA Ledger == Spec => [](WireInv /\ LedgerInv)
BY TypeInit, TypeStep, SequenceInit, SequenceStep, LedgerInit, LedgerStep, PTL
DEF Spec

\* A turn commits one Query Record through its writer, or leaves it to the
\* budget arm, however producer, generator, client and clock interleave.
THEOREM LedgerOnce == Spec => []CommittedOnce
<1>1. WireInv /\ LedgerInv => CommittedOnce
  BY DEF WireInv, NoTaskLeft, LedgerInv, CommittedOnce
<1> QED
  BY <1>1, Ledger, PTL

\* What is shown as the outcome of a turn was committed as completed.
THEOREM ShownAgrees == Spec => []ShownIsCompleted
<1>1. LedgerInv => ShownIsCompleted
  BY DEF LedgerInv
<1> QED
  BY <1>1, Ledger, PTL

\* A stop never replaces the outcome an attempt had captured.
THEOREM CaptureWins == Spec => []CaptureKept
<1>1. LedgerInv => CaptureKept
  BY DEF LedgerInv
<1> QED
  BY <1>1, Ledger, PTL
-----------------------------------------------------------------------------
(* The bytes of the queue.  Buffered is recursive over the queue, so what it *)
(* is for every queue takes an induction: the well-ordering of Nat gives the *)
(* principle for a set in place of a predicate.                              *)

LEMMA NatLeast ==
    ASSUME NEW T \in SUBSET Nat, T # {}
    PROVE  \E x \in T : \A y \in T : x <= y
<1> DEFINE R == OpToRel(<, Nat)
<1>1. IsWellFoundedOn(R, Nat)
  BY NatLessThanWellFounded, Zenon
<1>2. \A x, y \in Nat : <<x, y>> \in R <=> x < y
  BY DEF OpToRel
<1> HIDE DEF R
<1>3. PICK x \in T : \A y \in T : ~ (<<y, x>> \in R)
  BY <1>1, WFMin
<1>4. \A y \in T : x \in Nat /\ y \in Nat /\ ~(y < x)
  BY <1>2, <1>3
<1> QED
  BY <1>4

LEMMA NatInduct ==
    ASSUME NEW S, 0 \in S, \A n \in Nat : n \in S => n + 1 \in S
    PROVE  Nat \subseteq S
<1> SUFFICES ASSUME Nat \ S # {} PROVE FALSE
  OBVIOUS
<1>1. PICK x \in Nat \ S : \A y \in Nat \ S : x <= y
  BY NatLeast
<1>2. x # 0 /\ x - 1 \in Nat /\ x - 1 \notin Nat \ S
  BY <1>1
<1> QED
  BY <1>1, <1>2

\* t adds up the sizes of the frames of q.
Sums(t, q) ==
    /\ t \in [0..Len(q) -> Nat] /\ t[0] = 0
    /\ \A i \in 1..Len(q) : t[i] = t[i - 1] + q[i].size

LEMMA SizesNat ==
    ASSUME NEW q \in Seq(Frames)
    PROVE  Len(q) \in Nat /\ \A i \in 1..Len(q) : q[i].size \in Nat
<1>1. \A f \in Frames : f.size \in Nat
  BY DEF Frames
<1>2. \A i \in 1..Len(q) : q[i] \in Frames
  OBVIOUS
<1> QED
  BY <1>1, <1>2

\* There is one way to add them up, and Buffered is it.
LEMMA BufferedSums ==
    ASSUME NEW t, queue \in Seq(Frames), Sums(t, queue)
    PROVE  Buffered[Len(queue)] = t[Len(queue)]
<1> DEFINE n == Len(queue)
           Step(f, i) == IF i = 0 THEN 0 ELSE f[i - 1] + queue[i].size
<1>0. n \in Nat /\ \A i \in 1..n : queue[i].size \in Nat
  BY SizesNat
<1>1. t = [i \in 0..n |-> Step(t, i)]
  BY <1>0 DEF Sums
<1>2. Buffered = CHOOSE f : f = [i \in 0..n |-> Step(f, i)]
  BY DEF Buffered
<1> HIDE DEF Step
<1>3. Buffered = [i \in 0..n |-> Step(Buffered, i)]
  BY <1>1, <1>2, Zenon
<1> DEFINE S == {m \in Nat : m <= n => Buffered[m] = t[m]}
<1>4. 0 \in S
  <2>1. 0 \in 0..n
    BY <1>0
  <2>2. Buffered[0] = Step(Buffered, 0)
    BY <1>3, <2>1
  <2>3. t[0] = 0
    BY DEF Sums
  <2> QED
    BY <2>2, <2>3 DEF Step
<1>5. ASSUME NEW m \in Nat, m \in S PROVE m + 1 \in S
  <2> SUFFICES ASSUME m + 1 <= n PROVE Buffered[m + 1] = t[m + 1]
    OBVIOUS
  <2>1. m + 1 \in 1..n /\ m + 1 \in 0..n /\ (m + 1) - 1 = m /\ m <= n
    BY <1>0
  <2>2. Buffered[m + 1] = Step(Buffered, m + 1)
    BY <1>3, <2>1
  <2>3. Step(Buffered, m + 1) = Buffered[m] + queue[m + 1].size
    BY <2>1 DEF Step
  <2>4. t[m + 1] = t[m] + queue[m + 1].size
    BY <2>1 DEF Sums
  <2> QED
    BY <1>5, <2>1, <2>2, <2>3, <2>4
<1> HIDE DEF S
<1>6. Nat \subseteq S
  BY <1>4, <1>5, NatInduct
<1> QED
  BY <1>0, <1>6 DEF S

LEMMA SumsEmpty == Sums([i \in 0..0 |-> 0], <<>>)
BY DEF Sums

LEMMA SumsAppend ==
    ASSUME NEW q \in Seq(Frames), NEW t, Sums(t, q), NEW f \in Frames
    PROVE  \E u : Sums(u, Append(q, f)) /\ u[Len(q) + 1] = t[Len(q)] + f.size
<1> DEFINE n == Len(q)
           p == Append(q, f)
           u == [i \in 0..n + 1 |-> IF i = n + 1 THEN t[n] + f.size ELSE t[i]]
<1>1. n \in Nat /\ f.size \in Nat /\ Len(p) = n + 1 /\ p[n + 1] = f
      /\ \A i \in 1..n : p[i] = q[i]
  BY DEF Frames
<1>2. t \in [0..n -> Nat] /\ t[0] = 0 /\ \A i \in 1..n : t[i] = t[i - 1] + q[i].size
  BY DEF Sums
<1> HIDE DEF n, p
<1>3. u \in [0..n + 1 -> Nat] /\ u[0] = 0 /\ u[n + 1] = t[n] + f.size
  BY <1>1, <1>2
<1>4. ASSUME NEW i \in 1..n + 1 PROVE u[i] = u[i - 1] + p[i].size
  <2>1. CASE i = n + 1
    BY <1>1, <1>2, <2>1
  <2>2. CASE i \in 1..n
    <3>1. i \in 0..n + 1 /\ i # n + 1 /\ i - 1 \in 0..n + 1 /\ i - 1 # n + 1
      BY <1>1, <2>2
    <3>2. u[i] = t[i] /\ u[i - 1] = t[i - 1]
      BY <3>1
    <3> QED
      BY <1>1, <1>2, <2>2, <3>2
  <2> QED
    BY <1>1, <2>1, <2>2
<1>5. Sums(u, p)
  BY <1>1, <1>3, <1>4 DEF Sums
<1> QED
  BY <1>3, <1>5 DEF n, p

\* What is behind the head.
LEMMA SumsTail ==
    ASSUME NEW q \in Seq(Frames), q # <<>>, NEW t, Sums(t, q)
    PROVE  \E u : Sums(u, Tail(q)) /\ t[Len(q)] = u[Len(q) - 1] + Head(q).size
<1> DEFINE n == Len(q)
           p == Tail(q)
           s == Head(q).size
           u == [i \in 0..n - 1 |-> t[i + 1] - s]
           S == {m \in Nat : m + 1 <= n => t[m + 1] >= s}
<1>1. /\ n \in Nat \ {0} /\ s \in Nat /\ s = q[1].size /\ Len(p) = n - 1
      /\ \A i \in 1..n - 1 : p[i] = q[i + 1] /\ p[i].size \in Nat
      /\ \A i \in 1..n : q[i].size \in Nat
  <2>1. n \in Nat \ {0} /\ \A i \in 1..n : q[i].size \in Nat
    BY SizesNat
  <2>2. s = q[1].size /\ 1 \in 1..n
    BY <2>1
  <2>3. Len(p) = n - 1 /\ \A i \in 1..n - 1 : p[i] = q[i + 1] /\ i + 1 \in 1..n
    OBVIOUS
  <2> HIDE DEF n, p, s
  <2> QED
    BY <2>1, <2>2, <2>3
<1>2. t \in [0..n -> Nat] /\ t[0] = 0 /\ \A i \in 1..n : t[i] = t[i - 1] + q[i].size
  BY DEF Sums
<1> HIDE DEF n, p, s
<1>3. t[1] = s
  BY <1>1, <1>2
<1>4. 0 \in S
  BY <1>1, <1>3
<1>5. ASSUME NEW m \in Nat, m \in S PROVE m + 1 \in S
  <2> SUFFICES ASSUME (m + 1) + 1 <= n PROVE t[(m + 1) + 1] >= s
    OBVIOUS
  <2>1. t[(m + 1) + 1] = t[m + 1] + q[(m + 1) + 1].size
    <3>1. (m + 1) + 1 \in 1..n /\ ((m + 1) + 1) - 1 = m + 1
      BY <1>1
    <3> QED
      BY <1>2, <3>1
  <2>2. /\ t[m + 1] >= s /\ q[(m + 1) + 1].size \in Nat /\ t[m + 1] \in Nat
    BY <1>1, <1>2, <1>5
  <2> QED
    BY <1>1, <2>1, <2>2
<1> HIDE DEF S
<1>6. Nat \subseteq S
  BY <1>4, <1>5, NatInduct
<1>7. ASSUME NEW i \in 0..n - 1 PROVE t[i + 1] >= s /\ t[i + 1] \in Nat
  BY <1>1, <1>2, <1>6 DEF S
<1>8. u \in [0..n - 1 -> Nat] /\ u[0] = 0 /\ t[n] = u[n - 1] + s
  <2>1. 0 \in 0..n - 1 /\ n - 1 \in 0..n - 1 /\ (n - 1) + 1 = n
    BY <1>1
  <2> QED
    BY <1>1, <1>3, <1>7, <2>1
<1>9. ASSUME NEW i \in 1..n - 1 PROVE u[i] = u[i - 1] + p[i].size
  <2>1. t[i + 1] = t[i] + q[i + 1].size
    BY <1>1, <1>2
  <2>2. i \in 0..n - 1 /\ i - 1 \in 0..n - 1 /\ (i - 1) + 1 = i /\ i \in 0..n /\ i + 1 \in 0..n
    BY <1>1
  <2>3. u[i] = t[i + 1] - s /\ u[i - 1] = t[i] - s
    BY <2>2
  <2>4. t[i] \in Nat /\ t[i + 1] \in Nat /\ q[i + 1].size \in Nat /\ p[i] = q[i + 1]
    BY <1>1, <1>2, <2>2
  <2>5. s \in Nat
    BY <1>1
  <2> DEFINE x == t[i]
             y == t[i + 1]
             z == q[i + 1].size
  <2>6. x \in Nat /\ y \in Nat /\ z \in Nat /\ y = x + z
    BY <2>1, <2>4
  <2>7. u[i] = y - s /\ u[i - 1] = x - s /\ p[i].size = z
    BY <2>3, <2>4
  <2> HIDE DEF u, x, y, z
  <2> QED
    BY <2>5, <2>6, <2>7
<1>10. Sums(u, p)
  BY <1>1, <1>8, <1>9 DEF Sums
<1> QED
  BY <1>8, <1>10 DEF n, p, s

\* The accounted bytes are the sum and within the bound.
BytesInv ==
    bytes <= MaxBuffer /\ \E t : Sums(t, queue) /\ bytes = t[Len(queue)]

LEMMA BytesPut ==
    ASSUME TypeOK, BytesInv, NEW f \in Frames, queue' = Append(queue, f),
           bytes' = bytes + f.size, bytes' <= MaxBuffer
    PROVE  BytesInv'
<1>1. PICK t : Sums(t, queue) /\ bytes = t[Len(queue)]
  BY DEF BytesInv
<1>2. queue \in Seq(Frames) /\ Len(queue') = Len(queue) + 1
  BY DEF TypeOK
<1>3. PICK u : Sums(u, queue') /\ u[Len(queue) + 1] = t[Len(queue)] + f.size
  BY <1>1, <1>2, SumsAppend
<1> QED
  BY <1>1, <1>2, <1>3 DEF BytesInv

\* An error frame is not accounted.
LEMMA BytesError ==
    ASSUME TypeOK, BytesInv, NEW seq \in Nat, queue' = Append(queue, ErrorFrame(seq)),
           bytes' = bytes
    PROVE  BytesInv'
<1>1. ErrorFrame(seq) \in Frames /\ ErrorFrame(seq).size = 0
  BY FrameType, ErrorFrameType DEF ErrorFrame, Kinds, Terminal
<1>2. bytes \in Nat /\ bytes' <= MaxBuffer
  BY DEF TypeOK, BytesInv
<1> QED
  BY <1>1, <1>2, BytesPut

\* Two frames at once: a table's, or its start and the error behind it.
LEMMA BytesTwo ==
    ASSUME TypeOK, BytesInv, NEW f \in Frames, NEW g \in Frames,
           queue' = Append(Append(queue, f), g),
           bytes' = bytes + f.size + g.size, bytes' <= MaxBuffer
    PROVE  BytesInv'
<1> DEFINE q == Append(queue, f)
<1>1. PICK t : Sums(t, queue) /\ bytes = t[Len(queue)]
  BY DEF BytesInv
<1>2. queue \in Seq(Frames) /\ q \in Seq(Frames) /\ Len(q) = Len(queue) + 1
  BY DEF TypeOK
<1>3. PICK u : Sums(u, q) /\ u[Len(queue) + 1] = t[Len(queue)] + f.size
  BY <1>1, <1>2, SumsAppend
<1> HIDE DEF q
<1>4. PICK v : Sums(v, Append(q, g)) /\ v[Len(q) + 1] = u[Len(q)] + g.size
  BY <1>2, <1>3, SumsAppend
<1>5. queue' = Append(q, g) /\ Len(queue') = Len(q) + 1
  BY <1>2 DEF q
<1> QED
  BY <1>1, <1>2, <1>3, <1>4, <1>5 DEF BytesInv

LEMMA BytesGet == ASSUME TypeOK, BytesInv, Get PROVE BytesInv'
<1>1. PICK t : Sums(t, queue) /\ bytes = t[Len(queue)]
  BY DEF BytesInv
<1>2. /\ queue \in Seq(Frames) /\ queue # <<>> /\ queue' = Tail(queue)
      /\ bytes' = Freed(Head(queue)) /\ bytes \in Nat
  BY DEF Get, TypeOK
<1>3. Len(queue') = Len(queue) - 1 /\ Len(queue) \in Nat
  BY <1>2
<1>4. PICK u : Sums(u, queue') /\ t[Len(queue)] = u[Len(queue) - 1] + Head(queue).size
  BY <1>1, <1>2, SumsTail
<1>5. u[Len(queue')] \in Nat /\ Head(queue).size \in Nat
  <2>1. queue' \in Seq(Frames) /\ 1 \in 1..Len(queue) /\ Head(queue) = queue[1]
    BY <1>2
  <2>2. Len(queue') \in 0..Len(queue') /\ queue[1].size \in Nat
    BY <1>2, <2>1, SizesNat
  <2> QED
    BY <1>4, <2>1, <2>2 DEF Sums
<1>6. bytes = u[Len(queue')] + Head(queue).size
  BY <1>1, <1>3, <1>4
<1> DEFINE a == u[Len(queue')]
           h == Head(queue).size
<1>7. a \in Nat /\ h \in Nat /\ bytes = a + h /\ bytes <= MaxBuffer /\ MaxBuffer \in Nat
  BY <1>5, <1>6, SizesAssumption DEF BytesInv
<1>8. bytes' = IF bytes > h THEN bytes - h ELSE 0
  BY <1>2 DEF Freed
<1> HIDE DEF a, h
<1>9. bytes' = a /\ bytes' <= MaxBuffer
  BY <1>7, <1>8
<1> QED
  BY <1>4, <1>9 DEF BytesInv, a

LEMMA BytesInit == Init => BytesInv
<1> SUFFICES ASSUME Init PROVE BytesInv
  OBVIOUS
<1>1. queue = <<>> /\ bytes = 0 /\ Len(queue) = 0 /\ [i \in 0..0 |-> 0][0] = 0
  BY DEF Init
<1>2. 0 <= MaxBuffer
  BY SizesAssumption
<1> QED
  BY <1>1, <1>2, SumsEmpty DEF BytesInv

LEMMA BytesStep == TypeOK /\ BytesInv /\ [Next]_vars => BytesInv'
<1> SUFFICES ASSUME TypeOK, BytesInv, [Next]_vars PROVE BytesInv'
  OBVIOUS
<1>0. ASSUME UNCHANGED <<queue, bytes>> PROVE BytesInv'
  BY <1>0 DEF BytesInv
<1>t. next \in Nat /\ bytes \in Nat /\ Sizes \subseteq Nat /\ next + 1 \in Nat
  BY SizesAssumption DEF TypeOK
<1>1. ASSUME NEW kind \in Kinds, NEW size \in Sizes, Put(kind, size), Fits(size)
      PROVE  BytesInv'
  BY <1>1, <1>t, FrameType, BytesPut DEF Put, Fits
<1>2. ASSUME NEW captured, FailTurn(captured) PROVE BytesInv'
  BY <1>2, <1>t, BytesError DEF FailTurn
<1>3. ASSUME NEW size \in Sizes, Start(size) \/ Interaction(size) \/ Conclude(size)
                                 \/ Text(size) \/ Progress(size)
      PROVE  BytesInv'
  <2>1. {"turn_accepted", "interaction", "turn_outcome", "text", "activity"} \subseteq Kinds
    BY DEF Kinds, Terminal
  <2>2. \/ UNCHANGED <<queue, bytes>>
        \/ \E kind \in Kinds : Put(kind, size) /\ Fits(size)
    BY <1>3, <2>1 DEF Start, Interaction, Conclude, Text, Progress
  <2> QED
    BY <1>0, <1>1, <2>2
<1>4. ASSUME NEW size \in Sizes, Overflows(size) PROVE BytesInv'
  BY <1>4, <1>t, BytesError DEF Overflows
<1>5. ASSUME NEW size \in Sizes, Paint(size) PROVE BytesInv'
  <2>1. "table_start" \in Kinds /\ "table_end" \in Kinds /\ size \in Nat
    BY <1>t DEF Kinds
  <2> DEFINE f == Frame("table_start", next, size)
             g == Frame("table_end", next + 1, size)
  <2>2. f \in Frames /\ g \in Frames /\ f.size = size /\ g.size = size
    BY <1>t, <2>1, FrameType
  <2>3. queue' = Append(Append(queue, f), g) /\ bytes' = bytes + 2 * size
        /\ bytes + 2 * size <= MaxBuffer
    BY <1>5 DEF Paint
  <2> HIDE DEF f, g
  <2>4. bytes' = bytes + f.size + g.size /\ bytes' <= MaxBuffer
    BY <1>t, <2>1, <2>2, <2>3
  <2> QED
    BY <2>2, <2>3, <2>4, BytesTwo
<1>6. ASSUME NEW size \in Sizes, PaintBreaks(size) PROVE BytesInv'
  <2>1. "table_start" \in Kinds /\ "stream_error" \in Kinds /\ size \in Nat
    BY <1>t DEF Kinds, Terminal
  <2> DEFINE f == Frame("table_start", next, size)
             g == ErrorFrame(next + 1)
  <2>2. f \in Frames /\ g \in Frames /\ f.size = size /\ g.size = 0
    BY <1>t, <2>1, FrameType DEF ErrorFrame
  <2>3. queue' = Append(Append(queue, f), g) /\ bytes' = bytes + size
        /\ bytes + size <= MaxBuffer
    BY <1>6 DEF PaintBreaks, Fits
  <2> HIDE DEF f, g
  <2>4. bytes' = bytes + f.size + g.size /\ bytes' <= MaxBuffer
    BY <1>t, <2>1, <2>2, <2>3
  <2> QED
    BY <2>2, <2>3, <2>4, BytesTwo
<1>7. CASE Fails \/ Mark
  BY <1>2, <1>7 DEF Fails, Mark
<1>8. CASE BeginFinalize \/ SealAnswer \/ PersistAnswer \/ Verified \/ Check \/ Cancel
             \/ Expire \/ Interrupt
  <2>1. UNCHANGED <<queue, bytes>>
    BY <1>8 DEF BeginFinalize, SealAnswer, PersistAnswer, Verified, Check, Cancel, Expire,
       Interrupt, StopTurn, TimeOut, queueVars
  <2> QED
    BY <1>0, <2>1
<1>9. CASE Open \/ Reserve \/ ReserveLate \/ Loop \/ Leaves \/ Resume \/ CloseStream
             \/ Return \/ KeepAlive \/ Recancel \/ Stopped \/ DeadlinePasses
             \/ ClientCloses \/ UNCHANGED vars
  <2>1. UNCHANGED <<queue, bytes>>
    BY <1>9 DEF Open, Reserve, ReserveLate, Loop, Leaves, Resume, CloseStream, Return,
       KeepAlive, Recancel, Stopped, DeadlinePasses, ClientCloses, vars, queueVars
  <2> QED
    BY <1>0, <2>1
<1> QED
  BY <1>3, <1>4, <1>5, <1>6, <1>7, <1>8, <1>9, BytesGet DEF Next, Producer, Emit, Generator

\* However frames of any size are put, dropped, got or abandoned, the queue's account
\* is the bytes of what it holds and never over the bound (ByteBoundedAskQueue).
THEOREM BufferKept == Spec => []BufferBounded
<1>1. TypeOK /\ BytesInv => BufferBounded
  BY BufferedSums DEF BytesInv, BufferBounded, TypeOK
<1> QED
  BY <1>1, TypeInit, TypeStep, BytesInit, BytesStep, PTL DEF Spec
=============================================================================
