------------------------- MODULE ThreadMemoryProofs -------------------------
(***************************************************************************)
(* The memory of a thread for any requests, scopes, lifetime and bounds:    *)
(* types, whose exchanges it holds, what a rebuild keeps, and that the      *)
(* optimistic writes of ThreadMemory.tla are the atomic ones of ThreadLog.  *)
(***************************************************************************)
EXTENDS ThreadMemory, FiniteSetTheorems, TLAPS

USE ThreadAssumption

--------------------------------------------------------------------------
(* Sequences and rows                                                      *)

LEMMA TrimGood ==
    ASSUME NEW s \in Seq(Requests)
    PROVE  /\ trim_for_storage(s) \in Seq(Requests)
           /\ In(trim_for_storage(s)) \subseteq In(s)
           /\ Distinct(s) => Distinct(trim_for_storage(s))
<1>1. CASE Len(s) > MaxExchanges
  <2> DEFINE t == SubSeq(s, Len(s) - MaxExchanges + 1, Len(s))
             k == Len(s) - MaxExchanges
  <2>1. trim_for_storage(s) = t
    BY <1>1 DEF trim_for_storage
  <2>2. t \in Seq(Requests) /\ Len(t) = MaxExchanges
        /\ \A i \in 1 .. MaxExchanges : t[i] = s[i + k] /\ i + k \in 1 .. Len(s)
    BY <1>1
  <2> HIDE DEF t
  <2>3. In(t) \subseteq In(s)
    <3> SUFFICES ASSUME NEW i \in 1 .. MaxExchanges PROVE t[i] \in In(s)
      BY <2>2 DEF In
    <3>1. t[i] = s[i + k] /\ i + k \in 1 .. Len(s)
      BY <2>2
    <3> HIDE DEF k
    <3> QED
      BY <3>1 DEF In
  <2>4. Distinct(s) => Distinct(t)
    <3> SUFFICES ASSUME Distinct(s), NEW i \in 1 .. MaxExchanges, NEW j \in 1 .. MaxExchanges,
                        t[i] = t[j]
                 PROVE  i = j
      BY <2>2 DEF Distinct
    <3>1. /\ i + k \in 1 .. Len(s) /\ j + k \in 1 .. Len(s) /\ s[i + k] = s[j + k]
          /\ k \in Int
      BY <2>2
    <3> HIDE DEF k
    <3>2. \A x, y \in 1 .. Len(s) : s[x] = s[y] => x = y
      BY DEF Distinct
    <3>3. i + k = j + k
      BY <3>1, <3>2
    <3> QED
      BY <3>1, <3>3
  <2> QED
    BY <2>1, <2>2, <2>3, <2>4
<1>2. CASE ~(Len(s) > MaxExchanges)
  BY <1>2 DEF trim_for_storage
<1> QED
  BY <1>1, <1>2

LEMMA BehindGood ==
    ASSUME NEW s \in Seq(Requests), NEW t \in Seq(Requests)
    PROVE  /\ s \o t \in Seq(Requests)
           /\ In(s \o t) \subseteq In(s) \cup In(t)
<1>1. /\ s \o t \in Seq(Requests) /\ Len(s \o t) = Len(s) + Len(t)
      /\ \A i \in 1 .. Len(s) : (s \o t)[i] = s[i]
      /\ \A i \in Len(s) + 1 .. Len(s) + Len(t) :
            (s \o t)[i] = t[i - Len(s)] /\ i - Len(s) \in 1 .. Len(t)
  OBVIOUS
<1> QED
  BY <1>1 DEF In

LEMMA OneBehind ==
    ASSUME NEW s \in Seq(Requests), NEW r \in Requests, r \notin In(s), Distinct(s)
    PROVE  Distinct(s \o <<r>>)
<1>1. /\ Len(s \o <<r>>) = Len(s) + 1 /\ (s \o <<r>>)[Len(s) + 1] = r
      /\ \A i \in 1 .. Len(s) : (s \o <<r>>)[i] = s[i]
  OBVIOUS
<1>2. \A i \in 1 .. Len(s) : s[i] # r
  BY DEF In
<1> QED
  BY <1>1, <1>2 DEF Distinct

LEMMA OneGood ==
    ASSUME NEW r \in Requests
    PROVE  <<r>> \in Seq(Requests) /\ In(<<r>>) = {r} /\ Distinct(<<r>>)
BY DEF In, Distinct

\* The turns a rebuild takes from a set of rows.
LEMMA InOrderGood ==
    ASSUME NEW S \in SUBSET Requests, NEW turns, InOrder(turns, S), row \in [Requests -> Nat]
    PROVE  /\ turns \in Seq(Requests) /\ turns \in Written
           /\ In(turns) \subseteq S /\ Distinct(turns)
<1>1. /\ IsFiniteSet(S) /\ Cardinality(S) \in Nat
      /\ Cardinality(Requests) \in Nat /\ Cardinality(S) <= Cardinality(Requests)
  BY FS_Subset, FS_CardinalityType
<1>2. /\ turns \in [1 .. Cardinality(S) -> S] /\ turns \in [1 .. Cardinality(S) -> Requests]
      /\ \A i, j \in 1 .. Cardinality(S) : i < j => row[turns[i]] < row[turns[j]]
  BY DEF InOrder
<1>3. turns \in Seq(Requests) /\ Len(turns) = Cardinality(S)
  BY <1>1, <1>2
<1>4. turns \in Written
  BY <1>1, <1>2 DEF Written
<1>5. In(turns) \subseteq S
  BY <1>2, <1>3 DEF In
<1>6. Distinct(turns)
  <2> SUFFICES ASSUME NEW i \in 1 .. Cardinality(S), NEW j \in 1 .. Cardinality(S),
                      turns[i] = turns[j], i # j
               PROVE  FALSE
    BY <1>3 DEF Distinct
  <2>1. row[turns[i]] \in Nat /\ row[turns[j]] \in Nat
    BY <1>2
  <2>2. i < j \/ j < i
    BY <1>1
  <2> QED
    BY <1>2, <2>1, <2>2
<1> QED
  BY <1>3, <1>4, <1>5, <1>6

LEMMA OneWritten == ASSUME NEW r \in Requests PROVE <<r>> \in Written
<1>1. Cardinality(Requests) \in Nat /\ Cardinality(Requests) # 0
  BY FS_CardinalityType, FS_EmptySet
<1>2. <<r>> \in [1 .. 1 -> Requests] /\ 1 \in 0 .. Cardinality(Requests)
  BY <1>1
<1> QED
  BY <1>2 DEF Written

--------------------------------------------------------------------------
(* Types                                                                   *)

LEMMA NoThreadIsNone == NoThread \notin Threads
BY DEF NoThread, Threads

LEMMA GoGood ==
    ASSUME TypeOK, NEW r \in Requests, NEW s \in Stages, Go(r, s)
    PROVE  stage' \in [Requests -> Stages]
BY DEF Go, TypeOK

LEMMA LeaveGood ==
    ASSUME TypeOK, NEW r \in Requests, NEW s \in Stages, Leave(r, s)
    PROVE  /\ stage' \in [Requests -> Stages] /\ history' \in [Requests -> Seq(Requests)]
           /\ began' \in [Requests -> Nat] /\ tries' \in [Requests -> 0 .. MaxTries - 1]
<1>1. <<>> \in Seq(Requests) /\ 0 \in 0 .. MaxTries - 1
  OBVIOUS
<1> QED
  BY <1>1, GoGood DEF Leave, TypeOK

LEMMA AddRowGood ==
    ASSUME TypeOK, NEW r \in Requests, AddRow(r)
    PROVE  row' \in [Requests -> Nat] /\ first' \in [Scopes -> Nat] /\ row'[r] # 0
<1>1. Cardinality({q \in Requests : row[q] # 0}) \in Nat
  BY FS_Subset, FS_CardinalityType
<1> QED
  BY <1>1 DEF AddRow, TypeOK

LEMMA ThreadType ==
    ASSUME NEW o \in Scopes, NEW c \in Nat, NEW t \in Seq(Requests)
    PROVE  /\ [owner |-> o, created |-> c, turns |-> t] \in Threads
           /\ [owner |-> o, created |-> c, turns |-> t] # NoThread
BY NoThreadIsNone DEF Threads

\* What a write stores.
LEMMA EncodedGood ==
    ASSUME TypeOK, NEW r \in Requests
    PROVE  /\ Turns(r) \in Seq(Requests) /\ Start(r) \in Nat
           /\ Encoded(r) \in Threads /\ Encoded(r) # NoThread
           /\ Live(seen[r]) =>
                /\ seen[r] \in Threads
                /\ Encoded(r).owner = seen[r].owner
                /\ Encoded(r).created = seen[r].created
                /\ Encoded(r).turns = trim_for_storage(seen[r].turns \o Turns(r))
           /\ ~Live(seen[r]) =>
                Encoded(r) = [owner |-> who[r], created |-> Start(r),
                              turns |-> trim_for_storage(Turns(r))]
<1>1. Turns(r) \in Seq(Requests) /\ Start(r) \in Nat
  BY OneGood DEF Turns, Start, TypeOK
<1>2. CASE Live(seen[r])
  <2>1. seen[r] \in Threads
    BY <1>2 DEF Live, TypeOK
  <2>2. /\ seen[r].owner \in Scopes /\ seen[r].created \in Nat
        /\ seen[r].turns \in Seq(Requests)
        /\ seen[r] = [owner |-> seen[r].owner, created |-> seen[r].created,
                      turns |-> seen[r].turns]
    BY <2>1 DEF Threads
  <2>3. trim_for_storage(seen[r].turns \o Turns(r)) \in Seq(Requests)
    BY <1>1, <2>2, BehindGood, TrimGood
  <2>4. Encoded(r) = [seen[r] EXCEPT !.turns = trim_for_storage(seen[r].turns \o Turns(r))]
    BY <1>2 DEF Encoded
  <2> DEFINE T == trim_for_storage(seen[r].turns \o Turns(r))
  <2> HIDE DEF T
  <2>5. Encoded(r) = [owner |-> seen[r].owner, created |-> seen[r].created, turns |-> T]
    BY <2>2, <2>4 DEF T
  <2>6. T \in Seq(Requests)
    BY <2>3 DEF T
  <2>7. Encoded(r) \in Threads /\ Encoded(r) # NoThread
    BY <2>2, <2>5, <2>6, ThreadType
  <2> QED
    BY <1>1, <1>2, <2>1, <2>5, <2>7 DEF T
<1>3. CASE ~Live(seen[r])
  <2>1. trim_for_storage(Turns(r)) \in Seq(Requests) /\ who[r] \in Scopes
    BY <1>1, TrimGood DEF TypeOK
  <2> QED
    BY <1>1, <1>3, <2>1, ThreadType DEF Encoded
<1> QED
  BY <1>2, <1>3

LEMMA ThreadRowsGood ==
    ASSUME TypeOK, NEW s
    PROVE  /\ ThreadRows(s) \in SUBSET Requests
           /\ \A e \in ThreadRows(s) : e \in kept /\ row[e] # 0 /\ who[e] = s
BY DEF ThreadRows, Owned

LEMMA TypesInit == Init => TypeOK
<1>1. <<>> \in Seq(Requests) /\ 0 \in 0 .. MaxTries - 1 /\ "idle" \in Stages
  BY DEF Stages
<1> SUFFICES ASSUME Init PROVE TypeOK
  OBVIOUS
<1>2. /\ who \in [Requests -> Scopes] /\ now \in Nat /\ record \in Threads \cup {NoThread}
      /\ kept \subseteq Requests /\ watching \subseteq Requests /\ crossed \in BOOLEAN
  BY DEF Init
<1>3. /\ row \in [Requests -> Nat] /\ first \in [Scopes -> Nat]
      /\ stage \in [Requests -> Stages] /\ began \in [Requests -> Nat]
  BY <1>1 DEF Init
<1>4. /\ tries \in [Requests -> 0 .. MaxTries - 1] /\ stored \in [Requests -> Nat]
  BY <1>1 DEF Init
<1>5. history \in [Requests -> Seq(Requests)]
  BY <1>1 DEF Init
<1>6. seen \in [Requests -> Threads \cup {NoThread}]
  BY DEF Init
<1> QED
  BY <1>2, <1>3, <1>4, <1>5, <1>6 DEF TypeOK

LEMMA TypesNext == TypeOK /\ [Next]_vars => TypeOK'
<1> SUFFICES ASSUME TypeOK, [Next]_vars PROVE TypeOK'
  OBVIOUS
<1> USE DEF TypeOK, Stages
<1>1. ASSUME NEW r \in Requests, Reserve(r) PROVE TypeOK'
  BY <1>1, GoGood, AddRowGood DEF Reserve
<1>2. ASSUME NEW r \in Requests, LoadThread(r) PROVE TypeOK'
  <2>1. stage' \in [Requests -> Stages]
    BY <1>2 DEF LoadThread, Give, Go
  <2>2. history' \in [Requests -> Seq(Requests)]
    BY <1>2, NoThreadIsNone DEF LoadThread, Give, Threads
  <2> QED
    BY <1>2, <2>1, <2>2 DEF LoadThread
<1>3. ASSUME NEW r \in Requests, ReadRows(r) PROVE TypeOK'
  <2>1. stage' \in [Requests -> Stages] /\ began' \in [Requests -> Nat]
    BY <1>3 DEF ReadRows, Give, Go
  <2>2. history' \in [Requests -> Seq(Requests)]
    <3>1. CASE Give(r, <<>>)
      BY <3>1 DEF Give
    <3>2. CASE \E turns : /\ InOrder(turns, ThreadRows(who[r]))
                          /\ history' = [history EXCEPT ![r] = turns]
      <4>1. PICK turns : /\ InOrder(turns, ThreadRows(who[r]))
                         /\ history' = [history EXCEPT ![r] = turns]
        BY <3>2
      <4>2. turns \in Seq(Requests)
        BY <4>1, InOrderGood, ThreadRowsGood
      <4> QED
        BY <4>1, <4>2
    <3> QED
      BY <1>3, <3>1, <3>2 DEF ReadRows
  <2> QED
    BY <1>3, <2>1, <2>2 DEF ReadRows
<1>4. ASSUME NEW r \in Requests, Watch(r) PROVE TypeOK'
  <2>1. CASE Leave(r, "over") /\ UNCHANGED <<seen, watching>>
    BY <1>4, <2>1, LeaveGood DEF Watch
  <2>2. CASE ~Foreign(record, who[r])
    BY <1>4, <2>2, GoGood DEF Watch
  <2> QED
    BY <1>4, <2>1, <2>2 DEF Watch
<1>5. ASSUME NEW r \in Requests, Execute(r) PROVE TypeOK'
  <2>1. record' \in Threads
    BY <1>5, EncodedGood DEF Execute
  <2>2. \E s \in Stages : Leave(r, s)
    BY <1>5 DEF Execute, Wrote, Raised
  <2>3. stored' \in [Requests -> Nat] /\ seen' \in [Requests -> Threads \cup {NoThread}]
        /\ crossed' \in BOOLEAN /\ watching' \subseteq Requests
    BY <1>5 DEF Execute, Unwatched, WritesBack, Live
  <2>4. /\ stage' \in [Requests -> Stages] /\ history' \in [Requests -> Seq(Requests)]
        /\ began' \in [Requests -> Nat] /\ tries' \in [Requests -> 0 .. MaxTries - 1]
    BY <2>2, LeaveGood
  <2>5. UNCHANGED <<who, now, row, first, kept>>
    BY <1>5 DEF Execute
  <2> QED
    BY <2>1, <2>3, <2>4, <2>5
<1>6. ASSUME NEW r \in Requests, LostRace(r) PROVE TypeOK'
  <2>1. seen' \in [Requests -> Threads \cup {NoThread}]
    BY <1>6 DEF LostRace, Unwatched
  <2>2. CASE Raised(r)
    <3>1. \E s \in Stages : Leave(r, s)
      BY <2>2 DEF Raised
    <3>2. /\ stage' \in [Requests -> Stages] /\ history' \in [Requests -> Seq(Requests)]
          /\ began' \in [Requests -> Nat] /\ tries' \in [Requests -> 0 .. MaxTries - 1]
      BY <3>1, LeaveGood
    <3>3. UNCHANGED <<who, now, record, row, first, kept, watching, stored, crossed>>
      BY <1>6 DEF LostRace
    <3> QED
      BY <2>1, <3>2, <3>3
  <2>3. CASE ~LastTry(r) /\ ~Raised(r)
    <3>1. tries' \in [Requests -> 0 .. MaxTries - 1]
      <4>1. tries[r] + 1 \in 0 .. MaxTries - 1
        BY <2>3 DEF LastTry
      <4> QED
        BY <1>6, <2>3, <4>1 DEF LostRace
    <3>2. stage' \in [Requests -> Stages]
      BY <1>6, <2>3 DEF LostRace, Go
    <3> QED
      BY <1>6, <2>1, <2>3, <3>1, <3>2 DEF LostRace
  <2> QED
    BY <1>6, <2>2, <2>3 DEF LostRace
<1>7. ASSUME NEW r \in Requests, WriteFails(r) PROVE TypeOK'
  <2>1. \E s \in Stages : Leave(r, s)
    BY <1>7 DEF WriteFails, Raised
  <2> QED
    BY <1>7, <2>1, LeaveGood DEF WriteFails, Unwatched
<1>8. ASSUME NEW r \in Requests, Answered(r) PROVE TypeOK'
  BY <1>8, LeaveGood DEF Answered
<1>9. ASSUME NEW r \in Requests, Refused(r) PROVE TypeOK'
  BY <1>9, LeaveGood DEF Refused, Unwatched
<1>10. ASSUME NEW r \in Requests, Commit(r) PROVE TypeOK'
  BY <1>10, GoGood, AddRowGood DEF Commit
<1>11. ASSUME NEW r \in Requests, AnsweredElsewhere(r) \/ NotKept(r) PROVE TypeOK'
  BY <1>11, GoGood DEF AnsweredElsewhere, NotKept
<1>12. ASSUME NEW r \in Requests, Terminal(r) PROVE TypeOK'
  BY <1>12, AddRowGood DEF Terminal
<1>13. CASE RedisLoses
  BY <1>13 DEF RedisLoses
<1>14. CASE Tick
  BY <1>14 DEF Tick
<1>15. CASE UNCHANGED vars
  BY <1>15 DEF vars
<1> QED
  BY <1>1, <1>2, <1>3, <1>4, <1>5, <1>6, <1>7, <1>8, <1>9, <1>10, <1>11, <1>12,
     <1>13, <1>14, <1>15 DEF Next, Step

\* Every variable has its type, however many requests, losses and ticks there are
\* (ThreadRecord, QueryRecordRow).
THEOREM TypeCorrect == Spec => []TypeOK
BY TypesInit, TypesNext, PTL DEF Spec

--------------------------------------------------------------------------
(* The inductive invariant                                                 *)

\* Nothing is dated after the present.
Times ==
    /\ \A s \in Scopes : first[s] <= now
    /\ \A r \in Requests : began[r] <= now
    /\ record # NoThread => record.created <= now

\* While its WATCH holds, a writer's copy is the record, and its own.
Watched ==
    \A r \in watching :
        /\ stage[r] \in {"rebuilding", "storing"} /\ seen[r] = record
        /\ record # NoThread => record.owner = who[r]

\* What a rebuild writes back was kept, and its thread is as old as that.
Restored ==
    \A r \in Requests : WritesBack(r) =>
        /\ history[r] \in Written /\ Distinct(history[r])
        /\ \A e \in In(history[r]) : e \in kept /\ began[r] <= stored[e]

KeptRows ==
    \A e \in kept : stage[e] = "over" /\ row[e] # 0 /\ first[who[e]] <= stored[e]

\* The record holds exchanges of turns that are done with it.
Held == record # NoThread => \A e \in In(record.turns) : stage[e] \in {"commit", "over"}

IInv ==
    /\ TypeOK /\ Times /\ Watched /\ Restored /\ KeptRows /\ Held
    /\ OwnMemory /\ MemorySound

LEMMA InitIInv == Init => IInv
<1> SUFFICES ASSUME Init PROVE IInv
  OBVIOUS
<1>1. TypeOK
  BY TypesInit
<1>2. Times /\ Watched /\ KeptRows /\ Held /\ MemorySound
  BY DEF Init, Times, Watched, KeptRows, Held, MemorySound
<1>3. Restored /\ OwnMemory
  BY DEF Init, Restored, OwnMemory, WritesBack, In
<1> QED
  BY <1>1, <1>2, <1>3 DEF IInv

\* The steps that put nothing into the thread and lose nothing of it.
Quiet(r) ==
    \/ Reserve(r) \/ LoadThread(r) \/ ReadRows(r) \/ Watch(r) \/ LostRace(r)
    \/ WriteFails(r) \/ Answered(r) \/ Refused(r) \/ Commit(r)
    \/ AnsweredElsewhere(r) \/ NotKept(r) \/ Terminal(r)

LEMMA QuietRecord == ASSUME NEW r \in Requests, Quiet(r)
                     PROVE  UNCHANGED <<record, now, who, crossed>>
BY DEF Quiet, Reserve, LoadThread, ReadRows, Watch, LostRace, WriteFails, Answered,
       Refused, Commit, AnsweredElsewhere, NotKept, Terminal

LEMMA Cases ==
    ASSUME [Next]_vars
    PROVE  \/ \E r \in Requests : Quiet(r) \/ Execute(r)
           \/ RedisLoses \/ Tick \/ UNCHANGED vars
BY DEF Next, Step, Quiet

\* A step of one request leaves the others where they stand.
LEMMA OwnStage ==
    ASSUME TypeOK, NEW r \in Requests, Quiet(r) \/ Execute(r)
    PROVE  /\ \A q \in Requests \ {r} : stage'[q] = stage[q]
           /\ \A q \in Requests \ {r} : history'[q] = history[q] /\ began'[q] = began[q]
           /\ \A q \in Requests \ {r} : stored'[q] = stored[q]
<1> USE DEF TypeOK, Go, Give, Leave
<1>1. ASSUME Reserve(r) \/ LoadThread(r) \/ ReadRows(r)
      PROVE  \A q \in Requests \ {r} : /\ stage'[q] = stage[q] /\ history'[q] = history[q]
                                       /\ began'[q] = began[q] /\ stored'[q] = stored[q]
  BY <1>1 DEF Reserve, LoadThread, ReadRows
<1>2. ASSUME Watch(r) \/ LostRace(r) \/ WriteFails(r)
      PROVE  \A q \in Requests \ {r} : /\ stage'[q] = stage[q] /\ history'[q] = history[q]
                                       /\ began'[q] = began[q] /\ stored'[q] = stored[q]
  BY <1>2 DEF Watch, LostRace, WriteFails, Raised
<1>3. ASSUME Answered(r) \/ Refused(r) \/ Commit(r) \/ AnsweredElsewhere(r) \/ NotKept(r)
               \/ Terminal(r)
      PROVE  \A q \in Requests \ {r} : /\ stage'[q] = stage[q] /\ history'[q] = history[q]
                                       /\ began'[q] = began[q] /\ stored'[q] = stored[q]
  BY <1>3 DEF Answered, Refused, Commit, AnsweredElsewhere, NotKept, Terminal
<1>4. ASSUME Execute(r)
      PROVE  \A q \in Requests \ {r} : /\ stage'[q] = stage[q] /\ history'[q] = history[q]
                                       /\ began'[q] = began[q] /\ stored'[q] = stored[q]
  BY <1>4 DEF Execute, Wrote, Raised
<1> QED
  BY <1>1, <1>2, <1>3, <1>4 DEF Quiet

\* The first row of a scope is dated once.
LEMMA FirstRow ==
    ASSUME TypeOK, Times, NEW r \in Requests, AddRow(r)
    PROVE  /\ \A s \in Scopes : first'[s] = first[s] \/ first'[s] = now
           /\ \A s \in Scopes : Owned(s) # {} => first'[s] = first[s]
           /\ \A q \in Requests : row[q] # 0 => row'[q] # 0
<1>1. row'[r] # 0
  BY AddRowGood
<1> QED
  BY <1>1 DEF AddRow, TypeOK, Times

LEMMA TimesNext == ASSUME IInv, [Next]_vars PROVE Times'
<1> USE DEF IInv
<1>0. now \in Nat /\ 0 <= now
  BY DEF TypeOK
<1>1. ASSUME NEW r \in Requests, Quiet(r) PROVE Times'
  <2>1. \A s \in Scopes : first'[s] <= now
    <3>1. first' = first \/ AddRow(r)
      BY <1>1 DEF Quiet, Reserve, LoadThread, ReadRows, Watch, LostRace, WriteFails,
                  Answered, Refused, Commit, AnsweredElsewhere, NotKept, Terminal
    <3> QED
      BY <1>0, <3>1, FirstRow DEF Times
  <2>2. began'[r] <= now
    <3>1. began' = began \/ began' = [began EXCEPT ![r] = 0]
            \/ began' = [began EXCEPT ![r] = first[who[r]]]
      BY <1>1 DEF Quiet, Reserve, LoadThread, ReadRows, Watch, LostRace, WriteFails, Leave,
                  Raised, Answered, Refused, Commit, AnsweredElsewhere, NotKept, Terminal
    <3>2. who[r] \in Scopes
      BY DEF TypeOK
    <3> QED
      BY <1>0, <3>1, <3>2 DEF Times, TypeOK
  <2>3. \A q \in Requests : began'[q] <= now
    BY <1>1, <2>2, OwnStage DEF Times
  <2> QED
    BY <1>1, <2>1, <2>3, QuietRecord DEF Times
<1>2. ASSUME NEW r \in Requests, Execute(r) PROVE Times'
  <2>1. began'[r] <= now
    BY <1>0, <1>2 DEF Execute, Wrote, Raised, Leave, TypeOK
  <2>2. \A q \in Requests : began'[q] <= now
    BY <1>2, <2>1, OwnStage DEF Times
  <2>3. Encoded(r).created <= now
    <3>1. CASE Live(seen[r])
      BY <1>2, <3>1, EncodedGood DEF Execute, Permitted, Watched, Times, Live
    <3>2. CASE ~Live(seen[r])
      <4>1. Start(r) <= now
        BY <1>0 DEF Start, Times
      <4> QED
        BY <3>2, <4>1, EncodedGood
    <3> QED
      BY <3>1, <3>2
  <2> QED
    BY <1>2, <2>2, <2>3 DEF Execute, Times
<1>3. CASE RedisLoses
  BY <1>3 DEF RedisLoses, Times
<1>4. CASE Tick
  <2>1. /\ \A s \in Scopes : first[s] \in Nat
        /\ \A q \in Requests : began[q] \in Nat
        /\ record # NoThread => record.created \in Nat
    BY DEF TypeOK, Threads
  <2> QED
    BY <1>0, <1>4, <2>1 DEF Tick, Times
<1>5. CASE UNCHANGED vars
  BY <1>5 DEF vars, Times
<1> QED
  BY <1>1, <1>2, <1>3, <1>4, <1>5, Cases

\* A quiet step of one request touches only its own copy, and only Watch opens a WATCH.
LEMMA QuietWatching ==
    ASSUME TypeOK, NEW r \in Requests, Quiet(r)
    PROVE  /\ \A q \in Requests \ {r} : seen'[q] = seen[q] /\ (q \in watching' => q \in watching)
           /\ r \in watching' =>
                \/ r \in watching /\ stage[r] \notin {"rebuilding", "storing"}
                \/ /\ ~Foreign(record, who[r]) /\ seen'[r] = record
                   /\ stage'[r] \in {"rebuilding", "storing"}
<1>0. seen \in [Requests -> Threads \cup {NoThread}] /\ stage \in [Requests -> Stages]
  BY DEF TypeOK
<1>1. ASSUME Reserve(r) \/ LoadThread(r) \/ ReadRows(r)
      PROVE  UNCHANGED <<seen, watching>> /\ stage[r] \notin {"rebuilding", "storing"}
  BY <1>1 DEF Reserve, LoadThread, ReadRows
<1>2. ASSUME Answered(r) \/ Commit(r) \/ AnsweredElsewhere(r) \/ NotKept(r) \/ Terminal(r)
      PROVE  UNCHANGED <<seen, watching>> /\ stage[r] \notin {"rebuilding", "storing"}
  BY <1>2 DEF Answered, Commit, AnsweredElsewhere, NotKept, Terminal
<1>3. ASSUME LostRace(r) \/ WriteFails(r) \/ Refused(r)
      PROVE  /\ r \notin watching' /\ watching' \subseteq watching
             /\ \A q \in Requests \ {r} : seen'[q] = seen[q]
  BY <1>0, <1>3 DEF LostRace, WriteFails, Refused, Permitted, Unwatched
<1>4. CASE Watch(r)
  <2>1. stage[r] \notin {"rebuilding", "storing"}
    BY <1>4 DEF Watch
  <2>2. CASE Foreign(record, who[r])
    BY <1>4, <2>1, <2>2 DEF Watch
  <2>3. CASE ~Foreign(record, who[r])
    <3>1. /\ seen' = [seen EXCEPT ![r] = record] /\ watching' = watching \cup {r}
          /\ Go(r, IF WritesBack(r) THEN "rebuilding" ELSE "storing")
      BY <1>4, <2>3 DEF Watch
    <3>2. seen'[r] = record /\ \A q \in Requests \ {r} : seen'[q] = seen[q]
      BY <1>0, <3>1
    <3>3. stage'[r] \in {"rebuilding", "storing"}
      BY <1>0, <3>1 DEF Go
    <3> QED
      BY <2>3, <3>1, <3>2, <3>3
  <2> QED
    BY <2>2, <2>3
<1> QED
  BY <1>1, <1>2, <1>3, <1>4 DEF Quiet

LEMMA WatchedNext == ASSUME IInv, [Next]_vars PROVE Watched'
<1>0. TypeOK /\ Watched /\ watching \subseteq Requests
  BY DEF IInv, TypeOK
<1>1. ASSUME NEW r \in Requests, Quiet(r) PROVE Watched'
  <2>1. UNCHANGED <<record, who>>
    BY <1>1, QuietRecord
  <2>2. ASSUME NEW q \in watching', q \in Requests \ {r}
        PROVE  /\ stage'[q] \in {"rebuilding", "storing"} /\ seen'[q] = record
               /\ record # NoThread => record.owner = who[q]
    <3>1. q \in watching /\ seen'[q] = seen[q] /\ stage'[q] = stage[q]
      BY <1>0, <1>1, <2>2, QuietWatching, OwnStage
    <3> QED
      BY <1>0, <3>1 DEF Watched
  <2>3. ASSUME r \in watching'
        PROVE  /\ stage'[r] \in {"rebuilding", "storing"} /\ seen'[r] = record
               /\ record # NoThread => record.owner = who[r]
    <3>1. ~(r \in watching /\ stage[r] \notin {"rebuilding", "storing"})
      BY <1>0 DEF Watched
    <3>2. /\ ~Foreign(record, who[r]) /\ seen'[r] = record
          /\ stage'[r] \in {"rebuilding", "storing"}
      BY <1>0, <1>1, <2>3, <3>1, QuietWatching
    <3> QED
      BY <3>2 DEF Foreign
  <2>4. watching' \subseteq Requests
    BY <1>0, <1>1, QuietWatching, TypesNext DEF TypeOK
  <2> QED
    BY <2>1, <2>2, <2>3, <2>4 DEF Watched
<1>2. ASSUME NEW r \in Requests, Execute(r) PROVE Watched'
  BY <1>2 DEF Execute, Watched
<1>3. CASE RedisLoses
  BY <1>3 DEF RedisLoses, Watched
<1>4. CASE Tick \/ UNCHANGED vars
  BY <1>0, <1>4 DEF Tick, vars, Watched
<1> QED
  BY <1>1, <1>2, <1>3, <1>4, Cases

\* A kept exchange stays kept, with its row and no younger than its first.
LEMMA KeptRowsNext == ASSUME IInv, TypeOK', [Next]_vars PROVE KeptRows' /\ kept \subseteq kept'
<1> USE DEF IInv
<1>1. ASSUME NEW r \in Requests, Quiet(r) PROVE KeptRows' /\ kept \subseteq kept'
  <2>1. \/ row' = row /\ first' = first
        \/ AddRow(r)
    BY <1>1 DEF Quiet, Reserve, LoadThread, ReadRows, Watch, LostRace, WriteFails,
                Answered, Refused, Commit, AnsweredElsewhere, NotKept, Terminal
  <2>2. ASSUME NEW e \in kept PROVE row'[e] # 0 /\ first'[who[e]] = first[who[e]]
    <3>1. row[e] # 0 /\ e \in Requests /\ who[e] \in Scopes /\ Owned(who[e]) # {}
      BY DEF KeptRows, TypeOK, Owned
    <3> QED
      BY <2>1, <3>1, FirstRow
  <2>3. CASE Commit(r)
    <3>1. /\ kept' = kept \cup {r} /\ stage'[r] = "over" /\ row'[r] # 0 /\ stored'[r] = now
      BY <2>3, AddRowGood DEF Commit, Go, TypeOK
    <3>2. first'[who[r]] <= now
      <4>1. who[r] \in Scopes /\ now \in Nat /\ first[who[r]] <= now
        BY DEF Times, TypeOK
      <4>2. first'[who[r]] \in {first[who[r]], now}
        BY <2>1, <4>1, FirstRow
      <4> QED
        BY <4>1, <4>2
    <3>3. r \notin kept /\ \A e \in kept : e \in Requests \ {r}
      BY <2>3 DEF Commit, KeptRows, TypeOK
    <3> QED
      BY <1>1, <2>2, <3>1, <3>2, <3>3, OwnStage, QuietRecord DEF KeptRows
  <2>4. CASE ~Commit(r)
    <3>1. kept' = kept /\ stored' = stored
      BY <1>1, <2>4 DEF Quiet, Reserve, LoadThread, ReadRows, Watch, LostRace, WriteFails,
                  Answered, Refused, AnsweredElsewhere, NotKept, Terminal
    <3>2. stage[r] = "over" => stage'[r] = "over"
      BY <1>1, <2>4 DEF Quiet, Reserve, LoadThread, ReadRows, Watch, LostRace, WriteFails,
                  Answered, Refused, AnsweredElsewhere, NotKept, Terminal
    <3>3. ASSUME NEW e \in kept PROVE stage'[e] = "over" /\ first[who[e]] <= stored[e]
      <4>1. stage[e] = "over" /\ e \in Requests /\ first[who[e]] <= stored[e]
        BY DEF KeptRows, TypeOK
      <4>2. CASE e = r
        BY <3>2, <4>1, <4>2
      <4>3. CASE e # r
        BY <1>1, <4>1, <4>3, OwnStage
      <4> QED
        BY <4>1, <4>2, <4>3
    <3>4. who' = who
      BY <1>1, QuietRecord
    <3> QED
      BY <2>2, <3>1, <3>3, <3>4 DEF KeptRows
  <2> QED
    BY <2>3, <2>4
<1>2. ASSUME NEW r \in Requests, Execute(r) PROVE KeptRows' /\ kept \subseteq kept'
  <2>1. r \notin kept
    BY <1>2 DEF Execute, KeptRows
  <2> QED
    <3>1. UNCHANGED <<who, row, first, kept>>
      BY <1>2 DEF Execute
    <3>2. ASSUME NEW e \in kept PROVE stage'[e] = stage[e] /\ stored'[e] = stored[e]
      <4>1. e \in Requests \ {r}
        BY <2>1 DEF TypeOK
      <4> QED
        BY <1>2, <4>1, OwnStage
    <3> QED
      BY <3>1, <3>2 DEF KeptRows
<1>3. CASE RedisLoses \/ Tick \/ UNCHANGED vars
  BY <1>3 DEF RedisLoses, Tick, vars, KeptRows
<1> QED
  BY <1>1, <1>2, <1>3, Cases

\* The rows a rebuild takes.
LEMMA RebuiltGood ==
    ASSUME TypeOK, NEW r \in Requests, NEW turns, InOrder(turns, ThreadRows(who[r]))
    PROVE  turns \in Written /\ Distinct(turns) /\ In(turns) \subseteq ThreadRows(who[r])
<1>1. ThreadRows(who[r]) \in SUBSET Requests
  BY ThreadRowsGood
<1>2. row \in [Requests -> Nat]
  BY DEF TypeOK
<1> QED
  BY <1>1, <1>2, InOrderGood

\* A rebuild is begun by reading the rows and by nothing else.
LEMMA GoesOnRebuilding ==
    ASSUME TypeOK, NEW r \in Requests, Quiet(r) \/ Execute(r), ~ReadRows(r), WritesBack(r)'
    PROVE  WritesBack(r) /\ history'[r] = history[r] /\ began'[r] = began[r]
<1> USE DEF WritesBack
<1>0. stage \in [Requests -> Stages]
  BY DEF TypeOK
<1>1. ASSUME NEW s \in Stages, Go(r, s) PROVE stage'[r] = s
  BY <1>0, <1>1 DEF Go
<1>2. ASSUME NEW s, Leave(r, s), s \notin {"rebuild", "rebuilding"} PROVE FALSE
  BY <1>0, <1>2 DEF Leave, Go
<1>3. ~(Reserve(r) \/ LoadThread(r) \/ Commit(r) \/ AnsweredElsewhere(r) \/ NotKept(r))
  BY <1>0 DEF Reserve, LoadThread, Give, Go, Commit, AnsweredElsewhere, NotKept
<1>4. ~(Execute(r) \/ WriteFails(r) \/ Answered(r) \/ Refused(r))
  BY <1>2 DEF Execute, Wrote, WriteFails, Raised, Answered, Refused
<1>5. CASE Watch(r)
  <2>1. ~Leave(r, "over")
    BY <1>2
  <2>2. /\ Go(r, IF WritesBack(r) THEN "rebuilding" ELSE "storing")
        /\ UNCHANGED <<history, began>>
    BY <1>5, <2>1 DEF Watch
  <2> QED
    BY <1>0, <2>2 DEF Go
<1>6. CASE LostRace(r)
  <2>1. ~Raised(r)
    BY <1>2 DEF Raised
  <2>2. /\ Go(r, IF WritesBack(r) THEN "rebuild" ELSE "store")
        /\ UNCHANGED <<history, began>>
    BY <1>6, <2>1 DEF LostRace
  <2> QED
    BY <1>0, <2>2 DEF Go
<1>7. CASE Terminal(r)
  BY <1>7 DEF Terminal
<1> QED
  BY <1>3, <1>4, <1>5, <1>6, <1>7 DEF Quiet

LEMMA RestoredNext == ASSUME IInv, TypeOK', [Next]_vars PROVE Restored'
<1> USE DEF IInv
\* What was kept is written no more.
<1>0. ASSUME NEW e \in kept, NEW r \in Requests, Quiet(r) \/ Execute(r)
      PROVE  stored'[e] = stored[e]
  <2>1. stage[e] = "over" /\ e \in Requests
    BY DEF KeptRows, TypeOK
  <2>2. e = r => stored' = stored
    BY <1>0, <2>1 DEF Quiet, Reserve, LoadThread, ReadRows, Watch, LostRace, WriteFails,
                Answered, Refused, Commit, AnsweredElsewhere, NotKept, Terminal, Execute
  <2> QED
    BY <1>0, <2>1, <2>2, OwnStage
<1>1. ASSUME NEW r \in Requests, Quiet(r) \/ Execute(r) PROVE Restored'
  <2>1. ASSUME NEW q \in Requests, q # r, WritesBack(q)'
        PROVE  /\ history'[q] \in Written /\ Distinct(history'[q])
               /\ \A e \in In(history'[q]) : e \in kept' /\ began'[q] <= stored'[e]
    <3>1. WritesBack(q) /\ history'[q] = history[q] /\ began'[q] = began[q]
      BY <1>1, <2>1, OwnStage DEF WritesBack
    <3> QED
      BY <1>0, <1>1, <3>1, KeptRowsNext DEF Restored
  <2>2. ASSUME WritesBack(r)'
        PROVE  /\ history'[r] \in Written /\ Distinct(history'[r])
               /\ \A e \in In(history'[r]) : e \in kept' /\ began'[r] <= stored'[e]
    <3>1. CASE ReadRows(r)
      <4>1. PICK turns : /\ InOrder(turns, ThreadRows(who[r]))
                         /\ history' = [history EXCEPT ![r] = turns]
                         /\ began' = [began EXCEPT ![r] = first[who[r]]]
        BY <2>2, <3>1 DEF ReadRows, WritesBack, Give, Go, TypeOK
      <4>2. turns \in Written /\ Distinct(turns) /\ In(turns) \subseteq ThreadRows(who[r])
        BY <4>1, RebuiltGood
      <4>3. history'[r] = turns /\ began'[r] = first[who[r]]
        BY <4>1 DEF TypeOK
      <4>4. \A e \in In(turns) : e \in kept /\ first[who[r]] <= stored[e]
        BY <4>2, ThreadRowsGood DEF KeptRows
      <4>5. kept' = kept /\ stored' = stored
        BY <3>1 DEF ReadRows
      <4> QED
        BY <4>2, <4>3, <4>4, <4>5
    <3>2. CASE ~ReadRows(r)
      <4>1. WritesBack(r) /\ history'[r] = history[r] /\ began'[r] = began[r]
        BY <1>1, <2>2, <3>2, GoesOnRebuilding
      <4> QED
        BY <1>0, <1>1, <4>1, KeptRowsNext DEF Restored
    <3> QED
      BY <3>1, <3>2
  <2> QED
    BY <2>1, <2>2 DEF Restored
<1>2. CASE RedisLoses \/ Tick \/ UNCHANGED vars
  BY <1>2 DEF RedisLoses, Tick, vars, Restored, WritesBack
<1> QED
  BY <1>1, <1>2, Cases

LEMMA RecordGood ==
    ASSUME TypeOK, record # NoThread
    PROVE  /\ record.turns \in Seq(Requests) /\ record.created \in Nat
           /\ In(record.turns) \subseteq Requests
<1>1. record.turns \in Seq(Requests) /\ record.created \in Nat
  BY DEF TypeOK, Threads
<1>2. \A i \in 1 .. Len(record.turns) : record.turns[i] \in Requests
  BY <1>1
<1> QED
  BY <1>1, <1>2 DEF In

\* What a write leaves in the thread, and from where.
LEMMA WrittenFrom ==
    ASSUME IInv, NEW r \in Requests, Execute(r)
    PROVE  /\ record' = Encoded(r) /\ record' # NoThread
           /\ seen[r] = record /\ (Live(seen[r]) => record # NoThread)
           /\ record'.owner = who[r]
           /\ Turns(r) = <<r>> \/ (WritesBack(r) /\ Turns(r) = history[r])
           /\ \/ Live(seen[r]) /\ In(record'.turns) \subseteq In(record.turns) \cup In(Turns(r))
              \/ ~Live(seen[r]) /\ In(record'.turns) \subseteq In(Turns(r))
<1> USE DEF IInv
<1>1. record' = Encoded(r) /\ seen[r] = record /\ stage[r] \in {"rebuilding", "storing"}
  BY DEF Execute, Permitted, Watched
<1>2. Turns(r) = <<r>> \/ (WritesBack(r) /\ Turns(r) = history[r])
  BY <1>1 DEF Turns, WritesBack
<1>3. Turns(r) \in Seq(Requests) /\ Encoded(r) # NoThread
  BY EncodedGood
<1>4. CASE Live(seen[r])
  <2>1. record # NoThread /\ record.turns \in Seq(Requests) /\ record.owner = who[r]
    BY <1>1, <1>4, EncodedGood DEF Live, Threads, Execute, Permitted, Watched
  <2>2. record.turns \o Turns(r) \in Seq(Requests)
        /\ In(record.turns \o Turns(r)) \subseteq In(record.turns) \cup In(Turns(r))
    BY <1>3, <2>1, BehindGood
  <2>3. In(trim_for_storage(record.turns \o Turns(r))) \subseteq In(record.turns) \cup In(Turns(r))
    BY <2>2, TrimGood
  <2>4. /\ record'.turns = trim_for_storage(record.turns \o Turns(r))
        /\ record'.owner = record.owner
    BY <1>1, <1>4, EncodedGood
  <2> QED
    BY <1>1, <1>2, <1>3, <1>4, <2>1, <2>3, <2>4
<1>5. CASE ~Live(seen[r])
  <2>1. Encoded(r) = [owner |-> who[r], created |-> Start(r),
                      turns |-> trim_for_storage(Turns(r))]
    BY <1>5, EncodedGood
  <2>2. In(trim_for_storage(Turns(r))) \subseteq In(Turns(r))
    BY <1>3, TrimGood
  <2> QED
    BY <1>1, <1>2, <1>3, <1>5, <2>1, <2>2
<1> QED
  BY <1>4, <1>5

LEMMA HeldNext == ASSUME IInv, [Next]_vars PROVE Held'
<1> USE DEF IInv
<1>0. record # NoThread => In(record.turns) \subseteq Requests
  BY RecordGood
<1>1. ASSUME NEW r \in Requests, Quiet(r) PROVE Held'
  <2>1. stage[r] \in {"commit", "over"} => stage'[r] \in {"commit", "over"}
    BY <1>1 DEF Quiet, Reserve, LoadThread, ReadRows, Watch, LostRace, WriteFails, Answered,
                Refused, Commit, AnsweredElsewhere, NotKept, Terminal, Go, TypeOK
  <2>2. \A q \in Requests : stage[q] \in {"commit", "over"} => stage'[q] \in {"commit", "over"}
    BY <1>1, <2>1, OwnStage
  <2> QED
    BY <1>0, <1>1, <2>2, QuietRecord DEF Held
<1>2. ASSUME NEW r \in Requests, Execute(r) PROVE Held'
  <2>1. CASE WritesBack(r)
    <3>1. ASSUME NEW e \in In(record'.turns)
          PROVE  e \in Requests \ {r} /\ stage[e] \in {"commit", "over"}
      <4>1. Turns(r) = history[r]
        BY <1>2, <2>1 DEF Turns, WritesBack, Execute
      <4>2. e \in In(history[r]) \/ (record # NoThread /\ e \in In(record.turns))
        BY <1>2, <3>1, <4>1, WrittenFrom
      <4>3. e \in In(history[r]) => e \in Requests /\ stage[e] = "over"
        BY <2>1 DEF Restored, KeptRows, TypeOK
      <4>4. stage[e] \in {"commit", "over"} /\ e \in Requests
        BY <1>0, <4>2, <4>3 DEF Held
      <4> QED
        BY <2>1, <4>4 DEF WritesBack
    <3> QED
      BY <1>2, <3>1, OwnStage DEF Held
  <2>2. CASE ~WritesBack(r)
    <3>1. Turns(r) = <<r>> /\ stage'[r] \in {"commit", "over"} /\ In(<<r>>) = {r}
      BY <1>2, <2>2, WrittenFrom, OneGood
           DEF Execute, Wrote, Raised, Leave, Go, TypeOK
    <3>2. ASSUME NEW e \in In(record'.turns)
          PROVE  e = r \/ (e \in Requests /\ stage[e] \in {"commit", "over"})
      BY <1>0, <1>2, <3>1, <3>2, WrittenFrom DEF Held
    <3> QED
      BY <1>2, <3>1, <3>2, OwnStage DEF Held
  <2> QED
    BY <2>1, <2>2
<1>3. CASE RedisLoses \/ Tick \/ UNCHANGED vars
  BY <1>3 DEF RedisLoses, Tick, vars, Held
<1> QED
  BY <1>1, <1>2, <1>3, Cases

LEMMA OwnMemoryNext == ASSUME IInv, [Next]_vars PROVE OwnMemory'
<1> USE DEF IInv
<1>0. In(<<>>) = {}
  BY DEF In
<1>1. ASSUME NEW r \in Requests, Quiet(r) PROVE OwnMemory'
  <2>1. \A e \in In(history'[r]) : who[e] = who[r]
    <3>1. CASE LoadThread(r)
      <4>1. history'[r] = history[r]
              \/ (record # NoThread /\ record.owner = who[r] /\ history'[r] = record.turns)
        BY <3>1 DEF LoadThread, Give, TypeOK
      <4> QED
        BY <4>1 DEF OwnMemory
    <3>2. CASE ReadRows(r)
      <4>1. CASE history'[r] = <<>>
        BY <1>0, <4>1
      <4>2. CASE \E turns : /\ InOrder(turns, ThreadRows(who[r]))
                            /\ history' = [history EXCEPT ![r] = turns]
        <5>1. PICK turns : /\ InOrder(turns, ThreadRows(who[r]))
                           /\ history' = [history EXCEPT ![r] = turns]
          BY <4>2
        <5>2. In(turns) \subseteq ThreadRows(who[r])
          BY <5>1, RebuiltGood
        <5>3. history'[r] = turns
          BY <5>1 DEF TypeOK
        <5> QED
          BY <5>2, <5>3, ThreadRowsGood
      <4> QED
        BY <3>2, <4>1, <4>2 DEF ReadRows, Give, TypeOK
    <3>3. CASE ~LoadThread(r) /\ ~ReadRows(r)
      <4>1. history'[r] = history[r] \/ history'[r] = <<>>
        BY <1>1, <3>3 DEF Quiet, Reserve, Watch, LostRace, WriteFails, Answered, Refused,
             Commit, AnsweredElsewhere, NotKept, Terminal, Raised, Leave, TypeOK
      <4> QED
        BY <1>0, <4>1 DEF OwnMemory
    <3> QED
      BY <3>1, <3>2, <3>3
  <2> QED
    BY <1>1, <2>1, OwnStage, QuietRecord DEF OwnMemory
<1>2. ASSUME NEW r \in Requests, Execute(r) PROVE OwnMemory'
  <2>1. who' = who /\ (history'[r] = history[r] \/ history'[r] = <<>>)
    BY <1>2 DEF Execute, Wrote, Raised, Leave, TypeOK
  <2>2. \A q \in Requests : \A e \in In(history'[q]) : who[e] = who[q]
    BY <1>0, <1>2, <2>1, OwnStage DEF OwnMemory
  <2>3. \A e \in In(Turns(r)) : who[e] = who[r]
    <3>1. CASE Turns(r) = <<r>>
      BY <3>1, OneGood
    <3>2. CASE Turns(r) = history[r]
      BY <3>2 DEF OwnMemory
    <3> QED
      BY <1>2, <3>1, <3>2, WrittenFrom
  <2>4. Live(seen[r]) => record # NoThread /\ record.owner = who[r]
    BY <1>2, WrittenFrom DEF Execute, Permitted, Watched
  <2>5. ASSUME NEW e \in In(record'.turns) PROVE who[e] = record'.owner
    BY <1>2, <2>3, <2>4, <2>5, WrittenFrom DEF OwnMemory
  <2> QED
    BY <2>1, <2>2, <2>5 DEF OwnMemory
<1>3. CASE RedisLoses \/ Tick \/ UNCHANGED vars
  BY <1>3 DEF RedisLoses, Tick, vars, OwnMemory
<1> QED
  BY <1>1, <1>2, <1>3, Cases

LEMMA MemorySoundNext == ASSUME IInv, [Next]_vars PROVE MemorySound'
<1> USE DEF IInv
<1>0. record # NoThread => /\ In(record.turns) \subseteq Requests
                           /\ record.created \in Nat /\ record.turns \in Seq(Requests)
  BY RecordGood
<1>1. ASSUME NEW r \in Requests, Quiet(r) PROVE MemorySound'
  <2>1. stored' = stored \/ stored' = [stored EXCEPT ![r] = now]
    BY <1>1 DEF Quiet, Reserve, LoadThread, ReadRows, Watch, LostRace, WriteFails, Answered,
                Refused, Commit, AnsweredElsewhere, NotKept, Terminal
  <2>2. \A e \in Requests : stored'[e] = stored[e] \/ stored'[e] = now
    BY <2>1 DEF TypeOK
  <2> QED
    BY <1>0, <1>1, <2>2, QuietRecord DEF MemorySound, Times
<1>2. ASSUME NEW r \in Requests, Execute(r), ~crossed' PROVE MemorySound'
  <2>0. ~crossed /\ (WritesBack(r) => ~Live(seen[r]))
    BY <1>2 DEF Execute
  <2>1. CASE WritesBack(r)
    <3>1. /\ Encoded(r) = [owner |-> who[r], created |-> began[r],
                           turns |-> trim_for_storage(history[r])]
          /\ stored' = stored
      BY <1>2, <2>0, <2>1, EncodedGood DEF Execute, Turns, Start, WritesBack
    <3>2. Distinct(trim_for_storage(history[r]))
          /\ In(trim_for_storage(history[r])) \subseteq In(history[r])
      BY <2>1, TrimGood DEF Restored, TypeOK
    <3>3. record'.created = began[r] /\ record'.turns = trim_for_storage(history[r])
      BY <1>2, <3>1 DEF Execute
    <3> QED
      BY <2>1, <3>1, <3>2, <3>3 DEF MemorySound, Restored
  <2>2. CASE ~WritesBack(r)
    <3>1. /\ Turns(r) = <<r>> /\ Start(r) = now /\ stage[r] = "storing"
          /\ stored' = [stored EXCEPT ![r] = now]
      BY <1>2, <2>2 DEF Execute, Turns, Start, WritesBack
    <3>2. stored'[r] = now /\ \A e \in Requests \ {r} : stored'[e] = stored[e]
      BY <3>1 DEF TypeOK
    <3>3. CASE Live(seen[r])
      <4>1. /\ record # NoThread /\ record'.created = record.created
            /\ record'.turns = trim_for_storage(record.turns \o <<r>>)
        BY <1>2, <3>1, <3>3, EncodedGood, WrittenFrom
      <4>2. r \notin In(record.turns)
        BY <3>1, <4>1 DEF Held
      <4>3. record.turns \o <<r>> \in Seq(Requests) /\ Distinct(record.turns \o <<r>>)
        BY <1>0, <2>0, <4>1, <4>2, OneBehind DEF MemorySound
      <4>4. Distinct(record'.turns)
        BY <4>1, <4>3, TrimGood
      <4>5. In(record'.turns) \subseteq In(record.turns) \cup {r}
        BY <1>2, <3>1, <3>3, WrittenFrom, OneGood
      <4>6. \A e \in In(record'.turns) : record'.created <= stored'[e]
        BY <1>0, <2>0, <3>2, <4>1, <4>2, <4>5 DEF MemorySound, Times
      <4> QED
        BY <4>4, <4>6 DEF MemorySound
    <3>4. CASE ~Live(seen[r])
      <4>1. Encoded(r) = [owner |-> who[r], created |-> now,
                          turns |-> trim_for_storage(<<r>>)]
        BY <3>1, <3>4, EncodedGood
      <4>2. record'.created = now /\ record'.turns = trim_for_storage(<<r>>)
        BY <1>2, <4>1 DEF Execute
      <4>3. Distinct(record'.turns) /\ In(record'.turns) \subseteq {r}
        <5>1. <<r>> \in Seq(Requests) /\ In(<<r>>) = {r} /\ Distinct(<<r>>)
          BY OneGood
        <5> DEFINE t == <<r>>
        <5> HIDE DEF t
        <5>2. Distinct(trim_for_storage(t)) /\ In(trim_for_storage(t)) \subseteq {r}
          BY <5>1, TrimGood DEF t
        <5> QED
          BY <4>2, <5>2 DEF t
      <4>4. now <= now
        BY DEF TypeOK
      <4> QED
        BY <3>2, <4>2, <4>3, <4>4 DEF MemorySound
    <3> QED
      BY <3>3, <3>4
  <2> QED
    BY <2>1, <2>2
<1>3. CASE RedisLoses \/ Tick \/ UNCHANGED vars
  BY <1>3 DEF RedisLoses, Tick, vars, MemorySound
<1>4. ASSUME NEW r \in Requests, Execute(r), crossed' PROVE MemorySound'
  BY <1>4 DEF MemorySound
<1> QED
  BY <1>1, <1>2, <1>3, <1>4, Cases

LEMMA NextIInv == IInv /\ [Next]_vars => IInv'
<1> SUFFICES ASSUME IInv, [Next]_vars PROVE IInv'
  OBVIOUS
<1>1. TypeOK'
  BY TypesNext DEF IInv
<1>2. Times' /\ Watched' /\ Restored' /\ KeptRows'
  BY <1>1, TimesNext, WatchedNext, RestoredNext, KeptRowsNext
<1>3. Held' /\ OwnMemory' /\ MemorySound'
  BY HeldNext, OwnMemoryNext, MemorySoundNext
<1> QED
  BY <1>1, <1>2, <1>3 DEF IInv

\* In every reachable state an open WATCH holds the record, a rebuild's turns come
\* from kept exchanges, and the record holds ended turns only (append,
\* reseed_from_durable_history).
THEOREM Inductive == Spec => []IInv
BY InitIInv, NextIInv, PTL DEF Spec

\* Whatever Redis loses and whoever rebuilds or takes over the thread, no request is
\* given, and the record does not hold, another person's or entity's exchange.
THEOREM OwnSafe == Spec => []OwnMemory
BY Inductive, PTL DEF IInv

\* But for a crossed write-back, no exchange is in the memory twice or past the
\* lifetime of the thread it came from.
THEOREM SoundSafe == Spec => []MemorySound
BY Inductive, PTL DEF IInv

--------------------------------------------------------------------------
(* The atomic log                                                          *)

LEMMA TrimIsNewest == ASSUME NEW s PROVE trim_for_storage(s) = Log!Newest(s)
BY DEF trim_for_storage, Log!Newest

LEMMA ExecuteWrites ==
    ASSUME IInv, NEW r \in Requests, Execute(r)
    PROVE  Log!Next
<1> USE DEF IInv
<1>1. Turns(r) \in Written
  BY WrittenFrom, OneWritten DEF Restored
<1>2. who[r] \in Scopes /\ UNCHANGED now
  BY DEF TypeOK, Execute
<1>3. seen[r] = record /\ record' = Encoded(r)
  BY WrittenFrom
<1>4. CASE Live(seen[r])
  <2>1. /\ record # NoThread /\ ~(now - record.created > Lifetime)
        /\ record.owner = who[r] /\ record.turns \in Seq(Requests)
        /\ record \in Threads
    BY <1>3, <1>4, EncodedGood DEF Live, Expired, Execute, Permitted, Watched, Threads
  <2>2. record' = [record EXCEPT !.turns = trim_for_storage(record.turns \o Turns(r))]
    BY <1>3, <1>4 DEF Encoded
  <2>3. Log!Extend(who[r], Turns(r))
    BY <1>2, <2>1, <2>2, TrimIsNewest DEF Log!Extend, Log!Gone
  <2> QED
    BY <1>1, <1>2, <2>3 DEF Log!Next
<1>5. CASE ~Live(seen[r])
  <2>1. Log!Gone
    BY <1>3, <1>5 DEF Live, Expired, Log!Gone
  <2>2. Start(r) \in 0 .. now
    BY EncodedGood DEF Start, Times, TypeOK
  <2>3. record' = [owner |-> who[r], created |-> Start(r), turns |-> Log!Newest(Turns(r))]
    BY <1>3, <1>5, EncodedGood, TrimIsNewest
  <2>4. Log!Begin(who[r], Turns(r))
    BY <1>2, <2>1, <2>2, <2>3 DEF Log!Begin
  <2> QED
    BY <1>1, <1>2, <2>4 DEF Log!Next
<1> QED
  BY <1>4, <1>5

LEMMA StepWrites == ASSUME IInv, [Next]_vars PROVE [Log!Next]_(Log!vars)
<1>1. ASSUME NEW r \in Requests, Quiet(r) PROVE UNCHANGED Log!vars
  BY <1>1, QuietRecord DEF Log!vars
<1>2. CASE RedisLoses
  BY <1>2 DEF RedisLoses, Log!Next, Log!Lose
<1>3. CASE Tick
  BY <1>3 DEF Tick, Log!Next, Log!Pass
<1>4. CASE UNCHANGED vars
  BY <1>4 DEF vars, Log!vars
<1> QED
  BY <1>1, <1>2, <1>3, <1>4, ExecuteWrites, Cases

\* The WATCH transactions of append write the thread as one atomic step each would:
\* behind what is there, never into a lost or another's thread, and keeping its start.
THEOREM LogImplemented == Spec => LogSpec
<1>1. Init => Log!Init
  BY DEF Init, Log!Init
<1>2. IInv /\ [Next]_vars => [Log!Next]_(Log!vars)
  BY StepWrites
<1> QED
  BY <1>1, <1>2, Inductive, PTL DEF Spec, LogSpec, Log!Spec
=============================================================================
