---------------------------- MODULE ThreadMemory ----------------------------
(***************************************************************************)
(* The memory of one conversation thread: the transcript record in Redis,   *)
(* which expires, is evicted or outlives its lifetime, and the Query        *)
(* Records that rebuild it (ADR 0085).  Requests of several tabs load it,   *)
(* rebuild it when they find nothing, answer, and write their exchange      *)
(* behind it under WATCH, each between the steps of the others.             *)
(*                                                                          *)
(* An exchange bears its request's name and is stored whole: a question     *)
(* and its answer.  The requests are those of protocol version 2, which     *)
(* name their thread.  A regenerate of theirs loads the thread and is always *)
(* refused then (README), so no exchange is replaced.                       *)
(***************************************************************************)
EXTENDS Naturals, Sequences, FiniteSets

CONSTANTS
    Requests,
    Scopes,             \* (user_id, entity_id)
    MaxExchanges,       \* conversation_max_turns // 2, also the rows' limit
    MaxTries,           \* REDIS_APPEND_MAX_RETRIES
    Lifetime,           \* conversation_absolute_ttl_seconds
    MaxNow              \* bound on the clock

ASSUME ThreadAssumption ==
    /\ IsFiniteSet(Requests)
    /\ MaxExchanges \in Nat \ {0} /\ MaxTries \in Nat \ {0}
    /\ Lifetime \in Nat /\ MaxNow \in Nat

VARIABLES
    who,        \* the scope of each request's principal
    now,
    record,     \* the thread's key in Redis
    row,        \* order of each request's Query Record, 0 while it has none
    first,      \* created_at of the first row of each scope, once it has one
    kept,       \* requests whose row holds an exchange and an answer
    stage,      \* where each request stands
    history,    \* the memory it is given
    began,      \* when its rows say the thread began
    seen,       \* the record it read under WATCH
    watching,   \* requests whose key was not written since
    tries,      \* writes that lost their WATCH
    stored,     \* history: when its exchange was last written, there or in its row
    crossed     \* history: a write-back fell behind another turn's record

vars == <<who, now, record, row, first, kept, stage, history, began, seen, watching,
          tries, stored, crossed>>

NoThread == [owner |-> "nobody"]
Threads == [owner : Scopes, created : Nat, turns : Seq(Requests)]

Stages == {"idle", "load", "rows", "rebuild", "rebuilding", "answer", "store",
           "storing", "commit", "elsewhere", "over"}

trim_for_storage(turns) ==
    IF Len(turns) > MaxExchanges
    THEN SubSeq(turns, Len(turns) - MaxExchanges + 1, Len(turns)) ELSE turns

\* _record_expired
Expired(rec) == now - rec.created > Lifetime

\* _owned_by
Owned_Thread(s) == {r \in Requests : row[r] # 0}   \* a slip: whoever asks
Owned(s) == {r \in Requests : row[r] # 0 /\ who[r] = s}

\* thread_rows_statement: the newest answered rows.
ThreadRows(s) ==
    LET answered == Owned(s) \cap kept
    IN  {r \in answered : Cardinality({q \in answered : row[q] > row[r]}) < MaxExchanges}

\* history_from_rows: oldest first.
InOrder(turns, S) ==
    /\ turns \in [1 .. Cardinality(S) -> S]
    /\ \A i, j \in 1 .. Cardinality(S) : i < j => row[turns[i]] < row[turns[j]]

TooOld(s) == now - first[s] > Lifetime

Init ==
    /\ who \in [Requests -> Scopes]
    /\ now = 0 /\ record = NoThread
    /\ row = [r \in Requests |-> 0] /\ first = [s \in Scopes |-> 0] /\ kept = {}
    /\ stage = [r \in Requests |-> "idle"]
    /\ history = [r \in Requests |-> <<>>] /\ began = [r \in Requests |-> 0]
    /\ seen = [r \in Requests |-> NoThread] /\ watching = {}
    /\ tries = [r \in Requests |-> 0]
    /\ stored = [r \in Requests |-> 0] /\ crossed = FALSE

Go(r, s) == stage' = [stage EXCEPT ![r] = s]

Give(r, turns) == Go(r, "answer") /\ history' = [history EXCEPT ![r] = turns]

\* The row is created by its reservation or, when that failed, by its terminal.
AddRow(r) ==
    /\ row' = [row EXCEPT ![r] = 1 + Cardinality({q \in Requests : row[q] # 0})]
    /\ first' = IF Owned(who[r]) = {} THEN [first EXCEPT ![who[r]] = now] ELSE first

--------------------------------------------------------------------------
(* load_thread                                                             *)

Reserve(r) ==
    /\ stage[r] = "idle" /\ Go(r, "load")
    /\ AddRow(r) \/ UNCHANGED <<row, first>>    \* fail-open
    /\ UNCHANGED <<who, now, record, kept, history, began, seen, watching, tries,
                   stored, crossed>>

Promised(s) == IF Owned(s) = {} \/ TooOld(s) THEN {} ELSE ThreadRows(s)

LoadThread(r) ==
    /\ stage[r] = "load"
    /\ \/ record = NoThread /\ Go(r, "rows") /\ UNCHANGED history
       \/ /\ record # NoThread /\ record.owner # who[r]
          /\ Go(r, "elsewhere") /\ UNCHANGED history      \* a fresh thread
       \/ /\ record # NoThread /\ record.owner = who[r]
          /\ IF Expired(record) THEN Go(r, "rows") /\ UNCHANGED history
             ELSE Give(r, record.turns)
       \/ Go(r, "over") /\ UNCHANGED history           \* Redis fails
    /\ UNCHANGED <<who, now, record, row, first, kept, began, seen, watching,
                   tries, stored, crossed>>

\* reseed_from_durable_history, up to its write-back.  Its turns are the memory
\* whatever the write-back does, but for the error Raised names.
ReadRows(r) ==
    /\ stage[r] = "rows"
    /\ \/ Give(r, <<>>) /\ UNCHANGED began      \* too old, or the read fails
       \/ /\ Promised(who[r]) # {}
          /\ \E turns \in [1 .. Cardinality(ThreadRows(who[r])) -> ThreadRows(who[r])] :
                /\ InOrder(turns, ThreadRows(who[r]))
                /\ history' = [history EXCEPT ![r] = turns]
          /\ began' = [began EXCEPT ![r] = first[who[r]]]
          /\ Go(r, "rebuild")
    /\ UNCHANGED <<who, now, record, row, first, kept, seen, watching, tries,
                   stored, crossed>>

--------------------------------------------------------------------------
(* RedisConversationStore.append, of the rebuilt turns or of an exchange    *)

\* Where an append that is over, or one that raised, leaves its request.  An
\* ownership error of a write-back escapes load_thread; persist_exchange keeps all.
Leave(r, s) ==
    /\ Go(r, s)
    /\ began' = [began EXCEPT ![r] = 0] /\ tries' = [tries EXCEPT ![r] = 0]
    /\ history' = IF s = "answer" THEN history ELSE [history EXCEPT ![r] = <<>>]
WritesBack(r) == stage[r] \in {"rebuild", "rebuilding"}
Wrote(r) == Leave(r, IF WritesBack(r) THEN "answer" ELSE "commit")
Raised(r) == Leave(r, IF WritesBack(r) THEN "answer" ELSE "over")

Foreign(rec, s) == rec # NoThread /\ rec.owner # s

Watch(r) ==
    /\ stage[r] \in {"rebuild", "store"}
    /\ IF Foreign(record, who[r])
       THEN Leave(r, "over") /\ UNCHANGED <<seen, watching>>
       ELSE /\ Go(r, IF WritesBack(r) THEN "rebuilding" ELSE "storing")
            /\ seen' = [seen EXCEPT ![r] = record] /\ watching' = watching \cup {r}
            /\ UNCHANGED <<history, began, tries>>
    /\ UNCHANGED <<who, now, record, row, first, kept, stored, crossed>>

\* The record append encodes from the one it read.
Turns(r) == IF stage[r] = "rebuilding" THEN history[r] ELSE <<r>>
Start_Now(r) == now   \* a slip: the rebuild starts the thread anew
Start(r) == IF stage[r] = "rebuilding" THEN began[r] ELSE now
Live(rec) == rec # NoThread /\ ~Expired(rec)
Encoded(r) ==
    IF Live(seen[r])
    THEN [seen[r] EXCEPT !.turns = trim_for_storage(@ \o Turns(r))]
    ELSE [owner |-> who[r], created |-> Start(r), turns |-> trim_for_storage(Turns(r))]

Unwatched(r) == seen' = [seen EXCEPT ![r] = NoThread]

\* EXEC is refused when the key was written since WATCH.
Permitted_Always(r) == TRUE   \* a slip: no WATCH
Permitted(r) == r \in watching

Execute(r) ==
    /\ stage[r] \in {"rebuilding", "storing"} /\ Permitted(r)
    /\ record' = Encoded(r) /\ watching' = {} /\ Unwatched(r)
    /\ stored' = IF WritesBack(r) THEN stored ELSE [stored EXCEPT ![r] = now]
    /\ crossed' = (crossed \/ (WritesBack(r) /\ Live(seen[r])))
    /\ Wrote(r) \/ Raised(r)            \* the answer to EXEC may be lost
    /\ UNCHANGED <<who, now, row, first, kept>>

LastTry_After(r) == tries[r] >= MaxTries   \* a slip: one try too many
LastTry(r) == tries[r] + 1 >= MaxTries

LostRace(r) ==
    /\ stage[r] \in {"rebuilding", "storing"} /\ ~Permitted(r) /\ Unwatched(r)
    /\ \/ LastTry(r) /\ Raised(r)
       \/ /\ ~LastTry(r)
          /\ Go(r, IF WritesBack(r) THEN "rebuild" ELSE "store")
          /\ tries' = [tries EXCEPT ![r] = @ + 1] /\ UNCHANGED <<history, began>>
    /\ UNCHANGED <<who, now, record, row, first, kept, watching, stored, crossed>>

\* A Redis command fails and nothing is written.
WriteFails(r) ==
    /\ stage[r] \in {"rebuild", "rebuilding", "store", "storing"}
    /\ Raised(r) /\ Unwatched(r) /\ watching' = watching \ {r}
    /\ UNCHANGED <<who, now, record, row, first, kept, stored, crossed>>

--------------------------------------------------------------------------
(* The turn                                                                *)

Answered(r) ==
    /\ stage[r] = "answer" /\ Leave(r, "store")
    /\ UNCHANGED <<who, now, record, row, first, kept, seen, watching, stored,
                   crossed>>

\* A regenerate always, any other turn that fails, and a load that is cancelled
\* leave no exchange.
Refused(r) ==
    /\ stage[r] \in {"rows", "rebuild", "rebuilding", "answer"} /\ Leave(r, "over")
    /\ Unwatched(r) /\ watching' = watching \ {r}
    /\ UNCHANGED <<who, now, record, row, first, kept, stored, crossed>>

\* The terminal's task keeps the exchange and the answer in the row.
Commit(r) ==
    /\ stage[r] = "commit" /\ Go(r, "over")
    /\ kept' = kept \cup {r} /\ stored' = [stored EXCEPT ![r] = now]
    /\ IF row[r] = 0 THEN AddRow(r) ELSE UNCHANGED <<row, first>>
    /\ UNCHANGED <<who, now, record, history, began, seen, watching, tries, crossed>>

\* The turn of another person or entity is answered in a thread of its own, yet
\* its row names the thread the request named.
AnsweredElsewhere(r) ==
    /\ stage[r] = "elsewhere" /\ Go(r, "commit")
    /\ UNCHANGED <<who, now, record, row, first, kept, history, began, seen,
                   watching, tries, stored, crossed>>

\* The task fails, or what was stored is the marker of a stopped turn.
NotKept(r) ==
    /\ stage[r] = "commit" /\ Go(r, "over")
    /\ UNCHANGED <<who, now, record, row, first, kept, history, began, seen,
                   watching, tries, stored, crossed>>

\* The terminal of a turn that left no exchange, where its reservation failed.
Terminal(r) ==
    /\ stage[r] \in {"elsewhere", "over"} /\ row[r] = 0
    /\ AddRow(r)
    /\ UNCHANGED <<who, now, record, kept, stage, history, began, seen, watching,
                   tries, stored, crossed>>

\* The idle time-out of the key, its eviction, a restart of Redis.
RedisLoses ==
    /\ record # NoThread /\ record' = NoThread
    /\ watching' = {}
    /\ UNCHANGED <<who, now, row, first, kept, stage, history, began, seen, tries,
                   stored, crossed>>

Tick ==
    /\ now < MaxNow /\ now' = now + 1
    /\ UNCHANGED <<who, record, row, first, kept, stage, history, began, seen,
                   watching, tries, stored, crossed>>

Step(r) ==
    \/ Reserve(r) \/ LoadThread(r) \/ ReadRows(r)
    \/ Watch(r) \/ Execute(r) \/ LostRace(r) \/ WriteFails(r)
    \/ Answered(r) \/ Refused(r) \/ AnsweredElsewhere(r)
    \/ Commit(r) \/ NotKept(r) \/ Terminal(r)

Next == (\E r \in Requests : Step(r)) \/ RedisLoses \/ Tick

Spec == Init /\ [][Next]_vars

--------------------------------------------------------------------------
(* Properties                                                              *)

\* The type of every variable.
TypeOK ==
    /\ who \in [Requests -> Scopes] /\ now \in Nat /\ record \in Threads \cup {NoThread}
    /\ row \in [Requests -> Nat] /\ first \in [Scopes -> Nat]
    /\ kept \subseteq Requests
    /\ stage \in [Requests -> Stages]
    /\ history \in [Requests -> Seq(Requests)] /\ began \in [Requests -> Nat]
    /\ seen \in [Requests -> Threads \cup {NoThread}]
    /\ watching \subseteq Requests
    /\ tries \in [Requests -> 0 .. MaxTries - 1]
    /\ stored \in [Requests -> Nat] /\ crossed \in BOOLEAN

In(turns) == {turns[i] : i \in 1 .. Len(turns)}
Distinct(turns) == \A i, j \in 1 .. Len(turns) : turns[i] = turns[j] => i = j

\* The thread is its creator's: whatever is lost, rebuilt or taken over by another
\* person or entity in between, a request is given exchanges of its own scope
\* only, and the record mixes none (RedisConversationStore._record_from_raw,
\* thread_rows_statement).
OwnMemory ==
    /\ \A r \in Requests : \A e \in In(history[r]) : who[e] = who[r]
    /\ record # NoThread => \A e \in In(record.turns) : who[e] = record.owner

\* Unless a write-back fell behind another turn's record, the memory holds an
\* exchange once and never longer than a lifetime from when it was last written: a
\* rebuild keeps the thread's own start (reseed_from_durable_history).
MemorySound ==
    record # NoThread /\ ~crossed =>
        /\ Distinct(record.turns)
        /\ \A e \in In(record.turns) : record.created <= stored[e]

\* "When the Redis copy is gone inside those 4 hours, the thread's own rows give
\* back the text of each exchange" (durable_history.py): what the rows hold when a
\* request loads its thread is in the memory it is given, or the memory is full.
GivenBack(r) ==
    LoadThread(r) /\ stage'[r] = "answer" =>
        \/ Len(history'[r]) >= MaxExchanges
        \/ Promised(who[r]) \subseteq In(history'[r])
RowsGiveBack == [][\A r \in Requests : GivenBack(r)]_vars

\* What one write may put behind the others.
Written == UNION {[1 .. n -> Requests] : n \in 0 .. Cardinality(Requests)}

\* The optimistic writes are the atomic ones of ThreadLog: no exchange is lost to
\* another request's write, none is put into a thread that is gone or another's,
\* and a live thread keeps its start (RedisConversationStore.append).
Log == INSTANCE ThreadLog WITH
    Owners <- Scopes, Exchanges <- Written, Bound <- MaxExchanges,
    Nothing <- NoThread, thread <- record, clock <- now
LogSpec == Log!Spec
=============================================================================
