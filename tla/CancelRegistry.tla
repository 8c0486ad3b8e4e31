--------------------------- MODULE CancelRegistry ---------------------------
(***************************************************************************)
(* The Redis-backed cancel registry (app/services/cancel_service.py) with   *)
(* the SSE attempts that register in it (app/services/ask_stream.py), the   *)
(* commit boundary they cross (commit_done in stream_transport.py) and the  *)
(* POST /api/cancel requests that race with them.                           *)
(*                                                                          *)
(* Every "await" on Redis is a step of its own: the command is executed     *)
(* atomically by Redis, and the code between two awaits runs in one step of *)
(* the event loop.  The record under "ask:run:<id>" is shared by all        *)
(* instances; `_local_runs' belongs to one process.                         *)
(***************************************************************************)
EXTENDS Naturals, FiniteSets

CONSTANTS
    Attempts,        \* SSE attempts (tasks running _run_sse_attempt)
    Runs,            \* run ids
    Instances,       \* server processes
    Users,           \* principals
    Cancels,         \* POST /api/cancel requests
    RunOf,           \* RunOf[a]: the run id an attempt registers
    InstOf,          \* InstOf[a]: the process that runs it
    UserOf,          \* UserOf[r]: the principal that owns a run id
    MaxPolls,        \* MAX_REDIS_CANCEL_POLLS
    FinalizeTries,   \* the WATCH rounds of begin_finalize (5 in the code)
    MaxExpiries,     \* bound: keys that reach their TTL in a behaviour
    MaxFaults        \* bound: Redis commands that raise in a behaviour

NoUser == "no user"
NoAttempt == "no attempt"

ASSUME ConstantsAssumption ==
    /\ RunOf \in [Attempts -> Runs]
    /\ InstOf \in [Attempts -> Instances]
    /\ UserOf \in [Runs -> Users]
    /\ MaxPolls \in Nat /\ FinalizeTries \in Nat \ {0}
    /\ MaxExpiries \in Nat /\ MaxFaults \in Nat
    /\ NoUser \notin Users /\ NoAttempt \notin Attempts

Phases == {"generating", "finalizing", "done"}

Record == [user: Users, inst: Instances, cancelled: BOOLEAN, phase: Phases]
NoRecord == [user |-> NoUser, inst |-> NoUser, cancelled |-> FALSE,
             phase |-> "none"]

\* _LocalRegistration: the object of one attempt, found through _local_runs.
Registration == [cancelled: BOOLEAN, polls: 0..MaxPolls, phase: Phases]
FreshRegistration == [cancelled |-> FALSE, polls |-> 0, phase |-> "generating"]

VARIABLES
    record,      \* Redis: the run record of each run id
    tombstone,   \* Redis: the user of an early cancel of each run id
    channel,     \* Redis pub/sub: run ids published to each instance
    localRuns,   \* _local_runs of each instance: run id -> attempt
    reg,         \* the registration object of each attempt
    att,         \* each attempt's control state and what it did
    watching,    \* attempts whose WATCHed key has not been written since
    req,         \* each cancel request
    expiries,    \* keys expired so far
    faults,      \* Redis commands that raised so far
    told         \* history: where each attempt was when the owner's first
                 \* cancel reached Redis

vars == <<record, tombstone, channel, localRuns, reg, att, watching, req,
          expiries, faults, told>>

Registering == {"readTombstone", "dropTombstone", "storeRecord", "install",
                "storeAgain"}
Finalizing == {"watch", "exec"}
Committing == {"persist", "emit", "doneRead", "doneWrite"}
Steps == {"idle", "generating", "begin", "delete", "ended"}
             \cup Registering \cup Finalizing \cup Committing

Attempt ==
    [pc: Steps,
     pre: BOOLEAN,                    \* pre_cancelled of register
     held: Attempts \cup {NoAttempt}, \* the registration begin_finalize holds
     tries: 0..(FinalizeTries - 1),   \* WATCH rounds that aborted
     seen: Record \cup {NoRecord},    \* the record read before a SET
     interrupted: {"no", "cancel", "disconnect"},
     terminal: {"open", "finalizing", "done", "error"},  \* StreamTerminal
     persisted: BOOLEAN,
     outcome: {"none", "completed", "stopped", "error"}]

IdleAttempt == [pc |-> "idle", pre |-> FALSE, held |-> NoAttempt, tries |-> 0,
                seen |-> NoRecord, interrupted |-> "no", terminal |-> "open",
                persisted |-> FALSE, outcome |-> "none"]

Request ==
    [pc: {"idle", "read", "tombstone", "store", "apply", "answered"},
     run: Runs, user: Users, inst: Instances,
     seen: Record \cup {NoRecord},
     answer: {"none", "true", "false", "raised"}]

Init ==
    /\ record = [r \in Runs |-> NoRecord]
    /\ tombstone = [r \in Runs |-> NoUser]
    /\ channel = [i \in Instances |-> {}]
    /\ localRuns = [i \in Instances |-> [r \in Runs |-> NoAttempt]]
    /\ reg = [a \in Attempts |-> FreshRegistration]
    /\ att = [a \in Attempts |-> IdleAttempt]
    /\ watching = {}
    /\ req \in [Cancels -> {q \in Request : /\ q.pc = "idle"
                                            /\ q.seen = NoRecord
                                            /\ q.answer = "none"}]
    /\ expiries = 0
    /\ faults = 0
    /\ told = [a \in Attempts |-> "never"]
-----------------------------------------------------------------------------
(* Helpers shared by the handlers.                                          *)

\* SET or DEL of a run key: Redis invalidates every WATCH on it.
Store(r, rec) ==
    /\ record' = [record EXCEPT ![r] = rec]
    /\ watching' = {a \in watching : RunOf[a] # r}

NewRecord(a, cancelled) ==
    [user |-> UserOf[RunOf[a]], inst |-> InstOf[a], cancelled |-> cancelled,
     phase |-> "generating"]

\* Only a task that is still generating is cancelled; the second form would
\* cancel one that has begun to commit.
Interruptible_AnyPhase(b) == att[b].pc # "ended" /\ att[b].interrupted = "no"
Interruptible(b) ==
    /\ reg[b].phase = "generating"
    /\ att[b].pc # "ended"
    /\ att[b].interrupted = "no"

\* _apply_local_cancel: set the flag once, then cancel the task.
ApplyLocalCancel(i, r) ==
    LET b == localRuns[i][r]
        fresh == b \in Attempts /\ ~reg[b].cancelled
    IN  IF ~fresh THEN UNCHANGED <<reg, att>>
        ELSE /\ reg' = [reg EXCEPT ![b].cancelled = TRUE]
             /\ att' = IF Interruptible(b)
                       THEN [att EXCEPT ![b].interrupted = "cancel"]
                       ELSE att

\* The registration the attempt's process finds for its run id: normally its
\* own, but a later attempt of the same run id replaces it.
Found(a) == localRuns[InstOf[a]][RunOf[a]]

\* The task resumes at `step': a cancelled task raises instead (Interrupted).
At(a, step) == att[a].pc = step /\ att[a].interrupted = "no"

Continue(a, next) == att' = [att EXCEPT ![a] = next]

\* Leaving register_run: the synchronous half of unregister.
Unregister(a, last) ==
    /\ localRuns' = [localRuns EXCEPT ![InstOf[a]][RunOf[a]] = NoAttempt]
    /\ Continue(a, [last EXCEPT !.pc = "delete"])

\* terminal.emit("error", ...): only an open terminal takes the frame.
ErrorFrame(last) ==
    [last EXCEPT !.outcome = "error",
                 !.terminal = IF @ = "open" THEN "error" ELSE @]

Fault == faults < MaxFaults /\ faults' = faults + 1
-----------------------------------------------------------------------------
(* register                                                                 *)

Start(a) ==
    /\ At(a, "idle")
    /\ Continue(a, [att[a] EXCEPT !.pc = "readTombstone"])
    /\ UNCHANGED <<record, tombstone, channel, localRuns, reg, watching, req,
                   expiries, faults, told>>

\* The second form forgets the tombstones.
PreCancelled_Never(a) == FALSE
PreCancelled(a) == tombstone[RunOf[a]] = UserOf[RunOf[a]]

ReadTombstone(a) ==
    LET pre == PreCancelled(a)
    IN  /\ At(a, "readTombstone")
        /\ Continue(a, [att[a] EXCEPT !.pre = pre,
                          !.pc = IF pre THEN "dropTombstone" ELSE "storeRecord"])
        /\ UNCHANGED <<record, tombstone, channel, localRuns, reg, watching,
                       req, expiries, faults, told>>

DropTombstone(a) ==
    /\ At(a, "dropTombstone")
    /\ tombstone' = [tombstone EXCEPT ![RunOf[a]] = NoUser]
    /\ Continue(a, [att[a] EXCEPT !.pc = "storeRecord"])
    /\ UNCHANGED <<record, channel, localRuns, reg, watching, req, expiries,
                   faults, told>>

StoreRecord(a) ==
    /\ At(a, "storeRecord")
    /\ Store(RunOf[a], NewRecord(a, att[a].pre))
    /\ Continue(a, [att[a] EXCEPT !.pc = "install"])
    /\ UNCHANGED <<tombstone, channel, localRuns, reg, req, expiries, faults,
                   told>>

Install(a) ==
    /\ At(a, "install")
    /\ localRuns' = [localRuns EXCEPT ![InstOf[a]][RunOf[a]] = a]
    /\ reg' = [reg EXCEPT ![a].cancelled = att[a].pre]
    /\ Continue(a, [att[a] EXCEPT
                      !.pc = IF att[a].pre THEN "storeAgain" ELSE "generating"])
    /\ UNCHANGED <<record, tombstone, channel, watching, req, expiries, faults,
                   told>>

StoreAgain(a) ==
    /\ At(a, "storeAgain")
    /\ Store(RunOf[a], NewRecord(a, TRUE))
    /\ Continue(a, [att[a] EXCEPT !.pc = "generating"])
    /\ UNCHANGED <<tombstone, channel, localRuns, reg, req, expiries, faults,
                   told>>

\* A Redis command of register raises: no unregister follows, the error is
\* reported by the outer error handler.
RegisterFails(a) ==
    /\ \E step \in Registering : At(a, step)
    /\ Fault
    /\ Continue(a, [ErrorFrame(att[a]) EXCEPT !.pc = "ended"])
    /\ UNCHANGED <<record, tombstone, channel, localRuns, reg, watching, req,
                   expiries, told>>
-----------------------------------------------------------------------------
(* The producer: polls is_cancelled between frames, then commit_done.       *)

\* is_cancelled reads the record MaxPolls times; the other forms read it once
\* too often, or never.
MayPoll_OnceMore(b) == reg[b].polls <= MaxPolls
MayPoll_Never(b) == reg[b].polls < 0
MayPoll(b) == reg[b].polls < MaxPolls

\* client_gone says stop.
PollStops(a) ==
    LET b == Found(a)
    IN  /\ At(a, "generating")
        /\ b \in Attempts
        /\ \/ reg[b].cancelled /\ reg' = reg
           \/ /\ ~reg[b].cancelled /\ MayPoll(b)
              /\ record[RunOf[a]] # NoRecord /\ record[RunOf[a]].cancelled
              /\ reg' = [reg EXCEPT ![b].polls = @ + 1, ![b].cancelled = TRUE]
        /\ Unregister(a, [att[a] EXCEPT !.outcome = "stopped"])
        /\ UNCHANGED <<record, tombstone, channel, watching, req, expiries,
                       faults, told>>

\* client_gone says go on: more frames, or commit_done's next statement.  The
\* record is not read once MaxPolls reads were made; a failed read counts as
\* "not cancelled".
PollContinues(a) ==
    LET b == Found(a)
        clear == \/ record[RunOf[a]] = NoRecord
                 \/ ~record[RunOf[a]].cancelled
    IN  /\ At(a, "generating")
        /\ \/ b = NoAttempt /\ UNCHANGED <<reg, faults>>
           \/ /\ b \in Attempts /\ ~reg[b].cancelled /\ ~MayPoll(b)
              /\ UNCHANGED <<reg, faults>>
           \/ /\ b \in Attempts /\ ~reg[b].cancelled /\ MayPoll(b)
              /\ reg' = [reg EXCEPT ![b].polls = @ + 1]
              /\ IF clear THEN faults' = faults ELSE Fault
        /\ \E next \in {"generating", "begin"} :
               Continue(a, [att[a] EXCEPT !.pc = next])
        /\ UNCHANGED <<record, tombstone, channel, localRuns, watching, req,
                       expiries, told>>

\* The producer itself fails while generating.
ProducerFails(a) ==
    /\ At(a, "generating")
    /\ Fault
    /\ Unregister(a, ErrorFrame(att[a]))
    /\ UNCHANGED <<record, tombstone, channel, reg, watching, req, expiries,
                   told>>

\* claim_done, then begin_finalize up to its first await.
BeginFinalize(a) ==
    LET b == Found(a)
        refused == b = NoAttempt \/ (b \in Attempts /\ reg[b].cancelled)
    IN  /\ At(a, "begin")
        /\ IF refused
           THEN /\ Unregister(a, [att[a] EXCEPT !.outcome = "stopped"])
                /\ reg' = reg
           ELSE /\ reg' = [reg EXCEPT ![b].phase = "finalizing"]
                /\ Continue(a, [att[a] EXCEPT !.pc = "watch", !.held = b,
                                              !.terminal = "finalizing"])
                /\ localRuns' = localRuns
        /\ UNCHANGED <<record, tombstone, channel, watching, req, expiries,
                       faults, told>>

\* begin_finalize returns False: the phase goes back, the terminal reopens.
FinalizeRefused(a, flag) ==
    /\ reg' = [reg EXCEPT ![att[a].held].phase = "generating",
                          ![att[a].held].cancelled = @ \/ flag]
    /\ Unregister(a, [att[a] EXCEPT !.outcome = "stopped", !.terminal = "open"])

WatchRecord(a) ==
    LET rec == record[RunOf[a]]
        gone == rec = NoRecord
    IN  /\ At(a, "watch")
        /\ IF gone \/ (~gone /\ rec.cancelled)
           THEN /\ FinalizeRefused(a, ~gone)
                /\ watching' = watching
           ELSE /\ watching' = watching \cup {a}
                /\ Continue(a, [att[a] EXCEPT !.pc = "exec", !.seen = rec])
                /\ UNCHANGED <<localRuns, reg>>
        /\ UNCHANGED <<record, tombstone, channel, req, expiries, faults, told>>

\* EXEC succeeds only if the watched key was not written; the second form is
\* a plain SET.
KeyUntouched_Unwatched(a) == TRUE
KeyUntouched(a) == a \in watching

ExecSucceeds(a) ==
    /\ At(a, "exec") /\ KeyUntouched(a)
    /\ Store(RunOf[a], [att[a].seen EXCEPT !.phase = "finalizing"])
    /\ Continue(a, [att[a] EXCEPT !.pc = "persist"])
    /\ UNCHANGED <<tombstone, channel, localRuns, reg, req, expiries, faults,
                   told>>

ExecAborts(a) ==
    /\ At(a, "exec") /\ ~KeyUntouched(a)
    /\ IF att[a].tries + 1 = FinalizeTries
       THEN FinalizeRefused(a, FALSE)
       ELSE /\ Continue(a, [att[a] EXCEPT !.pc = "watch", !.tries = @ + 1])
            /\ UNCHANGED <<localRuns, reg>>
    /\ UNCHANGED <<record, tombstone, channel, watching, req, expiries, faults,
                   told>>

\* A Redis command of begin_finalize raises: commit_done does not release the
\* terminal, so the error frame is refused.
FinalizeFails(a) ==
    /\ At(a, "watch") \/ At(a, "exec")
    /\ Fault
    /\ watching' = watching \ {a}
    /\ Unregister(a, ErrorFrame(att[a]))
    /\ UNCHANGED <<record, tombstone, channel, reg, req, expiries, told>>
-----------------------------------------------------------------------------
(* commit_done after begin_finalize: transcript, done frame, mark_done.     *)

Persist(a) ==
    /\ At(a, "persist")
    /\ Continue(a, [att[a] EXCEPT !.pc = "emit", !.persisted = TRUE])
    /\ UNCHANGED <<record, tombstone, channel, localRuns, reg, watching, req,
                   expiries, faults, told>>

\* require_terminal_evidence or persist_and_enrich raises: release_done first.
PersistFails(a) ==
    /\ At(a, "persist")
    /\ Fault
    /\ Unregister(a, ErrorFrame([att[a] EXCEPT !.terminal = "open"]))
    /\ UNCHANGED <<record, tombstone, channel, reg, watching, req, expiries,
                   told>>

\* emit("done") and the synchronous start of mark_done.
EmitDone(a) ==
    LET b == Found(a)
    IN  /\ At(a, "emit")
        /\ Continue(a, [att[a] EXCEPT !.pc = "doneRead", !.terminal = "done"])
        /\ reg' = IF b \in Attempts THEN [reg EXCEPT ![b].phase = "done"] ELSE reg
        /\ UNCHANGED <<record, tombstone, channel, localRuns, watching, req,
                       expiries, faults, told>>

\* complete_continuation_token raises after the transcript was written.
TokenFails(a) ==
    /\ At(a, "emit")
    /\ Fault
    /\ Unregister(a, ErrorFrame(att[a]))
    /\ UNCHANGED <<record, tombstone, channel, reg, watching, req, expiries,
                   told>>

ReadForDone(a) ==
    LET rec == record[RunOf[a]]
    IN  /\ At(a, "doneRead")
        /\ IF rec = NoRecord
           THEN Unregister(a, [att[a] EXCEPT !.outcome = "completed"])
           ELSE /\ Continue(a, [att[a] EXCEPT !.pc = "doneWrite", !.seen = rec])
                /\ localRuns' = localRuns
        /\ UNCHANGED <<record, tombstone, channel, reg, watching, req, expiries,
                       faults, told>>

WriteDone(a) ==
    /\ At(a, "doneWrite")
    /\ Store(RunOf[a], [att[a].seen EXCEPT !.phase = "done"])
    /\ Unregister(a, [att[a] EXCEPT !.outcome = "completed"])
    /\ UNCHANGED <<tombstone, channel, reg, req, expiries, faults, told>>

\* mark_done swallows its Redis errors.
MarkDoneFails(a) ==
    /\ At(a, "doneRead") \/ At(a, "doneWrite")
    /\ Fault
    /\ Unregister(a, [att[a] EXCEPT !.outcome = "completed"])
    /\ UNCHANGED <<record, tombstone, channel, reg, watching, req, expiries,
                   told>>

\* The Redis half of unregister; a failure is swallowed.
DeleteRecord(a) ==
    /\ At(a, "delete")
    /\ \/ Store(RunOf[a], NoRecord) /\ faults' = faults
       \/ Fault /\ UNCHANGED <<record, watching>>
    /\ Continue(a, [att[a] EXCEPT !.pc = "ended"])
    /\ UNCHANGED <<tombstone, channel, localRuns, reg, req, expiries, told>>

\* CancelledError at the await the attempt stands at.  Inside register and
\* inside unregister there is nothing left to unregister; persist_and_enrich
\* releases the terminal before it re-raises; the other awaits do not.
Interrupted(a) ==
    LET stopped == [att[a] EXCEPT !.interrupted = "no", !.outcome = "stopped",
                      !.terminal = IF att[a].pc = "persist" THEN "open" ELSE @]
    IN  /\ att[a].interrupted # "no"
        /\ att[a].pc # "ended"
        /\ IF att[a].pc \in Registering \cup {"delete"}
           THEN /\ Continue(a, [stopped EXCEPT !.pc = "ended"])
                /\ localRuns' = localRuns
           ELSE Unregister(a, stopped)
        /\ watching' = watching \ {a}
        /\ UNCHANGED <<record, tombstone, channel, reg, req, expiries, faults,
                       told>>

\* The client goes away: stream_ask_frames cancels the producer task.
Disconnect(a) ==
    /\ att[a].pc \notin {"idle", "ended"}
    /\ att[a].interrupted = "no"
    /\ Continue(a, [att[a] EXCEPT !.interrupted = "disconnect"])
    /\ UNCHANGED <<record, tombstone, channel, localRuns, reg, watching, req,
                   expiries, faults, told>>
-----------------------------------------------------------------------------
(* cancel_run                                                               *)

Answer(c, answer) ==
    req' = [req EXCEPT ![c].pc = "answered", ![c].answer = answer]

\* The history variable: the owner's cancel of run r reaches Redis, as a
\* tombstone or in the record.
NoteCancel(r, asTombstone) ==
    told' = [a \in Attempts |->
        IF RunOf[a] # r \/ told[a] # "never" THEN told[a]
        ELSE IF att[a].pc \in Committing \cup {"delete", "ended"} THEN "too late"
        ELSE IF ~asTombstone THEN "recorded"
        ELSE IF att[a].pc \in {"idle", "readTombstone"} THEN "before read"
        ELSE "after read"]

StartCancel(c) ==
    /\ req[c].pc = "idle"
    /\ req' = [req EXCEPT ![c].pc = "read"]
    /\ UNCHANGED <<record, tombstone, channel, localRuns, reg, att, watching,
                   expiries, faults, told>>

\* A run may be cancelled by its own user; the second form skips the check.
MayCancel_Anyone(q, rec) == TRUE
MayCancel(q, rec) == rec.user = q.user

\* GET of the record and everything up to the next await.
ReadForCancel(c) ==
    LET q == req[c]
        rec == record[q.run]
    IN  /\ q.pc = "read"
        /\ IF rec = NoRecord
           THEN /\ req' = [req EXCEPT ![c].pc = "tombstone"]
                /\ UNCHANGED <<reg, att>>
           ELSE IF ~MayCancel(q, rec)
           THEN Answer(c, "false") /\ UNCHANGED <<reg, att>>
           ELSE IF rec.cancelled
           THEN /\ Answer(c, "true")
                /\ IF rec.inst = q.inst
                   THEN ApplyLocalCancel(q.inst, q.run)
                   ELSE UNCHANGED <<reg, att>>
           ELSE /\ req' = [req EXCEPT ![c].pc = "store", ![c].seen = rec]
                /\ UNCHANGED <<reg, att>>
        /\ UNCHANGED <<record, tombstone, channel, localRuns, watching,
                       expiries, faults, told>>

StoreTombstone(c) ==
    LET q == req[c]
    IN  /\ q.pc = "tombstone"
        /\ tombstone' = [tombstone EXCEPT ![q.run] = q.user]
        /\ Answer(c, "true")
        /\ IF q.user = UserOf[q.run] THEN NoteCancel(q.run, TRUE) ELSE told' = told
        /\ UNCHANGED <<record, channel, localRuns, reg, att, watching, expiries,
                       faults>>

\* The whole record is written back as it was read, with the flag set.
StoreCancelled(c) ==
    LET q == req[c]
    IN  /\ q.pc = "store"
        /\ Store(q.run, [q.seen EXCEPT !.cancelled = TRUE])
        /\ req' = [req EXCEPT ![c].pc = "apply"]
        /\ NoteCancel(q.run, FALSE)
        /\ UNCHANGED <<tombstone, channel, localRuns, reg, att, expiries, faults>>

ApplyCancel(c) ==
    LET q == req[c]
        here == q.seen.inst = q.inst
    IN  /\ q.pc = "apply"
        /\ Answer(c, "true")
        /\ IF here THEN ApplyLocalCancel(q.inst, q.run) ELSE UNCHANGED <<reg, att>>
        /\ channel' = IF ~here /\ q.seen.phase = "generating"
                      THEN [channel EXCEPT ![q.seen.inst] = @ \cup {q.run}]
                      ELSE channel
        /\ UNCHANGED <<record, tombstone, localRuns, watching, expiries, faults,
                       told>>

CancelFails(c) ==
    /\ req[c].pc \in {"read", "tombstone", "store", "apply"}
    /\ Fault
    /\ Answer(c, "raised")
    /\ UNCHANGED <<record, tombstone, channel, localRuns, reg, att, watching,
                   expiries, told>>
-----------------------------------------------------------------------------
(* Redis and its pub/sub.                                                   *)

Deliver(i) ==
    \E r \in channel[i] :
        /\ channel' = [channel EXCEPT ![i] = @ \ {r}]
        /\ ApplyLocalCancel(i, r)
        /\ UNCHANGED <<record, tombstone, localRuns, watching, req, expiries,
                       faults, told>>

\* Pub/sub keeps nothing for a listener that is not subscribed.
Lose(i) ==
    \E r \in channel[i] :
        /\ Fault
        /\ channel' = [channel EXCEPT ![i] = @ \ {r}]
        /\ UNCHANGED <<record, tombstone, localRuns, reg, att, watching, req,
                       expiries, told>>

\* A key that reaches its TTL is gone, and a WATCH on it is invalid.
Expire(r) ==
    /\ expiries < MaxExpiries
    /\ expiries' = expiries + 1
    /\ \/ /\ record[r] # NoRecord
          /\ Store(r, NoRecord)
          /\ tombstone' = tombstone
       \/ /\ tombstone[r] # NoUser
          /\ tombstone' = [tombstone EXCEPT ![r] = NoUser]
          /\ UNCHANGED <<record, watching>>
    /\ UNCHANGED <<channel, localRuns, reg, att, req, faults, told>>
-----------------------------------------------------------------------------
Register(a) == \/ Start(a) \/ ReadTombstone(a) \/ DropTombstone(a)
               \/ StoreRecord(a) \/ Install(a) \/ StoreAgain(a)

Finish(a) == \/ BeginFinalize(a) \/ WatchRecord(a) \/ ExecSucceeds(a)
             \/ ExecAborts(a) \/ Persist(a) \/ EmitDone(a) \/ ReadForDone(a)
             \/ WriteDone(a) \/ DeleteRecord(a)

Fails(a) == \/ RegisterFails(a) \/ ProducerFails(a) \/ FinalizeFails(a)
            \/ PersistFails(a) \/ TokenFails(a) \/ MarkDoneFails(a)

CancelStep(c) == \/ ReadForCancel(c) \/ StoreTombstone(c)
                 \/ StoreCancelled(c) \/ ApplyCancel(c)

Next ==
    \/ \E a \in Attempts : \/ Register(a) \/ PollStops(a) \/ PollContinues(a)
                           \/ Finish(a) \/ Fails(a)
                           \/ Interrupted(a) \/ Disconnect(a)
    \/ \E c \in Cancels : StartCancel(c) \/ CancelStep(c) \/ CancelFails(c)
    \/ \E i \in Instances : Deliver(i) \/ Lose(i)
    \/ \E r \in Runs : Expire(r)

\* Each task keeps running and the listener keeps reading.  Nothing says that
\* generation ends, that a request comes, or that a client stays.
Fairness ==
    /\ \A a \in Attempts : /\ WF_vars(Register(a) /\ att[a].pc # "idle")
                           /\ WF_vars(PollStops(a))
                           /\ WF_vars(PollContinues(a)
                                        /\ att'[a].pc = "generating")
                           /\ WF_vars(Finish(a)) /\ WF_vars(Interrupted(a))
    /\ \A c \in Cancels : WF_vars(CancelStep(c))
    /\ \A i \in Instances : WF_vars(Deliver(i))

Spec == Init /\ [][Next]_vars
FairSpec == Spec /\ Fairness
-----------------------------------------------------------------------------
(* Properties.                                                              *)

TypeOK ==
    /\ record \in [Runs -> Record \cup {NoRecord}]
    /\ tombstone \in [Runs -> Users \cup {NoUser}]
    /\ channel \in [Instances -> SUBSET Runs]
    /\ localRuns \in [Instances -> [Runs -> Attempts \cup {NoAttempt}]]
    /\ reg \in [Attempts -> Registration]
    /\ att \in [Attempts -> Attempt]
    /\ watching \in SUBSET Attempts
    /\ req \in [Cancels -> Request]
    /\ expiries \in 0..MaxExpiries
    /\ faults \in 0..MaxFaults
    /\ told \in [Attempts -> {"never", "before read", "after read",
                              "recorded", "too late"}]

Committed(a) == att[a].persisted \/ att[a].pc \in Committing
                                 \/ att[a].outcome = "completed"

\* "Once finalization starts, completion wins the race": no cancel interrupts
\* a task between begin_finalize and the end of mark_done.
CompletionWins ==
    \A a \in Attempts :
        att[a].interrupted = "cancel" => att[a].pc \notin Committing

\* A cancel recorded while the attempt was registered and had not passed
\* begin_finalize is never followed by a commit: the WATCH transaction and the
\* unprotected GET/SET of cancel_run cannot both win.
RecordedCancelHonoured ==
    \A a \in Attempts : told[a] = "recorded" => ~Committed(a)

\* The tombstone of a run id holds one user: a later cancel of the same id by
\* another user replaces it.
AskedByOwnerAlone(r) ==
    \A c \in Cancels : req[c].run = r => req[c].user = UserOf[r]

\* A tombstone that register still finds (neither expired nor replaced) stops
\* the run.
EarlyCancelHonoured ==
    \A a \in Attempts :
        /\ told[a] = "before read"
        /\ expiries = 0
        /\ AskedByOwnerAlone(RunOf[a])
        => ~Committed(a)

\* Only a request of the run's own principal reaches its task.
OwnerOnly ==
    \A a \in Attempts :
        reg[a].cancelled \/ att[a].interrupted = "cancel" =>
            \E c \in Cancels : /\ req[c].run = RunOf[a]
                               /\ req[c].user = UserOf[RunOf[a]]
                               /\ req[c].pc \notin {"idle", "read"}

\* Where an attempt is in the race, and whether its task was cancelled and has
\* still to see it: a task that is only cleaning up has nothing left to stop.
StageOf(x) == IF x.persisted THEN "written"
              ELSE IF x.pc \in {"delete", "ended"} THEN "over"
              ELSE IF x.pc \in Committing THEN "committing"
              ELSE "running"
Cut(x) == x.interrupted = "cancel" /\ x.pc \notin {"delete", "ended"}

Race == INSTANCE CommitOrCancel
    WITH stage <- [a \in Attempts |-> StageOf(att[a])],
         cancelled <- {a \in Attempts : told[a] = "recorded"},
         interrupted <- {a \in Attempts : Cut(att[a])}

\* Cancel and commit race and one of them wins: once begin_finalize is through
\* no cancel interrupts the run, a cancel recorded before it is not followed by
\* a commit, and what was decided stays so.
RaceSpec == Race!Spec

\* A cancel recorded while the attempt is registered ends it, even if its
\* generation would never return and the message came before _local_runs.
CancelEventuallyStops ==
    \A a \in Attempts : told[a] = "recorded" ~> att[a].pc = "ended"
-----------------------------------------------------------------------------
(* The inductive invariant of the proofs.                                   *)

\* What a step takes out of the state it was prepared in.
ControlInv ==
    /\ \A a \in Attempts :
        /\ att[a].pc = "storeAgain" => att[a].pre
        /\ att[a].pc \in Finalizing => att[a].held \in Attempts
        /\ att[a].pc \in {"exec", "doneWrite"} => att[a].seen \in Record
    /\ \A c \in Cancels :
        req[c].pc \in {"store", "apply"} => req[c].seen \in Record

\* The run's own principal has asked, and the request was looked at.
Asked(r) ==
    \E c \in Cancels : /\ req[c].run = r /\ req[c].user = UserOf[r]
                       /\ req[c].pc \notin {"idle", "read"}

SoundRecord(r, rec) ==
    rec \in Record => /\ rec.user = UserOf[r]
                      /\ rec.cancelled => Asked(r)

OwnedAttempt(a, x) ==
    /\ x.pre => Asked(RunOf[a])
    /\ x.interrupted = "cancel" => Asked(RunOf[a])
    /\ x.held \in Attempts => RunOf[x.held] = RunOf[a]
    /\ SoundRecord(RunOf[a], x.seen)

OwnedRequest(q) ==
    q.pc \in {"store", "apply"} => /\ q.seen.user = UserOf[q.run]
                                   /\ q.user = UserOf[q.run]

\* Every copy of a cancellation goes back to such a request.
OwnRecord == \A r \in Runs : SoundRecord(r, record[r])
OwnTombstone == \A r \in Runs : tombstone[r] = UserOf[r] => Asked(r)
OwnChannel == \A i \in Instances : \A r \in channel[i] : Asked(r)
OwnLocal == \A i \in Instances, r \in Runs :
    localRuns[i][r] \in Attempts => RunOf[localRuns[i][r]] = r
OwnReg == \A a \in Attempts : reg[a].cancelled => Asked(RunOf[a])
OwnAtt == \A a \in Attempts : OwnedAttempt(a, att[a])
OwnReq == \A c \in Cancels : OwnedRequest(req[c])

OwnerInv == /\ OwnRecord /\ OwnTombstone /\ OwnChannel /\ OwnLocal
            /\ OwnReg /\ OwnAtt /\ OwnReq

\* A run id is registered by one attempt only (no client retry reuses it).
OneAttemptPerRun == \A a, b \in Attempts : RunOf[a] = RunOf[b] => a = b

Unstored == {"idle", "readTombstone", "dropTombstone", "storeRecord"}

\* The attempt has an owner's cancel it may not overtake.
Doomed(a) == \/ told[a] = "recorded"
             \/ /\ told[a] = "before read"
                /\ expiries = 0
                /\ AskedByOwnerAlone(RunOf[a])

\* No cancel_run is about to write a record of this run back.
NobodyStores(r) ==
    \A c \in Cancels : req[c].run = r => req[c].pc \notin {"store", "apply"}

BoundaryOK(a) ==
    /\ att[a].pc \in Finalizing \cup Committing =>
           reg[a].phase # "generating" /\ att[a].interrupted # "cancel"
    /\ att[a].pc \in Finalizing => att[a].held = a

LateOK(a) ==
    (att[a].persisted \/ att[a].outcome # "none") =>
        att[a].pc \in Committing \cup {"delete", "ended"}

UnstoredOK(a) ==
    att[a].pc \in Unstored => /\ record[RunOf[a]] = NoRecord
                              /\ NobodyStores(RunOf[a])
                              /\ told[a] # "recorded"
                              /\ a \notin watching

DoomedOK(a) ==
    Doomed(a) =>
        /\ ~Committed(a)
        /\ a \notin watching
        /\ att[a].pc \in {"idle", "readTombstone"} =>
               tombstone[RunOf[a]] = UserOf[RunOf[a]]
        /\ att[a].pc \in {"dropTombstone", "storeRecord", "install"} =>
               att[a].pre \/ told[a] = "recorded"
        /\ record[RunOf[a]] = NoRecord \/ record[RunOf[a]].cancelled

\* The commit boundary of an attempt that is alone on its run id.
CommitOK(a) == BoundaryOK(a) /\ LateOK(a) /\ UnstoredOK(a) /\ DoomedOK(a)
CommitInv == \A a \in Attempts : CommitOK(a)
=============================================================================
