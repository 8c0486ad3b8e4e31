# A verification of the Ask AI service

The service in `src/app` answers questions about a billing database over server-sent events.  Most
of its code translates text; what is hard in it is a turn's life: a client that leaves, a cancel
from another process, a deadline, a retry, a query whose evidence and record must agree, a ledger
written by tasks that race, and a memory that outlives and loses its turns.  This directory models
that life in TLA+.  TLC checks small instances, and TLAPS proves the main properties for every value
of the constants.

    tlc -config CancelRace.cfg MCCancelRegistry    # a run: the cfg and module named in PROJECT.json
    tlapm AskStreamProofs.tla                      # the proofs of a module

## The system

    browser ──▶ billing app ──▶ SSE generator ◀── byte-bounded queue ◀── producer ──▶ AskV2Service.ask
                    │                 │                                      │              │
                    │                 ├── turn budget, disconnect            │    coordinator graph ──▶ tools
                    │                 └── detached stopped write             │              │
                    └── POST /api/cancel ──▶ cancel registry (Redis)         │      business query operation
                                                                             │       planner attempts, evidence,
                         clarification ticket (Redis) ◀──────────────────────┤       record (Postgres)
                         thread memory (Redis) ◀── rebuilt from ── Query Record (Postgres, fire and forget)

| component | state | operations | what is hard | what makes it correct |
|---|---|---|---|---|
| Cancel registry (`services/cancel_service.py`) | run record, tombstone and pub/sub channel in Redis; `_local_runs` per process | register, cancel_run, is_cancelled, begin_finalize, mark_done, unregister, listener | two commands where one would do; several processes; keys that expire; commands that raise | a recorded cancel and a commit never both win; only the owner cancels; a cancelled run ends |
| Clarification ticket (`conversation/transcript_store.py`, `services/continuation_tokens.py`) | one record per ticket with status, key, claimant, lease, outcome; a notify list | mint, claim, join, complete, fail | WATCH races, retries, leases shorter than turns, processes that die | taken by one key, settled once, outcomes stay with their key, everyone is answered |
| Streamed turn (`services/ask_v2_stream.py`, `ask_v2_turn_bound.py`, `byte_bounded_ask_queue.py`) | generator, producer and child task, queue, sequence counter and validator, captured outcome | produce, forward, expire, disconnect, join, commit | cancellation at any await; a full buffer; three senders of a terminal frame | numbered without a gap, one terminal frame, the ledger agrees with the client |
| Coordinator (`conversation/coordinator/`) | counters, observed outcomes, the running action, a held draft | decide, query, search, explain, finish, clarify, repair | limits and repairs in different nodes; a stop in any of them | limits kept; every turn ends in one terminal that its evidence supports |
| Business query (`services/business_query_operation.py`, `business_query/plan/attempts.py`, `business_query/seal/events/`) | planner attempts under leases; evidence, plans, lookups and the record of an answer | plan and repair, resolve, execute, seal, save, record, commit; take over an attempt | a session that holds several rows; statements that fail or land unseen; a request sent twice | an attempt has one owner and one terminal; an answer has all its rows or none |
| Query Record ledger (`query_records/`) | one row per run | reserve, insert and reconcile, late writes | unordered fire-and-forget tasks; read, update, compare | a terminal's outcome stays a terminal's; a late write is not lost |
| Thread memory (`conversation/transcript_store.py`, `thread_loading.py`, `durable_history.py`) | the thread's record in Redis; the rows that rebuild it | load, rebuild, append | two tabs; Redis losing the key at any moment; another person naming the thread | own exchanges only, each once, no older than the thread's lifetime; appends are atomic |
| Evidence and restore (`conversation/evidence/`) | encrypted snapshots by reference | seal, get, tombstone, restore | a transcript written later than its snapshot | a reference names one turn, for its owner, until it expires |
| Breakers, bounded executor (`core/`) | counters under a lock; permits | can_execute, record; submit, shutdown | old results in a new state | permits come back; a breaker recovers |
| Browser turn state (`billing/resources/js/ask_ai_v2`) | a slice per message | frames, end, restore | restore against a live stream | a turn ends once |

Components are coupled by calls and by Redis and Postgres rows.  `AskV2Service.ask` claims and
settles the ticket inside the child task of the streamed turn; the generator's budget and
cancellation reach the ticket as the `Abort` of `Continuation`, the coordinator as `Abandon`, and the
query as the steps that are cut.  The answer that `AskStream` takes in one step is `Coordinator`, and
its `query_business` is `BusinessOperation`.  The terminals that `AskStream` schedules are the
deliveries of `QueryRecord`, and the rows they leave are what `ThreadMemory` rebuilds from.  The cancel
registry guards the older `/api/ask` stream (`services/ask_stream.py`, `stream_transport.py`), whose
commit boundary is in its module.  `PROJECT.json` lists every component, those that are not modelled
with the reason, and the hazards at their lines.

## The modules

The `MC*` modules give the constants of the runs; the `*Proofs` modules hold theorems only.  A
definition `X_Something` beside `X` is a plausible slip in `X`; it is used nowhere in the specification
and says which property notices it.

### CancelRegistry, CommitOrCancel

Each `await` on Redis is an action: the command is atomic, the code up to the next `await` belongs to
the same step.  `record`, `tombstone` and `channel` are Redis; `localRuns` and `reg` are `_local_runs`
and its registration objects, which `begin_finalize` keeps holding while the table changes; `att` is an
SSE attempt with its `StreamTerminal`; `req` is a `POST /api/cancel`.  `watching` holds the attempts
whose WATCHed key has not been written since, so `begin_finalize` aborts exactly when Redis would.

| code | actions |
|---|---|
| `register` | `Register`: read the tombstone, delete it, set the record, install, set again |
| `is_cancelled` | `PollStops`, `PollContinues`, counting to `MaxPolls` |
| `commit_done`, `begin_finalize`, `mark_done`, `unregister` | `Finish` and its steps |
| `cancel_run` | `StartCancel`, `CancelStep`: read, tombstone or store, apply or publish |
| listener, lost messages, TTLs, Redis errors | `Deliver`, `Lose`, `Expire`, `Fails`, `CancelFails` |

`told` is a history variable: where an attempt was when its owner's first cancel reached Redis.
`CommitOrCancel` is what the boundary promises a stream: it generates, is cut or goes on to commit, and
a committed one is never cut; a cancel that was recorded before the boundary leaves it nothing but the
cut.  The refinement reads an attempt's stage, whether a cancel it may not overtake is recorded and
whether its task was interrupted.

### Continuation, SingleUseContinuation

One ticket.  `rec` is the record's JSON, a reply is one POST with its key and run id.  The read of a
WATCH transaction is one step and its EXEC another; `watching` decides whether EXEC goes through.
`Arrive`, `Mint`, `Serve` (claim, load, mint of a second card, run, complete, join, wake, reread, fail),
`Abort` (the deadline or a cancellation at an await, with the `except` arm that fails the claim),
`Crash`, `Expire` and `Tick` are the actions.  `SingleUseContinuation` is what the ticket promises:
absent, pending, taken by one (key, run id), answered or failed once, vanished.  The refinement maps the
record's status, claimant and outcome.

### AskStream, StreamContract

asyncio runs one task at a time, so a step is the code between two awaits.  `gen` is the generator
`stream_ask_v2_events`, `task` the producer with the child task of `AskV2Service.ask`; the producer
has no await between the answer and its `finally`, and in those steps (`Busy`) nobody else moves.
`cancelling` is a cancellation that was requested and not delivered; `signal`, `late`, `gone` and `stopped`
are the environment.  Frames are a kind, a number and a size: only `Sizes`, `MaxFrame` and `MaxBuffer`
decide what the queue refuses.  `StreamContract` is the client's view: numbers from 1 without a gap, one
terminal frame at most, nothing behind it; a deadline's frame carries the number 1, as the code writes it.

### Coordinator

The decision graph of one turn.  `node` is the graph's position, `steps` LangGraph's super-steps;
`decisions`, `actions`, `businessQueries` and their like are the counters of `TurnState`; `outcomes`
are the observed actions; `running` is the action between its start and its completion; `repairsUsed`
are the rules whose repair round is used; `heldDraft` is the draft a repair keeps; `request` is what
this turn can run at all.

| code | actions |
|---|---|
| `decide` | `StopBeforeDecision`, `Decide`, `DecisionFails`: the limits first, then the disallowed action |
| `start_action`, the tool nodes | `Start`, `QueryCommits`, `QueryDeclines`, `SearchReturns`, `ExplainReturns`, `ExplainFindsNothing`, `ToolTimesOut`, `ToolRaises` |
| `finish`, `clarify` with `DraftChecks` | `Finish`, `Clarify`: the first broken rule repairs once, then holds or stops |
| the turn's budget | `Abandon` |

A draft is what the rules tell apart: which outcomes it cites, whether it asks back, suggests, or
misstates a value.  The model's choices are every draft, card and call.

### BusinessOperation

One prepared query and its repetitions over one store.  `journal` and `epoch` are the planner attempts
and their leases; `durable` holds committed rows with who wrote them, `staged` those of a session;
`broken` marks a session whose statement failed.  `PlanRound`, `StartAttempt`, `Ask`,
`CommitResponse`, `Follow` and `FinishAttempt` are the planner with its repairs; `ResolveNone`,
`CommitResolverStarted`, `RunAdapters`, `Append`, `NextMember`, `SavePlan`, `WriteRecord` and `Commit`
execute a planned set member by member; `ClaimRecovery` and `RecoveryFinish` take an attempt over.
`Landed` leaves open whether a statement whose answer is lost was committed; `JournalBreaks`,
`ResolverStartCut`, `CommitBreaks` and `GiveUp` are the places where the budget or the database cuts it.

### QueryRecord

One correlation's row.  `write` is where each terminal's task is (scheduled, its read done, done or
failed) and `late` where a client timing or feedback is.  `Insert` reads the row and either inserts or
goes on to `Reconcile`, whose columns are chosen from what was read; `LateUpdates` and `LateChecks` are
the update and the comparison behind it.  `Gathered` is `await_pending_writes`: a late write waits for
the tasks of its own worker only, another worker's polls.

### ThreadMemory, ThreadLog

One thread.  `record` is its key in Redis; `row`, `first` and `kept` are the Query Records that name it;
`who` is each request's (user, entity).  `LoadThread`, `ReadRows` and the writes are `load_thread` with
`reseed_from_durable_history`; `Watch`, `Execute`, `LostRace` and `WriteFails` are `append`, which serves
the write-back and the turn's own exchange alike; `Commit`, `NotKept` and `Terminal` are the row's part.
`RedisLoses` is the idle time-out, eviction and restart, and `Tick` ages everything.  `seen` is the copy
read under WATCH and `watching` decides EXEC.  `stored` and `crossed` are history variables.
`ThreadLog` is what the writes promise: behind what is there, only into a live thread of one's own, its
start kept; the refinement reads `record` as its thread.

## What the runs show

| run | question | result |
|---|---|---|
| `cancel_race` | one attempt, two cancels by either of two users on either of two instances, one expiry, one fault | 1.1 M states: a cancel recorded before `begin_finalize` is not followed by a commit, completion wins afterwards, only the owner's requests reach the task, a tombstone that register finds is honoured; the attempt implements `CommitOrCancel` |
| `cancel_live` | does a recorded cancel end a run whose generation never returns, when pub/sub comes too early? | 2 980 states: yes |
| `continuation_retry` | two requests of one key and one of another, turns shorter than the lease | 3.4 M states: one runs, outcomes stay with their key, what was answered is stored, a failed turn settles, and the record is a single-use ticket |
| `continuation_live` | is every reply answered, with a process that dies, a lease shorter than the turn and a retry that joins it? | 187 k states: yes |
| `stream_turn` | a whole turn: every interleaving of producer, client, deadline and cancel, over a small buffer | 0.8 M states: the wire's contract, the buffer, the ledger, the restore reference, and that every stream ends |
| `coordinator_turn` | every choice of the model over five decisions and two actions | 1.6 M states, no deadlock: limits and the action protocol kept, what is published rests on what was observed, a repair asks only for what is allowed, and the turn ends within the recursion limit |
| `coordinator_held` | is a held draft kept until it is published? | **violated** |
| `operation_turn` | two operations behind one request, of one correlation or of two, with a takeover | 1.9 M states: attempts keep one owner and terminal, an answer's rows are durable together, a refused one leaves no record and no evidence but the start of a later lookup, a request sent again is answered once |
| `records_race` | the reservation, three terminals, a timing and a feedback in every order | 3.6 M states: the outcome shown is a terminal's, a withdrawn price is still charged, a late write is neither missed nor overwritten on its own worker |
| `records_first_write` | does a recorded column keep its first value? | **violated** |
| `memory_turns` | three requests of one principal or of two load, rebuild and extend a thread that Redis loses | 0.9 M states: own exchanges only, each once and in its lifetime unless a write-back crossed, and the writes are atomic |
| `memory_forgotten` | do the rows give back all that Redis lost? | **violated** |

**Bounds.**  A cancel needs one attempt and one request; two let a stranger's and the owner's meet, or
two of the owner's on two instances, and two of five WATCH rounds and two polls already separate
"tried again" from "gave up".  A ticket has three roles (runner, retry of its key, another key), hence
three replies for safety, while liveness has the first two; time only has to tell lease, ticket,
budget and join cap apart.  A stream has up to five frames of one unit, of the largest size and of one
more over a buffer that takes two large ones and a small one.  A coordinator turn with two actions and five decisions reaches each limit before and after
each repair, and 12 super-steps are what those limits allow.  An operation needs two members (a primary
and a companion) for evidence to be partial, one repair for a second attempt, two epochs for a stale
owner, and two operations to meet.  A record needs its three terminals and one late write of each kind,
with two polls.  A thread needs three requests for a rebuild to cross another's write, two exchanges for
an order, a clock of two for a rebuild in the lifetime and one past it, and two tries for one retry; the
requests and the scopes are alike, so the run uses their symmetry.  Deadlock is checked for the
coordinator, whose end is an explicit step; the others stop when their requests are served.

**Fairness.**  `CancelRegistry`: every task that can run does, and the listener reads; nothing says that
generation ends, that a request comes or a client stays.  `Continuation`: a process that lives goes on
serving, its deadline fires and time passes; minting, arriving, crashing and expiry are not fair.
`AskStream`: weak fairness for the producer's next step, for the generator (which is resumed when the
client takes a frame or leaves) and for the deadline, as the event loop and its timers give it; no
client has to leave.  The other modules state none: the coordinator's end follows from
`WithinRecursionLimit` and the absence of deadlock, and the rest have tasks that may simply fail.

## Where the code differs from what is said of it

Three runs end in a counterexample; `PROJECT.json` quotes the line each one contradicts.

- *Held draft* (`coordinator_held`): a second repair that holds nothing forgets the draft of the first.
- *First write* (`records_first_write`, `repository.py:126`): two terminals read a column empty and
  the second replaces the first's, with no lock between read and update.
- *Lost memory* (`memory_forgotten`, `thread_loading.py:151`): a turn that loaded the thread before Redis
  lost it stores its exchange in a new record; later loads find it and rebuild nothing.

More were found on the way.  These were seen as TLC counterexamples and are kept as text:

- *Crossed rebuild* (`durable_history.py:126`): a request finds Redis empty, another stores its exchange
  and commits its row, and the first writes the rows back behind it: the exchange is in the memory twice.
  The record keeps the newer start, so older exchanges outlive "the 4 hours still count from the
  thread's first turn" (`durable_history.py:8-9`).
- *Early cancels* (`cancel_service.py:289`): register reads the tombstone before it stores the record, and
  `cancel_run` reads the record before it stores the tombstone.  When they cross, the cancel is answered
  `True` and forgotten.
- *Terminal frame* (`stream_transport.py:163`): `begin_finalize` may raise after the terminal was claimed;
  the error frame is then refused and the stream ends without one.
- *Lease* (`transcript_store.py:66-68`): "a claim must outlive the longest Ask turn (25 s)"; the longest
  turn may be 600 s (`config.py:273`) and the lease is 60 s, so a retry fails a running claim.
- *Contention* (`transcript_store.py:800`): `except RedisError` stands before `except WatchError`, its subclass.
- *Override* (`ask_v2_stream.py:612`): a stream that fails after its answer was captured shows an error and
  is recorded as completed, except for a full buffer.
- *Stopped write* (`ask_v2_stream.py:823`): a client that closes while it is sent the terminal frame gets a
  stopped marker behind its answer.
- One request delivered twice is "reclaimed" and dispatched twice (`ask_prepare.py:397-399`), and the
  second delivery's cancellation fails the claim of the first.

These were read in the code and are part of the models:

- A table is begun and never ended when the buffer fills between its frames (`ask_tables.py:224`); the
  deadline's frame is numbered 1 (`ask_v2_stream.py:788`).
- Every v2 regenerate is refused: `_handle_regenerate` passes its target exchange as a continuation
  token, which has no such form, and `prepare_ask` raises.  "regenerate replaces the latest completed
  pair" (`ask_request.py:58`) does not happen, and `replace_latest_exchange` is not reached.
- The ownership error of a write-back escapes `load_thread`, where "a failed write-back still answers
  this turn" (`durable_history.py:98-99`); a turn refused in a thread leaves its row under that thread's
  name.
- "a switched-off capability always does [end the turn]": one that is denied beside other evidence does
  not (`coordinator/runtime.py:84`); a held draft may predate a query that then ran; the repair of an
  unreachable record type names `query_business` without asking whether it is allowed.
- `_record_uncertain_completion` never records, as the journal is bound before the planner runs; the
  Postgres sink lets a COMPLETION_UNKNOWN attempt be started again where the in-memory sink refuses
  ("same CAS rules", `attempts.py:188`); a cancel in a semantic repair finishes the attempt that was
  already closed (`planner_repair.py:186`); a request sent again by its public key after success is
  refused for its digest, where the comment says it is replayed.
- The resolver's start commits the session's earlier evidence, which stays if the answer is then refused
  (`store_postgres.py:196`).
- A late write whose row changed between its two reads is answered false though it was stored
  (`repository.py:245-251`); "duplicate correlation_id deliveries are ignored" (`dispatch.py:6-7`), yet
  they are reconciled.

## What is proved

No theorem assumes more than the named ASSUMEs of its module (types of the constants), except where
stated.  Each follows from an inductive invariant; the runs' bounds do not enter.

**CancelRegistryProofs.**  `TypeCorrect` needs `ControlInv`: what a step takes out of the state it was
prepared in.  `OwnerAlone` (`OwnerOnly`) follows from `OwnerInv`: every copy of a cancellation, in the
record, a tombstone, a channel, a registration or a request, goes back to a request of the run's own
principal.  `CompletionHolds`, `RecordedCancelWins` and `EarlyCancelWins` follow from `CommitInv`: an
attempt with a cancel it may not overtake (`Doomed`) watches no record it could still commit over, and
its record, when there is one, is cancelled.  From the same invariant `RaceWonOnce` shows, action by
action, that each attempt implements `CommitOrCancel`.  These four assume `OneAttemptPerRun`: with two attempts
on one run id the second replaces the first's registration, and its boundary is no longer its own.

**ContinuationProofs.**  `SafeInv` (a transaction that will succeed holds the current record; the
record's key and run id are those of everyone who holds, joined or ran the ticket) is inductive and
gives `OneRunner`, `FaithfulReplay` and, with one lemma per action, `Refinement`: the record implements
`SingleUseContinuation`.  They hold for unbound replies and duplicate deliveries too, which the runs
leave out.  `HolderSafe` and `AnswerStored` assume `ShortTurns` (turns shorter than the lease, no
duplicate deliveries); `LeaseInv` says that a lease starts after the budget of its holder, so nobody
fails a claim in its turn.  `FailureSettles` (`FailedTurnSettles`) assumes no timing: `FailInv` says that a
turn which failed did run, and either is on its way to fail its claim or leaves a ticket that is
settled, which the refinement says stays settled.

**AskStreamProofs.**  `QueueInv` says the queue holds the numbers the validator expects next and a
terminal frame only at its end, behind a producer that is done; `WireInv` ties the wire to the
validator.  They give `SequenceAccepted`, `TerminalOnce`, `ProducerJoined` and `ContractKept`, which
shows that the stream implements `StreamContract`.  `BufferKept` (`BufferBounded`) is an induction over
the length of a queue, from the well-ordering of the naturals (`NatInduct`): what `put` adds and `get`
takes of a sum of sizes, and that the producer waits or refuses where one more frame would not fit.  `LedgerInv` (the record is committed where the
task ends) gives `LedgerOnce`, `ShownAgrees` and `CaptureWins`.

**CoordinatorProofs.**  The invariant bounds each counter by the node: a call in hand was allowed when it
was decided, so its counter was below its limit, and the outcomes of each kind never exceed the counter
that `Count` keeps for them.  Actions and outcomes correspond one to one, and the published draft passed
the rules on the outcomes it was judged by.

**BusinessOperationProofs.**  The invariant says who may hold a row: a staged row is free to its
operation, a durable one of an answer came with the commit that made the record, and an attempt is
written by its starter until its epoch moves.  It gives the journal, durability, evidence and
answered-once theorems.

**QueryRecordProofs.**  Every delivery's fields belong together (`DeliveriesGood`), and the row is
pending until the first of them is written; a task that is gathered before a late write has left the
row.  `SealInv` says that the seal is alone while it writes, that it finds its columns empty, and that a
task behind it reads them taken: `SealSafe` (`SealKept`) bounds the first-write finding above to the
answer's task and the timeout's.  `SealSafe` and `PriceSafe` are proved and no run repeats them.

**ThreadMemoryProofs.**  `IInv` says that while a WATCH holds the writer's copy is the record and its
owner's (`Watched`), that a rebuild's turns are kept exchanges no older than the start it carries
(`Restored`, `KeptRows`, `Times`), and that the record holds only exchanges of turns that are done with
it (`Held`).  It gives `OwnSafe`, `SoundSafe` and `LogImplemented`: every `Execute` is a `Begin` or an
`Extend` of `ThreadLog` and every other step a `Lose`, a `Pass` or a stutter.

**Only model-checked.**  Liveness (`CancelEventuallyStops`, `EveryReplyAnswered`,
`EveryStreamConcludes`): the prover does not reason about fairness and ENABLED.  The counterexamples are
TLC's.  Every other property of a run is a theorem.

## Not modelled

The in-memory variants of the registry, the stores and the sinks (one process, no await between a read
and its write); the reconnection of pub/sub; Redis as anything but a store that executes one command
or transaction at a time, or raises; the contents of answers, tables and prompts; the older
continuation pair of `ask_stream.py`; result pages and the case-repeat journal, which keep the
contracts of the path that is modelled; `replace_latest_exchange`, `claim_recovery`'s scheduler,
`purge_before` and `delete_by_subject_digest`, which nothing under `src/` reaches; admission of
concurrent turns against the account budget, whose overspend only the load bounds; and the selections
and SQL receipts of a query.  Planning, authorization, compilation and presentation (the larger part of
the lines) are pure translations over a large schema: their correctness is what golden tests compare,
and a model of them would repeat them.

## Plan

1. `EvidenceSnapshot`: seal, tombstone, expiry and restore, with the transcript it belongs to: a turn
   cancelled between its seal and its exchange.
2. `Breaker` and `BoundedExecutor`: old results in a new state, a shutdown in the middle of a submit.
3. The browser's turn state against `StreamContract`.
4. `QueryRecord` composed with `ThreadMemory` through the rows.
