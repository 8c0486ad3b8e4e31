---------------------------- MODULE QueryRecord ----------------------------
(***************************************************************************)
(* The Query Record of one correlation: its reservation, the terminal       *)
(* writes of a turn (the Answered projection, the attempt's own terminal    *)
(* and a timeout's), each a transaction that inserts the row or reconciles  *)
(* the one it meets, and the late writes of feedback and client timings.    *)
(*                                                                          *)
(* Postgres is READ COMMITTED: an insert that meets the row reads it in a   *)
(* statement of its own and updates it in a third, and the columns of       *)
(* another transaction may be committed in between.  A late write commits   *)
(* between two reads of its own.                                            *)
(***************************************************************************)
EXTENDS Integers, FiniteSets

CONSTANTS
    Timings, Feedbacks, \* late writes: client timings, feedback
    Local,              \* late writes received by the worker that runs the turn
    Polls,              \* a late write's polls for the row
    HighestRate,        \* highest_rate_per_1k
    MaxReservations     \* bound

ASSUME RecordAssumption ==
    /\ Timings \cap Feedbacks = {} /\ Local \subseteq Timings \cup Feedbacks
    /\ (Timings \cup Feedbacks) \cap {"seal", "answer", "timeout", "none"} = {}
    /\ Polls \in Nat /\ MaxReservations \in Nat
    /\ HighestRate \in Nat /\ HighestRate >= 1

VARIABLES
    row,            \* the committed row
    reservations,   \* reserve_execution calls so far
    write,          \* where each terminal write stands
    payload,        \* what it delivers
    existing,       \* the row it read, until it is over
    late,           \* where each late write stands
    pending,        \* the tasks its await_pending_writes gathered
    polls,          \* its polls so far
    before,         \* the row it read before its update, while it has one
    ahead           \* history: the tasks scheduled before it came

vars == <<row, reservations, write, payload, existing, late, pending, polls,
          before, ahead>>

Tasks == {"answer", "timeout"}      \* fire-and-forget
Terminals == {"seal"} \cup Tasks    \* the seal is awaited by its turn
Lates == Timings \cup Feedbacks

\* A column holds "none", or 0, while it is NULL.  Completion time and context
\* mode are named by the delivery that wrote them; a model and its provider by
\* the delivery that names the pair.
NoRow == [outcome |-> "absent"]
Rows == [outcome : {"pending", "success", "error"},
         model : Terminals \cup {"none"}, provider : Terminals \cup {"none"},
         tokens : 0 .. 2, price : 0 .. 2, status : {"none", "complete", "unknown"},
         latency : Terminals \cup Timings \cup {"none"},
         mode : Terminals \cup {"none"}, feedback : Feedbacks \cup {"none"}]

Pending == [outcome |-> "pending", model |-> "none", provider |-> "none",
            tokens |-> 0, price |-> 0, status |-> "none", latency |-> "none",
            mode |-> "none", feedback |-> "none"]

Deliver(w, outcome, model, tokens, price) ==
    [outcome |-> outcome, model |-> model, provider |-> model,
     tokens |-> tokens, price |-> price,
     status |-> IF price = 0 THEN "unknown" ELSE "complete",
     latency |-> w, mode |-> w, feedback |-> "none"]

\* build_query_record: a price comes with the tokens that were priced, and what
\* has no price is unknown.  The seal prices its one call by that call's model;
\* the turn's price is its ledger's, which may rank no model.
Deliveries(w) ==
    CASE w = "seal" -> {Deliver(w, "success", w, 1, 1), Deliver(w, "success", w, 1, 0),
                        Deliver(w, "success", "none", 1, 0)}
      [] w = "answer" -> {Deliver(w, "success", m, 2, p) : m \in {w, "none"}, p \in {0, 2}}
                         \cup {Deliver(w, "error", w, 2, 2), Deliver(w, "error", "none", 0, 0)}
      [] w = "timeout" -> {Deliver(w, "error", "none", 0, 0)}

Init ==
    /\ row = NoRow /\ reservations = 0
    /\ write = [w \in Terminals |-> "idle"]
    /\ payload = [w \in Terminals |-> NoRow]
    /\ existing = [w \in Terminals |-> NoRow]
    /\ late = [l \in Lates |-> "idle"]
    /\ pending = [l \in Lates |-> {}]
    /\ polls = [l \in Lates |-> 0]
    /\ before = [l \in Lates |-> NoRow]
    /\ ahead = [l \in Lates |-> {}]
-----------------------------------------------------------------------------
(* The reservation, which is fail-open: it may not have come at all, and    *)
(* comes again with a run id that is sent again.                            *)

\* The slip upserts.
Reserved_Upsert == Pending
Reserved == IF row = NoRow THEN Pending ELSE row

ReserveExecution ==
    /\ reservations < MaxReservations
    /\ reservations' = reservations + 1
    /\ row' = Reserved
    /\ UNCHANGED <<write, payload, existing, late, pending, polls, before, ahead>>
-----------------------------------------------------------------------------
(* The terminal writes.                                                     *)

InFlight(w) == write[w] \in {"task", "read"}

\* One turn: it awaits its seal before it schedules its terminal, and a budget
\* that ended schedules the timeout behind that.
Schedule(w) ==
    /\ write[w] = "idle" /\ ~InFlight("seal")
    /\ w \in {"seal", "answer"} => write["timeout"] = "idle"
    /\ w = "seal" => write["answer"] = "idle"
    /\ \E p \in Deliveries(w) : payload' = [payload EXCEPT ![w] = p]
    /\ write' = [write EXCEPT ![w] = "task"]
    /\ UNCHANGED <<row, reservations, existing, late, pending, polls, before, ahead>>

\* INSERT ... ON CONFLICT DO NOTHING, and the read behind it.
Insert(w) ==
    /\ write[w] = "task"
    /\ IF row = NoRow
       THEN /\ row' = payload[w]
            /\ write' = [write EXCEPT ![w] = "done"]
            /\ UNCHANGED existing
       ELSE /\ existing' = [existing EXCEPT ![w] = row]
            /\ write' = [write EXCEPT ![w] = "read"]
            /\ UNCHANGED row
    /\ UNCHANGED <<reservations, payload, late, pending, polls, before, ahead>>

\* _reconcilable_values: terminal columns are refreshed with what the delivery
\* has, others are completed.  "now" is the row the update meets, "old" the one
\* that chose the columns.
Refreshed(new, old, now) ==
    [now EXCEPT !.outcome = new.outcome, !.status = new.status, !.latency = new.latency,
                !.model = IF new.model = "none" THEN now.model ELSE new.model,
                !.provider = IF new.model = "none" THEN now.provider ELSE new.provider,
                !.mode = IF old.mode = "none" THEN new.mode ELSE now.mode]

\* A delivery without a price says "unknown", which withdraws the price; one
\* without tokens leaves them.  The slip empties the tokens.
Reconciled_EmptyTokens(new, old, now) ==
    [Refreshed(new, old, now) EXCEPT !.tokens = new.tokens, !.price = new.price]
Reconciled(new, old, now) ==
    [Refreshed(new, old, now) EXCEPT !.tokens = IF new.tokens = 0 THEN @ ELSE new.tokens,
                                     !.price = new.price]

Reconcile(w) ==
    /\ write[w] = "read"
    /\ row' = Reconciled(payload[w], existing[w], row)
    /\ write' = [write EXCEPT ![w] = "done"]
    /\ existing' = [existing EXCEPT ![w] = NoRow]
    /\ UNCHANGED <<reservations, payload, late, pending, polls, before, ahead>>

\* Counted and logged; a seal that fails withholds its answer.
WriteFails(w) ==
    /\ InFlight(w)
    /\ write' = [write EXCEPT ![w] = "failed"]
    /\ existing' = [existing EXCEPT ![w] = NoRow]
    /\ UNCHANGED <<row, reservations, payload, late, pending, polls, before, ahead>>
-----------------------------------------------------------------------------
(* The late writes.                                                         *)

\* await_pending_writes gathers this process' tasks; the slips gather none, or
\* whatever writes.
Gathered_None(l) == {}
Gathered_Seal(l) == IF l \in Local THEN {w \in Terminals : InFlight(w)} ELSE {}
Gathered(l) == IF l \in Local THEN {w \in Tasks : InFlight(w)} ELSE {}

LateArrives(l) ==
    /\ late[l] = "idle"
    /\ late' = [late EXCEPT ![l] = "polling"]
    /\ pending' = [pending EXCEPT ![l] = Gathered(l)]
    /\ ahead' = [ahead EXCEPT ![l] = {w \in Tasks : write[w] # "idle"}]
    /\ UNCHANGED <<row, reservations, write, payload, existing, polls, before>>

\* A poll opens a session of its own and reads the row; without one it gathers
\* again, until it has polled often enough.
LatePolls(l) ==
    /\ late[l] = "polling" /\ \A w \in pending[l] : ~InFlight(w)
    /\ IF row = NoRow
       THEN /\ polls' = [polls EXCEPT ![l] = @ + 1]
            /\ late' = [late EXCEPT ![l] = IF polls[l] + 1 < Polls THEN "polling" ELSE "missed"]
            /\ pending' = [pending EXCEPT ![l] = Gathered(l)]
            /\ UNCHANGED before
       ELSE /\ before' = [before EXCEPT ![l] = row]
            /\ late' = [late EXCEPT ![l] = "found"]
            /\ pending' = [pending EXCEPT ![l] = {}]
            /\ UNCHANGED polls
    /\ UNCHANGED <<row, reservations, write, payload, existing, ahead>>

LateRow(l) ==
    IF l \in Timings THEN [row EXCEPT !.latency = l] ELSE [row EXCEPT !.feedback = l]

LateUpdates(l) ==
    /\ late[l] = "found"
    /\ row' = LateRow(l)
    /\ late' = [late EXCEPT ![l] = "committed"]
    /\ UNCHANGED <<reservations, write, payload, existing, pending, polls, before, ahead>>

\* Its own columns aside, the row must be the one it read.
SameElse(l) ==
    IF l \in Timings THEN [row EXCEPT !.latency = before[l].latency] = before[l]
                     ELSE [row EXCEPT !.feedback = before[l].feedback] = before[l]

LateChecks(l) ==
    /\ late[l] = "committed"
    /\ late' = [late EXCEPT ![l] = IF SameElse(l) THEN "stored" ELSE "failed"]
    /\ before' = [before EXCEPT ![l] = NoRow]
    /\ UNCHANGED <<row, reservations, write, payload, existing, pending, polls, ahead>>

LateFails(l) ==
    /\ late[l] \in {"polling", "found", "committed"}
    /\ late[l] = "polling" => \A w \in pending[l] : ~InFlight(w)
    /\ late' = [late EXCEPT ![l] = "failed"]
    /\ before' = [before EXCEPT ![l] = NoRow]
    /\ UNCHANGED <<row, reservations, write, payload, existing, pending, polls, ahead>>

WriteStep(w) == Schedule(w) \/ Insert(w) \/ Reconcile(w) \/ WriteFails(w)
LateStep(l) == LateArrives(l) \/ LatePolls(l) \/ LateUpdates(l) \/ LateChecks(l)
               \/ LateFails(l)

Next ==
    \/ ReserveExecution
    \/ \E w \in Terminals : WriteStep(w)
    \/ \E l \in Lates : LateStep(l)

Spec == Init /\ [][Next]_vars
-----------------------------------------------------------------------------
(* Properties.                                                              *)

TypeOK ==
    /\ row \in Rows \cup {NoRow} /\ reservations \in Nat
    /\ write \in [Terminals -> {"idle", "task", "read", "done", "failed"}]
    /\ payload \in [Terminals -> Rows \cup {NoRow}]
    /\ existing \in [Terminals -> Rows \cup {NoRow}]
    /\ late \in [Lates -> {"idle", "polling", "found", "committed", "stored", "missed", "failed"}]
    /\ pending \in [Lates -> SUBSET Tasks]
    /\ polls \in [Lates -> Nat]
    /\ before \in [Lates -> Rows \cup {NoRow}]
    /\ ahead \in [Lates -> SUBSET Tasks]

Written == {w \in Terminals : write[w] = "done"}

\* Once a terminal was written, in whatever order with reservations and other
\* terminals, the row shows the outcome of one, with the provider of the call
\* that named its model (insert, _reconcilable_values).
Settled ==
    Written # {} =>
        /\ \E w \in Written : row.outcome = payload[w].outcome
        /\ row.model = row.provider
        /\ row.model # "none" => \E w \in Written : payload[w].model = row.model

\* "the row never pairs a price with 'unknown'" (_reconcilable_values), whatever
\* order the deliveries come in and whatever each of them read.
PriceJudged == row # NoRow => (row.price # 0 <=> row.status = "complete")

\* What the account budget's gate charges for the row (AccountBudgetGate.admit).
Charge(r) == IF r.price # 0 THEN r.price ELSE r.tokens * HighestRate

\* A terminal that withdraws a price never makes the turn cheaper to its
\* account: the tokens that were priced stay.
WithdrawnStillCharged ==
    [][row # NoRow /\ row.price # 0 /\ row'.price = 0 => Charge(row') >= row.price]_vars

\* A late write on the turn's own worker comes behind every terminal scheduled
\* before it: it is not missed when one of them was written, and client timings
\* it stored are not replaced by theirs (await_pending_writes).
LateFollowsTasks ==
    \A l \in Local :
        /\ late[l] = "missed" => ahead[l] \cap Written = {}
        /\ late[l] = "stored" /\ l \in Timings => row.latency \notin ahead[l]

\* "a value already recorded stays first-write immutable" (insert).
FirstWriteKept == [][row # NoRow /\ row.mode # "none" => row'.mode = row.mode]_vars

\* What remains of it: the seal is awaited before the turn schedules another
\* terminal, so a sealed answer keeps what it recorded first; only the answer's
\* task and a timeout's can meet (stage_answered_write, insert).
SealKept == write["seal"] = "done" => row.mode = "seal"

\* The seal is alone while it writes, and reads a column that is still empty;
\* who reads the row behind it finds the column taken.
Unset == row = NoRow \/ row.mode = "none"
SealInv ==
    /\ InFlight("seal") => \A w \in Tasks : write[w] = "idle"
    /\ write["seal"] # "done" /\ (\A w \in Tasks : write[w] = "idle") => Unset
    /\ write["seal"] = "read" => existing["seal"].mode = "none"
    /\ write["seal"] = "done" =>
           /\ row # NoRow /\ row.mode = "seal"
           /\ \A w \in Tasks : write[w] = "read" => existing[w].mode = "seal"
=============================================================================
