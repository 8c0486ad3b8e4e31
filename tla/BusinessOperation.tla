------------------------- MODULE BusinessOperation --------------------------
(***************************************************************************)
(* One business query from its plan to its answer, as PreparedBqOperation   *)
(* owns it: a session of the Query Record store in which the planner keeps  *)
(* its attempts, each stage committed on its own, and the evidence and the  *)
(* Query Record of the answer are staged and committed together.            *)
(*                                                                          *)
(* Operations meet in the store: a request sent again with its run id has   *)
(* the correlation of the first, one sent again with its public key only    *)
(* the answer query ids.  An attempt's lease may be taken over.             *)
(***************************************************************************)
EXTENDS Integers

CONSTANTS
    Ops,            \* operations of one request and of its repetitions
    Correlations,
    Members,        \* the largest planned set: a primary and its companions
    MaxRepairs,     \* repairs of one plan, of the protocol or of its meaning
    MaxEpoch        \* bound on takeovers

ASSUME OperationAssumption ==
    /\ Members \in Nat /\ Members >= 1
    /\ MaxRepairs \in Nat
    /\ MaxEpoch \in Nat /\ MaxEpoch >= 1
    /\ "none" \notin Ops

VARIABLES
    journal,        \* planner attempts: started, response_committed, terminal
    epoch,          \* their leases' epochs
    durable,        \* committed rows, with who wrote them
    staged,         \* rows written in a session and not committed
    correlation,
    at,             \* where an operation stands
    patched,        \* it continues a stored plan, without the planner
    call,           \* planner_call_index
    ending,         \* how the attempt in hand is to end
    count,          \* plans of the prepared set
    member,         \* the ordinal in hand
    broken,         \* a statement failed: the session takes no other
    result

ops == <<correlation, at, patched, call, ending, count, member, broken, result>>
vars == <<journal, epoch, durable, staged, ops>>

Calls == 0 .. MaxRepairs
Kinds == {"event", "plan", "lookup", "record"}
Row(kind, scope, ordinal) == <<kind, scope, ordinal>>

\* Answer query ids derive from the request's key, a patched primary's from the
\* plan it continues; resolver ids and the record from the correlation.
Answer(o) == IF patched[o] THEN "patch" ELSE "set"
Event(o, m) == Row("event", Answer(o), m)
StoredPlan(o, m) == Row("plan", Answer(o), m)
Lookup(o, m) == Row("lookup", correlation[o], m)
Record(o) == Row("record", correlation[o], 0)
Rows == Kinds \X (Correlations \cup {"patch", "set"}) \X (0 .. Members)

Classes == {"completed", "planner_protocol", "planner_semantic", "provider_error",
            "cancelled", "completion_unknown"}
Attempt == [owner : Ops \cup {"none"}, response : BOOLEAN,
            terminal : Classes \cup {"none"}, stamp : 0 .. MaxEpoch]
NoAttempt == [owner |-> "none", response |-> FALSE, terminal |-> "none", stamp |-> 0]

\* How a call of the model ends: whether a response is committed, the terminal,
\* and what follows.  A provider's error stands for its timeout too.
Ending(response, terminal, next) ==
    [response |-> response, terminal |-> terminal, next |-> next]
GivenUp == Ending(FALSE, "provider_error", "refused")
Endings == {Ending(TRUE, "completed", "prepared"),      \* a plan
            Ending(TRUE, "completed", "refused"),       \* a clarification, unsupported
            Ending(TRUE, "planner_protocol", "repair"),
            Ending(TRUE, "planner_semantic", "repair"),
            Ending(TRUE, "planner_protocol", "refused"),
            Ending(FALSE, "planner_protocol", "refused"),
            GivenUp,
            Ending(FALSE, "cancelled", "refused"),      \* the step's ceiling
            Ending(FALSE, "cancelled", "stopped")}      \* the turn's end

Points == {"idle", "resolve", "start", "ask", "respond", "finish", "member", "query",
           "seal", "plan", "record", "commit", "over"}
Results == {"none", "answered", "refused", "conflict", "stopped"}

Init ==
    /\ journal = [k \in Correlations |-> [c \in Calls |-> NoAttempt]]
    /\ epoch = [k \in Correlations |-> [c \in Calls |-> 1]]
    /\ durable = {} /\ staged = {}
    /\ correlation \in [Ops -> Correlations]
    /\ at = [o \in Ops |-> "idle"]
    /\ patched = [o \in Ops |-> FALSE]
    /\ call = [o \in Ops |-> 0]
    /\ ending = [o \in Ops |-> GivenUp]
    /\ count = [o \in Ops |-> 1]
    /\ member = [o \in Ops |-> 1]
    /\ broken = [o \in Ops |-> FALSE]
    /\ result = [o \in Ops |-> "none"]

Goto(o, p) == at' = [at EXCEPT ![o] = p]
Staged(o) == {w \in staged : w[2] = o}

\* An insert waits for another transaction that has the row.
Free(o, row) == \A w \in staged : w[1] = row => w[2] = o
Written(row) == \E w \in durable : w[1] = row

\* aclose: what is staged is rolled back, the session and the scope exit.
Over(o, r) ==
    /\ Goto(o, "over")
    /\ result' = [result EXCEPT ![o] = r]
    /\ staged' = staged \ Staged(o)
    /\ UNCHANGED <<correlation, patched, call, ending, count, member, broken>>
-----------------------------------------------------------------------------
(* prepare: the session, the stored plan a patch continues, the planner.    *)

Prepare(o) ==
    /\ at[o] = "idle"
    /\ Goto(o, "resolve")
    /\ UNCHANGED <<journal, epoch, durable, staged, correlation, patched, call,
                   ending, count, member, broken, result>>

ContinueWithPatch(o) ==
    /\ at[o] = "resolve"
    /\ Goto(o, "member")
    /\ patched' = [patched EXCEPT ![o] = TRUE]
    /\ UNCHANGED <<journal, epoch, durable, staged, correlation, call, ending, count,
                   member, broken, result>>

PlanRound(o) ==
    /\ at[o] = "resolve"
    /\ Goto(o, "start")
    /\ UNCHANGED <<journal, epoch, durable, staged, correlation, patched, call,
                   ending, count, member, broken, result>>
-----------------------------------------------------------------------------
(* The planner and its journal.  Nothing is staged while it runs.           *)

TheAttempt(o) == journal[correlation[o]][call[o]]
Journalled(o, a) == journal' = [journal EXCEPT ![correlation[o]][call[o]] = a]
Started(o) == [NoAttempt EXCEPT !.owner = o]

\* sink.start: the row of another operation has another digest.
StartAttempt(o) ==
    /\ at[o] = "start"
    /\ IF TheAttempt(o).owner = "none"
       THEN /\ Journalled(o, Started(o))
            /\ Goto(o, "ask")
            /\ UNCHANGED <<staged, correlation, patched, call, ending, count, member,
                           broken, result>>
       ELSE Over(o, "conflict") /\ UNCHANGED journal
    /\ UNCHANGED <<epoch, durable>>

\* The slip repairs without end.
MayRepair_Always(o) == TRUE
MayRepair(o) == call[o] < MaxRepairs

Ask(o) ==
    /\ at[o] = "ask"
    /\ \E e \in Endings :
        /\ e.next = "repair" => MayRepair(o)
        /\ ending' = [ending EXCEPT ![o] = e]
        /\ Goto(o, IF e.response THEN "respond" ELSE "finish")
    /\ UNCHANGED <<journal, epoch, durable, staged, correlation, patched, call, count,
                   member, broken, result>>

\* _append: the caller's epoch is the lease's, and no terminal is there.  A
\* completed attempt has a response, one of unknown completion has none.  The
\* slip lets an owner write that has lost its lease.
Appendable_Stale(k, c, e) == journal[k][c].terminal = "none"
Appendable(k, c, e) == epoch[k][c] = e /\ journal[k][c].terminal = "none"

Terminable(k, c, e, class) ==
    /\ Appendable(k, c, e)
    /\ class = "completed" => journal[k][c].response
    /\ class = "completion_unknown" => ~journal[k][c].response

\* An operation holds its attempt at the first epoch.
MayAppend(o) == Appendable(correlation[o], call[o], 1)
MayFinish(o) == Terminable(correlation[o], call[o], 1, ending[o].terminal)
Responded(o) == [TheAttempt(o) EXCEPT !.response = TRUE]
Finished(o) == [TheAttempt(o) EXCEPT !.terminal = ending[o].terminal, !.stamp = 1]

CommitResponse(o) ==
    /\ at[o] = "respond"
    /\ IF MayAppend(o)
       THEN /\ Journalled(o, Responded(o))
            /\ Goto(o, "finish")
            /\ UNCHANGED <<staged, correlation, patched, call, ending, count, member,
                           broken, result>>
       ELSE Over(o, "conflict") /\ UNCHANGED journal
    /\ UNCHANGED <<epoch, durable>>

\* What follows a terminal: the prepared set, the next attempt, or an end.
Follow(o) ==
    CASE ending[o].next = "prepared" ->
            /\ Goto(o, "member")
            /\ \E n \in 1 .. Members : count' = [count EXCEPT ![o] = n]
            /\ UNCHANGED <<staged, correlation, patched, call, ending, member, broken, result>>
      [] ending[o].next = "repair" ->
            /\ Goto(o, "start")
            /\ call' = [call EXCEPT ![o] = @ + 1]
            /\ UNCHANGED <<staged, correlation, patched, ending, count, member, broken, result>>
      [] OTHER -> Over(o, ending[o].next)

\* Refused, an attempt that was cut ends as it would have; a turn without a
\* bound is told of the conflict instead.
FinishAttempt(o) ==
    /\ at[o] = "finish"
    /\ IF MayFinish(o)
       THEN Journalled(o, Finished(o)) /\ Follow(o)
       ELSE /\ UNCHANGED journal
            /\ \E r \in {"conflict"} \cup
                        (IF ending[o].terminal = "cancelled" THEN {ending[o].next} ELSE {}) :
                    Over(o, r)
    /\ UNCHANGED <<epoch, durable>>

\* A statement of the journal fails or is cut, and its commit may have landed.
\* The repair of a plan's meaning runs inside the handler of a failed call,
\* which finishes the attempt it still names: after its terminal, a conflict.
Semantic(o) == ending[o].terminal = "planner_semantic"
Landed(o) ==
    \/ UNCHANGED journal
    \/ at[o] = "start" /\ TheAttempt(o).owner = "none" /\ Journalled(o, Started(o))
    \/ at[o] = "respond" /\ MayAppend(o) /\ Journalled(o, Responded(o))
    \/ at[o] = "finish" /\ MayFinish(o) /\ Journalled(o, Finished(o))

JournalBreaks(o) ==
    /\ at[o] \in {"start", "respond", "finish"}
    /\ Landed(o)
    /\ \E r \in {"refused", "stopped"} \cup (IF Semantic(o) THEN {"conflict"} ELSE {}) :
            Over(o, r)
    /\ UNCHANGED <<epoch, durable>>

GiveUp(o) ==
    /\ at[o] \in {"respond", "finish"} /\ Semantic(o)
    /\ Landed(o)
    /\ Goto(o, "finish")
    /\ ending' = [ending EXCEPT ![o] = GivenUp]
    /\ UNCHANGED <<epoch, durable, staged, correlation, patched, call, count, member,
                   broken, result>>
-----------------------------------------------------------------------------
(* claim_recovery of an expired lease, and the terminal of who claimed it.  *)

ClaimRecovery(k, c) ==
    /\ journal[k][c].owner # "none" /\ journal[k][c].terminal = "none"
    /\ epoch[k][c] < MaxEpoch
    /\ epoch' = [epoch EXCEPT ![k][c] = @ + 1]
    /\ UNCHANGED <<journal, durable, staged, ops>>

RecoveryFinish(k, c) ==
    \E e \in 2 .. MaxEpoch, class \in {"completed", "completion_unknown"} :
        /\ e <= epoch[k][c] /\ Terminable(k, c, e, class)
        /\ journal' = [journal EXCEPT ![k][c] = [@ EXCEPT !.terminal = class, !.stamp = e]]
        /\ UNCHANGED <<epoch, durable, staged, ops>>
-----------------------------------------------------------------------------
(* execute: each member resolves its lookup, runs and is sealed.            *)

Committed(o) == durable \cup Staged(o)

ResolveNone(o) ==
    /\ at[o] = "member"
    /\ Goto(o, "query")
    /\ UNCHANGED <<journal, epoch, durable, staged, correlation, patched, call,
                   ending, count, member, broken, result>>

\* The start of a lookup is journalled before it runs, and commits what the
\* session has staged.  A second start of the same lookup is a replay.
WithLookup(o) ==
    Committed(o) \cup (IF Written(Lookup(o, member[o])) THEN {}
                       ELSE {<<Lookup(o, member[o]), o>>})

CommitResolverStarted(o) ==
    /\ at[o] = "member"
    /\ Free(o, Lookup(o, member[o]))
    /\ IF broken[o]
       THEN Over(o, "refused") /\ UNCHANGED durable
       ELSE /\ durable' = WithLookup(o)
            /\ staged' = staged \ Staged(o)
            /\ Goto(o, "query")
            /\ UNCHANGED <<correlation, patched, call, ending, count, member, broken, result>>
    /\ UNCHANGED <<journal, epoch>>

\* It is cut, and may have been committed.
ResolverStartCut(o) ==
    /\ at[o] = "member" /\ ~broken[o]
    /\ Free(o, Lookup(o, member[o]))
    /\ durable' = WithLookup(o)
    /\ \E r \in {"refused", "stopped"} : Over(o, r)
    /\ UNCHANGED <<journal, epoch>>

RunAdapters(o) ==
    /\ at[o] = "query"
    /\ Goto(o, "seal")
    /\ UNCHANGED <<journal, epoch, durable, staged, correlation, patched, call,
                   ending, count, member, broken, result>>

\* event_store.append: another operation's event of this id differs in its
\* digest, and the session is rolled back.  The slips take any event of the id
\* for this one, commit the event at once, and go on without it.
Sealable_AnyDigest(o) == ~broken[o]
Sealable(o) == ~broken[o] /\ ~Written(Event(o, member[o]))

Sealed_Committed(o) ==
    /\ durable' = durable \cup {<<Event(o, member[o]), o>>}
    /\ UNCHANGED staged
Sealed_Lost(o) == UNCHANGED <<durable, staged>>
Sealed(o) ==
    /\ staged' = staged \cup {<<Event(o, member[o]), o>>}
    /\ UNCHANGED durable

Append(o) ==
    /\ at[o] = "seal"
    /\ Free(o, Event(o, member[o]))
    /\ IF Sealable(o)
       THEN /\ Sealed(o)
            /\ Goto(o, "plan")
            /\ UNCHANGED <<correlation, patched, call, ending, count, member, broken, result>>
       ELSE Over(o, "refused") /\ UNCHANGED durable
    /\ UNCHANGED <<journal, epoch>>

NextMember(o) ==
    IF member[o] < count[o]
    THEN Goto(o, "member") /\ member' = [member EXCEPT ![o] = @ + 1]
    ELSE Goto(o, "record") /\ UNCHANGED member

\* The plan is stored beside its event, the first writer's kept.  Its failure
\* is logged, and leaves a session that takes no other statement.
SavePlan(o) ==
    /\ at[o] = "plan"
    /\ \/ UNCHANGED <<staged, broken>>
       \/ /\ ~Written(StoredPlan(o, member[o])) /\ Free(o, StoredPlan(o, member[o]))
          /\ staged' = staged \cup {<<StoredPlan(o, member[o]), o>>}
          /\ UNCHANGED broken
       \/ broken' = [broken EXCEPT ![o] = TRUE] /\ UNCHANGED staged
    /\ NextMember(o)
    /\ UNCHANGED <<journal, epoch, durable, correlation, patched, call, ending, count,
                   result>>

\* persist_answered_query_record: without it the answer is withheld.
WriteRecord(o) ==
    /\ at[o] = "record"
    /\ Free(o, Record(o))
    /\ IF broken[o]
       THEN Over(o, "refused")
       ELSE /\ staged' = staged \cup {<<Record(o), o>>}
            /\ Goto(o, "commit")
            /\ UNCHANGED <<correlation, patched, call, ending, count, member, broken, result>>
    /\ UNCHANGED <<journal, epoch, durable>>

\* The stack closes, and the session commits on its exit.
Commit(o) ==
    /\ at[o] = "commit"
    /\ durable' = Committed(o)
    /\ Over(o, "answered")
    /\ UNCHANGED <<journal, epoch>>

\* The budget ends in it, or the connection does: whether it landed is not
\* known.  No attempt id was bound before the planner ran, so none is marked.
CommitBreaks(o) ==
    /\ at[o] = "commit"
    /\ durable' \in {durable, Committed(o)}
    /\ Over(o, "stopped")
    /\ UNCHANGED <<journal, epoch>>

\* Any stage may refuse (denied, not found, a failed store) or raise.
End(o) ==
    /\ at[o] \in {"resolve", "member", "query", "seal", "plan", "record"}
    /\ \E r \in {"refused", "stopped"} : Over(o, r)
    /\ UNCHANGED <<journal, epoch, durable>>
-----------------------------------------------------------------------------
PlannerStep(o) ==
    \/ StartAttempt(o) \/ Ask(o) \/ CommitResponse(o) \/ FinishAttempt(o)
    \/ JournalBreaks(o) \/ GiveUp(o)
ExecuteStep(o) ==
    \/ ResolveNone(o) \/ CommitResolverStarted(o) \/ ResolverStartCut(o)
    \/ RunAdapters(o) \/ Append(o) \/ SavePlan(o) \/ WriteRecord(o)
    \/ Commit(o) \/ CommitBreaks(o)
Next ==
    \/ \E o \in Ops :
        \/ Prepare(o) \/ ContinueWithPatch(o) \/ PlanRound(o)
        \/ PlannerStep(o) \/ ExecuteStep(o) \/ End(o)
    \/ \E k \in Correlations, c \in Calls : ClaimRecovery(k, c) \/ RecoveryFinish(k, c)

Spec == Init /\ [][Next]_vars
-----------------------------------------------------------------------------
\* Attempts, rows and operations have their types.
TypeOK ==
    /\ journal \in [Correlations -> [Calls -> Attempt]]
    /\ epoch \in [Correlations -> [Calls -> 1 .. MaxEpoch]]
    /\ durable \subseteq Rows \X Ops /\ staged \subseteq Rows \X Ops
    /\ correlation \in [Ops -> Correlations] /\ at \in [Ops -> Points]
    /\ patched \in [Ops -> BOOLEAN] /\ call \in [Ops -> Calls]
    /\ ending \in [Ops -> Endings]
    /\ count \in [Ops -> 1 .. Members] /\ member \in [Ops -> 1 .. Members]
    /\ broken \in [Ops -> BOOLEAN] /\ result \in [Ops -> Results]

Repairs == {"planner_protocol", "planner_semantic"}

\* A repair's attempt is started by the operation that closed the one before it
\* with a response and a repairable terminal, at its own epoch: no takeover and
\* no second operation comes between.  An attempt that was taken over is ended
\* by who holds it (_rotate_attempt_for_repair, _append, claim_recovery).
JournalKept ==
    \A k \in Correlations, c \in Calls :
        LET a == journal[k][c]  before == journal[k][c - 1] IN
        /\ c > 0 /\ a.owner # "none" =>
              /\ before.owner = a.owner /\ before.response
              /\ before.terminal \in Repairs /\ before.stamp = 1
        /\ a.terminal = "completed" => a.response
        /\ a.terminal = "completion_unknown" => ~a.response
        /\ a.terminal # "none" => a.owner # "none" /\ a.stamp = epoch[k][c]

HasRecord(o) == <<Record(o), o>> \in durable
HasEvents(o) == \A m \in 1 .. count[o] : <<Event(o, m), o>> \in durable

\* An answer that was shown is durable with its record; a record is durable
\* with the evidence of every member and, when it was planned, behind an
\* attempt its own planner completed; and no operation whose record is durable
\* was refused (PreparedBqOperation.execute).
AnswerDurable ==
    \A o \in Ops :
        /\ result[o] = "answered" => HasRecord(o)
        /\ HasRecord(o) =>
              /\ HasEvents(o) /\ result[o] \in {"answered", "stopped"}
              /\ ~patched[o] => /\ TheAttempt(o).owner = o
                                /\ TheAttempt(o).terminal = "completed"
                                /\ TheAttempt(o).stamp = 1

\* Evidence is durable with the record of its answer, or else the start of a
\* later member's lookup committed it: the one way in which a refused answer
\* leaves evidence behind.  A stored plan is never without its evidence
\* (abort_unanswered_uow, append_resolver_started).
EvidenceKept ==
    \A o \in Ops, m \in 1 .. Members :
        /\ <<Event(o, m), o>> \in durable =>
              \/ HasRecord(o)
              \/ \E n \in (m + 1) .. Members : Written(Lookup(o, n))
        /\ <<StoredPlan(o, m), o>> \in durable => <<Event(o, m), o>> \in durable

\* A request sent again, with its run id or with its public key, is answered
\* once: two operations both leave a record only if one continued a stored
\* plan and the other planned anew (scoped_evidence_idempotency_key).
AnsweredOnce ==
    \A o1, o2 \in Ops :
        HasRecord(o1) /\ HasRecord(o2) /\ o1 # o2 => patched[o1] # patched[o2]
=============================================================================
