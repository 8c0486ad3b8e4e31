---------------------------- MODULE Continuation ----------------------------
(***************************************************************************)
(* The life of one clarification ticket: the pending-continuation record in *)
(* Redis (app/conversation/transcript_store.py, RedisConversationStore),    *)
(* the replies that claim it, run it, complete or fail it                   *)
(* (app/services/ask_v2_service.py, app/services/ask_prepare.py) and those  *)
(* that join a running one (app/services/continuation_tokens.py).           *)
(*                                                                          *)
(* Each reply is one POST.  The WATCH and the GET of a transaction are one  *)
(* step, its EXEC another.  Time is counted in abstract units.              *)
(***************************************************************************)
EXTENDS Naturals

CONSTANTS
    Replies,      \* clarification_reply requests, retries and duplicates too
    Keys,         \* idempotency keys
    RunIds,       \* run ids, used as execution ids
    KeyOf,        \* KeyOf[q]: the reply's idempotency key
    RunOf,        \* RunOf[q]: the reply's run id
    Bound,        \* Bound[q]: its principal and thread are the ticket's
    AskedFor,     \* AskedFor[q]: "choice" or "prompt", what it picked
    Lease,        \* CONTINUATION_LEASE_SECONDS
    TicketTTL,    \* expires_at of the ticket, minted at time 0
    JoinCap,      \* the longest wait of join_continuation
    MaxTurn,      \* the longest budget of a turn
    MaxTime,      \* bound: the clock stops here
    MaxCrashes    \* bound: processes that die in a behaviour

None == "none"

ASSUME ConstantsAssumption ==
    /\ KeyOf \in [Replies -> Keys]
    /\ RunOf \in [Replies -> RunIds]
    /\ Bound \in [Replies -> BOOLEAN]
    /\ AskedFor \in [Replies -> {"choice", "prompt"}]
    /\ None \notin Keys /\ None \notin RunIds /\ None \notin Replies
    /\ Lease \in Nat /\ TicketTTL \in Nat /\ JoinCap \in Nat
    /\ MaxTurn \in Nat /\ MaxTime \in Nat /\ MaxCrashes \in Nat

VARIABLES
    rec,        \* Redis: the record of the ticket
    watching,   \* replies whose WATCHed record has not been written since
    notify,     \* Redis: elements of the notify list
    now,        \* the clock
    pc,         \* what each reply does next
    seen,       \* the record as a reply's transaction read it
    arrived,    \* when a reply's turn budget started
    waitUntil,  \* when a joiner's BLPOP times out
    result,     \* how a reply ends
    replayed,   \* the outcome a reply was given from the record
    ran,        \* history: replies whose turn was dispatched
    crashes     \* processes that died so far

storeVars == <<rec, watching, notify>>
replyVars == <<pc, seen, arrived, waitUntil, result, replayed, ran>>
vars == <<storeVars, now, replyVars, crashes>>

Status == {"ABSENT", "PENDING", "CLAIMED", "COMPLETED", "TERMINAL_FAILED",
           "EXPIRED"}

Record == [status: Status,
           key: Keys \cup {None},        \* idempotency_key_hash
           by: RunIds \cup {None},       \* claimed_by
           lease: Nat,                   \* lease_until
           outcome: Replies \cup {None}] \* terminal_outcome, by its author

Blank == [status |-> "ABSENT", key |-> None, by |-> None, lease |-> 0,
          outcome |-> None]

\* Steps inside the "try" of _dispatch_claimed_clarification.
Tried == {"reclaim", "reclaimExec", "run", "complete", "completeExec", "return"}
\* Steps under the turn budget; a reply that fails its claim is past it.
Budgeted == {"claim", "claimExec", "load", "mint", "mintExec", "minted", "join",
             "wait", "reread"} \cup Tried
Steps == {"idle", "fail", "failExec", "end", "dead"} \cup Budgeted

Results == {"none", "answered", "replayed", "rejected", "unavailable",
            "not found", "contention", "cancelled", "failed"}

Init ==
    /\ rec = Blank
    /\ watching = {}
    /\ notify = 0
    /\ now = 0
    /\ pc = [q \in Replies |-> "idle"]
    /\ seen = [q \in Replies |-> Blank]
    /\ arrived = [q \in Replies |-> 0]
    /\ waitUntil = [q \in Replies |-> 0]
    /\ result = [q \in Replies |-> "none"]
    /\ replayed = [q \in Replies |-> None]
    /\ ran = {}
    /\ crashes = 0
-----------------------------------------------------------------------------
(* Helpers.                                                                 *)

Goto(q, step) == pc' = [pc EXCEPT ![q] = step]

\* The reply ends, or goes to `step' with its result already known.
Finish(q, step, res) ==
    /\ Goto(q, step)
    /\ result' = [result EXCEPT ![q] = res]

Write(r) == rec' = r /\ watching' = {}

Watch(q) ==
    /\ seen' = [seen EXCEPT ![q] = rec]
    /\ watching' = watching \cup {q}

\* A written record invalidates every WATCH; the second form never aborts.
Untouched_Unwatched(q) == TRUE
Untouched(q) == q \in watching

Live(r) == r.status \notin {"ABSENT", "EXPIRED"} /\ now <= TicketTTL

\* The same key, and which reply may have the stored outcome; the second form
\* forgets to compare.
SameKey_Anyone(r, q) == TRUE
SameKey(r, q) == r.key = KeyOf[q]

\* "reclaimed" is for the execution that holds the claim; the second form
\* gives it to every holder of the key.
SameExecution_AnyRun(r, q) == TRUE
SameExecution(r, q) == r.by = RunOf[q]

\* The principal and the thread the ticket was minted for.
SameOwner(q) == Bound[q]

\* claim_pending_continuation on the record r.
Verdict(r, q) ==
    IF ~Live(r) \/ ~SameOwner(q) THEN "rejected"
    ELSE IF r.status = "PENDING" THEN "claimed"
    ELSE IF r.status = "CLAIMED" /\ now > r.lease THEN "lapsed"
    ELSE IF r.status \notin {"CLAIMED", "COMPLETED"} \/ ~SameKey(r, q) THEN "rejected"
    ELSE IF r.status = "COMPLETED" THEN "completed"
    ELSE IF SameExecution(r, q) THEN "reclaimed" ELSE "in_progress"

\* The record after the claim's transaction; the second form leaves the lease
\* at the time of the claim.
Claimed_NoLease(r, q) ==
    IF r.status = "PENDING"
    THEN [r EXCEPT !.status = "CLAIMED", !.key = KeyOf[q], !.by = RunOf[q],
                   !.lease = now]
    ELSE [r EXCEPT !.status = "TERMINAL_FAILED"]
Claimed(r, q) ==
    IF r.status = "PENDING"
    THEN [r EXCEPT !.status = "CLAIMED", !.key = KeyOf[q], !.by = RunOf[q],
                   !.lease = now + Lease]
    ELSE [r EXCEPT !.status = "TERMINAL_FAILED"]

\* What a raising step becomes: inside the "try" the claim is failed first.
\* The second form has no "except".
Raise_Uncaught(q, res) == Finish(q, "end", res)
Raise(q, res) == Finish(q, IF pc[q] \in Tried THEN "fail" ELSE "end", res)

\* A stored outcome is given out, or reauthorize_replay refuses it.
TakeOutcome(q) ==
    \/ /\ Finish(q, "end", "replayed")
       /\ replayed' = [replayed EXCEPT ![q] = rec.outcome]
    \/ Finish(q, "end", "rejected") /\ UNCHANGED replayed
-----------------------------------------------------------------------------
(* The card is minted by the turn that asks for clarification.              *)

Mint ==
    /\ rec.status = "ABSENT"
    /\ Write([Blank EXCEPT !.status = "PENDING"])
    /\ UNCHANGED <<notify, now, replyVars, crashes>>

\* _handle_clarification_reply: verify_clarify_ticket.
Arrive(q) ==
    /\ pc[q] = "idle" /\ rec.status # "ABSENT"
    /\ arrived' = [arrived EXCEPT ![q] = now]
    /\ IF now > TicketTTL THEN Finish(q, "end", "not found")
       ELSE Goto(q, "claim") /\ UNCHANGED result
    /\ UNCHANGED <<storeVars, now, seen, waitUntil, replayed, ran, crashes>>
-----------------------------------------------------------------------------
(* claim_pending_continuation, from the reply handler ("claim") and again,  *)
(* for the same execution, from prepare_ask ("reclaim").                    *)

ClaimRead(q) ==
    /\ pc[q] = "claim"
    /\ \/ /\ Verdict(rec, q) \in {"claimed", "lapsed"}
          /\ Watch(q) /\ Goto(q, "claimExec")
          /\ UNCHANGED <<result, replayed>>
       \/ /\ Verdict(rec, q) = "reclaimed"
          /\ Goto(q, "load")
          /\ UNCHANGED <<watching, seen, result, replayed>>
       \/ /\ Verdict(rec, q) = "in_progress"
          /\ Goto(q, "join")
          /\ UNCHANGED <<watching, seen, result, replayed>>
       \/ /\ Verdict(rec, q) = "completed"
          /\ TakeOutcome(q)
          /\ UNCHANGED <<watching, seen>>
       \/ /\ Verdict(rec, q) = "rejected"
          /\ Finish(q, "end", "rejected")
          /\ UNCHANGED <<watching, seen, replayed>>
    /\ UNCHANGED <<rec, notify, now, arrived, waitUntil, ran, crashes>>

ClaimExec(q) ==
    /\ pc[q] = "claimExec" /\ Untouched(q)
    /\ Write(Claimed(seen[q], q))
    /\ IF seen[q].status = "PENDING" THEN Goto(q, "load") /\ UNCHANGED result
       ELSE Finish(q, "end", "rejected")
    /\ UNCHANGED <<notify, now, seen, arrived, waitUntil, replayed, ran, crashes>>

\* WatchError is a RedisError: the first "except" takes it and raises
\* ConversationStoreUnavailableError, so the retry is never reached.
ExecAborted(q) ==
    /\ pc[q] \in {"claimExec", "reclaimExec", "completeExec", "mintExec",
                  "failExec"}
    /\ ~Untouched(q)
    /\ IF pc[q] = "failExec" THEN Finish(q, "end", "contention")
       ELSE Raise(q, "contention")
    /\ UNCHANGED <<storeVars, now, seen, arrived, waitUntil, replayed, ran,
                   crashes>>

\* load_pending_continuation_payload and _planner_question_from_reply, before
\* the "try": a failure here (no record, an unreadable card, an unknown
\* choice) leaves the claim to its lease.
Load(q) ==
    /\ pc[q] = "load"
    /\ \/ /\ rec.status # "EXPIRED"
          /\ Goto(q, IF AskedFor[q] = "prompt" THEN "mint" ELSE "reclaim")
          /\ UNCHANGED result
       \/ Finish(q, "end", "not found")
    /\ UNCHANGED <<storeVars, now, seen, arrived, waitUntil, replayed, ran,
                   crashes>>

Reclaim(q) ==
    /\ pc[q] = "reclaim"
    /\ \/ /\ Verdict(rec, q) \in {"claimed", "lapsed"}
          /\ Watch(q) /\ Goto(q, "reclaimExec")
          /\ UNCHANGED <<result, ran>>
       \/ /\ Verdict(rec, q) = "reclaimed"
          /\ Goto(q, "run") /\ ran' = ran \cup {q}
          /\ UNCHANGED <<watching, seen, result>>
       \/ /\ Verdict(rec, q) \in {"in_progress", "completed", "rejected"}
          /\ Raise(q, "rejected")
          /\ UNCHANGED <<watching, seen, ran>>
    /\ UNCHANGED <<rec, notify, now, arrived, waitUntil, replayed, crashes>>

ReclaimExec(q) ==
    /\ pc[q] = "reclaimExec" /\ Untouched(q)
    /\ Write(Claimed(seen[q], q))
    /\ IF seen[q].status = "PENDING"
       THEN Goto(q, "run") /\ ran' = ran \cup {q} /\ UNCHANGED result
       ELSE Raise(q, "rejected") /\ UNCHANGED ran
    /\ UNCHANGED <<notify, now, seen, arrived, waitUntil, replayed, crashes>>
-----------------------------------------------------------------------------
(* The claimed turn.                                                        *)

RunSucceeds(q) ==
    /\ pc[q] = "run"
    /\ Goto(q, "complete")
    /\ UNCHANGED <<storeVars, now, seen, arrived, waitUntil, result, replayed,
                   ran, crashes>>

RunFails(q) ==
    /\ pc[q] = "run"
    /\ Raise(q, "failed")
    /\ UNCHANGED <<storeVars, now, seen, arrived, waitUntil, replayed, ran,
                   crashes>>

\* complete_pending_continuation, for a turn or for a value-prompt card: a
\* record that is no longer CLAIMED is left alone.
CompleteRead(q) ==
    /\ pc[q] \in {"complete", "mint"}
    /\ IF rec.status = "CLAIMED"
       THEN Watch(q) /\ Goto(q, IF pc[q] = "mint" THEN "mintExec" ELSE "completeExec")
       ELSE /\ Goto(q, IF pc[q] = "mint" THEN "minted" ELSE "return")
            /\ UNCHANGED <<watching, seen>>
    /\ UNCHANGED <<rec, notify, now, arrived, waitUntil, result, replayed, ran,
                   crashes>>

CompleteExec(q) ==
    /\ pc[q] \in {"completeExec", "mintExec"} /\ Untouched(q)
    /\ Write([seen[q] EXCEPT !.status = "COMPLETED", !.outcome = q])
    /\ notify' = notify + 1
    /\ Goto(q, IF pc[q] = "mintExec" THEN "minted" ELSE "return")
    /\ UNCHANGED <<now, seen, arrived, waitUntil, result, replayed, ran, crashes>>

Return(q) ==
    /\ pc[q] \in {"return", "minted"}
    /\ Finish(q, "end", "answered")
    /\ UNCHANGED <<storeVars, now, seen, arrived, waitUntil, replayed, ran,
                   crashes>>

\* fail_pending_continuation, by the turn or by a joiner past the lease.
FailRead(q) ==
    /\ pc[q] = "fail"
    /\ IF rec.status = "CLAIMED" THEN Watch(q) /\ Goto(q, "failExec")
       ELSE Goto(q, "end") /\ UNCHANGED <<watching, seen>>
    /\ UNCHANGED <<rec, notify, now, arrived, waitUntil, result, replayed, ran,
                   crashes>>

FailExec(q) ==
    /\ pc[q] = "failExec" /\ Untouched(q)
    /\ Write([seen[q] EXCEPT !.status = "TERMINAL_FAILED"])
    /\ notify' = notify + 1
    /\ Goto(q, "end")
    /\ UNCHANGED <<now, seen, arrived, waitUntil, result, replayed, ran, crashes>>

\* The deadline, a cancel, a disconnect or a failing Redis command raises at
\* the await a reply is at.
Abort(q) ==
    /\ pc[q] \in Budgeted \cup {"fail", "failExec"}
    /\ Raise(q, "cancelled")
    /\ UNCHANGED <<storeVars, now, seen, arrived, waitUntil, replayed, ran,
                   crashes>>
-----------------------------------------------------------------------------
(* join_continuation                                                        *)

\* The record is still its key's, and in that status.
Open(q, status) == Live(rec) /\ SameKey(rec, q) /\ rec.status = status

JoinRead(q) ==
    /\ pc[q] = "join"
    /\ \/ /\ Open(q, "COMPLETED")
          /\ TakeOutcome(q) /\ UNCHANGED waitUntil
       \/ /\ Open(q, "CLAIMED") /\ now > rec.lease
          /\ Finish(q, "fail", "unavailable")
          /\ UNCHANGED <<waitUntil, replayed>>
       \/ /\ Open(q, "CLAIMED") /\ now <= rec.lease
          /\ Goto(q, "wait")
          /\ waitUntil' = [waitUntil EXCEPT ![q] = now + JoinCap]
          /\ UNCHANGED <<result, replayed>>
       \/ /\ ~Open(q, "COMPLETED") /\ ~Open(q, "CLAIMED")
          /\ Finish(q, "end", "unavailable")
          /\ UNCHANGED <<waitUntil, replayed>>
    /\ UNCHANGED <<storeVars, now, seen, arrived, ran, crashes>>

\* BLPOP times out.
TimedOut(q) == now >= waitUntil[q]

\* BLPOP takes an element that is there; the second form does not look.
Pop_Blind == notify' = notify - 1
Pop == notify > 0 /\ notify' = notify - 1

Wake(q) ==
    /\ pc[q] = "wait"
    /\ \/ Pop
       \/ TimedOut(q) /\ UNCHANGED notify
    /\ Goto(q, "reread")
    /\ UNCHANGED <<rec, watching, now, seen, arrived, waitUntil, result,
                   replayed, ran, crashes>>

Reread(q) ==
    /\ pc[q] = "reread"
    /\ IF rec.status = "COMPLETED" THEN TakeOutcome(q)
       ELSE Finish(q, "end", "unavailable") /\ UNCHANGED replayed
    /\ UNCHANGED <<storeVars, now, seen, arrived, waitUntil, ran, crashes>>
-----------------------------------------------------------------------------
(* Time, expiry and crashes.                                                *)

\* No step of a turn outlives its budget: the deadline aborts it first.
Tick ==
    /\ now < MaxTime
    /\ \A q \in Replies : pc[q] \in Budgeted => now < arrived[q] + MaxTurn
    /\ now' = now + 1
    /\ UNCHANGED <<storeVars, replyVars, crashes>>

Expire ==
    /\ now >= TicketTTL /\ rec.status \notin {"ABSENT", "EXPIRED"}
    /\ Write([rec EXCEPT !.status = "EXPIRED"])
    /\ UNCHANGED <<notify, now, replyVars, crashes>>

Crash(q) ==
    /\ pc[q] \in Budgeted \cup {"fail", "failExec"}
    /\ crashes < MaxCrashes
    /\ crashes' = crashes + 1
    /\ Goto(q, "dead")
    /\ UNCHANGED <<storeVars, now, seen, arrived, waitUntil, result, replayed,
                   ran>>
-----------------------------------------------------------------------------
Serve(q) ==
    \/ ClaimRead(q) \/ ClaimExec(q) \/ ExecAborted(q) \/ Load(q) \/ Reclaim(q)
    \/ ReclaimExec(q) \/ RunSucceeds(q) \/ RunFails(q) \/ CompleteRead(q)
    \/ CompleteExec(q) \/ Return(q) \/ FailRead(q) \/ FailExec(q) \/ JoinRead(q)
    \/ Wake(q) \/ Reread(q)

Next ==
    \/ Mint \/ Tick \/ Expire
    \/ \E q \in Replies : Arrive(q) \/ Serve(q) \/ Abort(q) \/ Crash(q)

Spec == Init /\ [][Next]_vars

\* The turn budget's timer; the second form is a turn without a budget.
DeadlineHit_Unbounded(q) == FALSE
DeadlineHit(q) == pc[q] \in Budgeted /\ now >= arrived[q] + MaxTurn

\* A process that lives keeps serving, its deadline fires, and time passes.
FairSpec == /\ Spec
            /\ \A q \in Replies : WF_vars(Serve(q))
            /\ \A q \in Replies : WF_vars(DeadlineHit(q) /\ Abort(q))
            /\ WF_vars(Tick)
-----------------------------------------------------------------------------
(* Properties.                                                              *)

TypeOK ==
    /\ rec \in Record
    /\ watching \subseteq Replies
    /\ notify \in Nat /\ now \in Nat /\ crashes \in Nat
    /\ pc \in [Replies -> Steps]
    /\ seen \in [Replies -> Record]
    /\ arrived \in [Replies -> Nat]
    /\ waitUntil \in [Replies -> Nat]
    /\ result \in [Replies -> Results]
    /\ replayed \in [Replies -> Replies \cup {None}]
    /\ ran \subseteq Replies

\* A ticket's turn is dispatched under one run id only: whatever the order of
\* claims, retries, joins, failures and expiries, two replies that ran are
\* deliveries of one request (claim_pending_continuation, "reclaimed").
AtMostOneRunner == \A p, q \in ran : RunOf[p] = RunOf[q]

\* A reply is only given an outcome its own key produced, and only if it is
\* bound to the ticket's principal and thread: an outcome never crosses keys.
ReplayFaithful ==
    \A q \in Replies :
        replayed[q] # None => Bound[q] /\ KeyOf[replayed[q]] = KeyOf[q]

\* While a turn runs nobody takes its claim away: no joiner, retry or claim
\* past the lease fails it (CONTINUATION_LEASE_SECONDS).
HolderKeepsClaim ==
    \A q \in Replies :
        pc[q] \in {"run", "complete", "completeExec"} =>
            \/ rec.status = "CLAIMED" /\ rec.by = RunOf[q]
            \/ rec.status = "EXPIRED"

\* A reply whose turn was answered left its answer for the retries of its key:
\* complete_pending_continuation did not silently return (its "return"s).
AnsweredIsStored ==
    \A q \in Replies :
        result[q] = "answered" => rec.outcome = q \/ rec.status = "EXPIRED"

\* The Redis record implements the single-use ticket.
SingleUse == INSTANCE SingleUseContinuation
    WITH Holders <- Keys \X RunIds,
         Outcomes <- Replies,
         Nothing <- None,
         stage <- rec.status,
         holder <- IF rec.key = None THEN None ELSE <<rec.key, rec.by>>,
         outcome <- rec.outcome

\* Taken once, settled once, and the settled outcome never changes.
SingleUseSpec == SingleUse!Spec

\* Every reply that reaches its claim is answered, or its process dies: no
\* joiner waits for ever, even if the turn it waits for dies or was failed.
EveryReplyAnswered ==
    \A q \in Replies : pc[q] = "claim" ~> pc[q] \in {"end", "dead"}

\* The ticket's last word: a turn that stopped inside the "try" of
\* _dispatch_claimed_clarification does not leave the claim to its lease,
\* unless failing it raised as well or the process died.
FailedTurnSettles ==
    \A q \in Replies :
        pc[q] = "end" /\ result[q] = "failed" => rec.status # "CLAIMED"

\* Steps of a reply that took the claim, and of one that joined it.
Holding == Tried \cup {"load", "mint", "mintExec", "minted"}
Joining == {"join", "wait", "reread"}

\* A transaction that will succeed holds the current record, in the status its
\* handler read.
WatchInv ==
    \A q \in Replies :
        /\ q \in watching => seen[q] = rec
        /\ pc[q] \in {"claimExec", "reclaimExec"} =>
               seen[q].status \in {"PENDING", "CLAIMED"}
        /\ pc[q] \in {"completeExec", "mintExec", "failExec"} =>
               seen[q].status = "CLAIMED"

\* The record is blank until a reply claims it, and from then on its key and
\* run id are those of every reply that holds, joins or ran the ticket.
TicketInv ==
    /\ rec.status = "ABSENT" => rec = Blank
    /\ rec.status = "PENDING" => rec.key = None /\ rec.outcome = None
    /\ rec.outcome # None => KeyOf[rec.outcome] = rec.key
    /\ \A q \in Replies :
           /\ pc[q] \in Holding \cup Joining =>
                  /\ rec.status \notin {"ABSENT", "PENDING"}
                  /\ rec.key = KeyOf[q] /\ Bound[q]
           /\ pc[q] \in Holding => rec.by = RunOf[q]
           /\ pc[q] = "claimExec" => Bound[q]
           /\ q \in ran => /\ rec.status \notin {"ABSENT", "PENDING"}
                           /\ rec.by = RunOf[q]

\* The inductive invariant of the safety theorems.
SafeInv == TypeOK /\ WatchInv /\ TicketInv /\ ReplayFaithful

\* Turns are shorter than leases, and no request is delivered twice.
ShortTurns ==
    /\ MaxTurn < Lease
    /\ \A p, q \in Replies : RunOf[p] = RunOf[q] => p = q

\* Budgets are kept, and a lease starts after the budget of the reply that
\* holds it.
Timely(q) ==
    /\ arrived[q] <= now
    /\ pc[q] \in Budgeted => now <= arrived[q] + MaxTurn
    /\ rec.status = "CLAIMED" /\ rec.by = RunOf[q] =>
           pc[q] # "idle" /\ arrived[q] + Lease <= rec.lease

\* Who fails a claim holds it or saw its lease over.
Failing(q) ==
    pc[q] \in {"fail", "failExec"} =>
        /\ rec.status \notin {"ABSENT", "PENDING"}
        /\ rec.status = "CLAIMED" => rec.by = RunOf[q] \/ now > rec.lease

\* A claim's transaction fails a record past its lease only.
Lapsing(q) ==
    q \in watching /\ pc[q] \in {"claimExec", "reclaimExec"}
        /\ rec.status = "CLAIMED" => now > rec.lease

\* A holder keeps its claim until it completed it.
Settling(q) ==
    /\ pc[q] \in Holding \ {"return", "minted"} =>
           rec.status \in {"CLAIMED", "EXPIRED"}
    /\ pc[q] \in {"return", "minted"} \/ result[q] = "answered" =>
           rec.outcome = q \/ rec.status = "EXPIRED"

\* What SafeInv needs on top of it to be inductive under ShortTurns.
LeaseInv ==
    /\ rec.outcome # None => rec.status \in {"COMPLETED", "EXPIRED"}
    /\ \A q \in Replies : Timely(q) /\ Failing(q) /\ Lapsing(q) /\ Settling(q)

\* What FailedTurnSettles needs: a turn that failed had run, and is on its way
\* to fail its claim, or found or left the ticket settled.
Settled == rec.status \in {"COMPLETED", "TERMINAL_FAILED", "EXPIRED"}

FailInv ==
    \A q \in Replies :
        /\ pc[q] = "run" => q \in ran
        /\ result[q] = "failed" =>
               /\ q \in ran
               /\ pc[q] \in {"fail", "failExec", "end", "dead"}
               /\ pc[q] = "end" => Settled
=============================================================================
