------------------------- MODULE ContinuationProofs -------------------------
(***************************************************************************)
(* The ticket of Continuation.tla for any number of replies, keys and run   *)
(* ids and any timing: types, one runner, faithful replays, turns that      *)
(* failed, and that the Redis record implements SingleUseContinuation.      *)
(***************************************************************************)
EXTENDS Continuation, TLAPS

\* A record with another status, and what a claim makes of a record.
LEMMA SetStatus ==
    ASSUME NEW r \in Record, NEW s \in Status
    PROVE  [r EXCEPT !.status = s] \in Record
BY DEF Record

LEMMA BlankType == Blank \in Record
BY DEF Blank, Record, Status

LEMMA ClaimedType ==
    ASSUME NEW r \in Record, NEW q \in Replies, now \in Nat
    PROVE  Claimed(r, q) \in Record
<1>1. KeyOf[q] \in Keys /\ RunOf[q] \in RunIds /\ now + Lease \in Nat
  BY ConstantsAssumption
<1> QED
  BY <1>1 DEF Claimed, Record, Status

LEMMA CompletedType ==
    ASSUME NEW r \in Record, NEW q \in Replies
    PROVE  [r EXCEPT !.status = "COMPLETED", !.outcome = q] \in Record
BY DEF Record, Status

\* What the two ways of ending a step do to pc and result.
LEMMA GotoType ==
    ASSUME pc \in [Replies -> Steps], NEW q \in Replies, NEW s \in Steps,
           Goto(q, s)
    PROVE  pc' \in [Replies -> Steps]
BY DEF Goto

LEMMA FinishType ==
    ASSUME pc \in [Replies -> Steps], result \in [Replies -> Results],
           NEW q \in Replies, NEW s \in Steps, NEW t \in Results,
           Finish(q, s, t)
    PROVE  pc' \in [Replies -> Steps] /\ result' \in [Replies -> Results]
BY DEF Finish, Goto

LEMMA RaiseType ==
    ASSUME pc \in [Replies -> Steps], result \in [Replies -> Results],
           NEW q \in Replies, NEW t \in Results, Raise(q, t)
    PROVE  pc' \in [Replies -> Steps] /\ result' \in [Replies -> Results]
<1>1. (IF pc[q] \in Tried THEN "fail" ELSE "end") \in Steps
  BY DEF Steps
<1> QED
  BY <1>1, FinishType DEF Raise

LEMMA WatchType ==
    ASSUME seen \in [Replies -> Record], watching \subseteq Replies,
           rec \in Record, NEW q \in Replies, Watch(q)
    PROVE  seen' \in [Replies -> Record] /\ watching' \subseteq Replies
BY DEF Watch

LEMMA WriteType ==
    ASSUME NEW r \in Record, Write(r)
    PROVE  rec' \in Record /\ watching' \subseteq Replies
BY DEF Write

LEMMA TakeType ==
    ASSUME TypeOK, NEW q \in Replies, TakeOutcome(q)
    PROVE  /\ pc' \in [Replies -> Steps]
           /\ result' \in [Replies -> Results]
           /\ replayed' \in [Replies -> Replies \cup {None}]
<1>1. rec.outcome \in Replies \cup {None}
  BY DEF TypeOK, Record
<1>2. "end" \in Steps /\ "replayed" \in Results /\ "rejected" \in Results
  BY DEF Steps, Results
<1>3. replayed' \in [Replies -> Replies \cup {None}]
  BY <1>1 DEF TakeOutcome, TypeOK
<1> QED
  BY <1>2, <1>3, FinishType DEF TakeOutcome, TypeOK

\* Every step of a reply keeps the types.
LEMMA ServeType ==
    ASSUME TypeOK, NEW q \in Replies, Serve(q)
    PROVE  TypeOK'
<1> USE DEF TypeOK
<1>s. /\ Budgeted \subseteq Steps
      /\ {"claim", "claimExec", "load", "mint", "mintExec", "minted", "join",
          "wait", "reread", "reclaim", "reclaimExec", "run", "complete",
          "completeExec", "return"} \subseteq Steps
      /\ {"fail", "failExec", "end"} \subseteq Steps
  BY DEF Steps, Budgeted, Tried
<1>t. {"answered", "replayed", "rejected", "unavailable", "not found",
       "contention", "cancelled", "failed"} \subseteq Results
  BY DEF Results
<1>1. CASE ClaimRead(q)
  <2>1. pc' \in [Replies -> Steps] /\ result' \in [Replies -> Results]
        /\ replayed' \in [Replies -> Replies \cup {None}]
    BY <1>1, <1>s, <1>t, TakeType, GotoType, FinishType DEF ClaimRead
  <2>2. seen' \in [Replies -> Record] /\ watching' \subseteq Replies
    BY <1>1, WatchType DEF ClaimRead
  <2> QED
    BY <1>1, <2>1, <2>2 DEF ClaimRead
<1>2. CASE ClaimExec(q)
  BY <1>2, <1>s, <1>t, ClaimedType, WriteType, GotoType, FinishType DEF ClaimExec
<1>3. CASE ExecAborted(q)
  BY <1>3, <1>s, <1>t, RaiseType, FinishType DEF ExecAborted, storeVars
<1>4. CASE Load(q)
  BY <1>4, <1>s, <1>t, GotoType, FinishType DEF Load, storeVars
<1>5. CASE Reclaim(q)
  <2>1. pc' \in [Replies -> Steps] /\ result' \in [Replies -> Results]
        /\ ran' \subseteq Replies
    BY <1>5, <1>s, <1>t, RaiseType, GotoType DEF Reclaim
  <2>2. seen' \in [Replies -> Record] /\ watching' \subseteq Replies
    BY <1>5, WatchType DEF Reclaim
  <2> QED
    BY <1>5, <2>1, <2>2 DEF Reclaim
<1>6. CASE ReclaimExec(q)
  BY <1>6, <1>s, <1>t, ClaimedType, WriteType, GotoType, RaiseType DEF ReclaimExec
<1>7. CASE RunSucceeds(q)
  BY <1>7, <1>s, GotoType DEF RunSucceeds, storeVars
<1>8. CASE RunFails(q)
  BY <1>8, <1>t, RaiseType DEF RunFails, storeVars
<1>9. CASE CompleteRead(q)
  BY <1>9, <1>s, GotoType, WatchType DEF CompleteRead
<1>10. CASE CompleteExec(q)
  <2>1. [seen[q] EXCEPT !.status = "COMPLETED", !.outcome = q] \in Record
    BY CompletedType
  <2>2. pc' \in [Replies -> Steps]
    BY <1>10, <1>s, GotoType DEF CompleteExec
  <2>3. rec' \in Record /\ watching' \subseteq Replies
    BY <1>10, <2>1, WriteType DEF CompleteExec
  <2> QED
    BY <1>10, <2>2, <2>3 DEF CompleteExec
<1>11. CASE Return(q)
  BY <1>11, <1>s, <1>t, FinishType DEF Return, storeVars
<1>12. CASE FailRead(q)
  BY <1>12, <1>s, GotoType, WatchType DEF FailRead
<1>13. CASE FailExec(q)
  <2>1. "TERMINAL_FAILED" \in Status
    BY DEF Status
  <2> QED
    BY <1>13, <2>1, <1>s, GotoType, WriteType, SetStatus DEF FailExec
<1>14. CASE JoinRead(q)
  <2>1. pc' \in [Replies -> Steps] /\ result' \in [Replies -> Results]
        /\ replayed' \in [Replies -> Replies \cup {None}]
    BY <1>14, <1>s, <1>t, TakeType, GotoType, FinishType DEF JoinRead
  <2>2. waitUntil' \in [Replies -> Nat]
    BY <1>14, ConstantsAssumption DEF JoinRead
  <2> QED
    BY <1>14, <2>1, <2>2 DEF JoinRead, storeVars
<1>15. CASE Wake(q)
  <2>1. notify' \in Nat
    BY <1>15 DEF Wake, Pop
  <2> QED
    BY <1>15, <2>1, <1>s, GotoType DEF Wake
<1>16. CASE Reread(q)
  BY <1>16, <1>s, <1>t, TakeType, FinishType DEF Reread, storeVars
<1> QED
  BY <1>1, <1>2, <1>3, <1>4, <1>5, <1>6, <1>7, <1>8, <1>9, <1>10, <1>11, <1>12,
     <1>13, <1>14, <1>15, <1>16 DEF Serve

LEMMA TypeInit == Init => TypeOK
BY BlankType DEF Init, TypeOK, Steps, Results

LEMMA TypeStep == TypeOK /\ [Next]_vars => TypeOK'
<1> SUFFICES ASSUME TypeOK, [Next]_vars PROVE TypeOK'
  OBVIOUS
<1>s. {"end", "claim", "dead"} \subseteq Steps
  BY DEF Steps, Budgeted
<1>t. {"cancelled", "not found"} \subseteq Results
  BY DEF Results
<1>1. CASE Mint
  <2>1. "PENDING" \in Status
    BY DEF Status
  <2> QED
    BY <1>1, <2>1, BlankType, SetStatus, WriteType DEF Mint, TypeOK, replyVars
<1>2. CASE Tick
  BY <1>2 DEF Tick, TypeOK, storeVars, replyVars
<1>3. CASE Expire
  <2>1. "EXPIRED" \in Status
    BY DEF Status
  <2> QED
    BY <1>3, <2>1, SetStatus, WriteType DEF Expire, TypeOK, replyVars
<1>4. ASSUME NEW q \in Replies, Arrive(q) PROVE TypeOK'
  <2>1. arrived' \in [Replies -> Nat]
    BY <1>4 DEF Arrive, TypeOK
  <2>2. pc' \in [Replies -> Steps] /\ result' \in [Replies -> Results]
    BY <1>4, <1>s, <1>t, GotoType, FinishType DEF Arrive, TypeOK
  <2> QED
    BY <1>4, <2>1, <2>2 DEF Arrive, TypeOK, storeVars
<1>5. ASSUME NEW q \in Replies, Serve(q) PROVE TypeOK'
  BY <1>5, ServeType
<1>6. ASSUME NEW q \in Replies, Abort(q) PROVE TypeOK'
  BY <1>6, <1>t, RaiseType DEF Abort, TypeOK, storeVars
<1>7. ASSUME NEW q \in Replies, Crash(q) PROVE TypeOK'
  BY <1>7, <1>s, GotoType DEF Crash, TypeOK, storeVars
<1>8. CASE UNCHANGED vars
  BY <1>8 DEF TypeOK, vars, storeVars, replyVars
<1> QED
  BY <1>1, <1>2, <1>3, <1>4, <1>5, <1>6, <1>7, <1>8 DEF Next

\* Every variable keeps its type.
THEOREM TypeCorrect == Spec => []TypeOK
BY TypeInit, TypeStep, PTL DEF Spec
-----------------------------------------------------------------------------
(* The fields of a written record.                                          *)

LEMMA StatusFields ==
    ASSUME NEW r \in Record, NEW s \in Status
    PROVE  LET w == [r EXCEPT !.status = s]
           IN  /\ w.status = s /\ w.key = r.key /\ w.by = r.by
               /\ w.lease = r.lease /\ w.outcome = r.outcome
BY DEF Record

LEMMA CompletedFields ==
    ASSUME NEW r \in Record, NEW q \in Replies
    PROVE  LET w == [r EXCEPT !.status = "COMPLETED", !.outcome = q]
           IN  /\ w.status = "COMPLETED" /\ w.key = r.key /\ w.by = r.by
               /\ w.lease = r.lease /\ w.outcome = q
BY DEF Record

LEMMA ClaimedFields ==
    ASSUME NEW r \in Record, NEW q \in Replies
    PROVE  LET w == Claimed(r, q)
           IN  /\ r.status = "PENDING" =>
                      /\ w.status = "CLAIMED" /\ w.key = KeyOf[q]
                      /\ w.by = RunOf[q] /\ w.lease = now + Lease
               /\ r.status # "PENDING" =>
                      /\ w.status = "TERMINAL_FAILED" /\ w.key = r.key
                      /\ w.by = r.by /\ w.lease = r.lease
               /\ w.outcome = r.outcome
BY DEF Claimed, Record

\* Where a reply is after it moved, and where it was left.
LEMMA GotoAt ==
    ASSUME pc \in [Replies -> Steps], NEW q \in Replies, NEW s, Goto(q, s)
    PROVE  pc'[q] = s /\ \A p \in Replies \ {q} : pc'[p] = pc[p]
BY DEF Goto
-----------------------------------------------------------------------------
(* WATCH.                                                                   *)

Execs == {"claimExec", "reclaimExec", "completeExec", "mintExec", "failExec"}

LEMMA WatchKept ==
    ASSUME TypeOK, WatchInv, NEW q \in Replies, NEW s \in Steps \ Execs,
           Goto(q, s), UNCHANGED <<rec, watching, seen>>
    PROVE  WatchInv'
BY GotoAt DEF WatchInv, TypeOK, Execs

LEMMA WatchTaken ==
    ASSUME TypeOK, WatchInv, NEW q \in Replies, NEW s \in Execs,
           Goto(q, s), Watch(q), UNCHANGED rec,
           s \in {"claimExec", "reclaimExec"} => rec.status \in {"PENDING", "CLAIMED"},
           s \in {"completeExec", "mintExec", "failExec"} => rec.status = "CLAIMED"
    PROVE  WatchInv'
<1>1. pc'[q] = s /\ \A p \in Replies \ {q} : pc'[p] = pc[p]
  BY GotoAt DEF TypeOK
<1>2. seen'[q] = rec /\ \A p \in Replies \ {q} : seen'[p] = seen[p]
  BY DEF Watch, TypeOK
<1>3. watching' = watching \cup {q}
  BY DEF Watch
<1> SUFFICES ASSUME NEW p \in Replies
             PROVE /\ p \in watching' => seen'[p] = rec'
                   /\ pc'[p] \in {"claimExec", "reclaimExec"} =>
                          seen'[p].status \in {"PENDING", "CLAIMED"}
                   /\ pc'[p] \in {"completeExec", "mintExec", "failExec"} =>
                          seen'[p].status = "CLAIMED"
  BY DEF WatchInv
<1>4. CASE p = q
  BY <1>1, <1>2, <1>4 DEF Execs
<1>5. CASE p # q
  BY <1>1, <1>2, <1>3, <1>5 DEF WatchInv
<1> QED
  BY <1>4, <1>5

LEMMA WatchLost ==
    ASSUME TypeOK, WatchInv, NEW q \in Replies, NEW s \in Steps \ Execs,
           Goto(q, s), watching' = {}, UNCHANGED seen
    PROVE  WatchInv'
BY GotoAt DEF WatchInv, TypeOK, Execs

LEMMA ServeWatch ==
    ASSUME TypeOK, WatchInv, NEW q \in Replies, Serve(q)
    PROVE  WatchInv'
<1>s. /\ {"load", "minted", "join", "wait", "reread", "run", "complete",
          "return", "fail", "end", "mint", "reclaim"} \subseteq Steps \ Execs
      /\ {"claimExec", "reclaimExec", "completeExec", "mintExec", "failExec"}
             \subseteq Execs
  BY DEF Steps, Budgeted, Tried, Execs
<1>f. ASSUME NEW t, Finish(q, "end", t) PROVE Goto(q, "end")
  BY <1>f DEF Finish
<1>r. ASSUME NEW t, Raise(q, t) PROVE Goto(q, "end") \/ Goto(q, "fail")
  BY <1>r DEF Raise, Finish
<1>t. ASSUME TakeOutcome(q) PROVE Goto(q, "end")
  BY <1>t DEF TakeOutcome, Finish
<1>1. CASE ClaimRead(q)
  <2>1. Verdict(rec, q) \in {"claimed", "lapsed"} =>
            rec.status \in {"PENDING", "CLAIMED"}
    BY DEF Verdict, SameOwner
  <2>2. CASE Verdict(rec, q) \in {"claimed", "lapsed"}
    <3>1. UNCHANGED rec /\ rec.status \in {"PENDING", "CLAIMED"}
          /\ Watch(q) /\ Goto(q, "claimExec")
      BY <1>1, <2>1, <2>2 DEF ClaimRead
    <3> QED
      BY <3>1, <1>s, WatchTaken
  <2>3. CASE Verdict(rec, q) \notin {"claimed", "lapsed"}
    BY <1>1, <2>3, <1>s, <1>f, <1>t, WatchKept DEF ClaimRead
  <2> QED
    BY <2>2, <2>3
<1>2. CASE ClaimExec(q)
  BY <1>2, <1>s, <1>f, WatchLost DEF ClaimExec, Write
<1>3. CASE ExecAborted(q)
  BY <1>3, <1>s, <1>f, <1>r, WatchKept DEF ExecAborted, storeVars
<1>4. CASE Load(q)
  BY <1>4, <1>s, <1>f, WatchKept DEF Load, storeVars
<1>5. CASE Reclaim(q)
  <2>1. Verdict(rec, q) \in {"claimed", "lapsed"} =>
            rec.status \in {"PENDING", "CLAIMED"}
    BY DEF Verdict, SameOwner
  <2>2. CASE Verdict(rec, q) \in {"claimed", "lapsed"}
    <3>1. UNCHANGED rec /\ rec.status \in {"PENDING", "CLAIMED"}
          /\ Watch(q) /\ Goto(q, "reclaimExec")
      BY <1>5, <2>1, <2>2 DEF Reclaim
    <3> QED
      BY <3>1, <1>s, WatchTaken
  <2>3. CASE Verdict(rec, q) \notin {"claimed", "lapsed"}
    BY <1>5, <2>3, <1>s, <1>r, WatchKept DEF Reclaim
  <2> QED
    BY <2>2, <2>3
<1>6. CASE ReclaimExec(q)
  BY <1>6, <1>s, <1>r, WatchLost DEF ReclaimExec, Write
<1>7. CASE RunSucceeds(q)
  BY <1>7, <1>s, WatchKept DEF RunSucceeds, storeVars
<1>8. CASE RunFails(q)
  BY <1>8, <1>s, <1>r, WatchKept DEF RunFails, storeVars
<1>9. CASE CompleteRead(q)
  <2>1. CASE rec.status = "CLAIMED"
    BY <1>9, <2>1, <1>s, WatchTaken DEF CompleteRead
  <2>2. CASE rec.status # "CLAIMED"
    BY <1>9, <2>2, <1>s, WatchKept DEF CompleteRead
  <2> QED
    BY <2>1, <2>2
<1>10. CASE CompleteExec(q)
  BY <1>10, <1>s, WatchLost DEF CompleteExec, Write
<1>11. CASE Return(q)
  BY <1>11, <1>s, <1>f, WatchKept DEF Return, storeVars
<1>12. CASE FailRead(q)
  BY <1>12, <1>s, WatchTaken, WatchKept DEF FailRead
<1>13. CASE FailExec(q)
  BY <1>13, <1>s, WatchLost DEF FailExec, Write
<1>14. CASE JoinRead(q)
  BY <1>14, <1>s, <1>t, <1>f, WatchKept DEF JoinRead, storeVars, Finish
<1>15. CASE Wake(q)
  BY <1>15, <1>s, WatchKept DEF Wake
<1>16. CASE Reread(q)
  BY <1>16, <1>s, <1>t, <1>f, WatchKept DEF Reread, storeVars
<1> QED
  BY <1>1, <1>2, <1>3, <1>4, <1>5, <1>6, <1>7, <1>8, <1>9, <1>10, <1>11, <1>12,
     <1>13, <1>14, <1>15, <1>16 DEF Serve

LEMMA WatchStep == TypeOK /\ WatchInv /\ [Next]_vars => WatchInv'
<1> SUFFICES ASSUME TypeOK, WatchInv, [Next]_vars PROVE WatchInv'
  OBVIOUS
<1>s. {"end", "claim", "dead", "fail"} \subseteq Steps \ Execs
  BY DEF Steps, Budgeted, Execs
<1>1. CASE Mint
  BY <1>1 DEF Mint, Write, WatchInv, replyVars
<1>2. CASE Tick
  BY <1>2 DEF Tick, WatchInv, storeVars, replyVars
<1>3. CASE Expire
  BY <1>3 DEF Expire, Write, WatchInv, replyVars
<1>4. ASSUME NEW q \in Replies, Arrive(q) PROVE WatchInv'
  BY <1>4, <1>s, WatchKept DEF Arrive, Finish, storeVars
<1>5. ASSUME NEW q \in Replies, Serve(q) PROVE WatchInv'
  BY <1>5, ServeWatch
<1>6. ASSUME NEW q \in Replies, Abort(q) PROVE WatchInv'
  BY <1>6, <1>s, WatchKept DEF Abort, Raise, Finish, storeVars
<1>7. ASSUME NEW q \in Replies, Crash(q) PROVE WatchInv'
  BY <1>7, <1>s, WatchKept DEF Crash, storeVars
<1>8. CASE UNCHANGED vars
  BY <1>8 DEF WatchInv, vars, storeVars, replyVars
<1> QED
  BY <1>1, <1>2, <1>3, <1>4, <1>5, <1>6, <1>7, <1>8 DEF Next
-----------------------------------------------------------------------------
(* The ticket and its replies.                                              *)

LEMMA VerdictMeans ==
    ASSUME NEW q \in Replies
    PROVE  /\ Verdict(rec, q) \in {"reclaimed", "in_progress", "completed"} =>
                  /\ rec.status \notin {"ABSENT", "PENDING"}
                  /\ rec.key = KeyOf[q] /\ Bound[q]
           /\ Verdict(rec, q) = "reclaimed" => rec.by = RunOf[q]
           /\ Verdict(rec, q) = "claimed" => rec.status = "PENDING" /\ Bound[q]
           /\ Verdict(rec, q) = "lapsed" => rec.status = "CLAIMED"
BY DEF Verdict, SameOwner, SameKey, SameExecution, Live

\* A reply moves, the record stays.
LEMMA TicketKept ==
    ASSUME TypeOK, TicketInv, NEW q \in Replies, NEW s \in Steps, Goto(q, s),
           UNCHANGED rec,
           s \in Holding \cup Joining =>
               /\ rec.status \notin {"ABSENT", "PENDING"}
               /\ rec.key = KeyOf[q] /\ Bound[q],
           s \in Holding => rec.by = RunOf[q],
           s = "claimExec" => Bound[q],
           ran' = ran \/ (s \in Holding /\ ran' = ran \cup {q})
    PROVE  TicketInv'
<1>1. pc'[q] = s /\ \A p \in Replies \ {q} : pc'[p] = pc[p]
  BY GotoAt DEF TypeOK
<1>2. ASSUME NEW p \in Replies
      PROVE  /\ pc'[p] \in Holding \cup Joining =>
                    /\ rec.status \notin {"ABSENT", "PENDING"}
                    /\ rec.key = KeyOf[p] /\ Bound[p]
             /\ pc'[p] \in Holding => rec.by = RunOf[p]
             /\ pc'[p] = "claimExec" => Bound[p]
             /\ p \in ran' => /\ rec.status \notin {"ABSENT", "PENDING"}
                              /\ rec.by = RunOf[p]
  <2>1. CASE p = q
    BY <1>1, <2>1 DEF TicketInv
  <2>2. CASE p # q
    BY <1>1, <2>2 DEF TicketInv
  <2> QED
    BY <2>1, <2>2
<1>3. (rec.status = "ABSENT" => rec = Blank)
      /\ (rec.status = "PENDING" => rec.key = None /\ rec.outcome = None)
      /\ (rec.outcome # None => KeyOf[rec.outcome] = rec.key)
  BY DEF TicketInv
<1> QED
  BY <1>2, <1>3 DEF TicketInv

\* A claimed record is settled, or it expires, and a reply moves.
LEMMA TicketSettled ==
    ASSUME TypeOK, TicketInv, NEW w \in Record, rec' = w,
           rec.status # "ABSENT",
           w.status \in {"COMPLETED", "TERMINAL_FAILED", "EXPIRED"},
           w.key = rec.key, w.by = rec.by,
           w.outcome = rec.outcome
               \/ (w.outcome \in Replies /\ KeyOf[w.outcome] = rec.key),
           \A p \in Replies :
               /\ pc'[p] \in Holding \cup Joining => pc[p] \in Holding \cup Joining
               /\ pc'[p] \in Holding => pc[p] \in Holding
               /\ pc'[p] = "claimExec" => pc[p] = "claimExec",
           ran' = ran
    PROVE  TicketInv'
<1>1. w.outcome # None => KeyOf[w.outcome] = w.key
  BY DEF TicketInv
<1>2. w.status \notin {"ABSENT", "PENDING"}
  OBVIOUS
<1>3. ASSUME NEW p \in Replies
      PROVE  /\ pc'[p] \in Holding \cup Joining =>
                    /\ w.status \notin {"ABSENT", "PENDING"}
                    /\ w.key = KeyOf[p] /\ Bound[p]
             /\ pc'[p] \in Holding => w.by = RunOf[p]
             /\ pc'[p] = "claimExec" => Bound[p]
             /\ p \in ran' => /\ w.status \notin {"ABSENT", "PENDING"}
                              /\ w.by = RunOf[p]
  BY <1>2 DEF TicketInv
<1> QED
  BY <1>1, <1>2, <1>3 DEF TicketInv

\* A pending record is claimed: nobody held it, joined it or ran before.
LEMMA TicketClaimed ==
    ASSUME TypeOK, TicketInv, NEW q \in Replies, NEW w \in Record, rec' = w,
           rec.status = "PENDING", w.status = "CLAIMED", w.key = KeyOf[q],
           w.by = RunOf[q], w.outcome = rec.outcome, Bound[q], Goto(q, "load"), ran' = ran
    PROVE  TicketInv'
<1>1. pc'[q] = "load" /\ \A p \in Replies \ {q} : pc'[p] = pc[p]
  BY GotoAt DEF TypeOK
<1>2. ASSUME NEW p \in Replies
      PROVE  /\ pc'[p] \in Holding \cup Joining =>
                    /\ w.status \notin {"ABSENT", "PENDING"}
                    /\ w.key = KeyOf[p] /\ Bound[p]
             /\ pc'[p] \in Holding => w.by = RunOf[p]
             /\ pc'[p] = "claimExec" => Bound[p]
             /\ p \in ran' => /\ w.status \notin {"ABSENT", "PENDING"}
                              /\ w.by = RunOf[p]
  BY <1>1 DEF TicketInv
<1> QED
  BY <1>2 DEF TicketInv

LEMMA ServeTicket ==
    ASSUME SafeInv, NEW q \in Replies, Serve(q)
    PROVE  TicketInv'
<1> USE DEF SafeInv
<1>s. /\ {"claim", "claimExec", "load", "mint", "mintExec", "minted", "join",
          "wait", "reread", "reclaim", "reclaimExec", "run", "complete",
          "completeExec", "return"} \subseteq Steps
      /\ {"fail", "failExec", "end"} \subseteq Steps
      /\ {"load", "mint", "mintExec", "minted", "reclaim", "reclaimExec", "run",
          "complete", "completeExec", "return"} \subseteq Holding
      /\ {"join", "wait", "reread"} \subseteq Joining
      /\ {"fail", "failExec", "end", "claim", "claimExec"}
             \cap (Holding \cup Joining) = {}
      /\ Holding \cap Joining = {}
  BY DEF Steps, Budgeted, Tried, Holding, Joining
<1>v. /\ Verdict(rec, q) \in {"reclaimed", "in_progress", "completed"} =>
             /\ rec.status \notin {"ABSENT", "PENDING"}
             /\ rec.key = KeyOf[q] /\ Bound[q]
      /\ Verdict(rec, q) = "reclaimed" => rec.by = RunOf[q]
      /\ Verdict(rec, q) \in {"claimed", "lapsed"} => Bound[q]
  BY VerdictMeans DEF Verdict, SameOwner
<1>h. ASSUME pc[q] \in Holding
      PROVE  /\ rec.status \notin {"ABSENT", "PENDING"}
             /\ rec.key = KeyOf[q] /\ Bound[q] /\ rec.by = RunOf[q]
  BY <1>h DEF TicketInv
<1>j. ASSUME pc[q] \in Joining
      PROVE  /\ rec.status \notin {"ABSENT", "PENDING"}
             /\ rec.key = KeyOf[q] /\ Bound[q]
  BY <1>j DEF TicketInv
<1>k. ASSUME NEW t \in {"end", "fail", "failExec"}, Goto(q, t),
             UNCHANGED <<rec, ran>>
      PROVE  TicketInv'
  BY <1>k, <1>s, TicketKept
<1>f. ASSUME NEW t, NEW u, Finish(q, u, t) PROVE Goto(q, u)
  BY <1>f DEF Finish
<1>r. ASSUME NEW t, Raise(q, t) PROVE Goto(q, "end") \/ Goto(q, "fail")
  BY <1>r DEF Raise, Finish
<1>t. ASSUME TakeOutcome(q) PROVE Goto(q, "end")
  BY <1>t DEF TakeOutcome, Finish
<1>w. ASSUME NEW p \in Replies, Untouched(p)
      PROVE  seen[p] = rec /\ rec \in Record
  BY <1>w DEF Untouched, WatchInv, TypeOK
<1>m. ASSUME NEW t \in {"end", "fail", "minted", "return"}, Goto(q, t),
             pc[q] \in Holding \/ t \in {"end", "fail"}
      PROVE  \A p \in Replies :
               /\ pc'[p] \in Holding \cup Joining => pc[p] \in Holding \cup Joining
               /\ pc'[p] \in Holding => pc[p] \in Holding
               /\ pc'[p] = "claimExec" => pc[p] = "claimExec"
  <2>1. pc'[q] = t /\ \A p \in Replies \ {q} : pc'[p] = pc[p]
    BY <1>m, <1>s, GotoAt DEF TypeOK
  <2> QED
    BY <1>m, <2>1, <1>s
<1>1. CASE ClaimRead(q)
  <2>1. CASE Goto(q, "claimExec") /\ Bound[q]
    BY <1>1, <2>1, <1>s, TicketKept DEF ClaimRead
  <2>2. CASE Goto(q, "load") /\ Verdict(rec, q) = "reclaimed"
    BY <1>1, <2>2, <1>s, <1>v, TicketKept DEF ClaimRead
  <2>3. CASE Goto(q, "join") /\ Verdict(rec, q) = "in_progress"
    BY <1>1, <2>3, <1>s, <1>v, TicketKept DEF ClaimRead
  <2>4. CASE Goto(q, "end")
    BY <1>1, <2>4, <1>k DEF ClaimRead
  <2> QED
    BY <1>1, <2>1, <2>2, <2>3, <2>4, <1>v, <1>f, <1>t DEF ClaimRead
<1>2. CASE ClaimExec(q)
  <2>1. seen[q] = rec /\ rec \in Record /\ rec' = Claimed(rec, q)
        /\ rec.status \in {"PENDING", "CLAIMED"} /\ Bound[q] /\ ran' = ran
    BY <1>2, <1>w DEF ClaimExec, WatchInv, TicketInv, Write
  <2>2. Claimed(rec, q) \in Record
    BY <2>1, ClaimedType DEF TypeOK
  <2>3. CASE rec.status = "PENDING"
    <3>1. Goto(q, "load")
      BY <1>2, <2>1, <2>3 DEF ClaimExec
    <3> QED
      BY <2>1, <2>2, <2>3, <3>1, ClaimedFields, TicketClaimed
  <2>4. CASE rec.status = "CLAIMED"
    <3>1. Goto(q, "end")
      BY <1>2, <2>1, <2>4, <1>f DEF ClaimExec
    <3> QED
      BY <2>1, <2>2, <2>4, <3>1, <1>m, ClaimedFields, TicketSettled
  <2> QED
    BY <2>1, <2>3, <2>4
<1>3. CASE ExecAborted(q)
  BY <1>3, <1>k, <1>f, <1>r DEF ExecAborted, storeVars
<1>4. CASE Load(q)
  BY <1>4, <1>s, <1>h, <1>k, <1>f, TicketKept DEF Load, storeVars
<1>5. CASE Reclaim(q)
  <2>1. CASE Goto(q, "reclaimExec") /\ ran' = ran
    BY <1>5, <2>1, <1>s, <1>h, TicketKept DEF Reclaim
  <2>2. CASE Goto(q, "run") /\ ran' = ran \cup {q}
    BY <1>5, <2>2, <1>s, <1>h, TicketKept DEF Reclaim
  <2>3. CASE (Goto(q, "end") \/ Goto(q, "fail")) /\ ran' = ran
    BY <1>5, <2>3, <1>k DEF Reclaim
  <2> QED
    BY <1>5, <2>1, <2>2, <2>3, <1>r DEF Reclaim
<1>6. CASE ReclaimExec(q)
  <2>1. seen[q] = rec /\ rec \in Record /\ rec' = Claimed(rec, q)
        /\ rec.status = "CLAIMED"
    BY <1>6, <1>w, <1>s, <1>h DEF ReclaimExec, WatchInv, Write
  <2>2. Claimed(rec, q) \in Record
    BY <2>1, ClaimedType DEF TypeOK
  <2>3. (Goto(q, "end") \/ Goto(q, "fail")) /\ ran' = ran
    BY <1>6, <2>1, <1>r DEF ReclaimExec
  <2> QED
    BY <2>1, <2>2, <2>3, <1>m, ClaimedFields, TicketSettled
<1>7. CASE RunSucceeds(q)
  BY <1>7, <1>s, <1>h, TicketKept DEF RunSucceeds, storeVars
<1>8. CASE RunFails(q)
  BY <1>8, <1>r, <1>k DEF RunFails, storeVars
<1>9. CASE CompleteRead(q)
  <2>1. PICK t \in {"mintExec", "completeExec", "minted", "return"} : Goto(q, t)
    BY <1>9 DEF CompleteRead
  <2> QED
    BY <1>9, <2>1, <1>s, <1>h, TicketKept DEF CompleteRead
<1>10. CASE CompleteExec(q)
  <2> DEFINE w == [rec EXCEPT !.status = "COMPLETED", !.outcome = q]
  <2>1. rec \in Record /\ rec' = w /\ rec.status = "CLAIMED" /\ ran' = ran
    BY <1>10, <1>w DEF CompleteExec, WatchInv, Write
  <2>2. w \in Record /\ w.status = "COMPLETED" /\ w.key = rec.key
        /\ w.by = rec.by /\ w.outcome = q
    BY <2>1, CompletedType, CompletedFields
  <2>3. PICK t \in {"minted", "return"} : Goto(q, t)
    BY <1>10 DEF CompleteExec
  <2>4. pc[q] \in Holding /\ KeyOf[q] = rec.key
    BY <1>10, <1>s, <1>h DEF CompleteExec
  <2> HIDE DEF w
  <2> QED
    BY <2>1, <2>2, <2>3, <2>4, <1>m, TicketSettled
<1>11. CASE Return(q)
  BY <1>11, <1>f, <1>k DEF Return, storeVars
<1>12. CASE FailRead(q)
  BY <1>12, <1>k DEF FailRead
<1>13. CASE FailExec(q)
  <2> DEFINE w == [rec EXCEPT !.status = "TERMINAL_FAILED"]
  <2>1. rec \in Record /\ rec' = w /\ rec.status = "CLAIMED" /\ ran' = ran
    BY <1>13, <1>w DEF FailExec, WatchInv, Write
  <2>2. w \in Record /\ w.status = "TERMINAL_FAILED" /\ w.key = rec.key
        /\ w.by = rec.by /\ w.outcome = rec.outcome
    BY <2>1, SetStatus, StatusFields DEF Status
  <2>3. Goto(q, "end")
    BY <1>13 DEF FailExec
  <2> HIDE DEF w
  <2> QED
    BY <2>1, <2>2, <2>3, <1>m, TicketSettled
<1>14. CASE JoinRead(q)
  <2>1. CASE Goto(q, "wait")
    BY <1>14, <2>1, <1>s, <1>j, TicketKept DEF JoinRead, storeVars
  <2>2. CASE Goto(q, "end") \/ Goto(q, "fail")
    BY <1>14, <2>2, <1>k DEF JoinRead, storeVars
  <2> QED
    BY <1>14, <2>1, <2>2, <1>t, <1>f DEF JoinRead
<1>15. CASE Wake(q)
  BY <1>15, <1>s, <1>j, TicketKept DEF Wake
<1>16. CASE Reread(q)
  BY <1>16, <1>t, <1>f, <1>k DEF Reread, storeVars
<1> QED
  BY <1>1, <1>2, <1>3, <1>4, <1>5, <1>6, <1>7, <1>8, <1>9, <1>10, <1>11, <1>12,
     <1>13, <1>14, <1>15, <1>16 DEF Serve

LEMMA TicketStep == SafeInv /\ [Next]_vars => TicketInv'
<1> SUFFICES ASSUME SafeInv, [Next]_vars PROVE TicketInv'
  OBVIOUS
<1> USE DEF SafeInv
<1>s. /\ {"end", "claim", "dead", "fail"} \subseteq Steps
      /\ {"end", "claim", "dead", "fail", "claimExec"} \cap (Holding \cup Joining) = {}
  BY DEF Steps, Budgeted, Tried, Holding, Joining
<1>k. ASSUME NEW q \in Replies, NEW t \in {"end", "claim", "dead", "fail"},
             Goto(q, t), UNCHANGED <<rec, ran>>
      PROVE  TicketInv'
  BY <1>k, <1>s, TicketKept
<1>1. CASE Mint
  <2>1. rec = Blank
    BY <1>1 DEF Mint, TicketInv
  <2>2. rec' = [Blank EXCEPT !.status = "PENDING"]
    BY <1>1 DEF Mint, Write
  <2>3. rec'.status = "PENDING" /\ rec'.key = None /\ rec'.outcome = None
    BY <2>2 DEF Blank
  <2>4. \A q \in Replies : pc[q] \notin Holding \cup Joining /\ q \notin ran
    BY <2>1 DEF TicketInv, Blank
  <2>5. pc' = pc /\ ran' = ran
    BY <1>1 DEF Mint, replyVars
  <2> QED
    BY <2>3, <2>4, <2>5 DEF TicketInv
<1>2. CASE Tick
  BY <1>2 DEF Tick, TicketInv, storeVars, replyVars
<1>3. CASE Expire
  <2> DEFINE w == [rec EXCEPT !.status = "EXPIRED"]
  <2>1. rec' = w /\ rec.status # "ABSENT" /\ ran' = ran /\ pc' = pc
    BY <1>3 DEF Expire, Write, replyVars
  <2>2. w \in Record /\ w.status = "EXPIRED" /\ w.key = rec.key
        /\ w.by = rec.by /\ w.outcome = rec.outcome
    BY SetStatus, StatusFields DEF TypeOK, Status
  <2>3. CASE rec.status = "PENDING"
    <3>1. \A q \in Replies : pc[q] \notin Holding \cup Joining /\ q \notin ran
      BY <2>3 DEF TicketInv
    <3> HIDE DEF w
    <3> QED
      BY <2>1, <2>2, <2>3, <3>1 DEF TicketInv
  <2>4. CASE rec.status # "PENDING"
    <3> HIDE DEF w
    <3> QED
      BY <2>1, <2>2, <2>4, TicketSettled
  <2> QED
    BY <2>3, <2>4
<1>4. ASSUME NEW q \in Replies, Arrive(q) PROVE TicketInv'
  BY <1>4, <1>k DEF Arrive, Finish, storeVars
<1>5. ASSUME NEW q \in Replies, Serve(q) PROVE TicketInv'
  BY <1>5, ServeTicket
<1>6. ASSUME NEW q \in Replies, Abort(q) PROVE TicketInv'
  BY <1>6, <1>k DEF Abort, Raise, Finish, storeVars
<1>7. ASSUME NEW q \in Replies, Crash(q) PROVE TicketInv'
  BY <1>7, <1>k DEF Crash, storeVars
<1>8. CASE UNCHANGED vars
  BY <1>8 DEF TicketInv, vars, storeVars, replyVars
<1> QED
  BY <1>1, <1>2, <1>3, <1>4, <1>5, <1>6, <1>7, <1>8 DEF Next

LEMMA ReplayStep == SafeInv /\ [Next]_vars => ReplayFaithful'
<1> SUFFICES ASSUME SafeInv, [Next]_vars PROVE ReplayFaithful'
  OBVIOUS
<1> USE DEF SafeInv
<1>1. ASSUME NEW q \in Replies, TakeOutcome(q), rec.key = KeyOf[q], Bound[q]
      PROVE  ReplayFaithful'
  <2>1. CASE UNCHANGED replayed
    BY <2>1 DEF ReplayFaithful
  <2>2. CASE replayed' = [replayed EXCEPT ![q] = rec.outcome]
    BY <1>1, <2>2 DEF ReplayFaithful, TicketInv, TypeOK
  <2> QED
    BY <1>1, <2>1, <2>2 DEF TakeOutcome
<1>2. ASSUME NEW q \in Replies, ClaimRead(q) PROVE ReplayFaithful'
  <2>1. CASE TakeOutcome(q) /\ Verdict(rec, q) = "completed"
    BY <1>1, <2>1, VerdictMeans
  <2>2. CASE UNCHANGED replayed
    BY <2>2 DEF ReplayFaithful
  <2> QED
    BY <1>2, <2>1, <2>2 DEF ClaimRead
<1>3. ASSUME NEW q \in Replies, pc[q] \in {"join", "reread"},
             TakeOutcome(q) \/ UNCHANGED replayed
      PROVE  ReplayFaithful'
  <2>1. rec.key = KeyOf[q] /\ Bound[q]
    BY <1>3 DEF TicketInv, Joining
  <2>2. CASE UNCHANGED replayed
    BY <2>2 DEF ReplayFaithful
  <2> QED
    BY <1>1, <1>3, <2>1, <2>2
<1>4. ASSUME NEW q \in Replies, JoinRead(q) PROVE ReplayFaithful'
  BY <1>3, <1>4 DEF JoinRead
<1>5. ASSUME NEW q \in Replies, Reread(q) PROVE ReplayFaithful'
  BY <1>3, <1>5 DEF Reread
<1>6. CASE UNCHANGED replayed
  BY <1>6 DEF ReplayFaithful
<1>7. ASSUME NEW q \in Replies, Serve(q), ~ClaimRead(q), ~JoinRead(q), ~Reread(q)
      PROVE  UNCHANGED replayed
  BY <1>7 DEF Serve, ClaimExec, ExecAborted, Load, Reclaim, ReclaimExec,
     RunSucceeds, RunFails, CompleteRead, CompleteExec, Return, FailRead,
     FailExec, Wake
<1>8. ASSUME Mint \/ Tick \/ Expire \/ UNCHANGED vars
      PROVE  UNCHANGED replayed
  BY <1>8 DEF Mint, Tick, Expire, vars, replyVars
<1>9. ASSUME NEW q \in Replies, Arrive(q) \/ Abort(q) \/ Crash(q)
      PROVE  UNCHANGED replayed
  BY <1>9 DEF Arrive, Abort, Crash
<1> QED
  BY <1>2, <1>4, <1>5, <1>6, <1>7, <1>8, <1>9 DEF Next

LEMMA SafeInit == Init => SafeInv
<1> SUFFICES ASSUME Init PROVE SafeInv
  OBVIOUS
<1>1. TypeOK
  BY TypeInit
<1>2. WatchInv
  BY DEF Init, WatchInv
<1>3. TicketInv
  BY DEF Init, TicketInv, Blank, Holding, Joining, Tried
<1>4. ReplayFaithful
  BY DEF Init, ReplayFaithful
<1> QED
  BY <1>1, <1>2, <1>3, <1>4 DEF SafeInv

LEMMA SafeStep == SafeInv /\ [Next]_vars => SafeInv'
BY TypeStep, WatchStep, TicketStep, ReplayStep DEF SafeInv

LEMMA Safe == Spec => []SafeInv
BY SafeInit, SafeStep, PTL DEF Spec

\* However replies arrive, retry, join, expire and crash, the turns dispatched
\* for a ticket all carry one run id.
THEOREM OneRunner == Spec => []AtMostOneRunner
<1>1. SafeInv => AtMostOneRunner
  <2> SUFFICES ASSUME SafeInv, NEW p \in ran, NEW q \in ran
               PROVE  RunOf[p] = RunOf[q]
    BY DEF AtMostOneRunner
  <2>1. p \in Replies /\ q \in Replies
    BY DEF SafeInv, TypeOK
  <2>2. rec.by = RunOf[p] /\ rec.by = RunOf[q]
    BY <2>1 DEF SafeInv, TicketInv
  <2> QED
    BY <2>2
<1> QED
  BY <1>1, Safe, PTL

\* A replayed outcome was produced under the key that is given it, for a reply
\* bound to the ticket's principal and thread.
THEOREM FaithfulReplay == Spec => []ReplayFaithful
<1>1. SafeInv => ReplayFaithful
  BY DEF SafeInv
<1> QED
  BY <1>1, Safe, PTL
-----------------------------------------------------------------------------
(* The record implements SingleUseContinuation.                             *)

Owner == IF rec.key = None THEN None ELSE <<rec.key, rec.by>>

LEMMA AbstractInit == Init => SingleUse!Init
BY DEF Init, Blank, SingleUse!Init

LEMMA AbstractStep == SafeInv /\ [Next]_vars => [SingleUse!Next]_(SingleUse!vars)
<1> SUFFICES ASSUME SafeInv, [Next]_vars
             PROVE  SingleUse!Next \/ UNCHANGED SingleUse!vars
  OBVIOUS
<1> USE DEF SafeInv
<1>u. ASSUME UNCHANGED rec PROVE UNCHANGED SingleUse!vars
  BY <1>u DEF SingleUse!vars
<1>w. ASSUME NEW q \in Replies, Untouched(q)
      PROVE  seen[q] = rec /\ rec \in Record
  BY <1>w DEF Untouched, WatchInv, TypeOK
\* The record's new status, and the rest of it.
<1>e. ASSUME NEW s \in {"TERMINAL_FAILED", "EXPIRED"},
             rec' = [rec EXCEPT !.status = s]
      PROVE  rec'.status = s /\ Owner' = Owner /\ rec'.outcome = rec.outcome
  BY <1>e, StatusFields DEF TypeOK, Status, Owner
\* A claim takes a pending record, or fails one whose lease is over.
<1>c. ASSUME NEW q \in Replies, rec' = Claimed(rec, q),
             rec.status \in {"PENDING", "CLAIMED"}
      PROVE  SingleUse!Next
  <2>1. CASE rec.status = "PENDING"
    <3>1. rec'.status = "CLAIMED" /\ rec'.key = KeyOf[q] /\ rec'.by = RunOf[q]
          /\ rec'.outcome = rec.outcome
      BY <1>c, <2>1, ClaimedFields DEF TypeOK
    <3>2. KeyOf[q] \in Keys /\ RunOf[q] \in RunIds /\ KeyOf[q] # None
      BY ConstantsAssumption
    <3>3. SingleUse!Take
      BY <2>1, <3>1, <3>2 DEF SingleUse!Take
    <3> QED
      BY <3>3 DEF SingleUse!Next
  <2>2. CASE rec.status = "CLAIMED"
    <3>1. rec'.status = "TERMINAL_FAILED" /\ rec'.key = rec.key
          /\ rec'.by = rec.by /\ rec'.outcome = rec.outcome
      BY <1>c, <2>2, ClaimedFields DEF TypeOK
    <3>2. SingleUse!Fail
      BY <2>2, <3>1 DEF SingleUse!Fail
    <3> QED
      BY <3>2 DEF SingleUse!Next
  <2> QED
    BY <1>c, <2>1, <2>2
<1>1. CASE Mint
  <2>1. rec.status = "ABSENT" /\ rec = Blank /\ rec' = [Blank EXCEPT !.status = "PENDING"]
    BY <1>1 DEF Mint, Write, TicketInv
  <2>2. rec'.status = "PENDING" /\ rec'.key = rec.key /\ rec'.by = rec.by
        /\ rec'.outcome = rec.outcome
    BY <2>1 DEF Blank
  <2> QED
    BY <2>1, <2>2 DEF SingleUse!Mint, SingleUse!Next
<1>2. CASE Tick
  BY <1>2, <1>u DEF Tick, storeVars
<1>3. CASE Expire
  <2>1. rec.status # "ABSENT" /\ rec' = [rec EXCEPT !.status = "EXPIRED"]
    BY <1>3 DEF Expire, Write
  <2>2. SingleUse!Vanish
    BY <2>1, <1>e DEF SingleUse!Vanish, Owner
  <2> QED
    BY <2>2 DEF SingleUse!Next
<1>4. ASSUME NEW q \in Replies, ClaimExec(q) PROVE SingleUse!Next
  <2>1. rec' = Claimed(rec, q) /\ rec.status \in {"PENDING", "CLAIMED"}
    BY <1>4, <1>w DEF ClaimExec, WatchInv, Write
  <2> QED
    BY <2>1, <1>c
<1>5. ASSUME NEW q \in Replies, ReclaimExec(q) PROVE SingleUse!Next
  <2>1. rec' = Claimed(rec, q) /\ rec.status \in {"PENDING", "CLAIMED"}
    BY <1>5, <1>w DEF ReclaimExec, WatchInv, Write
  <2> QED
    BY <2>1, <1>c
<1>6. ASSUME NEW q \in Replies, CompleteExec(q) PROVE SingleUse!Next
  <2>1. rec \in Record /\ rec.status = "CLAIMED"
        /\ rec' = [rec EXCEPT !.status = "COMPLETED", !.outcome = q]
    BY <1>6, <1>w DEF CompleteExec, WatchInv, Write
  <2>2. rec'.status = "COMPLETED" /\ rec'.key = rec.key /\ rec'.by = rec.by
        /\ rec'.outcome = q
    BY <2>1, CompletedFields
  <2> QED
    BY <2>1, <2>2 DEF SingleUse!Answer, SingleUse!Next
<1>7. ASSUME NEW q \in Replies, FailExec(q) PROVE SingleUse!Next
  <2>1. rec.status = "CLAIMED" /\ rec' = [rec EXCEPT !.status = "TERMINAL_FAILED"]
    BY <1>7, <1>w DEF FailExec, WatchInv, Write
  <2>2. SingleUse!Fail
    BY <2>1, <1>e DEF SingleUse!Fail, Owner
  <2> QED
    BY <2>2 DEF SingleUse!Next
<1>8. ASSUME NEW q \in Replies, Serve(q), ~ClaimExec(q), ~ReclaimExec(q),
             ~CompleteExec(q), ~FailExec(q)
      PROVE  UNCHANGED rec
  BY <1>8 DEF Serve, ClaimRead, ExecAborted, Load, Reclaim, RunSucceeds,
     RunFails, CompleteRead, Return, FailRead, JoinRead, Wake, Reread, storeVars
<1>9. ASSUME NEW q \in Replies, Arrive(q) \/ Abort(q) \/ Crash(q)
      PROVE  UNCHANGED rec
  BY <1>9 DEF Arrive, Abort, Crash, storeVars
<1>10. CASE UNCHANGED vars
  BY <1>10, <1>u DEF vars, storeVars
<1> QED
  BY <1>1, <1>2, <1>3, <1>4, <1>5, <1>6, <1>7, <1>8, <1>9, <1>10, <1>u DEF Next

\* The Redis record, with its watched transactions, its two-step failures and
\* its expiry, is a ticket taken once, settled once and never changed after.
THEOREM Refinement == Spec => SingleUseSpec
<1>1. Spec => SingleUse!Init /\ [][SingleUse!Next]_(SingleUse!vars)
  BY AbstractInit, AbstractStep, Safe, PTL DEF Spec
<1> QED
  BY <1>1 DEF SingleUseSpec, SingleUse!Spec
-----------------------------------------------------------------------------
(* Turns shorter than the lease.                                            *)

LEMMA HoldingBudgeted == Holding \subseteq Budgeted /\ "idle" \notin Budgeted
BY DEF Holding, Budgeted, Tried

LEMMA NoHolder ==
    ASSUME SafeInv, LeaseInv, ShortTurns, rec.status = "CLAIMED",
           now > rec.lease, NEW p \in Replies
    PROVE  pc[p] \notin Holding
<1> SUFFICES ASSUME pc[p] \in Holding PROVE FALSE
  OBVIOUS
<1>1. rec.by = RunOf[p]
  BY DEF SafeInv, TicketInv
<1>2. now <= arrived[p] + MaxTurn /\ arrived[p] + Lease <= rec.lease
  BY <1>1, HoldingBudgeted DEF LeaseInv, Timely
<1>3. now \in Nat /\ arrived[p] \in Nat /\ rec.lease \in Nat
  BY DEF SafeInv, TypeOK, Record
<1> QED
  BY <1>2, <1>3, ConstantsAssumption DEF ShortTurns

LEMMA OneHolder ==
    ASSUME SafeInv, ShortTurns, NEW q \in Replies, NEW p \in Replies \ {q},
           rec.by = RunOf[q]
    PROVE  pc[p] \notin Holding
BY DEF SafeInv, TicketInv, ShortTurns

\* A reply that is not idle moves, the record and the clock stay.
LEMMA LeaseKept ==
    ASSUME SafeInv, LeaseInv, NEW q \in Replies, NEW s \in Steps, Goto(q, s),
           UNCHANGED <<rec, now, arrived>>, s # "idle",
           s \in Budgeted => pc[q] \in Budgeted,
           s \in {"fail", "failExec"} =>
               /\ rec.status \notin {"ABSENT", "PENDING"}
               /\ rec.status = "CLAIMED" => rec.by = RunOf[q] \/ now > rec.lease,
           watching' = watching \/ watching' = watching \cup {q},
           s \in {"claimExec", "reclaimExec"} /\ rec.status = "CLAIMED" =>
               now > rec.lease,
           s \in Holding \ {"return", "minted"} =>
               rec.status \in {"CLAIMED", "EXPIRED"},
           s \in {"return", "minted"} \/ (result'[q] = "answered" /\ result[q] # "answered") =>
               rec.outcome = q \/ rec.status = "EXPIRED",
           \A p \in Replies \ {q} : result'[p] = result[p]
    PROVE  LeaseInv'
<1>1. pc'[q] = s /\ \A p \in Replies \ {q} : pc'[p] = pc[p]
  BY GotoAt DEF SafeInv, TypeOK
<1>2. Timely(q)' /\ Failing(q)' /\ Lapsing(q)' /\ Settling(q)'
  BY <1>1 DEF LeaseInv, Timely, Failing, Lapsing, Settling
<1>3. ASSUME NEW p \in Replies \ {q}
      PROVE  Timely(p)' /\ Failing(p)' /\ Lapsing(p)' /\ Settling(p)'
  BY <1>1, <1>3 DEF LeaseInv, Timely, Failing, Lapsing, Settling
<1> QED
  BY <1>2, <1>3 DEF LeaseInv

\* A claim is settled by a reply when nobody else holds it.
LEMMA LeaseSettled ==
    ASSUME SafeInv, LeaseInv, NEW q \in Replies,
           NEW s \in {"end", "fail", "return", "minted"}, Goto(q, s),
           NEW w \in Record, rec' = w, rec.status = "CLAIMED",
           w.status \in {"COMPLETED", "TERMINAL_FAILED"},
           w.outcome = rec.outcome \/ (w.outcome = q /\ w.status = "COMPLETED"),
           s \in {"return", "minted"} => w.outcome = q,
           \A p \in Replies \ {q} : pc[p] \notin Holding,
           watching' = {}, UNCHANGED <<now, arrived>>,
           pc[q] \in Budgeted \/ s \in {"end", "fail"},
           \A p \in Replies : result'[p] = "answered" => result[p] = "answered"
    PROVE  LeaseInv'
<1>1. pc'[q] = s /\ \A p \in Replies \ {q} : pc'[p] = pc[p]
  BY GotoAt DEF SafeInv, TypeOK
<1>2. rec.outcome = None /\ None \notin Replies
  BY ConstantsAssumption DEF LeaseInv
<1>3. {"end", "fail"} \cap Budgeted = {} /\ {"return", "minted"} \subseteq Holding
      /\ {"end", "fail"} \cap Holding = {}
  BY DEF Budgeted, Holding, Tried
<1>4. \A p \in Replies : result[p] # "answered"
  BY <1>2 DEF LeaseInv, Settling
<1>5. Timely(q)' /\ Failing(q)' /\ Lapsing(q)' /\ Settling(q)'
  BY <1>1, <1>3, <1>4 DEF LeaseInv, Timely, Failing, Lapsing, Settling
<1>6. ASSUME NEW p \in Replies \ {q}
      PROVE  Timely(p)' /\ Failing(p)' /\ Lapsing(p)' /\ Settling(p)'
  BY <1>1, <1>3, <1>4, <1>6 DEF LeaseInv, Timely, Failing, Lapsing, Settling
<1> QED
  BY <1>2, <1>5, <1>6 DEF LeaseInv

\* A pending record is claimed.
LEMMA LeaseClaimed ==
    ASSUME SafeInv, LeaseInv, ShortTurns, NEW q \in Replies, Goto(q, "load"),
           pc[q] \in Budgeted, NEW w \in Record, rec' = w,
           rec.status = "PENDING", w.status = "CLAIMED", w.by = RunOf[q],
           w.lease = now + Lease, w.outcome = rec.outcome,
           watching' = {}, UNCHANGED <<now, arrived, result>>
    PROVE  LeaseInv'
<1>1. pc'[q] = "load" /\ \A p \in Replies \ {q} : pc'[p] = pc[p]
  BY GotoAt DEF SafeInv, TypeOK
<1>2. rec.outcome = None /\ None \notin Replies
  BY ConstantsAssumption DEF SafeInv, TicketInv
<1>3. \A p \in Replies : result[p] # "answered" /\ pc[p] \notin Holding
  BY <1>2 DEF LeaseInv, Settling, SafeInv, TicketInv
<1>4. {"return", "minted"} \subseteq Holding /\ "load" \notin {"return", "minted"}
  BY DEF Holding, Tried
<1>5. now \in Nat /\ arrived[q] \in Nat /\ Lease \in Nat /\ arrived[q] <= now
  BY ConstantsAssumption DEF SafeInv, TypeOK, LeaseInv, Timely
<1>6. Timely(q)' /\ Failing(q)' /\ Lapsing(q)' /\ Settling(q)'
  BY <1>1, <1>3, <1>5 DEF LeaseInv, Timely, Failing, Lapsing, Settling
<1>7. ASSUME NEW p \in Replies \ {q}
      PROVE  Timely(p)' /\ Failing(p)' /\ Lapsing(p)' /\ Settling(p)'
  BY <1>1, <1>3, <1>4, <1>7 DEF LeaseInv, Timely, Failing, Lapsing, Settling,
     ShortTurns
<1> QED
  BY <1>2, <1>6, <1>7 DEF LeaseInv

LEMMA ServeLease ==
    ASSUME SafeInv, LeaseInv, ShortTurns, NEW q \in Replies, Serve(q)
    PROVE  LeaseInv'
<1>s. /\ {"claim", "claimExec", "load", "mint", "mintExec", "minted", "join",
          "wait", "reread", "reclaim", "reclaimExec", "run", "complete",
          "completeExec", "return"} \subseteq Steps \cap Budgeted
      /\ {"fail", "failExec", "end"} \subseteq Steps \ (Budgeted \cup Holding)
      /\ {"load", "mint", "mintExec", "reclaim", "reclaimExec", "run",
          "complete", "completeExec"} \subseteq Holding \ {"return", "minted"}
      /\ {"return", "minted"} \subseteq Holding
      /\ {"claim", "claimExec", "join", "wait", "reread", "idle"} \cap Holding = {}
      /\ Tried \subseteq Holding /\ Holding \subseteq Budgeted
  BY DEF Steps, Budgeted, Tried, Holding
<1>h. ASSUME pc[q] \in Holding
      PROVE  /\ rec.status \notin {"ABSENT", "PENDING"} /\ rec.by = RunOf[q]
             /\ ~(rec.status = "CLAIMED" /\ now > rec.lease)
             /\ pc[q] \notin {"return", "minted"} =>
                    rec.status \in {"CLAIMED", "EXPIRED"}
  BY <1>h, NoHolder DEF SafeInv, TicketInv, LeaseInv, Settling
<1>f. ASSUME NEW t, NEW u, Finish(q, u, t)
      PROVE  /\ Goto(q, u) /\ result'[q] = t
             /\ \A p \in Replies \ {q} : result'[p] = result[p]
  BY <1>f DEF Finish, SafeInv, TypeOK
\* A reply ends with an error, or starts to fail its claim.
<1>e. ASSUME NEW t, t # "answered", Finish(q, "end", t),
             UNCHANGED <<rec, now, arrived, watching>>
      PROVE  LeaseInv'
  BY <1>e, <1>f, <1>s, LeaseKept
<1>r. ASSUME NEW t, t # "answered", Raise(q, t),
             UNCHANGED <<rec, now, arrived, watching>>
      PROVE  LeaseInv'
  <2>1. CASE pc[q] \in Tried
    <3>1. Finish(q, "fail", t)
      BY <1>r, <2>1 DEF Raise
    <3> QED
      BY <1>r, <2>1, <3>1, <1>f, <1>s, <1>h, LeaseKept
  <2>2. CASE pc[q] \notin Tried
    BY <1>r, <2>2, <1>e DEF Raise
  <2> QED
    BY <2>1, <2>2
<1>g. ASSUME NEW s \in Steps, Goto(q, s), UNCHANGED <<rec, now, arrived, result>>,
             s \in Budgeted, pc[q] \in Budgeted, s \notin {"return", "minted"},
             s \in Holding => rec.status \in {"CLAIMED", "EXPIRED"},
             watching' = watching \/ watching' = watching \cup {q},
             s \in {"claimExec", "reclaimExec"} /\ rec.status = "CLAIMED" =>
                 now > rec.lease
      PROVE  LeaseInv'
  <2>1. s # "idle" /\ s \notin {"fail", "failExec"}
    BY <1>g, <1>s, HoldingBudgeted
  <2> QED
    BY <1>g, <2>1, LeaseKept
<1>t. ASSUME TakeOutcome(q), UNCHANGED <<rec, now, arrived, watching>>
      PROVE  LeaseInv'
  BY <1>t, <1>e DEF TakeOutcome
<1>w. ASSUME NEW p \in Replies, Untouched(p)
      PROVE  seen[p] = rec /\ rec \in Record /\ p \in watching
  BY <1>w DEF Untouched, SafeInv, WatchInv, TypeOK
\* The lapsed claim of somebody else is failed.
<1>l. ASSUME rec' = Claimed(rec, q), rec.status = "CLAIMED", now > rec.lease,
             Goto(q, "end"), watching' = {}, UNCHANGED <<now, arrived>>,
             \A p \in Replies : result'[p] = "answered" => result[p] = "answered"
      PROVE  LeaseInv'
  <2>1. Claimed(rec, q) \in Record
    BY ClaimedType DEF SafeInv, TypeOK
  <2>2. /\ Claimed(rec, q).status = "TERMINAL_FAILED"
        /\ Claimed(rec, q).outcome = rec.outcome
    BY <1>l, ClaimedFields DEF SafeInv, TypeOK
  <2>3. \A p \in Replies \ {q} : pc[p] \notin Holding
    BY <1>l, NoHolder
  <2> QED
    BY <1>l, <2>1, <2>2, <2>3, LeaseSettled
<1>1. CASE ClaimRead(q)
  <2>1. CASE Verdict(rec, q) \in {"claimed", "lapsed"}
    <3>1. rec.status = "CLAIMED" => now > rec.lease
      BY <2>1 DEF Verdict, SameOwner
    <3>2. "claimExec" \in Steps /\ "claimExec" \in Budgeted
          /\ "claimExec" \notin {"return", "minted"} /\ "claimExec" \notin Holding
      BY <1>s
    <3>3. /\ Goto(q, "claimExec") /\ UNCHANGED <<rec, now, arrived, result>>
          /\ watching' = watching \cup {q} /\ pc[q] \in Budgeted
      BY <1>1, <2>1, <1>s DEF ClaimRead, Watch
    <3> QED
      BY <3>1, <3>2, <3>3, <1>g
  <2>2. CASE Verdict(rec, q) = "reclaimed"
    <3>1. rec.status = "CLAIMED"
      BY <2>2 DEF Verdict, SameOwner
    <3> QED
      BY <1>1, <2>2, <3>1, <1>s, <1>g DEF ClaimRead
  <2>3. CASE Verdict(rec, q) = "in_progress"
    BY <1>1, <2>3, <1>s, <1>g DEF ClaimRead
  <2>4. CASE Verdict(rec, q) \in {"completed", "rejected"}
    BY <1>1, <2>4, <1>t, <1>e DEF ClaimRead
  <2> QED
    BY <1>1, <2>1, <2>2, <2>3, <2>4 DEF ClaimRead
<1>2. CASE ClaimExec(q)
  <2>1. seen[q] = rec /\ rec \in Record /\ rec' = Claimed(rec, q)
        /\ rec.status \in {"PENDING", "CLAIMED"} /\ q \in watching
        /\ watching' = {} /\ UNCHANGED <<now, arrived>>
    BY <1>2, <1>w DEF ClaimExec, SafeInv, WatchInv, Write
  <2>2. CASE rec.status = "PENDING"
    <3>1. Goto(q, "load") /\ UNCHANGED result /\ pc[q] \in Budgeted
      BY <1>2, <2>1, <2>2, <1>s DEF ClaimExec
    <3>2. Claimed(rec, q) \in Record
      BY ClaimedType DEF SafeInv, TypeOK
    <3> QED
      BY <2>1, <2>2, <3>1, <3>2, ClaimedFields, LeaseClaimed
  <2>3. CASE rec.status = "CLAIMED"
    <3>1. Finish(q, "end", "rejected")
      BY <1>2, <2>1, <2>3 DEF ClaimExec
    <3>2. now > rec.lease
      BY <1>2, <2>1, <2>3 DEF ClaimExec, LeaseInv, Lapsing
    <3> QED
      BY <2>1, <2>3, <3>1, <3>2, <1>f, <1>l
  <2> QED
    BY <2>1, <2>2, <2>3
<1>3. CASE ExecAborted(q)
  BY <1>3, <1>r, <1>e DEF ExecAborted, storeVars
<1>4. CASE Load(q)
  <2>1. pc[q] = "load" /\ UNCHANGED <<rec, now, arrived, watching>>
    BY <1>4 DEF Load, storeVars
  <2>2. rec.status \in {"CLAIMED", "EXPIRED"}
    BY <2>1, <1>s, <1>h
  <2>3. CASE Finish(q, "end", "not found")
    BY <2>1, <2>3, <1>e
  <2>4. CASE Goto(q, "mint") /\ UNCHANGED result
    BY <2>1, <2>2, <2>4, <1>s, <1>g
  <2>5. CASE Goto(q, "reclaim") /\ UNCHANGED result
    BY <2>1, <2>2, <2>5, <1>s, <1>g
  <2> QED
    BY <1>4, <2>3, <2>4, <2>5 DEF Load
<1>5. CASE Reclaim(q)
  <2>1. pc[q] = "reclaim" /\ UNCHANGED <<rec, now, arrived>>
    BY <1>5 DEF Reclaim
  <2>2. rec.status \in {"CLAIMED", "EXPIRED"}
        /\ ~(rec.status = "CLAIMED" /\ now > rec.lease)
    BY <2>1, <1>s, <1>h
  <2>3. Verdict(rec, q) \notin {"claimed", "lapsed"}
    BY <2>2 DEF Verdict, SameOwner
  <2>4. CASE Goto(q, "run") /\ UNCHANGED <<watching, result>>
    BY <2>1, <2>2, <2>4, <1>s, <1>g
  <2>5. CASE Raise(q, "rejected") /\ UNCHANGED watching
    BY <2>1, <2>5, <1>r
  <2> QED
    BY <1>5, <2>3, <2>4, <2>5 DEF Reclaim
<1>6. CASE ReclaimExec(q)
  <2>1. pc[q] = "reclaimExec" /\ q \in watching /\ seen[q] = rec
        /\ rec.status \in {"PENDING", "CLAIMED"}
    BY <1>6, <1>w DEF ReclaimExec, SafeInv, WatchInv
  <2>2. rec.status = "CLAIMED" /\ ~(now > rec.lease)
    BY <2>1, <1>s, <1>h
  <2> QED
    BY <2>1, <2>2 DEF LeaseInv, Lapsing
<1>7. CASE RunSucceeds(q)
  <2>1. rec.status \in {"CLAIMED", "EXPIRED"}
    BY <1>7, <1>s, <1>h DEF RunSucceeds
  <2> QED
    BY <1>7, <2>1, <1>s, <1>g DEF RunSucceeds, storeVars
<1>8. CASE RunFails(q)
  BY <1>8, <1>r DEF RunFails, storeVars
<1>9. CASE CompleteRead(q)
  <2>1. pc[q] \in Budgeted /\ UNCHANGED <<rec, now, arrived, result>>
    BY <1>9, <1>s DEF CompleteRead
  <2>2. CASE rec.status = "CLAIMED"
    <3>1. PICK s \in {"mintExec", "completeExec"} : Goto(q, s)
      BY <1>9, <2>2 DEF CompleteRead
    <3>2. watching' = watching \cup {q}
      BY <1>9, <2>2 DEF CompleteRead, Watch
    <3> QED
      BY <2>1, <2>2, <3>1, <3>2, <1>s, <1>g
  <2>3. CASE rec.status # "CLAIMED"
    <3>1. PICK s \in {"minted", "return"} : Goto(q, s)
      BY <1>9, <2>3 DEF CompleteRead
    <3>2. rec.status = "EXPIRED" /\ watching' = watching
      BY <1>9, <2>3, <1>s, <1>h DEF CompleteRead
    <3> QED
      BY <2>1, <3>1, <3>2, <1>s, LeaseKept
  <2> QED
    BY <2>2, <2>3
<1>10. CASE CompleteExec(q)
  <2> DEFINE w == [rec EXCEPT !.status = "COMPLETED", !.outcome = q]
  <2>1. /\ rec \in Record /\ rec' = w /\ rec.status = "CLAIMED"
        /\ watching' = {} /\ UNCHANGED <<now, arrived, result>>
        /\ pc[q] \in Budgeted
    BY <1>10, <1>w, <1>s DEF CompleteExec, SafeInv, WatchInv, Write
  <2>2. w \in Record /\ w.status = "COMPLETED" /\ w.outcome = q
    BY <2>1, CompletedType, CompletedFields
  <2>3. PICK s \in {"minted", "return"} : Goto(q, s)
    BY <1>10 DEF CompleteExec
  <2>4. \A p \in Replies \ {q} : pc[p] \notin Holding
    BY <1>10, <1>s, <1>h, OneHolder DEF CompleteExec
  <2> HIDE DEF w
  <2> QED
    BY <2>1, <2>2, <2>3, <2>4, LeaseSettled
<1>11. CASE Return(q)
  <2>1. rec.outcome = q \/ rec.status = "EXPIRED"
    BY <1>11 DEF Return, LeaseInv, Settling
  <2> QED
    BY <1>11, <2>1, <1>f, <1>s, LeaseKept DEF Return, storeVars
<1>12. CASE FailRead(q)
  <2>1. pc[q] = "fail" /\ UNCHANGED <<rec, now, arrived, result>>
    BY <1>12 DEF FailRead
  <2>2. rec.status = "CLAIMED" => rec.by = RunOf[q] \/ now > rec.lease
    BY <2>1 DEF LeaseInv, Failing
  <2>3. CASE rec.status = "CLAIMED"
    BY <1>12, <2>1, <2>2, <2>3, <1>s, LeaseKept DEF FailRead, Watch
  <2>4. CASE rec.status # "CLAIMED"
    BY <1>12, <2>1, <2>4, <1>s, LeaseKept DEF FailRead
  <2> QED
    BY <2>3, <2>4
<1>13. CASE FailExec(q)
  <2> DEFINE w == [rec EXCEPT !.status = "TERMINAL_FAILED"]
  <2>1. /\ rec \in Record /\ rec' = w /\ rec.status = "CLAIMED"
        /\ watching' = {} /\ UNCHANGED <<now, arrived, result>>
        /\ pc[q] = "failExec" /\ Goto(q, "end")
    BY <1>13, <1>w DEF FailExec, SafeInv, WatchInv, Write
  <2>2. w \in Record /\ w.status = "TERMINAL_FAILED" /\ w.outcome = rec.outcome
    BY <2>1, SetStatus, StatusFields DEF Status
  <2>3. rec.by = RunOf[q] \/ now > rec.lease
    BY <2>1 DEF LeaseInv, Failing
  <2>4. \A p \in Replies \ {q} : pc[p] \notin Holding
    BY <2>1, <2>3, OneHolder, NoHolder
  <2> HIDE DEF w
  <2> QED
    BY <2>1, <2>2, <2>4, LeaseSettled
<1>14. CASE JoinRead(q)
  <2>1. pc[q] = "join" /\ UNCHANGED <<rec, now, arrived, watching>>
    BY <1>14 DEF JoinRead, storeVars
  <2>2. CASE TakeOutcome(q)
    BY <2>1, <2>2, <1>t
  <2>3. CASE Finish(q, "fail", "unavailable") /\ rec.status = "CLAIMED"
             /\ now > rec.lease
    BY <2>1, <2>3, <1>f, <1>s, LeaseKept
  <2>4. CASE Goto(q, "wait") /\ UNCHANGED result
    BY <2>1, <2>4, <1>s, <1>g
  <2>5. CASE Finish(q, "end", "unavailable")
    BY <2>1, <2>5, <1>e
  <2> QED
    BY <1>14, <2>2, <2>3, <2>4, <2>5 DEF JoinRead, Open
<1>15. CASE Wake(q)
  BY <1>15, <1>s, <1>g DEF Wake
<1>16. CASE Reread(q)
  BY <1>16, <1>t, <1>e DEF Reread, storeVars
<1> QED
  BY <1>1, <1>2, <1>3, <1>4, <1>5, <1>6, <1>7, <1>8, <1>9, <1>10, <1>11, <1>12,
     <1>13, <1>14, <1>15, <1>16 DEF Serve

LEMMA LeaseInit == Init /\ ShortTurns => LeaseInv
BY DEF Init, Blank, LeaseInv, Timely, Failing, Lapsing, Settling, Budgeted,
   Holding, Tried

LEMMA LeaseStep == SafeInv /\ LeaseInv /\ ShortTurns /\ [Next]_vars => LeaseInv'
<1> SUFFICES ASSUME SafeInv, LeaseInv, ShortTurns, [Next]_vars PROVE LeaseInv'
  OBVIOUS
<1>s. /\ {"end", "dead", "fail"} \subseteq Steps \ (Budgeted \cup Holding)
      /\ "claim" \in Budgeted \ Holding /\ "idle" \notin Budgeted
      /\ Tried \subseteq Holding
  BY DEF Steps, Budgeted, Tried, Holding
<1>f. ASSUME NEW q \in Replies, NEW t, NEW u, Finish(q, u, t)
      PROVE  /\ Goto(q, u) /\ result'[q] = t
             /\ \A p \in Replies \ {q} : result'[p] = result[p]
  BY <1>f DEF Finish, SafeInv, TypeOK
<1>1. CASE Mint
  <2>1. rec = Blank /\ rec' = [Blank EXCEPT !.status = "PENDING"]
    BY <1>1 DEF Mint, Write, SafeInv, TicketInv
  <2>2. rec'.status = "PENDING" /\ rec'.outcome = None
        /\ rec.status = "ABSENT" /\ rec.outcome = None /\ None \notin Replies
    BY <2>1, ConstantsAssumption DEF Blank
  <2>3. UNCHANGED <<now, pc, arrived, result>> /\ watching' = {}
    BY <1>1 DEF Mint, Write, replyVars
  <2>4. ASSUME NEW q \in Replies
        PROVE  Timely(q)' /\ Failing(q)' /\ Lapsing(q)' /\ Settling(q)'
    <3>1. /\ Timely(q) /\ Failing(q) /\ Settling(q)
          /\ pc[q] \notin Holding \cup {"return", "minted"}
      BY <2>2 DEF LeaseInv, SafeInv, TicketInv, Settling
    <3> QED
      BY <2>2, <2>3, <3>1 DEF Timely, Failing, Lapsing, Settling
  <2> QED
    BY <2>2, <2>4 DEF LeaseInv
<1>2. CASE Tick
  <2>1. ASSUME NEW q \in Replies
        PROVE  Timely(q)' /\ Failing(q)' /\ Lapsing(q)' /\ Settling(q)'
    <3>1. now \in Nat /\ now' = now + 1 /\ arrived[q] \in Nat
          /\ rec.lease \in Nat /\ MaxTurn \in Nat
      BY <1>2, ConstantsAssumption DEF Tick, SafeInv, TypeOK, Record
    <3>2. UNCHANGED <<rec, watching, pc, arrived, result>>
          /\ (pc[q] \in Budgeted => now < arrived[q] + MaxTurn)
      BY <1>2 DEF Tick, storeVars, replyVars
    <3> QED
      BY <3>1, <3>2 DEF LeaseInv, Timely, Failing, Lapsing, Settling
  <2>2. rec' = rec
    BY <1>2 DEF Tick, storeVars
  <2> QED
    BY <2>1, <2>2 DEF LeaseInv
<1>3. CASE Expire
  <2>1. rec'.status = "EXPIRED" /\ watching' = {}
        /\ UNCHANGED <<now, pc, arrived, result>>
    BY <1>3, StatusFields DEF Expire, Write, replyVars, SafeInv, TypeOK, Status
  <2> QED
    BY <2>1 DEF LeaseInv, Timely, Failing, Lapsing, Settling
<1>4. ASSUME NEW q \in Replies, Arrive(q) PROVE LeaseInv'
  <2>1. /\ pc[q] = "idle" /\ UNCHANGED <<rec, watching, now>> /\ now \in Nat
        /\ arrived' = [arrived EXCEPT ![q] = now] /\ MaxTurn \in Nat
    BY <1>4, ConstantsAssumption DEF Arrive, storeVars, SafeInv, TypeOK
  <2>2. PICK s \in {"end", "claim"} :
            /\ Goto(q, s)
            /\ \A p \in Replies : result'[p] = "answered" => result[p] = "answered"
    BY <1>4, <1>f DEF Arrive
  <2>3. pc'[q] = s /\ \A p \in Replies \ {q} : pc'[p] = pc[p]
    BY <2>2, GotoAt DEF SafeInv, TypeOK
  <2>4. arrived'[q] = now /\ \A p \in Replies \ {q} : arrived'[p] = arrived[p]
    BY <2>1 DEF SafeInv, TypeOK
  <2>5. Timely(q)' /\ Failing(q)' /\ Lapsing(q)' /\ Settling(q)'
    BY <2>1, <2>2, <2>3, <2>4, <1>s DEF LeaseInv, Timely, Failing, Lapsing, Settling
  <2>6. ASSUME NEW p \in Replies \ {q}
        PROVE  Timely(p)' /\ Failing(p)' /\ Lapsing(p)' /\ Settling(p)'
    BY <2>1, <2>2, <2>3, <2>4, <2>6 DEF LeaseInv, Timely, Failing, Lapsing, Settling
  <2> QED
    BY <2>1, <2>5, <2>6 DEF LeaseInv
<1>5. ASSUME NEW q \in Replies, Serve(q) PROVE LeaseInv'
  BY <1>5, ServeLease
<1>6. ASSUME NEW q \in Replies, Abort(q) PROVE LeaseInv'
  <2>1. UNCHANGED <<rec, now, arrived, watching>>
    BY <1>6 DEF Abort, storeVars
  <2>2. CASE pc[q] \in Tried
    <3>1. Finish(q, "fail", "cancelled")
      BY <1>6, <2>2 DEF Abort, Raise
    <3>2. rec.status \notin {"ABSENT", "PENDING"} /\ rec.by = RunOf[q]
      BY <2>2, <1>s DEF SafeInv, TicketInv
    <3> QED
      BY <2>1, <3>1, <3>2, <1>f, <1>s, LeaseKept
  <2>3. CASE pc[q] \notin Tried
    <3>1. Finish(q, "end", "cancelled")
      BY <1>6, <2>3 DEF Abort, Raise
    <3> QED
      BY <2>1, <3>1, <1>f, <1>s, LeaseKept
  <2> QED
    BY <2>2, <2>3
<1>7. ASSUME NEW q \in Replies, Crash(q) PROVE LeaseInv'
  BY <1>7, <1>s, LeaseKept DEF Crash, storeVars
<1>8. CASE UNCHANGED vars
  BY <1>8 DEF vars, storeVars, replyVars, LeaseInv, Timely, Failing, Lapsing,
     Settling
<1> QED
  BY <1>1, <1>2, <1>3, <1>4, <1>5, <1>6, <1>7, <1>8 DEF Next

LEMMA Leases == ASSUME ShortTurns PROVE Spec => []LeaseInv
<1>1. Init => LeaseInv
  BY LeaseInit
<1>2. SafeInv /\ LeaseInv /\ [Next]_vars => LeaseInv'
  BY LeaseStep
<1> QED
  BY <1>1, <1>2, Safe, PTL DEF Spec

\* A turn shorter than the lease is never robbed of its claim: this is what the
\* lease is for; a turn that outlives its lease can lose its claim to a retry.
THEOREM HolderSafe == ASSUME ShortTurns PROVE Spec => []HolderKeepsClaim
<1>1. SafeInv /\ LeaseInv => HolderKeepsClaim
  BY DEF SafeInv, TicketInv, LeaseInv, Settling, HolderKeepsClaim, Holding, Tried
<1> QED
  BY <1>1, Safe, Leases, PTL

\* An answer given to the client is the one its retries are given.
THEOREM AnswerStored == ASSUME ShortTurns PROVE Spec => []AnsweredIsStored
<1>1. LeaseInv => AnsweredIsStored
  BY DEF LeaseInv, Settling, AnsweredIsStored
<1> QED
  BY <1>1, Leases, PTL
-----------------------------------------------------------------------------
(* A turn that failed settles its ticket.                                   *)

\* Where the abstract ticket is settled it stays so.
LEMMA SettledKept == SafeInv /\ [Next]_vars /\ Settled => Settled'
<1> SUFFICES ASSUME SafeInv, [Next]_vars, Settled PROVE Settled'
  OBVIOUS
<1>1. SingleUse!Next \/ UNCHANGED SingleUse!vars
  BY AbstractStep
<1>2. CASE SingleUse!Next
  BY <1>2 DEF Settled, SingleUse!Next, SingleUse!Mint, SingleUse!Take,
     SingleUse!Answer, SingleUse!Fail, SingleUse!Vanish
<1>3. CASE UNCHANGED SingleUse!vars
  BY <1>3 DEF Settled, SingleUse!vars
<1> QED
  BY <1>1, <1>2, <1>3

\* A claimed ticket is the only one that a reply that ran has left to settle.
LEMMA RanSettled ==
    ASSUME SafeInv, NEW q \in ran, rec.status # "CLAIMED"
    PROVE  Settled
<1>1. rec.status \in Status /\ rec.status \notin {"ABSENT", "PENDING"}
  BY DEF SafeInv, TypeOK, TicketInv, Record
<1> QED
  BY <1>1 DEF Settled, Status

\* FailInv for the replies a step does not move.
LEMMA FailOthers ==
    ASSUME FailInv, Settled => Settled', ran \subseteq ran',
           NEW q \in Replies, NEW p \in Replies \ {q},
           pc'[p] = pc[p], result'[p] = result[p]
    PROVE  /\ pc'[p] = "run" => p \in ran'
           /\ result'[p] = "failed" =>
                  /\ p \in ran'
                  /\ pc'[p] \in {"fail", "failExec", "end", "dead"}
                  /\ pc'[p] = "end" => Settled'
BY DEF FailInv

\* A step that gives reply q a result, or moves it with the result it has.
LEMMA FailMoved ==
    ASSUME SafeInv, FailInv, Settled => Settled', ran \subseteq ran',
           NEW q \in Replies, NEW s, NEW t, s = "run" => q \in ran',
           \/ Finish(q, s, t)
           \/ Goto(q, s) /\ t = result[q] /\ UNCHANGED result,
           t = "failed" => /\ q \in ran'
                           /\ s \in {"fail", "failExec", "end", "dead"}
                           /\ s = "end" => Settled'
    PROVE  FailInv'
<1>1. pc \in [Replies -> Steps] /\ result \in [Replies -> Results]
  BY DEF SafeInv, TypeOK
<1>2. pc'[q] = s /\ result'[q] = t
  BY <1>1 DEF Finish, Goto
<1>3. \A p \in Replies \ {q} : pc'[p] = pc[p] /\ result'[p] = result[p]
  BY <1>1 DEF Finish, Goto
<1> SUFFICES ASSUME NEW p \in Replies
             PROVE /\ pc'[p] = "run" => p \in ran'
                   /\ result'[p] = "failed" =>
                          /\ p \in ran'
                          /\ pc'[p] \in {"fail", "failExec", "end", "dead"}
                          /\ pc'[p] = "end" => Settled'
  BY DEF FailInv
<1>4. CASE p = q
  BY <1>2, <1>4
<1>5. CASE p # q
  BY <1>3, <1>5, FailOthers
<1> QED
  BY <1>4, <1>5

\* The two outcomes of a step that raises.
LEMMA RaiseMoves ==
    ASSUME NEW q \in Replies, NEW t, Raise(q, t)
    PROVE  Finish(q, "fail", t) \/ (pc[q] \notin Tried /\ Finish(q, "end", t))
BY DEF Raise

LEMMA ServeFails ==
    ASSUME SafeInv, FailInv, Settled => Settled', NEW q \in Replies, Serve(q)
    PROVE  FailInv'
<1>q. /\ pc[q] = "run" => q \in ran
      /\ result[q] = "failed" => q \in ran
      /\ result[q] = "failed" => pc[q] \in {"fail", "failExec", "end", "dead"}
  BY DEF FailInv
<1>e. ASSUME NEW t, t # "failed", Finish(q, "end", t) \/ Raise(q, t),
             ran \subseteq ran'
      PROVE  FailInv'
  BY <1>e, RaiseMoves, FailMoved
<1>g. ASSUME NEW s, s # "run", Goto(q, s), UNCHANGED result, ran' = ran,
             pc[q] \notin {"fail", "failExec", "end", "dead"}
      PROVE  FailInv'
  BY <1>g, <1>q, FailMoved
<1>t. TakeOutcome(q) =>
          Finish(q, "end", "replayed") \/ Finish(q, "end", "rejected")
  BY DEF TakeOutcome
<1>1. CASE ClaimRead(q)
  BY <1>1, <1>e, <1>g, <1>t DEF ClaimRead
<1>2. CASE ClaimExec(q)
  BY <1>2, <1>e, <1>g DEF ClaimExec
<1>3. CASE ExecAborted(q)
  BY <1>3, <1>e DEF ExecAborted
<1>4. CASE Load(q)
  <2>1. CASE Finish(q, "end", "not found")
    BY <1>4, <2>1, <1>e DEF Load
  <2>2. CASE ~Finish(q, "end", "not found")
    <3>1. PICK s \in {"mint", "reclaim"} : Goto(q, s)
      BY <1>4, <2>2 DEF Load
    <3> QED
      BY <1>4, <2>2, <3>1, <1>g DEF Load
  <2> QED
    BY <2>1, <2>2
<1>5. CASE Reclaim(q)
  <2>1. CASE Goto(q, "run") /\ ran' = ran \cup {q} /\ UNCHANGED result
    BY <1>5, <2>1, <1>q, FailMoved DEF Reclaim
  <2> QED
    BY <1>5, <2>1, <1>e, <1>g DEF Reclaim
<1>6. CASE ReclaimExec(q)
  <2>1. CASE Goto(q, "run") /\ ran' = ran \cup {q} /\ UNCHANGED result
    BY <1>6, <2>1, <1>q, FailMoved DEF ReclaimExec
  <2> QED
    BY <1>6, <2>1, <1>e DEF ReclaimExec
<1>7. CASE RunSucceeds(q)
  BY <1>7, <1>g DEF RunSucceeds
<1>8. CASE RunFails(q)
  <2>1. Finish(q, "fail", "failed") /\ q \in ran /\ ran' = ran
    BY <1>8, <1>q DEF RunFails, Raise, Tried
  <2> QED
    BY <2>1, FailMoved
<1>9. CASE CompleteRead(q)
  <2>1. PICK s \in {"mintExec", "completeExec", "minted", "return"} : Goto(q, s)
    BY <1>9 DEF CompleteRead
  <2> QED
    BY <1>9, <2>1, <1>g DEF CompleteRead
<1>10. CASE CompleteExec(q)
  <2>1. PICK s \in {"minted", "return"} : Goto(q, s)
    BY <1>10 DEF CompleteExec
  <2> QED
    BY <1>10, <2>1, <1>g DEF CompleteExec
<1>11. CASE Return(q)
  BY <1>11, <1>e DEF Return
<1>12. CASE FailRead(q)
  <2>1. ran' = ran /\ UNCHANGED <<rec, result>>
    BY <1>12 DEF FailRead
  <2>2. CASE rec.status = "CLAIMED"
    BY <1>12, <2>1, <2>2, <1>q, FailMoved DEF FailRead
  <2>3. CASE rec.status # "CLAIMED"
    <3>1. Goto(q, "end")
      BY <1>12, <2>3 DEF FailRead
    <3>2. result[q] = "failed" => Settled'
      BY <2>1, <2>3, <1>q, RanSettled DEF Settled
    <3> QED
      BY <2>1, <3>1, <3>2, <1>q, FailMoved
  <2> QED
    BY <2>2, <2>3
<1>13. CASE FailExec(q)
  <2>1. Goto(q, "end") /\ ran' = ran /\ UNCHANGED result
        /\ rec' = [seen[q] EXCEPT !.status = "TERMINAL_FAILED"]
        /\ seen[q] \in Record /\ "TERMINAL_FAILED" \in Status
    BY <1>13 DEF FailExec, Write, SafeInv, TypeOK, Status
  <2>2. Settled'
    BY <2>1, StatusFields DEF Settled
  <2> QED
    BY <2>1, <2>2, <1>q, FailMoved
<1>14. CASE JoinRead(q)
  <2>1. CASE Finish(q, "fail", "unavailable")
    BY <1>14, <2>1, FailMoved DEF JoinRead
  <2> QED
    BY <1>14, <2>1, <1>e, <1>g, <1>t DEF JoinRead
<1>15. CASE Wake(q)
  BY <1>15, <1>g DEF Wake
<1>16. CASE Reread(q)
  BY <1>16, <1>e, <1>t DEF Reread
<1> QED
  BY <1>1, <1>2, <1>3, <1>4, <1>5, <1>6, <1>7, <1>8, <1>9, <1>10, <1>11, <1>12,
     <1>13, <1>14, <1>15, <1>16 DEF Serve

LEMMA FailStep == SafeInv /\ FailInv /\ [Next]_vars => FailInv'
<1> SUFFICES ASSUME SafeInv, FailInv, [Next]_vars PROVE FailInv'
  OBVIOUS
<1>k. Settled => Settled'
  BY SettledKept
<1>u. ASSUME UNCHANGED <<pc, result, ran>> PROVE FailInv'
  BY <1>u, <1>k DEF FailInv
<1>1. CASE Mint \/ Tick \/ Expire \/ UNCHANGED vars
  <2>1. UNCHANGED <<pc, result, ran>>
    BY <1>1 DEF Mint, Tick, Expire, vars, replyVars
  <2> QED
    BY <2>1, <1>u
<1>2. ASSUME NEW q \in Replies, Arrive(q) PROVE FailInv'
  <2>1. CASE Finish(q, "end", "not found")
    <3>1. ran \subseteq ran' /\ "not found" # "failed"
      BY <1>2 DEF Arrive
    <3> QED
      BY <2>1, <3>1, <1>k, FailMoved
  <2>2. CASE Goto(q, "claim") /\ UNCHANGED result
    <3>1. result[q] # "failed" /\ ran' = ran
      BY <1>2 DEF Arrive, FailInv
    <3> QED
      BY <2>2, <3>1, <1>k, FailMoved
  <2> QED
    BY <1>2, <2>1, <2>2 DEF Arrive
<1>3. ASSUME NEW q \in Replies, Serve(q) PROVE FailInv'
  BY <1>3, <1>k, ServeFails
<1>4. ASSUME NEW q \in Replies, Abort(q) PROVE FailInv'
  BY <1>4, <1>k, RaiseMoves, FailMoved DEF Abort
<1>5. ASSUME NEW q \in Replies, Crash(q) PROVE FailInv'
  <2>1. Goto(q, "dead") /\ UNCHANGED <<result, ran>>
    BY <1>5 DEF Crash
  <2>2. result[q] = "failed" => q \in ran
    BY DEF FailInv
  <2> QED
    BY <2>1, <2>2, <1>k, FailMoved
<1> QED
  BY <1>1, <1>2, <1>3, <1>4, <1>5 DEF Next

\* A turn that failed with its claim held leaves no claim behind, whatever the
\* order of retries, joiners past the lease and expiries, and however long the
\* turn was: the next retry does not wait for the lease.
THEOREM FailureSettles == Spec => []FailedTurnSettles
<1>1. Init => FailInv
  BY DEF Init, FailInv
<1>2. SafeInv /\ FailInv /\ [Next]_vars => FailInv'
  BY FailStep
<1>3. FailInv => FailedTurnSettles
  BY DEF FailInv, FailedTurnSettles, Settled
<1> QED
  BY <1>1, <1>2, <1>3, Safe, PTL DEF Spec
=============================================================================
