----------------------- MODULE BusinessOperationProofs -----------------------
(***************************************************************************)
(* The proofs of BusinessOperation for any operations, planned sets,        *)
(* repairs and takeovers.                                                   *)
(***************************************************************************)
EXTENDS BusinessOperation, TLAPS

Early == {"idle", "resolve", "start", "ask", "respond", "finish"}
Exec == {"member", "query", "seal", "plan", "record", "commit"}

Has(o, m) == <<Event(o, m), o>> \in staged \/ <<Event(o, m), o>> \in durable
NoRows(o) == \A r \in Rows : <<r, o>> \notin staged /\ <<r, o>> \notin durable
SealedTo(o) == IF at[o] \in {"member", "query", "seal"} THEN member[o] - 1 ELSE member[o]
Planned(o) ==
    /\ TheAttempt(o).owner = o /\ TheAttempt(o).terminal = "completed"
    /\ TheAttempt(o).stamp = 1
Closed(o, c) ==
    LET a == journal[correlation[o]][c] IN
    a.owner = o /\ a.response /\ a.terminal \in Repairs /\ a.stamp = 1

\* What an operation has written, by where it stands.
PlannerInv(o) ==
    /\ at[o] # "over" => result[o] = "none"
    /\ at[o] \in {"idle", "resolve"} => call[o] = 0
    /\ at[o] \in {"ask", "respond", "finish"} => TheAttempt(o).owner = o
    /\ at[o] = "finish" /\ ending[o].response => TheAttempt(o).response
    /\ at[o] \in {"respond", "finish"} /\ ending[o].next = "repair" => MayRepair(o)
    /\ at[o] = "start" /\ call[o] > 0 => Closed(o, call[o] - 1)
    /\ (at[o] \in Exec \/ HasRecord(o)) /\ ~patched[o] => Planned(o)
RowsInv(o) ==
    /\ at[o] \in Early => NoRows(o) /\ member[o] = 1
    /\ at[o] \in Exec =>
          /\ member[o] <= count[o]
          /\ \A m \in 1 .. Members : Has(o, m) <=> m <= SealedTo(o)
    /\ at[o] \in {"record", "commit"} => member[o] = count[o]
    /\ <<Record(o), o>> \in staged <=> at[o] = "commit"
RecordInv(o) ==
    /\ HasRecord(o) => at[o] = "over" /\ HasEvents(o) /\ result[o] \in {"answered", "stopped"}
    /\ result[o] = "answered" => HasRecord(o)
Kept(o) == \A m \in 1 .. Members :
    /\ <<StoredPlan(o, m), o>> \in durable => <<Event(o, m), o>> \in durable
    /\ <<Event(o, m), o>> \in durable =>
          HasRecord(o) \/ \E n \in (m + 1) .. Members : Written(Lookup(o, n))
EvidenceInv(o) ==
    /\ \A m \in 1 .. Members : <<StoredPlan(o, m), o>> \in staged => Has(o, m)
    /\ Kept(o)

OpInv(o) == PlannerInv(o) /\ RowsInv(o) /\ RecordInv(o) /\ EvidenceInv(o)

\* An answer query id is one operation's, from its staging on.
OneSealer ==
    \A o, p \in Ops, m \in 1 .. Members :
        Has(o, m) /\ <<Event(o, m), p>> \in staged \cup durable => o = p

\* Only a started attempt is taken over.
EpochInv ==
    \A k \in Correlations, c \in Calls : epoch[k][c] > 1 => journal[k][c].owner # "none"

IInv == TypeOK /\ JournalKept /\ EpochInv /\ OneSealer /\ \A o \in Ops : OpInv(o)
-----------------------------------------------------------------------------
(* Rows of two kinds, or of two ordinals, are two rows.                     *)

LEMMA RowTypes ==
    ASSUME TypeOK, NEW o \in Ops, NEW m \in 1 .. Members
    PROVE  /\ Event(o, m) \in Rows /\ StoredPlan(o, m) \in Rows
           /\ Lookup(o, m) \in Rows /\ Record(o) \in Rows
<1>1. m \in 0 .. Members /\ 0 \in 0 .. Members
  BY OperationAssumption
<1>2. Answer(o) \in {"patch", "set"} /\ correlation[o] \in Correlations
  BY DEF Answer, TypeOK
<1> QED
  BY <1>1, <1>2 DEF Event, StoredPlan, Lookup, Record, Row, Rows, Kinds

LEMMA RowKinds ==
    ASSUME NEW o, NEW p, NEW m, NEW n
    PROVE  /\ Event(o, m) = Event(o, n) <=> m = n
           /\ StoredPlan(o, m) = StoredPlan(o, n) <=> m = n
           /\ Event(o, m) # StoredPlan(p, n)
           /\ Event(o, m) # Lookup(p, n)
           /\ Event(o, m) # Record(p)
           /\ StoredPlan(o, m) # Lookup(p, n)
           /\ StoredPlan(o, m) # Record(p)
           /\ Lookup(o, m) # Record(p)
  BY DEF Event, StoredPlan, Lookup, Record, Row
-----------------------------------------------------------------------------
(* The journal.                                                             *)

Write(k, c, b) == journal' = [journal EXCEPT ![k][c] = b]

LEMMA WriteType ==
    ASSUME TypeOK, NEW k \in Correlations, NEW c \in Calls, NEW b \in Attempt, Write(k, c, b)
    PROVE  /\ journal' \in [Correlations -> [Calls -> Attempt]]
           /\ journal'[k][c] = b
           /\ \A j \in Correlations, d \in Calls :
                  j # k \/ d # c => journal'[j][d] = journal[j][d]
  BY DEF TypeOK, Write

\* An attempt that is open or not begun has no successor.
LEMMA NoSuccessor ==
    ASSUME TypeOK, JournalKept, NEW k \in Correlations, NEW c \in Calls, c + 1 \in Calls,
           journal[k][c].terminal = "none" \/ journal[k][c].owner = "none"
    PROVE  journal[k][c + 1].owner = "none"
<1>1. c + 1 > 0 /\ (c + 1) - 1 = c
  BY DEF Calls
<1>2. journal[k][c + 1].owner # "none" =>
         /\ journal[k][c].owner = journal[k][c + 1].owner
         /\ journal[k][c].terminal \in Repairs
  BY <1>1 DEF JournalKept
<1> QED
  BY <1>2 DEF Repairs

LEMMA JournalWrite ==
    ASSUME TypeOK, JournalKept, NEW k \in Correlations, NEW c \in Calls, NEW b \in Attempt,
           Write(k, c, b), UNCHANGED epoch,
           journal[k][c].terminal = "none" \/ journal[k][c].owner = "none",
           c > 0 /\ b.owner # "none" =>
               /\ journal[k][c - 1].owner = b.owner /\ journal[k][c - 1].response
               /\ journal[k][c - 1].terminal \in Repairs /\ journal[k][c - 1].stamp = 1,
           b.terminal = "completed" => b.response,
           b.terminal = "completion_unknown" => ~b.response,
           b.terminal # "none" => b.owner # "none" /\ b.stamp = epoch[k][c]
    PROVE  JournalKept'
<1> SUFFICES ASSUME NEW j \in Correlations, NEW d \in Calls
             PROVE  LET a == journal'[j][d]  before == journal'[j][d - 1] IN
                    /\ d > 0 /\ a.owner # "none" =>
                          /\ before.owner = a.owner /\ before.response
                          /\ before.terminal \in Repairs /\ before.stamp = 1
                    /\ a.terminal = "completed" => a.response
                    /\ a.terminal = "completion_unknown" => ~a.response
                    /\ a.terminal # "none" => a.owner # "none" /\ a.stamp = epoch'[j][d]
  BY DEF JournalKept, Repairs
<1>1. /\ journal'[k][c] = b
      /\ \A i \in Correlations, e \in Calls : i # k \/ e # c => journal'[i][e] = journal[i][e]
  BY WriteType
<1>2. LET a == journal[j][d]  before == journal[j][d - 1] IN
      /\ d > 0 /\ a.owner # "none" =>
            /\ before.owner = a.owner /\ before.response
            /\ before.terminal \in Repairs /\ before.stamp = 1
      /\ a.terminal = "completed" => a.response
      /\ a.terminal = "completion_unknown" => ~a.response
      /\ a.terminal # "none" => a.owner # "none" /\ a.stamp = epoch[j][d]
  BY DEF JournalKept
<1>3. d > 0 => d - 1 \in Calls
  BY OperationAssumption DEF Calls
<1>4. c \in Int /\ d \in Int
  BY DEF Calls
<1>5. CASE j = k /\ d = c
  <2>1. d > 0 => journal'[k][d - 1] = journal[k][d - 1]
    BY <1>1, <1>3, <1>4, <1>5
  <2> QED
    BY <1>1, <1>5, <2>1
<1>6. CASE j = k /\ d = c + 1
  <2>1. journal'[j][d] = journal[j][d]
    BY <1>1, <1>4, <1>6
  <2>2. journal[j][d].owner = "none"
    BY <1>6, NoSuccessor
  <2> QED
    BY <1>2, <2>1, <2>2
<1>7. CASE j # k \/ (d # c /\ d # c + 1)
  <2>1. journal'[j][d] = journal[j][d]
    BY <1>1, <1>7
  <2>2. d > 0 => journal'[j][d - 1] = journal[j][d - 1]
    BY <1>1, <1>3, <1>4, <1>7
  <2> QED
    BY <1>2, <2>1, <2>2
<1> QED
  BY <1>5, <1>6, <1>7

\* Whoever has an attempt keeps it, and what is ended stays as it is.
JournalMono ==
    \A k \in Correlations, c \in Calls :
        /\ journal[k][c].owner # "none" => journal'[k][c].owner = journal[k][c].owner
        /\ journal[k][c].owner # "none" /\ journal[k][c].response => journal'[k][c].response
        /\ journal[k][c].terminal # "none" /\ journal[k][c].owner # "none" =>
              journal'[k][c] = journal[k][c]

LEMMA WriteMono ==
    ASSUME TypeOK, NEW k \in Correlations, NEW c \in Calls, NEW b \in Attempt, Write(k, c, b),
           journal[k][c].owner = "none"
           \/ /\ journal[k][c].terminal = "none" /\ b.owner = journal[k][c].owner
              /\ journal[k][c].response => b.response
    PROVE  JournalMono
<1>1. /\ journal'[k][c] = b
      /\ \A i \in Correlations, e \in Calls : i # k \/ e # c => journal'[i][e] = journal[i][e]
  BY WriteType
<1> SUFFICES ASSUME NEW j \in Correlations, NEW d \in Calls
             PROVE  /\ journal[j][d].owner # "none" =>
                          journal'[j][d].owner = journal[j][d].owner
                    /\ journal[j][d].owner # "none" /\ journal[j][d].response =>
                          journal'[j][d].response
                    /\ journal[j][d].terminal # "none" /\ journal[j][d].owner # "none" =>
                          journal'[j][d] = journal[j][d]
  BY DEF JournalMono
<1> QED
  BY <1>1

\* A statement of the journal by the operation that holds the attempt.
LEMMA LandedStep ==
    ASSUME IInv, NEW o \in Ops, Landed(o), UNCHANGED epoch
    PROVE  /\ journal' \in [Correlations -> [Calls -> Attempt]]
           /\ JournalKept' /\ EpochInv' /\ JournalMono
<1> DEFINE k == correlation[o]
           c == call[o]
           a == journal[k][c]
<1>0. TypeOK /\ JournalKept /\ EpochInv /\ PlannerInv(o)
  BY DEF IInv, OpInv
<1>1. k \in Correlations /\ c \in Calls /\ a \in Attempt /\ o # "none"
  BY <1>0, OperationAssumption DEF TypeOK
<1>2. ending[o] \in Endings /\ MaxEpoch \in Nat /\ 1 \in 0 .. MaxEpoch
  BY <1>0, OperationAssumption DEF TypeOK
<1>3. c > 0 => c - 1 \in Calls
  BY <1>1, OperationAssumption DEF Calls
<1>4. ASSUME JournalMono PROVE EpochInv'
  BY <1>0, <1>4 DEF EpochInv, JournalMono
<1>5. CASE UNCHANGED journal
  <2>1. JournalMono
    BY <1>5 DEF JournalMono
  <2>2. JournalKept'
    BY <1>0, <1>5 DEF JournalKept, Repairs
  <2> QED
    BY <1>0, <1>4, <1>5, <2>1, <2>2 DEF TypeOK
<1>6. CASE at[o] = "start" /\ TheAttempt(o).owner = "none" /\ Journalled(o, Started(o))
  <2>1. Started(o) \in Attempt /\ Started(o).owner = o /\ Started(o).terminal = "none"
    <3>1. NoAttempt \in Attempt /\ NoAttempt.terminal = "none"
      BY <1>2 DEF NoAttempt, Attempt
    <3> QED
      BY <1>1, <3>1 DEF Started, Attempt
  <2>2. Write(k, c, Started(o)) /\ a.owner = "none"
    BY <1>6 DEF Write, Journalled, TheAttempt
  <2>3. JournalMono
    <3> HIDE DEF k, c, a
    <3>1. journal[k][c].owner = "none"
      BY <2>2 DEF a
    <3> QED
      BY <1>0, <1>1, <2>1, <2>2, <3>1, WriteMono
  <2>4. c > 0 => Closed(o, c - 1)
    BY <1>0, <1>6 DEF PlannerInv
  <2>5. JournalKept'
    <3>1. c > 0 => /\ journal[k][c - 1].owner = o /\ journal[k][c - 1].response
                   /\ journal[k][c - 1].terminal \in Repairs /\ journal[k][c - 1].stamp = 1
      BY <2>4 DEF Closed
    <3>2. journal[k][c].owner = "none"
      BY <2>2
    <3> HIDE DEF k, c, a
    <3> QED
      BY <1>0, <1>1, <2>1, <2>2, <3>1, <3>2, JournalWrite
  <2> QED
    BY <1>0, <1>1, <1>4, <2>1, <2>2, <2>3, <2>5, WriteType
<1>7. CASE at[o] = "respond" /\ MayAppend(o) /\ Journalled(o, Responded(o))
  <2>1. a.owner = o /\ a.terminal = "none"
    BY <1>0, <1>7 DEF PlannerInv, TheAttempt, MayAppend, Appendable
  <2>2. Responded(o) = [a EXCEPT !.response = TRUE] /\ Write(k, c, Responded(o))
    BY <1>7 DEF Responded, TheAttempt, Journalled, Write
  <2>3. /\ Responded(o) \in Attempt /\ Responded(o).owner = o
        /\ Responded(o).terminal = "none" /\ Responded(o).response
    <3> HIDE DEF a
    <3> QED
      BY <1>1, <2>1, <2>2 DEF Attempt
  <2>4. c > 0 => /\ journal[k][c - 1].owner = o /\ journal[k][c - 1].response
                 /\ journal[k][c - 1].terminal \in Repairs /\ journal[k][c - 1].stamp = 1
    BY <1>0, <1>1, <2>1 DEF JournalKept
  <2>5. journal[k][c].owner = o /\ journal[k][c].terminal = "none"
    BY <2>1
  <2> HIDE DEF k, c, a
  <2>6. JournalMono
    BY <1>0, <1>1, <2>2, <2>3, <2>5, WriteMono
  <2>7. JournalKept'
    BY <1>0, <1>1, <2>2, <2>3, <2>4, <2>5, JournalWrite
  <2> QED
    BY <1>0, <1>1, <1>4, <2>2, <2>3, <2>6, <2>7, WriteType
<1>8. CASE at[o] = "finish" /\ MayFinish(o) /\ Journalled(o, Finished(o))
  <2> DEFINE t == ending[o].terminal
  <2>1. a.owner = o /\ a.terminal = "none" /\ epoch[k][c] = 1
    BY <1>0, <1>8 DEF PlannerInv, TheAttempt, MayFinish, Terminable, Appendable
  <2>2. (t = "completed" => a.response) /\ (t = "completion_unknown" => ~a.response)
    BY <1>8 DEF MayFinish, Terminable
  <2>3. /\ Finished(o) = [a EXCEPT !.terminal = t, !.stamp = 1]
        /\ Write(k, c, Finished(o))
    BY <1>8 DEF Finished, TheAttempt, Journalled, Write
  <2>4. t \in Classes
    BY <1>2 DEF Endings, Ending, GivenUp, Classes
  <2>5. /\ Finished(o) \in Attempt /\ Finished(o).owner = o
        /\ Finished(o).terminal = t /\ Finished(o).response = a.response
        /\ Finished(o).stamp = 1
    <3> HIDE DEF a, t
    <3> QED
      BY <1>1, <1>2, <2>1, <2>3, <2>4 DEF Attempt
  <2>6. c > 0 => /\ journal[k][c - 1].owner = o /\ journal[k][c - 1].response
                 /\ journal[k][c - 1].terminal \in Repairs /\ journal[k][c - 1].stamp = 1
    BY <1>0, <1>1, <2>1 DEF JournalKept
  <2>7. /\ journal[k][c].owner = o /\ journal[k][c].terminal = "none"
        /\ journal[k][c].response = a.response
    BY <2>1
  <2> HIDE DEF k, c, a, t
  <2>8. JournalMono
    BY <1>0, <1>1, <2>3, <2>5, <2>7, WriteMono
  <2>9. JournalKept'
    BY <1>0, <1>1, <2>1, <2>2, <2>3, <2>5, <2>6, <2>7, JournalWrite
  <2> QED
    BY <1>0, <1>1, <1>4, <2>3, <2>5, <2>8, <2>9, WriteType
<1> QED
  BY <1>5, <1>6, <1>7, <1>8 DEF Landed
-----------------------------------------------------------------------------
(* What one operation does to the others: nothing but to add to the store.  *)

Steady(q) ==
    /\ correlation' = correlation
    /\ at'[q] = at[q] /\ patched'[q] = patched[q] /\ call'[q] = call[q]
    /\ ending'[q] = ending[q] /\ count'[q] = count[q] /\ member'[q] = member[q]
    /\ result'[q] = result[q]
    /\ \A r \in Rows : /\ <<r, q>> \in staged' <=> <<r, q>> \in staged
                       /\ <<r, q>> \in durable' <=> <<r, q>> \in durable
    /\ durable \subseteq durable'
    /\ JournalMono

LEMMA SteadyInv ==
    ASSUME TypeOK, TypeOK', NEW q \in Ops, Steady(q), OpInv(q)
    PROVE  OpInv(q)'
<1>1. /\ correlation[q] \in Correlations /\ call[q] \in Calls /\ q # "none"
      /\ member[q] \in 1 .. Members /\ count[q] \in 1 .. Members
  BY OperationAssumption DEF TypeOK
<1>2. \A m : /\ Event(q, m)' = Event(q, m) /\ StoredPlan(q, m)' = StoredPlan(q, m)
             /\ Lookup(q, m)' = Lookup(q, m)
  BY DEF Steady, Event, StoredPlan, Lookup, Answer
<1>3. Record(q)' = Record(q)
  BY DEF Steady, Record
<1>4. \A m \in 1 .. Members :
         /\ <<Event(q, m), q>> \in staged' <=> <<Event(q, m), q>> \in staged
         /\ <<Event(q, m), q>> \in durable' <=> <<Event(q, m), q>> \in durable
         /\ <<StoredPlan(q, m), q>> \in staged' <=> <<StoredPlan(q, m), q>> \in staged
         /\ <<StoredPlan(q, m), q>> \in durable' <=> <<StoredPlan(q, m), q>> \in durable
  BY RowTypes DEF Steady
<1>5. 1 \in 1 .. Members
  BY OperationAssumption
<1>6. /\ <<Record(q), q>> \in staged' <=> <<Record(q), q>> \in staged
      /\ <<Record(q), q>> \in durable' <=> <<Record(q), q>> \in durable
  BY <1>5, RowTypes DEF Steady
<1>7. \A m \in 1 .. Members : Has(q, m)' <=> Has(q, m)
  BY <1>2, <1>4 DEF Has
<1>8. HasRecord(q)' <=> HasRecord(q)
  BY <1>3, <1>6 DEF HasRecord
<1>9. PlannerInv(q)'
  <2>1. TheAttempt(q).owner = q => TheAttempt(q)'.owner = q
    BY <1>1 DEF Steady, JournalMono, TheAttempt
  <2>2. TheAttempt(q).owner = q /\ TheAttempt(q).response => TheAttempt(q)'.response
    BY <1>1 DEF Steady, JournalMono, TheAttempt
  <2>3. call[q] > 0 /\ Closed(q, call[q] - 1) => Closed(q, call[q] - 1)'
    <3>1. call[q] > 0 => call[q] - 1 \in Calls
      BY <1>1, OperationAssumption DEF Calls
    <3> QED
      BY <1>1, <3>1 DEF Closed, Steady, JournalMono, Repairs
  <2>4. Planned(q) => Planned(q)'
    BY <1>1 DEF Planned, Steady, JournalMono, TheAttempt
  <2>5. /\ at'[q] = at[q] /\ patched'[q] = patched[q] /\ call'[q] = call[q]
        /\ ending'[q] = ending[q] /\ result'[q] = result[q]
    BY DEF Steady
  <2>6. PlannerInv(q)
    BY DEF OpInv
  <2>7. MayRepair(q)' <=> MayRepair(q)
    BY <2>5 DEF MayRepair
  <2>8. Closed(q, call[q] - 1)' <=> Closed(q, call[q] - 1)'
    OBVIOUS
  <2>9. at'[q] = "start" /\ call'[q] > 0 => Closed(q, call[q] - 1)'
    BY <2>3, <2>5, <2>6 DEF PlannerInv
  <2>10. at'[q] = "start" /\ call'[q] > 0 =>
            LET b == journal'[correlation'[q]][call'[q] - 1] IN
            b.owner = q /\ b.response /\ b.terminal \in Repairs /\ b.stamp = 1
    BY <2>5, <2>9 DEF Closed
  <2>11. (at'[q] \in Exec \/ HasRecord(q)') /\ ~patched'[q] => Planned(q)'
    BY <1>8, <2>4, <2>5, <2>6 DEF PlannerInv
  <2>12. at'[q] \in {"ask", "respond", "finish"} => TheAttempt(q)'.owner = q
    BY <2>1, <2>5, <2>6 DEF PlannerInv
  <2>13. at'[q] = "finish" /\ ending'[q].response => TheAttempt(q)'.response
    BY <2>2, <2>5, <2>6 DEF PlannerInv
  <2>14. at'[q] \in {"respond", "finish"} /\ ending'[q].next = "repair" => MayRepair(q)'
    BY <2>5, <2>6, <2>7 DEF PlannerInv
  <2>15. /\ at'[q] # "over" => result'[q] = "none"
         /\ at'[q] \in {"idle", "resolve"} => call'[q] = 0
    BY <2>5, <2>6 DEF PlannerInv
  <2> QED
    BY <2>10, <2>11, <2>12, <2>13, <2>14, <2>15 DEF PlannerInv, Closed
<1>10. RowsInv(q)'
  <2>1. NoRows(q) => NoRows(q)'
    BY DEF NoRows, Steady, Rows, Kinds
  <2>2. SealedTo(q)' = SealedTo(q)
    BY DEF SealedTo, Steady
  <2>3. RowsInv(q) /\ at'[q] = at[q] /\ member'[q] = member[q] /\ count'[q] = count[q]
    BY DEF OpInv, Steady
  <2>4. \A m \in 1 .. Members : (Has(q, m) <=> m <= SealedTo(q)) =>
                                (Has(q, m)' <=> m <= SealedTo(q)')
    BY <1>7, <2>2
  <2> QED
    BY <1>3, <1>6, <2>1, <2>3, <2>4 DEF RowsInv, Exec, Early
<1>11. RecordInv(q)'
  <2>1. HasEvents(q) => HasEvents(q)'
    BY <1>1, <1>2, <1>4 DEF HasEvents, Steady
  <2> QED
    BY <1>8, <2>1 DEF OpInv, RecordInv, Steady
<1>12. EvidenceInv(q)'
  <2>1. \A n : Written(Lookup(q, n)) => Written(Lookup(q, n))'
    BY <1>2 DEF Written, Steady
  <2>2. EvidenceInv(q)
    BY DEF OpInv
  <2>3. \A m \in 1 .. Members : <<StoredPlan(q, m), q>>' \in staged' => Has(q, m)'
    BY <1>2, <1>4, <1>7, <2>2 DEF EvidenceInv
  <2>4. Kept(q)'
    <3> SUFFICES ASSUME NEW m \in 1 .. Members
                 PROVE  /\ <<StoredPlan(q, m), q>>' \in durable' => <<Event(q, m), q>>' \in durable'
                        /\ <<Event(q, m), q>>' \in durable' =>
                              \/ HasRecord(q)'
                              \/ \E n \in (m + 1) .. Members : Written(Lookup(q, n))'
      BY DEF Kept
    <3>1. /\ <<StoredPlan(q, m), q>> \in durable => <<Event(q, m), q>> \in durable
          /\ <<Event(q, m), q>> \in durable =>
                HasRecord(q) \/ \E n \in (m + 1) .. Members : Written(Lookup(q, n))
      BY <2>2 DEF EvidenceInv, Kept
    <3> QED
      BY <1>2, <1>4, <1>8, <2>1, <3>1
  <2> QED
    BY <2>3, <2>4 DEF EvidenceInv
<1> QED
  BY <1>9, <1>10, <1>11, <1>12 DEF OpInv
-----------------------------------------------------------------------------
\* A step of one operation leaves the others where they are.
Only(o) ==
    /\ correlation' = correlation
    /\ \A q \in Ops \ {o} :
          /\ at'[q] = at[q] /\ patched'[q] = patched[q] /\ call'[q] = call[q]
          /\ ending'[q] = ending[q] /\ count'[q] = count[q] /\ member'[q] = member[q]
          /\ result'[q] = result[q]
    /\ \A q \in Ops \ {o}, r \in Rows :
          /\ <<r, q>> \in staged' <=> <<r, q>> \in staged
          /\ <<r, q>> \in durable' <=> <<r, q>> \in durable
    /\ durable \subseteq durable'
    /\ JournalMono

LEMMA OnlyInv ==
    ASSUME IInv, NEW o \in Ops, TypeOK', JournalKept', EpochInv', OneSealer',
           Only(o), OpInv(o)'
    PROVE  IInv'
<1>1. ASSUME NEW q \in Ops, q # o PROVE OpInv(q)'
  <2>1. Steady(q)
    BY <1>1 DEF Only, Steady
  <2> QED
    BY <2>1, SteadyInv DEF IInv
<1> QED
  BY <1>1 DEF IInv

\* No answer query id changes hands by a step that writes no evidence.
LEMMA SealerKept ==
    ASSUME OneSealer, patched' = patched,
           \A q, p \in Ops, m \in 1 .. Members :
               <<Event(q, m), p>> \in staged' \cup durable' =>
               <<Event(q, m), p>> \in staged \cup durable
    PROVE  OneSealer'
<1> SUFFICES ASSUME NEW q \in Ops, NEW p \in Ops, NEW m \in 1 .. Members,
                    Has(q, m)', <<Event(q, m)', p>> \in staged' \cup durable'
             PROVE  q = p
  BY DEF OneSealer
<1>1. Event(q, m)' = Event(q, m)
  BY DEF Event, Answer
<1>2. <<Event(q, m), q>> \in staged' \cup durable'
  BY <1>1 DEF Has
<1>3. Has(q, m) /\ <<Event(q, m), p>> \in staged \cup durable
  BY <1>1, <1>2 DEF Has
<1> QED
  BY <1>3 DEF OneSealer

\* Before it executes, an operation has written nothing.
LEMMA EarlyMove ==
    ASSUME IInv, NEW o \in Ops, at[o] \in Early, NEW p \in Early \cup {"member"}, Goto(o, p),
           UNCHANGED <<staged, durable, correlation, member, result>>,
           \A q \in Ops \ {o} : /\ patched'[q] = patched[q] /\ call'[q] = call[q]
                                /\ ending'[q] = ending[q] /\ count'[q] = count[q],
           TypeOK', JournalKept', EpochInv', JournalMono, PlannerInv(o)'
    PROVE  IInv'
<1>0. /\ TypeOK /\ OneSealer /\ NoRows(o) /\ member[o] = 1 /\ result[o] = "none"
      /\ at'[o] = p
  BY DEF IInv, OpInv, PlannerInv, RowsInv, Early, Goto, TypeOK
<1>1. \A s \in {"patch", "set"}, m \in 1 .. Members :
         Row("event", s, m) \in Rows /\ Row("plan", s, m) \in Rows
  BY OperationAssumption DEF Row, Rows, Kinds
<1>2. \A m \in 1 .. Members : Event(o, m)' \in Rows /\ StoredPlan(o, m)' \in Rows
  BY <1>1 DEF Event, StoredPlan, Answer
<1>3. Record(o)' \in Rows
  BY <1>0, OperationAssumption DEF Record, Row, Rows, Kinds, TypeOK
<1>4. \A m \in 1 .. Members : ~Has(o, m)'
  BY <1>0, <1>2 DEF Has, NoRows
<1>5. ~HasRecord(o)' /\ <<Record(o)', o>> \notin staged'
  BY <1>0, <1>3 DEF HasRecord, NoRows
<1>6. RowsInv(o)'
  <2>1. NoRows(o)'
    BY <1>0 DEF NoRows, Rows, Kinds
  <2>2. member'[o] = 1 /\ count'[o] \in 1 .. Members
    BY <1>0 DEF TypeOK
  <2>3. p = "member" => \A m \in 1 .. Members : ~(m <= SealedTo(o)')
    BY <1>0, <2>2 DEF SealedTo
  <2>4. p \in Exec => p = "member"
    BY DEF Early, Exec
  <2>5. p \notin {"record", "commit"}
    BY DEF Early
  <2>6. at'[o] \in Exec =>
          /\ member'[o] <= count'[o]
          /\ \A m \in 1 .. Members : Has(o, m)' <=> m <= SealedTo(o)'
    BY <1>0, <1>4, <2>2, <2>3, <2>4
  <2> QED
    BY <1>0, <1>5, <2>1, <2>2, <2>5, <2>6 DEF RowsInv
<1>7. RecordInv(o)'
  BY <1>0, <1>5 DEF RecordInv
<1>8. EvidenceInv(o)'
  <2>1. \A m \in 1 .. Members : /\ <<StoredPlan(o, m)', o>> \notin staged'
                               /\ <<StoredPlan(o, m)', o>> \notin durable'
    BY <1>0, <1>2 DEF NoRows
  <2>2. \A m \in 1 .. Members : <<Event(o, m)', o>> \notin durable'
    BY <1>0, <1>2 DEF NoRows
  <2> QED
    BY <2>1, <2>2 DEF EvidenceInv, Kept
<1>9. OpInv(o)'
  BY <1>6, <1>7, <1>8 DEF OpInv
<1>10. Only(o)
  BY <1>0 DEF Only, Goto, TypeOK
<1>11. OneSealer'
  <2> SUFFICES ASSUME NEW q \in Ops, NEW x \in Ops, NEW m \in 1 .. Members,
                      Has(q, m)', <<Event(q, m)', x>> \in staged' \cup durable'
               PROVE  q = x
    BY DEF OneSealer
  <2>1. q # o
    BY <1>4
  <2>2. Event(q, m)' = Event(q, m)
    BY <2>1 DEF Event, Answer
  <2>3. Has(q, m)
    BY <2>2 DEF Has
  <2> QED
    BY <1>0, <2>2, <2>3 DEF OneSealer
<1> QED
  BY <1>9, <1>10, <1>11, OnlyInv

\* An end: the session is rolled back, or what it had staged has landed.
Lands(o) ==
    /\ durable \subseteq durable'
    /\ durable' \subseteq durable \cup Staged(o) \cup {<<Lookup(o, member[o]), o>>}

LEMMA LandsRows ==
    ASSUME TypeOK, NEW o \in Ops, Lands(o)
    PROVE  /\ durable' \subseteq Rows \X Ops
           /\ \A q \in Ops \ {o}, r \in Rows : <<r, q>> \in durable' <=> <<r, q>> \in durable
           /\ \A r \in Rows : <<r, o>> \in durable' =>
                 <<r, o>> \in staged \cup durable \/ r = Lookup(o, member[o])
           /\ \A q, p \in Ops, m \in 1 .. Members :
                 <<Event(q, m), p>> \in durable' => <<Event(q, m), p>> \in staged \cup durable
<1>1. <<Lookup(o, member[o]), o>> \in Rows \X Ops
  BY RowTypes DEF TypeOK
<1>2. Staged(o) \subseteq staged
  BY DEF Staged
<1>3. \A q, p \in Ops, m \in 1 .. Members : Event(q, m) # Lookup(o, member[o])
  BY RowKinds
<1>4. \A r \in Rows, q \in Ops \ {o} : <<r, q>> \notin Staged(o)
  BY DEF Staged
<1>5. durable' \subseteq Rows \X Ops
  BY <1>1, <1>2 DEF Lands, TypeOK
<1>6. \A q \in Ops \ {o}, r \in Rows : <<r, q>> \in durable' <=> <<r, q>> \in durable
  BY <1>4 DEF Lands
<1>7. \A r \in Rows : <<r, o>> \in durable' =>
         <<r, o>> \in staged \cup durable \/ r = Lookup(o, member[o])
  BY <1>2 DEF Lands
<1>8. \A q, p \in Ops, m \in 1 .. Members :
         <<Event(q, m), p>> \in durable' => <<Event(q, m), p>> \in staged \cup durable
  BY <1>2, <1>3 DEF Lands
<1> QED
  BY <1>5, <1>6, <1>7, <1>8

LEMMA OverMove ==
    ASSUME IInv, NEW o \in Ops, NEW r \in Results, Over(o, r), r # "none", Lands(o),
           UNCHANGED epoch, journal' \in [Correlations -> [Calls -> Attempt]],
           JournalKept', EpochInv', JournalMono,
           RecordInv(o)', Kept(o)', HasRecord(o)' /\ ~patched[o] => Planned(o)'
    PROVE  IInv'
<1>0. TypeOK /\ OneSealer
  BY DEF IInv
<1>1. TypeOK'
  <2>1. staged' \subseteq Rows \X Ops
    BY <1>0 DEF Over, TypeOK
  <2>2. durable' \subseteq Rows \X Ops
    BY <1>0, LandsRows
  <2> QED
    BY <1>0, <2>1, <2>2 DEF Over, Goto, TypeOK, Points
<1>2. at'[o] = "over" /\ result'[o] = r
  BY <1>0 DEF Over, Goto, TypeOK
<1>3. \A x \in Rows : <<x, o>> \notin staged'
  BY DEF Over, Staged
<1>4. Record(o)' \in Rows /\ \A m \in 1 .. Members : StoredPlan(o, m)' \in Rows
  <2>1. Record(o)' = Record(o) /\ \A m : StoredPlan(o, m)' = StoredPlan(o, m)
    BY DEF Over, Record, StoredPlan, Answer
  <2>2. 1 \in 1 .. Members
    BY OperationAssumption
  <2> QED
    BY <1>0, <2>1, <2>2, RowTypes
<1>5. PlannerInv(o)'
  BY <1>2 DEF PlannerInv, Exec, Over
<1>6. RowsInv(o)'
  BY <1>2, <1>3, <1>4 DEF RowsInv, Early, Exec
<1>7. EvidenceInv(o)'
  BY <1>3, <1>4 DEF EvidenceInv
<1>8. OpInv(o)'
  BY <1>5, <1>6, <1>7 DEF OpInv
<1>9. Only(o)
  <2>1. \A q \in Ops \ {o}, x \in Rows : <<x, q>> \in staged' <=> <<x, q>> \in staged
    BY DEF Over, Staged
  <2>2. \A q \in Ops \ {o}, x \in Rows : <<x, q>> \in durable' <=> <<x, q>> \in durable
    BY <1>0, LandsRows
  <2>3. \A q \in Ops \ {o} : at'[q] = at[q] /\ result'[q] = result[q]
    BY <1>0 DEF Over, Goto, TypeOK
  <2> QED
    BY <2>1, <2>2, <2>3 DEF Only, Over, Lands
<1>10. OneSealer'
  <2>1. \A q, p \in Ops, m \in 1 .. Members :
           <<Event(q, m), p>> \in staged' \cup durable' =>
           <<Event(q, m), p>> \in staged \cup durable
    BY <1>0, LandsRows DEF Over
  <2>2. patched' = patched
    BY DEF Over
  <2> QED
    BY <1>0, <2>1, <2>2, SealerKept
<1> QED
  BY <1>1, <1>8, <1>9, <1>10, OnlyInv

\* A refusal leaves what is durable as it is.
LEMMA Refuse ==
    ASSUME IInv, NEW o \in Ops, at[o] # "over",
           NEW r \in {"refused", "conflict", "stopped"}, Over(o, r),
           UNCHANGED <<epoch, durable>>, journal' \in [Correlations -> [Calls -> Attempt]],
           JournalKept', EpochInv', JournalMono
    PROVE  IInv'
<1>0. TypeOK /\ RecordInv(o) /\ Kept(o)
  BY DEF IInv, OpInv, EvidenceInv
<1>1. HasRecord(o)' <=> HasRecord(o)
  BY DEF HasRecord, Record, Over
<1>2. ~HasRecord(o)
  BY <1>0 DEF RecordInv
<1>3. RecordInv(o)'
  <2>1. result'[o] = r
    BY <1>0 DEF Over, TypeOK
  <2> QED
    BY <1>1, <1>2, <2>1 DEF RecordInv
<1>4. Kept(o)'
  <2>1. \A m : Event(o, m)' = Event(o, m) /\ StoredPlan(o, m)' = StoredPlan(o, m)
    BY DEF Over, Event, StoredPlan, Answer
  <2>2. \A n : Written(Lookup(o, n))' <=> Written(Lookup(o, n))
    BY DEF Over, Written, Lookup
  <2> QED
    BY <1>0, <1>1, <2>1, <2>2 DEF Kept
<1>5. Lands(o) /\ r \in Results /\ r # "none"
  BY DEF Lands, Results
<1> QED
  BY <1>1, <1>2, <1>3, <1>4, <1>5, OverMove
-----------------------------------------------------------------------------
(* prepare and the planner.                                                 *)

LEMMA PrepareSteps ==
    ASSUME IInv, NEW o \in Ops, Prepare(o) \/ ContinueWithPatch(o) \/ PlanRound(o)
    PROVE  IInv'
<1>0. TypeOK /\ JournalKept /\ EpochInv /\ PlannerInv(o) /\ RecordInv(o)
  BY DEF IInv, OpInv
<1>1. JournalKept' /\ EpochInv' /\ JournalMono
  BY <1>0 DEF Prepare, ContinueWithPatch, PlanRound, JournalKept, Repairs, EpochInv, JournalMono
<1>2. PICK p \in {"resolve", "member", "start"} :
         /\ Goto(o, p)
         /\ p = "member" => patched'[o]
         /\ at[o] \in {"idle", "resolve"}
  BY <1>0 DEF Prepare, ContinueWithPatch, PlanRound, TypeOK
<1>3. TypeOK'
  BY <1>0, <1>2 DEF Prepare, ContinueWithPatch, PlanRound, Goto, TypeOK, Points
<1>4. UNCHANGED <<journal, epoch, durable, staged, correlation, call, ending, count, member, result>>
  BY DEF Prepare, ContinueWithPatch, PlanRound
<1>5. at'[o] = p
  BY <1>0, <1>2 DEF Goto, TypeOK
<1>6. ~HasRecord(o)'
  <2>1. ~HasRecord(o)
    BY <1>0, <1>2 DEF RecordInv
  <2> QED
    BY <1>4, <2>1 DEF HasRecord, Record
<1>7. PlannerInv(o)'
  <2>1. result'[o] = "none"
    BY <1>0, <1>2, <1>4 DEF PlannerInv
  <2>2. call'[o] = 0
    BY <1>0, <1>2, <1>4 DEF PlannerInv
  <2> QED
    BY <1>2, <1>5, <1>6, <2>1, <2>2 DEF PlannerInv, Exec
<1>8. \A q \in Ops \ {o} : patched'[q] = patched[q]
  BY <1>0 DEF Prepare, ContinueWithPatch, PlanRound, TypeOK
<1> QED
  BY <1>1, <1>2, <1>3, <1>4, <1>7, <1>8, EarlyMove DEF Early

\* A step of the planner that does not end the operation.
LEMMA PlannerMove ==
    ASSUME IInv, NEW o \in Ops, at[o] \in Early, NEW p \in {"start", "ask", "respond", "finish", "member"},
           Goto(o, p), Landed(o),
           UNCHANGED <<epoch, durable, staged, correlation, patched, member, broken, result>>,
           call' = call \/ /\ p = "start" /\ call' = [call EXCEPT ![o] = @ + 1]
                           /\ call[o] + 1 \in Calls,
           ending' = ending \/ \E e \in Endings : ending' = [ending EXCEPT ![o] = e],
           count' = count \/ \E n \in 1 .. Members : count' = [count EXCEPT ![o] = n],
           p \in {"ask", "respond", "finish"} => TheAttempt(o)'.owner = o,
           p = "finish" /\ ending'[o].response => TheAttempt(o)'.response,
           p \in {"respond", "finish"} /\ ending'[o].next = "repair" => MayRepair(o)',
           p = "start" => Closed(o, call[o] - 1)',
           p = "member" => Planned(o)'
    PROVE  IInv'
<1>0. TypeOK /\ PlannerInv(o) /\ RecordInv(o)
  BY DEF IInv, OpInv
<1>1. /\ journal' \in [Correlations -> [Calls -> Attempt]]
      /\ JournalKept' /\ EpochInv' /\ JournalMono
  BY LandedStep
<1>2. /\ call' \in [Ops -> Calls] /\ ending' \in [Ops -> Endings]
      /\ count' \in [Ops -> 1 .. Members] /\ at' \in [Ops -> Points]
  <2>1. call' \in [Ops -> Calls]
    BY <1>0 DEF TypeOK
  <2>2. ending' \in [Ops -> Endings]
    BY <1>0 DEF TypeOK
  <2>3. count' \in [Ops -> 1 .. Members]
    BY <1>0 DEF TypeOK
  <2>4. at' \in [Ops -> Points]
    BY <1>0 DEF TypeOK, Goto, Points
  <2> QED
    BY <2>1, <2>2, <2>3, <2>4
<1>3. TypeOK'
  BY <1>0, <1>1, <1>2 DEF TypeOK
<1>4. \A q \in Ops \ {o} : /\ patched'[q] = patched[q] /\ call'[q] = call[q]
                            /\ ending'[q] = ending[q] /\ count'[q] = count[q]
  BY <1>0 DEF TypeOK
<1>5. at'[o] = p /\ result'[o] = "none"
  BY <1>0 DEF Goto, TypeOK, PlannerInv, Early
<1>6. ~HasRecord(o)'
  BY <1>0 DEF RecordInv, Early, HasRecord, Record
<1>7. PlannerInv(o)'
  BY <1>5, <1>6 DEF PlannerInv, Exec
<1> QED
  BY <1>1, <1>3, <1>4, <1>7, EarlyMove DEF Early

\* What a statement of the journal leaves of the attempt in hand.
LEMMA Wrote ==
    ASSUME TypeOK, NEW o \in Ops, NEW b \in Attempt, Journalled(o, b), UNCHANGED correlation
    PROVE  journal'[correlation'[o]][call[o]] = b
<1>1. correlation[o] \in Correlations /\ call[o] \in Calls
  BY DEF TypeOK
<1> QED
  BY <1>1, WriteType DEF Journalled, Write

LEMMA StartStep ==
    ASSUME IInv, NEW o \in Ops, StartAttempt(o)
    PROVE  IInv'
<1>0. TypeOK /\ at[o] = "start" /\ UNCHANGED <<epoch, durable>>
  BY DEF IInv, StartAttempt
<1>1. CASE TheAttempt(o).owner = "none"
  <2>1. /\ Journalled(o, Started(o)) /\ Goto(o, "ask")
        /\ UNCHANGED <<staged, correlation, patched, call, ending, count, member, broken, result>>
    BY <1>1 DEF StartAttempt
  <2>2. Landed(o)
    BY <1>0, <1>1, <2>1 DEF Landed
  <2>3. Started(o) \in Attempt /\ Started(o).owner = o
    <3>1. NoAttempt \in Attempt
      BY OperationAssumption DEF NoAttempt, Attempt
    <3> QED
      BY <3>1 DEF Started, Attempt
  <2>4. TheAttempt(o)'.owner = o
    BY <1>0, <2>1, <2>3, Wrote DEF TheAttempt
  <2> QED
    BY <1>0, <2>1, <2>2, <2>4, PlannerMove DEF Early
<1>2. CASE TheAttempt(o).owner # "none"
  <2>1. Over(o, "conflict") /\ UNCHANGED journal
    BY <1>2 DEF StartAttempt
  <2>2. Landed(o)
    BY <2>1 DEF Landed
  <2> QED
    BY <1>0, <2>1, <2>2, LandedStep, Refuse
<1> QED
  BY <1>1, <1>2

LEMMA AskStep ==
    ASSUME IInv, NEW o \in Ops, Ask(o)
    PROVE  IInv'
<1>0. /\ TypeOK /\ PlannerInv(o) /\ at[o] = "ask"
      /\ UNCHANGED <<journal, epoch, durable, staged, correlation, patched, call, count,
                     member, broken, result>>
  BY DEF IInv, OpInv, Ask
<1>1. PICK e \in Endings :
         /\ e.next = "repair" => MayRepair(o)
         /\ ending' = [ending EXCEPT ![o] = e]
         /\ Goto(o, IF e.response THEN "respond" ELSE "finish")
  BY DEF Ask
<1>2. ending'[o] = e
  BY <1>0, <1>1 DEF TypeOK
<1>3. TheAttempt(o)' = TheAttempt(o) /\ TheAttempt(o).owner = o
  BY <1>0 DEF PlannerInv, TheAttempt
<1>4. Landed(o)
  BY <1>0 DEF Landed
<1>5. MayRepair(o)' <=> MayRepair(o)
  BY <1>0 DEF MayRepair
<1>6. CASE e.response
  <2>1. Goto(o, "respond")
    BY <1>1, <1>6
  <2> QED
    BY <1>0, <1>1, <1>2, <1>3, <1>4, <1>5, <2>1, PlannerMove DEF Early
<1>7. CASE ~e.response
  <2>1. Goto(o, "finish")
    BY <1>1, <1>7
  <2> QED
    BY <1>0, <1>1, <1>2, <1>3, <1>4, <1>5, <1>7, <2>1, PlannerMove DEF Early
<1> QED
  BY <1>6, <1>7

LEMMA ResponseStep ==
    ASSUME IInv, NEW o \in Ops, CommitResponse(o)
    PROVE  IInv'
<1>0. /\ TypeOK /\ PlannerInv(o) /\ at[o] = "respond" /\ UNCHANGED <<epoch, durable>>
  BY DEF IInv, OpInv, CommitResponse
<1>1. CASE MayAppend(o)
  <2>1. /\ Journalled(o, Responded(o)) /\ Goto(o, "finish")
        /\ UNCHANGED <<staged, correlation, patched, call, ending, count, member, broken, result>>
    BY <1>1 DEF CommitResponse
  <2>2. Landed(o)
    BY <1>0, <1>1, <2>1 DEF Landed
  <2>3. TheAttempt(o) \in Attempt /\ TheAttempt(o).owner = o
    BY <1>0 DEF PlannerInv, TypeOK, TheAttempt
  <2>4. Responded(o) \in Attempt /\ Responded(o).owner = o /\ Responded(o).response
    BY <2>3 DEF Responded, Attempt
  <2>5. TheAttempt(o)'.owner = o /\ TheAttempt(o)'.response
    BY <1>0, <2>1, <2>4, Wrote DEF TheAttempt
  <2>6. MayRepair(o)' <=> MayRepair(o)
    BY <2>1 DEF MayRepair
  <2>7. ending'[o].next = "repair" => MayRepair(o)'
    BY <1>0, <2>1, <2>6 DEF PlannerInv
  <2> QED
    BY <1>0, <2>1, <2>2, <2>5, <2>7, PlannerMove DEF Early
<1>2. CASE ~MayAppend(o)
  <2>1. Over(o, "conflict") /\ UNCHANGED journal
    BY <1>2 DEF CommitResponse
  <2>2. Landed(o)
    BY <2>1 DEF Landed
  <2> QED
    BY <1>0, <2>1, <2>2, LandedStep, Refuse
<1> QED
  BY <1>1, <1>2

\* A repair follows a response; a prepared set, a completed attempt.
LEMMA EndingKinds ==
    ASSUME NEW e \in Endings
    PROVE  /\ e.next = "repair" => e.response /\ e.terminal \in Repairs
           /\ e.next = "prepared" => e.terminal = "completed"
           /\ e.next \notin {"prepared", "repair"} => e.next \in {"refused", "stopped"}
           /\ e.terminal = "cancelled" => e.next \in {"refused", "stopped"}
  BY DEF Endings, Ending, GivenUp, Repairs

LEMMA FinishStep ==
    ASSUME IInv, NEW o \in Ops, FinishAttempt(o)
    PROVE  IInv'
<1>0. /\ TypeOK /\ PlannerInv(o) /\ at[o] = "finish" /\ ending[o] \in Endings
      /\ UNCHANGED <<epoch, durable>>
  BY DEF IInv, OpInv, TypeOK, FinishAttempt
<1>1. CASE MayFinish(o)
  <2> DEFINE e == ending[o]
  <2>1. Journalled(o, Finished(o)) /\ Follow(o)
    BY <1>1 DEF FinishAttempt
  <2>2. Landed(o)
    BY <1>0, <1>1, <2>1 DEF Landed
  <2>3. TheAttempt(o) \in Attempt /\ TheAttempt(o).owner = o
    BY <1>0 DEF PlannerInv, TypeOK, TheAttempt
  <2>4. /\ Finished(o) \in Attempt /\ Finished(o).owner = o
        /\ Finished(o).response = TheAttempt(o).response
        /\ Finished(o).terminal = e.terminal /\ Finished(o).stamp = 1
    <3>1. e.terminal \in Classes /\ 1 \in 0 .. MaxEpoch
      BY <1>0, OperationAssumption DEF Endings, Ending, GivenUp, Classes
    <3>2. Finished(o) = [TheAttempt(o) EXCEPT !.terminal = e.terminal, !.stamp = 1]
      BY DEF Finished
    <3> HIDE DEF e
    <3> QED
      BY <2>3, <3>1, <3>2 DEF Attempt
  <2>5. CASE e.next = "prepared"
    <3>1. PICK n \in 1 .. Members : count' = [count EXCEPT ![o] = n]
      BY <2>1, <2>5 DEF Follow
    <3>2. /\ Goto(o, "member")
          /\ UNCHANGED <<staged, correlation, patched, call, ending, member, broken, result>>
      BY <2>1, <2>5 DEF Follow
    <3>3. Planned(o)'
      <4>1. e.terminal = "completed"
        BY <1>0, <2>5, EndingKinds
      <4>2. TheAttempt(o)' = Finished(o)
        BY <1>0, <2>1, <2>4, <3>2, Wrote DEF TheAttempt
      <4> QED
        BY <2>4, <4>1, <4>2 DEF Planned
    <3> QED
      BY <1>0, <2>2, <3>1, <3>2, <3>3, PlannerMove DEF Early
  <2>6. CASE e.next = "repair"
    <3>1. /\ Goto(o, "start") /\ call' = [call EXCEPT ![o] = @ + 1]
          /\ UNCHANGED <<staged, correlation, patched, ending, count, member, broken, result>>
      BY <2>1, <2>6 DEF Follow
    <3>2. call[o] + 1 \in Calls
      BY <1>0, <2>6, OperationAssumption DEF PlannerInv, MayRepair, TypeOK, Calls
    <3>3. Closed(o, call[o] - 1)'
      <4>1. e.response /\ e.terminal \in Repairs
        BY <1>0, <2>6, EndingKinds
      <4>2. TheAttempt(o).response
        BY <1>0, <4>1 DEF PlannerInv
      <4>3. journal'[correlation'[o]][call[o]] = Finished(o)
        BY <1>0, <2>1, <2>4, <3>1, Wrote
      <4>4. call'[o] - 1 = call[o]
        BY <1>0, <3>1 DEF TypeOK, Calls
      <4> QED
        BY <2>4, <4>1, <4>2, <4>3, <4>4 DEF Closed
    <3> QED
      BY <1>0, <2>2, <3>1, <3>2, <3>3, PlannerMove DEF Early
  <2>7. CASE e.next \notin {"prepared", "repair"}
    <3>1. Over(o, e.next)
      BY <2>1, <2>7 DEF Follow
    <3>2. e.next \in {"refused", "stopped"}
      BY <1>0, <2>7, EndingKinds
    <3> QED
      BY <1>0, <2>2, <3>1, <3>2, LandedStep, Refuse
  <2> QED
    BY <2>5, <2>6, <2>7
<1>2. CASE ~MayFinish(o)
  <2>1. UNCHANGED journal
    BY <1>2 DEF FinishAttempt
  <2>2. PICK r \in {"conflict"} \cup
                   (IF ending[o].terminal = "cancelled" THEN {ending[o].next} ELSE {}) :
           Over(o, r)
    BY <1>2 DEF FinishAttempt
  <2>3. r \in {"refused", "conflict", "stopped"}
    BY <1>0, EndingKinds
  <2>4. Landed(o)
    BY <2>1 DEF Landed
  <2> QED
    BY <1>0, <2>2, <2>3, <2>4, LandedStep, Refuse
<1> QED
  BY <1>1, <1>2

LEMMA BreakStep ==
    ASSUME IInv, NEW o \in Ops, JournalBreaks(o)
    PROVE  IInv'
<1>1. /\ at[o] # "over" /\ Landed(o) /\ UNCHANGED <<epoch, durable>>
      /\ \E r \in {"refused", "stopped", "conflict"} : Over(o, r)
  BY DEF JournalBreaks
<1> QED
  BY <1>1, LandedStep, Refuse

LEMMA GiveUpStep ==
    ASSUME IInv, NEW o \in Ops, GiveUp(o)
    PROVE  IInv'
<1>0. TypeOK /\ PlannerInv(o) /\ JournalKept
  BY DEF IInv, OpInv
<1>1. /\ at[o] \in {"respond", "finish"} /\ Landed(o) /\ Goto(o, "finish")
      /\ ending' = [ending EXCEPT ![o] = GivenUp]
      /\ UNCHANGED <<epoch, durable, staged, correlation, patched, call, count, member,
                     broken, result>>
  BY DEF GiveUp
<1>2. GivenUp \in Endings /\ ~GivenUp.response /\ GivenUp.next # "repair"
  BY DEF Endings, GivenUp, Ending
<1>3. ending'[o] = GivenUp
  BY <1>0, <1>1 DEF TypeOK
<1>4. TheAttempt(o)'.owner = o
  <2>1. /\ TheAttempt(o).owner = o /\ o # "none" /\ JournalMono
        /\ correlation[o] \in Correlations /\ call[o] \in Calls
    BY <1>0, <1>1, LandedStep, OperationAssumption DEF PlannerInv, TypeOK
  <2> QED
    BY <1>1, <2>1 DEF JournalMono, TheAttempt
<1> QED
  BY <1>1, <1>2, <1>3, <1>4, PlannerMove DEF Early
-----------------------------------------------------------------------------
(* The takeover of an attempt.                                              *)

LEMMA TakeoverInv ==
    ASSUME IInv, TypeOK', JournalKept', EpochInv', JournalMono,
           UNCHANGED <<durable, staged, ops>>
    PROVE  IInv'
<1>1. \A q \in Ops : Steady(q)
  BY DEF Steady, ops
<1>2. \A q \in Ops : OpInv(q)'
  BY <1>1, SteadyInv DEF IInv
<1>3. OneSealer'
  BY SealerKept DEF IInv, ops
<1> QED
  BY <1>2, <1>3 DEF IInv

LEMMA ClaimStep ==
    ASSUME IInv, NEW k \in Correlations, NEW c \in Calls, ClaimRecovery(k, c)
    PROVE  IInv'
<1>0. TypeOK /\ JournalKept /\ EpochInv
  BY DEF IInv
<1>1. /\ journal[k][c].owner # "none" /\ journal[k][c].terminal = "none"
      /\ epoch[k][c] < MaxEpoch /\ epoch' = [epoch EXCEPT ![k][c] = @ + 1]
      /\ UNCHANGED <<journal, durable, staged, ops>>
  BY DEF ClaimRecovery
<1>2. \A j \in Correlations, d \in Calls : j # k \/ d # c => epoch'[j][d] = epoch[j][d]
  BY <1>0, <1>1 DEF TypeOK
<1>3. TypeOK'
  <2>1. epoch[k][c] + 1 \in 1 .. MaxEpoch
    BY <1>0, <1>1, OperationAssumption DEF TypeOK
  <2>2. epoch' \in [Correlations -> [Calls -> 1 .. MaxEpoch]]
    BY <1>0, <1>1, <2>1 DEF TypeOK
  <2> QED
    BY <1>0, <1>1, <2>2 DEF TypeOK, ops
<1>4. EpochInv'
  BY <1>0, <1>1, <1>2 DEF EpochInv
<1>5. JournalKept'
  BY <1>0, <1>1, <1>2 DEF JournalKept, Repairs
<1>6. JournalMono
  BY <1>1 DEF JournalMono
<1> QED
  BY <1>1, <1>3, <1>4, <1>5, <1>6, TakeoverInv

LEMMA RecoveryStep ==
    ASSUME IInv, NEW k \in Correlations, NEW c \in Calls, RecoveryFinish(k, c)
    PROVE  IInv'
<1>0. TypeOK /\ JournalKept /\ EpochInv
  BY DEF IInv
<1>1. PICK e \in 2 .. MaxEpoch, class \in {"completed", "completion_unknown"} :
         /\ Terminable(k, c, e, class)
         /\ journal' = [journal EXCEPT ![k][c] = [@ EXCEPT !.terminal = class, !.stamp = e]]
         /\ UNCHANGED <<epoch, durable, staged, ops>>
  BY DEF RecoveryFinish
<1> DEFINE a == journal[k][c]
           b == [a EXCEPT !.terminal = class, !.stamp = e]
<1>2. /\ epoch[k][c] = e /\ a.terminal = "none" /\ a \in Attempt
      /\ class = "completed" => a.response
      /\ class = "completion_unknown" => ~a.response
  BY <1>0, <1>1 DEF Terminable, Appendable, TypeOK
<1>3. a.owner # "none"
  BY <1>0, <1>1, <1>2, OperationAssumption DEF EpochInv
<1>4. Write(k, c, b)
  BY <1>1 DEF Write
<1>5. /\ b \in Attempt /\ b.owner = a.owner /\ b.response = a.response
      /\ b.terminal = class /\ b.stamp = e
  <2>1. class \in Classes /\ e \in 0 .. MaxEpoch
    BY OperationAssumption DEF Classes
  <2> HIDE DEF a
  <2> QED
    BY <1>2, <2>1 DEF Attempt
<1>6. c > 0 => /\ journal[k][c - 1].owner = b.owner /\ journal[k][c - 1].response
               /\ journal[k][c - 1].terminal \in Repairs /\ journal[k][c - 1].stamp = 1
  BY <1>0, <1>3, <1>5 DEF JournalKept
<1>7. /\ journal[k][c].terminal = "none" /\ journal[k][c].owner = b.owner
      /\ journal[k][c].response = b.response
      /\ b.terminal = "completed" => b.response
      /\ b.terminal = "completion_unknown" => ~b.response
      /\ b.owner # "none" /\ b.stamp = epoch[k][c]
  BY <1>2, <1>3, <1>5
<1>8. UNCHANGED epoch
  BY <1>1
<1> HIDE DEF a, b
<1>9. JournalKept'
  BY <1>0, <1>4, <1>5, <1>6, <1>7, <1>8, JournalWrite
<1>10. JournalMono
  BY <1>0, <1>4, <1>5, <1>7, WriteMono
<1>11. TypeOK'
  BY <1>0, <1>1, <1>4, <1>5, WriteType DEF TypeOK, ops
<1>12. EpochInv'
  BY <1>0, <1>8, <1>10 DEF EpochInv, JournalMono
<1> QED
  BY <1>1, <1>9, <1>10, <1>11, <1>12, TakeoverInv
-----------------------------------------------------------------------------
(* execute.                                                                 *)

LEMMA ExecMove ==
    ASSUME IInv, NEW o \in Ops, at[o] \in Exec, NEW p \in Exec, Goto(o, p),
           UNCHANGED <<journal, epoch, correlation, patched, call, ending, count, result>>,
           TypeOK', \A q \in Ops \ {o} : member'[q] = member[q],
           \A q \in Ops \ {o}, r \in Rows :
               /\ <<r, q>> \in staged' <=> <<r, q>> \in staged
               /\ <<r, q>> \in durable' <=> <<r, q>> \in durable,
           durable \subseteq durable',
           member'[o] <= count[o],
           \A m \in 1 .. Members : Has(o, m)' <=> m <= SealedTo(o)',
           p \in {"record", "commit"} => member'[o] = count[o],
           <<Record(o), o>> \in staged' <=> p = "commit",
           ~HasRecord(o)', EvidenceInv(o)', OneSealer'
    PROVE  IInv'
<1>0. TypeOK /\ JournalKept /\ EpochInv /\ PlannerInv(o)
  BY DEF IInv, OpInv
<1>1. at'[o] = p /\ result'[o] = "none"
  BY <1>0 DEF Goto, TypeOK, PlannerInv, Exec
<1>2. PlannerInv(o)'
  <2>1. Planned(o)' <=> Planned(o)
    BY DEF Planned, TheAttempt
  <2>2. ~patched[o] => Planned(o)
    BY <1>0 DEF PlannerInv
  <2> QED
    BY <1>1, <2>1, <2>2 DEF PlannerInv, Exec
<1>3. Record(o)' = Record(o)
  BY DEF Record
<1>4. RowsInv(o)'
  BY <1>1, <1>3 DEF RowsInv, Exec, Early
<1>5. RecordInv(o)'
  BY <1>1 DEF RecordInv
<1>6. JournalMono
  BY DEF JournalMono
<1>7. Only(o)
  BY <1>0, <1>6 DEF Only, Goto, TypeOK
<1>8. JournalKept' /\ EpochInv'
  BY <1>0 DEF JournalKept, Repairs, EpochInv
<1> QED
  BY <1>2, <1>4, <1>5, <1>7, <1>8, OnlyInv DEF OpInv

\* What every step of execute starts from.
LEMMA ExecFacts ==
    ASSUME IInv, NEW o \in Ops, at[o] \in Exec
    PROVE  /\ TypeOK /\ OneSealer /\ ~HasRecord(o) /\ result[o] = "none"
           /\ member[o] \in 1 .. Members /\ count[o] \in 1 .. Members
           /\ member[o] <= count[o]
           /\ \A m \in 1 .. Members : Has(o, m) <=> m <= SealedTo(o)
           /\ at[o] \in {"record", "commit"} => member[o] = count[o]
           /\ <<Record(o), o>> \in staged <=> at[o] = "commit"
           /\ EvidenceInv(o) /\ (~patched[o] => Planned(o))
  BY DEF IInv, OpInv, RowsInv, RecordInv, PlannerInv, Exec, TypeOK

LEMMA SameEvidence ==
    ASSUME NEW o, UNCHANGED <<correlation, patched, durable>>, Kept(o)
    PROVE  Kept(o)' /\ (HasRecord(o)' <=> HasRecord(o))
<1>1. \A m : /\ Event(o, m)' = Event(o, m) /\ StoredPlan(o, m)' = StoredPlan(o, m)
             /\ Lookup(o, m)' = Lookup(o, m)
  BY DEF Event, StoredPlan, Lookup, Answer
<1>2. HasRecord(o)' <=> HasRecord(o)
  BY DEF HasRecord, Record
<1>3. \A n : Written(Lookup(o, n))' <=> Written(Lookup(o, n))
  BY <1>1 DEF Written
<1> QED
  BY <1>1, <1>2, <1>3 DEF Kept

LEMMA QuietSteps ==
    ASSUME IInv, NEW o \in Ops, ResolveNone(o) \/ RunAdapters(o)
    PROVE  IInv'
<1>1. PICK p \in {"query", "seal"} :
         /\ Goto(o, p) /\ at[o] \in {"member", "query"}
         /\ UNCHANGED <<journal, epoch, durable, staged, correlation, patched, call, ending,
                        count, member, broken, result>>
  BY DEF ResolveNone, RunAdapters
<1>2. at[o] \in Exec /\ p \in Exec
  BY <1>1 DEF Exec
<1>3. TypeOK /\ OneSealer /\ ~HasRecord(o) /\ EvidenceInv(o)
  BY <1>2, ExecFacts
<1>4. TypeOK' /\ at'[o] = p
  BY <1>1, <1>3 DEF TypeOK, Goto, Points
<1>5. \A m : Has(o, m)' <=> Has(o, m)
  BY <1>1 DEF Has, Event, Answer
<1>6. SealedTo(o)' = SealedTo(o)
  BY <1>1, <1>4 DEF SealedTo
<1>7. \A m \in 1 .. Members : Has(o, m)' <=> m <= SealedTo(o)'
  BY <1>2, <1>5, <1>6, ExecFacts
<1>8. Kept(o)' /\ ~HasRecord(o)'
  BY <1>1, <1>3, SameEvidence DEF EvidenceInv
<1>9. EvidenceInv(o)'
  BY <1>1, <1>3, <1>5, <1>8 DEF EvidenceInv, StoredPlan, Answer
<1>10. OneSealer'
  BY <1>1, <1>3, SealerKept
<1>11. member'[o] <= count[o] /\ <<Record(o), o>> \notin staged'
  BY <1>1, <1>2, ExecFacts
<1> QED
  BY <1>1, <1>2, <1>4, <1>7, <1>8, <1>9, <1>10, <1>11, ExecMove

\* The start of a lookup makes what was staged durable, and shows for it.
LEMMA LookupRows ==
    ASSUME IInv, NEW o \in Ops, at[o] = "member", durable' = WithLookup(o),
           UNCHANGED <<correlation, patched>>
    PROVE  /\ Lands(o) /\ ~HasRecord(o)' /\ Kept(o)'
           /\ \A m \in 1 .. Members : <<Event(o, m), o>> \in durable' <=> Has(o, m)
<1> DEFINE l == Lookup(o, member[o])
<1>0. at[o] \in Exec
  BY DEF Exec
<1>1. /\ TypeOK /\ ~HasRecord(o) /\ EvidenceInv(o) /\ <<Record(o), o>> \notin staged
      /\ member[o] \in 1 .. Members
      /\ \A m \in 1 .. Members : Has(o, m) <=> m <= member[o] - 1
  BY <1>0, ExecFacts DEF SealedTo
<1>2. Lands(o)
  BY DEF Lands, WithLookup, Committed
<1>3. \A r \in Rows : r # l =>
         (<<r, o>> \in durable' <=> <<r, o>> \in staged \/ <<r, o>> \in durable)
  BY DEF WithLookup, Committed, Staged
<1>4. \A m \in 1 .. Members : Event(o, m) \in Rows /\ StoredPlan(o, m) \in Rows /\ Record(o) \in Rows
  BY <1>1, RowTypes
<1>5. \A m : Event(o, m) # l /\ StoredPlan(o, m) # l /\ Record(o) # l
  BY RowKinds
<1>6. \A m : /\ Event(o, m)' = Event(o, m) /\ StoredPlan(o, m)' = StoredPlan(o, m)
             /\ Lookup(o, m)' = Lookup(o, m) /\ Record(o)' = Record(o)
  BY DEF Event, StoredPlan, Lookup, Record, Answer
<1>7. \A m \in 1 .. Members : <<Event(o, m), o>> \in durable' <=> Has(o, m)
  BY <1>3, <1>4, <1>5 DEF Has
<1>8. ~HasRecord(o)'
  BY <1>1, <1>3, <1>4, <1>5, <1>6 DEF HasRecord
<1>9. \E w \in durable' : w[1] = l
  <2>1. CASE Written(l)
    BY <1>2, <2>1 DEF Written, Lands
  <2>2. CASE ~Written(l)
    <3>1. <<l, o>> \in durable' /\ <<l, o>>[1] = l
      BY <2>2 DEF WithLookup
    <3> QED
      BY <3>1
  <2> QED
    BY <2>1, <2>2
<1>10. Kept(o)'
  <2> SUFFICES ASSUME NEW m \in 1 .. Members
               PROVE  /\ <<StoredPlan(o, m)', o>> \in durable' => <<Event(o, m)', o>> \in durable'
                      /\ <<Event(o, m)', o>> \in durable' =>
                            \E n \in (m + 1) .. Members : Written(Lookup(o, n))'
    BY DEF Kept
  <2>1. <<StoredPlan(o, m), o>> \in durable' => Has(o, m)
    BY <1>1, <1>3, <1>4, <1>5 DEF EvidenceInv, Kept, Has
  <2>2. Has(o, m) => member[o] \in (m + 1) .. Members
    BY <1>1
  <2>3. ASSUME Has(o, m) PROVE \E n \in (m + 1) .. Members : Written(Lookup(o, n))'
    <3>1. PICK n \in (m + 1) .. Members : n = member[o]
      BY <2>2, <2>3
    <3>2. \E w \in durable' : w[1] = Lookup(o, n)
      BY <1>9, <3>1
    <3>3. Written(Lookup(o, n))'
      BY <1>6, <3>2 DEF Written
    <3> QED
      BY <3>3
  <2> QED
    BY <1>6, <1>7, <2>1, <2>3
<1> QED
  BY <1>2, <1>7, <1>8, <1>10

LEMMA LookupStep ==
    ASSUME IInv, NEW o \in Ops, CommitResolverStarted(o)
    PROVE  IInv'
<1>0. /\ at[o] = "member" /\ at[o] \in Exec /\ UNCHANGED <<journal, epoch>>
  BY DEF CommitResolverStarted, Exec
<1>1. TypeOK /\ JournalKept /\ EpochInv
  BY DEF IInv
<1>2. CASE broken[o]
  <2>1. Over(o, "refused") /\ UNCHANGED durable
    BY <1>2 DEF CommitResolverStarted
  <2>2. JournalKept' /\ EpochInv' /\ JournalMono
    BY <1>0, <1>1 DEF JournalKept, Repairs, EpochInv, JournalMono
  <2> QED
    BY <1>0, <1>1, <2>1, <2>2, Refuse DEF TypeOK
<1>3. CASE ~broken[o]
  <2>1. /\ durable' = WithLookup(o) /\ staged' = staged \ Staged(o) /\ Goto(o, "query")
        /\ UNCHANGED <<correlation, patched, call, ending, count, member, broken, result>>
    BY <1>3 DEF CommitResolverStarted
  <2>2. /\ Lands(o) /\ ~HasRecord(o)' /\ Kept(o)'
        /\ \A m \in 1 .. Members : <<Event(o, m), o>> \in durable' <=> Has(o, m)
    BY <1>0, <2>1, LookupRows
  <2>3. \A r : <<r, o>> \notin staged'
    BY <2>1 DEF Staged
  <2>4. \A m \in 1 .. Members : Has(o, m)' <=> Has(o, m)
    <3>1. \A m : Event(o, m)' = Event(o, m)
      BY <2>1 DEF Event, Answer
    <3> QED
      BY <2>2, <2>3, <3>1 DEF Has
  <2>5. TypeOK' /\ at'[o] = "query"
    <3>1. durable' \subseteq Rows \X Ops
      BY <1>1, <2>2, LandsRows
    <3> QED
      BY <1>0, <1>1, <2>1, <3>1 DEF TypeOK, Goto, Points
  <2>6. SealedTo(o)' = SealedTo(o)
    BY <1>0, <2>1, <2>5 DEF SealedTo
  <2>7. \A m \in 1 .. Members : Has(o, m)' <=> m <= SealedTo(o)'
    BY <1>0, <2>4, <2>6, ExecFacts
  <2>8. EvidenceInv(o)'
    BY <2>2, <2>3 DEF EvidenceInv
  <2>9. \A q \in Ops \ {o}, r \in Rows : /\ <<r, q>> \in staged' <=> <<r, q>> \in staged
                                         /\ <<r, q>> \in durable' <=> <<r, q>> \in durable
    <3>1. \A q \in Ops \ {o}, r \in Rows : <<r, q>> \in staged' <=> <<r, q>> \in staged
      BY <2>1 DEF Staged
    <3> QED
      BY <1>1, <2>2, <3>1, LandsRows
  <2>10. OneSealer'
    <3>1. \A q, p \in Ops, m \in 1 .. Members :
             <<Event(q, m), p>> \in staged' \cup durable' =>
             <<Event(q, m), p>> \in staged \cup durable
      BY <1>1, <2>1, <2>2, LandsRows
    <3> QED
      BY <2>1, <3>1, SealerKept DEF IInv
  <2>11. durable \subseteq durable' /\ member'[o] <= count[o] /\ "query" \in Exec
    BY <1>0, <2>1, <2>2, ExecFacts DEF Lands, Exec
  <2>12. <<Record(o), o>> \in staged' <=> "query" = "commit"
    BY <2>3
  <2>13. "query" \in {"record", "commit"} => member'[o] = count[o]
    OBVIOUS
  <2> QED
    BY <1>0, <2>1, <2>2, <2>5, <2>7, <2>8, <2>9, <2>10, <2>11, <2>12, <2>13, ExecMove
<1> QED
  BY <1>2, <1>3

LEMMA LookupCutStep ==
    ASSUME IInv, NEW o \in Ops, ResolverStartCut(o)
    PROVE  IInv'
<1>0. at[o] = "member" /\ durable' = WithLookup(o) /\ UNCHANGED <<journal, epoch>>
  BY DEF ResolverStartCut
<1>1. PICK r \in {"refused", "stopped"} : Over(o, r)
  BY DEF ResolverStartCut
<1>2. TypeOK /\ JournalKept' /\ EpochInv' /\ JournalMono
  BY <1>0 DEF IInv, JournalKept, Repairs, EpochInv, JournalMono
<1>3. Lands(o) /\ ~HasRecord(o)' /\ Kept(o)'
  BY <1>0, <1>1, LookupRows DEF Over
<1>4. RecordInv(o)'
  BY <1>1, <1>2, <1>3 DEF RecordInv, Over, TypeOK
<1>5. r \in Results /\ r # "none"
  BY DEF Results
<1>6. journal' \in [Correlations -> [Calls -> Attempt]]
  BY <1>0, <1>2 DEF TypeOK
<1> QED
  BY <1>0, <1>1, <1>2, <1>3, <1>4, <1>5, <1>6, OverMove

LEMMA AppendStep ==
    ASSUME IInv, NEW o \in Ops, Append(o)
    PROVE  IInv'
<1> DEFINE w == <<Event(o, member[o]), o>>
<1>0. /\ at[o] = "seal" /\ at[o] \in Exec /\ UNCHANGED <<journal, epoch>>
      /\ Free(o, Event(o, member[o]))
  BY DEF Append, Exec
<1>1. TypeOK /\ JournalKept /\ EpochInv /\ OneSealer
  BY DEF IInv
<1>2. CASE ~Sealable(o)
  <2>1. Over(o, "refused") /\ UNCHANGED durable
    BY <1>2 DEF Append
  <2>2. JournalKept' /\ EpochInv' /\ JournalMono
    BY <1>0, <1>1 DEF JournalKept, Repairs, EpochInv, JournalMono
  <2> QED
    BY <1>0, <1>1, <2>1, <2>2, Refuse DEF TypeOK
<1>3. CASE Sealable(o)
  <2>1. /\ staged' = staged \cup {w} /\ UNCHANGED durable /\ Goto(o, "plan")
        /\ UNCHANGED <<correlation, patched, call, ending, count, member, broken, result>>
    BY <1>3 DEF Append, Sealed
  <2>2. member[o] \in 1 .. Members /\ ~HasRecord(o) /\ EvidenceInv(o)
    BY <1>0, ExecFacts
  <2>3. Event(o, member[o]) \in Rows
    BY <1>1, <2>2, RowTypes
  <2>4. TypeOK' /\ at'[o] = "plan"
    BY <1>0, <1>1, <2>1, <2>3 DEF TypeOK, Goto, Points
  <2>5. \A q, m : Event(q, m)' = Event(q, m) /\ StoredPlan(q, m)' = StoredPlan(q, m)
    BY <2>1 DEF Event, StoredPlan, Answer
  <2>6. \A m \in 1 .. Members : Has(o, m)' <=> Has(o, m) \/ m = member[o]
    BY <2>1, <2>5, RowKinds DEF Has
  <2>7. SealedTo(o)' = member[o] /\ SealedTo(o) = member[o] - 1
    BY <1>0, <2>1, <2>4 DEF SealedTo
  <2>8. \A m \in 1 .. Members : Has(o, m)' <=> m <= SealedTo(o)'
    <3>1. \A m \in 1 .. Members : Has(o, m) <=> m <= SealedTo(o)
      BY <1>0, ExecFacts
    <3> QED
      BY <2>2, <2>6, <2>7, <3>1
  <2>9. Kept(o)' /\ ~HasRecord(o)'
    BY <2>1, <2>2, SameEvidence DEF EvidenceInv
  <2>10. EvidenceInv(o)'
    <3>1. \A m \in 1 .. Members : <<StoredPlan(o, m), o>> \in staged' =>
                                 <<StoredPlan(o, m), o>> \in staged
      BY <2>1, RowKinds
    <3> QED
      BY <2>2, <2>5, <2>6, <2>9, <3>1 DEF EvidenceInv
  <2>11. OneSealer'
    <3> SUFFICES ASSUME NEW q \in Ops, NEW x \in Ops, NEW m \in 1 .. Members,
                        Has(q, m)', <<Event(q, m)', x>> \in staged' \cup durable'
                 PROVE  q = x
      BY DEF OneSealer
    <3>1. \A y \in Ops : <<Event(o, member[o]), y>> \in staged \cup durable => y = o
      <4>1. \A v \in staged \cup durable : v[1] = Event(o, member[o]) => v[2] = o
        BY <1>0, <1>3 DEF Free, Sealable, Written
      <4> QED
        BY <4>1
    <3>2. Has(q, m) \/ (q = o /\ Event(q, m) = Event(o, member[o]))
      BY <2>1, <2>5 DEF Has
    <3>3. \/ <<Event(q, m), x>> \in staged \cup durable
          \/ x = o /\ Event(q, m) = Event(o, member[o])
      BY <2>1, <2>5
    <3>4. CASE Event(q, m) = Event(o, member[o])
      <4>1. q = o
        BY <3>1, <3>2, <3>4 DEF Has
      <4>2. x = o
        BY <3>1, <3>3, <3>4
      <4> QED
        BY <4>1, <4>2
    <3>5. CASE Event(q, m) # Event(o, member[o])
      BY <1>1, <3>2, <3>3, <3>5 DEF OneSealer
    <3> QED
      BY <3>4, <3>5
  <2>12. \A q \in Ops \ {o}, r \in Rows : /\ <<r, q>> \in staged' <=> <<r, q>> \in staged
                                          /\ <<r, q>> \in durable' <=> <<r, q>> \in durable
    BY <2>1
  <2>13. member'[o] <= count[o] /\ "plan" \in Exec
    BY <1>0, <2>1, ExecFacts DEF Exec
  <2>14. <<Record(o), o>> \in staged' <=> "plan" = "commit"
    <3>1. <<Record(o), o>> \notin staged
      BY <1>0, ExecFacts
    <3> QED
      BY <2>1, <3>1, RowKinds
  <2>15. "plan" \in {"record", "commit"} => member'[o] = count[o]
    OBVIOUS
  <2> QED
    BY <1>0, <2>1, <2>4, <2>8, <2>9, <2>10, <2>11, <2>12, <2>13, <2>14, <2>15, ExecMove
<1> QED
  BY <1>2, <1>3

LEMMA SaveStep ==
    ASSUME IInv, NEW o \in Ops, SavePlan(o)
    PROVE  IInv'
<1> DEFINE w == <<StoredPlan(o, member[o]), o>>
<1>0. /\ at[o] = "plan" /\ at[o] \in Exec /\ NextMember(o)
      /\ UNCHANGED <<journal, epoch, durable, correlation, patched, call, ending, count,
                     result>>
      /\ staged' = staged \/ staged' = staged \cup {w}
      /\ broken' = broken \/ broken' = [broken EXCEPT ![o] = TRUE]
  BY DEF SavePlan, Exec
<1>1. /\ TypeOK /\ OneSealer /\ ~HasRecord(o) /\ EvidenceInv(o) /\ Kept(o)
      /\ member[o] \in 1 .. Members /\ count[o] \in 1 .. Members /\ member[o] <= count[o]
      /\ \A m \in 1 .. Members : Has(o, m) <=> m <= member[o]
      /\ <<Record(o), o>> \notin staged
  BY <1>0, ExecFacts DEF SealedTo, EvidenceInv
<1>2. PICK p \in {"member", "record"} :
         /\ Goto(o, p)
         /\ p = "member" => /\ member[o] < count[o]
                            /\ member' = [member EXCEPT ![o] = @ + 1]
         /\ p = "record" => member[o] = count[o] /\ member' = member
  BY <1>0, <1>1 DEF NextMember
<1>3. TypeOK' /\ at'[o] = p
  <2>1. member' \in [Ops -> 1 .. Members]
    BY <1>1, <1>2, OperationAssumption DEF TypeOK
  <2>2. staged' \subseteq Rows \X Ops
    BY <1>0, <1>1, RowTypes DEF TypeOK
  <2>3. broken' \in [Ops -> BOOLEAN] /\ at' \in [Ops -> Points]
    BY <1>0, <1>1, <1>2 DEF TypeOK, Goto, Points
  <2> QED
    BY <1>0, <1>1, <1>2, <2>1, <2>2, <2>3 DEF TypeOK, Goto
<1>4. \A q, m : Event(q, m)' = Event(q, m) /\ StoredPlan(q, m)' = StoredPlan(q, m)
  BY <1>0 DEF Event, StoredPlan, Answer
<1>5. \A m : Has(o, m)' <=> Has(o, m)
  BY <1>0, <1>4, RowKinds DEF Has
<1>6. SealedTo(o)' = member[o] /\ member'[o] <= count[o]
  <2>1. CASE p = "member"
    <3>1. member'[o] = member[o] + 1
      BY <1>1, <1>2, <2>1 DEF TypeOK
    <3> QED
      BY <1>1, <1>2, <1>3, <2>1, <3>1 DEF SealedTo
  <2>2. CASE p = "record"
    BY <1>1, <1>2, <1>3, <2>2 DEF SealedTo
  <2> QED
    BY <2>1, <2>2
<1>7. Kept(o)' /\ ~HasRecord(o)'
  BY <1>0, <1>1, SameEvidence
<1>8. EvidenceInv(o)'
  <2>1. \A m \in 1 .. Members : <<StoredPlan(o, m), o>> \in staged' =>
                               <<StoredPlan(o, m), o>> \in staged \/ m = member[o]
    BY <1>0, RowKinds
  <2> QED
    BY <1>1, <1>4, <1>5, <1>7, <2>1 DEF EvidenceInv
<1>9. OneSealer'
  <2>1. \A q, x \in Ops, m \in 1 .. Members :
           <<Event(q, m), x>> \in staged' \cup durable' =>
           <<Event(q, m), x>> \in staged \cup durable
    BY <1>0, RowKinds
  <2> QED
    BY <1>0, <1>1, <2>1, SealerKept
<1>10. \A q \in Ops \ {o}, r \in Rows : /\ <<r, q>> \in staged' <=> <<r, q>> \in staged
                                        /\ <<r, q>> \in durable' <=> <<r, q>> \in durable
  BY <1>0
<1>11. <<Record(o), o>> \notin staged' /\ p # "commit" /\ p \in Exec
  BY <1>0, <1>1, RowKinds DEF Exec
<1>12. \A q \in Ops \ {o} : member'[q] = member[q]
  BY <1>1, <1>2 DEF TypeOK
<1>13. p \in {"record", "commit"} => member'[o] = count[o]
  BY <1>2
<1>14. \A m \in 1 .. Members : Has(o, m)' <=> m <= SealedTo(o)'
  BY <1>1, <1>5, <1>6
<1> QED
  BY <1>0, <1>2, <1>3, <1>6, <1>7, <1>8, <1>9, <1>10, <1>11, <1>12, <1>13, <1>14, ExecMove

LEMMA RecordStep ==
    ASSUME IInv, NEW o \in Ops, WriteRecord(o)
    PROVE  IInv'
<1>0. at[o] = "record" /\ at[o] \in Exec /\ UNCHANGED <<journal, epoch, durable>>
  BY DEF WriteRecord, Exec
<1>1. TypeOK /\ JournalKept /\ EpochInv /\ OneSealer
  BY DEF IInv
<1>2. CASE broken[o]
  <2>1. Over(o, "refused")
    BY <1>2 DEF WriteRecord
  <2>2. JournalKept' /\ EpochInv' /\ JournalMono
    BY <1>0, <1>1 DEF JournalKept, Repairs, EpochInv, JournalMono
  <2> QED
    BY <1>0, <1>1, <2>1, <2>2, Refuse DEF TypeOK
<1>3. CASE ~broken[o]
  <2>1. /\ staged' = staged \cup {<<Record(o), o>>} /\ Goto(o, "commit")
        /\ UNCHANGED <<correlation, patched, call, ending, count, member, broken, result>>
    BY <1>3 DEF WriteRecord
  <2>2. /\ member[o] \in 1 .. Members /\ ~HasRecord(o) /\ EvidenceInv(o) /\ Kept(o)
        /\ member[o] = count[o]
        /\ \A m \in 1 .. Members : Has(o, m) <=> m <= member[o]
    BY <1>0, ExecFacts DEF SealedTo, EvidenceInv
  <2>3. TypeOK' /\ at'[o] = "commit"
    BY <1>0, <1>1, <2>1, <2>2, RowTypes DEF TypeOK, Goto, Points
  <2>4. \A q, m : Event(q, m)' = Event(q, m) /\ StoredPlan(q, m)' = StoredPlan(q, m)
    BY <2>1 DEF Event, StoredPlan, Answer
  <2>5. \A m : Has(o, m)' <=> Has(o, m)
    BY <1>0, <2>1, <2>4, RowKinds DEF Has
  <2>6. SealedTo(o)' = member[o]
    BY <2>1, <2>3 DEF SealedTo
  <2>7. Kept(o)' /\ ~HasRecord(o)'
    BY <1>0, <2>1, <2>2, SameEvidence
  <2>8. EvidenceInv(o)'
    <3>1. \A m \in 1 .. Members : <<StoredPlan(o, m), o>> \in staged' =>
                                 <<StoredPlan(o, m), o>> \in staged
      BY <2>1, RowKinds
    <3> QED
      BY <2>2, <2>4, <2>5, <2>7, <3>1 DEF EvidenceInv
  <2>9. OneSealer'
    <3>1. \A q, x \in Ops, m \in 1 .. Members :
             <<Event(q, m), x>> \in staged' \cup durable' =>
             <<Event(q, m), x>> \in staged \cup durable
      BY <1>0, <2>1, RowKinds
    <3> QED
      BY <1>1, <2>1, <3>1, SealerKept
  <2>10. \A q \in Ops \ {o}, r \in Rows : /\ <<r, q>> \in staged' <=> <<r, q>> \in staged
                                          /\ <<r, q>> \in durable' <=> <<r, q>> \in durable
    BY <1>0, <2>1
  <2>11. member'[o] <= count[o] /\ member'[o] = count[o] /\ "commit" \in Exec
    BY <1>1, <2>1, <2>2 DEF TypeOK, Exec
  <2>12. <<Record(o), o>> \in staged' <=> "commit" = "commit"
    BY <2>1
  <2>13. \A m \in 1 .. Members : Has(o, m)' <=> m <= SealedTo(o)'
    BY <2>2, <2>5, <2>6
  <2> QED
    BY <1>0, <2>1, <2>3, <2>7, <2>8, <2>9, <2>10, <2>11, <2>12, <2>13, ExecMove
<1> QED
  BY <1>2, <1>3

\* What the commit of an answer makes durable.
LEMMA CommitLands ==
    ASSUME IInv, NEW o \in Ops, at[o] = "commit", durable' = Committed(o),
           NEW r \in {"answered", "stopped"}, Over(o, r), UNCHANGED <<journal, epoch>>
    PROVE  IInv'
<1>0. at[o] \in Exec
  BY DEF Exec
<1>1. /\ TypeOK /\ JournalKept /\ EpochInv /\ EvidenceInv(o) /\ Kept(o)
      /\ member[o] \in 1 .. Members /\ member[o] = count[o]
      /\ <<Record(o), o>> \in staged /\ (~patched[o] => Planned(o))
      /\ \A m \in 1 .. Members : Has(o, m) <=> m <= count[o]
  BY <1>0, ExecFacts DEF SealedTo, EvidenceInv, IInv
<1>2. \A m : /\ Event(o, m)' = Event(o, m) /\ StoredPlan(o, m)' = StoredPlan(o, m)
             /\ Record(o)' = Record(o)
  BY DEF Over, Event, StoredPlan, Record, Answer
<1>3. \A x : <<x, o>> \in durable' <=> <<x, o>> \in staged \/ <<x, o>> \in durable
  BY DEF Committed, Staged
<1>4. HasRecord(o)'
  BY <1>1, <1>2, <1>3 DEF HasRecord
<1>5. \A m \in 1 .. Members : <<Event(o, m)', o>> \in durable' <=> Has(o, m)
  BY <1>2, <1>3 DEF Has
<1>6. HasEvents(o)'
  <2>1. ASSUME NEW m \in 1 .. count[o] PROVE <<Event(o, m)', o>> \in durable'
    <3>1. m \in 1 .. Members /\ m <= count[o] /\ count[o] \in 1 .. Members
      BY <1>1, OperationAssumption DEF TypeOK
    <3> QED
      BY <1>1, <1>5, <3>1
  <2> QED
    BY <2>1 DEF HasEvents, Over
<1>7. at'[o] = "over" /\ result'[o] = r
  BY <1>1 DEF Over, Goto, TypeOK
<1>8. RecordInv(o)'
  BY <1>4, <1>6, <1>7 DEF RecordInv
<1>9. Kept(o)'
  <2>1. \A m \in 1 .. Members : <<StoredPlan(o, m)', o>> \in durable' => Has(o, m)
    BY <1>1, <1>2, <1>3 DEF EvidenceInv, Kept, Has
  <2> QED
    BY <1>4, <1>5, <2>1 DEF Kept
<1>10. ~patched[o] => Planned(o)'
  BY <1>1 DEF Planned, TheAttempt, Over
<1>11. Lands(o) /\ r \in Results /\ r # "none"
  BY DEF Lands, Committed, Results
<1>12. JournalKept' /\ EpochInv' /\ JournalMono
  BY <1>1 DEF JournalKept, Repairs, EpochInv, JournalMono
<1>13. journal' \in [Correlations -> [Calls -> Attempt]]
  BY <1>1 DEF TypeOK
<1> QED
  BY <1>8, <1>9, <1>10, <1>11, <1>12, <1>13, OverMove

LEMMA CommitStep ==
    ASSUME IInv, NEW o \in Ops, Commit(o)
    PROVE  IInv'
  BY CommitLands DEF Commit

LEMMA CommitBreakStep ==
    ASSUME IInv, NEW o \in Ops, CommitBreaks(o)
    PROVE  IInv'
<1>0. at[o] = "commit" /\ Over(o, "stopped") /\ UNCHANGED <<journal, epoch>>
  BY DEF CommitBreaks
<1>1. CASE durable' = durable
  <2>1. JournalKept' /\ EpochInv' /\ JournalMono /\ TypeOK
    BY <1>0 DEF IInv, JournalKept, Repairs, EpochInv, JournalMono
  <2> QED
    BY <1>0, <1>1, <2>1, Refuse DEF TypeOK
<1>2. CASE durable' = Committed(o)
  BY <1>0, <1>2, CommitLands
<1> QED
  BY <1>1, <1>2 DEF CommitBreaks

LEMMA EndStep ==
    ASSUME IInv, NEW o \in Ops, End(o)
    PROVE  IInv'
<1>0. /\ at[o] # "over" /\ UNCHANGED <<journal, epoch, durable>>
      /\ \E r \in {"refused", "stopped"} : Over(o, r)
  BY DEF End
<1>1. JournalKept' /\ EpochInv' /\ JournalMono /\ TypeOK
  BY <1>0 DEF IInv, JournalKept, Repairs, EpochInv, JournalMono
<1> QED
  BY <1>0, <1>1, Refuse DEF TypeOK
-----------------------------------------------------------------------------
LEMMA InitInv == Init => IInv
<1> SUFFICES ASSUME Init PROVE IInv
  OBVIOUS
<1>0. /\ MaxEpoch \in Nat /\ 1 \in 1 .. MaxEpoch /\ 0 \in 0 .. MaxEpoch /\ 1 \in 1 .. Members
      /\ 0 \in Calls
  BY OperationAssumption DEF Calls
<1>1. TypeOK
  <2>1. NoAttempt \in Attempt
    BY <1>0 DEF NoAttempt, Attempt
  <2>2. GivenUp \in Endings
    BY DEF Endings
  <2> QED
    BY <1>0, <2>1, <2>2 DEF Init, TypeOK, Points, Results
<1>2. \A k \in Correlations, c \in Calls :
         /\ journal[k][c].owner = "none" /\ journal[k][c].terminal = "none" /\ epoch[k][c] = 1
  BY DEF Init, NoAttempt
<1>3. JournalKept /\ EpochInv
  BY <1>2 DEF JournalKept, EpochInv
<1>4. OneSealer
  BY DEF Init, OneSealer, Has
<1>5. ASSUME NEW o \in Ops PROVE OpInv(o)
  <2>1. /\ at[o] = "idle" /\ result[o] = "none" /\ call[o] = 0 /\ member[o] = 1
        /\ staged = {} /\ durable = {}
    BY DEF Init
  <2>2. PlannerInv(o)
    BY <2>1 DEF PlannerInv, Exec, HasRecord
  <2>3. RowsInv(o)
    BY <2>1 DEF RowsInv, NoRows, Exec, Early
  <2>4. RecordInv(o)
    BY <2>1 DEF RecordInv, HasRecord
  <2>5. EvidenceInv(o)
    BY <2>1 DEF EvidenceInv, Kept
  <2> QED
    BY <2>2, <2>3, <2>4, <2>5 DEF OpInv
<1> QED
  BY <1>1, <1>3, <1>4, <1>5 DEF IInv

LEMMA StutterInv == ASSUME IInv, UNCHANGED vars PROVE IInv'
<1>1. TypeOK' /\ JournalKept' /\ EpochInv' /\ JournalMono
  BY DEF IInv, TypeOK, JournalKept, Repairs, EpochInv, JournalMono, vars, ops
<1> QED
  BY <1>1, TakeoverInv DEF vars

\* Every step keeps the invariant: who may hold which row, and what each place of
\* an operation implies for its attempt, its session and the store
\* (PreparedBqOperation, PostgresPlannerAttemptSink).
THEOREM Inductive == Spec => []IInv
<1>1. IInv /\ [Next]_vars => IInv'
  <2> SUFFICES ASSUME IInv, [Next]_vars PROVE IInv'
    OBVIOUS
  <2>1. CASE UNCHANGED vars
    BY <2>1, StutterInv
  <2>2. ASSUME NEW o \in Ops, Prepare(o) \/ ContinueWithPatch(o) \/ PlanRound(o) PROVE IInv'
    BY <2>2, PrepareSteps
  <2>3. ASSUME NEW o \in Ops, PlannerStep(o) PROVE IInv'
    BY <2>3, StartStep, AskStep, ResponseStep, FinishStep, BreakStep, GiveUpStep DEF PlannerStep
  <2>4. ASSUME NEW o \in Ops, ExecuteStep(o) PROVE IInv'
    BY <2>4, QuietSteps, LookupStep, LookupCutStep, AppendStep, SaveStep, RecordStep,
       CommitStep, CommitBreakStep DEF ExecuteStep
  <2>5. ASSUME NEW o \in Ops, End(o) PROVE IInv'
    BY <2>5, EndStep
  <2>6. ASSUME NEW k \in Correlations, NEW c \in Calls, ClaimRecovery(k, c) \/ RecoveryFinish(k, c)
        PROVE  IInv'
    BY <2>6, ClaimStep, RecoveryStep
  <2> QED
    BY <2>1, <2>2, <2>3, <2>4, <2>5, <2>6 DEF Next
<1> QED
  BY <1>1, InitInv, PTL DEF Spec

\* Attempts, rows and operations have their types, whatever the operations of
\* one request do (PreparedBqOperation, PostgresPlannerAttemptSink).
THEOREM TypeCorrect == Spec => []TypeOK
<1>1. IInv => TypeOK
  BY DEF IInv
<1> QED
  BY <1>1, Inductive, PTL

\* Attempts of one correlation form a chain of one owner, and one that was
\* taken over is ended by who holds it (_append, _rotate_attempt_for_repair).
THEOREM JournalSafe == Spec => []JournalKept
<1>1. IInv => JournalKept
  BY DEF IInv
<1> QED
  BY <1>1, Inductive, PTL

\* An answer that is shown is durable with its record, evidence and completed
\* attempt, and none that is durable was refused (PreparedBqOperation.execute).
THEOREM DurableSafe == Spec => []AnswerDurable
<1>1. IInv => AnswerDurable
  BY DEF IInv, OpInv, AnswerDurable, RecordInv, PlannerInv, Planned
<1> QED
  BY <1>1, Inductive, PTL

\* Only the start of a later lookup leaves evidence without its record
\* (append_resolver_started, abort_unanswered_uow).
THEOREM EvidenceSafe == Spec => []EvidenceKept
<1>1. IInv => EvidenceKept
  BY DEF IInv, OpInv, EvidenceKept, EvidenceInv, Kept
<1> QED
  BY <1>1, Inductive, PTL

\* A repeated request is answered once, however many operations repeat it
\* (scoped_evidence_idempotency_key, PostgresExecutionEventStore.append).
THEOREM OnceSafe == Spec => []AnsweredOnce
<1>1. IInv => AnsweredOnce
  <2> SUFFICES ASSUME IInv, NEW o1 \in Ops, NEW o2 \in Ops, HasRecord(o1), HasRecord(o2),
                      patched[o1] = patched[o2]
               PROVE  o1 = o2
    BY DEF AnsweredOnce
  <2>1. /\ HasEvents(o1) /\ HasEvents(o2) /\ OneSealer
        /\ 1 \in 1 .. count[o1] /\ 1 \in 1 .. count[o2] /\ 1 \in 1 .. Members
    BY OperationAssumption DEF IInv, OpInv, RecordInv, TypeOK
  <2>2. Event(o1, 1) = Event(o2, 1)
    BY DEF Event, Answer
  <2>3. <<Event(o1, 1), o1>> \in durable /\ <<Event(o1, 1), o2>> \in durable
    BY <2>1, <2>2 DEF HasEvents
  <2> QED
    BY <2>1, <2>3 DEF OneSealer, Has
<1> QED
  BY <1>1, Inductive, PTL
=============================================================================
