------------------------- MODULE CoordinatorProofs -------------------------
(***************************************************************************)
(* The coordinator's turn of Coordinator.tla for every policy: types, the   *)
(* lifecycle's protocol, the limits, what a published answer stands on, the *)
(* repairs, and a bound on the nodes the graph runs.                        *)
(***************************************************************************)
EXTENDS Coordinator, TLAPS, FiniteSetTheorems

USE DEF request, counters, lifecycle, repairs

Statuses == {"succeeded", "failed", "timed_out", "denied"}
Held == [kind : {"finished"}, draft : Drafts, outcomes : Seq(Outcomes)]
Terminals == Held \cup [kind : {"stopped"}, reason : Reasons]
                  \cup [kind : {"clarify", "business_query", "none"}]

\* What a node that completes its action appends to the outcomes.
LEMMA CompleteAppends ==
    ASSUME TypeOK, NEW s \in Statuses, NEW e \in SUBSET Nat,
           NEW d \in BOOLEAN, NEW n \in BOOLEAN, Complete(s, e, d, n)
    PROVE  \E a \in running, o \in Outcomes :
              /\ o.id = a.id /\ o.kind = a.kind /\ o.status = s /\ o.evidence = e
              /\ outcomes' = Append(outcomes, o)
              /\ running' = running \ {a}
<1>1. PICK a \in running :
        /\ running' = running \ {a}
        /\ outcomes' = Append(outcomes,
              [id |-> a.id, kind |-> a.kind, status |-> s,
               evidence |-> e, documents |-> d, note |-> n])
  BY DEF Complete
<1>2. a \in [id : Nat, kind : Tools]
  BY DEF TypeOK
<1>3. [id |-> a.id, kind |-> a.kind, status |-> s, evidence |-> e,
       documents |-> d, note |-> n] \in Outcomes
  BY <1>2 DEF Outcomes, Statuses
<1> QED
  BY <1>1, <1>3

LEMMA CompleteType ==
    ASSUME TypeOK, NEW s \in Statuses, NEW e \in SUBSET Nat,
           NEW d \in BOOLEAN, NEW n \in BOOLEAN, Complete(s, e, d, n)
    PROVE  running' \subseteq [id : Nat, kind : Tools] /\ outcomes' \in Seq(Outcomes)
<1>1. PICK a \in running, o \in Outcomes :
        outcomes' = Append(outcomes, o) /\ running' = running \ {a}
  BY CompleteAppends
<1>2. Append(outcomes, o) \in Seq(Outcomes)
  BY DEF TypeOK
<1> QED
  BY <1>1, <1>2 DEF TypeOK

LEMMA CountType ==
    ASSUME TypeOK, Count
    PROVE  /\ actions' \in Nat /\ businessQueries' \in Nat
           /\ documentSearches' \in Nat /\ restores' \in Nat
BY DEF TypeOK, Count

LEMMA EndType ==
    ASSUME TypeOK, NEW t \in Terminals, End(t)
    PROVE  /\ terminal' \in Terminals /\ steps' \in Nat /\ node' = "end"
           /\ available' = available /\ candidates' = candidates
BY DEF TypeOK, End, Goto

LEMMA StoppedType == ASSUME NEW r \in Reasons PROVE Stopped(r) \in Terminals
BY DEF Stopped, Terminals

LEMMA FinishedType ==
    ASSUME TypeOK, NEW d \in Drafts PROVE Finished(d) \in Held /\ Finished(d) \in Terminals
BY DEF Finished, TypeOK, Held, Terminals

\* Actions are counted where their outcomes are recorded, and at most the node
\* that runs has one running.
SyncInv ==
    /\ node # "end" => actions = Len(outcomes)
    /\ node \notin Tools \cup {"abandoned"} => running = {}
    /\ node \in Tools => running \subseteq {[id |-> actions + 1, kind |-> node]}

\* A node leads to "finish_answer" with a draft and to "clarify" with a card.
ActionInv ==
    /\ node = "finish_answer" => lastAction \in Drafts
    /\ node = "clarify" => lastAction \in Cards

LEMMA ObserveType ==
    ASSUME TypeOK, Observe, running' \subseteq [id : Nat, kind : Tools],
           outcomes' \in Seq(Outcomes), UNCHANGED <<decisions, repairs>>
    PROVE  TypeOK' /\ ActionInv'
<1>1. node' = "decide" /\ steps' \in Nat /\ terminal' = terminal
      /\ lastAction' = lastAction /\ UNCHANGED request
  BY DEF Observe, Goto, TypeOK
<1>2. /\ actions' \in Nat /\ businessQueries' \in Nat
      /\ documentSearches' \in Nat /\ restores' \in Nat
  BY CountType DEF Observe
<1> QED
  BY <1>1, <1>2 DEF TypeOK, ActionInv

LEMMA TypeStep ==
    ASSUME TypeOK, ActionInv, SyncInv, [Next]_vars
    PROVE  TypeOK' /\ ActionInv'
<1> USE DEF Terminals, Held
<1>1. CASE StopBeforeDecision
  <2>1. PICK r \in Reasons : End(Stopped(r))
    BY <1>1 DEF StopBeforeDecision, Reasons
  <2> QED
    BY <1>1, <2>1, StoppedType, EndType DEF TypeOK, ActionInv, StopBeforeDecision
<1>2. CASE DecisionFails
  <2>1. PICK r \in Reasons : End(Stopped(r))
    BY <1>2 DEF DecisionFails, Reasons
  <2> QED
    BY <1>2, <2>1, StoppedType, EndType DEF TypeOK, ActionInv, DecisionFails
<1>3. ASSUME NEW action \in Actions, Decide(action)
      PROVE  TypeOK' /\ ActionInv'
  <2>1. CASE action.kind \in Allowed
    <3>1. action.kind \in Tools \cup Endings
      BY <2>1 DEF Allowed, TypeOK
    <3>2. action.kind = "finish_answer" => action \in Drafts
      BY DEF Actions, Drafts, Cards, ToolCalls, Tools
    <3>3. action.kind = "clarify" => action \in Cards
      BY DEF Actions, Drafts, Cards, ToolCalls, Tools
    <3>4. node' = action.kind /\ steps' \in Nat /\ decisions' \in Nat
          /\ lastAction' = action /\ terminal' = terminal
          /\ UNCHANGED <<request, counters, repairs, lifecycle>>
      BY <1>3, <2>1 DEF Decide, Goto, Decided, TypeOK
    <3> QED
      BY <3>1, <3>2, <3>3, <3>4 DEF TypeOK, ActionInv
  <2>2. CASE action.kind \notin Allowed
    <3>1. DisallowedReason(action.kind) \in Reasons
      BY DEF DisallowedReason, Reasons
    <3> QED
      BY <1>3, <2>2, <3>1, StoppedType, EndType DEF Decide, TypeOK, ActionInv
  <2> QED
    BY <2>1, <2>2
<1>4. CASE Finish
  <2>1. lastAction \in Drafts /\ Finished(lastAction) \in Held
        /\ Finished(lastAction) \in Terminals
    BY <1>4, FinishedType DEF Finish, ActionInv
  <2>2. ASSUME NEW rule \in Rules, Repair(rule, Finished(lastAction))
        PROVE  /\ repairsUsed' \subseteq Rules /\ heldDraft' \in Held \cup {Nothing}
               /\ node' = "decide" /\ steps' \in Nat /\ terminal' = terminal
               /\ UNCHANGED request
    BY <2>1, <2>2 DEF Repair, Goto, TypeOK
  <2>3. "malformed_response" \in Reasons
    BY DEF Reasons
  <2> QED
    BY <1>4, <2>1, <2>2, <2>3, StoppedType, EndType
       DEF Finish, RepairOr, TypeOK, ActionInv
<1>5. CASE Clarify
  <2>1. [kind |-> "clarify"] \in Terminals
    OBVIOUS
  <2>2. ASSUME NEW rule \in Rules, Repair(rule, Nothing)
        PROVE  /\ repairsUsed' \subseteq Rules /\ heldDraft' \in Held \cup {Nothing}
               /\ node' = "decide" /\ steps' \in Nat /\ terminal' = terminal
               /\ UNCHANGED request
    BY <2>1, <2>2 DEF Repair, Goto, TypeOK
  <2>3. "malformed_response" \in Reasons
    BY DEF Reasons
  <2> QED
    BY <1>5, <2>1, <2>2, <2>3, StoppedType, EndType
       DEF Clarify, RepairOr, TypeOK, ActionInv
<1>6. CASE Start
  <2>1. "action_protocol_error" \in Reasons
    BY DEF Reasons
  <2>2. [id |-> ActionId, kind |-> node] \in [id : Nat, kind : Tools]
    BY <1>6 DEF Start, ActionId, TypeOK
  <2> QED
    BY <1>6, <2>1, <2>2, StoppedType, EndType DEF Start, TypeOK, ActionInv
<1>7. CASE ToolTimesOut
  <2>1. "budget_expired" \in Reasons
    BY DEF Reasons
  <2> QED
    BY <1>7, <2>1, StoppedType, EndType, CompleteType
       DEF ToolTimesOut, TypeOK, ActionInv, Statuses
<1>8. CASE ToolRaises
  <2>1. running' \subseteq [id : Nat, kind : Tools] /\ outcomes' \in Seq(Outcomes)
    BY <1>8, CompleteType DEF ToolRaises, Statuses
  <2> QED
    BY <1>8, <2>1, ObserveType DEF ToolRaises
<1>9. ASSUME NEW narrated \in BOOLEAN, NEW misstates \in BOOLEAN,
             QueryCommits(narrated, misstates)
      PROVE  TypeOK' /\ ActionInv'
  <2>1. ActionId = actions + 1 /\ {ActionId} \in SUBSET Nat
    BY DEF ActionId, TypeOK
  <2>2. running' \subseteq [id : Nat, kind : Tools] /\ outcomes' \in Seq(Outcomes)
    BY <1>9, <2>1, CompleteType DEF QueryCommits, Statuses
  <2>3. CASE ~narrated /\ Len(outcomes') = 1
    <3>1. ActionId = 1
      <4>1. PICK o \in Outcomes : outcomes' = Append(outcomes, o)
        BY <1>9, <2>1, CompleteAppends DEF QueryCommits, Statuses
      <4>2. Len(outcomes) = 0
        BY <2>3, <4>1 DEF TypeOK
      <4> QED
        BY <1>9, <4>2 DEF SyncInv, QueryCommits, Returning, ActionId
    <3>2. Draft({ActionId}, FALSE, FALSE, misstates) \in Drafts
      BY <3>1, PolicyAssumption DEF Draft, Drafts
    <3>3. Count /\ Goto("finish_answer") /\ terminal' = terminal
          /\ lastAction' = Draft({ActionId}, FALSE, FALSE, misstates)
          /\ UNCHANGED <<decisions, repairs>>
      BY <1>9, <2>3 DEF QueryCommits
    <3>4. node' = "finish_answer" /\ steps' \in Nat /\ UNCHANGED request
      BY <3>3 DEF Goto, TypeOK
    <3>5. node' \in Tools \cup Endings \cup {"decide", "end", "abandoned"}
      BY <3>4 DEF Endings
    <3>6. lastAction' \in Drafts /\ lastAction' \in Actions
      BY <3>2, <3>3 DEF Actions
    <3> QED
      BY <2>2, <3>3, <3>4, <3>5, <3>6, CountType DEF TypeOK, ActionInv
  <2>4. CASE ~(~narrated /\ Len(outcomes') = 1)
    BY <1>9, <2>2, <2>4, ObserveType DEF QueryCommits
  <2> QED
    BY <2>3, <2>4
<1>10. ASSUME NEW status \in {"denied", "failed", "timed_out"}, NEW note \in BOOLEAN,
              NEW closes \in BOOLEAN, QueryDeclines(status, note, closes)
       PROVE  TypeOK' /\ ActionInv'
  <2>1. running' \subseteq [id : Nat, kind : Tools] /\ outcomes' \in Seq(Outcomes)
    BY <1>10, CompleteType DEF QueryDeclines, Statuses
  <2>2. [kind |-> "business_query"] \in Terminals
    OBVIOUS
  <2>3. CASE EndsTurn(status, closes)
    BY <1>10, <2>1, <2>2, <2>3, EndType DEF QueryDeclines, TypeOK, ActionInv
  <2>4. CASE ~EndsTurn(status, closes)
    BY <1>10, <2>1, <2>4, ObserveType DEF QueryDeclines
  <2> QED
    BY <2>3, <2>4
<1>11. ASSUME NEW status \in {"succeeded", "failed", "timed_out"}, NEW found \in BOOLEAN,
              SearchReturns(status, found)
       PROVE  TypeOK' /\ ActionInv'
  <2>1. (IF found /\ status = "succeeded" THEN {ActionId} ELSE {}) \in SUBSET Nat
    BY DEF ActionId, TypeOK
  <2>2. running' \subseteq [id : Nat, kind : Tools] /\ outcomes' \in Seq(Outcomes)
    BY <1>11, <2>1, CompleteType DEF SearchReturns, Statuses
  <2> QED
    BY <1>11, <2>2, ObserveType DEF SearchReturns
<1>12. ASSUME NEW documents \in BOOLEAN, ExplainReturns(documents)
       PROVE  TypeOK' /\ ActionInv'
  <2>1. {ActionId} \in SUBSET Nat
    BY DEF ActionId, TypeOK
  <2>2. running' \subseteq [id : Nat, kind : Tools] /\ outcomes' \in Seq(Outcomes)
    BY <1>12, <2>1, CompleteType DEF ExplainReturns, Statuses
  <2> QED
    BY <1>12, <2>2, ObserveType DEF ExplainReturns
<1>13. CASE ExplainFindsNothing
  <2>1. "explanation_unavailable" \in Reasons
    BY DEF Reasons
  <2> QED
    BY <1>13, <2>1, StoppedType, EndType, CompleteType
       DEF ExplainFindsNothing, TypeOK, ActionInv, Statuses
<1>14. CASE Abandon
  BY <1>14 DEF Abandon, TypeOK, ActionInv
<1>15. CASE UNCHANGED vars
  BY <1>15 DEF vars, TypeOK, ActionInv
<1> QED
  BY <1>1, <1>2, <1>3, <1>4, <1>5, <1>6, <1>7, <1>8, <1>9, <1>10, <1>11, <1>12,
     <1>13, <1>14, <1>15 DEF Next, Done
-----------------------------------------------------------------------------
(* Counters, limits and the number of nodes.                                *)

\* The lifecycle and the counters agree, and a tool node was offered.
CountInv ==
    /\ \A i \in DOMAIN outcomes : outcomes[i].id = i
    /\ node # "end" =>
          /\ businessQueries = Cardinality(Calls("query_business"))
          /\ documentSearches = Cardinality(Calls("search_documents"))
          /\ restores = Cardinality(Calls("explain_sources"))
    /\ node \in Tools => actions < MaxActions
    /\ node = "query_business" => businessQueries < MaxBusinessQueries
    /\ node = "search_documents" => documentSearches < MaxDocumentSearches
    /\ node = "explain_sources" => restores < MaxRestores
    /\ LimitsKept

\* Only a turn's first action is followed by a node without a decision.
Extra == IF Len(outcomes) = 0 THEN 0 ELSE 1
StepInv ==
    /\ node = "decide" => steps <= 2 * decisions + Extra
    /\ node \in Tools \cup Endings => steps <= 2 * decisions - 1 + Extra
    /\ node \in {"end", "abandoned"} => steps <= 2 * MaxDecisions + 2

ControlInv == SyncInv /\ CountInv /\ StepInv

LEMMA CallsFinite ==
    ASSUME TypeOK, NEW k
    PROVE  IsFiniteSet(Calls(k)) /\ Cardinality(Calls(k)) \in Nat
<1>1. Calls(k) \in SUBSET (1 .. Len(outcomes)) /\ Len(outcomes) \in Nat
  BY DEF Calls, TypeOK
<1>2. IsFiniteSet(1 .. Len(outcomes))
  BY <1>1, FS_Interval
<1>3. IsFiniteSet(Calls(k))
  BY <1>1, <1>2, FS_Subset
<1> QED
  BY <1>3, FS_CardinalityType

\* The outcome of the action that ran.
Ran(o) ==
    /\ o \in Outcomes /\ node \in Tools /\ o.id = actions + 1 /\ o.kind = node
    /\ outcomes' = Append(outcomes, o) /\ running' = {}

LEMMA ToolRan ==
    ASSUME TypeOK, SyncInv, node \in Tools, NEW s \in Statuses, NEW e \in SUBSET Nat,
           NEW d \in BOOLEAN, NEW n \in BOOLEAN, Complete(s, e, d, n)
    PROVE  \E o : Ran(o) /\ o.status = s /\ o.evidence = e
<1>1. PICK a \in running :
        /\ running' = running \ {a}
        /\ outcomes' = Append(outcomes,
              [id |-> a.id, kind |-> a.kind, status |-> s,
               evidence |-> e, documents |-> d, note |-> n])
  BY DEF Complete
<1>2. a = [id |-> actions + 1, kind |-> node] /\ running' = {}
  BY <1>1 DEF SyncInv
<1> DEFINE o == [id |-> a.id, kind |-> a.kind, status |-> s, evidence |-> e,
                 documents |-> d, note |-> n]
<1>3. o \in Outcomes /\ o.id = actions + 1 /\ o.kind = node /\ o.status = s
      /\ o.evidence = e
  BY <1>2 DEF Outcomes, Statuses, TypeOK
<1>4. Ran(o)
  BY <1>1, <1>2, <1>3 DEF Ran
<1> QED
  BY <1>3, <1>4

LEMMA RanCounts ==
    ASSUME TypeOK, SyncInv, CountInv, NEW o, Ran(o)
    PROVE  /\ Len(outcomes') = Len(outcomes) + 1 /\ Len(outcomes) \in Nat
           /\ \A i \in DOMAIN outcomes' : outcomes'[i].id = i
           /\ \A k \in Tools : Cardinality(Calls(k)') =
                                 Cardinality(Calls(k)) + IF k = node THEN 1 ELSE 0
<1>1. /\ Len(outcomes') = Len(outcomes) + 1 /\ Len(outcomes) \in Nat
      /\ DOMAIN outcomes' = DOMAIN outcomes \cup {Len(outcomes) + 1}
      /\ DOMAIN outcomes = 1 .. Len(outcomes)
      /\ outcomes'[Len(outcomes) + 1] = o
      /\ \A i \in DOMAIN outcomes : outcomes'[i] = outcomes[i]
  BY DEF Ran, TypeOK
<1>2. o.id = Len(outcomes) + 1
  BY DEF Ran, SyncInv, Tools
<1>3. \A i \in DOMAIN outcomes' : outcomes'[i].id = i
  BY <1>1, <1>2 DEF CountInv
<1>4. ASSUME NEW k \in Tools
      PROVE  Cardinality(Calls(k)') = Cardinality(Calls(k)) + IF k = node THEN 1 ELSE 0
  <2>1. CASE k = node
    <3>1. Calls(k)' = Calls(k) \cup {Len(outcomes) + 1} /\ Len(outcomes) + 1 \notin Calls(k)
      BY <1>1, <2>1 DEF Calls, Ran
    <3> QED
      BY <2>1, <3>1, CallsFinite, FS_AddElement
  <2>2. CASE k # node
    <3>1. Calls(k)' = Calls(k)
      BY <1>1, <2>2 DEF Calls, Ran
    <3> QED
      BY <2>2, <3>1, CallsFinite
  <2> QED
    BY <2>1, <2>2
<1> QED
  BY <1>1, <1>3, <1>4

\* A node that counts its action and goes back to the model, or to "finish".
LEMMA CountedControl ==
    ASSUME TypeOK, ControlInv, NEW o, Ran(o), Count,
           \/ node' = "decide"
           \/ node' = "finish_answer" /\ Len(outcomes') = 1,
           steps' = steps + 1, decisions' = decisions
    PROVE  ControlInv'
<1> USE DEF ControlInv
<1>1. /\ Len(outcomes') = Len(outcomes) + 1 /\ Len(outcomes) \in Nat
      /\ \A i \in DOMAIN outcomes' : outcomes'[i].id = i
      /\ \A k \in Tools : Cardinality(Calls(k)') =
                            Cardinality(Calls(k)) + IF k = node THEN 1 ELSE 0
  BY RanCounts
<1>2. node \in Tools /\ running' = {} /\ node # "end"
  BY DEF Ran, Tools
<1>3. SyncInv'
  BY <1>1, <1>2 DEF SyncInv, Count, Tools
<1>4. \A k \in Tools : Cardinality(Calls(k)) \in Nat
  BY CallsFinite
<1>5. CountInv'
  <2>1. /\ businessQueries' = Cardinality(Calls("query_business")')
        /\ documentSearches' = Cardinality(Calls("search_documents")')
        /\ restores' = Cardinality(Calls("explain_sources")')
    BY <1>1, <1>2, <1>4 DEF CountInv, Count, Tools, TypeOK
  <2>2. Len(outcomes') <= MaxActions
    BY <1>1, <1>2, PolicyAssumption DEF CountInv, SyncInv, TypeOK
  <2>3. /\ businessQueries' <= MaxBusinessQueries
        /\ documentSearches' <= MaxDocumentSearches
        /\ restores' <= MaxRestores
    BY <1>2, <2>1, <1>1, <1>4, PolicyAssumption DEF CountInv, LimitsKept, Count, Tools, TypeOK
  <2>4. node' \notin Tools /\ decisions' <= MaxDecisions
    BY DEF Tools, CountInv, LimitsKept
  <2> QED
    BY <1>1, <2>1, <2>2, <2>3, <2>4 DEF CountInv, LimitsKept, Tools
<1>6. StepInv'
  <2>1. Extra' = 1 /\ Extra \in {0, 1} /\ (Len(outcomes') = 1 => Extra = 0)
    <3> HIDE DEF ControlInv
    <3>1. Len(outcomes') # 0 /\ (Len(outcomes') = 1 => Len(outcomes) = 0)
      BY <1>1
    <3> QED
      BY <3>1 DEF Extra
  <2>2. steps <= 2 * decisions - 1 + Extra /\ steps \in Nat /\ decisions \in Nat
    BY <1>2 DEF StepInv, TypeOK
  <2>3. steps' <= 2 * decisions + Extra /\ Extra' = 1
    BY <2>1, <2>2
  <2>4. node' = "finish_answer" => Extra = 0
    BY <2>1
  <2>5. CASE node' = "decide"
    BY <2>1, <2>2, <2>3, <2>5 DEF StepInv, Tools, Endings
  <2>6. CASE node' = "finish_answer"
    BY <2>2, <2>3, <2>4, <2>6 DEF StepInv, Tools, Endings
  <2> QED
    BY <2>5, <2>6
<1> QED
  BY <1>3, <1>5, <1>6

\* A node whose action ends the turn does not count it.
LEMMA EndedControl ==
    ASSUME TypeOK, ControlInv, NEW o, Ran(o), node' = "end", steps' = steps + 1,
           decisions' = decisions, counters' = counters
    PROVE  ControlInv'
<1> USE DEF ControlInv
<1>1. /\ Len(outcomes') = Len(outcomes) + 1 /\ Len(outcomes) \in Nat
      /\ \A i \in DOMAIN outcomes' : outcomes'[i].id = i
      /\ \A k \in Tools : Cardinality(Calls(k)') =
                            Cardinality(Calls(k)) + IF k = node THEN 1 ELSE 0
  BY RanCounts
<1>2. node \in Tools /\ running' = {} /\ node # "end"
  BY DEF Ran, Tools
<1>3. \A k \in Tools : Cardinality(Calls(k)) \in Nat
  BY CallsFinite
<1>4. LimitsKept'
  <2>1. Len(outcomes') <= MaxActions
    BY <1>1, <1>2, PolicyAssumption DEF CountInv, SyncInv, TypeOK
  <2>2. Cardinality(Calls("query_business")') <= MaxBusinessQueries
    BY <1>1, <1>2, <1>3, PolicyAssumption DEF CountInv, LimitsKept, Tools, TypeOK
  <2>3. Cardinality(Calls("search_documents")') <= MaxDocumentSearches
    BY <1>1, <1>2, <1>3, PolicyAssumption DEF CountInv, LimitsKept, Tools, TypeOK
  <2>4. Cardinality(Calls("explain_sources")') <= MaxRestores
    BY <1>1, <1>2, <1>3, PolicyAssumption DEF CountInv, LimitsKept, Tools, TypeOK
  <2> QED
    BY <2>1, <2>2, <2>3, <2>4 DEF CountInv, LimitsKept
<1>5. StepInv'
  BY <1>1, <1>2, PolicyAssumption
     DEF StepInv, CountInv, LimitsKept, Extra, Tools, Endings, TypeOK
<1> QED
  BY <1>1, <1>2, <1>4, <1>5 DEF SyncInv, CountInv, Tools

\* A node that runs no tool.
LEMMA IdleControl ==
    ASSUME TypeOK, ControlInv, node \notin Tools, running = {}, lifecycle' = lifecycle,
           counters' = counters, steps' = steps + 1,
           \/ node' = "end" /\ decisions' = decisions /\ node # "abandoned" /\ node # "end"
           \/ node' = "decide" /\ decisions' = decisions /\ node \in Endings
           \/ /\ node = "decide" /\ node' \in Allowed /\ decisions' = decisions + 1
              /\ decisions < MaxDecisions
    PROVE  ControlInv'
<1> USE DEF ControlInv
<1>1. \A k : Calls(k)' = Calls(k)
  BY DEF Calls
<1>2. node' \in Tools =>
        /\ actions < MaxActions
        /\ node' = "query_business" => businessQueries < MaxBusinessQueries
        /\ node' = "search_documents" => documentSearches < MaxDocumentSearches
        /\ node' = "explain_sources" => restores < MaxRestores
  BY PolicyAssumption DEF Allowed, AtCeiling, Tools, Endings, TypeOK
<1>3. node' \in Tools \cup Endings \cup {"end", "decide"}
  BY DEF Allowed, TypeOK
<1>4. node # "end"
  BY DEF Endings
<1>5. SyncInv'
  BY <1>4 DEF SyncInv
<1>6. CountInv'
  <2>1. LimitsKept'
    BY <1>1, PolicyAssumption DEF CountInv, LimitsKept, TypeOK
  <2>2. node # "end" =>
          /\ businessQueries' = Cardinality(Calls("query_business")')
          /\ documentSearches' = Cardinality(Calls("search_documents")')
          /\ restores' = Cardinality(Calls("explain_sources")')
    BY <1>1 DEF CountInv
  <2> QED
    BY <1>2, <1>4, <2>1, <2>2 DEF CountInv, Tools
<1>7. StepInv'
  <2>1. Extra' = Extra /\ Extra \in {0, 1}
    BY DEF Extra
  <2>2. /\ decisions \in Nat /\ steps \in Nat /\ decisions' \in Nat /\ MaxDecisions \in Nat
        /\ decisions <= MaxDecisions
    BY PolicyAssumption DEF CountInv, LimitsKept, TypeOK
  <2>3. CASE node' = "end" /\ decisions' = decisions /\ node # "abandoned" /\ node # "end"
    BY <2>1, <2>2, <2>3 DEF StepInv, Tools, Endings, TypeOK
  <2>4. CASE node' = "decide" /\ decisions' = decisions /\ node \in Endings
    BY <2>1, <2>2, <2>4 DEF StepInv, Tools, Endings
  <2>5. CASE node = "decide" /\ node' \in Allowed /\ decisions' = decisions + 1
    <3>1. steps' <= 2 * decisions' - 1 + Extra'
      <4>1. steps <= 2 * decisions + Extra
        BY <2>5 DEF StepInv
      <4> DEFINE e == Extra
      <4>2. e \in Int /\ Extra' = e /\ steps <= 2 * decisions + e
        BY <2>1, <4>1
      <4> HIDE DEF e
      <4>3. steps + 1 <= 2 * (decisions + 1) - 1 + e
        BY <2>2, <4>2
      <4> QED
        BY <2>5, <4>2, <4>3
    <3>2. node' \in Tools \cup Endings
      <4>1. available \subseteq Tools
        BY DEF TypeOK
      <4> QED
        BY <2>5, <4>1 DEF Allowed
    <3> QED
      BY <3>1, <3>2 DEF StepInv, Tools, Endings
  <2> QED
    BY <2>3, <2>4, <2>5
<1> QED
  BY <1>5, <1>6, <1>7

LEMMA ControlStep ==
    ASSUME TypeOK, ControlInv, [Next]_vars
    PROVE  ControlInv'
<1> USE DEF End, Goto
<1>0. node \in {"decide", "finish_answer", "clarify"} => running = {} /\ node \notin Tools
  BY DEF ControlInv, SyncInv, Tools
<1>1. CASE StopBeforeDecision
  BY <1>0, <1>1, IdleControl DEF StopBeforeDecision
<1>2. CASE DecisionFails
  BY <1>0, <1>2, IdleControl DEF DecisionFails, CanDecide
<1>3. ASSUME NEW action \in Actions, Decide(action)
      PROVE  ControlInv'
  <2>1. node = "decide" /\ decisions < MaxDecisions /\ steps' = steps + 1
        /\ UNCHANGED <<counters, lifecycle>>
    BY <1>3 DEF Decide, CanDecide
  <2>2. CASE action.kind \in Allowed
    BY <1>0, <1>3, <2>1, <2>2, IdleControl DEF Decide, Decided
  <2>3. CASE action.kind \notin Allowed
    BY <1>0, <1>3, <2>1, <2>3, IdleControl DEF Decide
  <2> QED
    BY <2>2, <2>3
<1>4. CASE Finish \/ Clarify
  <2>1. /\ node \in {"finish_answer", "clarify"} /\ steps' = steps + 1
        /\ UNCHANGED <<decisions, counters, lifecycle>>
        /\ node' \in {"end", "decide"}
    BY <1>4 DEF Finish, Clarify, RepairOr, Repair
  <2> QED
    BY <1>0, <2>1, IdleControl DEF Endings
<1>5. CASE Start
  <2>1. node \in Tools /\ node # "end" /\ node # "abandoned" /\ running = {}
    BY <1>5 DEF Start, Tools
  <2>2. \A i \in DOMAIN outcomes : outcomes[i].id # ActionId
    BY <2>1 DEF ControlInv, CountInv, SyncInv, ActionId, TypeOK
  <2>3. /\ running' = {[id |-> actions + 1, kind |-> node]}
        /\ UNCHANGED <<node, steps, decisions, counters, outcomes>>
    BY <1>5, <2>2 DEF Start, ActionId
  <2>4. SyncInv'
    BY <2>1, <2>3 DEF ControlInv, SyncInv
  <2>5. CountInv'
    BY <2>1, <2>3 DEF ControlInv, CountInv, LimitsKept, Calls
  <2>6. StepInv'
    BY <2>1, <2>3 DEF ControlInv, StepInv, Extra
  <2> QED
    BY <2>4, <2>5, <2>6 DEF ControlInv
<1>6. CASE ToolTimesOut
  <2>1. node \in Tools
    BY <1>6 DEF ToolTimesOut, Returning
  <2>2. PICK o : Ran(o)
    BY <1>6, <2>1, ToolRan DEF ToolTimesOut, Statuses, ControlInv
  <2> QED
    BY <1>6, <2>2, EndedControl DEF ToolTimesOut
<1>7. CASE ToolRaises
  <2>1. node \in Tools
    BY <1>7 DEF ToolRaises, Returning
  <2>2. PICK o : Ran(o)
    BY <1>7, <2>1, ToolRan DEF ToolRaises, Statuses, ControlInv
  <2>3. Count /\ node' = "decide" /\ steps' = steps + 1 /\ decisions' = decisions
    BY <1>7 DEF ToolRaises, Observe
  <2> QED
    BY <2>2, <2>3, CountedControl
<1>8. ASSUME NEW narrated \in BOOLEAN, NEW misstates \in BOOLEAN,
             QueryCommits(narrated, misstates)
      PROVE  ControlInv'
  <2>1. node \in Tools /\ {ActionId} \in SUBSET Nat
    BY <1>8 DEF QueryCommits, Returning, Tools, ActionId, TypeOK
  <2>2. PICK o : Ran(o)
    BY <1>8, <2>1, ToolRan DEF QueryCommits, Statuses, ControlInv
  <2>3. CASE ~narrated /\ Len(outcomes') = 1
    <3>1. /\ Count /\ node' = "finish_answer" /\ Len(outcomes') = 1
          /\ steps' = steps + 1 /\ decisions' = decisions
      BY <1>8, <2>3 DEF QueryCommits
    <3> QED
      BY <2>2, <3>1, CountedControl
  <2>4. CASE ~(~narrated /\ Len(outcomes') = 1)
    <3>1. Count /\ node' = "decide" /\ steps' = steps + 1 /\ decisions' = decisions
      BY <1>8, <2>4 DEF QueryCommits, Observe
    <3> QED
      BY <2>2, <3>1, CountedControl
  <2> QED
    BY <2>3, <2>4
<1>9. ASSUME NEW status \in {"denied", "failed", "timed_out"}, NEW note \in BOOLEAN,
             NEW closes \in BOOLEAN, QueryDeclines(status, note, closes)
      PROVE  ControlInv'
  <2>1. node \in Tools
    BY <1>9 DEF QueryDeclines, Returning, Tools
  <2>2. PICK o : Ran(o)
    BY <1>9, <2>1, ToolRan DEF QueryDeclines, Statuses, ControlInv
  <2>3. CASE EndsTurn(status, closes)
    <3>1. node' = "end" /\ steps' = steps + 1 /\ decisions' = decisions
          /\ counters' = counters
      BY <1>9, <2>3 DEF QueryDeclines
    <3> QED
      BY <2>2, <3>1, EndedControl
  <2>4. CASE ~EndsTurn(status, closes)
    <3>1. Count /\ node' = "decide" /\ steps' = steps + 1 /\ decisions' = decisions
      BY <1>9, <2>4 DEF QueryDeclines, Observe
    <3> QED
      BY <2>2, <3>1, CountedControl
  <2> QED
    BY <2>3, <2>4
<1>10. ASSUME NEW status \in {"succeeded", "failed", "timed_out"}, NEW found \in BOOLEAN,
              SearchReturns(status, found)
       PROVE  ControlInv'
  <2>1. node \in Tools
        /\ (IF found /\ status = "succeeded" THEN {ActionId} ELSE {}) \in SUBSET Nat
    BY <1>10 DEF SearchReturns, Returning, Tools, ActionId, TypeOK
  <2>2. PICK o : Ran(o)
    BY <1>10, <2>1, ToolRan DEF SearchReturns, Statuses, ControlInv
  <2>3. Count /\ node' = "decide" /\ steps' = steps + 1 /\ decisions' = decisions
    BY <1>10 DEF SearchReturns, Observe
  <2> QED
    BY <2>2, <2>3, CountedControl
<1>11. ASSUME NEW documents \in BOOLEAN, ExplainReturns(documents)
       PROVE  ControlInv'
  <2>1. node \in Tools /\ {ActionId} \in SUBSET Nat
    BY <1>11 DEF ExplainReturns, Returning, Tools, ActionId, TypeOK
  <2>2. PICK o : Ran(o)
    BY <1>11, <2>1, ToolRan DEF ExplainReturns, Statuses, ControlInv
  <2>3. Count /\ node' = "decide" /\ steps' = steps + 1 /\ decisions' = decisions
    BY <1>11 DEF ExplainReturns, Observe
  <2> QED
    BY <2>2, <2>3, CountedControl
<1>12. CASE ExplainFindsNothing
  <2>1. node \in Tools
    BY <1>12 DEF ExplainFindsNothing, Returning, Tools
  <2>2. PICK o : Ran(o)
    BY <1>12, <2>1, ToolRan DEF ExplainFindsNothing, Statuses, ControlInv
  <2> QED
    BY <1>12, <2>2, EndedControl DEF ExplainFindsNothing
<1>13. CASE Abandon
  <2>1. node \in Tools \cup {"decide"} /\ node' = "abandoned"
        /\ UNCHANGED <<decisions, counters, lifecycle, steps>>
    BY <1>13 DEF Abandon, CanDecide, Returning
  <2>2. SyncInv'
    BY <2>1 DEF ControlInv, SyncInv, Tools
  <2>3. CountInv'
    BY <2>1 DEF ControlInv, CountInv, LimitsKept, Calls, Tools
  <2>4. StepInv'
    <3>1. Extra \in {0, 1} /\ decisions <= MaxDecisions
      BY DEF Extra, ControlInv, CountInv, LimitsKept
    <3> QED
      BY <2>1, <3>1, PolicyAssumption DEF ControlInv, StepInv, Tools, Endings, TypeOK
  <2> QED
    BY <2>2, <2>3, <2>4 DEF ControlInv
<1>14. CASE UNCHANGED vars
  BY <1>14 DEF vars, ControlInv, SyncInv, CountInv, StepInv, LimitsKept, Calls, Extra
<1> QED
  BY <1>1, <1>2, <1>3, <1>4, <1>5, <1>6, <1>7, <1>8, <1>9, <1>10, <1>11, <1>12,
     <1>13, <1>14 DEF Next, Done

LEMMA InitControl == ASSUME Init PROVE TypeOK /\ ActionInv /\ ControlInv
<1>1. <<>> \in Seq(Outcomes) /\ Len(<<>>) = 0 /\ DOMAIN <<>> = {}
  OBVIOUS
<1>2. TypeOK /\ ActionInv
  BY <1>1 DEF Init, TypeOK, ActionInv, Nothing
<1>3. /\ Calls("query_business") = {} /\ Calls("search_documents") = {}
      /\ Calls("explain_sources") = {}
  BY <1>1 DEF Init, Calls
<1>4. LimitsKept /\ CountInv
  <2>1. Cardinality({}) = 0
    BY FS_EmptySet
  <2>2. LimitsKept
    <3>1. decisions = 0 /\ Len(outcomes) = 0
      BY <1>1 DEF Init
    <3>2. /\ Cardinality(Calls("query_business")) = 0
          /\ Cardinality(Calls("search_documents")) = 0
          /\ Cardinality(Calls("explain_sources")) = 0
      BY <1>3, <2>1
    <3> QED
      BY <3>1, <3>2, PolicyAssumption DEF LimitsKept
  <2>3. /\ businessQueries = Cardinality(Calls("query_business"))
        /\ documentSearches = Cardinality(Calls("search_documents"))
        /\ restores = Cardinality(Calls("explain_sources"))
    BY <1>3, <2>1 DEF Init
  <2>4. \A i \in DOMAIN outcomes : outcomes[i].id = i
    BY <1>1 DEF Init
  <2> QED
    BY <2>2, <2>3, <2>4 DEF Init, CountInv, Tools
<1>5. SyncInv /\ StepInv
  BY <1>1 DEF Init, SyncInv, StepInv, Tools, Endings, Extra
<1> QED
  BY <1>2, <1>4, <1>5 DEF ControlInv
-----------------------------------------------------------------------------
(* What a repair does.                                                       *)

LEMMA RepairOrCases ==
    ASSUME NEW rules, NEW held, NEW result, RepairOr(rules, held, result)
    PROVE  /\ UNCHANGED <<lastAction, decisions, counters, lifecycle>>
           /\ \/ End(Stopped("malformed_response")) /\ UNCHANGED repairs
              \/ \E rule \in Rules : First(rules, lastAction, rule) /\ Repair(rule, held)
              \/ /\ \A rule \in Rules : ~First(rules, lastAction, rule)
                 /\ End(result) /\ UNCHANGED repairs
BY DEF RepairOr

-----------------------------------------------------------------------------
(* How the graph ends.                                                      *)

EndInv ==
    /\ terminal # Stopped("action_protocol_error")
    /\ node = "end" => terminal # Nothing
    /\ node # "end" => terminal = Nothing

\* An end whose reason is not the protocol's.
LEMMA EndsWell ==
    ASSUME NEW t, t # Stopped("action_protocol_error"), t # Nothing, End(t)
    PROVE  EndInv'
BY DEF End, Goto, EndInv

LEMMA StoppedWell ==
    ASSUME NEW r \in Reasons, r # "action_protocol_error"
    PROVE  Stopped(r) # Stopped("action_protocol_error") /\ Stopped(r) # Nothing
BY DEF Stopped, Nothing

LEMMA StaysOpen ==
    ASSUME EndInv, terminal' = terminal, node' # "end", node # "end"
    PROVE  EndInv'
BY DEF EndInv

LEMMA ObserveOpen ==
    ASSUME EndInv, Observe, node # "end" PROVE EndInv'
BY StaysOpen DEF Observe, Goto

LEMMA EndStep ==
    ASSUME TypeOK, ActionInv, ControlInv, EndInv, [Next]_vars
    PROVE  EndInv'
<1>1. CASE StopBeforeDecision
  <2>1. running = {}
    BY <1>1 DEF StopBeforeDecision, ControlInv, SyncInv, Tools
  <2>2. PICK r \in {"budget_expired", "decision_limit"} : End(Stopped(r))
    BY <1>1, <2>1 DEF StopBeforeDecision
  <2> QED
    BY <2>2, EndsWell, StoppedWell DEF Reasons
<1>2. CASE DecisionFails
  <2>1. PICK r \in {"malformed_response", "budget_expired", "context_budget_exceeded"} :
          End(Stopped(r))
    BY <1>2 DEF DecisionFails
  <2> QED
    BY <2>1, EndsWell, StoppedWell DEF Reasons
<1>3. ASSUME NEW action \in Actions, Decide(action)
      PROVE  EndInv'
  <2>1. CASE action.kind \in Allowed
    BY <1>3, <2>1, StaysOpen DEF Decide, CanDecide, Goto, Allowed, Endings, TypeOK, Tools
  <2>2. CASE action.kind \notin Allowed
    <3>1. DisallowedReason(action.kind) \in Reasons \ {"action_protocol_error"}
      BY DEF DisallowedReason, Reasons
    <3> QED
      BY <1>3, <2>2, <3>1, EndsWell, StoppedWell DEF Decide
  <2> QED
    BY <2>1, <2>2
<1>4. CASE Finish \/ Clarify
  <2>1. PICK rules, held, result :
          /\ RepairOr(rules, held, result)
          /\ result.kind # "stopped" /\ result # Nothing
    <3>1. CASE Finish
      <4>1. Finished(lastAction).kind = "finished"
        BY DEF Finished
      <4> QED
        BY <3>1, <4>1 DEF Finish, Nothing
    <3>2. CASE Clarify
      <4>1. [kind |-> "clarify"].kind = "clarify"
        OBVIOUS
      <4> QED
        BY <3>2, <4>1 DEF Clarify, Nothing
    <3> QED
      BY <1>4, <3>1, <3>2
  <2>2. result # Stopped("action_protocol_error")
    BY <2>1 DEF Stopped
  <2>3. node # "end"
    BY <1>4 DEF Finish, Clarify
  <2>4. CASE End(Stopped("malformed_response"))
    BY <2>4, EndsWell, StoppedWell DEF Reasons
  <2>5. CASE \E rule \in Rules : Repair(rule, held)
    BY <2>3, <2>5, StaysOpen DEF Repair, Goto
  <2>6. CASE End(result)
    BY <2>1, <2>2, <2>6, EndsWell
  <2> QED
    BY <2>1, <2>4, <2>5, <2>6, RepairOrCases
<1>5. CASE Start
  <2>1. node \in Tools /\ node # "end" /\ node # "abandoned" /\ running = {}
    BY <1>5 DEF Start, Tools
  <2>2. \A i \in DOMAIN outcomes : outcomes[i].id # ActionId
    BY <2>1 DEF ControlInv, CountInv, SyncInv, ActionId, TypeOK
  <2>3. UNCHANGED <<node, terminal>>
    BY <1>5, <2>2 DEF Start
  <2> QED
    BY <2>3 DEF EndInv
<1>6. CASE ToolTimesOut
  BY <1>6, EndsWell, StoppedWell DEF ToolTimesOut, Reasons
<1>7. CASE ToolRaises
  BY <1>7, ObserveOpen DEF ToolRaises, Returning, Tools
<1>8. ASSUME NEW narrated \in BOOLEAN, NEW misstates \in BOOLEAN,
             QueryCommits(narrated, misstates)
      PROVE  EndInv'
  <2>1. node # "end"
    BY <1>8 DEF QueryCommits, Returning
  <2>2. CASE Observe
    BY <2>1, <2>2, ObserveOpen
  <2>3. CASE Goto("finish_answer") /\ UNCHANGED terminal
    BY <2>1, <2>3, StaysOpen DEF Goto
  <2> QED
    BY <1>8, <2>2, <2>3 DEF QueryCommits
<1>9. ASSUME NEW status, NEW note, NEW closes, QueryDeclines(status, note, closes)
      PROVE  EndInv'
  <2>1. node # "end"
    BY <1>9 DEF QueryDeclines, Returning
  <2>2. CASE Observe
    BY <2>1, <2>2, ObserveOpen
  <2>3. CASE End([kind |-> "business_query"])
    <3>1. /\ [kind |-> "business_query"] # Stopped("action_protocol_error")
          /\ [kind |-> "business_query"] # Nothing
      BY DEF Stopped, Nothing
    <3> QED
      BY <2>3, <3>1, EndsWell
  <2> QED
    BY <1>9, <2>2, <2>3 DEF QueryDeclines
<1>10. ASSUME NEW status, NEW found, SearchReturns(status, found)
       PROVE  EndInv'
  BY <1>10, ObserveOpen DEF SearchReturns, Returning
<1>11. ASSUME NEW documents, ExplainReturns(documents)
       PROVE  EndInv'
  BY <1>11, ObserveOpen DEF ExplainReturns, Returning
<1>12. CASE ExplainFindsNothing
  BY <1>12, EndsWell, StoppedWell DEF ExplainFindsNothing, Reasons
<1>13. CASE Abandon
  BY <1>13 DEF Abandon, EndInv, CanDecide, Returning, Tools
<1>14. CASE UNCHANGED vars
  BY <1>14 DEF vars, EndInv
<1> QED
  BY <1>1, <1>2, <1>3, <1>4, <1>5, <1>6, <1>7, <1>8, <1>9, <1>10, <1>11, <1>12,
     <1>13, <1>14 DEF Next, Done
-----------------------------------------------------------------------------
(* What the published answer stands on.                                     *)

Grounded(f) == f.draft.cites \subseteq Known(f.outcomes) /\ ~f.draft.misstates

GroundInv ==
    /\ heldDraft # Nothing => Grounded(heldDraft)
    /\ terminal.kind = "finished" => Grounded(terminal)

\* The evidence rule comes first, and is never looked past.
LEMMA EvidenceFirst ==
    ASSUME NEW action \in Drafts, ~Stands("evidence", action)
    PROVE  Grounded(Finished(action))
<1>1. "evidence" \notin Broken(action)
  BY DEF Stands, StopsWhenRepeated
<1>2. action.kind # "clarify"
  BY DEF Drafts
<1>3. ~Misgrounded(action)
  BY <1>1, <1>2 DEF Broken, Rules
<1>4. Finished(action).draft = action /\ Finished(action).outcomes = outcomes
  BY DEF Finished
<1> QED
  BY <1>3, <1>4 DEF Misgrounded, Grounded

LEMMA EvidenceStands ==
    ASSUME NEW action, Stands("evidence", action)
    PROVE  First(FinishRules, action, "evidence")
<1>1. 1 \in DOMAIN FinishRules /\ FinishRules[1] = "evidence" /\ 1 .. 1 - 1 = {}
  BY DEF FinishRules
<1> QED
  BY <1>1 DEF First

LEMMA FirstHeld ==
    ASSUME NEW action, NEW rule \in HoldsDraft, First(FinishRules, action, rule)
    PROVE  ~Stands("evidence", action)
<1>1. PICK i \in DOMAIN FinishRules :
        FinishRules[i] = rule /\ \A j \in 1 .. i - 1 : ~Stands(FinishRules[j], action)
  BY DEF First
<1>2. i \in 1 .. 4 /\ FinishRules[1] = "evidence" /\ rule # "evidence"
  BY DEF FinishRules, HoldsDraft
<1>3. 1 \in 1 .. i - 1
  BY <1>1, <1>2
<1> QED
  BY <1>1, <1>2, <1>3

LEMMA GroundStep ==
    ASSUME TypeOK, ActionInv, GroundInv, [Next]_vars
    PROVE  GroundInv'
<1> USE DEF Goto, End
<1>1. CASE Finish
  <2>1. lastAction \in Drafts /\ RepairOr(FinishRules, Finished(lastAction), Finished(lastAction))
    BY <1>1 DEF Finish, ActionInv
  <2>2. CASE terminal' = Stopped("malformed_response") /\ UNCHANGED repairs
    BY <2>2 DEF GroundInv, Stopped
  <2>3. ASSUME NEW rule \in Rules, First(FinishRules, lastAction, rule),
               Repair(rule, Finished(lastAction))
        PROVE  GroundInv'
    <3>1. CASE rule \in HoldsDraft
      BY <2>1, <2>3, <3>1, FirstHeld, EvidenceFirst DEF Repair, GroundInv
    <3>2. CASE rule \notin HoldsDraft
      BY <2>3, <3>2 DEF Repair, GroundInv
    <3> QED
      BY <3>1, <3>2
  <2>4. CASE /\ \A rule \in Rules : ~First(FinishRules, lastAction, rule)
             /\ terminal' = Finished(lastAction) /\ UNCHANGED repairs
    <3>1. ~Stands("evidence", lastAction)
      BY <2>4, EvidenceStands DEF Rules
    <3> QED
      BY <2>1, <2>4, <3>1, EvidenceFirst DEF GroundInv
  <2> QED
    BY <2>1, <2>2, <2>3, <2>4, RepairOrCases
<1>2. CASE Clarify
  <2>1. RepairOr(ClarifyRules, Nothing, [kind |-> "clarify"])
    BY <1>2 DEF Clarify
  <2>2. /\ heldDraft' = heldDraft \/ heldDraft' = Nothing
        /\ \/ terminal' = terminal \/ terminal' = [kind |-> "clarify"]
           \/ terminal' = Stopped("malformed_response")
    BY <2>1, RepairOrCases DEF Repair
  <2> QED
    BY <2>2 DEF GroundInv, Stopped
<1>3. CASE ~Finish /\ ~Clarify
  <2>1. heldDraft' = heldDraft
    BY <1>3 DEF Next, vars, StopBeforeDecision, DecisionFails, Decide, Start, ToolTimesOut,
          ToolRaises, QueryCommits, QueryDeclines, SearchReturns, ExplainReturns,
          ExplainFindsNothing, Abandon, Done
  <2>2. \/ terminal' = terminal \/ \E r : terminal' = Stopped(r)
        \/ terminal' = [kind |-> "business_query"]
    BY <1>3 DEF Next, vars, StopBeforeDecision, DecisionFails, Decide, Start, ToolTimesOut,
          ToolRaises, QueryCommits, QueryDeclines, SearchReturns, ExplainReturns,
          ExplainFindsNothing, Abandon, Done, Observe
  <2> QED
    BY <2>1, <2>2 DEF GroundInv, Stopped
<1> QED
  BY <1>1, <1>2, <1>3
-----------------------------------------------------------------------------
(* A card, and what repairs ask for.                                        *)

CardInv ==
    /\ node = "clarify" => Calls("query_business") = {}
    /\ terminal.kind = "clarify" => Calls("query_business") = {}

LEMMA CardStep ==
    ASSUME TypeOK, ControlInv, EndInv, CardInv, [Next]_vars
    PROVE  CardInv'
<1> USE DEF Goto, End
<1>0. node # "end" => terminal.kind # "clarify"
  BY DEF EndInv, Nothing
<1>1. ASSUME NEW action \in Actions, Decide(action)
      PROVE  CardInv'
  <2>1. Calls("query_business")' = Calls("query_business") /\ node = "decide"
    BY <1>1 DEF Decide, CanDecide, Calls
  <2>2. CASE node' = "clarify"
    <3>1. businessQueries = 0
      BY <1>1, <2>2 DEF Decide, Allowed, Queried, Tools, Endings, TypeOK
    <3>2. Calls("query_business") = {}
      BY <2>1, <3>1, CallsFinite, FS_EmptySet DEF ControlInv, CountInv
    <3> QED
      BY <2>1, <3>2 DEF CardInv
  <2>3. CASE node' # "clarify"
    BY <1>0, <1>1, <2>1, <2>3 DEF Decide, CardInv, Stopped
  <2> QED
    BY <2>2, <2>3
<1>2. CASE Clarify
  <2>1. Calls("query_business")' = Calls("query_business") /\ Calls("query_business") = {}
    BY <1>2, RepairOrCases DEF Clarify, Calls, CardInv
  <2> QED
    BY <2>1 DEF CardInv
<1>3. CASE Finish
  <2>1. Calls("query_business")' = Calls("query_business") /\ node = "finish_answer"
    BY <1>3, RepairOrCases DEF Finish, Calls
  <2>2. node' # "clarify" /\ terminal'.kind # "clarify"
    BY <1>0, <1>3, <2>1, RepairOrCases DEF Finish, Repair, Stopped, Finished
  <2> QED
    BY <2>2 DEF CardInv
<1>4. CASE UNCHANGED vars
  BY <1>4 DEF vars, CardInv, Calls
<1>5. CASE Start
  BY <1>0, <1>5 DEF Start, CardInv, Stopped, Tools
<1>6. CASE StopBeforeDecision \/ DecisionFails \/ ToolTimesOut \/ ToolRaises
           \/ ExplainFindsNothing \/ Abandon
  <2>1. node # "end" /\ node' # "clarify"
    BY <1>6 DEF StopBeforeDecision, DecisionFails, ToolTimesOut, ToolRaises, Observe,
          ExplainFindsNothing, Abandon, CanDecide, Returning, Tools
  <2>2. terminal' = terminal \/ \E r : terminal' = Stopped(r)
    BY <1>6 DEF StopBeforeDecision, DecisionFails, ToolTimesOut, ToolRaises, Observe,
          ExplainFindsNothing, Abandon
  <2> QED
    BY <1>0, <2>1, <2>2 DEF CardInv, Stopped
<1>7. ASSUME NEW narrated, NEW misstates, QueryCommits(narrated, misstates)
      PROVE  CardInv'
  BY <1>0, <1>7 DEF QueryCommits, Returning, Observe, CardInv
<1>8. ASSUME NEW status, NEW note, NEW closes, QueryDeclines(status, note, closes)
      PROVE  CardInv'
  BY <1>0, <1>8 DEF QueryDeclines, Returning, Observe, CardInv
<1>9. ASSUME NEW status, NEW found, SearchReturns(status, found)
      PROVE  CardInv'
  BY <1>0, <1>9 DEF SearchReturns, Returning, Observe, CardInv
<1>10. ASSUME NEW documents, ExplainReturns(documents)
       PROVE  CardInv'
  BY <1>0, <1>10 DEF ExplainReturns, Returning, Observe, CardInv
<1> QED
  BY <1>1, <1>2, <1>3, <1>4, <1>5, <1>6, <1>7, <1>8, <1>9, <1>10 DEF Next, Done

RepairAsks ==
    \A rule \in repairsUsed' \ repairsUsed :
       /\ rule = "asks_back" => "clarify" \in Allowed'
       /\ rule = "restated_document" =>
             "search_documents" \in Allowed' \/ Succeeded("search_documents") # {}

LEMMA RepairsStep ==
    ASSUME [Next]_vars
    PROVE  RepairAsks
<1>1. ASSUME NEW rules, NEW held, NEW rule \in Rules,
             First(rules, lastAction, rule), Repair(rule, held),
             UNCHANGED <<lastAction, decisions, counters, lifecycle>>
      PROVE  RepairAsks
  <2>1. Allowed' = Allowed
    BY <1>1 DEF Repair, Goto, Allowed, AtCeiling, Queried
  <2>2. rule \in Broken(lastAction)
    BY <1>1 DEF First, Stands
  <2>3. rule = "asks_back" => "clarify" \in Allowed
    BY <2>2 DEF Broken, AsksBack
  <2>4. rule = "restated_document" =>
          "search_documents" \in Allowed \/ Succeeded("search_documents") # {}
    BY <2>2 DEF Broken, RestatesDocument
  <2>5. repairsUsed' \ repairsUsed \subseteq {rule}
    BY <1>1 DEF Repair
  <2> QED
    BY <2>1, <2>3, <2>4, <2>5 DEF RepairAsks
<1>2. CASE Finish
  BY <1>1, <1>2, RepairOrCases DEF Finish, RepairAsks
<1>3. CASE Clarify
  BY <1>1, <1>3, RepairOrCases DEF Clarify, RepairAsks
<1>4. CASE ~Finish /\ ~Clarify
  <2>1. repairsUsed' = repairsUsed
    BY <1>4 DEF Next, vars, StopBeforeDecision, DecisionFails, Decide, Start, ToolTimesOut,
          ToolRaises, QueryCommits, QueryDeclines, SearchReturns, ExplainReturns,
          ExplainFindsNothing, Abandon, Done
  <2> QED
    BY <2>1 DEF RepairAsks
<1> QED
  BY <1>2, <1>3, <1>4
-----------------------------------------------------------------------------
(* The theorems.                                                            *)

IInv == TypeOK /\ ActionInv /\ ControlInv /\ EndInv /\ GroundInv /\ CardInv

LEMMA Inductive == Spec => []IInv
<1>1. Init => IInv
  <2>1. ASSUME Init PROVE EndInv /\ GroundInv /\ CardInv
    BY <2>1 DEF Init, EndInv, GroundInv, CardInv, Nothing, Stopped
  <2> QED
    BY <2>1, InitControl DEF IInv
<1>2. IInv /\ [Next]_vars => IInv'
  BY TypeStep, ControlStep, EndStep, GroundStep, CardStep DEF IInv, ControlInv
<1> QED
  BY <1>1, <1>2, PTL DEF Spec

\* Every variable of the turn has its type, whatever the policy.
THEOREM TypeCorrect == Spec => []TypeOK
<1>1. IInv => TypeOK
  BY DEF IInv
<1> QED
  BY <1>1, Inductive, PTL

\* The nodes' own counting never makes the lifecycle refuse an action
\* (ActionLifecycle.start, require_idle), and an ended graph says how it ended.
THEOREM ProtocolSafe == Spec => []ProtocolKept
<1>1. IInv => ProtocolKept
  BY DEF IInv, EndInv, ProtocolKept
<1> QED
  BY <1>1, Inductive, PTL

\* The limits of CoordinatorPolicy bound the tool calls the turn really made.
THEOREM LimitsSafe == Spec => []LimitsKept
<1>1. IInv => LimitsKept
  BY DEF IInv, ControlInv, CountInv
<1> QED
  BY <1>1, Inductive, PTL

\* The answer that run_coordinator_turn publishes, held or last, is grounded.
THEOREM GroundedSafe == Spec => []ResultGrounded
<1>1. IInv => ResultGrounded
  BY DEF IInv, GroundInv, Grounded, ResultGrounded, Published
<1> QED
  BY <1>1, Inductive, PTL

\* allowed_actions keeps a turn that queried from ending in a card.
THEOREM CardSafe == Spec => []NoCardAfterQuery
<1>1. IInv => NoCardAfterQuery
  BY DEF IInv, CardInv, NoCardAfterQuery
<1> QED
  BY <1>1, Inductive, PTL

\* A repair only asks for what allowed_actions then offers.
THEOREM RepairsSafe == Spec => RepairsAskAllowed
<1>1. [Next]_vars => [RepairAsks]_vars
  BY RepairsStep
<1> QED
  BY <1>1, PTL DEF Spec, RepairsAskAllowed, RepairAsks

\* A recursion limit of two nodes for each decision, and two, is never met
\* (the policy's six decisions need 14 of LangGraph's 25).
THEOREM RecursionSafe ==
    ASSUME 2 * MaxDecisions + 2 <= RecursionLimit
    PROVE  Spec => []WithinRecursionLimit
<1>1. IInv => WithinRecursionLimit
  <2> SUFFICES ASSUME IInv PROVE WithinRecursionLimit
    OBVIOUS
  <2>1. Extra \in {0, 1} /\ decisions <= MaxDecisions /\ decisions \in Nat /\ steps \in Nat
    BY DEF Extra, IInv, ControlInv, CountInv, LimitsKept, TypeOK
  <2>2. steps <= 2 * MaxDecisions + 2
    BY <2>1, PolicyAssumption DEF IInv, ControlInv, StepInv, TypeOK, Tools, Endings
  <2> QED
    BY <2>1, <2>2, PolicyAssumption DEF WithinRecursionLimit
<1> QED
  BY <1>1, Inductive, PTL
=============================================================================
