---------------------------- MODULE Coordinator ----------------------------
(***************************************************************************)
(* One turn of the conversational coordinator: the LangGraph nodes that ask *)
(* the model for a decision and carry it out, the counters and repairs they *)
(* thread through the state, the action lifecycle, and what                 *)
(* run_coordinator_turn makes of the way the graph ended.                   *)
(*                                                                          *)
(* A node runs alone.  The await of a decision or of a tool ends in any of  *)
(* the ways its node handles, or is abandoned: the caller's task is         *)
(* cancelled, or the model raises what no node catches.                     *)
(***************************************************************************)
EXTENDS Integers, Sequences, FiniteSets

CONSTANTS
    MaxDecisions, MaxActions, MaxBusinessQueries, MaxDocumentSearches,
    MaxRestores,        \* CoordinatorPolicy
    RecursionLimit,     \* the graph's recursion_limit
    Citations           \* bound: the sets of evidence ids a draft may cite

ASSUME PolicyAssumption ==
    /\ MaxDecisions \in Nat /\ MaxActions \in Nat /\ MaxBusinessQueries \in Nat
    /\ MaxDocumentSearches \in Nat /\ MaxRestores \in Nat /\ RecursionLimit \in Nat
    /\ Citations \subseteq SUBSET Nat /\ {1} \in Citations

VARIABLES
    available,      \* tools this request can run
    candidates,     \* the conversation holds an answer to explain
    node,           \* the node that runs next
    lastAction,     \* last_action
    decisions, actions, businessQueries, documentSearches, restores,
    repairsUsed,    \* rules whose one repair round is used
    heldDraft,      \* held_draft
    running,        \* ActionLifecycle._running
    outcomes,       \* ActionLifecycle._outcomes
    terminal,       \* how the graph ended
    steps           \* nodes the graph has run

request == <<available, candidates>>
counters == <<actions, businessQueries, documentSearches, restores>>
lifecycle == <<running, outcomes>>
repairs == <<repairsUsed, heldDraft>>
vars == <<request, node, lastAction, decisions, counters, repairs, lifecycle,
          terminal, steps>>

Tools == {"query_business", "search_documents", "explain_sources"}
Endings == {"finish_answer", "clarify"}
Reasons == {"decision_limit", "action_limit", "business_query_limit",
            "document_search_limit", "action_not_allowed", "malformed_response",
            "explanation_unavailable", "context_budget_exceeded",
            "budget_expired", "action_protocol_error"}

\* A piece of evidence is named by the number of the action that returned it;
\* other numbers are ids that no action of this turn returned.
Draft(cites, asks, suggests, misstates) ==
    [kind |-> "finish_answer", cites |-> cites, asks |-> asks,
     suggests |-> suggests, misstates |-> misstates]
Drafts == [kind : {"finish_answer"}, cites : Citations, asks : BOOLEAN,
           suggests : BOOLEAN, misstates : BOOLEAN]
Cards == [kind : {"clarify"}, choices : BOOLEAN, unreachable : BOOLEAN]
ToolCalls == [kind : Tools]
Actions == Drafts \cup Cards \cup ToolCalls
Nothing == [kind |-> "none"]

Outcomes == [id : Nat, kind : Tools,
             status : {"succeeded", "failed", "timed_out", "denied"},
             evidence : SUBSET Nat,
             documents : BOOLEAN,   \* passages, or an answer that stood on them
             note : BOOLEAN]        \* the result carries a failure note

Finished(draft) == [kind |-> "finished", draft |-> draft, outcomes |-> outcomes]
Stopped(reason) == [kind |-> "stopped", reason |-> reason]

Init ==
    /\ available \in SUBSET Tools /\ candidates \in BOOLEAN
    /\ node = "decide" /\ lastAction = Nothing
    /\ decisions = 0 /\ actions = 0 /\ businessQueries = 0
    /\ documentSearches = 0 /\ restores = 0
    /\ repairsUsed = {} /\ heldDraft = Nothing
    /\ running = {} /\ outcomes = <<>>
    /\ terminal = Nothing /\ steps = 0

Goto(next) ==
    /\ node' = next
    /\ steps' = steps + 1
    /\ UNCHANGED request

End(result) == Goto("end") /\ terminal' = result
-----------------------------------------------------------------------------
(* The policy.                                                              *)

\* A query that ran, answered or not.
Queried ==
    \/ businessQueries > 0
    \/ \E i \in DOMAIN outcomes :
          outcomes[i].kind = "query_business" /\ outcomes[i].status # "succeeded"

AtCeiling == actions >= MaxActions \/ decisions >= MaxDecisions - 1

\* allowed_actions.  The slip has no ceiling, and no limit for searches.
Allowed_NoCeiling ==
    {k \in Endings : k = "clarify" => ~Queried}
    \cup {t \in available :
            /\ t = "query_business" => businessQueries < MaxBusinessQueries
            /\ t = "explain_sources" => restores < MaxRestores /\ candidates}

Allowed ==
    {k \in Endings : k = "clarify" => ~Queried}
    \cup {t \in available :
            /\ ~AtCeiling
            /\ t = "query_business" => businessQueries < MaxBusinessQueries
            /\ t = "search_documents" => documentSearches < MaxDocumentSearches
            /\ t = "explain_sources" => restores < MaxRestores /\ candidates}

\* _disallowed_reason; the slip names the action as the reason.
DisallowedReason_Kind(kind) == IF kind \in Tools THEN kind ELSE "action_not_allowed"
DisallowedReason(kind) ==
    IF kind = "query_business" /\ businessQueries >= MaxBusinessQueries
    THEN "business_query_limit"
    ELSE IF kind = "search_documents" /\ documentSearches >= MaxDocumentSearches
    THEN "document_search_limit"
    ELSE IF kind \in Tools /\ actions >= MaxActions
    THEN "action_limit"
    ELSE "action_not_allowed"
-----------------------------------------------------------------------------
(* decide_node.                                                             *)

\* The clock decides when the budget is over.
StopBeforeDecision ==
    /\ node = "decide"
    /\ \/ running # {} /\ End(Stopped("action_protocol_error"))
       \/ running = {} /\ End(Stopped("budget_expired"))
       \/ /\ running = {} /\ decisions >= MaxDecisions
          /\ End(Stopped("decision_limit"))
    /\ UNCHANGED <<lastAction, decisions, counters, repairs, lifecycle>>

\* The slip does not charge the decision that follows a tool's answer.
Decided_FreeAction == IF Len(outcomes) > 0 THEN decisions ELSE decisions + 1
Decided == decisions + 1

CanDecide == node = "decide" /\ running = {} /\ decisions < MaxDecisions

DecisionFails ==
    /\ CanDecide
    /\ \E reason \in {"malformed_response", "budget_expired", "context_budget_exceeded"} :
          End(Stopped(reason))
    /\ UNCHANGED <<lastAction, decisions, counters, repairs, lifecycle>>

Decide(action) ==
    /\ CanDecide
    /\ IF action.kind \in Allowed
       THEN /\ Goto(action.kind)
            /\ lastAction' = action /\ decisions' = Decided
            /\ UNCHANGED terminal
       ELSE /\ End(Stopped(DisallowedReason(action.kind)))
            /\ UNCHANGED <<lastAction, decisions>>
    /\ UNCHANGED <<counters, repairs, lifecycle>>
-----------------------------------------------------------------------------
(* The rules of drafts and clarifications.                                  *)

FinishRules == <<"evidence", "asks_back", "restated_document", "suggestion">>
ClarifyRules == <<"unreachable_record_type", "choices">>
Rules == {"evidence", "asks_back", "restated_document", "suggestion",
          "unreachable_record_type", "choices"}
HoldsDraft == {"asks_back", "restated_document", "suggestion", "choices"}
StopsWhenRepeated == {"evidence"}

Succeeded(kind) ==
    {i \in DOMAIN outcomes : outcomes[i].kind = kind /\ outcomes[i].status = "succeeded"}

\* The evidence ids of the turn's observations.
Known(done) == UNION {done[i].evidence : i \in DOMAIN done}

Cites(draft, kind) ==
    \E i \in Succeeded(kind) :
        outcomes[i].documents /\ outcomes[i].evidence \cap draft.cites # {}

Misgrounded(draft) == ~(draft.cites \subseteq Known(outcomes)) \/ draft.misstates

\* The slip asks for a card whether or not the next decision offers one.
AsksBack_NotOffered(draft) == draft.asks /\ draft.cites = {}
AsksBack(draft) == "clarify" \in Allowed /\ draft.asks /\ draft.cites = {}

RestatesDocument(draft) ==
    /\ Cites(draft, "explain_sources") /\ ~Cites(draft, "search_documents")
    /\ Succeeded("search_documents") # {} \/ "search_documents" \in Allowed

LacksSuggestion(draft) == ~draft.suggests /\ \E i \in DOMAIN outcomes : outcomes[i].note

Broken(action) ==
    IF action.kind = "clarify"
    THEN {r \in Rules : \/ r = "unreachable_record_type" /\ action.unreachable
                        \/ r = "choices" /\ ~action.choices}
    ELSE {r \in Rules : \/ r = "evidence" /\ Misgrounded(action)
                        \/ r = "asks_back" /\ AsksBack(action)
                        \/ r = "restated_document" /\ RestatesDocument(action)
                        \/ r = "suggestion" /\ LacksSuggestion(action)}

\* _first_repair looks past a rule whose round is used, unless a second break
\* ends the turn.  The slip looks past every such rule.
Stands_Once(rule, action) == rule \in Broken(action) /\ rule \notin repairsUsed
Stands(rule, action) ==
    rule \in Broken(action) /\ (rule \in repairsUsed => rule \in StopsWhenRepeated)

First(rules, action, rule) ==
    \E i \in DOMAIN rules :
        /\ rules[i] = rule /\ Stands(rule, action)
        /\ \A j \in 1 .. i - 1 : ~Stands(rules[j], action)

\* What is held is the draft as it would have been published; a clarification
\* has none to hold.
Repair(rule, held) ==
    /\ Goto("decide")
    /\ repairsUsed' = repairsUsed \cup {rule}
    /\ heldDraft' = IF rule \in HoldsDraft THEN held ELSE heldDraft
    /\ UNCHANGED terminal

RepairOr(rules, held, result) ==
    /\ \/ \E rule \in Rules :
             /\ First(rules, lastAction, rule)
             /\ IF rule \in repairsUsed
                THEN End(Stopped("malformed_response")) /\ UNCHANGED repairs
                ELSE Repair(rule, held)
       \/ /\ \A rule \in Rules : ~First(rules, lastAction, rule)
          /\ End(result) /\ UNCHANGED repairs
    /\ UNCHANGED <<lastAction, decisions, counters, lifecycle>>

Finish ==
    /\ node = "finish_answer"
    /\ RepairOr(FinishRules, Finished(lastAction), Finished(lastAction))

Clarify ==
    /\ node = "clarify"
    /\ RepairOr(ClarifyRules, Nothing, [kind |-> "clarify"])
-----------------------------------------------------------------------------
(* The tool nodes.                                                          *)

\* The slip numbers actions by their kind.
ActionId_PerKind == IF node = "query_business" THEN businessQueries + 1
                    ELSE IF node = "search_documents" THEN documentSearches + 1
                    ELSE restores + 1
ActionId == actions + 1

\* admit, start, and the await of the tool.
Start ==
    /\ node \in Tools /\ running = {}
    /\ IF \E i \in DOMAIN outcomes : outcomes[i].id = ActionId
       THEN End(Stopped("action_protocol_error")) /\ UNCHANGED running
       ELSE /\ running' = {[id |-> ActionId, kind |-> node]}
            /\ UNCHANGED <<request, node, terminal, steps>>
    /\ UNCHANGED <<lastAction, decisions, counters, repairs, outcomes>>

Complete(status, evidence, documents, note) ==
    \E a \in running :
        /\ running' = running \ {a}
        /\ outcomes' = Append(outcomes,
              [id |-> a.id, kind |-> a.kind, status |-> status,
               evidence |-> evidence, documents |-> documents, note |-> note])

Count ==
    /\ actions' = actions + 1
    /\ businessQueries' = businessQueries + IF node = "query_business" THEN 1 ELSE 0
    /\ documentSearches' = documentSearches + IF node = "search_documents" THEN 1 ELSE 0
    /\ restores' = restores + IF node = "explain_sources" THEN 1 ELSE 0

Returning(kind) == node = kind /\ running # {}

Observe == Count /\ Goto("decide") /\ UNCHANGED <<lastAction, terminal>>

ToolTimesOut ==
    /\ \E kind \in Tools : Returning(kind)
    /\ Complete("timed_out", {}, FALSE, FALSE)
    /\ End(Stopped("budget_expired"))
    /\ UNCHANGED <<lastAction, decisions, counters, repairs>>

ToolRaises ==
    /\ \E kind \in Tools : Returning(kind)
    /\ Complete("failed", {}, FALSE, FALSE)
    /\ Observe
    /\ UNCHANGED <<decisions, repairs>>

\* The table's own head is the answer of a turn with this one outcome, unless
\* the question asks for words about it.
QueryCommits(narrated, misstates) ==
    /\ Returning("query_business")
    /\ Complete("succeeded", {ActionId}, FALSE, FALSE)
    /\ IF ~narrated /\ Len(outcomes') = 1
       THEN /\ Count /\ Goto("finish_answer")
            /\ lastAction' = Draft({ActionId}, FALSE, FALSE, misstates)
            /\ UNCHANGED terminal
       ELSE Observe
    /\ UNCHANGED <<decisions, repairs>>

\* business_result_ends_turn: a denial without other evidence ends the turn, and
\* so does a result with a card of its own or a capability that is off.
EndsTurn(status, closes) ==
    IF status = "denied" THEN \A kind \in Tools : Succeeded(kind) = {} ELSE closes

QueryDeclines(status, note, closes) ==
    /\ Returning("query_business")
    /\ Complete(status, {}, FALSE, note)
    /\ IF EndsTurn(status, closes)
       THEN End([kind |-> "business_query"]) /\ UNCHANGED <<lastAction, counters>>
       ELSE Observe
    /\ UNCHANGED <<decisions, repairs>>

SearchReturns(status, found) ==
    /\ Returning("search_documents")
    /\ Complete(status, IF found /\ status = "succeeded" THEN {ActionId} ELSE {}, TRUE, FALSE)
    /\ Observe
    /\ UNCHANGED <<decisions, repairs>>

ExplainReturns(documents) ==
    /\ Returning("explain_sources")
    /\ Complete("succeeded", {ActionId}, documents, FALSE)
    /\ Observe
    /\ UNCHANGED <<decisions, repairs>>

ExplainFindsNothing ==
    /\ Returning("explain_sources")
    /\ Complete("failed", {}, FALSE, FALSE)
    /\ End(Stopped("explanation_unavailable"))
    /\ UNCHANGED <<lastAction, decisions, counters, repairs>>

\* The await is cancelled, or the model raises.
Abandon ==
    /\ CanDecide \/ \E kind \in Tools : Returning(kind)
    /\ node' = "abandoned"
    /\ UNCHANGED <<request, lastAction, decisions, counters, repairs, lifecycle,
                   terminal, steps>>

Over == node \in {"end", "abandoned"}
Done == Over /\ UNCHANGED vars

Next ==
    \/ StopBeforeDecision \/ DecisionFails
    \/ \E action \in Actions : Decide(action)
    \/ Finish \/ Clarify
    \/ Start \/ ToolTimesOut \/ ToolRaises
    \/ \E narrated, misstates \in BOOLEAN : QueryCommits(narrated, misstates)
    \/ \E status \in {"denied", "failed", "timed_out"}, note, closes \in BOOLEAN :
          QueryDeclines(status, note, closes)
    \/ \E status \in {"succeeded", "failed", "timed_out"}, found \in BOOLEAN :
          SearchReturns(status, found)
    \/ \E documents \in BOOLEAN : ExplainReturns(documents)
    \/ ExplainFindsNothing
    \/ Abandon
    \/ Done

Spec == Init /\ [][Next]_vars
-----------------------------------------------------------------------------
(* Properties.                                                              *)

\* run_coordinator_turn: a turn that was stopped publishes the draft it held.
Published ==
    IF terminal.kind = "stopped" /\ heldDraft # Nothing THEN heldDraft ELSE terminal

TypeOK ==
    /\ available \subseteq Tools /\ candidates \in BOOLEAN
    /\ node \in Tools \cup Endings \cup {"decide", "end", "abandoned"}
    /\ lastAction \in Actions \cup {Nothing}
    /\ decisions \in Nat /\ actions \in Nat /\ businessQueries \in Nat
    /\ documentSearches \in Nat /\ restores \in Nat
    /\ repairsUsed \subseteq Rules
    /\ heldDraft \in [kind : {"finished"}, draft : Drafts, outcomes : Seq(Outcomes)]
                     \cup {Nothing}
    /\ running \subseteq [id : Nat, kind : Tools]
    /\ outcomes \in Seq(Outcomes)
    /\ terminal \in [kind : {"finished"}, draft : Drafts, outcomes : Seq(Outcomes)]
                    \cup [kind : {"stopped"}, reason : Reasons]
                    \cup [kind : {"clarify", "business_query", "none"}]
    /\ steps \in Nat

\* The graph never stops on its own bookkeeping: action ids, counted in the
\* tool nodes, are never met twice by the lifecycle, no action is left running
\* when the model is asked, and a graph that ends has said how
\* (run_coordinator_turn would call it a decision limit).
ProtocolKept ==
    /\ terminal # Stopped("action_protocol_error")
    /\ node = "end" => terminal # Nothing

\* Every tool call that the turn made, counted or not, is within the policy's
\* limits, although decide_node only reads counters that other nodes keep.
Calls(kind) == {i \in DOMAIN outcomes : outcomes[i].kind = kind}

LimitsKept ==
    /\ decisions <= MaxDecisions
    /\ Len(outcomes) <= MaxActions
    /\ Cardinality(Calls("query_business")) <= MaxBusinessQueries
    /\ Cardinality(Calls("search_documents")) <= MaxDocumentSearches
    /\ Cardinality(Calls("explain_sources")) <= MaxRestores

\* Whatever answer the person reads, the last draft or one that was held while
\* the turn went on, cites only what succeeded actions returned by then, and
\* states no record id as an amount.
ResultGrounded ==
    node = "end" /\ Published.kind = "finished" =>
        /\ Published.draft.cites \subseteq Known(Published.outcomes)
        /\ ~Published.draft.misstates

\* A turn whose query ran does not end in a card that asks the person: it
\* finishes from the answer or the failure (allowed_actions).
NoCardAfterQuery == node = "end" /\ Calls("query_business") # {} => terminal.kind # "clarify"

\* A repair never asks for an action that the next decision does not offer
\* (draft_problems, DraftFacts.allowed).
RepairsAskAllowed ==
    [][\A rule \in repairsUsed' \ repairsUsed :
          /\ rule = "asks_back" => "clarify" \in Allowed'
          /\ rule = "restated_document" =>
                "search_documents" \in Allowed' \/ Succeeded("search_documents") # {}]_vars

\* LangGraph never gives the turn up: with at most one extra node, the table's
\* own head, the decisions bound the nodes.
WithinRecursionLimit == steps <= RecursionLimit

\* A draft that was held is what a stopped turn publishes: "the draft may still
\* publish if the repair round fails" (DraftRule.holds_draft).
HeldDraftKept == [][heldDraft # Nothing => heldDraft' # Nothing]_vars
=============================================================================
