------------------------------- MODULE Policy -------------------------------
(***************************************************************************)
(* The autonomy policy and the deterministic planner of the backoffice,    *)
(* and the evidence a plan is made from.  A work item has a workspace, a   *)
(* type or none yet, the documents linked to it and the topics its         *)
(* business context mentions; a plan is a sequence of steps.               *)
(***************************************************************************)
EXTENDS Copilot

CONSTANT NoType   \* a work item not classified yet

ActionType == {"inspect_queue", "explain_document", "recommend_review",
               "draft_accounting_note", "draft_vendor_message", "process_document",
               "export_approved_invoice", "escalate_to_human", "block_unsafe_request"}

ReadActions  == {"inspect_queue", "explain_document"}
\* What needs a confirmation is also what a tool exists for.
ActionTool(action) ==
  CASE action = "process_document"        -> "process_document"
    [] action = "export_approved_invoice" -> "export_approved_csv"
    [] OTHER                              -> NoTool

Confirmed(action) == action \in {"process_document", "export_approved_invoice"}

PolicyRoles(action) ==
  CASE action = "process_document"        -> {"admin", "operator"}
    [] action = "export_approved_invoice" -> {"admin"}
    [] OTHER                              -> ReadRoles

\* Why the policy blocks an action; the first reason is the one reported.
BlockedReasons(item, action, caller, target, evidence, confirmed) ==
  <<[name |-> "unsafe",    holds |-> action = "block_unsafe_request"],
    [name |-> "workspace", holds |-> caller.workspace # item.home],
    [name |-> "target",    holds |-> target # item.home],
    [name |-> "claimed",   holds |-> ~HonestRole(caller)],
    [name |-> "role",      holds |-> caller.role \notin PolicyRoles(action)],
    [name |-> "evidence",  holds |-> ~evidence /\ action \notin ReadActions],
    [name |-> "confirm",   holds |-> Confirmed(action) /\ ~confirmed]>>

\* A target that is not named is the item's own workspace.
Decide(item, action, caller, target, evidence, confirmed) ==
  LET reasons == BlockedReasons(item, action, caller, target, evidence, confirmed)
  IN [allowed |-> \A i \in DOMAIN reasons : ~reasons[i].holds,
      confirm |-> Confirmed(action) /\ ~confirmed]

----------------------------------------------------------------------------
(* Planning.                                                                *)

\* What the first linked document says; a document elsewhere refuses the request.
PlanningInput(item, topics, db) ==
  LET d == item.docs[1]
  IN IF item.docs = << >> \/ ~Exists(db, d)
     THEN [topics |-> topics, evidence |-> FALSE, approved |-> FALSE, missing |-> FALSE]
     ELSE [topics   |-> topics,
           evidence |-> /\ db.doc[d].extraction # "none"
                        /\ db.doc[d].status \in {"extracted", "needs_review", "approved", "exported"},
           approved |-> db.doc[d].status \in {"approved", "exported"},
           missing  |-> db.doc[d].extraction = "errors"]

ClassifyWorkType(item, inputs) ==
  LET said == inputs.topics \union item.topics
  IN CASE inputs.missing \/ "missing" \in said -> "vendor_follow_up"
       [] ~(inputs.missing \/ "missing" \in said) /\ "export" \in said -> "invoice_export"
       [] OTHER -> IF "note" \in said THEN "accounting_note"
                   ELSE IF item.docs # << >> \/ "invoice" \in said THEN "invoice_review"
                   ELSE "insufficient_evidence"

WorkType(item, inputs) == IF item.type = NoType THEN ClassifyWorkType(item, inputs) ELSE item.type

Step(item, action, caller, evidence) ==
  LET decision == Decide(item, action, caller, item.home, evidence, FALSE)
  IN [action |-> action,
      approval |-> Confirmed(action),
      status |-> CASE decision.confirm -> "waiting_for_approval"
                   [] ~decision.confirm /\ ~decision.allowed -> "blocked"
                   [] OTHER -> "planned"]

ExportSteps(item, inputs, caller) ==
  <<Step(item, "inspect_queue", caller, TRUE),
    IF inputs.approved THEN Step(item, "export_approved_invoice", caller, TRUE)
    ELSE [action |-> "export_approved_invoice", approval |-> TRUE, status |-> "blocked"]>>

Explained(item, caller) ==
  IF item.docs # << >> THEN <<Step(item, "explain_document", caller, TRUE)>> ELSE << >>

Plan(item, inputs, caller) ==
  LET type == WorkType(item, inputs)
      escalate == <<Step(item, "escalate_to_human", caller, TRUE)>>
  IN [type |-> type,
      escalated |-> \/ type \in {"insufficient_evidence", "exception_handling"} \/ ~inputs.evidence
                    \/ type = "invoice_export" /\ ~inputs.approved,
      steps |->
        IF type = "insufficient_evidence" \/ ~inputs.evidence THEN escalate
        ELSE CASE type = "invoice_review" ->
                    <<Step(item, "explain_document", caller, item.docs # << >>),
                      Step(item, "recommend_review", caller, inputs.evidence)>>
               [] type = "invoice_export" -> ExportSteps(item, inputs, caller)
               [] type = "accounting_note" ->
                    Explained(item, caller) \o <<Step(item, "draft_accounting_note", caller, inputs.evidence)>>
               [] type = "vendor_follow_up" ->
                    Explained(item, caller) \o <<Step(item, "draft_vendor_message", caller, TRUE)>>
               [] OTHER -> escalate]

----------------------------------------------------------------------------
(* What the policy, the planner and the tools promise together.             *)

\* With a confirmation, the policy admits to an action exactly the callers whom
\* the table of tools admits to its tool.
PolicyMatchesTools(item, caller) ==
  \A action \in ActionType :
    ActionTool(action) # NoTool /\ caller.workspace = item.home =>
      (Decide(item, action, caller, item.home, TRUE, TRUE).allowed
         <=> CanBeCalledBy(ActionTool(action), caller))

\* A step that a tool would run waits for an approval, and then concerns an
\* invoice that is approved or exported, with an extraction; no plan has two.
PlansAskFirst(item, inputs, caller, db) ==
  LET steps == Plan(item, inputs, caller).steps
      open  == {i \in DOMAIN steps : ActionTool(steps[i].action) # NoTool /\ steps[i].status # "blocked"}
  IN /\ Cardinality(open) <= 1
     /\ \A i \in open :
          /\ steps[i].approval /\ steps[i].status = "waiting_for_approval"
          /\ db.doc[item.docs[1]].status \in {"approved", "exported"}
          /\ db.doc[item.docs[1]].extraction # "none"

\* Without evidence a plan holds no draft and nothing to execute.
NoEvidenceNoAction(item, inputs, caller) ==
  ~inputs.evidence =>
    LET steps == Plan(item, inputs, caller).steps
    IN \A i \in DOMAIN steps : steps[i].action = "escalate_to_human"
=============================================================================
