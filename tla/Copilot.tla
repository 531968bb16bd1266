------------------------------- MODULE Copilot -------------------------------
(***************************************************************************)
(* The read-only copilot and the tools it controls: which tool a request   *)
(* selects, who may call it, what it answers and what it recommends next.  *)
(* Everything is a function of a caller, a request and a snapshot db: per  *)
(* document (db.doc) its status, the workspace it belongs to, its          *)
(* submitter and what is stored of its extraction; and whether the system  *)
(* is ready (db.ready).  The wording of answers is left out.               *)
(***************************************************************************)
EXTENDS Integers, FiniteSets, Sequences, FiniteSetsExt, DocumentStatus

CONSTANTS
  NoTool,      \* no tool is named
  NoDocument   \* no document is named

ReadTools   == {"get_readiness", "get_metrics_summary", "list_documents",
                "get_document_detail", "list_review_queue"}
ReviewTools == {"save_review_notes", "approve_review", "reject_review"}
AgentTools  == ReadTools \union ReviewTools \union
               {"process_document", "export_approved_csv", "send_accounting_integration"}

ReadRoles   == {"admin", "operator", "reviewer"}
ReviewRoles == {"admin", "reviewer"}
IntakeRoles == {"intake", "operator", "uploader"}

\* The three principals an access token stands for; workspace is the one of the settings.
Principal(user, role) ==
  [user |-> user, role |-> role, is_admin |-> role = "admin", workspace |-> "here"]

FailureType == {"wrong_tool", "missing_tool", "hallucinated_state", "permission_denied",
                "workspace_boundary_violation", "confirmation_required", "timeout",
                "invalid_workflow_state", "tool_execution_failed", "insufficient_evidence"}

ASSUME ToolAssumption == NoTool \notin AgentTools

----------------------------------------------------------------------------
(* The table of tools.                                                      *)

\* Mutant: processing is offered to whoever may read.
AllowedRolesProcessingOpen(tool) ==
  CASE tool \in ReviewTools \union {"list_review_queue"} -> ReviewRoles
    [] tool \in {"export_approved_csv", "send_accounting_integration"} -> {"admin"}
    [] OTHER -> ReadRoles
AllowedRoles(tool) ==
  CASE tool \in ReviewTools \union {"list_review_queue"} -> ReviewRoles
    [] tool = "process_document" -> {"admin", "operator"}
    [] tool \in {"export_approved_csv", "send_accounting_integration"} -> {"admin"}
    [] OTHER -> ReadRoles

RequiresConfirmation(tool) == tool \notin ReadTools

HonestRole(caller) == caller.role = "admin" => caller.is_admin
CanBeCalledBy(tool, caller) == HonestRole(caller) /\ caller.role \in AllowedRoles(tool)

----------------------------------------------------------------------------
(* Routing.  A message is the set of topics its keywords belong to.         *)

RoutingRules ==
  <<[tool |-> "get_readiness", topic |-> "readiness"],
    [tool |-> "list_review_queue", topic |-> "review"],
    [tool |-> "get_metrics_summary", topic |-> "metrics"],
    [tool |-> "list_documents", topic |-> "documents"]>>
Topics == {"readiness", "review", "metrics", "documents", "mutation"}

SelectTool(request) ==
  LET rules == {i \in DOMAIN RoutingRules : RoutingRules[i].topic \in request.topics}
  IN CASE request.execute # NoTool -> request.execute
       [] request.execute = NoTool /\ request.document # NoDocument -> "get_document_detail"
       [] OTHER -> IF rules = {} THEN "get_metrics_summary" ELSE RoutingRules[Min(rules)].tool

----------------------------------------------------------------------------
(* Answers.  moved: the documents whose status the call changes.            *)

Response(tool, status, failure, data, moved) ==
  [tool |-> tool, status |-> status, failure |-> failure, data |-> data, moved |-> moved]
Success(tool, data, moved) == Response(tool, "success", "none", data, moved)
Refusal(tool, status, failure) == Response(tool, status, failure, << >>, {})

Exists(db, d)         == d \in DOMAIN db.doc /\ db.doc[d].status # Absent
Own(db, caller)       == {d \in DOMAIN db.doc : Exists(db, d) /\ db.doc[d].home = caller.workspace}
OwnIn(db, caller, st) == {d \in Own(db, caller) : db.doc[d].status = st}

ReviewQueue(caller, db) ==
  IF HonestRole(caller) /\ caller.role \in ReviewRoles
  THEN Success("list_review_queue", Cardinality(OwnIn(db, caller, "needs_review")), {})
  ELSE Refusal("list_review_queue", "refused", "permission_denied")

DocumentDetail(document, caller, db) ==
  CASE document = NoDocument \/ ~Exists(db, document) ->
         Refusal("get_document_detail", "escalated", "insufficient_evidence")
    [] Exists(db, document) /\ document \notin Own(db, caller) ->
         Refusal("get_document_detail", "escalated", "workspace_boundary_violation")
    [] OTHER -> Success("get_document_detail", db.doc[document].status, {})

Create(tool, request, caller, db) ==
  CASE tool = "get_readiness" -> Success(tool, db.ready, {})
    [] tool = "get_metrics_summary" ->
         Success(tool, [documents |-> Cardinality(Own(db, caller)),
                        reviews |-> Cardinality(OwnIn(db, caller, "needs_review"))], {})
    [] tool = "list_documents" -> Success(tool, Cardinality(Own(db, caller)), {})
    [] tool = "list_review_queue" -> ReviewQueue(caller, db)
    [] tool = "get_document_detail" -> DocumentDetail(request.document, caller, db)

----------------------------------------------------------------------------
(* Controlled execution, and the guards of the services behind the tools.   *)

\* An intake role sees the documents it submitted only.
Processable(d, caller, db) ==
  /\ d \in Own(db, caller)
  /\ ~caller.is_admin /\ caller.role \in IntakeRoles => db.doc[d].user = caller.user

ProcessDocument(request, caller, db) ==
  LET tool == "process_document"
      d    == request.document
  IN CASE d = NoDocument -> Refusal(tool, "escalated", "insufficient_evidence")
       [] d # NoDocument /\ ~(HonestRole(caller) /\ caller.role \in {"admin"} \union IntakeRoles) ->
            Refusal(tool, "escalated", "permission_denied")
       [] OTHER ->
            IF ~Processable(d, caller, db)
            THEN Refusal(tool, "escalated", "workspace_boundary_violation")
            \* A running job is refused; so is a document that is not waiting for its job.
            ELSE IF db.doc[d].status # "queued"
            THEN Refusal(tool, "failed", "invalid_workflow_state")
            ELSE Success(tool, d, {d})

ExportApprovedCsv(caller, db) ==
  IF caller.is_admin
  THEN Success("export_approved_csv", Cardinality(OwnIn(db, caller, "approved")), OwnIn(db, caller, "approved"))
  ELSE Refusal("export_approved_csv", "escalated", "permission_denied")

\* The accounting system takes the invoice.
SendAccountingIntegration(request, caller, db) ==
  LET tool == "send_accounting_integration"
      d    == request.document
  IN CASE d = NoDocument -> Refusal(tool, "escalated", "insufficient_evidence")
       [] d # NoDocument /\ ~caller.is_admin -> Refusal(tool, "escalated", "permission_denied")
       [] OTHER ->
            IF d \notin Own(db, caller)
            THEN Refusal(tool, "escalated", "workspace_boundary_violation")
            ELSE IF db.doc[d].status # "approved"
            THEN Refusal(tool, "failed", "invalid_workflow_state")
            ELSE Success(tool, d, {d})

Execute(request, caller, db) ==
  LET tool == request.execute
  IN IF ~CanBeCalledBy(tool, caller) THEN Refusal(tool, "escalated", "permission_denied")
     ELSE IF RequiresConfirmation(tool) /\ ~request.confirmed
     THEN Refusal(tool, "confirmation_required", "confirmation_required")
     ELSE CASE tool = "process_document"            -> ProcessDocument(request, caller, db)
            [] tool = "export_approved_csv"         -> ExportApprovedCsv(caller, db)
            [] tool = "send_accounting_integration" -> SendAccountingIntegration(request, caller, db)
            [] OTHER                                -> Refusal(tool, "escalated", "missing_tool")

Dispatch(request, caller, db) ==
  LET tool == SelectTool(request)
  IN IF tool \in ReadTools THEN Create(tool, request, caller, db) ELSE Execute(request, caller, db)

Reply(request, caller, db) ==
  IF CanBeCalledBy(SelectTool(request), caller)
  THEN Dispatch(request, caller, db)
  ELSE Refusal(SelectTool(request), "escalated", "insufficient_evidence")

----------------------------------------------------------------------------
(* Recommendations: a tool, and whether a human is to run it.               *)

HumanEscalation == [tool |-> NoTool, human |-> TRUE]

ToolRecommendation(tool, human, caller) ==
  IF CanBeCalledBy(tool, caller) THEN [tool |-> tool, human |-> human] ELSE HumanEscalation

RecommendForDocument(status, caller) ==
  CASE status \in {"uploaded", "queued"} -> ToolRecommendation("process_document", FALSE, caller)
    [] status = "needs_review" -> ToolRecommendation("save_review_notes", TRUE, caller)
    [] status = "approved" -> ToolRecommendation("export_approved_csv", FALSE, caller)
    [] status = "extracted" -> ToolRecommendation("approve_review", TRUE, caller)
    [] OTHER -> HumanEscalation

RecommendForMetrics(data, caller) ==
  CASE data.reviews > 0 -> ToolRecommendation("list_review_queue", TRUE, caller)
    [] data.reviews = 0 /\ data.documents = 0 -> [tool |-> NoTool, human |-> FALSE]
    [] OTHER -> [tool |-> "get_metrics_summary", human |-> FALSE]

RecommendForReviewQueue(count, caller) ==
  IF count = 0 THEN [tool |-> "list_review_queue", human |-> FALSE]
  ELSE ToolRecommendation("save_review_notes", TRUE, caller)

RecommendForReadiness(ready) ==
  IF ready THEN [tool |-> "get_metrics_summary", human |-> FALSE] ELSE HumanEscalation

RecommendForDocumentList(count) ==
  IF count = 0 THEN [tool |-> NoTool, human |-> TRUE]
  ELSE [tool |-> "get_document_detail", human |-> FALSE]

RecommendNextAction(response, caller) ==
  IF response.status # "success" THEN HumanEscalation
  ELSE CASE response.tool = "get_document_detail" -> RecommendForDocument(response.data, caller)
         [] response.tool = "get_metrics_summary" -> RecommendForMetrics(response.data, caller)
         [] response.tool = "list_review_queue"   -> RecommendForReviewQueue(response.data, caller)
         [] response.tool = "get_readiness"       -> RecommendForReadiness(response.data)
         [] response.tool = "list_documents"      -> RecommendForDocumentList(response.data)
         [] OTHER -> HumanEscalation

----------------------------------------------------------------------------
(* What these operators promise together.                                   *)

Permitted(request, caller) == CanBeCalledBy(SelectTool(request), caller)

\* Documents move by a tool that was named, confirmed and permitted, whatever the words are.
WordsMoveNothing(request, caller, db) ==
  Reply(request, caller, db).moved # {} =>
    /\ request.execute \notin ReadTools \union {NoTool}
    /\ request.confirmed /\ Permitted(request, caller)

\* No document of another workspace moves or is shown.
WorkspaceIsKept(request, caller, db) ==
  LET answer == Reply(request, caller, db)
  IN /\ answer.moved \subseteq Own(db, caller)
     /\ answer.tool = "get_document_detail" /\ answer.status = "success" => request.document \in Own(db, caller)

\* The services never refuse the role of a caller whom the table of tools admits.
TableMatchesServices(request, caller, db) ==
  Permitted(request, caller) => Reply(request, caller, db).failure # "permission_denied"

\* A tool recommended for no human's hands is one the caller can run, at once and
\* with success: on the document that was shown, or on any of those listed.
AdviceCanBeFollowed(request, caller, db) ==
  LET reply  == Reply(request, caller, db)
      advice == RecommendNextAction(reply, caller)
  IN advice.tool # NoTool /\ ~advice.human =>
       \A d \in IF reply.tool = "get_document_detail" THEN {request.document} ELSE Own(db, caller) :
         Reply([topics |-> {}, document |-> d, execute |-> advice.tool, confirmed |-> TRUE],
               caller, db).status = "success"
=============================================================================
