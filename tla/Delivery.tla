------------------------------ MODULE Delivery ------------------------------
(***************************************************************************)
(* Sending approved invoices to an accounting system: the delivery ledger, *)
(* the create request whose answer may be lost, the retry of a failed      *)
(* delivery, the lookup at the provider and the operator's reconciliation. *)
(* Every step is one transaction, one read, or one event at the provider.  *)
(***************************************************************************)
EXTENDS Naturals, FiniteSets

CONSTANTS
  Doc,         \* approved documents
  Key,         \* delivery keys
  KeysFor,     \* the keys a document may be sent under: its own for ERPNext,
               \* any for the accounting adapter, whose key the caller chooses
  Thread,      \* threads of the API process
  NoDoc, NoKey,
  Commands,    \* the API commands threads may issue
  MaxAttempts, \* create attempts of one delivery
  MaxPosts,    \* bound: create requests of one delivery
  MaxEdits,    \* bound: changes of invoice data after the approval
  MaxCrashes   \* bound: threads that die in the middle of a request

\* The invoice data as approved, changed since, or changed to data that has
\* errors or that no mapping accepts.
Payload == {"approved", "edited", "invalid"}

ASSUME ConstantsAssumption ==
  /\ KeysFor \in [Doc -> SUBSET Key]
  /\ NoDoc \notin Doc /\ NoKey \notin Key
  /\ MaxAttempts \in Nat \ {0} /\ MaxPosts \in Nat \ {0} /\ MaxEdits \in Nat /\ MaxCrashes \in Nat
  /\ Commands \subseteq {"send", "reconcile", "confirm"}

VARIABLES
  docs,       \* the status of each document
  payload,    \* the data of each stored extraction
  deliveries, \* the delivery row of each key
  threads,    \* where each thread is, and the copies it holds
  wire,       \* create requests the provider has not handled yet
  drafts,     \* the documents the provider has created a draft of, by key
  posts,      \* history: create requests issued under each key
  reconciled, \* history: keys for which a reconciliation was recorded
  vouched,    \* history: the documents recorded, by key, as drafted because an operator said so
  downloaded, \* history: documents exported by another path, see ExportBatches
  edits, crashes

vars == <<docs, payload, deliveries, threads, wire, drafts, posts, reconciled,
          vouched, downloaded, edits, crashes>>
provider == <<wire, drafts, posts>>
others   == <<payload, downloaded, edits, crashes>>
history  == <<reconciled, vouched>>

-----------------------------------------------------------------------------
Row == [status: {"none", "pending", "succeeded", "failed", "unknown"},
        doc: Doc \union {NoDoc}, hash: Payload, retryable: BOOLEAN, attempts: 0..MaxPosts]
NoRow == [status |-> "none", doc |-> NoDoc, hash |-> "invalid", retryable |-> FALSE,
          attempts |-> 0]

\* What a thread holds: the status of its copy of the document, its copy of the
\* delivery, the payload it built, and what the provider answered.
ThreadRow == [pc: {"idle", "send", "payload", "reserve", "existing", "claimed", "post",
                   "waiting", "answered", "reconcile", "compare", "lookup", "looked",
                   "confirm_read", "confirm"},
              doc: Doc \union {NoDoc}, key: Key \union {NoKey},
              seen: {"approved", "exported"}, copy: Row, payload: Payload,
              answer: {"none", "created", "unknown", "busy", "rejected", "missing"}]
IdleThread == [pc |-> "idle", doc |-> NoDoc, key |-> NoKey, seen |-> "approved",
               copy |-> NoRow, payload |-> "invalid", answer |-> "none"]

Init ==
  /\ docs = [d \in Doc |-> "approved"]
  /\ payload = [d \in Doc |-> "approved"]
  /\ deliveries = [k \in Key |-> NoRow]
  /\ threads = [t \in Thread |-> IdleThread]
  /\ wire = {}
  /\ drafts = [k \in Key |-> {}]
  /\ posts = [k \in Key |-> 0]
  /\ reconciled = {}
  /\ vouched = [k \in Key |-> {}]
  /\ downloaded = {}
  /\ edits = 0
  /\ crashes = 0

At(t, pc) == threads[t].pc = pc

Finish(t) == threads' = [threads EXCEPT ![t] = IdleThread]

Goto(t, pc) == threads' = [threads EXCEPT ![t].pc = pc]

\* deliveries.save updates the whole row from a copy.
Save(t, row) == deliveries' = [deliveries EXCEPT ![threads[t].key] = row]

\* mark_document_exported judges the copy of the document.
MarkExported(t) ==
  docs' = IF threads[t].seen = "exported" THEN docs
          ELSE [docs EXCEPT ![threads[t].doc] = "exported"]

\* Mutant: a failure that may be retried is saved under a status of its own.
FailedByKind(row, retryable) ==
  [row EXCEPT !.status = IF retryable THEN "retryable" ELSE "failed", !.retryable = retryable]

Succeeded(row) == [row EXCEPT !.status = "succeeded", !.retryable = FALSE]
Failed(row, retryable) == [row EXCEPT !.status = "failed", !.retryable = retryable]

-----------------------------------------------------------------------------
(* send_approved_invoice.                                                    *)

BeginSend(t, d, k) ==
  /\ "send" \in Commands
  /\ At(t, "idle")
  /\ k \in KeysFor[d]
  /\ threads' = [threads EXCEPT ![t] =
       [IdleThread EXCEPT !.pc = "send", !.doc = d, !.key = k, !.seen = docs[d]]]
  /\ UNCHANGED <<docs, deliveries, provider, history, others>>

\* An exported document is only looked at again under a key it was sent with.
ReadDelivery(t) ==
  /\ At(t, "send")
  /\ LET existing == deliveries[threads[t].key]
     IN IF threads[t].seen = "approved" \/ existing.status # "none"
        THEN threads' = [threads EXCEPT ![t].pc = "payload", ![t].copy = existing]
        ELSE Finish(t)
  /\ UNCHANGED <<docs, deliveries, provider, history, others>>

ReadPayload(t) ==
  /\ At(t, "payload")
  /\ LET data == payload[threads[t].doc]
     IN IF data = "invalid" THEN Finish(t)
        ELSE threads' = [threads EXCEPT
               ![t].payload = data,
               ![t].pc = IF threads[t].copy.status = "none" THEN "reserve" ELSE "existing"]
  /\ UNCHANGED <<docs, deliveries, provider, history, others>>

\* reserve inserts the row, or returns the one that is there.
Reserve(t) ==
  /\ At(t, "reserve")
  /\ LET th  == threads[t]
         row == [status |-> "pending", doc |-> th.doc, hash |-> th.payload,
                 retryable |-> FALSE, attempts |-> 1]
     IN IF deliveries[th.key].status = "none"
        THEN /\ Save(t, row)
             /\ threads' = [threads EXCEPT ![t].pc = "post", ![t].copy = row]
        ELSE /\ threads' = [threads EXCEPT ![t].pc = "existing", ![t].copy = deliveries[th.key]]
             /\ UNCHANGED deliveries
  /\ UNCHANGED <<docs, provider, history, others>>

SameDelivery(t) ==
  threads[t].copy.doc = threads[t].doc /\ threads[t].copy.hash = threads[t].payload

\* Mutant: a delivery of unknown outcome is replayed as a success.
ReplayUnknown(t) ==
  /\ At(t, "existing")
  /\ SameDelivery(t)
  /\ threads[t].copy.status \in {"succeeded", "unknown"}
  /\ MarkExported(t)
  /\ Finish(t)
  /\ UNCHANGED <<deliveries, provider, history, others>>

\* A stored success is replayed without a request.
Replay(t) ==
  /\ At(t, "existing")
  /\ SameDelivery(t)
  /\ threads[t].copy.status = "succeeded"
  /\ MarkExported(t)
  /\ Finish(t)
  /\ UNCHANGED <<deliveries, provider, history, others>>

Retryable(row) == row.status = "failed" /\ row.retryable

MayRetry(t) ==
  /\ SameDelivery(t)
  /\ Retryable(threads[t].copy)
  /\ threads[t].seen = "approved"
  /\ threads[t].copy.attempts < MaxAttempts

\* Another payload, a pending or unknown outcome, a permanent failure, an
\* exported document, or no attempt left.
RefuseExisting(t) ==
  /\ At(t, "existing")
  /\ ~MayRetry(t)
  /\ ~(SameDelivery(t) /\ threads[t].copy.status = "succeeded")
  /\ Finish(t)
  /\ UNCHANGED <<docs, deliveries, provider, history, others>>

\* Mutant: the claim does not read the row again.
ClaimRetryUnread(t) ==
  /\ At(t, "existing")
  /\ MayRetry(t)
  /\ LET row == threads[t].copy
     IN /\ row.attempts < MaxPosts
        /\ LET claimed == [row EXCEPT !.status = "pending", !.retryable = FALSE, !.attempts = @ + 1]
           IN /\ Save(t, claimed)
              /\ threads' = [threads EXCEPT ![t].pc = "claimed", ![t].copy = claimed]
  /\ UNCHANGED <<docs, provider, history, others>>

\* claim_retry reads the row again, for its status and not for its attempts.
ClaimRetry(t) ==
  /\ At(t, "existing")
  /\ MayRetry(t)
  /\ LET row == deliveries[threads[t].key]
     IN IF Retryable(row)
        THEN /\ row.attempts < MaxPosts
             /\ LET claimed == [row EXCEPT !.status = "pending", !.retryable = FALSE,
                                           !.attempts = @ + 1]
                IN /\ Save(t, claimed)
                   /\ threads' = [threads EXCEPT ![t].pc = "claimed", ![t].copy = claimed]
        ELSE Finish(t) /\ UNCHANGED deliveries
  /\ UNCHANGED <<docs, provider, history, others>>

\* The payload of a retry is read again; when it can no longer be sent the
\* claimed delivery stays pending.
RereadPayload(t) ==
  /\ At(t, "claimed")
  /\ LET data == payload[threads[t].doc]
     IN IF data = "invalid" THEN Finish(t)
        ELSE threads' = [threads EXCEPT ![t].pc = "post", ![t].payload = data]
  /\ UNCHANGED <<docs, deliveries, provider, history, others>>

Post(t) ==
  /\ At(t, "post")
  /\ LET k == threads[t].key
     IN /\ posts[k] < MaxPosts
        /\ posts' = [posts EXCEPT ![k] = @ + 1]
        /\ wire' = wire \union {[key |-> k, doc |-> threads[t].doc, by |-> t,
                                 number |-> posts[k] + 1]}
  /\ Goto(t, "waiting")
  /\ UNCHANGED <<docs, deliveries, drafts, history, others>>

\* Mutant: a request without an answer is taken for a failure to be retried.
RecordUnknownAsRetryable(t) ==
  /\ At(t, "answered")
  /\ LET row    == threads[t].copy
         answer == threads[t].answer
     IN IF answer = "created"
        THEN Save(t, Succeeded(row)) /\ MarkExported(t)
        ELSE Save(t, Failed(row, answer \in {"busy", "unknown"})) /\ UNCHANGED docs
  /\ Finish(t)
  /\ UNCHANGED <<provider, history, others>>

\* Success and the status of the document commit together; a failure is
\* retryable only when the provider said it was busy.
RecordOutcome(t) ==
  /\ At(t, "answered")
  /\ LET row    == threads[t].copy
         answer == threads[t].answer
     IN \/ answer = "created" /\ Save(t, Succeeded(row)) /\ MarkExported(t)
        \/ answer = "unknown" /\ Save(t, [row EXCEPT !.status = "unknown"]) /\ UNCHANGED docs
        \/ /\ answer \in {"busy", "rejected"}
           /\ Save(t, Failed(row, answer = "busy"))
           /\ UNCHANGED docs
  /\ Finish(t)
  /\ UNCHANGED <<provider, history, others>>

-----------------------------------------------------------------------------
(* The provider and the network.                                             *)

\* The thread that waits for this request hears the answer, or nothing.
Answer(request, answers) ==
  \E answer \in answers :
    threads' = IF At(request.by, "waiting") /\ threads[request.by].key = request.key
                  /\ posts[request.key] = request.number
               THEN [threads EXCEPT ![request.by].pc = "answered",
                                    ![request.by].answer = answer]
               ELSE threads

\* A draft is created once per key.  Its receipt may be lost, or name a draft
\* that is not the one expected, which is a permanent failure.  ERPNext rejects
\* a second draft of the key; the accounting adapter returns the first.
Accept(request) ==
  /\ wire' = wire \ {request}
  /\ drafts' = [drafts EXCEPT ![request.key] = IF @ = {} THEN {request.doc} ELSE @]
  /\ Answer(request, {"created", "unknown", "rejected"})
  /\ UNCHANGED <<docs, deliveries, posts, history, others>>

\* A busy or refusing provider, or a request that never arrived.
Decline(request) ==
  /\ wire' = wire \ {request}
  /\ Answer(request, {"busy", "rejected", "unknown"})
  /\ UNCHANGED <<docs, deliveries, drafts, posts, history, others>>

\* The request is still on its way, or being handled.
Timeout(t) ==
  /\ At(t, "waiting")
  /\ threads' = [threads EXCEPT ![t].pc = "answered", ![t].answer = "unknown"]
  /\ UNCHANGED <<docs, deliveries, provider, history, others>>

-----------------------------------------------------------------------------
(* reconcile_provider_delivery: look the draft up at the provider.           *)

BeginReconcile(t, d, k) ==
  /\ "reconcile" \in Commands
  /\ At(t, "idle")
  /\ k \in KeysFor[d]
  /\ threads' = [threads EXCEPT ![t] =
       [IdleThread EXCEPT !.pc = "reconcile", !.doc = d, !.key = k, !.seen = docs[d]]]
  /\ UNCHANGED <<docs, deliveries, provider, history, others>>

ReadUnsettled(t) ==
  /\ At(t, "reconcile")
  /\ LET row == deliveries[threads[t].key]
     IN IF row.status \in {"none", "succeeded"} \/ row.doc # threads[t].doc THEN Finish(t)
        ELSE threads' = [threads EXCEPT ![t].pc = "compare", ![t].copy = row]
  /\ UNCHANGED <<docs, deliveries, provider, history, others>>

ComparePayload(t) ==
  /\ At(t, "compare")
  /\ LET data == payload[threads[t].doc]
     IN IF data = "invalid" \/ data # threads[t].copy.hash THEN Finish(t)
        ELSE Goto(t, "lookup")
  /\ UNCHANGED <<docs, deliveries, provider, history, others>>

\* A lookup that fails, or finds a draft that is not the expected one, ends the
\* request.
LookUp(t) ==
  /\ At(t, "lookup")
  /\ \/ threads' = [threads EXCEPT ![t].pc = "looked",
                      ![t].answer = IF drafts[threads[t].key] = {} THEN "missing" ELSE "created"]
     \/ Finish(t)
  /\ UNCHANGED <<docs, deliveries, provider, history, others>>

\* The row is written from the copy read before the lookup.
RecordLookup(t) ==
  /\ At(t, "looked")
  /\ LET row == threads[t].copy
     IN IF threads[t].answer = "created"
        THEN Save(t, Succeeded(row)) /\ MarkExported(t)
        ELSE Save(t, Failed(row, row.attempts < MaxAttempts)) /\ UNCHANGED docs
  /\ reconciled' = reconciled \union {threads[t].key}
  /\ Finish(t)
  /\ UNCHANGED <<provider, vouched, others>>

-----------------------------------------------------------------------------
(* reconcile_delivery: an operator says what happened, and is believed, for  *)
(* every adapter and without a look at the provider.                         *)

BeginConfirm(t, k) ==
  /\ "confirm" \in Commands
  /\ At(t, "idle")
  /\ deliveries[k].status \notin {"none", "succeeded"}
  /\ \E answer \in {"created", "missing"} :
       threads' = [threads EXCEPT ![t] =
         [IdleThread EXCEPT !.pc = "confirm_read", !.key = k, !.copy = deliveries[k],
                            !.answer = answer]]
  /\ UNCHANGED <<docs, deliveries, provider, history, others>>

\* An exported document cannot be reconciled as failed.
ReadConfirmed(t) ==
  /\ At(t, "confirm_read")
  /\ LET d == threads[t].copy.doc
     IN IF threads[t].answer = "missing" /\ docs[d] = "exported" THEN Finish(t)
        ELSE threads' = [threads EXCEPT ![t].pc = "confirm", ![t].doc = d, ![t].seen = docs[d]]
  /\ UNCHANGED <<docs, deliveries, provider, history, others>>

CommitConfirm(t) ==
  /\ At(t, "confirm")
  /\ LET row == threads[t].copy
     IN IF threads[t].answer = "created"
        THEN /\ Save(t, Succeeded(row)) /\ MarkExported(t)
             /\ vouched' = [vouched EXCEPT ![threads[t].key] = @ \union {row.doc}]
        ELSE Save(t, Failed(row, TRUE)) /\ UNCHANGED <<docs, vouched>>
  /\ reconciled' = reconciled \union {threads[t].key}
  /\ Finish(t)
  /\ UNCHANGED <<provider, others>>

-----------------------------------------------------------------------------
(* The rest of the system, and crashes.                                      *)

\* A draft that raced the approval stores other data: see Review.
EditApproved(d) ==
  /\ edits < MaxEdits
  /\ edits' = edits + 1
  /\ \E data \in Payload \ {payload[d]} : payload' = [payload EXCEPT ![d] = data]
  /\ UNCHANGED <<docs, deliveries, threads, provider, history, downloaded, crashes>>

\* An export run or a download takes the document: see ExportBatches.
DownloadApproved(d) ==
  /\ docs[d] = "approved"
  /\ docs' = [docs EXCEPT ![d] = "exported"]
  /\ downloaded' = downloaded \union {d}
  /\ UNCHANGED <<payload, deliveries, threads, provider, history, edits, crashes>>

\* The API process dies with its threads; what was sent was sent.
Crash ==
  /\ crashes < MaxCrashes
  /\ crashes' = crashes + 1
  /\ \E t \in Thread : ~At(t, "idle")
  /\ threads' = [t \in Thread |-> IdleThread]
  /\ UNCHANGED <<docs, payload, deliveries, provider, history, downloaded, edits>>

-----------------------------------------------------------------------------
SendStep(t) ==
  \/ \E d \in Doc, k \in Key : BeginSend(t, d, k)
  \/ ReadDelivery(t) \/ ReadPayload(t) \/ Reserve(t) \/ Replay(t) \/ RefuseExisting(t)
  \/ ClaimRetry(t) \/ RereadPayload(t) \/ Post(t) \/ Timeout(t) \/ RecordOutcome(t)

ReconcileStep(t) ==
  \/ \E d \in Doc, k \in Key : BeginReconcile(t, d, k)
  \/ ReadUnsettled(t) \/ ComparePayload(t) \/ LookUp(t) \/ RecordLookup(t)
  \/ \E k \in Key : BeginConfirm(t, k)
  \/ ReadConfirmed(t) \/ CommitConfirm(t)

Next ==
  \/ \E t \in Thread : SendStep(t) \/ ReconcileStep(t)
  \/ \E request \in wire : Accept(request) \/ Decline(request)
  \/ \E d \in Doc : EditApproved(d) \/ DownloadApproved(d)
  \/ Crash

Spec == Init /\ [][Next]_vars

-----------------------------------------------------------------------------
Request == [key: Key, doc: Doc, by: Thread, number: 1..MaxPosts]

TypeOK ==
  /\ docs \in [Doc -> {"approved", "exported"}]
  /\ payload \in [Doc -> Payload]
  /\ deliveries \in [Key -> Row]
  /\ threads \in [Thread -> ThreadRow]
  /\ wire \subseteq Request
  /\ drafts \in [Key -> SUBSET Doc]
  /\ posts \in [Key -> 0..MaxPosts]
  /\ reconciled \subseteq Key
  /\ vouched \in [Key -> SUBSET Doc]
  /\ downloaded \subseteq Doc
  /\ edits \in 0..MaxEdits
  /\ crashes \in 0..MaxCrashes

\* A delivery is only called a success, and a document is only exported through
\* one, when the provider holds its draft or an operator said so under that key,
\* whatever answers, lookups, retries and crashes were lost or raced.
Attested(k) == drafts[k] \union vouched[k]
SuccessIsAttested ==
  /\ \A k \in Key : deliveries[k].status = "succeeded" => deliveries[k].doc \in Attested(k)
  /\ \A d \in Doc : docs[d] = "exported" /\ d \notin downloaded => \E k \in Key : d \in Attested(k)

Unanswered(k) == {request \in wire : request.key = k}
AboutToPost(k) == {t \in Thread : threads[t].key = k /\ threads[t].pc \in {"claimed", "post"}}

\* Unknown outcomes are not retried: while a create request may still be
\* accepted nobody issues another one, until somebody reconciles the delivery.
\* Each was counted before it was issued.
OneCreateAtATime ==
  \A k \in Key \ reconciled :
    /\ Cardinality(Unanswered(k)) + Cardinality(AboutToPost(k)) <= 1
    /\ posts[k] <= deliveries[k].attempts

\* A successful delivery cannot be overwritten, except by or after a
\* reconciliation that raced the request.
SuccessIsFinal ==
  [][\A k \in Key \ reconciled' :
       deliveries[k].status = "succeeded" => deliveries'[k] = deliveries[k]]_deliveries

\* docs/erpnext-integration-design.md: "At most three create attempts are permitted
\* for one delivery." It fails: the count is compared on a copy (see the README).
AttemptsAreBounded == \A k \in Key : posts[k] <= MaxAttempts

\* docs/erpnext-integration-design.md: "no unknown result is converted to success from
\* an operator-entered external ID alone."  It fails: see the README.
SuccessMeansDrafted ==
  \A k \in Key : deliveries[k].status = "succeeded" => deliveries[k].doc \in drafts[k]
=============================================================================
