--------------------------- MODULE DeliveryProofs ---------------------------
(***************************************************************************)
(* Proofs about Delivery, for any documents, keys, threads and bounds: its *)
(* types; that a delivery is only called a success when the provider holds *)
(* its draft or an operator said so; that one create request at a time is  *)
(* on its way; and that a success is final until somebody reconciles it.   *)
(***************************************************************************)
EXTENDS Delivery, FiniteSetTheorems, TLAPS

Settled(k) == deliveries[k].status # "none"

\* A delivery is for one document, and nothing is sent or drafted for another
\* one under its key.
DocsInv ==
  /\ \A k \in Key :
       /\ Settled(k) => deliveries[k].doc \in Doc
       /\ ~Settled(k) => posts[k] = 0 /\ drafts[k] = {}
       /\ drafts[k] \subseteq {deliveries[k].doc}
  /\ \A request \in wire : Settled(request.key) /\ request.doc = deliveries[request.key].doc

\* Where a thread has a copy of the delivery, and where it has compared the
\* copy with the document it works for.
HasCopy  == {"existing", "claimed", "post", "waiting", "answered", "compare", "lookup",
             "looked", "confirm_read", "confirm"}
Compared == {"claimed", "post", "waiting", "answered", "compare", "lookup", "looked", "confirm"}
HasHeard == {"answered", "looked"}

\* What a copy says of documents and drafts, and what the provider answered, stays
\* true however stale it is.  What an operator is about to say need not be true.
CopyOK(th) ==
  /\ th.pc # "idle" => th.key \in Key
  /\ th.pc \notin {"idle", "confirm_read"} => th.doc \in Doc
  /\ th.copy.status # "none" =>
       th.key \in Key /\ Settled(th.key) /\ th.copy.doc = deliveries[th.key].doc
  /\ th.copy.status = "succeeded" => th.copy.doc \in Attested(th.key)
  /\ th.pc \in HasCopy => th.copy.status # "none"
  /\ th.pc \in Compared => th.doc = th.copy.doc
  /\ th.pc \in HasHeard /\ th.answer = "created" => th.copy.doc \in Attested(th.key)

CopyInv == \A t \in Thread : CopyOK(threads[t])

\* A thread holds a delivery from its reservation to its outcome, is about to
\* post before its request is on the wire, and has heard of it afterwards.
Holds(t, k)  == threads[t].key = k /\ threads[t].pc \in {"claimed", "post", "waiting", "answered"}
Claims(t, k) == threads[t].key = k /\ threads[t].pc \in {"claimed", "post"}
Heard(t, k)  == threads[t].key = k /\ threads[t].pc = "answered" /\ threads[t].answer # "unknown"

\* Until it is reconciled a delivery has one holder, whose copy is the row, and
\* at most one request that was not answered.
KeyOK(k) ==
  /\ \A t \in Thread : Holds(t, k) => deliveries[k] = threads[t].copy /\ deliveries[k].status = "pending"
  /\ \A t, u \in Thread : Holds(t, k) /\ Holds(u, k) => t = u
  /\ \A t \in Thread : Claims(t, k) => posts[k] < deliveries[k].attempts
  /\ posts[k] <= deliveries[k].attempts
  /\ \A t \in Thread : Claims(t, k) \/ Heard(t, k) => Unanswered(k) = {}
  /\ Unanswered(k) # {} => deliveries[k].status \in {"pending", "unknown"}
  /\ \A q, r \in Unanswered(k) : q = r

WireInv == \A k \in Key \ reconciled : KeyOK(k)

IInv == TypeOK /\ DocsInv /\ CopyInv /\ WireInv /\ SuccessIsAttested

-----------------------------------------------------------------------------
(* What a step may not undo.                                                 *)

\* A row is never removed or given to another document.
RowsStay == \A k \in Key : Settled(k) => Settled(k)' /\ deliveries'[k].doc = deliveries[k].doc

\* A draft is never withdrawn, nor is what was said of one.
AttestedStay == \A k \in Key : Attested(k) \subseteq Attested(k)'

\* A stale copy is as good as a fresh one.
LEMMA CopyStays ==
  ASSUME TypeOK, NEW t \in Thread, CopyOK(threads[t]), threads'[t] = threads[t],
         RowsStay, AttestedStay
  PROVE  CopyOK(threads[t])'
<1> DEFINE th == threads[t]
<1>1. th.copy.status # "none" =>
        th.key \in Key /\ Settled(th.key)' /\ th.copy.doc = deliveries'[th.key].doc
  BY DEF CopyOK, RowsStay
<1>2. th.copy.status = "succeeded" => th.copy.doc \in Attested(th.key)'
  BY DEF CopyOK, AttestedStay
<1>3. th.pc \in HasHeard /\ th.answer = "created" => th.copy.doc \in Attested(th.key)'
  BY DEF CopyOK, AttestedStay, HasHeard
<1>4. QED
  BY <1>1, <1>2, <1>3 DEF CopyOK, Settled

\* One thread moves, and what it now holds is right.
LEMMA CopiesStay ==
  ASSUME TypeOK, CopyInv, RowsStay, AttestedStay, NEW t \in Thread, NEW th \in ThreadRow,
         threads' = [threads EXCEPT ![t] = th], CopyOK(th)'
  PROVE  CopyInv' /\ threads' \in [Thread -> ThreadRow]
<1>1. threads \in [Thread -> ThreadRow]
  BY DEF TypeOK
<1>2. ASSUME NEW u \in Thread PROVE CopyOK(threads[u])'
  <2>1. CASE u = t
    <3>1. threads'[u] = th
      BY <1>1, <2>1
    <3>2. QED
      BY <3>1 DEF CopyOK, Settled
  <2>2. CASE u # t
    <3>1. threads'[u] = threads[u]
      BY <1>1, <2>2
    <3>2. QED
      BY <3>1, CopyStays DEF CopyInv
  <2>3. QED
    BY <2>1, <2>2
<1>3. threads' \in [Thread -> ThreadRow]
  BY <1>1
<1>4. QED
  BY <1>2, <1>3 DEF CopyInv

\* What is true of a delivery stays true while its row does not change, nobody
\* takes it, and no request is added.
LEMMA KeyStays ==
  ASSUME NEW k \in Key, KeyOK(k), deliveries'[k] = deliveries[k], posts'[k] = posts[k],
         Unanswered(k)' \subseteq Unanswered(k),
         \A t \in Thread : /\ Holds(t, k)' => Holds(t, k) /\ threads'[t].copy = threads[t].copy
                           /\ Claims(t, k)' => Claims(t, k)
                           /\ Heard(t, k)' => Heard(t, k) \/ Unanswered(k)' = {}
  PROVE  KeyOK(k)'
<1>1. \A t \in Thread : Holds(t, k)' => deliveries'[k] = threads'[t].copy
                                        /\ deliveries'[k].status = "pending"
  BY DEF KeyOK
<1>2. \A t, u \in Thread : Holds(t, k)' /\ Holds(u, k)' => t = u
  BY DEF KeyOK
<1>3. \A t \in Thread : Claims(t, k)' => posts'[k] < deliveries'[k].attempts
  BY DEF KeyOK
<1>4. \A t \in Thread : Claims(t, k)' \/ Heard(t, k)' => Unanswered(k)' = {}
  BY DEF KeyOK
<1>5. Unanswered(k)' # {} => deliveries'[k].status \in {"pending", "unknown"}
  BY DEF KeyOK
<1>6. \A q, r \in Unanswered(k)' : q = r
  BY DEF KeyOK
<1>7. posts'[k] <= deliveries'[k].attempts
  BY DEF KeyOK
<1>8. QED
  BY <1>1, <1>2, <1>3, <1>4, <1>5, <1>6, <1>7 DEF KeyOK

-----------------------------------------------------------------------------
(* Steps of one thread.                                                      *)

Holding == {"claimed", "post", "waiting", "answered"}

\* The rows Init, Finish and Reserve use are rows.
LEMMA RowsOK == NoRow \in Row /\ IdleThread \in ThreadRow
<1>1. NoRow \in Row
  BY ConstantsAssumption DEF NoRow, Row, Payload
<1>2. QED
  BY <1>1 DEF IdleThread, ThreadRow, Payload

\* An idle thread says nothing.
LEMMA IdleOK == CopyOK(IdleThread)
BY DEF CopyOK, IdleThread, NoRow, HasCopy, Compared, HasHeard

\* What a thread row is made of.
LEMMA ThreadFacts ==
  ASSUME TypeOK, NEW t \in Thread
  PROVE  /\ threads \in [Thread -> ThreadRow] /\ threads[t] \in ThreadRow
         /\ threads[t].doc \in Doc \union {NoDoc} /\ threads[t].key \in Key \union {NoKey}
         /\ threads[t].copy \in Row /\ threads[t].payload \in Payload
         /\ threads[t].seen \in {"approved", "exported"}
         /\ threads[t].answer \in {"none", "created", "unknown", "busy", "rejected", "missing"}
BY DEF TypeOK, ThreadRow

\* What a delivery row is made of.
LEMMA RowFacts ==
  ASSUME NEW row \in Row
  PROVE  /\ row.status \in {"none", "pending", "succeeded", "failed", "unknown"}
         /\ row.doc \in Doc \union {NoDoc} /\ row.hash \in Payload
         /\ row.retryable \in BOOLEAN /\ row.attempts \in 0..MaxPosts
BY DEF Row

\* Thread t goes on as th and nothing else happens.
Looks(t, th) ==
  /\ threads' = [threads EXCEPT ![t] = th]
  /\ UNCHANGED <<docs, deliveries, provider, history, others>>

\* A delivery that thread t neither held nor holds now is as it was.
LEMMA ForeignKey ==
  ASSUME TypeOK, NEW t \in Thread, NEW th \in ThreadRow,
         threads' = [threads EXCEPT ![t] = th], NEW k \in Key, KeyOK(k),
         th.key # k \/ th.pc \notin Holding,
         deliveries'[k] = deliveries[k], posts'[k] = posts[k], Unanswered(k)' = Unanswered(k)
  PROVE  KeyOK(k)'
<1>1. threads'[t] = th /\ \A u \in Thread : u # t => threads'[u] = threads[u]
  BY ThreadFacts
<1>2. ASSUME NEW u \in Thread
      PROVE  /\ Holds(u, k)' => Holds(u, k) /\ threads'[u].copy = threads[u].copy
             /\ Claims(u, k)' => Claims(u, k)
             /\ Heard(u, k)' => Heard(u, k) \/ Unanswered(k)' = {}
  <2>1. CASE u = t
    BY <1>1, <2>1 DEF Holds, Claims, Heard, Holding
  <2>2. CASE u # t
    BY <1>1, <2>2 DEF Holds, Claims, Heard
  <2>3. QED
    BY <2>1, <2>2
<1>3. QED
  BY <1>2, KeyStays

\* A thread that looks at things, and takes nothing it did not hold.
LEMMA LookingKeeps ==
  ASSUME IInv, NEW t \in Thread, NEW th \in ThreadRow, Looks(t, th), CopyOK(th),
         th.pc \in Holding =>
           /\ th.key = threads[t].key /\ th.copy = threads[t].copy
           /\ \/ th.pc = "post" /\ threads[t].pc = "claimed"
              \/ th.pc = "answered" /\ th.answer = "unknown" /\ threads[t].pc = "waiting"
  PROVE  IInv'
<1> USE DEF IInv
<1>1. /\ threads' = [threads EXCEPT ![t] = th] /\ docs' = docs /\ deliveries' = deliveries
      /\ wire' = wire /\ drafts' = drafts /\ posts' = posts /\ reconciled' = reconciled /\ vouched' = vouched
      /\ payload' = payload /\ downloaded' = downloaded /\ edits' = edits /\ crashes' = crashes
  BY DEF Looks, provider, others, history
<1>2. RowsStay /\ AttestedStay
  BY <1>1 DEF RowsStay, AttestedStay, Attested, Settled
<1>3. CopyOK(th)'
  BY <1>1 DEF CopyOK, Attested, Settled
<1>4. CopyInv' /\ threads' \in [Thread -> ThreadRow]
  BY <1>1, <1>2, <1>3, CopiesStay
<1>5. TypeOK'
  BY <1>1, <1>4 DEF TypeOK, Request
<1>6. DocsInv'
  BY <1>1 DEF DocsInv, Settled
<1>7. SuccessIsAttested'
  BY <1>1 DEF SuccessIsAttested, Attested
<1>8. ASSUME NEW k \in Key \ reconciled' PROVE KeyOK(k)'
  <2>1. KeyOK(k)
    BY <1>1 DEF WireInv
  <2>2. Unanswered(k)' = Unanswered(k)
    BY <1>1 DEF Unanswered
  <2>3. CASE th.pc \notin Holding
    BY <1>1, <2>1, <2>2, <2>3, ForeignKey
  <2>4. CASE th.pc \in Holding
    <3>1. threads'[t] = th /\ \A u \in Thread : u # t => threads'[u] = threads[u]
      BY <1>1, ThreadFacts
    <3>2. ASSUME NEW u \in Thread
          PROVE  /\ Holds(u, k)' => Holds(u, k) /\ threads'[u].copy = threads[u].copy
                 /\ Claims(u, k)' => Claims(u, k)
                 /\ Heard(u, k)' => Heard(u, k) \/ Unanswered(k)' = {}
      <4>1. CASE u = t
        BY <2>4, <3>1, <4>1 DEF Holds, Claims, Heard
      <4>2. CASE u # t
        BY <3>1, <4>2 DEF Holds, Claims, Heard
      <4>3. QED
        BY <4>1, <4>2
    <3>3. QED
      BY <1>1, <2>1, <2>2, <3>2, KeyStays
  <2>5. QED
    BY <2>3, <2>4
<1>9. QED
  BY <1>4, <1>5, <1>6, <1>7, <1>8 DEF WireInv

\* A request that ends without having done anything.
LEMMA FinishKeeps ==
  ASSUME IInv, NEW t \in Thread, Finish(t),
         UNCHANGED <<docs, deliveries, provider, history, others>>
  PROVE  IInv'
<1>1. Looks(t, IdleThread)
  BY DEF Finish, Looks
<1>2. IdleThread.pc \notin Holding
  BY DEF IdleThread, Holding
<1>3. QED
  BY <1>1, <1>2, RowsOK, IdleOK, LookingKeeps

\* A request begins with a fresh row for its document and key.
LEMMA BeginKeeps ==
  ASSUME IInv, NEW t \in Thread, NEW d \in Doc, NEW k \in Key,
         BeginSend(t, d, k) \/ BeginReconcile(t, d, k)
  PROVE  IInv'
<1> DEFINE th(pc) == [IdleThread EXCEPT !.pc = pc, !.doc = d, !.key = k, !.seen = docs[d]]
<1>1. PICK pc \in {"send", "reconcile"} : Looks(t, th(pc))
  BY DEF BeginSend, BeginReconcile, Looks
<1>2. docs[d] \in {"approved", "exported"}
  BY DEF IInv, TypeOK
<1>3. th(pc) \in ThreadRow /\ th(pc).pc \notin Holding
  BY <1>2, RowsOK DEF IdleThread, ThreadRow, Holding
<1>4. CopyOK(th(pc))
  BY DEF CopyOK, IdleThread, NoRow, HasCopy, Compared, HasHeard
<1>5. QED
  BY <1>1, <1>3, <1>4, LookingKeeps

\* An operator reads the row, and may say anything.
LEMMA BeginConfirmKeeps ==
  ASSUME IInv, NEW t \in Thread, NEW k \in Key, BeginConfirm(t, k)
  PROVE  IInv'
<1>1. PICK answer \in {"created", "missing"} :
        threads' = [threads EXCEPT ![t] =
          [IdleThread EXCEPT !.pc = "confirm_read", !.key = k, !.copy = deliveries[k],
                             !.answer = answer]]
  BY DEF BeginConfirm
<1> DEFINE th == [IdleThread EXCEPT !.pc = "confirm_read", !.key = k, !.copy = deliveries[k],
                                    !.answer = answer]
<1>2. Looks(t, th) /\ Settled(k) /\ deliveries[k].status # "succeeded"
  BY <1>1 DEF BeginConfirm, Looks, Settled
<1>3. deliveries[k] \in Row
  BY DEF IInv, TypeOK
<1>4. th \in ThreadRow /\ th.pc \notin Holding
  BY <1>3, RowsOK DEF IdleThread, ThreadRow, Holding
<1>5. th.pc = "confirm_read" /\ th.key = k /\ th.copy = deliveries[k]
  BY DEF IdleThread
<1> HIDE DEF th
<1>6. CopyOK(th)
  BY <1>2, <1>5 DEF CopyOK, Settled, HasCopy, Compared, HasHeard
<1>7. QED
  BY <1>2, <1>4, <1>6, LookingKeeps

\* A copy of the current row is a right copy.
LEMMA ReadDeliveryKeeps ==
  ASSUME IInv, NEW t \in Thread, ReadDelivery(t)
  PROVE  IInv'
<1> DEFINE row == deliveries[threads[t].key]
           th == [threads[t] EXCEPT !.pc = "payload", !.copy = row]
<1>1. CopyOK(threads[t]) /\ threads[t].pc = "send" /\ threads[t] \in ThreadRow
  BY ThreadFacts DEF IInv, CopyInv, ReadDelivery, At
<1>2. threads[t].key \in Key /\ threads[t].doc \in Doc
  BY <1>1 DEF CopyOK
<1>3. row \in Row /\ (row.status = "succeeded" => row.doc \in Attested(threads[t].key))
  BY <1>2 DEF IInv, TypeOK, SuccessIsAttested
<1>4. CASE Finish(t)
  BY <1>4, FinishKeeps DEF ReadDelivery
<1>5. CASE ~Finish(t)
  <2>1. Looks(t, th)
    BY <1>5 DEF ReadDelivery, Looks
  <2>2. th \in ThreadRow /\ th.pc = "payload" /\ th.copy = row
        /\ th.key = threads[t].key /\ th.doc = threads[t].doc
    BY <1>1, <1>3 DEF ThreadRow
  <2>3. CopyOK(th) /\ th.pc \notin Holding
    BY <1>2, <1>3, <2>2 DEF CopyOK, HasCopy, Compared, HasHeard, Holding, Settled
  <2>4. QED
    BY <2>1, <2>2, <2>3, LookingKeeps
<1>6. QED
  BY <1>4, <1>5

LEMMA ReadUnsettledKeeps ==
  ASSUME IInv, NEW t \in Thread, ReadUnsettled(t)
  PROVE  IInv'
<1> DEFINE row == deliveries[threads[t].key]
           th == [threads[t] EXCEPT !.pc = "compare", !.copy = row]
<1>1. CopyOK(threads[t]) /\ threads[t].pc = "reconcile" /\ threads[t] \in ThreadRow
  BY ThreadFacts DEF IInv, CopyInv, ReadUnsettled, At
<1>2. threads[t].key \in Key /\ threads[t].doc \in Doc
  BY <1>1 DEF CopyOK
<1>3. row \in Row
  BY <1>2 DEF IInv, TypeOK
<1>4. CASE Finish(t)
  BY <1>4, FinishKeeps DEF ReadUnsettled
<1>5. CASE ~Finish(t)
  <2>1. Looks(t, th) /\ row.status \notin {"none", "succeeded"} /\ row.doc = threads[t].doc
    BY <1>5 DEF ReadUnsettled, Looks
  <2>2. th \in ThreadRow /\ th.pc = "compare" /\ th.copy = row
        /\ th.key = threads[t].key /\ th.doc = threads[t].doc
    BY <1>1, <1>3 DEF ThreadRow
  <2>3. CopyOK(th) /\ th.pc \notin Holding
    BY <1>2, <2>1, <2>2 DEF CopyOK, HasCopy, Compared, HasHeard, Holding, Settled
  <2>4. QED
    BY <2>1, <2>2, <2>3, LookingKeeps
<1>6. QED
  BY <1>4, <1>5

\* The payload is read, for the first time or again.
LEMMA ReadPayloadKeeps ==
  ASSUME IInv, NEW t \in Thread, ReadPayload(t)
  PROVE  IInv'
<1> DEFINE pc == IF threads[t].copy.status = "none" THEN "reserve" ELSE "existing"
           th == [threads[t] EXCEPT !.payload = payload[threads[t].doc], !.pc = pc]
<1>1. CopyOK(threads[t]) /\ threads[t].pc = "payload" /\ threads[t] \in ThreadRow
  BY ThreadFacts DEF IInv, CopyInv, ReadPayload, At
<1>2. payload[threads[t].doc] \in Payload
  BY <1>1 DEF CopyOK, IInv, TypeOK
<1>3. CASE Finish(t)
  BY <1>3, FinishKeeps DEF ReadPayload
<1>4. CASE ~Finish(t)
  <2>1. Looks(t, th)
    BY <1>4 DEF ReadPayload, Looks
  <2>2. th \in ThreadRow /\ th.pc = pc /\ th.copy = threads[t].copy
        /\ th.key = threads[t].key /\ th.doc = threads[t].doc
    BY <1>1, <1>2 DEF ThreadRow
  <2>3. CopyOK(th) /\ th.pc \notin Holding
    BY <1>1, <2>2 DEF CopyOK, HasCopy, Compared, HasHeard, Holding
  <2>4. QED
    BY <2>1, <2>2, <2>3, LookingKeeps
<1>5. QED
  BY <1>3, <1>4

LEMMA RereadPayloadKeeps ==
  ASSUME IInv, NEW t \in Thread, RereadPayload(t)
  PROVE  IInv'
<1> DEFINE th == [threads[t] EXCEPT !.pc = "post", !.payload = payload[threads[t].doc]]
<1>1. CopyOK(threads[t]) /\ threads[t].pc = "claimed" /\ threads[t] \in ThreadRow
  BY ThreadFacts DEF IInv, CopyInv, RereadPayload, At
<1>2. payload[threads[t].doc] \in Payload
  BY <1>1 DEF CopyOK, IInv, TypeOK
<1>3. CASE Finish(t)
  BY <1>3, FinishKeeps DEF RereadPayload
<1>4. CASE ~Finish(t)
  <2>1. Looks(t, th)
    BY <1>4 DEF RereadPayload, Looks
  <2>2. th \in ThreadRow /\ th.pc = "post" /\ th.copy = threads[t].copy
        /\ th.key = threads[t].key /\ th.doc = threads[t].doc
    BY <1>1, <1>2 DEF ThreadRow
  <2>3. CopyOK(th)
    BY <1>1, <2>2 DEF CopyOK, HasCopy, Compared, HasHeard
  <2>4. QED
    BY <1>1, <2>1, <2>2, <2>3, LookingKeeps
<1>5. QED
  BY <1>3, <1>4

LEMMA TimeoutKeeps ==
  ASSUME IInv, NEW t \in Thread, Timeout(t)
  PROVE  IInv'
<1> DEFINE th == [threads[t] EXCEPT !.pc = "answered", !.answer = "unknown"]
<1>1. CopyOK(threads[t]) /\ threads[t].pc = "waiting" /\ threads[t] \in ThreadRow
  BY ThreadFacts DEF IInv, CopyInv, Timeout, At
<1>2. Looks(t, th)
  BY DEF Timeout, Looks
<1>3. th \in ThreadRow /\ th.pc = "answered" /\ th.answer = "unknown" /\ th.copy = threads[t].copy
      /\ th.key = threads[t].key /\ th.doc = threads[t].doc
  BY <1>1 DEF ThreadRow
<1>4. CopyOK(th)
  BY <1>1, <1>3 DEF CopyOK, HasCopy, Compared, HasHeard
<1>5. QED
  BY <1>1, <1>2, <1>3, <1>4, LookingKeeps

LEMMA ComparePayloadKeeps ==
  ASSUME IInv, NEW t \in Thread, ComparePayload(t)
  PROVE  IInv'
<1> DEFINE th == [threads[t] EXCEPT !.pc = "lookup"]
<1>1. CopyOK(threads[t]) /\ threads[t].pc = "compare" /\ threads[t] \in ThreadRow
  BY ThreadFacts DEF IInv, CopyInv, ComparePayload, At
<1>2. CASE Finish(t)
  BY <1>2, FinishKeeps DEF ComparePayload
<1>3. CASE ~Finish(t)
  <2>1. Looks(t, th)
    BY <1>3 DEF ComparePayload, Goto, Looks
  <2>2. th \in ThreadRow /\ th.pc = "lookup" /\ th.copy = threads[t].copy
        /\ th.key = threads[t].key /\ th.doc = threads[t].doc
    BY <1>1 DEF ThreadRow
  <2>3. CopyOK(th) /\ th.pc \notin Holding
    BY <1>1, <2>2 DEF CopyOK, HasCopy, Compared, HasHeard, Holding
  <2>4. QED
    BY <2>1, <2>2, <2>3, LookingKeeps
<1>4. QED
  BY <1>2, <1>3

\* A draft that is found is the draft of the copy's document.
LEMMA LookUpKeeps ==
  ASSUME IInv, NEW t \in Thread, LookUp(t)
  PROVE  IInv'
<1> DEFINE k == threads[t].key
           answer == IF drafts[k] = {} THEN "missing" ELSE "created"
           th == [threads[t] EXCEPT !.pc = "looked", !.answer = answer]
<1>1. CopyOK(threads[t]) /\ threads[t].pc = "lookup" /\ threads[t] \in ThreadRow
  BY ThreadFacts DEF IInv, CopyInv, LookUp, At
<1>2. CASE Finish(t)
  BY <1>2, FinishKeeps DEF LookUp
<1>3. CASE ~Finish(t)
  <2>1. Looks(t, th)
    BY <1>3 DEF LookUp, Looks
  <2>2. th \in ThreadRow /\ th.pc = "looked" /\ th.answer = answer /\ th.copy = threads[t].copy
        /\ th.key = threads[t].key /\ th.doc = threads[t].doc
    BY <1>1 DEF ThreadRow
  <2>3. threads[t].copy.status # "none" /\ k \in Key /\ threads[t].copy.doc = deliveries[k].doc
    BY <1>1 DEF CopyOK, HasCopy
  <2>4. answer = "created" => threads[t].copy.doc \in Attested(k)
    BY <2>3 DEF IInv, DocsInv, Attested
  <2>5. CopyOK(th) /\ th.pc \notin Holding
    BY <1>1, <2>2, <2>4 DEF CopyOK, HasCopy, Compared, HasHeard, Holding
  <2>6. QED
    BY <2>1, <2>2, <2>5, LookingKeeps
<1>4. QED
  BY <1>2, <1>3

LEMMA ReadConfirmedKeeps ==
  ASSUME IInv, NEW t \in Thread, ReadConfirmed(t)
  PROVE  IInv'
<1> DEFINE d == threads[t].copy.doc
           th == [threads[t] EXCEPT !.pc = "confirm", !.doc = d, !.seen = docs[d]]
<1>1. CopyOK(threads[t]) /\ threads[t].pc = "confirm_read" /\ threads[t] \in ThreadRow
  BY ThreadFacts DEF IInv, CopyInv, ReadConfirmed, At
<1>2. d \in Doc
  BY <1>1 DEF CopyOK, HasCopy, IInv, DocsInv
<1>3. CASE Finish(t)
  BY <1>3, FinishKeeps DEF ReadConfirmed
<1>4. CASE ~Finish(t)
  <2>1. Looks(t, th)
    BY <1>4 DEF ReadConfirmed, Looks
  <2>2. docs[d] \in {"approved", "exported"}
    BY <1>2 DEF IInv, TypeOK
  <2>3. th \in ThreadRow /\ th.pc = "confirm" /\ th.copy = threads[t].copy
        /\ th.key = threads[t].key /\ th.doc = d /\ th.answer = threads[t].answer
    BY <1>1, <1>2, <2>2 DEF ThreadRow
  <2>4. CopyOK(th) /\ th.pc \notin Holding
    BY <1>1, <1>2, <2>3 DEF CopyOK, HasCopy, Compared, HasHeard, Holding
  <2>5. QED
    BY <2>1, <2>3, <2>4, LookingKeeps
<1>5. QED
  BY <1>3, <1>4

-----------------------------------------------------------------------------
(* Steps that write a row.                                                   *)

\* A delivery that a thread takes while nobody else holds it.
LEMMA TakenKey ==
  ASSUME TypeOK, NEW t \in Thread, NEW th \in ThreadRow, NEW k \in Key,
         threads' = [threads EXCEPT ![t] = th],
         th.key = k, th.pc \in {"claimed", "post"}, th.copy = deliveries'[k],
         \A u \in Thread : u # t => ~Holds(u, k),
         deliveries'[k].status = "pending", Unanswered(k)' = {},
         posts'[k] \in Nat, deliveries'[k].attempts \in Nat, posts'[k] < deliveries'[k].attempts
  PROVE  KeyOK(k)'
<1>1. threads'[t] = th /\ \A u \in Thread : u # t => threads'[u] = threads[u]
  BY ThreadFacts
<1>2. \A u \in Thread : Holds(u, k)' => u = t
  BY <1>1 DEF Holds
<1>3. \A u \in Thread : Claims(u, k)' => u = t
  BY <1>2 DEF Holds, Claims
<1>4. QED
  BY <1>1, <1>2, <1>3 DEF KeyOK

\* A delivery that its holder lets go.
LEMMA ReleasedKey ==
  ASSUME TypeOK, NEW t \in Thread, NEW k \in Key, Finish(t),
         \A u \in Thread : u # t => ~Holds(u, k),
         posts'[k] <= deliveries'[k].attempts,
         \A q, r \in Unanswered(k)' : q = r,
         Unanswered(k)' # {} => deliveries'[k].status \in {"pending", "unknown"}
  PROVE  KeyOK(k)'
<1>1. threads'[t] = IdleThread /\ \A u \in Thread : u # t => threads'[u] = threads[u]
  BY ThreadFacts DEF Finish
<1>2. \A u \in Thread : ~Holds(u, k)'
  BY <1>1 DEF Holds, IdleThread
<1>3. \A u \in Thread : ~Claims(u, k)' /\ ~Heard(u, k)'
  BY <1>2 DEF Holds, Claims, Heard
<1>4. QED
  BY <1>2, <1>3 DEF KeyOK

\* A thread saves a row of the same document.
LEMMA SaveKeeps ==
  ASSUME IInv, NEW t \in Thread, NEW row \in Row, NEW th \in ThreadRow, NEW k \in Key,
         k = threads[t].key, Save(t, row), threads' = [threads EXCEPT ![t] = th],
         UNCHANGED <<provider, others>>,
         row.status # "none", row.doc \in Doc,
         Settled(k) => row.doc = deliveries[k].doc,
         vouched' = vouched \/ \E d \in Doc : vouched' = [vouched EXCEPT ![k] = @ \union {d}],
         row.status = "succeeded" => row.doc \in Attested(k)',
         th.pc \in Holding => th.key = k,
         deliveries' \in [Key -> Row] /\ deliveries'[k] = row => CopyOK(th)',
         docs' = docs \/ \E d \in Attested(k)' : docs' = [docs EXCEPT ![d] = "exported"],
         reconciled \subseteq reconciled', reconciled' \subseteq reconciled \union {k},
         k \notin reconciled' => KeyOK(k)'
  PROVE  IInv'
<1>1. TypeOK /\ DocsInv /\ CopyInv /\ WireInv /\ SuccessIsAttested
  BY DEF IInv
<1>2. wire' = wire /\ drafts' = drafts /\ posts' = posts /\ payload' = payload
      /\ downloaded' = downloaded /\ edits' = edits /\ crashes' = crashes
  BY DEF provider, others, history
<1>3. /\ deliveries' \in [Key -> Row] /\ deliveries'[k] = row
      /\ \A j \in Key : j # k => deliveries'[j] = deliveries[j]
  BY <1>1 DEF Save, TypeOK
<1>4. /\ vouched' \in [Key -> SUBSET Doc] /\ \A j \in Key : vouched[j] \subseteq vouched'[j]
      /\ RowsStay /\ AttestedStay
  <2>1. vouched \in [Key -> SUBSET Doc]
    BY <1>1 DEF TypeOK
  <2>2. vouched' \in [Key -> SUBSET Doc] /\ \A j \in Key : vouched[j] \subseteq vouched'[j]
    BY <2>1
  <2>3. QED
    BY <1>2, <1>3, <2>2 DEF RowsStay, AttestedStay, Attested, Settled
<1>5. CopyOK(th)'
  BY <1>3
<1>6. CopyInv' /\ threads' \in [Thread -> ThreadRow]
  BY <1>1, <1>4, <1>5, CopiesStay
<1>7. docs' \in [Doc -> {"approved", "exported"}]
  BY <1>1 DEF TypeOK
<1>8. TypeOK'
  BY <1>1, <1>2, <1>3, <1>4, <1>6, <1>7 DEF TypeOK, Request
<1>9. DocsInv'
  <2>1. ASSUME NEW j \in Key
        PROVE  /\ Settled(j)' => deliveries'[j].doc \in Doc
               /\ ~Settled(j)' => posts'[j] = 0 /\ drafts'[j] = {}
               /\ drafts'[j] \subseteq {deliveries'[j].doc}
    BY <1>1, <1>2, <1>3 DEF DocsInv, Settled
  <2>2. ASSUME NEW request \in wire'
        PROVE  Settled(request.key)' /\ request.doc = deliveries'[request.key].doc
    BY <1>1, <1>2, <1>4 DEF DocsInv, TypeOK, Request, RowsStay
  <2>3. QED
    BY <2>1, <2>2 DEF DocsInv
<1>10. SuccessIsAttested'
  <2>1. ASSUME NEW j \in Key, deliveries'[j].status = "succeeded"
        PROVE  deliveries'[j].doc \in Attested(j)'
    BY <1>1, <1>3, <1>4, <2>1 DEF SuccessIsAttested, AttestedStay
  <2>2. ASSUME NEW d \in Doc, docs'[d] = "exported", d \notin downloaded'
        PROVE  \E j \in Key : d \in Attested(j)'
    <3>1. docs[d] = "exported" \/ d \in Attested(k)'
      BY <1>1, <2>2 DEF TypeOK
    <3>2. QED
      BY <1>1, <1>2, <1>4, <2>2, <3>1 DEF SuccessIsAttested, AttestedStay
  <2>3. QED
    BY <2>1, <2>2 DEF SuccessIsAttested
<1>11. ASSUME NEW j \in Key \ reconciled' PROVE KeyOK(j)'
  <2>1. CASE j = k
    BY <2>1
  <2>2. CASE j # k
    <3>1. KeyOK(j) /\ Unanswered(j)' = Unanswered(j)
      BY <1>1, <1>2 DEF WireInv, Unanswered
    <3>2. th.key # j \/ th.pc \notin Holding
      BY <2>2
    <3>3. QED
      BY <1>1, <1>2, <1>3, <2>2, <3>1, <3>2, ForeignKey
  <2>3. QED
    BY <2>1, <2>2
<1>12. QED
  BY <1>6, <1>8, <1>9, <1>10, <1>11 DEF IInv, WireInv

\* Whoever holds a delivery that was not reconciled has its row.
LEMMA HolderFacts ==
  ASSUME IInv, NEW t \in Thread, NEW k \in Key \ reconciled, Holds(t, k)
  PROVE  /\ deliveries[k] = threads[t].copy /\ deliveries[k].status = "pending"
         /\ \A u \in Thread : u # t => ~Holds(u, k)
         /\ posts[k] <= deliveries[k].attempts
         /\ \A q, r \in Unanswered(k) : q = r
BY DEF IInv, WireInv, KeyOK

\* A delivery nobody may hold any more, and that has no request on its way.
LEMMA FreeKey ==
  ASSUME IInv, NEW k \in Key \ reconciled, deliveries[k].status \notin {"pending", "unknown"}
  PROVE  /\ \A u \in Thread : ~Holds(u, k)
         /\ Unanswered(k) = {}
         /\ posts[k] <= deliveries[k].attempts
BY DEF IInv, WireInv, KeyOK

LEMMA CountFacts ==
  ASSUME TypeOK, NEW k \in Key
  PROVE  deliveries[k] \in Row /\ deliveries[k].attempts \in Nat /\ posts[k] \in 0..MaxPosts
         /\ posts[k] \in Nat
BY ConstantsAssumption DEF TypeOK, Row

\* A reservation takes a delivery that was never begun.
LEMMA ReserveKeeps ==
  ASSUME IInv, NEW t \in Thread, Reserve(t)
  PROVE  IInv'
<1>1. TypeOK /\ CopyOK(threads[t]) /\ threads[t].pc = "reserve" /\ threads[t] \in ThreadRow
  BY ThreadFacts DEF IInv, CopyInv, Reserve, At
<1>2. PICK k \in Key, d \in Doc : k = threads[t].key /\ d = threads[t].doc
  BY <1>1 DEF CopyOK
<1>3. CASE deliveries[k].status = "none"
  <2>1. PICK new \in Row :
          new = [status |-> "pending", doc |-> d, hash |-> threads[t].payload,
                 retryable |-> FALSE, attempts |-> 1]
    <3>1. threads[t].payload \in Payload /\ 1 \in 0..MaxPosts
      BY <1>1, ThreadFacts, ConstantsAssumption
    <3>2. QED
      BY <3>1 DEF Row
  <2>2. PICK th \in ThreadRow : th = [threads[t] EXCEPT !.pc = "post", !.copy = new]
    BY <1>1 DEF ThreadRow
  <2>3. th.pc = "post" /\ th.copy = new /\ th.key = k /\ th.doc = d
    BY <1>1, <1>2, <2>2 DEF ThreadRow
  <2>4. /\ Save(t, new) /\ threads' = [threads EXCEPT ![t] = th]
        /\ docs' = docs /\ reconciled' = reconciled /\ vouched' = vouched /\ UNCHANGED <<provider, others>>
    BY <1>2, <1>3, <2>1, <2>2 DEF Reserve, history
  <2>5. ~Settled(k) /\ drafts[k] = {} /\ posts[k] = 0
    BY <1>3 DEF Settled, IInv, DocsInv
  <2>6. new.status = "pending" /\ new.doc = d /\ new.attempts = 1
    BY <2>1
  <2>7. ASSUME deliveries'[k] = new PROVE CopyOK(th)'
    BY <2>3, <2>6, <2>7 DEF CopyOK, Settled, HasCopy, Compared, HasHeard
  <2>8. ASSUME k \notin reconciled' PROVE KeyOK(k)'
    <3>1. (\A u \in Thread : ~Holds(u, k)) /\ Unanswered(k) = {}
      BY <1>3, <2>4, <2>8, FreeKey
    <3>2. Unanswered(k)' = {} /\ posts'[k] = 0
      BY <2>4, <2>5, <3>1 DEF Unanswered, provider, history
    <3>3. deliveries'[k] = new
      BY <1>1, <1>2, <2>4 DEF Save, TypeOK
    <3>4. /\ posts'[k] \in Nat /\ deliveries'[k].attempts \in Nat
          /\ posts'[k] < deliveries'[k].attempts
      BY <2>6, <3>2, <3>3
    <3>5. QED
      BY <1>1, <2>3, <2>4, <2>6, <3>1, <3>2, <3>3, <3>4, TakenKey
  <2>9. QED
    BY <1>2, <2>3, <2>4, <2>5, <2>6, <2>7, <2>8, SaveKeeps
<1>4. CASE deliveries[k].status # "none"
  <2> DEFINE old == deliveries[k]
             th == [threads[t] EXCEPT !.pc = "existing", !.copy = old]
  <2>1. Looks(t, th)
    BY <1>2, <1>4 DEF Reserve, Looks
  <2>2. old \in Row
    BY <1>1 DEF TypeOK
  <2>3. th \in ThreadRow /\ th.pc = "existing" /\ th.copy = old /\ th.key = k /\ th.doc = d
    BY <1>1, <1>2, <2>2 DEF ThreadRow
  <2> HIDE DEF th
  <2>4. old.status = "succeeded" => old.doc \in Attested(k)
    BY DEF IInv, SuccessIsAttested
  <2>5. CopyOK(th) /\ th.pc \notin Holding
    BY <1>4, <2>3, <2>4 DEF CopyOK, Settled, HasCopy, Compared, HasHeard, Holding
  <2>6. QED
    BY <2>1, <2>3, <2>5, LookingKeeps
<1>5. QED
  BY <1>3, <1>4

\* A retry takes a delivery whose row says that the last attempt failed.
LEMMA ClaimRetryKeeps ==
  ASSUME IInv, NEW t \in Thread, ClaimRetry(t)
  PROVE  IInv'
<1>1. TypeOK /\ CopyOK(threads[t]) /\ threads[t].pc = "existing" /\ threads[t] \in ThreadRow
  BY ThreadFacts DEF IInv, CopyInv, ClaimRetry, At
<1>2. PICK k \in Key : k = threads[t].key
  BY <1>1 DEF CopyOK
<1> DEFINE old == deliveries[k]
<1>3. threads[t].doc \in Doc /\ Settled(k) /\ threads[t].copy.doc = old.doc
  BY <1>1, <1>2 DEF CopyOK, HasCopy
<1>4. threads[t].doc = old.doc
  BY <1>3 DEF ClaimRetry, MayRetry, SameDelivery
<1>5. CASE ~Retryable(old)
  <2>1. Finish(t) /\ UNCHANGED <<docs, deliveries, provider, history, others>>
    BY <1>2, <1>5 DEF ClaimRetry
  <2>2. QED
    BY <2>1, FinishKeeps
<1>6. CASE Retryable(old)
  <2>1. old \in Row /\ old.attempts \in Nat /\ posts[k] \in Nat
    BY <1>1, CountFacts
  <2>2. old.attempts < MaxPosts /\ old.status = "failed"
    BY <1>2, <1>6 DEF ClaimRetry, Retryable
  <2>3. PICK new \in Row : new = [old EXCEPT !.status = "pending", !.retryable = FALSE, !.attempts = @ + 1]
    <3>1. old.attempts + 1 \in 0..MaxPosts
      BY <2>1, <2>2, ConstantsAssumption
    <3>2. QED
      BY <2>1, <3>1 DEF Row
  <2>4. new.status = "pending" /\ new.doc = old.doc /\ new.attempts = old.attempts + 1
    BY <2>1, <2>3 DEF Row
  <2>5. PICK th \in ThreadRow : th = [threads[t] EXCEPT !.pc = "claimed", !.copy = new]
    BY <1>1 DEF ThreadRow
  <2>6. th.pc = "claimed" /\ th.copy = new /\ th.key = k /\ th.doc = old.doc
    BY <1>1, <1>2, <1>4, <2>5 DEF ThreadRow
  <2>7. /\ Save(t, new) /\ threads' = [threads EXCEPT ![t] = th]
        /\ docs' = docs /\ reconciled' = reconciled /\ vouched' = vouched /\ UNCHANGED <<provider, others>>
    BY <1>2, <1>6, <2>3, <2>5 DEF ClaimRetry, history
  <2>8. ASSUME deliveries'[k] = new PROVE CopyOK(th)'
    BY <1>3, <1>4, <2>4, <2>6, <2>8 DEF CopyOK, Settled, HasCopy, Compared, HasHeard
  <2>9. ASSUME k \notin reconciled' PROVE KeyOK(k)'
    <3>1. (\A u \in Thread : ~Holds(u, k)) /\ Unanswered(k) = {} /\ posts[k] <= old.attempts
      BY <2>2, <2>7, <2>9, FreeKey
    <3>2. Unanswered(k)' = {} /\ posts'[k] = posts[k]
      BY <2>7, <3>1 DEF Unanswered, provider, history
    <3>3. deliveries'[k] = new
      BY <1>1, <1>2, <2>7 DEF Save, TypeOK
    <3>4. posts'[k] < new.attempts /\ new.attempts \in Nat
      BY <2>1, <2>4, <3>1, <3>2
    <3>5. QED
      BY <1>1, <2>1, <2>4, <2>6, <2>7, <3>1, <3>2, <3>3, <3>4, TakenKey
  <2>10. QED
    BY <1>2, <1>3, <1>4, <2>4, <2>6, <2>7, <2>8, <2>9, SaveKeeps
<1>7. QED
  BY <1>5, <1>6

\* A thread records what became of its delivery, and is done.
LEMMA SettleKeeps ==
  ASSUME IInv, NEW t \in Thread, NEW row \in Row, NEW k \in Key,
         k = threads[t].key, Save(t, row), Finish(t), UNCHANGED <<provider, others>>,
         Settled(k), row.status # "none", row.doc = deliveries[k].doc,
         vouched' = vouched \/ \E d \in Doc : vouched' = [vouched EXCEPT ![k] = @ \union {d}],
         row.status = "succeeded" => row.doc \in Attested(k)',
         docs' = docs \/ \E d \in Attested(k)' : docs' = [docs EXCEPT ![d] = "exported"],
         reconciled \subseteq reconciled', reconciled' \subseteq reconciled \union {k},
         k \notin reconciled' => KeyOK(k)'
  PROVE  IInv'
<1>1. PICK th \in ThreadRow : th = IdleThread
  BY RowsOK
<1>2. th.pc = "idle" /\ th.copy.status = "none" /\ threads' = [threads EXCEPT ![t] = th]
  BY <1>1 DEF IdleThread, NoRow, Finish
<1>3. CopyOK(th)' /\ th.pc \notin Holding
  BY <1>2 DEF CopyOK, HasCopy, Compared, HasHeard, Holding
<1>4. row.doc \in Doc
  BY DEF IInv, DocsInv
<1>5. QED
  BY <1>2, <1>3, <1>4, SaveKeeps

\* A document is exported through a draft of its own, or what was said of one.
LEMMA MarkedIsDrafted ==
  ASSUME IInv, NEW t \in Thread, NEW k \in Key, MarkExported(t), threads[t].doc \in Attested(k)'
  PROVE  docs' = docs \/ \E d \in Attested(k)' : docs' = [docs EXCEPT ![d] = "exported"]
BY DEF MarkExported

\* The provider's answer, or its absence, is recorded by the holder.
LEMMA RecordOutcomeKeeps ==
  ASSUME IInv, NEW t \in Thread, RecordOutcome(t)
  PROVE  IInv'
<1> DEFINE old == threads[t].copy
           answer == threads[t].answer
<1>1. /\ TypeOK /\ CopyOK(threads[t]) /\ threads[t].pc = "answered"
      /\ Finish(t) /\ reconciled' = reconciled /\ vouched' = vouched /\ UNCHANGED <<provider, others>>
  BY DEF IInv, CopyInv, RecordOutcome, At, history
<1>2. PICK k \in Key : k = threads[t].key
  BY <1>1 DEF CopyOK
<1>3. /\ Settled(k) /\ old.doc = deliveries[k].doc /\ threads[t].doc = old.doc /\ old \in Row
      /\ answer = "created" => threads[t].doc \in Attested(k)'
  BY <1>1, <1>2, ThreadFacts DEF CopyOK, HasCopy, Compared, HasHeard, Attested, provider
<1>4. PICK row \in Row :
        /\ Save(t, row) /\ row.doc = old.doc /\ row.attempts = old.attempts /\ row.status # "none"
        /\ row.status = "succeeded" => answer = "created"
        /\ answer = "unknown" => row.status = "unknown"
        /\ docs' = docs \/ (answer = "created" /\ MarkExported(t))
  <2>1. CASE answer = "created"
    <3>1. Save(t, Succeeded(old)) /\ MarkExported(t)
      BY <2>1 DEF RecordOutcome
    <3>2. QED
      BY <1>3, <2>1, <3>1 DEF Succeeded, Row
  <2>2. CASE answer = "unknown"
    <3>1. Save(t, [old EXCEPT !.status = "unknown"]) /\ docs' = docs
      BY <2>2 DEF RecordOutcome
    <3>2. QED
      BY <1>3, <2>2, <3>1 DEF Row
  <2>3. CASE answer \in {"busy", "rejected"}
    <3>1. Save(t, Failed(old, answer = "busy")) /\ docs' = docs
      BY <2>3 DEF RecordOutcome
    <3>2. QED
      BY <1>3, <2>3, <3>1 DEF Failed, Row
  <2>4. QED
    BY <2>1, <2>2, <2>3 DEF RecordOutcome
<1>5. ASSUME k \notin reconciled' PROVE KeyOK(k)'
  <2>1. Holds(t, k) /\ k \in Key \ reconciled
    BY <1>1, <1>2, <1>5 DEF Holds
  <2>2. /\ deliveries[k] = old /\ \A u \in Thread : u # t => ~Holds(u, k)
        /\ posts[k] <= deliveries[k].attempts /\ \A q, r \in Unanswered(k) : q = r
    BY <2>1, HolderFacts
  <2>3. Unanswered(k) # {} => answer = "unknown"
    BY <1>1, <1>2, <2>1 DEF IInv, WireInv, KeyOK, Heard
  <2>4. Unanswered(k)' = Unanswered(k) /\ posts'[k] = posts[k]
    BY <1>1 DEF Unanswered, provider, history
  <2>5. deliveries'[k] = row
    BY <1>1, <1>2, <1>4 DEF Save, TypeOK
  <2>6. QED
    BY <1>1, <1>4, <2>2, <2>3, <2>4, <2>5, ReleasedKey
<1>6. row.status = "succeeded" => row.doc \in Attested(k)'
  BY <1>3, <1>4
<1>7. docs' = docs \/ \E d \in Attested(k)' : docs' = [docs EXCEPT ![d] = "exported"]
  BY <1>3, <1>4, MarkedIsDrafted
<1>8. QED
  BY <1>1, <1>2, <1>3, <1>4, <1>5, <1>6, <1>7, SettleKeeps

\* What a lookup or an operator found is written from a copy, and the delivery
\* counts as reconciled.
LEMMA ReconcileKeeps ==
  ASSUME IInv, NEW t \in Thread, RecordLookup(t) \/ CommitConfirm(t)
  PROVE  IInv'
<1> DEFINE old == threads[t].copy
           answer == threads[t].answer
<1>1. /\ CopyOK(threads[t]) /\ threads[t].pc \in {"looked", "confirm"} /\ Finish(t)
      /\ reconciled' = reconciled \union {threads[t].key} /\ UNCHANGED <<provider, others>>
  BY DEF IInv, CopyInv, RecordLookup, CommitConfirm, At
<1>2. PICK k \in Key : k = threads[t].key
  BY <1>1 DEF CopyOK
<1>3. /\ Settled(k) /\ old.doc = deliveries[k].doc /\ threads[t].doc = old.doc /\ old \in Row
  BY <1>1, <1>2, ThreadFacts DEF CopyOK, HasCopy, Compared, IInv
<1>4. PICK row \in Row :
        /\ Save(t, row) /\ row.doc = old.doc /\ row.status # "none"
        /\ row.status = "succeeded" => answer = "created"
        /\ docs' = docs \/ (answer = "created" /\ MarkExported(t))
  <2>1. CASE answer = "created"
    <3>1. Save(t, Succeeded(old)) /\ MarkExported(t)
      BY <2>1 DEF RecordLookup, CommitConfirm
    <3>2. QED
      BY <1>3, <2>1, <3>1 DEF Succeeded, Row
  <2>2. CASE answer # "created"
    <3>1. PICK again \in BOOLEAN : Save(t, Failed(old, again)) /\ docs' = docs
      <4>1. CASE RecordLookup(t)
        <5>1. Save(t, Failed(old, old.attempts < MaxAttempts)) /\ docs' = docs
          BY <2>2, <4>1 DEF RecordLookup
        <5>2. (old.attempts < MaxAttempts) \in BOOLEAN
          OBVIOUS
        <5>3. QED
          BY <5>1, <5>2, Zenon
      <4>2. CASE CommitConfirm(t)
        <5>1. Save(t, Failed(old, TRUE)) /\ docs' = docs
          BY <2>2, <4>2 DEF CommitConfirm
        <5>2. QED
          BY <5>1, Zenon
      <4>3. QED
        BY <4>1, <4>2
    <3>2. QED
      BY <1>3, <2>2, <3>1 DEF Failed, Row
  <2>3. QED
    BY <2>1, <2>2
<1>5. /\ vouched' = vouched \/ \E d \in Doc : vouched' = [vouched EXCEPT ![k] = @ \union {d}]
      /\ answer = "created" => threads[t].doc \in Attested(k)'
  <2>1. CASE RecordLookup(t)
    <3>1. threads[t].pc = "looked" /\ vouched' = vouched /\ drafts' = drafts
      BY <2>1 DEF RecordLookup, At, provider
    <3>2. QED
      BY <1>1, <1>2, <1>3, <3>1 DEF CopyOK, HasHeard, Attested
  <2>2. CASE CommitConfirm(t) /\ answer = "created"
    <3>1. vouched' = [vouched EXCEPT ![k] = @ \union {old.doc}] /\ old.doc \in Doc
      BY <1>2, <1>3, <2>2 DEF CommitConfirm, IInv, DocsInv
    <3>2. old.doc \in Attested(k)'
      BY <3>1 DEF Attested, IInv, TypeOK
    <3>3. QED
      BY <1>3, <3>1, <3>2
  <2>3. CASE CommitConfirm(t) /\ answer # "created"
    BY <2>3 DEF CommitConfirm
  <2>4. QED
    BY <2>1, <2>2, <2>3
<1>6. row.status = "succeeded" => row.doc \in Attested(k)'
  BY <1>3, <1>4, <1>5
<1>7. docs' = docs \/ \E d \in Attested(k)' : docs' = [docs EXCEPT ![d] = "exported"]
  BY <1>4, <1>5, MarkedIsDrafted
<1>8. QED
  BY <1>1, <1>2, <1>3, <1>4, <1>5, <1>6, <1>7, SettleKeeps

LEMMA RefuseExistingKeeps ==
  ASSUME IInv, NEW t \in Thread, RefuseExisting(t)
  PROVE  IInv'
BY FinishKeeps DEF RefuseExisting

\* A replay exports the document of a delivery that once succeeded.
LEMMA ReplayKeeps ==
  ASSUME IInv, NEW t \in Thread, Replay(t)
  PROVE  IInv'
<1>1. /\ TypeOK /\ CopyOK(threads[t]) /\ threads[t].copy.status = "succeeded"
      /\ threads[t].copy.doc = threads[t].doc /\ Finish(t) /\ MarkExported(t)
      /\ UNCHANGED <<deliveries, provider, history, others>>
  BY DEF IInv, CopyInv, Replay, SameDelivery
<1>2. PICK k \in Key : k = threads[t].key
  BY <1>1 DEF CopyOK
<1>3. docs' = docs \/ \E d \in Attested(k)' : docs' = [docs EXCEPT ![d] = "exported"]
  <2>1. threads[t].doc \in Attested(k)'
    BY <1>1, <1>2 DEF CopyOK, Attested, provider, history
  <2>2. QED
    BY <1>1, <2>1, MarkedIsDrafted
<1>4. threads' = [threads EXCEPT ![t] = IdleThread] /\ IdleThread.pc = "idle"
  BY <1>1 DEF Finish, IdleThread
<1>5. /\ deliveries' = deliveries /\ wire' = wire /\ drafts' = drafts /\ posts' = posts
      /\ reconciled' = reconciled /\ vouched' = vouched /\ payload' = payload /\ downloaded' = downloaded
      /\ edits' = edits /\ crashes' = crashes
  BY <1>1 DEF provider, others, history
<1>6. RowsStay /\ AttestedStay /\ CopyOK(IdleThread)'
  BY <1>5 DEF RowsStay, AttestedStay, Attested, Settled, CopyOK, IdleThread, NoRow, HasCopy, Compared, HasHeard
<1>7. CopyInv' /\ threads' \in [Thread -> ThreadRow]
  BY <1>1, <1>4, <1>6, RowsOK, CopiesStay DEF IInv
<1>8. TypeOK'
  BY <1>1, <1>3, <1>5, <1>7 DEF TypeOK, Request
<1>9. DocsInv'
  BY <1>5 DEF IInv, DocsInv, Settled
<1>10. SuccessIsAttested'
  <2>1. ASSUME NEW d \in Doc, docs'[d] = "exported", d \notin downloaded'
        PROVE  \E j \in Key : d \in Attested(j)'
    <3>1. docs[d] = "exported" \/ d \in Attested(k)'
      BY <1>1, <1>3, <2>1 DEF TypeOK
    <3>2. QED
      BY <1>5, <2>1, <3>1 DEF IInv, SuccessIsAttested, Attested
  <2>2. QED
    BY <1>5, <2>1 DEF IInv, SuccessIsAttested, Attested
<1>11. ASSUME NEW j \in Key \ reconciled' PROVE KeyOK(j)'
  <2>1. KeyOK(j) /\ Unanswered(j)' = Unanswered(j) /\ IdleThread.pc \notin Holding
    BY <1>4, <1>5 DEF IInv, WireInv, Unanswered, Holding
  <2>2. QED
    BY <1>1, <1>4, <1>5, <2>1, RowsOK, ForeignKey
<1>12. QED
  BY <1>7, <1>8, <1>9, <1>10, <1>11 DEF IInv, WireInv

-----------------------------------------------------------------------------
(* Requests on the wire.                                                     *)

\* A request goes out under a delivery that its thread holds.
LEMMA PostKeeps ==
  ASSUME IInv, NEW t \in Thread, Post(t)
  PROVE  IInv'
<1>1. TypeOK /\ CopyOK(threads[t]) /\ threads[t].pc = "post" /\ threads[t] \in ThreadRow
  BY ThreadFacts DEF IInv, CopyInv, Post, At
<1>2. PICK k \in Key, d \in Doc : k = threads[t].key /\ d = threads[t].doc
  BY <1>1 DEF CopyOK
<1>3. Settled(k) /\ d = deliveries[k].doc
  BY <1>1, <1>2 DEF CopyOK, HasCopy, Compared
<1>4. PICK request \in Request :
        request.key = k /\ request.doc = d /\ wire' = wire \union {request}
  <2>1. posts[k] + 1 \in 1..MaxPosts
    BY <1>1, <1>2, CountFacts, ConstantsAssumption DEF Post
  <2>2. wire' = wire \union {[key |-> k, doc |-> d, by |-> t, number |-> posts[k] + 1]}
    BY <1>2 DEF Post
  <2>3. QED
    BY <2>1, <2>2 DEF Request
<1>5. /\ posts[k] < MaxPosts /\ posts' = [posts EXCEPT ![k] = @ + 1]
      /\ docs' = docs /\ deliveries' = deliveries /\ drafts' = drafts /\ reconciled' = reconciled /\ vouched' = vouched
      /\ payload' = payload /\ downloaded' = downloaded /\ edits' = edits /\ crashes' = crashes
  BY <1>2 DEF Post, others, history
<1>6. PICK th \in ThreadRow : th = [threads[t] EXCEPT !.pc = "waiting"]
  BY <1>1 DEF ThreadRow
<1>7. /\ threads' = [threads EXCEPT ![t] = th] /\ th.pc = "waiting"
      /\ th.key = k /\ th.doc = d /\ th.copy = threads[t].copy /\ th.answer = threads[t].answer
  BY <1>1, <1>2, <1>6 DEF Post, Goto, ThreadRow
<1>8. RowsStay /\ AttestedStay
  BY <1>5 DEF RowsStay, AttestedStay, Attested, Settled
<1>9. CopyOK(th)'
  BY <1>1, <1>2, <1>5, <1>7 DEF CopyOK, Attested, Settled, HasCopy, Compared, HasHeard
<1>10. CopyInv' /\ threads' \in [Thread -> ThreadRow]
  BY <1>1, <1>7, <1>8, <1>9, CopiesStay DEF IInv
<1>11. posts' \in [Key -> 0..MaxPosts] /\ posts'[k] = posts[k] + 1
       /\ \A j \in Key : j # k => posts'[j] = posts[j]
  <2>1. posts \in [Key -> 0..MaxPosts] /\ posts[k] + 1 \in 0..MaxPosts
    BY <1>1, <1>5, ConstantsAssumption DEF TypeOK
  <2>2. QED
    BY <1>5, <2>1
<1>12. TypeOK'
  BY <1>1, <1>4, <1>5, <1>10, <1>11 DEF TypeOK, Request
<1>13. DocsInv'
  BY <1>3, <1>4, <1>5, <1>11 DEF IInv, DocsInv, Settled
<1>14. SuccessIsAttested'
  BY <1>5 DEF IInv, SuccessIsAttested, Attested
<1>15. ASSUME NEW j \in Key \ reconciled' PROVE KeyOK(j)'
  <2>1. CASE j # k
    <3>1. KeyOK(j) /\ Unanswered(j)' = Unanswered(j)
      BY <1>4, <1>5, <2>1 DEF IInv, WireInv, Unanswered
    <3>2. QED
      BY <1>1, <1>5, <1>7, <1>11, <2>1, <3>1, ForeignKey
  <2>2. CASE j = k
    <3>1. KeyOK(k) /\ Holds(t, k) /\ Claims(t, k)
      BY <1>1, <1>2, <1>5, <2>2 DEF IInv, WireInv, Holds, Claims
    <3>2. /\ deliveries[k] = threads[t].copy /\ deliveries[k].status = "pending"
          /\ (\A u \in Thread : Holds(u, k) => u = t)
          /\ Unanswered(k) = {} /\ posts[k] < deliveries[k].attempts
      BY <3>1 DEF KeyOK
    <3>3. threads'[t] = th /\ \A u \in Thread : u # t => threads'[u] = threads[u]
      BY <1>7, ThreadFacts, <1>1
    <3>4. \A u \in Thread : Holds(u, k)' => u = t
      BY <3>2, <3>3 DEF Holds
    <3>5. \A u \in Thread : ~Claims(u, k)' /\ ~Heard(u, k)'
      BY <1>7, <3>3, <3>4 DEF Holds, Claims, Heard
    <3>6. Unanswered(k)' = {request}
      BY <1>4, <3>2 DEF Unanswered
    <3>7. posts'[k] <= deliveries'[k].attempts
      BY <1>1, <1>5, <1>11, <3>2, CountFacts
    <3>8. KeyOK(k)'
      BY <1>5, <1>7, <3>2, <3>3, <3>4, <3>5, <3>6, <3>7 DEF KeyOK
    <3>9. QED
      BY <2>2, <3>8
  <2>3. QED
    BY <2>1, <2>2
<1>16. QED
  BY <1>10, <1>12, <1>13, <1>14, <1>15 DEF IInv, WireInv

\* A request that reached the provider, or was lost, is off the wire; the thread
\* that waits for it may hear of it.  An answer that names a draft is true.
LEMMA AnswerKeeps ==
  ASSUME IInv, NEW request \in wire, NEW answers, Answer(request, answers),
         answers \subseteq {"created", "busy", "rejected", "unknown"},
         wire' = wire \ {request}, AttestedStay, drafts' \in [Key -> SUBSET Doc],
         \A k \in Key : drafts'[k] \subseteq drafts[k] \union (IF k = request.key THEN {request.doc} ELSE {}),
         "created" \in answers => request.doc \in drafts'[request.key],
         UNCHANGED <<docs, deliveries, posts, history, others>>
  PROVE  IInv'
<1>1. TypeOK /\ DocsInv /\ CopyInv /\ WireInv /\ SuccessIsAttested
  BY DEF IInv
<1>2. PICK k \in Key, by \in Thread, d \in Doc :
        k = request.key /\ by = request.by /\ d = request.doc
  BY <1>1 DEF TypeOK, Request
<1>3. Settled(k) /\ d = deliveries[k].doc
  BY <1>1, <1>2 DEF DocsInv
<1>4. /\ docs' = docs /\ deliveries' = deliveries /\ posts' = posts /\ reconciled' = reconciled /\ vouched' = vouched
      /\ payload' = payload /\ downloaded' = downloaded /\ edits' = edits /\ crashes' = crashes
  BY DEF others, history
<1>5. RowsStay
  BY <1>4 DEF RowsStay, Settled
<1>6. PICK th \in ThreadRow :
        /\ threads' = [threads EXCEPT ![by] = th]
        /\ \/ th = threads[by]
           \/ /\ threads[by].pc = "waiting" /\ threads[by].key = k
              /\ th.pc = "answered" /\ th.key = k /\ th.doc = threads[by].doc
              /\ th.copy = threads[by].copy /\ th.answer \in answers
  <2>1. threads \in [Thread -> ThreadRow] /\ threads[by] \in ThreadRow
    BY <1>1, ThreadFacts
  <2>2. CASE threads' = threads
    BY <2>1, <2>2
  <2>3. CASE threads' # threads
    <3>1. PICK answer \in answers :
            /\ threads[by].pc = "waiting" /\ threads[by].key = k
            /\ threads' = [threads EXCEPT ![by].pc = "answered", ![by].answer = answer]
      BY <1>2, <2>3 DEF Answer, At
    <3>2. answer \in {"created", "busy", "rejected", "unknown"}
      OBVIOUS
    <3>3. PICK new \in ThreadRow : new = [threads[by] EXCEPT !.pc = "answered", !.answer = answer]
      BY <2>1, <3>2 DEF ThreadRow
    <3>4. threads' = [threads EXCEPT ![by] = new]
      BY <2>1, <3>1, <3>3
    <3>5. new.pc = "answered" /\ new.key = k /\ new.doc = threads[by].doc
          /\ new.copy = threads[by].copy /\ new.answer \in answers
      BY <2>1, <3>1, <3>3 DEF ThreadRow
    <3>6. QED
      BY <3>1, <3>4, <3>5
  <2>4. QED
    BY <2>2, <2>3
<1>7. CopyOK(threads[by])
  BY <1>1 DEF CopyInv
<1>8. CopyOK(th)'
  <2>1. CASE th = threads[by]
    <3>1. threads'[by] = threads[by] /\ threads'[by] = th
      BY <1>1, <1>6, <2>1, ThreadFacts
    <3>2. CopyOK(threads[by])'
      BY <1>1, <1>5, <1>7, <3>1, CopyStays
    <3>3. QED
      BY <3>1, <3>2 DEF CopyOK, Settled
  <2>2. CASE th # threads[by]
    <3>1. th.copy.status # "none" /\ th.copy.doc = deliveries[k].doc /\ th.doc = th.copy.doc
          /\ th.doc \in Doc /\ (th.copy.status = "succeeded" => th.copy.doc \in Attested(k))
      BY <1>6, <1>7, <2>2 DEF CopyOK, HasCopy, Compared
    <3>2. th.answer = "created" => th.copy.doc \in Attested(k)'
      BY <1>2, <1>3, <1>6, <2>2, <3>1 DEF Attested
    <3>3. th.key = k /\ th.pc = "answered" /\ Attested(k) \subseteq Attested(k)'
      BY <1>6, <2>2 DEF AttestedStay
    <3>4. QED
      BY <1>3, <1>4, <3>1, <3>2, <3>3 DEF CopyOK, Settled, HasCopy, Compared, HasHeard
  <2>3. QED
    BY <2>1, <2>2
<1>9. CopyInv' /\ threads' \in [Thread -> ThreadRow]
  BY <1>1, <1>5, <1>6, <1>8, CopiesStay
<1>10. TypeOK'
  BY <1>1, <1>4, <1>9 DEF TypeOK, Request
<1>11. DocsInv'
  <2>1. ASSUME NEW j \in Key
        PROVE  /\ Settled(j)' => deliveries'[j].doc \in Doc
               /\ ~Settled(j)' => posts'[j] = 0 /\ drafts'[j] = {}
               /\ drafts'[j] \subseteq {deliveries'[j].doc}
    <3>1. CASE j = k
      BY <1>1, <1>2, <1>3, <1>4, <3>1 DEF DocsInv, Settled
    <3>2. CASE j # k
      BY <1>1, <1>2, <1>4, <3>2 DEF DocsInv, Settled
    <3>3. QED
      BY <3>1, <3>2
  <2>2. QED
    BY <1>1, <1>4, <2>1 DEF DocsInv, Settled
<1>12. SuccessIsAttested'
  BY <1>1, <1>4 DEF SuccessIsAttested, AttestedStay
<1>13. ASSUME NEW j \in Key \ reconciled' PROVE KeyOK(j)'
  <2>1. KeyOK(j) /\ Unanswered(j)' \subseteq Unanswered(j)
    BY <1>1, <1>4 DEF WireInv, Unanswered
  <2>2. threads'[by] = th /\ \A u \in Thread : u # by => threads'[u] = threads[u]
    BY <1>1, <1>6, ThreadFacts
  <2>3. j = k => Unanswered(j)' = {}
    <3>1. ASSUME j = k PROVE Unanswered(j)' = {}
      <4>1. request \in Unanswered(j) /\ \A q \in Unanswered(j) : q = request
        BY <1>2, <2>1, <3>1 DEF KeyOK, Unanswered
      <4>2. QED
        BY <4>1 DEF Unanswered
    <3>2. QED
      BY <3>1
  <2>4. ASSUME NEW u \in Thread
        PROVE  /\ Holds(u, j)' => Holds(u, j) /\ threads'[u].copy = threads[u].copy
               /\ Claims(u, j)' => Claims(u, j)
               /\ Heard(u, j)' => Heard(u, j) \/ Unanswered(j)' = {}
    <3>1. CASE u # by \/ th = threads[by]
      <4>1. threads'[u] = threads[u]
        BY <2>2, <3>1
      <4>2. QED
        BY <4>1 DEF Holds, Claims, Heard
    <3>2. CASE u = by /\ th # threads[by]
      <4>1. threads'[u].pc = "answered" /\ threads'[u].key = k /\ threads'[u].copy = threads[u].copy
            /\ threads[u].pc = "waiting" /\ threads[u].key = k
        BY <1>6, <2>2, <3>2
      <4>2. QED
        BY <2>3, <4>1 DEF Holds, Claims, Heard
    <3>3. QED
      BY <3>1, <3>2
  <2>5. QED
    BY <1>4, <2>1, <2>4, KeyStays
<1>14. QED
  BY <1>9, <1>10, <1>11, <1>12, <1>13 DEF IInv, WireInv

LEMMA AcceptKeeps ==
  ASSUME IInv, NEW request \in wire, Accept(request)
  PROVE  IInv'
<1>1. TypeOK /\ DocsInv /\ request \in Request
  BY DEF IInv, TypeOK
<1>2. PICK k \in Key, d \in Doc : k = request.key /\ d = request.doc
  BY <1>1 DEF Request
<1>3. drafts[k] \subseteq {d}
  BY <1>1, <1>2 DEF DocsInv
<1>4. /\ drafts' = [drafts EXCEPT ![k] = IF @ = {} THEN {d} ELSE @]
      /\ drafts \in [Key -> SUBSET Doc]
  BY <1>1, <1>2 DEF Accept, TypeOK
<1>5. drafts'[k] = {d} /\ \A j \in Key : j # k => drafts'[j] = drafts[j]
  BY <1>2, <1>3, <1>4
<1>6. drafts' \in [Key -> SUBSET Doc]
  BY <1>2, <1>4
<1>7. AttestedStay
  BY <1>3, <1>5 DEF AttestedStay, Attested, Accept, history
<1>8. \A j \in Key : drafts'[j] \subseteq drafts[j] \union (IF j = request.key THEN {request.doc} ELSE {})
  BY <1>2, <1>5
<1>9. request.doc \in drafts'[request.key]
  BY <1>2, <1>5
<1>10. /\ Answer(request, {"created", "unknown", "rejected"}) /\ wire' = wire \ {request}
       /\ UNCHANGED <<docs, deliveries, posts, history, others>>
  BY DEF Accept
<1>11. {"created", "unknown", "rejected"} \subseteq {"created", "busy", "rejected", "unknown"}
  OBVIOUS
<1>12. QED
  BY <1>6, <1>7, <1>8, <1>9, <1>10, <1>11, AnswerKeeps

LEMMA DeclineKeeps ==
  ASSUME IInv, NEW request \in wire, Decline(request)
  PROVE  IInv'
<1>1. /\ Answer(request, {"busy", "rejected", "unknown"}) /\ wire' = wire \ {request}
      /\ UNCHANGED <<docs, deliveries, posts, history, others>> /\ drafts' = drafts
  BY DEF Decline
<1>2. AttestedStay /\ drafts' \in [Key -> SUBSET Doc]
  BY <1>1 DEF AttestedStay, Attested, history, IInv, TypeOK
<1>3. \A j \in Key : drafts'[j] \subseteq drafts[j] \union (IF j = request.key THEN {request.doc} ELSE {})
  BY <1>1
<1>4. /\ {"busy", "rejected", "unknown"} \subseteq {"created", "busy", "rejected", "unknown"}
      /\ "created" \notin {"busy", "rejected", "unknown"}
  OBVIOUS
<1>5. QED
  BY <1>1, <1>2, <1>3, <1>4, AnswerKeeps

-----------------------------------------------------------------------------
(* The rest of the system, and crashes.                                      *)

\* Nothing that the deliveries depend on changes.
LEMMA OutsideKeeps ==
  ASSUME IInv, TypeOK', SuccessIsAttested',
         UNCHANGED <<deliveries, threads, provider, history>>
  PROVE  IInv'
<1>1. /\ deliveries' = deliveries /\ threads' = threads /\ wire' = wire /\ drafts' = drafts
      /\ posts' = posts /\ reconciled' = reconciled /\ vouched' = vouched
  BY DEF provider, history
<1>2. DocsInv'
  BY <1>1 DEF IInv, DocsInv, Settled
<1>3. CopyInv'
  BY <1>1 DEF IInv, CopyInv, CopyOK, Attested, Settled
<1>4. ASSUME NEW k \in Key \ reconciled' PROVE KeyOK(k)'
  <2>1. KeyOK(k) /\ Unanswered(k)' = Unanswered(k)
    BY <1>1 DEF IInv, WireInv, Unanswered
  <2>2. \A t \in Thread : /\ Holds(t, k)' => Holds(t, k) /\ threads'[t].copy = threads[t].copy
                          /\ Claims(t, k)' => Claims(t, k)
                          /\ Heard(t, k)' => Heard(t, k) \/ Unanswered(k)' = {}
    BY <1>1 DEF Holds, Claims, Heard
  <2>3. QED
    BY <1>1, <2>1, <2>2, KeyStays
<1>5. QED
  BY <1>2, <1>3, <1>4 DEF IInv, WireInv

LEMMA EditKeeps ==
  ASSUME IInv, NEW d \in Doc, EditApproved(d)
  PROVE  IInv'
<1>1. /\ docs' = docs /\ deliveries' = deliveries /\ threads' = threads /\ wire' = wire
      /\ drafts' = drafts /\ posts' = posts /\ reconciled' = reconciled /\ vouched' = vouched
      /\ downloaded' = downloaded /\ crashes' = crashes
      /\ edits < MaxEdits /\ edits' = edits + 1 /\ edits \in 0..MaxEdits
  BY DEF EditApproved, provider, history, IInv, TypeOK
<1>2. payload' \in [Doc -> Payload]
  BY DEF EditApproved, IInv, TypeOK
<1>3. edits' \in 0..MaxEdits
  BY <1>1, ConstantsAssumption
<1>4. TypeOK'
  BY <1>1, <1>2, <1>3 DEF IInv, TypeOK, Request
<1>5. SuccessIsAttested'
  BY <1>1 DEF IInv, SuccessIsAttested, Attested
<1>6. QED
  BY <1>1, <1>4, <1>5, OutsideKeeps DEF provider, history

LEMMA DownloadKeeps ==
  ASSUME IInv, NEW d \in Doc, DownloadApproved(d)
  PROVE  IInv'
<1>1. /\ docs' = [docs EXCEPT ![d] = "exported"] /\ downloaded' = downloaded \union {d}
      /\ deliveries' = deliveries /\ threads' = threads /\ wire' = wire
      /\ drafts' = drafts /\ posts' = posts /\ reconciled' = reconciled /\ vouched' = vouched
      /\ payload' = payload /\ edits' = edits /\ crashes' = crashes
  BY DEF DownloadApproved, provider, history
<1>2. TypeOK'
  BY <1>1 DEF IInv, TypeOK, Request
<1>3. SuccessIsAttested'
  BY <1>1 DEF IInv, TypeOK, SuccessIsAttested, Attested
<1>4. QED
  BY <1>1, <1>2, <1>3, OutsideKeeps DEF provider, history

\* A crash forgets every copy.
LEMMA CrashKeeps ==
  ASSUME IInv, Crash
  PROVE  IInv'
<1>1. /\ threads' = [t \in Thread |-> IdleThread]
      /\ docs' = docs /\ deliveries' = deliveries /\ wire' = wire
      /\ drafts' = drafts /\ posts' = posts /\ reconciled' = reconciled /\ vouched' = vouched
      /\ payload' = payload /\ downloaded' = downloaded /\ edits' = edits
      /\ crashes < MaxCrashes /\ crashes' = crashes + 1 /\ crashes \in 0..MaxCrashes
  BY DEF Crash, provider, history, IInv, TypeOK
<1>2. crashes' \in 0..MaxCrashes
  BY <1>1, ConstantsAssumption
<1>3. threads' \in [Thread -> ThreadRow]
  BY <1>1, RowsOK
<1>4. TypeOK'
  BY <1>1, <1>2, <1>3 DEF IInv, TypeOK, Request
<1>5. DocsInv'
  BY <1>1 DEF IInv, DocsInv, Settled
<1>6. CopyInv'
  BY <1>1 DEF CopyInv, CopyOK, IdleThread, NoRow, HasCopy, Compared, HasHeard
<1>7. SuccessIsAttested'
  BY <1>1 DEF IInv, SuccessIsAttested, Attested
<1>8. ASSUME NEW k \in Key \ reconciled' PROVE KeyOK(k)'
  <2>1. KeyOK(k) /\ Unanswered(k)' = Unanswered(k)
    BY <1>1 DEF IInv, WireInv, Unanswered
  <2>2. \A t \in Thread : ~Holds(t, k)' /\ ~Claims(t, k)' /\ ~Heard(t, k)'
    BY <1>1 DEF Holds, Claims, Heard, IdleThread
  <2>3. QED
    BY <1>1, <2>1, <2>2, KeyStays
<1>9. QED
  BY <1>4, <1>5, <1>6, <1>7, <1>8 DEF IInv, WireInv

-----------------------------------------------------------------------------
LEMMA InitIInv == Init => IInv
<1> SUFFICES ASSUME Init PROVE IInv
  OBVIOUS
<1>1. TypeOK
  BY RowsOK, ConstantsAssumption DEF Init, TypeOK, Payload
<1>2. DocsInv
  BY DEF Init, DocsInv, Settled, NoRow
<1>3. CopyInv
  BY IdleOK DEF Init, CopyInv
<1>4. SuccessIsAttested
  BY DEF Init, SuccessIsAttested, NoRow
<1>5. ASSUME NEW k \in Key PROVE KeyOK(k)
  <2>1. \A t \in Thread : ~Holds(t, k) /\ ~Claims(t, k) /\ ~Heard(t, k)
    BY DEF Init, Holds, Claims, Heard, IdleThread
  <2>2. Unanswered(k) = {} /\ posts[k] = 0 /\ deliveries[k].attempts = 0
    BY DEF Init, Unanswered, NoRow
  <2>3. QED
    BY <2>1, <2>2 DEF KeyOK
<1>6. QED
  BY <1>1, <1>2, <1>3, <1>4, <1>5 DEF IInv, WireInv

LEMMA NextKeeps == IInv /\ [Next]_vars => IInv'
<1> SUFFICES ASSUME IInv, [Next]_vars PROVE IInv'
  OBVIOUS
<1>1. ASSUME NEW t \in Thread, SendStep(t) PROVE IInv'
  BY <1>1, BeginKeeps, ReadDeliveryKeeps, ReadPayloadKeeps, ReserveKeeps, ReplayKeeps,
     RefuseExistingKeeps, ClaimRetryKeeps, RereadPayloadKeeps, PostKeeps, TimeoutKeeps,
     RecordOutcomeKeeps DEF SendStep
<1>2. ASSUME NEW t \in Thread, ReconcileStep(t) PROVE IInv'
  BY <1>2, BeginKeeps, ReadUnsettledKeeps, ComparePayloadKeeps, LookUpKeeps, ReconcileKeeps,
     BeginConfirmKeeps, ReadConfirmedKeeps DEF ReconcileStep
<1>3. ASSUME NEW request \in wire, Accept(request) \/ Decline(request) PROVE IInv'
  BY <1>3, AcceptKeeps, DeclineKeeps
<1>4. ASSUME NEW d \in Doc, EditApproved(d) \/ DownloadApproved(d) PROVE IInv'
  BY <1>4, EditKeeps, DownloadKeeps
<1>5. CASE Crash
  BY <1>5, CrashKeeps
<1>6. CASE UNCHANGED vars
  <2>1. TypeOK' /\ SuccessIsAttested'
    BY <1>6 DEF IInv, TypeOK, Request, SuccessIsAttested, Attested, vars, provider, history
  <2>2. QED
    BY <1>6, <2>1, OutsideKeeps DEF vars, provider, history
<1>7. QED
  BY <1>1, <1>2, <1>3, <1>4, <1>5, <1>6 DEF Next

LEMMA Invariance == Spec => []IInv
BY InitIInv, NextKeeps, PTL DEF Spec

\* Every variable keeps its type, whatever the threads, the network and the
\* provider do.
THEOREM TypesHold == Spec => []TypeOK
<1>1. IInv => TypeOK
  BY DEF IInv
<1>2. QED
  BY <1>1, Invariance, PTL

\* A delivery is only called a success, and a document is only exported through
\* one, when the provider holds its draft or an operator said so under that key:
\* no lost answer, lookup, retry, replay or crash makes one up.
THEOREM SuccessIsAttestedAlways == Spec => []SuccessIsAttested
<1>1. IInv => SuccessIsAttested
  BY DEF IInv
<1>2. QED
  BY <1>1, Invariance, PTL

\* A set whose members are all equal has at most one.
LEMMA AtMostOne ==
  ASSUME NEW S, \A x, y \in S : x = y
  PROVE  Cardinality(S) \in 0..1 /\ (S = {} => Cardinality(S) = 0)
<1>1. CASE S = {}
  BY <1>1, FS_EmptySet
<1>2. CASE S # {}
  <2>1. PICK x \in S : S = {x}
    BY <1>2
  <2>2. Cardinality(S) = 1
    BY <2>1, FS_Singleton
  <2>3. QED
    BY <1>2, <2>2
<1>3. QED
  BY <1>1, <1>2

\* A request that may still be accepted and a thread about to issue another one
\* exclude each other, and each is alone.
LEMMA OneAtATime == IInv => OneCreateAtATime
<1> SUFFICES ASSUME IInv, NEW k \in Key \ reconciled
             PROVE  /\ Cardinality(Unanswered(k)) + Cardinality(AboutToPost(k)) <= 1
                    /\ posts[k] <= deliveries[k].attempts
  BY DEF OneCreateAtATime
<1>1. KeyOK(k)
  BY DEF IInv, WireInv
<1>2. \A q, r \in Unanswered(k) : q = r
  BY <1>1 DEF KeyOK
<1>3. \A t, u \in AboutToPost(k) : t = u
  BY <1>1 DEF KeyOK, AboutToPost, Holds
<1>4. Unanswered(k) = {} \/ AboutToPost(k) = {}
  BY <1>1 DEF KeyOK, AboutToPost, Claims
<1>5. Cardinality(Unanswered(k)) \in 0..1 /\ (Unanswered(k) = {} => Cardinality(Unanswered(k)) = 0)
  BY <1>2, AtMostOne
<1>6. Cardinality(AboutToPost(k)) \in 0..1 /\ (AboutToPost(k) = {} => Cardinality(AboutToPost(k)) = 0)
  BY <1>3, AtMostOne
<1>7. Cardinality(Unanswered(k)) + Cardinality(AboutToPost(k)) <= 1
  BY <1>4, <1>5, <1>6
<1>8. QED
  BY <1>1, <1>7 DEF KeyOK

\* Until somebody reconciles a delivery, one create request of it at a time may
\* be accepted or issued, and each was counted before it was issued.
THEOREM CreatesAreSingle == Spec => []OneCreateAtATime
BY OneAtATime, Invariance, PTL

\* One step changes a successful row only when it records a reconciliation.
LEMMA SuccessStays ==
  ASSUME IInv, [Next]_vars, NEW k \in Key \ reconciled', deliveries[k].status = "succeeded"
  PROVE  deliveries'[k] = deliveries[k]
<1>1. TypeOK /\ CopyInv /\ deliveries \in [Key -> Row]
  BY DEF IInv, TypeOK
<1>2. CASE deliveries' = deliveries
  BY <1>2
<1>3. ASSUME NEW t \in Thread, Reserve(t) PROVE deliveries'[k] = deliveries[k]
  BY <1>1, <1>3 DEF Reserve, Save
<1>4. ASSUME NEW t \in Thread, ClaimRetry(t) PROVE deliveries'[k] = deliveries[k]
  BY <1>1, <1>4 DEF ClaimRetry, Save, Retryable
<1>5. ASSUME NEW t \in Thread, RecordOutcome(t) PROVE deliveries'[k] = deliveries[k]
  <2>1. PICK row : deliveries' = [deliveries EXCEPT ![threads[t].key] = row]
    BY <1>5 DEF RecordOutcome, Save
  <2>2. reconciled' = reconciled /\ vouched' = vouched /\ threads[t].pc = "answered"
    BY <1>5 DEF RecordOutcome, At, history
  <2>3. threads[t].key # k
    BY <2>2 DEF IInv, WireInv, KeyOK, Holds
  <2>4. QED
    BY <1>1, <2>1, <2>3
<1>6. ASSUME NEW t \in Thread, RecordLookup(t) PROVE deliveries'[k] = deliveries[k]
  BY <1>1, <1>6 DEF RecordLookup, Save
<1>7. ASSUME NEW t \in Thread, CommitConfirm(t) PROVE deliveries'[k] = deliveries[k]
  BY <1>1, <1>7 DEF CommitConfirm, Save
<1>8. ASSUME NEW t \in Thread, SendStep(t) PROVE deliveries'[k] = deliveries[k]
  BY <1>2, <1>3, <1>4, <1>5, <1>8
  DEF SendStep, BeginSend, ReadDelivery, ReadPayload, Replay, RefuseExisting, RereadPayload,
      Post, Timeout
<1>9. ASSUME NEW t \in Thread, ReconcileStep(t) PROVE deliveries'[k] = deliveries[k]
  BY <1>2, <1>6, <1>7, <1>9
  DEF ReconcileStep, BeginReconcile, ReadUnsettled, ComparePayload, LookUp, BeginConfirm,
      ReadConfirmed
<1>10. ASSUME ~(\E t \in Thread : SendStep(t) \/ ReconcileStep(t)) PROVE deliveries' = deliveries
  BY <1>10 DEF Next, vars, Accept, Decline, EditApproved, DownloadApproved, Crash
<1>11. QED
  BY <1>2, <1>8, <1>9, <1>10

\* A successful delivery is not overwritten until somebody reconciles it.
THEOREM SuccessFinal == Spec => SuccessIsFinal
<1>1. IInv /\ [Next]_vars =>
        [\A k \in Key \ reconciled' :
           deliveries[k].status = "succeeded" => deliveries'[k] = deliveries[k]]_deliveries
  BY SuccessStays
<1>2. QED
  BY <1>1, Invariance, PTL DEF Spec, SuccessIsFinal
=============================================================================
