----------------------------- MODULE ErpOutbox -----------------------------
(***************************************************************************)
(* The outbound queue to the ERP: producers enqueue documents, a drain     *)
(* every 30 s and the dashboard's retry push the due rows, directly to the *)
(* ERP or through the Integration Hub, with backoff and a dead letter.     *)
(* Source: erp-outbox.service.ts, erp-http.client.ts, hub-http.client.ts,  *)
(* erp-sync.service.ts (the producers)                                     *)
(*                                                                         *)
(* A row is worked on through the entity that was read: every save puts    *)
(* that image back.  The ERP and the Hub are external: they accept a call  *)
(* once per path and externalId, and answer, refuse or time out.           *)
(***************************************************************************)
EXTENDS Naturals, FiniteSets, Sequences, SequencesExt

CONSTANTS
  Sales, Payments, Transfers, Orders,  \* documents to push, by outbox kind
  Producers,    \* enqueue() calls that may overlap
  Drains,       \* runs of the 30 s timer that may overlap
  Retriers,     \* dashboard retries that may overlap
  MaxAttempts,  \* MAX_ATTEMPTS, 6 in the code
  Batch,        \* BATCH, 20 in the code
  None

Docs == Sales \cup Payments \cup Transfers \cup Orders
Pushers == Drains \cup Retriers

ASSUME OutboxAssumption ==
  /\ MaxAttempts \in Nat \ {0}
  /\ Batch \in Nat \ {0}
  /\ Drains \cap Retriers = {}
  /\ Sales \cap (Payments \cup Transfers \cup Orders) = {}
  /\ Payments \cap (Transfers \cup Orders) = {}
  /\ Transfers \cap Orders = {}
  /\ None \notin Docs

VARIABLES
  outbox,     \* erp_outbox, in the order of created_at
  enqueuing,  \* what each enqueue() in flight found
  push,       \* what each drain and retry in flight is doing
  draining,   \* the in-memory flag of the drain
  hub,        \* HubHttpClient.isActive
  delivered   \* calls the ERP, or the Hub for it, has accepted, by document

vars == <<outbox, enqueuing, push, draining, hub, delivered>>

\* Row.due: next_attempt_at is past.
Row == [doc : Docs, status : {"pending", "posted", "dead_letter"},
        attempts : 0..MaxAttempts, due : BOOLEAN]

NewRow(d) == [doc |-> d, status |-> "pending", attempts |-> 0, due |-> TRUE]
Idle == [at |-> "idle", batch |-> <<>>, viaHub |-> FALSE, calls |-> <<>>]

\* Mutant of Calls: a transfer's goods are received before they are issued.
CallsSwapped(d, viaHub) ==
  CASE d \in Sales     -> IF viaHub THEN <<"sync/sales-invoices">> ELSE <<"sales-invoices">>
    [] d \in Payments  -> IF viaHub THEN <<"sync/payments">> ELSE <<"receipts">>
    [] d \in Transfers -> IF viaHub THEN <<"sync/stock-transfers">>
                          ELSE <<"stock-adjustments-IN", "stock-adjustments-OUT">>
    [] d \in Orders    -> <<"sales-orders">>

\* The calls a document maps to, by their path (sync/... at the Hub); each has
\* its own externalId.
Calls(d, viaHub) ==
  CASE d \in Sales     -> IF viaHub THEN <<"sync/sales-invoices">> ELSE <<"sales-invoices">>
    [] d \in Payments  -> IF viaHub THEN <<"sync/payments">> ELSE <<"receipts">>
    [] d \in Transfers -> IF viaHub THEN <<"sync/stock-transfers">>
                          ELSE <<"stock-adjustments-OUT", "stock-adjustments-IN">>
    [] d \in Orders    -> <<"sales-orders">>

\* hub.isActive and HUB_KINDS.
UsesHub(row) == hub /\ row.doc \notin Orders

\* The image a push works on, and the row it saves it to.
Image(p) == Head(push[p].batch)
Save(image) == outbox' = [outbox EXCEPT ![image.id] = image.row]

\* Mutant of Due: rows that are done are found too.
DueAny == {i \in 1..Len(outbox) : outbox[i].due}

\* find({ status: pending, nextAttemptAt <= now }), oldest first.
Due == {i \in 1..Len(outbox) : outbox[i].status = "pending" /\ outbox[i].due}
DueBatch ==
  LET n == IF Cardinality(Due) < Batch THEN Cardinality(Due) ELSE Batch IN
  {[k \in 1..n |-> [id |-> ids[k], row |-> outbox[ids[k]]]] :
     ids \in {f \in [1..n -> Due] :
               /\ \A j, k \in 1..n : j < k => f[j] < f[k]
               /\ \A i \in Due : (\E k \in 1..n : f[k] = i) \/ f[n] < i}}

Init ==
  /\ outbox = <<>>
  /\ enqueuing = [e \in Producers |-> None]
  /\ push = [p \in Pushers |-> Idle]
  /\ draining = FALSE
  /\ hub \in BOOLEAN
  /\ delivered = [d \in Docs |-> {}]

-----------------------------------------------------------------------------
\* enqueue: a document already queued or posted is left alone; otherwise its
\* dead row is revived (attempts are not reset), or a row is inserted.
EnqueueRead(e, d) ==
  LET rows == {i \in 1..Len(outbox) : outbox[i].doc = d} IN
  /\ enqueuing[e] = None
  /\ \/ /\ rows = {}
        /\ enqueuing' = [enqueuing EXCEPT ![e] = [id |-> 0, row |-> NewRow(d)]]
     \/ \E i \in rows :
          /\ outbox[i].status = "dead_letter"
          /\ enqueuing' = [enqueuing EXCEPT ![e] =
               [id |-> i, row |-> [outbox[i] EXCEPT !.status = "pending", !.due = TRUE]]]
  /\ UNCHANGED <<outbox, push, draining, hub, delivered>>

EnqueueSave(e) ==
  LET image == enqueuing[e] IN
  /\ image # None
  /\ IF image.id = 0 THEN outbox' = Append(outbox, image.row) ELSE Save(image)
  /\ enqueuing' = [enqueuing EXCEPT ![e] = None]
  /\ UNCHANGED <<push, draining, hub, delivered>>

\* drain: test the flag, await the settings, then set the flag and load the
\* due rows.
DrainCheck(p) ==
  /\ p \in Drains /\ push[p].at = "idle"
  /\ ~draining
  /\ push' = [push EXCEPT ![p].at = "config"]
  /\ UNCHANGED <<outbox, enqueuing, draining, hub, delivered>>

DrainLoad(p) ==
  /\ push[p].at = "config"
  /\ \/ /\ Due = {}
        /\ push' = [push EXCEPT ![p] = Idle]
     \/ /\ Due # {}
        /\ \E batch \in DueBatch :
             push' = [push EXCEPT ![p] = [Idle EXCEPT !.at = "route", !.batch = batch]]
  /\ draining' = (Due # {})
  /\ UNCHANGED <<outbox, enqueuing, hub, delivered>>

\* drain, when the settings say that the ERP is off or not configured.
DrainOff(p) ==
  /\ push[p].at = "config"
  /\ push' = [push EXCEPT ![p] = Idle]
  /\ UNCHANGED <<outbox, enqueuing, draining, hub, delivered>>

\* POST /erp/outbox/:id/retry: a row not posted is saved as due, then pushed.
RetryRead(p, i) ==
  /\ p \in Retriers /\ push[p].at = "idle"
  /\ outbox[i].status # "posted"
  /\ push' = [push EXCEPT ![p] = [Idle EXCEPT !.at = "save",
       !.batch = <<[id |-> i, row |-> [outbox[i] EXCEPT !.status = "pending", !.due = TRUE]]>>]]
  /\ UNCHANGED <<outbox, enqueuing, draining, hub, delivered>>

RetrySave(p) ==
  /\ push[p].at = "save"
  /\ Save(Image(p))
  /\ push' = [push EXCEPT ![p].at = "route"]
  /\ UNCHANGED <<enqueuing, draining, hub, delivered>>

\* pushOne: choose the route and build the calls (or find the source gone).
Route(p) ==
  LET row    == Image(p).row
      viaHub == UsesHub(row)
  IN
  /\ push[p].at = "route"
  /\ \/ push' = [push EXCEPT ![p] = [@ EXCEPT !.at = "call", !.viaHub = viaHub,
                                              !.calls = Calls(row.doc, viaHub)]]
     \/ push' = [push EXCEPT ![p].at = "failed"]
  /\ UNCHANGED <<outbox, enqueuing, draining, hub, delivered>>

\* One call after the other: accepted (a duplicate counts as accepted),
\* accepted with the answer lost, or refused or never received.  The Hub
\* client refuses by itself once the Hub is switched off.
Accept(p) ==
  delivered' = [delivered EXCEPT ![Image(p).row.doc] = @ \cup {Head(push[p].calls)}]

Reachable(p) == push[p].viaHub => hub

\* Mutant of AfterCall: the first answer settles the document.
AfterFirstCall(rest) == "done"

AfterCall(rest) == IF rest = <<>> THEN "done" ELSE "call"

CallAnswered(p) ==
  LET rest == Tail(push[p].calls) IN
  /\ push[p].at = "call" /\ Reachable(p)
  /\ Accept(p)
  /\ push' = [push EXCEPT ![p] = [@ EXCEPT !.calls = rest, !.at = AfterCall(rest)]]
  /\ UNCHANGED <<outbox, enqueuing, draining, hub>>

CallFailed(p) ==
  /\ push[p].at = "call"
  /\ \/ Reachable(p) /\ Accept(p)
     \/ UNCHANGED delivered
  /\ push' = [push EXCEPT ![p].at = "failed"]
  /\ UNCHANGED <<outbox, enqueuing, draining, hub>>

\* The next row of the batch follows; the drain drops its flag after the last.
Advance(p) ==
  LET rest == Tail(push[p].batch) IN
  /\ push' = [push EXCEPT ![p] =
       IF rest = <<>> THEN Idle ELSE [Idle EXCEPT !.at = "route", !.batch = rest]]
  /\ draining' = (draining /\ ~(p \in Drains /\ rest = <<>>))

\* The image is saved as posted; a sale is then mapped to its ERP invoice.  An
\* error of the save is treated as a failure of the push.
Posted(p) ==
  LET image == [Image(p) EXCEPT !.row.status = "posted"] IN
  /\ push[p].at = "done"
  /\ \/ image.row.doc \notin Sales /\ Save(image) /\ Advance(p)
     \/ /\ image.row.doc \in Sales
        /\ Save(image)
        /\ push' = [push EXCEPT ![p] = [@ EXCEPT !.at = "map", !.batch[1] = image]]
        /\ UNCHANGED draining
     \/ /\ push' = [push EXCEPT ![p].at = "failed"]
        /\ UNCHANGED <<outbox, draining>>
  /\ UNCHANGED <<enqueuing, hub, delivered>>

\* mapVoucher: an error here (another push inserted the same mapping first)
\* is treated as a failure of the push.
MapVoucher(p) ==
  /\ push[p].at = "map"
  /\ \/ Advance(p)
     \/ push' = [push EXCEPT ![p].at = "failed"] /\ UNCHANGED draining
  /\ UNCHANGED <<outbox, enqueuing, hub, delivered>>

\* Mutants of AfterFailure: attempts are not counted; a failed row is parked.
Uncounted(row) == [row EXCEPT !.status = "pending", !.due = FALSE]
Parked(row) == [row EXCEPT !.status = "failed"]

\* fail: only attempts >= MAX_ATTEMPTS matters, so the model stops counting there.
AfterFailure(row) ==
  IF row.attempts + 1 >= MaxAttempts
  THEN [row EXCEPT !.status = "dead_letter", !.attempts = MaxAttempts]
  ELSE [row EXCEPT !.status = "pending", !.attempts = @ + 1, !.due = FALSE]

Fail(p) ==
  /\ push[p].at = "failed"
  /\ Save([Image(p) EXCEPT !.row = AfterFailure(@)])
  /\ Advance(p)
  /\ UNCHANGED <<enqueuing, hub, delivered>>

\* The backoff of a row runs out.
Tick(i) ==
  /\ outbox[i].status = "pending" /\ ~outbox[i].due
  /\ outbox' = [outbox EXCEPT ![i].due = TRUE]
  /\ UNCHANGED <<enqueuing, push, draining, hub, delivered>>

\* The Hub is switched on or off in the settings.
ToggleHub ==
  /\ hub' = ~hub
  /\ UNCHANGED <<outbox, enqueuing, push, draining, delivered>>

\* Everything in memory is lost.
Restart ==
  /\ enqueuing' = [e \in Producers |-> None]
  /\ push' = [p \in Pushers |-> Idle]
  /\ draining' = FALSE
  /\ UNCHANGED <<outbox, hub, delivered>>

PushStep(p) ==
  \/ DrainLoad(p)
  \/ RetrySave(p)
  \/ Route(p)
  \/ CallAnswered(p)
  \/ CallFailed(p)
  \/ Posted(p)
  \/ MapVoucher(p)
  \/ Fail(p)

Next ==
  \/ \E e \in Producers : (\E d \in Docs : EnqueueRead(e, d)) \/ EnqueueSave(e)
  \/ \E p \in Pushers :
       \/ DrainCheck(p) \/ DrainOff(p)
       \/ \E i \in 1..Len(outbox) : RetryRead(p, i)
       \/ PushStep(p)
  \/ \E i \in 1..Len(outbox) : Tick(i)
  \/ ToggleHub
  \/ Restart

Spec == Init /\ [][Next]_vars

\* The 30 s timer keeps firing, a call ends (by its 20 s timeout at the
\* latest), a save completes, and time passes.
MaxRows == Cardinality(Producers) * Cardinality(Docs)

Fairness ==
  /\ \A p \in Drains : WF_vars(DrainCheck(p))
  /\ \A p \in Pushers : WF_vars(PushStep(p))
  /\ \A i \in 1..MaxRows : WF_vars(i <= Len(outbox) /\ Tick(i))

FairSpec == Spec /\ Fairness

-----------------------------------------------------------------------------
(* Properties                                                              *)

\* Rows, images and calls keep their types.
TypeOK ==
  /\ outbox \in Seq(Row)
  /\ \A e \in Producers :
       enqueuing[e] # None => /\ enqueuing[e].id \in 0..Len(outbox)
                              /\ enqueuing[e].row \in Row
  /\ \A p \in Pushers :
       /\ push[p].at \in {"idle", "config", "save", "route", "call", "done", "map", "failed"}
       /\ \A i \in 1..Len(push[p].batch) : /\ push[p].batch[i].id \in 1..Len(outbox)
                                           /\ push[p].batch[i].row \in Row
  /\ draining \in BOOLEAN /\ hub \in BOOLEAN

Complete(d) ==
  \E viaHub \in BOOLEAN : ToSet(Calls(d, viaHub)) \subseteq delivered[d]

\* A row marked posted has reached the ERP whole, whichever push marked it and
\* however many failed, overlapped or restarted before.
PostedIsDelivered ==
  \A i \in 1..Len(outbox) : outbox[i].status = "posted" => Complete(outbox[i].doc)

\* The ERP never receives the goods of a transfer before it issued them.
IssuedBeforeReceived ==
  \A d \in Transfers :
    "stock-adjustments-IN" \in delivered[d] => "stock-adjustments-OUT" \in delivered[d]

\* A posted row is never taken up again: whoever queues it once more held it
\* since before it was posted (a push overtaken by another, an enqueue reviving
\* it), or is a push that posted it, of a sale whose mapping failed.
HeldBefore(i) ==
  \/ \E p \in Pushers : /\ push[p].batch # <<>> /\ Image(p).id = i
                        /\ Image(p).row.status = "pending"
  \/ \E e \in Producers : enqueuing[e] # None /\ enqueuing[e].id = i

MappingFailed(i) ==
  /\ outbox[i].doc \in Sales
  /\ \E p \in Pushers : push[p].at = "failed" /\ Image(p).id = i

PostedIsFinal ==
  [][\A i \in 1..Len(outbox) :
       (outbox[i].status = "posted" /\ outbox'[i].status # "posted")
         => HeldBefore(i) \/ MappingFailed(i)]_vars

\* Every queued document ends posted or as a dead letter, once the ERP stays on in
\* the settings, the process stops restarting and nothing is queued, revived or
\* retried by hand any more, however many rows compete for a batch.
Settled(i) == outbox[i].status \in {"posted", "dead_letter"}

Disturbed ==
  \/ Restart
  \/ \E p \in Drains : DrainOff(p)
  \/ \E e \in Producers : EnqueueSave(e)
  \/ \E p \in Retriers : RetrySave(p)

Settles ==
  (<>[][~Disturbed]_vars) =>
    \A i \in 1..MaxRows : (i <= Len(outbox)) ~> (i <= Len(outbox) /\ Settled(i))

=============================================================================
