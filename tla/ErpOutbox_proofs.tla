-------------------------- MODULE ErpOutbox_proofs --------------------------
(***************************************************************************)
(* What holds of the outbox for every number of producers, drains, retries *)
(* and documents, and any MAX_ATTEMPTS and BATCH.                          *)
(***************************************************************************)
EXTENDS ErpOutbox, FiniteSetTheorems, SequenceTheorems, TLAPS

Places == {"idle", "config", "save", "route", "call", "done", "map", "failed"}
Paths == {"sync/sales-invoices", "sales-invoices", "sync/payments", "receipts",
          "sync/stock-transfers", "stock-adjustments-OUT", "stock-adjustments-IN",
          "sales-orders"}
Entry == [id : Nat, row : Row]
Work == [at : Places, batch : Seq(Entry), viaHub : BOOLEAN, calls : Seq(Paths)]

(***************************************************************************)
(* What a push in flight relies on: its images belong to rows of the       *)
(* table, they are pending unless the push itself has just posted one, the *)
(* calls it has made were accepted, and when it is done all of them were.  *)
(***************************************************************************)
Keeps(entry, box) == entry.id \in 1..Len(box) /\ box[entry.id].doc = entry.row.doc

Whole(d, accepted) == \E viaHub \in BOOLEAN : ToSet(Calls(d, viaHub)) \subseteq accepted[d]

Underway(w, accepted) ==
  LET d   == Head(w.batch).row.doc
      all == Calls(d, w.viaHub)
  IN \/ w.calls = all
     \/ Len(all) = 2 /\ w.calls = <<all[2]>> /\ all[1] \in accepted[d]

NotYetPosted(w, k) ==
  \/ w.batch[k].row.status = "pending"
  \/ /\ k = 1 /\ w.at \in {"map", "failed"}
     /\ w.batch[k].row.status = "posted" /\ w.batch[k].row.doc \in Sales

Fits(w, box, accepted) ==
  /\ w \in Work
  /\ \A k \in 1..Len(w.batch) : Keeps(w.batch[k], box) /\ NotYetPosted(w, k)
  /\ w.at \notin {"idle", "config"} => w.batch # <<>>
  /\ w.at = "call" => Underway(w, accepted)
  /\ w.at \in {"done", "map"} => Whole(Head(w.batch).row.doc, accepted)

EnqueueFits(image, box) ==
  /\ image \in Entry
  /\ image.row.status = "pending"
  /\ image.id = 0 \/ Keeps(image, box)

Tables ==
  /\ outbox \in Seq(Row)
  /\ delivered \in [Docs -> SUBSET Paths]
  /\ draining \in BOOLEAN /\ hub \in BOOLEAN
  /\ PostedIsDelivered
  /\ IssuedBeforeReceived

InFlight ==
  /\ DOMAIN enqueuing = Producers
  /\ \A e \in Producers : enqueuing[e] # None => EnqueueFits(enqueuing[e], outbox)
  /\ DOMAIN push = Pushers
  /\ \A p \in Pushers : Fits(push[p], outbox, delivered)

IInv == Tables /\ InFlight

(***************************************************************************)
(* The helpers.                                                            *)
(***************************************************************************)
\* A document is one call, or the issue and the receipt of a transfer.
LEMMA CallsShape ==
  ASSUME NEW d \in Docs, NEW viaHub \in BOOLEAN
  PROVE  \/ \E c \in Paths \ {"stock-adjustments-IN"} : Calls(d, viaHub) = <<c>>
         \/ Calls(d, viaHub) = <<"stock-adjustments-OUT", "stock-adjustments-IN">>
<1> USE OutboxAssumption
<1>1. CASE d \in Sales
  <2>1. d \notin Payments /\ d \notin Transfers /\ d \notin Orders
    BY <1>1
  <2>2. Calls(d, viaHub) = IF viaHub THEN <<"sync/sales-invoices">> ELSE <<"sales-invoices">>
    BY <1>1, <2>1, Zenon DEF Calls
  <2>3. CASE viaHub
    <3>1. Calls(d, viaHub) = <<"sync/sales-invoices">>
      BY <2>2, <2>3, Zenon
    <3>2. "sync/sales-invoices" \in Paths \ {"stock-adjustments-IN"}
      BY DEF Paths
    <3> QED
      BY <3>1, <3>2, Zenon
  <2>4. CASE ~viaHub
    <3>1. Calls(d, viaHub) = <<"sales-invoices">>
      BY <2>2, <2>4, Zenon
    <3>2. "sales-invoices" \in Paths \ {"stock-adjustments-IN"}
      BY DEF Paths
    <3> QED
      BY <3>1, <3>2, Zenon
  <2> QED
    BY <2>3, <2>4
<1>2. CASE d \in Payments
  <2>1. d \notin Sales /\ d \notin Transfers /\ d \notin Orders
    BY <1>2
  <2>2. Calls(d, viaHub) = IF viaHub THEN <<"sync/payments">> ELSE <<"receipts">>
    BY <1>2, <2>1, Zenon DEF Calls
  <2>3. CASE viaHub
    <3>1. Calls(d, viaHub) = <<"sync/payments">>
      BY <2>2, <2>3, Zenon
    <3>2. "sync/payments" \in Paths \ {"stock-adjustments-IN"}
      BY DEF Paths
    <3> QED
      BY <3>1, <3>2, Zenon
  <2>4. CASE ~viaHub
    <3>1. Calls(d, viaHub) = <<"receipts">>
      BY <2>2, <2>4, Zenon
    <3>2. "receipts" \in Paths \ {"stock-adjustments-IN"}
      BY DEF Paths
    <3> QED
      BY <3>1, <3>2, Zenon
  <2> QED
    BY <2>3, <2>4
<1>3. CASE d \in Transfers
  <2>1. d \notin Sales /\ d \notin Payments /\ d \notin Orders
    BY <1>3
  <2>2. Calls(d, viaHub) = IF viaHub THEN <<"sync/stock-transfers">> ELSE <<"stock-adjustments-OUT", "stock-adjustments-IN">>
    BY <1>3, <2>1, Zenon DEF Calls
  <2>3. CASE viaHub
    <3>1. Calls(d, viaHub) = <<"sync/stock-transfers">>
      BY <2>2, <2>3, Zenon
    <3>2. "sync/stock-transfers" \in Paths \ {"stock-adjustments-IN"}
      BY DEF Paths
    <3> QED
      BY <3>1, <3>2, Zenon
  <2>4. CASE ~viaHub
    <3>1. Calls(d, viaHub) = <<"stock-adjustments-OUT", "stock-adjustments-IN">>
      BY <2>2, <2>4, Zenon
    <3> QED
      BY <3>1
  <2> QED
    BY <2>3, <2>4
<1>4. CASE d \in Orders
  <2>1. d \notin Sales /\ d \notin Payments /\ d \notin Transfers
    BY <1>4
  <2>2. Calls(d, viaHub) = <<"sales-orders">>
    BY <1>4, <2>1, Zenon DEF Calls
  <2>3. "sales-orders" \in Paths \ {"stock-adjustments-IN"}
    BY DEF Paths
  <2> QED
    BY <2>2, <2>3, Zenon
<1> QED
  BY <1>1, <1>2, <1>3, <1>4 DEF Docs

\* The image a push works on is the first of its batch.
LEMMA HeadImage ==
  ASSUME NEW w \in Work, w.batch # <<>>
  PROVE  /\ Head(w.batch) = w.batch[1] /\ 1 \in 1..Len(w.batch)
         /\ Head(w.batch) \in Entry
         /\ Head(w.batch).row \in Row
         /\ Head(w.batch).row.doc \in Docs
<1>1. w.batch \in Seq(Entry)
  BY DEF Work
<1>2. Head(w.batch) = w.batch[1] /\ 1 \in 1..Len(w.batch) /\ Head(w.batch) \in Entry
  BY <1>1, EmptySeq, HeadTailProperties
<1>3. Head(w.batch).row \in Row
  BY <1>2 DEF Entry
<1> QED
  BY <1>2, <1>3 DEF Row

\* What fits a table and what was accepted fits a table with the same documents
\* and more rows, and when more was accepted.
LEMMA FitsGrows ==
  ASSUME NEW w, NEW box \in Seq(Row), NEW box2 \in Seq(Row), NEW accepted, NEW accepted2,
         Fits(w, box, accepted),
         Len(box) <= Len(box2),
         \A i \in 1..Len(box) : box2[i].doc = box[i].doc,
         \A d \in Docs : accepted[d] \subseteq accepted2[d]
  PROVE  Fits(w, box2, accepted2)
<1>1. \A k \in 1..Len(w.batch) : Keeps(w.batch[k], box2) /\ NotYetPosted(w, k)
  BY DEF Fits, Keeps
<1>2. ASSUME w.batch # <<>>
      PROVE  Head(w.batch).row.doc \in Docs
  BY <1>2, HeadImage DEF Fits
<1>3. ASSUME w.at = "call"
      PROVE  Underway(w, accepted2)
  BY <1>2, <1>3 DEF Fits, Underway
<1>4. ASSUME w.at \in {"done", "map"}
      PROVE  Whole(Head(w.batch).row.doc, accepted2)
  BY <1>2, <1>4 DEF Fits, Whole
<1> QED
  BY <1>1, <1>3, <1>4 DEF Fits

\* A table only grows, and its rows keep their documents.
Grows ==
  /\ Len(outbox) <= Len(outbox')
  /\ \A i \in 1..Len(outbox) : outbox'[i].doc = outbox[i].doc
  /\ \A d \in Docs : delivered[d] \subseteq delivered'[d]

\* Saving an image of a row keeps the table and what is true of it, provided
\* that an image saved as posted was delivered.
LEMMA SaveKeeps ==
  ASSUME IInv, NEW image \in Entry, Keeps(image, outbox), Save(image),
         image.row.status = "posted" => Whole(image.row.doc, delivered),
         UNCHANGED <<hub, delivered>>, draining' \in BOOLEAN
  PROVE  Tables' /\ Grows
<1>1. /\ outbox \in Seq(Row) /\ image.row \in Row
      /\ image.id \in 1..Len(outbox)
  BY DEF IInv, Tables, Entry, Keeps
<1>2. outbox' \in Seq(Row) /\ Len(outbox') = Len(outbox)
  BY <1>1 DEF Save
<1>3. \A i \in 1..Len(outbox) : outbox'[i] = IF i = image.id THEN image.row ELSE outbox[i]
  BY <1>1 DEF Save
<1>4. Grows
  BY <1>1, <1>2, <1>3 DEF Grows, Keeps
<1>5. PostedIsDelivered'
  BY <1>2, <1>3 DEF IInv, Tables, PostedIsDelivered, Complete, Whole
<1>6. IssuedBeforeReceived'
  BY DEF IInv, Tables, IssuedBeforeReceived
<1> QED
  BY <1>2, <1>4, <1>5, <1>6 DEF IInv, Tables

\* A step of one push keeps the others' invariant.
LEMMA OnePush ==
  ASSUME IInv, Tables', Grows, UNCHANGED enqueuing,
         NEW p \in Pushers, NEW w, push' = [push EXCEPT ![p] = w],
         Fits(w, outbox', delivered')
  PROVE  IInv'
<1>1. outbox \in Seq(Row) /\ outbox' \in Seq(Row)
  BY DEF IInv, Tables
<1>2. ASSUME NEW q \in Pushers
      PROVE  Fits(push'[q], outbox', delivered')
  <2>1. CASE q = p
    BY <2>1 DEF IInv, InFlight
  <2>2. CASE q # p
    <3>1. push'[q] = push[q] /\ Fits(push[q], outbox, delivered)
      BY <2>2 DEF IInv, InFlight
    <3> QED
      BY <1>1, <3>1, FitsGrows DEF Grows
  <2> QED
    BY <2>1, <2>2
<1>3. ASSUME NEW e \in Producers, enqueuing'[e] # None
      PROVE  EnqueueFits(enqueuing'[e], outbox')
  BY <1>1, <1>3 DEF IInv, InFlight, EnqueueFits, Keeps, Grows
<1>4. DOMAIN push' = Pushers /\ DOMAIN enqueuing' = Producers
  BY DEF IInv, InFlight
<1> QED
  BY <1>2, <1>3, <1>4 DEF IInv, InFlight

\* Nothing in flight: the Idle push fits any table.
LEMMA IdleFits == \A box, accepted : Fits(Idle, box, accepted)
  BY DEF Idle, Fits, Work, Places

(***************************************************************************)
(* What a push becomes by its steps.                                       *)
(***************************************************************************)
\* The rest of the batch, or nothing.
LEMMA RestFits ==
  ASSUME NEW w, NEW box, NEW accepted, Fits(w, box, accepted), w.batch # <<>>
  PROVE  Fits(IF Tail(w.batch) = <<>> THEN Idle
              ELSE [Idle EXCEPT !.at = "route", !.batch = Tail(w.batch)], box, accepted)
<1> DEFINE rest == Tail(w.batch)
           next == [Idle EXCEPT !.at = "route", !.batch = rest]
<1>1. w.batch \in Seq(Entry)
  BY DEF Fits, Work
<1>2. /\ rest \in Seq(Entry)
      /\ \A k \in 1..Len(rest) : k + 1 \in 1..Len(w.batch) /\ rest[k] = w.batch[k + 1]
  BY <1>1, HeadTailProperties, EmptySeq
<1>3. ASSUME rest # <<>>
      PROVE  Fits(next, box, accepted)
  <2>0. Idle \in Work
    BY EmptySeq DEF Idle, Work, Places
  <2>1. next.at = "route" /\ next.batch = rest
    BY DEF Idle
  <2>2. next \in Work
    BY <1>2, <2>0 DEF Work, Places
  <2>3. ASSUME NEW k \in 1..Len(rest)
        PROVE  Keeps(rest[k], box) /\ rest[k].row.status = "pending"
    <3>1. k + 1 \in 1..Len(w.batch) /\ rest[k] = w.batch[k + 1] /\ k + 1 # 1
      BY <1>2
    <3> QED
      BY <3>1 DEF Fits, NotYetPosted
  <2> QED
    BY <1>3, <2>1, <2>2, <2>3 DEF Fits, NotYetPosted
<1> QED
  BY <1>3, IdleFits

\* A failure.
LEMMA FailedFits ==
  ASSUME NEW w, NEW box, NEW accepted, Fits(w, box, accepted), w.batch # <<>>
  PROVE  Fits([w EXCEPT !.at = "failed"], box, accepted)
<1>1. [w EXCEPT !.at = "failed"] \in Work
  BY DEF Fits, Work, Places
<1>2. /\ [w EXCEPT !.at = "failed"].at = "failed"
      /\ [w EXCEPT !.at = "failed"].batch = w.batch
  BY DEF Fits, Work
<1> QED
  BY <1>1, <1>2 DEF Fits, NotYetPosted

\* An accepted call: what is left shrinks by it, and nothing left is all of it.
LEMMA NextCall ==
  ASSUME NEW w, NEW box, NEW accepted, NEW accepted2, Fits(w, box, accepted),
         w.at = "call", NEW d, d = Head(w.batch).row.doc,
         accepted2[d] = accepted[d] \cup {Head(w.calls)}
  PROVE  /\ Head(w.calls) \in Paths
         /\ Head(w.calls) \in ToSet(Calls(d, w.viaHub))
         /\ Head(w.calls) = "stock-adjustments-IN" => "stock-adjustments-OUT" \in accepted[d]
         /\ Tail(w.calls) = <<>> => Whole(d, accepted2)
         /\ Tail(w.calls) # <<>> =>
              Underway([w EXCEPT !.calls = Tail(w.calls)], accepted2)
         /\ Tail(w.calls) \in Seq(Paths)
<1>1. w \in Work /\ w.batch # <<>> /\ Underway(w, accepted)
  BY DEF Fits
<1>2. d \in Docs /\ w.viaHub \in BOOLEAN
  BY <1>1, HeadImage DEF Work
<1> DEFINE all == Calls(d, w.viaHub)
<1>3. /\ [w EXCEPT !.calls = Tail(w.calls)].batch = w.batch
      /\ [w EXCEPT !.calls = Tail(w.calls)].viaHub = w.viaHub
      /\ [w EXCEPT !.calls = Tail(w.calls)].calls = Tail(w.calls)
  BY <1>1 DEF Work
<1>4. CASE \E c \in Paths \ {"stock-adjustments-IN"} : all = <<c>>
  <2>1. PICK c \in Paths \ {"stock-adjustments-IN"} : all = <<c>>
    BY <1>4
  <2>2. w.calls = <<c>>
    BY <1>1, <2>1 DEF Underway
  <2>3. ToSet(all) = {c} /\ Head(w.calls) = c /\ Tail(w.calls) = <<>>
    BY <2>1, <2>2 DEF ToSet
  <2> QED
    BY <1>2, <2>1, <2>3, EmptySeq DEF Whole
<1>5. CASE all = <<"stock-adjustments-OUT", "stock-adjustments-IN">>
  <2>1. ToSet(all) = {"stock-adjustments-OUT", "stock-adjustments-IN"}
    BY <1>5 DEF ToSet
  <2>2. CASE w.calls = all
    <3>1. /\ Head(w.calls) = "stock-adjustments-OUT"
          /\ Tail(w.calls) = <<"stock-adjustments-IN">>
      BY <1>5, <2>2
    <3>2. Underway([w EXCEPT !.calls = Tail(w.calls)], accepted2)
      BY <1>3, <1>5, <3>1 DEF Underway
    <3>3. w.calls \in Seq(Paths) /\ w.calls # <<>>
      <4>1. w.calls \in Seq(Paths)
        BY <1>1 DEF Work
      <4>2. w.calls = <<"stock-adjustments-OUT", "stock-adjustments-IN">>
        BY <1>5, <2>2
      <4> QED
        BY <4>1, <4>2
    <3>4. Tail(w.calls) \in Seq(Paths)
      BY <3>3, HeadTailProperties
    <3>5. Tail(w.calls) # <<>>
      BY <3>1
    <3> QED
      BY <2>1, <3>1, <3>2, <3>4, <3>5 DEF Paths
  <2>3. CASE w.calls = <<"stock-adjustments-IN">> /\ "stock-adjustments-OUT" \in accepted[d]
    <3>1. Head(w.calls) = "stock-adjustments-IN" /\ Tail(w.calls) = <<>>
      BY <2>3
    <3> QED
      BY <1>2, <2>1, <2>3, <3>1, EmptySeq DEF Paths, Whole
  <2> QED
    BY <1>1, <1>5, <2>2, <2>3 DEF Underway
<1> QED
  BY <1>2, <1>4, <1>5, CallsShape

(***************************************************************************)
(* The steps.                                                              *)
(***************************************************************************)
\* A step of a push that writes no table.
LEMMA QuietPush ==
  ASSUME IInv, UNCHANGED <<outbox, enqueuing, hub, delivered>>, draining' \in BOOLEAN,
         NEW p \in Pushers, NEW w, push' = [push EXCEPT ![p] = w],
         Fits(w, outbox, delivered)
  PROVE  IInv'
<1>1. Tables'
  BY DEF IInv, Tables, PostedIsDelivered, IssuedBeforeReceived, Complete
<1>2. Grows
  BY DEF IInv, Tables, Grows
<1> QED
  BY <1>1, <1>2, OnePush

\* A producer's step that only adds to the outbox.
LEMMA OneProducer ==
  ASSUME IInv, Tables', Grows, UNCHANGED push,
         NEW e \in Producers, NEW image, enqueuing' = [enqueuing EXCEPT ![e] = image],
         image # None => EnqueueFits(image, outbox')
  PROVE  IInv'
<1>1. outbox \in Seq(Row) /\ outbox' \in Seq(Row)
  BY DEF IInv, Tables
<1>2. ASSUME NEW q \in Pushers
      PROVE  Fits(push'[q], outbox', delivered')
  <2>1. Fits(push[q], outbox, delivered)
    BY DEF IInv, InFlight
  <2> QED
    BY <1>1, <2>1, FitsGrows DEF Grows
<1>3. ASSUME NEW o \in Producers, enqueuing'[o] # None
      PROVE  EnqueueFits(enqueuing'[o], outbox')
  <2>1. CASE o = e
    BY <1>3, <2>1 DEF IInv, InFlight
  <2>2. CASE o # e
    <3>1. enqueuing'[o] = enqueuing[o] /\ EnqueueFits(enqueuing[o], outbox)
      BY <1>3, <2>2 DEF IInv, InFlight
    <3> QED
      BY <1>1, <3>1 DEF EnqueueFits, Keeps, Grows
  <2> QED
    BY <2>1, <2>2
<1>4. DOMAIN push' = Pushers /\ DOMAIN enqueuing' = Producers
  BY DEF IInv, InFlight
<1> QED
  BY <1>2, <1>3, <1>4 DEF IInv, InFlight

\* Nothing is queued or in flight at the start.
LEMMA InitInv == Init => IInv
<1> SUFFICES ASSUME Init PROVE IInv
  OBVIOUS
<1>1. outbox \in Seq(Row) /\ Len(outbox) = 0
  BY EmptySeq DEF Init
<1>2. PostedIsDelivered
  BY <1>1 DEF PostedIsDelivered
<1>3. delivered \in [Docs -> SUBSET Paths] /\ \A d \in Docs : delivered[d] = {}
  BY DEF Init
<1>4. IssuedBeforeReceived
  BY <1>3 DEF IssuedBeforeReceived, Docs
<1>5. Tables
  BY <1>1, <1>2, <1>3, <1>4 DEF Init, Tables
<1>6. InFlight
  BY IdleFits DEF Init, InFlight
<1> QED
  BY <1>5, <1>6 DEF IInv

LEMMA EnqueueReadInv ==
  ASSUME IInv, NEW e \in Producers, NEW d \in Docs, EnqueueRead(e, d)
  PROVE  IInv'
<1>0. UNCHANGED <<outbox, push, draining, hub, delivered>>
  BY Zenon DEF EnqueueRead
<1>1. Tables'
  BY <1>0 DEF IInv, Tables, PostedIsDelivered, IssuedBeforeReceived, Complete
<1>3. outbox \in Seq(Row)
  BY DEF IInv, Tables
<1>2. Grows
  BY <1>0, <1>3 DEF Grows
<1>4. CASE enqueuing' = [enqueuing EXCEPT ![e] = [id |-> 0, row |-> NewRow(d)]]
  <2>1. NewRow(d) \in Row /\ NewRow(d).status = "pending"
    BY OutboxAssumption DEF NewRow, Row
  <2>2. EnqueueFits([id |-> 0, row |-> NewRow(d)], outbox')
    BY <2>1 DEF EnqueueFits, Entry
  <2> QED
    BY <1>0, <1>1, <1>2, <1>4, <2>2, OneProducer
<1>5. ASSUME NEW i \in 1..Len(outbox),
             enqueuing' = [enqueuing EXCEPT ![e] =
               [id |-> i, row |-> [outbox[i] EXCEPT !.status = "pending", !.due = TRUE]]]
      PROVE  IInv'
  <2> DEFINE row == [outbox[i] EXCEPT !.status = "pending", !.due = TRUE]
  <2>1. row \in Row /\ row.status = "pending" /\ row.doc = outbox[i].doc
    <3>1. outbox[i] \in Row
      BY <1>3
    <3> QED
      BY <3>1 DEF Row
  <2> HIDE DEF row
  <2>2. EnqueueFits([id |-> i, row |-> row], outbox')
    BY <1>0, <1>3, <2>1 DEF EnqueueFits, Entry, Keeps
  <2>3. IInv'
    BY <1>0, <1>1, <1>2, <1>5, <2>2, OneProducer DEF row
  <2> QED
    BY <2>3
<1> QED
  BY <1>4, <1>5 DEF EnqueueRead

LEMMA EnqueueSaveInv ==
  ASSUME IInv, NEW e \in Producers, EnqueueSave(e)
  PROVE  IInv'
<1> DEFINE image == enqueuing[e]
<1>1. EnqueueFits(image, outbox) /\ image.row \in Row /\ outbox \in Seq(Row)
  BY DEF IInv, InFlight, Tables, EnqueueSave, EnqueueFits, Entry
<1>2. CASE image.id = 0
  <2>1. /\ outbox' = Append(outbox, image.row)
        /\ outbox' \in Seq(Row) /\ Len(outbox') = Len(outbox) + 1
        /\ \A i \in 1..Len(outbox) : outbox'[i] = outbox[i]
        /\ outbox'[Len(outbox) + 1] = image.row
    BY <1>1, <1>2, AppendProperties DEF EnqueueSave
  <2>2. UNCHANGED <<push, draining, hub, delivered>>
    BY DEF EnqueueSave
  <2>3. Grows
    BY <1>1, <2>1, <2>2 DEF Grows
  <2>4. PostedIsDelivered'
    <3>1. ASSUME NEW i \in 1..Len(outbox'), outbox'[i].status = "posted"
          PROVE  Whole(outbox'[i].doc, delivered')
      <4>1. i \in 1..Len(outbox) /\ outbox'[i] = outbox[i]
        BY <1>1, <2>1, <3>1 DEF EnqueueFits
      <4>2. Whole(outbox[i].doc, delivered)
        BY <3>1, <4>1 DEF IInv, Tables, PostedIsDelivered, Complete, Whole
      <4> QED
        BY <2>2, <4>1, <4>2
    <3> QED
      BY <3>1 DEF PostedIsDelivered, Complete, Whole
  <2>5. Tables'
    BY <2>1, <2>2, <2>4 DEF IInv, Tables, IssuedBeforeReceived
  <2> QED
    BY <2>2, <2>3, <2>5, OneProducer DEF EnqueueSave
<1>3. CASE image.id # 0
  <2>1. Keeps(image, outbox) /\ image \in Entry /\ image.row.status # "posted"
    BY <1>1, <1>3 DEF EnqueueFits
  <2>2. Tables' /\ Grows
    BY <1>3, <2>1, SaveKeeps DEF EnqueueSave, IInv, Tables
  <2> QED
    BY <2>2, OneProducer DEF EnqueueSave
<1> QED
  BY <1>2, <1>3

\* The batch a drain loads: pending images of rows of the table.
LEMMA BatchFits ==
  ASSUME IInv, NEW batch \in DueBatch, Due # {}
  PROVE  Fits([Idle EXCEPT !.at = "route", !.batch = batch], outbox, delivered)
<1>1. outbox \in Seq(Row)
  BY DEF IInv, Tables
<1>2. Cardinality(Due) \in Nat \ {0}
  <2>1. IsFiniteSet(1..Len(outbox))
    BY <1>1, FS_Interval
  <2>2. IsFiniteSet(Due)
    BY <2>1, FS_Subset DEF Due
  <2> QED
    BY <2>2, FS_CardinalityType, FS_EmptySet
<1> DEFINE n == IF Cardinality(Due) < Batch THEN Cardinality(Due) ELSE Batch
<1>n. n \in Nat \ {0}
  BY <1>2, OutboxAssumption
<1>3. PICK ids \in [1..n -> Due] :
        batch = [k \in 1..n |-> [id |-> ids[k], row |-> outbox[ids[k]]]]
  BY DEF DueBatch
<1> HIDE DEF n
<1>4. ASSUME NEW k \in 1..n
      PROVE  /\ batch[k] \in Entry
             /\ Keeps(batch[k], outbox)
             /\ batch[k].row.status = "pending"
  <2>1. /\ ids[k] \in 1..Len(outbox)
        /\ outbox[ids[k]] \in Row
        /\ outbox[ids[k]].status = "pending"
    BY <1>1, <1>3 DEF Due
  <2>2. batch[k] = [id |-> ids[k], row |-> outbox[ids[k]]]
    BY <1>3
  <2> QED
    BY <1>1, <2>1, <2>2 DEF Entry, Keeps
<1>5. batch \in Seq(Entry) /\ Len(batch) = n /\ batch # <<>>
  <2>1. batch \in [1..n -> Entry]
    BY <1>3, <1>4
  <2>2. batch \in Seq(Entry)
    BY <1>n, <2>1, SeqDef
  <2>3. Len(batch) = n
    BY <1>n, <2>1, <2>2
  <2> QED
    BY <1>n, <2>2, <2>3, EmptySeq
<1> DEFINE w == [Idle EXCEPT !.at = "route", !.batch = batch]
<1>6. w.at = "route" /\ w.batch = batch
  BY DEF Idle
<1>7. w \in Work
  <2>1. Idle \in Work
    BY EmptySeq DEF Idle, Work, Places
  <2> QED
    BY <1>5, <2>1 DEF Work, Places
<1> QED
  BY <1>4, <1>5, <1>6, <1>7 DEF Fits, NotYetPosted

LEMMA DrainInv ==
  ASSUME IInv, NEW p \in Pushers, DrainCheck(p) \/ DrainOff(p) \/ DrainLoad(p)
  PROVE  IInv'
<1>1. Fits(push[p], outbox, delivered) /\ draining \in BOOLEAN
  BY DEF IInv, InFlight, Tables
<1>2. CASE DrainCheck(p)
  <2>1. Fits([push[p] EXCEPT !.at = "config"], outbox, delivered)
    <3> DEFINE w == [push[p] EXCEPT !.at = "config"]
    <3>1. w \in Work /\ w.at = "config" /\ w.batch = push[p].batch
      BY <1>1 DEF Fits, Work, Places
    <3>2. push[p].at = "idle"
      BY <1>2 DEF DrainCheck
    <3> QED
      BY <1>1, <3>1, <3>2 DEF Fits, NotYetPosted
  <2> QED
    BY <1>1, <1>2, <2>1, QuietPush DEF DrainCheck
<1>3. CASE DrainLoad(p)
  <2>0. /\ UNCHANGED <<outbox, enqueuing, hub, delivered>>
        /\ draining' \in BOOLEAN
    BY <1>3 DEF DrainLoad
  <2>1. CASE push' = [push EXCEPT ![p] = Idle]
    BY <2>0, <2>1, IdleFits, QuietPush
  <2>2. ASSUME Due # {}, NEW batch \in DueBatch,
               push' = [push EXCEPT ![p] = [Idle EXCEPT !.at = "route", !.batch = batch]]
        PROVE  IInv'
    BY <2>0, <2>2, BatchFits, QuietPush
  <2> QED
    BY <1>3, <2>1, <2>2 DEF DrainLoad
<1>4. CASE DrainOff(p)
  BY <1>1, <1>4, IdleFits, QuietPush DEF DrainOff
<1> QED
  BY <1>2, <1>3, <1>4

LEMMA RetryInv ==
  ASSUME IInv, NEW p \in Pushers,
         (\E i \in 1..Len(outbox) : RetryRead(p, i)) \/ RetrySave(p)
  PROVE  IInv'
<1>1. Fits(push[p], outbox, delivered) /\ outbox \in Seq(Row) /\ draining \in BOOLEAN
  BY DEF IInv, InFlight, Tables
<1>2. ASSUME NEW i \in 1..Len(outbox), RetryRead(p, i)
      PROVE  IInv'
  <2> DEFINE row == [outbox[i] EXCEPT !.status = "pending", !.due = TRUE]
             image == [id |-> i, row |-> row]
             w == [Idle EXCEPT !.at = "save", !.batch = <<image>>]
  <2>1. image \in Entry /\ Keeps(image, outbox) /\ image.row.status = "pending"
    <3>1. outbox[i] \in Row
      BY <1>1
    <3>2. row \in Row /\ row.status = "pending" /\ row.doc = outbox[i].doc
      BY <3>1 DEF Row
    <3> HIDE DEF row
    <3>3. image \in Entry /\ image.id = i /\ image.row = row
      BY <1>1, <3>2 DEF Entry
    <3> QED
      BY <3>2, <3>3 DEF Keeps
  <2>2. UNCHANGED <<outbox, enqueuing, draining, hub, delivered>> /\ push' = [push EXCEPT ![p] = w]
    BY <1>2, Zenon DEF RetryRead
  <2> HIDE DEF image
  <2>3. w.at = "save" /\ w.batch = <<image>>
    BY DEF Idle
  <2>4. <<image>> \in Seq(Entry) /\ Len(<<image>>) = 1 /\ <<image>>[1] = image /\ <<image>> # <<>>
    BY <2>1
  <2>5. w \in Work
    <3>1. Idle \in Work
      BY EmptySeq DEF Idle, Work, Places
    <3> QED
      BY <2>4, <3>1 DEF Work, Places
  <2>6. Fits(w, outbox, delivered)
    BY <2>1, <2>3, <2>4, <2>5 DEF Fits, NotYetPosted
  <2> QED
    BY <1>1, <2>2, <2>6, QuietPush
<1>3. CASE RetrySave(p)
  <2> DEFINE w == [push[p] EXCEPT !.at = "route"]
  <2>1. push[p] \in Work /\ push[p].at = "save" /\ push[p].batch # <<>>
    BY <1>1, <1>3 DEF Fits, RetrySave
  <2>2. /\ Image(p) \in Entry /\ Keeps(Image(p), outbox)
        /\ Image(p).row.status = "pending"
    BY <1>1, <2>1, HeadImage DEF Fits, Image, NotYetPosted
  <2>3. Tables' /\ Grows
    BY <1>1, <1>3, <2>2, SaveKeeps DEF RetrySave
  <2>4. w \in Work /\ w.at = "route" /\ w.batch = push[p].batch
    BY <2>1 DEF Work, Places
  <2>5. \A k \in 1..Len(w.batch) : NotYetPosted(w, k)
    BY <1>1, <2>1, <2>4 DEF Fits, NotYetPosted
  <2>6. Fits(w, outbox, delivered)
    BY <1>1, <2>1, <2>4, <2>5 DEF Fits
  <2>7. Fits(w, outbox', delivered')
    BY <1>1, <2>3, <2>6, FitsGrows DEF Grows, Tables
  <2> QED
    BY <1>3, <2>3, <2>7, OnePush DEF RetrySave
<1> QED
  BY <1>2, <1>3

LEMMA RouteInv ==
  ASSUME IInv, NEW p \in Pushers, Route(p)
  PROVE  IInv'
<1> DEFINE row == Image(p).row
           viaHub == UsesHub(row)
           w == [push[p] EXCEPT !.at = "call", !.viaHub = viaHub, !.calls = Calls(row.doc, viaHub)]
<1>1. /\ Fits(push[p], outbox, delivered) /\ draining \in BOOLEAN /\ hub \in BOOLEAN
      /\ push[p] \in Work /\ push[p].at = "route" /\ push[p].batch # <<>>
  BY DEF IInv, InFlight, Tables, Route, Fits
<1>2. UNCHANGED <<outbox, enqueuing, draining, hub, delivered>>
  BY Zenon DEF Route
<1>3. CASE push' = [push EXCEPT ![p].at = "failed"]
  <2>1. Fits([push[p] EXCEPT !.at = "failed"], outbox, delivered)
    BY <1>1, FailedFits
  <2> QED
    BY <1>1, <1>2, <1>3, <2>1, QuietPush
<1>4. CASE push' = [push EXCEPT ![p] = w]
  <2>1. row.doc \in Docs /\ viaHub \in BOOLEAN
    BY <1>1, HeadImage DEF Image, UsesHub
  <2>2. Calls(row.doc, viaHub) \in Seq(Paths)
    <3>1. CASE \E c \in Paths \ {"stock-adjustments-IN"} : Calls(row.doc, viaHub) = <<c>>
      BY <3>1
    <3>2. CASE Calls(row.doc, viaHub) = <<"stock-adjustments-OUT", "stock-adjustments-IN">>
      <4>1. "stock-adjustments-OUT" \in Paths /\ "stock-adjustments-IN" \in Paths
        BY DEF Paths
      <4> QED
        BY <3>2, <4>1
    <3> QED
      BY <2>1, <3>1, <3>2, CallsShape
  <2> HIDE DEF viaHub
  <2>3. /\ w \in Work /\ w.at = "call" /\ w.batch = push[p].batch
        /\ w.viaHub = viaHub /\ w.calls = Calls(row.doc, viaHub)
    BY <1>1, <2>1, <2>2 DEF Work, Places
  <2>4. Underway(w, delivered)
    BY <2>3 DEF Underway, Image
  <2>5. \A k \in 1..Len(w.batch) : NotYetPosted(w, k)
    BY <1>1, <2>3 DEF Fits, NotYetPosted
  <2>6. Fits(w, outbox, delivered)
    BY <1>1, <2>3, <2>4, <2>5 DEF Fits
  <2> QED
    BY <1>1, <1>2, <1>4, <2>6, QuietPush
<1> QED
  BY <1>3, <1>4, Zenon DEF Route

\* One more call is accepted: the table, which only speaks of what was
\* accepted, keeps its invariant.
LEMMA AcceptKeeps ==
  ASSUME IInv, NEW p \in Pushers, push[p].at = "call", Accept(p),
         UNCHANGED <<outbox, draining, hub>>
  PROVE  /\ Tables' /\ Grows
         /\ delivered'[Image(p).row.doc] =
              delivered[Image(p).row.doc] \cup {Head(push[p].calls)}
<1> DEFINE d == Image(p).row.doc
           c == Head(push[p].calls)
<1>1. Fits(push[p], outbox, delivered) /\ push[p].batch # <<>> /\ push[p] \in Work
  BY DEF IInv, InFlight, Fits
<1>2. d \in Docs
  BY <1>1, HeadImage DEF Image
<1>3. delivered \in [Docs -> SUBSET Paths] /\ outbox \in Seq(Row)
  BY DEF IInv, Tables
<1>4. delivered' = [delivered EXCEPT ![d] = @ \cup {c}]
  BY DEF Accept
<1> HIDE DEF c
<1>5. /\ delivered'[d] = delivered[d] \cup {c}
      /\ \A o \in Docs : o # d => delivered'[o] = delivered[o]
  BY <1>2, <1>3, <1>4
<1>6. c \in Paths /\ (c = "stock-adjustments-IN" => "stock-adjustments-OUT" \in delivered[d])
  <2>1. delivered'[d] = delivered[d] \cup {Head(push[p].calls)}
    BY <1>5 DEF c
  <2> QED
    BY <1>1, <2>1, NextCall DEF c, Image
<1>7. delivered' \in [Docs -> SUBSET Paths]
  BY <1>2, <1>3, <1>4, <1>6
<1>8. \A o \in Docs : delivered[o] \subseteq delivered'[o]
  BY <1>5
<1>9. PostedIsDelivered'
  <2>1. ASSUME NEW i \in 1..Len(outbox), outbox[i].status = "posted"
        PROVE  Whole(outbox[i].doc, delivered')
    <3>0. outbox[i] \in Row
      BY <1>3
    <3>1. outbox[i].doc \in Docs
      BY <3>0 DEF Row
    <3>2. Whole(outbox[i].doc, delivered)
      BY <2>1 DEF IInv, Tables, PostedIsDelivered, Complete, Whole
    <3> QED
      BY <1>8, <3>1, <3>2 DEF Whole
  <2> QED
    BY <2>1 DEF PostedIsDelivered, Complete, Whole
<1>10. IssuedBeforeReceived'
  <2>1. ASSUME NEW o \in Transfers, "stock-adjustments-IN" \in delivered'[o]
        PROVE  "stock-adjustments-OUT" \in delivered'[o]
    <3>1. o \in Docs
      BY Zenon DEF Docs
    <3>2. "stock-adjustments-IN" \in delivered[o] => "stock-adjustments-OUT" \in delivered[o]
      BY DEF IInv, Tables, IssuedBeforeReceived
    <3>3. CASE o = d
      BY <1>5, <1>6, <2>1, <3>2, <3>3
    <3>4. CASE o # d
      BY <1>5, <2>1, <3>1, <3>2, <3>4
    <3> QED
      BY <3>3, <3>4
  <2> QED
    BY <2>1 DEF IssuedBeforeReceived
<1>11. Grows
  BY <1>3, <1>8 DEF Grows
<1> QED
  BY <1>3, <1>5, <1>7, <1>9, <1>10, <1>11 DEF IInv, Tables, c

LEMMA CallAnsweredInv ==
  ASSUME IInv, NEW p \in Pushers, CallAnswered(p)
  PROVE  IInv'
<1> DEFINE rest == Tail(push[p].calls)
           w == [push[p] EXCEPT !.calls = rest, !.at = AfterCall(rest)]
           called == [push[p] EXCEPT !.calls = rest]
           d == Image(p).row.doc
<1>1. /\ Fits(push[p], outbox, delivered) /\ push[p].batch # <<>>
      /\ push[p] \in Work /\ push[p].at = "call"
  BY DEF IInv, InFlight, Fits, CallAnswered
<1>2. /\ Accept(p) /\ push' = [push EXCEPT ![p] = w]
      /\ UNCHANGED <<outbox, enqueuing, draining, hub>>
  BY DEF CallAnswered
<1>3. /\ Tables' /\ Grows
      /\ delivered'[d] = delivered[d] \cup {Head(push[p].calls)}
  BY <1>1, <1>2, AcceptKeeps
<1>4. Fits(push[p], outbox', delivered')
  BY <1>1, <1>3, FitsGrows DEF IInv, Tables, Grows
<1>5. /\ rest = <<>> => Whole(d, delivered')
      /\ rest # <<>> => Underway(called, delivered')
      /\ rest \in Seq(Paths)
  BY <1>1, <1>3, NextCall DEF Image
<1>6. /\ w \in Work /\ w.at = AfterCall(rest) /\ w.batch = push[p].batch
      /\ w.viaHub = called.viaHub /\ w.calls = called.calls /\ w.batch = called.batch
  BY <1>1, <1>5 DEF Work, Places, AfterCall
<1>7. w.at \in {"call", "done"} /\ (w.at = "done" <=> rest = <<>>)
  BY <1>6 DEF AfterCall
<1> HIDE DEF w, called, rest
<1>8. w.at = "call" => Underway(w, delivered')
  BY <1>5, <1>6, <1>7 DEF Underway
<1>9. w.at \in {"done", "map"} => Whole(Head(w.batch).row.doc, delivered')
  BY <1>5, <1>6, <1>7 DEF Image
<1>10. \A k \in 1..Len(w.batch) : Keeps(w.batch[k], outbox') /\ NotYetPosted(w, k)
  BY <1>1, <1>4, <1>6 DEF Fits, NotYetPosted
<1>11. Fits(w, outbox', delivered')
  BY <1>1, <1>6, <1>8, <1>9, <1>10 DEF Fits
<1> QED
  BY <1>2, <1>3, <1>11, OnePush

LEMMA CallFailedInv ==
  ASSUME IInv, NEW p \in Pushers, CallFailed(p)
  PROVE  IInv'
<1>1. /\ Fits(push[p], outbox, delivered) /\ push[p].batch # <<>> /\ push[p].at = "call"
      /\ draining \in BOOLEAN
  BY DEF IInv, InFlight, Tables, Fits, CallFailed
<1>2. /\ push' = [push EXCEPT ![p].at = "failed"]
      /\ UNCHANGED <<outbox, enqueuing, draining, hub>>
  BY DEF CallFailed
<1>3. CASE Accept(p)
  <2>1. Tables' /\ Grows
    BY <1>1, <1>2, <1>3, AcceptKeeps
  <2>2. Fits(push[p], outbox', delivered')
    BY <1>1, <2>1, FitsGrows DEF IInv, Tables, Grows
  <2>3. Fits([push[p] EXCEPT !.at = "failed"], outbox', delivered')
    BY <1>1, <2>2, FailedFits
  <2> QED
    BY <1>2, <2>1, <2>3, OnePush
<1>4. CASE UNCHANGED delivered
  <2>1. Fits([push[p] EXCEPT !.at = "failed"], outbox, delivered)
    BY <1>1, FailedFits
  <2> QED
    BY <1>1, <1>2, <1>4, <2>1, QuietPush
<1> QED
  BY <1>3, <1>4 DEF CallFailed

\* The push goes on to the next row of its batch, or ends.
LEMMA AdvanceInv ==
  ASSUME IInv, Tables', Grows, UNCHANGED enqueuing,
         NEW p \in Pushers, push[p].batch # <<>>, Advance(p)
  PROVE  IInv'
<1> DEFINE w == IF Tail(push[p].batch) = <<>> THEN Idle
                ELSE [Idle EXCEPT !.at = "route", !.batch = Tail(push[p].batch)]
<1>1. Fits(push[p], outbox', delivered')
  BY FitsGrows DEF IInv, InFlight, Tables, Grows
<1>2. Fits(w, outbox', delivered')
  BY <1>1, RestFits
<1>3. push' = [push EXCEPT ![p] = w]
  BY Zenon DEF Advance
<1> QED
  BY <1>2, <1>3, OnePush

LEMMA PostedInv ==
  ASSUME IInv, NEW p \in Pushers, Posted(p)
  PROVE  IInv'
<1> DEFINE image == [Image(p) EXCEPT !.row.status = "posted"]
<1>1. /\ Fits(push[p], outbox, delivered) /\ push[p].batch # <<>>
      /\ push[p] \in Work /\ push[p].at = "done" /\ draining \in BOOLEAN
  BY DEF IInv, InFlight, Tables, Fits, Posted
<1>2. /\ Image(p) = push[p].batch[1] /\ 1 \in 1..Len(push[p].batch)
      /\ Image(p) \in Entry /\ Image(p).row \in Row
  BY <1>1, HeadImage DEF Image
<1>3. Keeps(Image(p), outbox) /\ Whole(Image(p).row.doc, delivered)
  BY <1>1, <1>2 DEF Fits, Image
<1>4. /\ image \in Entry /\ image.id = Image(p).id
      /\ image.row.doc = Image(p).row.doc /\ image.row.status = "posted"
  BY <1>2 DEF Entry, Row
<1>5. Keeps(image, outbox)
  BY <1>3, <1>4 DEF Keeps
<1> HIDE DEF image
<1>6. UNCHANGED <<enqueuing, hub, delivered>>
  BY DEF Posted
<1>7. ASSUME Save(image), draining' \in BOOLEAN
      PROVE  Tables' /\ Grows
  BY <1>3, <1>4, <1>5, <1>6, <1>7, SaveKeeps
<1>8. CASE Save(image) /\ Advance(p)
  <2>1. draining' \in BOOLEAN
    BY <1>8 DEF Advance
  <2> QED
    BY <1>1, <1>6, <1>7, <1>8, <2>1, AdvanceInv
<1>9. CASE /\ image.row.doc \in Sales /\ Save(image)
           /\ push' = [push EXCEPT ![p] = [@ EXCEPT !.at = "map", !.batch[1] = image]]
           /\ UNCHANGED draining
  <2> DEFINE batch == [push[p].batch EXCEPT ![1] = image]
             w == [push[p] EXCEPT !.at = "map", !.batch = batch]
  <2>1. push' = [push EXCEPT ![p] = w]
    BY <1>9
  <2>2. Tables' /\ Grows
    BY <1>1, <1>7, <1>9
  <2>3. Fits(push[p], outbox', delivered')
    BY <1>1, <2>2, FitsGrows DEF IInv, Tables, Grows
  <2>4. push[p].batch \in Seq(Entry)
    BY <1>1 DEF Work
  <2>5. /\ batch \in Seq(Entry) /\ Len(batch) = Len(push[p].batch)
        /\ \A k \in 1..Len(batch) : batch[k] = IF k = 1 THEN image ELSE push[p].batch[k]
    BY <1>2, <1>4, <2>4, ExceptSeq
  <2>6. batch # <<>> /\ Head(batch) = image
    BY <1>2, <2>5, EmptySeq
  <2> HIDE DEF batch
  <2>7. w \in Work /\ w.at = "map" /\ w.batch = batch
    BY <1>1, <2>5 DEF Work, Places
  <2>8. Keeps(image, outbox')
    BY <1>2, <1>4, <2>3 DEF Fits, Keeps
  <2>9. \A k \in 1..Len(w.batch) : Keeps(w.batch[k], outbox') /\ NotYetPosted(w, k)
    <3> SUFFICES ASSUME NEW k \in 1..Len(batch)
                 PROVE  Keeps(w.batch[k], outbox') /\ NotYetPosted(w, k)
      BY <2>7
    <3>1. CASE k = 1
      BY <1>4, <1>9, <2>5, <2>7, <2>8, <3>1 DEF NotYetPosted
    <3>2. CASE k # 1
      BY <2>3, <2>5, <2>7, <3>2 DEF Fits, NotYetPosted
    <3> QED
      BY <3>1, <3>2
  <2>10. Whole(Head(w.batch).row.doc, delivered')
    BY <1>3, <1>4, <1>6, <2>6, <2>7
  <2>11. Fits(w, outbox', delivered')
    BY <2>6, <2>7, <2>9, <2>10 DEF Fits
  <2> QED
    BY <1>6, <2>1, <2>2, <2>11, OnePush
<1>10. CASE /\ push' = [push EXCEPT ![p].at = "failed"]
            /\ UNCHANGED <<outbox, draining>>
  <2>1. Fits([push[p] EXCEPT !.at = "failed"], outbox, delivered)
    BY <1>1, FailedFits
  <2> QED
    BY <1>1, <1>6, <1>10, <2>1, QuietPush
<1> QED
  BY <1>8, <1>9, <1>10 DEF Posted, image

LEMMA MapVoucherInv ==
  ASSUME IInv, NEW p \in Pushers, MapVoucher(p)
  PROVE  IInv'
<1>1. /\ Fits(push[p], outbox, delivered) /\ push[p].batch # <<>> /\ draining \in BOOLEAN
      /\ UNCHANGED <<outbox, enqueuing, hub, delivered>>
  BY DEF IInv, InFlight, Tables, Fits, MapVoucher
<1>2. CASE Advance(p)
  <2>1. draining' \in BOOLEAN
    BY <1>2 DEF Advance
  <2>2. Tables'
    BY <1>1, <2>1 DEF IInv, Tables, PostedIsDelivered, IssuedBeforeReceived, Complete
  <2>3. Grows
    BY <1>1 DEF IInv, Tables, Grows
  <2> QED
    BY <1>1, <1>2, <2>2, <2>3, AdvanceInv
<1>3. CASE push' = [push EXCEPT ![p].at = "failed"] /\ UNCHANGED draining
  <2>1. Fits([push[p] EXCEPT !.at = "failed"], outbox, delivered)
    BY <1>1, FailedFits
  <2> QED
    BY <1>1, <1>3, <2>1, QuietPush
<1> QED
  BY <1>2, <1>3 DEF MapVoucher

\* A failure leaves a row of the same document, queued again or dead.
LEMMA FailedRow ==
  ASSUME NEW row \in Row
  PROVE  /\ AfterFailure(row) \in Row
         /\ AfterFailure(row).doc = row.doc
         /\ AfterFailure(row).status # "posted"
<1>1. MaxAttempts \in 0..MaxAttempts /\ row.attempts \in 0..MaxAttempts
  BY OutboxAssumption DEF Row
<1>2. CASE row.attempts + 1 >= MaxAttempts
  <2> DEFINE dead == [row EXCEPT !.status = "dead_letter", !.attempts = MaxAttempts]
  <2>1. dead \in Row /\ dead.doc = row.doc /\ dead.status = "dead_letter"
    BY <1>1 DEF Row
  <2>2. AfterFailure(row) = dead
    BY <1>2 DEF AfterFailure
  <2> HIDE DEF dead
  <2> QED
    BY <2>1, <2>2
<1>3. CASE ~(row.attempts + 1 >= MaxAttempts)
  <2> DEFINE queued == [row EXCEPT !.status = "pending", !.attempts = @ + 1, !.due = FALSE]
  <2>1. row.attempts + 1 \in 0..MaxAttempts
    BY <1>1, <1>3, OutboxAssumption
  <2>2. queued \in Row /\ queued.doc = row.doc /\ queued.status = "pending"
    BY <2>1 DEF Row
  <2>3. AfterFailure(row) = queued
    BY <1>3 DEF AfterFailure
  <2> HIDE DEF queued
  <2> QED
    BY <2>2, <2>3
<1> QED
  BY <1>2, <1>3

LEMMA FailInv ==
  ASSUME IInv, NEW p \in Pushers, Fail(p)
  PROVE  IInv'
<1> DEFINE image == [Image(p) EXCEPT !.row = AfterFailure(@)]
<1>1. /\ Fits(push[p], outbox, delivered) /\ push[p].batch # <<>> /\ push[p] \in Work
      /\ draining \in BOOLEAN
  BY DEF IInv, InFlight, Tables, Fits, Fail
<1>2. /\ Image(p) \in Entry /\ Image(p).row \in Row
      /\ Keeps(Image(p), outbox)
  BY <1>1, HeadImage DEF Image, Fits
<1>3. /\ AfterFailure(Image(p).row) \in Row
      /\ AfterFailure(Image(p).row).doc = Image(p).row.doc
      /\ AfterFailure(Image(p).row).status # "posted"
  BY <1>2, FailedRow
<1>4. /\ image \in Entry /\ image.id = Image(p).id
      /\ image.row = AfterFailure(Image(p).row)
  BY <1>2, <1>3 DEF Entry
<1>5. Keeps(image, outbox)
  BY <1>2, <1>3, <1>4 DEF Keeps
<1>6. Save(image) /\ Advance(p) /\ UNCHANGED <<enqueuing, hub, delivered>>
  BY DEF Fail
<1> HIDE DEF image
<1>7. draining' \in BOOLEAN
  BY <1>6 DEF Advance
<1>8. Tables' /\ Grows
  BY <1>3, <1>4, <1>5, <1>6, <1>7, SaveKeeps
<1> QED
  BY <1>1, <1>6, <1>8, AdvanceInv

LEMMA TickInv ==
  ASSUME IInv, NEW i \in 1..Len(outbox), Tick(i)
  PROVE  IInv'
<1>1. outbox \in Seq(Row) /\ outbox[i] \in Row
  BY DEF IInv, Tables
<1> DEFINE row == [outbox[i] EXCEPT !.due = TRUE]
<1>2. row \in Row /\ row.doc = outbox[i].doc /\ row.status = outbox[i].status
  BY <1>1 DEF Row
<1>3. outbox' = [outbox EXCEPT ![i] = row] /\ UNCHANGED <<enqueuing, push, draining, hub, delivered>>
  BY DEF Tick
<1> HIDE DEF row
<1>4. /\ outbox' \in Seq(Row) /\ Len(outbox') = Len(outbox)
      /\ \A k \in 1..Len(outbox) : outbox'[k] = IF k = i THEN row ELSE outbox[k]
  BY <1>1, <1>2, <1>3, ExceptSeq
<1>5. Grows
  BY <1>1, <1>2, <1>3, <1>4 DEF Grows
<1>6. PostedIsDelivered'
  <2>1. ASSUME NEW k \in 1..Len(outbox), outbox'[k].status = "posted"
        PROVE  Whole(outbox'[k].doc, delivered)
    <3>1. outbox'[k].doc = outbox[k].doc /\ outbox[k].status = "posted"
      BY <1>2, <1>4, <2>1
    <3> QED
      BY <3>1 DEF IInv, Tables, PostedIsDelivered, Complete, Whole
  <2> QED
    BY <1>3, <1>4, <2>1 DEF PostedIsDelivered, Complete, Whole
<1>7. Tables'
  BY <1>3, <1>4, <1>6 DEF IInv, Tables, IssuedBeforeReceived
<1>8. \A q \in Pushers : Fits(push'[q], outbox', delivered')
  BY <1>1, <1>3, <1>5, <1>7, FitsGrows DEF IInv, InFlight, Tables, Grows
<1>9. ASSUME NEW e \in Producers, enqueuing'[e] # None
      PROVE  EnqueueFits(enqueuing'[e], outbox')
  BY <1>1, <1>3, <1>4, <1>5, <1>9 DEF IInv, InFlight, EnqueueFits, Keeps, Grows
<1> QED
  BY <1>3, <1>7, <1>8, <1>9 DEF IInv, InFlight

\* Every step keeps the invariant.
LEMMA NextInv == IInv /\ [Next]_vars => IInv'
<1> SUFFICES ASSUME IInv, [Next]_vars PROVE IInv'
  OBVIOUS
<1>1. ASSUME NEW e \in Producers,
             (\E d \in Docs : EnqueueRead(e, d)) \/ EnqueueSave(e)
      PROVE  IInv'
  BY <1>1, EnqueueReadInv, EnqueueSaveInv
<1>2. ASSUME NEW p \in Pushers,
             DrainCheck(p) \/ DrainOff(p) \/ (\E i \in 1..Len(outbox) : RetryRead(p, i)) \/ PushStep(p)
      PROVE  IInv'
  BY <1>2, DrainInv, RetryInv, RouteInv, CallAnsweredInv, CallFailedInv, PostedInv,
     MapVoucherInv, FailInv DEF PushStep
<1>3. ASSUME NEW i \in 1..Len(outbox), Tick(i)
      PROVE  IInv'
  BY <1>3, TickInv
<1>4. CASE ToggleHub
  BY <1>4 DEF ToggleHub, IInv, Tables, InFlight, PostedIsDelivered, Complete,
              IssuedBeforeReceived
<1>5. CASE Restart
  <2>1. Tables'
    BY <1>5 DEF Restart, IInv, Tables, PostedIsDelivered, Complete, IssuedBeforeReceived
  <2>2. InFlight'
    BY <1>5, IdleFits DEF Restart, InFlight
  <2> QED
    BY <2>1, <2>2 DEF IInv
<1>6. CASE UNCHANGED vars
  BY <1>6 DEF vars, IInv, Tables, InFlight, PostedIsDelivered, Complete,
              IssuedBeforeReceived
<1> QED
  BY <1>1, <1>2, <1>3, <1>4, <1>5, <1>6 DEF Next

LEMMA Inductive == Spec => []IInv
<1> QED
  BY InitInv, NextInv, PTL DEF Spec

(***************************************************************************)
(* What follows.                                                           *)
(***************************************************************************)
\* The table, the images in memory and the pushes keep their types.
THEOREM TypeCorrect == Spec => []TypeOK
<1>1. IInv => TypeOK
  <2> SUFFICES ASSUME IInv PROVE TypeOK
    OBVIOUS
  <2>1. outbox \in Seq(Row) /\ draining \in BOOLEAN /\ hub \in BOOLEAN
    BY DEF IInv, Tables
  <2>2. ASSUME NEW e \in Producers, enqueuing[e] # None
        PROVE  enqueuing[e].id \in 0..Len(outbox) /\ enqueuing[e].row \in Row
    BY <2>1, <2>2 DEF IInv, InFlight, EnqueueFits, Entry, Keeps
  <2>3. ASSUME NEW p \in Pushers
        PROVE  /\ push[p].at \in Places
               /\ \A i \in 1..Len(push[p].batch) : /\ push[p].batch[i].id \in 1..Len(outbox)
                                                   /\ push[p].batch[i].row \in Row
    <3>1. push[p] \in Work /\ \A i \in 1..Len(push[p].batch) : Keeps(push[p].batch[i], outbox)
      BY DEF IInv, InFlight, Fits
    <3>2. push[p].batch \in Seq(Entry) /\ push[p].at \in Places
      BY <3>1 DEF Work
    <3>3. \A i \in 1..Len(push[p].batch) : push[p].batch[i] \in Entry
      BY <3>2
    <3> QED
      BY <3>1, <3>2, <3>3 DEF Entry, Keeps
  <2> QED
    BY <2>1, <2>2, <2>3 DEF TypeOK, Places
<1> QED
  BY <1>1, Inductive, PTL

\* A row marked posted has been delivered whole, whichever push marked it.
THEOREM PostedMeansDelivered == Spec => []PostedIsDelivered
<1>1. IInv => PostedIsDelivered
  BY DEF IInv, Tables
<1> QED
  BY <1>1, Inductive, PTL

\* The ERP never receives the goods of a transfer before it issued them.
THEOREM TransfersInOrder == Spec => []IssuedBeforeReceived
<1>1. IInv => IssuedBeforeReceived
  BY DEF IInv, Tables
<1> QED
  BY <1>1, Inductive, PTL

\* Only a save of an image that was held before, or of a sale whose mapping
\* failed, takes a posted row up again.
THEOREM PostedStays == Spec => PostedIsFinal
<1> DEFINE Final(i) == (outbox[i].status = "posted" /\ outbox'[i].status # "posted")
                         => HeldBefore(i) \/ MappingFailed(i)
<1>1. ASSUME IInv, [Next]_vars, NEW i \in 1..Len(outbox)
      PROVE  Final(i)
  <2>0. outbox \in Seq(Row)
    BY <1>1 DEF IInv, Tables
  <2>1. CASE UNCHANGED outbox
    BY <2>1
  <2>2. ASSUME NEW e \in Producers, EnqueueSave(e)
        PROVE  Final(i)
    <3>1. CASE enqueuing[e].id = 0
      BY <1>1, <2>0, <2>2, <3>1, AppendProperties DEF EnqueueSave, IInv, InFlight,
         EnqueueFits, Entry
    <3>2. CASE enqueuing[e].id # 0
      BY <1>1, <2>0, <2>2, <3>2 DEF EnqueueSave, Save, HeldBefore
    <3> QED
      BY <3>1, <3>2
  <2>3. ASSUME NEW p \in Pushers, RetrySave(p)
        PROVE  Final(i)
    <3>1. push[p].batch # <<>> /\ push[p] \in Work
      BY <1>1, <2>3 DEF IInv, InFlight, Fits, RetrySave
    <3>2. Image(p).row.status = "pending"
      BY <1>1, <2>3, <3>1, HeadImage DEF IInv, InFlight, Fits, RetrySave, NotYetPosted, Image
    <3> QED
      BY <1>1, <2>0, <2>3, <3>1, <3>2 DEF RetrySave, Save, HeldBefore
  <2>4. ASSUME NEW p \in Pushers, Posted(p)
        PROVE  Final(i)
    <3> DEFINE image == [Image(p) EXCEPT !.row.status = "posted"]
    <3>1. push[p].batch # <<>> /\ push[p] \in Work
      BY <1>1, <2>4 DEF IInv, InFlight, Fits, Posted
    <3>2. image.row.status = "posted"
      BY <3>1, HeadImage DEF Image, Entry, Row
    <3> HIDE DEF image
    <3>3. Save(image) \/ UNCHANGED outbox
      BY <2>4 DEF Posted, image
    <3> QED
      BY <1>1, <2>0, <2>1, <3>2, <3>3 DEF Save
  <2>5. ASSUME NEW p \in Pushers, Fail(p)
        PROVE  Final(i)
    <3> DEFINE image == [Image(p) EXCEPT !.row = AfterFailure(@)]
    <3>1. /\ push[p].batch # <<>> /\ push[p] \in Work
          /\ Fits(push[p], outbox, delivered) /\ push[p].at = "failed"
      BY <1>1, <2>5 DEF IInv, InFlight, Fits, Fail
    <3>2. image.id = Image(p).id /\ Save(image)
      BY <2>5, <3>1, HeadImage DEF Image, Entry, Fail
    <3> HIDE DEF image
    <3>3. Keeps(Image(p), outbox) /\ NotYetPosted(push[p], 1)
      BY <3>1, HeadImage DEF Fits, Image
    <3>4. CASE i # Image(p).id
      BY <1>1, <2>0, <3>2, <3>4 DEF Save
    <3>5. CASE i = Image(p).id /\ Image(p).row.status = "pending"
      BY <3>1, <3>5 DEF HeldBefore
    <3>6. CASE i = Image(p).id /\ Image(p).row.doc \in Sales
      BY <3>1, <3>3, <3>6 DEF Keeps, MappingFailed
    <3> QED
      BY <3>1, <3>3, <3>4, <3>5, <3>6, HeadImage DEF NotYetPosted, Image
  <2>6. ASSUME NEW k \in 1..Len(outbox), Tick(k)
        PROVE  Final(i)
    BY <1>1, <2>0, <2>6 DEF Tick
  <2> QED
    BY <1>1, <2>1, <2>2, <2>3, <2>4, <2>5, <2>6
       DEF Next, vars, PushStep, EnqueueRead, DrainCheck, DrainOff, DrainLoad, RetryRead, Route,
           CallAnswered, CallFailed, MapVoucher, ToggleHub, Restart
<1>2. IInv /\ [Next]_vars =>
        [\A i \in 1..Len(outbox) :
           (outbox[i].status = "posted" /\ outbox'[i].status # "posted")
             => HeldBefore(i) \/ MappingFailed(i)]_vars
  BY <1>1
<1> QED
  BY <1>2, Inductive, PTL DEF Spec, PostedIsFinal
=============================================================================
