------------------------------ MODULE Vouchers ------------------------------
(***************************************************************************)
(* Voucher lifecycle and the two stock ledgers it drives: the per-store    *)
(* balance (the item_balance view over posted vouchers) and the van_stock  *)
(* row of the salesman.  Source: vouchers.service.ts, van-stock.service.ts *)
(*                                                                         *)
(* Every HTTP request runs its own READ COMMITTED transaction through      *)
(* TypeORM: it reads rows, decides on what it read, and saves whole        *)
(* entities back.  A request is therefore split at the awaits between a    *)
(* read and the write that relies on it; `snap` and `seen` are the header  *)
(* and van rows it holds in memory.  repo.save() writes every column that  *)
(* differs from the row it finds, so a save puts the in-memory image back, *)
(* whatever was committed in between.                                      *)
(*                                                                         *)
(* One item is modelled and one line per voucher: the code repeats the     *)
(* same read and write for each line.                                      *)
(***************************************************************************)
EXTENDS Integers, FiniteSets, Functions

CONSTANTS
  Requests,      \* requests in flight at the same time
  Vouchers,      \* voucher numbers clients may use
  Kinds,         \* trans_kinds in use, a subset of TransKinds
  Stores,        \* warehouses
  Reps,          \* salesmen with a van
  Owners,        \* who vouchers are filed for: reps, or None (a user with no rep)
  Quantities,    \* quantities of a line, in base pieces
  MaxQuantity,   \* no line has more
  Terms,         \* values of the header fields PATCH /vouchers/:id may edit
  PostedFlags,   \* what clients send as dto.isPosted, by kind
  InitStock,     \* opening balance of every store
  InitVan,       \* opening quantity on every van; 0 means no van_stock row yet
  MaxVan,        \* bound of the model: pieces a van may hold, and may have reserved
  None           \* SQL NULL, or a row that does not exist

\* transaction_kinds: the kinds the service seeds at start-up, by their sign.
Outgoing == {"SALE", "TRANSFER_OUT", "OUT", "VENDOR_RETURN"}
Incoming == {"RETURN", "TRANSFER_IN", "IN", "PURCHASE"}
Unsigned == {"ORDER", "TRANSFER", "ADJUSTMENT", "PAYMENT_IN", "PAYMENT_OUT"}

TransKinds == Outgoing \cup Incoming \cup Unsigned

\* VAN_EFFECT (its RETURN_IN is left out: no transaction kind has that code).
VanEffect == [SALE |-> "out", TRANSFER_OUT |-> "out", RETURN |-> "in",
              TRANSFER_IN |-> "in", ORDER |-> "reserve"]

ASSUME VouchersAssumption ==
  /\ IsFiniteSet(Vouchers) /\ IsFiniteSet(Requests) /\ Requests # {}
  /\ Kinds \subseteq TransKinds
  /\ Owners \subseteq Reps \cup {None}
  /\ MaxQuantity \in Nat /\ Quantities \subseteq 1..MaxQuantity
  /\ PostedFlags \in [Kinds -> SUBSET BOOLEAN]
  /\ InitStock \in Nat /\ InitVan \in Nat /\ MaxVan \in Nat
  /\ None \notin Reps \cup Vouchers \cup Stores
  /\ Terms # {}

VARIABLES
  voucher,    \* voucher_headers with their line, by voucher number
  van,        \* van_stock of each rep
  req,        \* what each request in flight holds in memory
  announced   \* vouchers an erp.voucher.posted event was emitted for

vars == <<voucher, van, req, announced>>

Header == [kind : Kinds, owner : Owners, qty : Quantities,
           from : Stores \cup {None}, to : Stores \cup {None},
           ref : Vouchers \cup {None}, terms : Terms,
           posted : BOOLEAN, fulfilled : BOOLEAN, deleted : BOOLEAN]

VanRow == [quantity : Nat, reserved : Nat]

ASSUME NoneAssumption == None \notin Header \cup VanRow

Ops == {"none", "create", "post", "fulfill", "update", "remove", "load", "unload"}
Steps == {"idle", "read", "ready", "emit"}

Idle == [op |-> "none", at |-> "idle", v |-> None, rep |-> None,
         snap |-> None, seen |-> None, dirty |-> FALSE, qty |-> 0]

Request == [op : Ops, at : Steps, v : Vouchers \cup {None},
            rep : Reps \cup {None}, snap : Header \cup {None},
            seen : VanRow \cup {None}, dirty : BOOLEAN, qty : Quantities \cup {0}]

-----------------------------------------------------------------------------
(* Helpers                                                                 *)

\* findOne: soft-deleted rows are invisible.
Live(v) == voucher[v] # None /\ ~voucher[v].deleted

\* item_balance: posted lines into the store minus posted lines out of it.
\* The view does not look at deleted_at.
Movement(v, s) ==
  IF voucher[v] = None \/ ~voucher[v].posted THEN 0
  ELSE (IF voucher[v].to = s THEN voucher[v].qty ELSE 0)
       - (IF voucher[v].from = s THEN voucher[v].qty ELSE 0)

ItemBalance(s) ==
  InitStock + SumFunctionOnSet([v \in Vouchers |-> Movement(v, s)], Vouchers)

\* Where a line of this kind moves stock: a transfer between two distinct
\* stores; otherwise the sign of its kind, on the one store the line names.
\* Every modelled line names its store: one that names none moves nothing.
StockMovements(kind) ==
  IF kind = "TRANSFER"
  THEN {[from |-> p[1], to |-> p[2]] : p \in {q \in Stores \X Stores : q[1] # q[2]}}
  ELSE {[from |-> IF kind \in Outgoing THEN s ELSE None,
         to   |-> IF kind \in Incoming THEN s ELSE None] : s \in Stores}

\* Mutant of NonNegative: the clamp is forgotten.
Unclamped(n) == n

NonNegative(n) == IF n < 0 THEN 0 ELSE n

\* A missing van_stock row is created with zeros before the effect.
RowOrZero(row) == IF row = None THEN [quantity |-> 0, reserved |-> 0] ELSE row

ApplyLineToVan(row, kind, qty) ==
  CASE VanEffect[kind] = "in"      -> [row EXCEPT !.quantity = @ + qty]
    [] VanEffect[kind] = "out"     -> [row EXCEPT !.quantity = NonNegative(@ - qty)]
    [] VanEffect[kind] = "reserve" -> [row EXCEPT !.reserved = @ + qty]

WithinBound(row) == row.quantity <= MaxVan /\ row.reserved <= MaxVan

\* The rep whose van a voucher moves, None when nothing is moved.
VanOf(row) == IF row.kind \in DOMAIN VanEffect THEN row.owner ELSE None

\* What a request reads of a van.
Read(rep) == IF rep = None THEN None ELSE van[rep]

\* Inserting a van_stock row another request inserted first violates
\* uq_van_stock_rep_product, and the transaction cannot commit.
VanInsertable(r) ==
  (req[r].rep # None /\ req[r].seen = None) => van[req[r].rep] = None

\* Nobody else's open transaction has updated this header (row lock).
HeaderFree(r, v) ==
  \A o \in Requests \ {r} : ~(req[o].op = "post" /\ req[o].at = "ready"
                                /\ req[o].dirty /\ req[o].v = v)

Finish(r) == req' = [req EXCEPT ![r] = Idle]

Start(r, op, v, row) ==
  req' = [req EXCEPT ![r] = [Idle EXCEPT !.op = op, !.at = "read", !.v = v, !.snap = row]]

-----------------------------------------------------------------------------
Init ==
  /\ voucher = [v \in Vouchers |-> None]
  /\ van = [r \in Reps |-> IF InitVan = 0 THEN None
                           ELSE [quantity |-> InitVan, reserved |-> 0]]
  /\ req = [r \in Requests |-> Idle]
  /\ announced = {}

(***************************************************************************)
(* POST /vouchers.  A RETURN needs a live SALE to refer to and goes back   *)
(* into the store the sale left from; a line that leaves a store needs     *)
(* that much posted balance there, at this moment.                         *)
(***************************************************************************)
RefersToSale(row) ==
  row.kind = "RETURN" =>
    /\ row.ref # None
    /\ Live(row.ref)
    /\ voucher[row.ref].kind = "SALE"
    /\ row.to = voucher[row.ref].from

\* Mutant of InStock: some stock is enough.
SomeInStock(row) == row.from # None => ItemBalance(row.from) > 0

InStock(row) == row.from # None => ItemBalance(row.from) >= row.qty

CreateCheck(r, v, row) ==
  /\ req[r].at = "idle"
  /\ ~Live(v)
  /\ RefersToSale(row)
  /\ InStock(row)
  /\ Start(r, "create", v, row)
  /\ UNCHANGED <<voucher, van, announced>>

\* Rows a client can ask for: RETURN carries a reference, others do not.
NewRows(v) ==
  {row \in Header :
     /\ row.posted \in PostedFlags[row.kind]
     /\ ~row.fulfilled /\ ~row.deleted
     /\ [from |-> row.from, to |-> row.to] \in StockMovements(row.kind)
     /\ row.kind = "RETURN" <=> row.ref # None}

\* Mutant of CreateCommit: drafts are announced as well.
CreateCommitTold(r) ==
  /\ req[r].op = "create" /\ req[r].at = "read"
  /\ voucher[req[r].v] = None
  /\ voucher' = [voucher EXCEPT ![req[r].v] = req[r].snap]
  /\ req' = [req EXCEPT ![r].at = "emit"]
  /\ UNCHANGED <<van, announced>>

\* The insert commits unless the number was taken meanwhile (a soft-deleted
\* row keeps its number in the unique index).
CreateCommit(r) ==
  /\ req[r].op = "create" /\ req[r].at = "read"
  /\ voucher[req[r].v] = None
  /\ voucher' = [voucher EXCEPT ![req[r].v] = req[r].snap]
  /\ IF req[r].snap.posted
     THEN req' = [req EXCEPT ![r].at = "emit"]
     ELSE Finish(r)
  /\ UNCHANGED <<van, announced>>

(***************************************************************************)
(* PATCH /vouchers/:id/post.  Read the header, refuse a posted one, save   *)
(* it with isPosted (the UPDATE takes the row lock, unless the save finds  *)
(* nothing to change), read the van, then write the van and commit.        *)
(***************************************************************************)
PostRead(r, v) ==
  /\ req[r].at = "idle"
  /\ Live(v)
  /\ ~voucher[v].posted
  /\ Start(r, "post", v, voucher[v])
  /\ UNCHANGED <<voucher, van, announced>>

PostSave(r) ==
  LET image == [req[r].snap EXCEPT !.posted = TRUE]
      rep   == VanOf(req[r].snap)
  IN
  /\ req[r].op = "post" /\ req[r].at = "read"
  /\ HeaderFree(r, req[r].v)
  /\ req' = [req EXCEPT ![r] = [@ EXCEPT
               !.at = "ready", !.snap = image, !.rep = rep, !.seen = Read(rep),
               !.dirty = (voucher[req[r].v] # image)]]
  /\ UNCHANGED <<voucher, van, announced>>

PostCommit(r) ==
  LET q   == req[r]
      row == ApplyLineToVan(RowOrZero(q.seen), q.snap.kind, q.snap.qty)
  IN
  /\ q.op = "post" /\ q.at = "ready"
  /\ VanInsertable(r)
  /\ q.rep # None => WithinBound(row)
  /\ voucher' = IF q.dirty THEN [voucher EXCEPT ![q.v] = q.snap] ELSE voucher
  /\ van' = IF q.rep = None THEN van ELSE [van EXCEPT ![q.rep] = row]
  /\ req' = [req EXCEPT ![r].at = "emit"]
  /\ UNCHANGED announced

(***************************************************************************)
(* PATCH /vouchers/:id/fulfill.  Orders only: release the reservation and  *)
(* ship from the van (skipped when the rep has no van_stock row).          *)
(***************************************************************************)
\* Mutant of FulfillRead: a draft order may be shipped.
FulfillReadDraft(r, v) ==
  /\ req[r].at = "idle"
  /\ Live(v)
  /\ voucher[v].kind = "ORDER" /\ ~voucher[v].fulfilled
  /\ Start(r, "fulfill", v, voucher[v])
  /\ UNCHANGED <<voucher, van, announced>>

FulfillRead(r, v) ==
  /\ req[r].at = "idle"
  /\ Live(v)
  /\ voucher[v].kind = "ORDER" /\ voucher[v].posted /\ ~voucher[v].fulfilled
  /\ Start(r, "fulfill", v, voucher[v])
  /\ UNCHANGED <<voucher, van, announced>>

FulfillVan(r) ==
  LET rep == req[r].snap.owner IN
  /\ req[r].op = "fulfill" /\ req[r].at = "read"
  /\ req' = [req EXCEPT ![r] = [@ EXCEPT
               !.at = "ready", !.rep = rep, !.seen = Read(rep),
               !.snap = [req[r].snap EXCEPT !.fulfilled = TRUE]]]
  /\ UNCHANGED <<voucher, van, announced>>

\* Mutant of Ship: the reservation is not released.
ShipOnly(row, qty) == [row EXCEPT !.quantity = NonNegative(@ - qty)]

Ship(row, qty) ==
  [quantity |-> NonNegative(row.quantity - qty), reserved |-> NonNegative(row.reserved - qty)]

FulfillCommit(r) ==
  LET q == req[r] IN
  /\ q.op = "fulfill" /\ q.at = "ready"
  /\ HeaderFree(r, q.v)
  /\ voucher' = [voucher EXCEPT ![q.v] = q.snap]
  /\ van' = IF q.seen = None THEN van
            ELSE [van EXCEPT ![q.rep] = Ship(q.seen, q.snap.qty)]
  /\ Finish(r)
  /\ UNCHANGED announced

(***************************************************************************)
(* PATCH and DELETE /vouchers/:id, both for drafts only.  update() saves   *)
(* the entity it read; remove() issues a softDelete of that id.            *)
(***************************************************************************)
\* Mutant of EditRead: a posted voucher is not refused.
EditReadAny(r, v, op) ==
  /\ req[r].at = "idle"
  /\ op \in {"update", "remove"}
  /\ Live(v)
  /\ Start(r, op, v, voucher[v])
  /\ UNCHANGED <<voucher, van, announced>>

EditRead(r, v, op) ==
  /\ req[r].at = "idle"
  /\ op \in {"update", "remove"}
  /\ Live(v)
  /\ ~voucher[v].posted
  /\ Start(r, op, v, voucher[v])
  /\ UNCHANGED <<voucher, van, announced>>

UpdateSave(r, terms) ==
  LET q == req[r] IN
  /\ q.op = "update" /\ q.at = "read"
  /\ HeaderFree(r, q.v)
  /\ voucher' = [voucher EXCEPT ![q.v] = [q.snap EXCEPT !.terms = terms]]
  /\ Finish(r)
  /\ UNCHANGED <<van, announced>>

RemoveSave(r) ==
  LET q == req[r] IN
  /\ q.op = "remove" /\ q.at = "read"
  /\ HeaderFree(r, q.v)
  /\ voucher' = [voucher EXCEPT ![q.v].deleted = TRUE]
  /\ Finish(r)
  /\ UNCHANGED <<van, announced>>

(***************************************************************************)
(* POST /van-stock/:rep/load and /return: mutate() reads the row and saves *)
(* the clamped sum.                                                        *)
(***************************************************************************)
VanRead(r, rep, op, qty) ==
  /\ req[r].at = "idle"
  /\ op \in {"load", "unload"}
  /\ req' = [req EXCEPT ![r] = [Idle EXCEPT
               !.op = op, !.at = "ready", !.rep = rep, !.seen = van[rep], !.qty = qty]]
  /\ UNCHANGED <<voucher, van, announced>>

VanCommit(r) ==
  LET q     == req[r]
      delta == IF q.op = "load" THEN q.qty ELSE -q.qty
      row   == [RowOrZero(q.seen) EXCEPT !.quantity = NonNegative(@ + delta)]
  IN
  /\ q.op \in {"load", "unload"} /\ q.at = "ready"
  /\ VanInsertable(r)
  /\ WithinBound(row)
  /\ van' = [van EXCEPT ![q.rep] = row]
  /\ Finish(r)
  /\ UNCHANGED <<voucher, announced>>

\* After the commit, create() and post() emit erp.voucher.posted.
Emit(r) ==
  /\ req[r].at = "emit"
  /\ announced' = announced \cup {req[r].v}
  /\ Finish(r)
  /\ UNCHANGED <<voucher, van>>

\* An error or a process crash: an open transaction rolls back, and an event
\* not yet emitted is never emitted.
Abort(r) ==
  /\ req[r].at # "idle"
  /\ Finish(r)
  /\ UNCHANGED <<voucher, van, announced>>

Next ==
  \E r \in Requests :
    \/ \E v \in Vouchers :
         \/ \E row \in NewRows(v) : CreateCheck(r, v, row)
         \/ PostRead(r, v)
         \/ FulfillRead(r, v)
         \/ \E op \in {"update", "remove"} : EditRead(r, v, op)
    \/ CreateCommit(r)
    \/ PostSave(r)
    \/ PostCommit(r)
    \/ FulfillVan(r)
    \/ FulfillCommit(r)
    \/ \E terms \in Terms : UpdateSave(r, terms)
    \/ RemoveSave(r)
    \/ \E rep \in Reps, op \in {"load", "unload"}, qty \in Quantities :
         VanRead(r, rep, op, qty)
    \/ VanCommit(r)
    \/ Emit(r)
    \/ Abort(r)

Spec == Init /\ [][Next]_vars

-----------------------------------------------------------------------------
(* Properties                                                              *)

\* Every variable keeps its type: rows have the columns of their tables and
\* a request is at a step its handler has.
TypeOK ==
  /\ voucher \in [Vouchers -> Header \cup {None}]
  /\ van \in [Reps -> VanRow \cup {None}]
  /\ req \in [Requests -> Request]
  /\ announced \subseteq Vouchers

\* Whatever requests overlap, an order that was shipped is a posted order:
\* no save puts back an image in which it is not.
FulfilledIsPosted ==
  \A v \in Vouchers :
    (voucher[v] # None /\ voucher[v].fulfilled) =>
      voucher[v].posted /\ voucher[v].kind = "ORDER"

\* The row request r read, before it changed its image of it.
RowRead(r) ==
  CASE req[r].op = "post" /\ req[r].at = "ready"    -> [req[r].snap EXCEPT !.posted = FALSE]
    [] req[r].op = "fulfill" /\ req[r].at = "ready" -> [req[r].snap EXCEPT !.fulfilled = FALSE]
    [] OTHER -> req[r].snap

\* Another request has changed, since r read it, what r is about to save (a post
\* that found nothing to change was overtaken by another post).
HeaderOvertaken(r) ==
  /\ req[r].op \in {"post", "fulfill", "update", "remove"}
  /\ \/ voucher[req[r].v] # RowRead(r)
     \/ req[r].op = "post" /\ req[r].at = "ready" /\ ~req[r].dirty
VanOvertaken(r) ==
  req[r].at = "ready" /\ req[r].rep # None /\ van[req[r].rep] # req[r].seen

\* The request that takes this step.
Acts(r) == req'[r] # req[r]

\* Posting makes a voucher immutable ("Cannot edit a posted voucher"): it stays
\* posted and undeleted, its content stays, and its one change is the shipping of
\* an order.  Only a request overtaken by another writes over it, by saving the
\* image it read before.
PostedIsFrozen ==
  [][\A v \in Vouchers :
       (Live(v) /\ voucher[v].posted) =>
         \/ voucher'[v] = voucher[v]
         \/ voucher'[v] = [voucher[v] EXCEPT !.fulfilled = TRUE]
         \/ \E r \in Requests : Acts(r) /\ req[r].v = v /\ HeaderOvertaken(r)]_vars

\* Vouchers the ERP has been told of, or is about to be.
Told == announced \cup {v \in Vouchers : \E r \in Requests : req[r].at = "emit" /\ req[r].v = v}

IsPosted(v) == Live(v) /\ voucher[v].posted

\* The ERP is told of posted, undeleted vouchers only, and they stay so, unless a
\* request overtaken by another posts or saves its image of the voucher.
AnnouncedIsPosted ==
  [][\A v \in Vouchers :
       (v \in Told' /\ (v \in Told => IsPosted(v))) =>
         \/ IsPosted(v)'
         \/ \E r \in Requests : Acts(r) /\ req[r].v = v /\ HeaderOvertaken(r)]_vars

\* A van's reservations are exactly its posted orders still to be shipped.
OpenOrder(v) ==
  /\ Live(v)
  /\ voucher[v].kind = "ORDER" /\ voucher[v].posted /\ ~voucher[v].fulfilled

Ordered(rep) ==
  SumFunctionOnSet([v \in Vouchers |->
    IF OpenOrder(v) /\ voucher[v].owner = rep THEN voucher[v].qty ELSE 0], Vouchers)

Balanced(rep) == RowOrZero(van[rep]).reserved = Ordered(rep)

\* An order a client sends as posted reserves nothing.
BornPosted(r) ==
  req[r].op = "create" /\ req[r].at = "read" /\ req[r].snap.kind = "ORDER" /\ req[r].snap.posted

\* Posting, shipping, editing, deleting, loading: however they interleave, the
\* reservations of a van leave its open orders only when a request writes over a
\* header or a van row that another one changed since it read it, or when an order
\* is created already posted.
ReservedFollowsOrders ==
  [][\A rep \in Reps :
       Balanced(rep) =>
         \/ Balanced(rep)'
         \/ \E r \in Requests : Acts(r) /\ (HeaderOvertaken(r) \/ VanOvertaken(r) \/ BornPosted(r))]_vars

\* The stock check is made before the insert and not again at the commit: sales
\* that overlap all count the same pieces.  When what moves stock is sent as
\* posted, a store is short by at most one line of each other request, however
\* many follow.
ShortOfOthersOnly ==
  \A s \in Stores : ItemBalance(s) >= -((Cardinality(Requests) - 1) * MaxQuantity)

=============================================================================
