--------------------------- MODULE Vouchers_proofs ---------------------------
(***************************************************************************)
(* What holds of the voucher lifecycle for every set of vouchers, stores,  *)
(* salesmen, quantities and requests.                                      *)
(***************************************************************************)
EXTENDS Vouchers, Sums, TLAPS

(***************************************************************************)
(* Whatever overlaps: the image a request may save is never one of an      *)
(* order that is fulfilled but not posted, and rows never disappear.       *)
(***************************************************************************)
ImageOK(q) ==
  /\ q.op \in {"create", "post", "fulfill", "update", "remove"} =>
       q.v \in Vouchers /\ q.snap \in Header
  /\ q.op \in {"create", "post", "update"} => ~q.snap.fulfilled
  /\ q.op = "fulfill" => q.snap.posted /\ q.snap.kind = "ORDER"
  /\ q.op = "remove" => voucher[q.v] # None
  /\ (q.op = "post" /\ q.at = "ready" /\ q.rep # None) => q.snap.kind \in DOMAIN VanEffect
  /\ q.at = "emit" => q.v \in Vouchers

IInv == TypeOK /\ FulfilledIsPosted /\ \A r \in Requests : ImageOK(req[r])

\* Quantities are numbers.
LEMMA QuantityIsNat == \A n \in Quantities \cup {0} : n \in Nat /\ -n \in Int
<1>1. Quantities \subseteq Nat
  BY VouchersAssumption
<1> QED
  BY <1>1

\* The helpers stay within the types.
LEMMA VanTypes ==
  /\ \A row \in VanRow \cup {None} : row # None => row \in VanRow
  /\ \A row \in VanRow \cup {None} : RowOrZero(row) \in VanRow
  /\ \A row \in VanRow, kind \in DOMAIN VanEffect, qty \in Nat :
       ApplyLineToVan(row, kind, qty) \in VanRow
  /\ \A row \in VanRow, qty \in Int : Ship(row, qty) \in VanRow
  /\ \A row \in VanRow, n \in Int : [row EXCEPT !.quantity = NonNegative(@ + n)] \in VanRow
<1>1. \A row \in VanRow \cup {None} : RowOrZero(row) \in VanRow
  BY DEF RowOrZero, VanRow
<1>2. ASSUME NEW row \in VanRow, NEW kind \in DOMAIN VanEffect, NEW qty \in Nat
      PROVE  ApplyLineToVan(row, kind, qty) \in VanRow
  <2>1. VanEffect[kind] \in {"in", "out", "reserve"}
    BY DEF VanEffect
  <2>2. /\ [row EXCEPT !.quantity = @ + qty] \in VanRow
        /\ [row EXCEPT !.quantity = NonNegative(@ - qty)] \in VanRow
        /\ [row EXCEPT !.reserved = @ + qty] \in VanRow
    BY DEF VanRow, NonNegative
  <2> QED
    BY <2>1, <2>2 DEF ApplyLineToVan
<1>3. \A row \in VanRow, qty \in Int : Ship(row, qty) \in VanRow
  BY DEF VanRow, Ship, NonNegative
<1>4. \A row \in VanRow, n \in Int : [row EXCEPT !.quantity = NonNegative(@ + n)] \in VanRow
  BY DEF VanRow, NonNegative
<1> QED
  BY <1>1, <1>2, <1>3, <1>4

\* Requests start idle on empty tables.
LEMMA InitInv == Init => IInv
<1> SUFFICES ASSUME Init PROVE IInv
  OBVIOUS
<1>1. Idle \in Request /\ \A r \in Requests : req[r] = Idle
  BY DEF Init, Idle, Request, Ops, Steps
<1>2. van \in [Reps -> VanRow \cup {None}]
  BY VouchersAssumption DEF Init, VanRow
<1>3. TypeOK
  BY <1>1, <1>2 DEF Init, TypeOK
<1>4. FulfilledIsPosted
  BY DEF Init, FulfilledIsPosted
<1>5. \A r \in Requests : ImageOK(req[r])
  BY <1>1 DEF Idle, ImageOK
<1> QED
  BY <1>3, <1>4, <1>5 DEF IInv

\* A request that reads, or ends, without writing a table.
LEMMA QuietStep ==
  ASSUME IInv, NEW r \in Requests, UNCHANGED <<voucher, van>>,
         NEW q \in Request, ImageOK(q),
         req' = [req EXCEPT ![r] = q],
         announced' \subseteq Vouchers
  PROVE  IInv'
<1>1. TypeOK'
  BY DEF IInv, TypeOK
<1>2. FulfilledIsPosted'
  BY DEF IInv, FulfilledIsPosted
<1>3. ASSUME NEW o \in Requests
      PROVE  ImageOK(req[o])'
  <2>1. ImageOK(req'[o])
    BY DEF IInv, TypeOK
  <2> QED
    BY <2>1 DEF ImageOK
<1> QED
  BY <1>1, <1>2, <1>3 DEF IInv

\* A request that ends, or goes on to emit, having saved its image of a header
\* and a van.
LEMMA WriteStep ==
  ASSUME IInv, NEW r \in Requests,
         NEW v \in Vouchers, NEW row \in Header,
         row.fulfilled => row.posted /\ row.kind = "ORDER",
         voucher' = voucher \/ voucher' = [voucher EXCEPT ![v] = row],
         van' \in [Reps -> VanRow \cup {None}],
         \/ req' = [req EXCEPT ![r] = Idle]
         \/ req' = [req EXCEPT ![r].at = "emit"] /\ req[r].v \in Vouchers,
         UNCHANGED announced
  PROVE  IInv'
<1>1. voucher' \in [Vouchers -> Header \cup {None}] /\ req \in [Requests -> Request]
  BY DEF IInv, TypeOK
<1>2. Idle \in Request /\ [req[r] EXCEPT !.at = "emit"] \in Request
  BY <1>1 DEF Idle, Request, Ops, Steps
<1>3. TypeOK'
  BY <1>1, <1>2 DEF IInv, TypeOK
<1>4. FulfilledIsPosted'
  BY DEF IInv, FulfilledIsPosted, TypeOK
<1>5. ASSUME NEW o \in Requests, ImageOK(req[o])
      PROVE  ImageOK(req[o])'
  <2>2. \A w \in Vouchers : voucher[w] # None => voucher'[w] # None
    BY NoneAssumption DEF IInv, TypeOK
  <2>3. CASE req'[o] = req[o]
    BY <2>2, <2>3, <1>5 DEF ImageOK
  <2>4. CASE req'[o] = Idle
    BY <2>4 DEF ImageOK, Idle
  <2>5. CASE req'[o] = [req[o] EXCEPT !.at = "emit"] /\ req[o].v \in Vouchers
    <3>1. /\ req'[o].op = req[o].op /\ req'[o].v = req[o].v /\ req'[o].snap = req[o].snap
      BY <2>5, <1>1 DEF Request
    <3> QED
      BY <2>2, <2>5, <3>1, <1>5 DEF ImageOK
  <2> QED
    BY <2>3, <2>4, <2>5, <1>1
<1> QED
  BY <1>3, <1>4, <1>5 DEF IInv

\* Every step of every request keeps the invariant.
LEMMA NextInv == IInv /\ [Next]_vars => IInv'
<1> SUFFICES ASSUME IInv, [Next]_vars PROVE IInv'
  OBVIOUS
<1>0. \A r \in Requests : req[r] \in Request /\ ImageOK(req[r])
  BY DEF IInv, TypeOK
<1>1. ASSUME NEW r \in Requests, NEW v \in Vouchers, NEW row \in NewRows(v),
             CreateCheck(r, v, row)
      PROVE  IInv'
  <2> DEFINE q == [Idle EXCEPT !.op = "create", !.at = "read", !.v = v, !.snap = row]
  <2>1. row \in Header /\ ~row.fulfilled
    BY DEF NewRows
  <2>2. q \in Request /\ ImageOK(q)
    BY <2>1 DEF Idle, Request, Ops, Steps, ImageOK
  <2> QED
    BY <1>1, <2>2, QuietStep DEF CreateCheck, Start, IInv, TypeOK
<1>2. ASSUME NEW r \in Requests, CreateCommit(r)
      PROVE  IInv'
  <2>1. /\ req[r].v \in Vouchers /\ req[r].snap \in Header /\ ~req[r].snap.fulfilled
        /\ voucher' = [voucher EXCEPT ![req[r].v] = req[r].snap]
    BY <1>0, <1>2 DEF ImageOK, CreateCommit
  <2>2. \/ req' = [req EXCEPT ![r] = Idle]
        \/ req' = [req EXCEPT ![r].at = "emit"] /\ req[r].v \in Vouchers
    BY <1>2, <2>1 DEF CreateCommit, Finish
  <2>3. van' \in [Reps -> VanRow \cup {None}] /\ UNCHANGED announced
    BY <1>2 DEF CreateCommit, IInv, TypeOK
  <2> QED
    BY <2>1, <2>2, <2>3, WriteStep
<1>3. ASSUME NEW r \in Requests, NEW v \in Vouchers, NEW op \in {"post", "update", "remove"},
             Live(v), ~voucher[v].posted, Start(r, op, v, voucher[v]),
             UNCHANGED <<voucher, van, announced>>
      PROVE  IInv'
  <2> DEFINE q == [Idle EXCEPT !.op = op, !.at = "read", !.v = v, !.snap = voucher[v]]
  <2>1. voucher[v] \in Header /\ ~voucher[v].fulfilled /\ voucher[v] # None
    BY <1>3 DEF Live, IInv, TypeOK, FulfilledIsPosted
  <2>2. q \in Request /\ ImageOK(q)
    BY <2>1 DEF Idle, Request, Ops, Steps, ImageOK
  <2> QED
    BY <1>3, <2>2, QuietStep DEF Start, IInv, TypeOK
<1>4. ASSUME NEW r \in Requests, PostSave(r)
      PROVE  IInv'
  <2> DEFINE image == [req[r].snap EXCEPT !.posted = TRUE]
             rep   == VanOf(req[r].snap)
             q     == [req[r] EXCEPT !.at = "ready", !.snap = image, !.rep = rep,
                                     !.seen = Read(rep),
                                     !.dirty = (voucher[req[r].v] # image)]
  <2>1. req[r] \in Request /\ req[r].op = "post" /\ req[r].at = "read"
    BY <1>0, <1>4 DEF PostSave
  <2>2. req[r].v \in Vouchers /\ req[r].snap \in Header /\ ~req[r].snap.fulfilled
    BY <1>0, <2>1 DEF ImageOK
  <2>3. image \in Header /\ ~image.fulfilled
    BY <2>2 DEF Header
  <2>4. rep \in Reps \cup {None}
    BY <2>2, VouchersAssumption DEF VanOf, Header
  <2>5. Read(rep) \in VanRow \cup {None}
    BY <2>4 DEF Read, IInv, TypeOK
  <2>6. q \in Request
    BY <2>1, <2>3, <2>4, <2>5 DEF Request, Steps
  <2>7. /\ q.op = "post" /\ q.v = req[r].v /\ q.snap = image /\ q.at = "ready"
        /\ q.rep = rep
    BY <2>1, <2>6 DEF Request
  <2>8. rep # None => image.kind \in DOMAIN VanEffect
    BY <2>2 DEF VanOf, Header
  <2>10. ImageOK(q)
    BY <2>2, <2>3, <2>7, <2>8 DEF ImageOK
  <2>9. req' = [req EXCEPT ![r] = q]
    BY <1>4 DEF PostSave
  <2> QED
    BY <1>4, <2>6, <2>9, <2>10, QuietStep DEF PostSave, IInv, TypeOK
<1>5. ASSUME NEW r \in Requests, PostCommit(r)
      PROVE  IInv'
  <2> DEFINE q   == req[r]
             row == ApplyLineToVan(RowOrZero(q.seen), q.snap.kind, q.snap.qty)
  <2>1. q \in Request /\ q.v \in Vouchers /\ q.snap \in Header /\ ~q.snap.fulfilled
    BY <1>0, <1>5 DEF PostCommit, ImageOK
  <2>2. voucher' = voucher \/ voucher' = [voucher EXCEPT ![q.v] = q.snap]
    BY <1>5 DEF PostCommit
  <2>3. q.rep # None => q.snap.kind \in DOMAIN VanEffect
    BY <1>0, <1>5 DEF PostCommit, ImageOK
  <2>4. q.rep # None => row \in VanRow
    <3>1. RowOrZero(q.seen) \in VanRow
      BY <2>1, VanTypes DEF Request
    <3>2. q.snap.qty \in Quantities
      BY <2>1 DEF Header
    <3>3. ASSUME NEW van0 \in VanRow, NEW kind \in DOMAIN VanEffect, NEW qty \in Nat
          PROVE  ApplyLineToVan(van0, kind, qty) \in VanRow
      BY VanTypes
    <3> QED
      BY <2>3, <3>1, <3>2, <3>3, QuantityIsNat
  <2>5. van' \in [Reps -> VanRow \cup {None}]
    BY <1>5, <2>4 DEF PostCommit, IInv, TypeOK
  <2> QED
    BY <1>5, <2>1, <2>2, <2>5, WriteStep DEF PostCommit
<1>6. ASSUME NEW r \in Requests, NEW v \in Vouchers, FulfillRead(r, v)
      PROVE  IInv'
  <2> DEFINE q == [Idle EXCEPT !.op = "fulfill", !.at = "read", !.v = v, !.snap = voucher[v]]
  <2>1. voucher[v] \in Header /\ voucher[v].posted /\ voucher[v].kind = "ORDER"
    BY <1>6 DEF FulfillRead, Live, IInv, TypeOK
  <2>2. q \in Request /\ ImageOK(q)
    BY <2>1 DEF Idle, Request, Ops, Steps, ImageOK
  <2> QED
    BY <1>6, <2>2, QuietStep DEF FulfillRead, Start, IInv, TypeOK
<1>7. ASSUME NEW r \in Requests, FulfillVan(r)
      PROVE  IInv'
  <2> DEFINE rep   == req[r].snap.owner
             image == [req[r].snap EXCEPT !.fulfilled = TRUE]
             q     == [req[r] EXCEPT !.at = "ready", !.rep = rep, !.seen = Read(rep),
                                     !.snap = image]
  <2>1. req[r] \in Request /\ req[r].op = "fulfill"
    BY <1>0, <1>7 DEF FulfillVan
  <2>2. /\ req[r].v \in Vouchers /\ req[r].snap \in Header
        /\ req[r].snap.posted /\ req[r].snap.kind = "ORDER"
    BY <1>0, <2>1 DEF ImageOK
  <2>3. image \in Header /\ image.posted /\ image.kind = "ORDER"
    BY <2>2 DEF Header
  <2>4. rep \in Reps \cup {None}
    BY <2>2, VouchersAssumption DEF Header
  <2>5. Read(rep) \in VanRow \cup {None}
    BY <2>4 DEF Read, IInv, TypeOK
  <2>6. q \in Request /\ q.op = "fulfill" /\ q.v = req[r].v /\ q.snap = image /\ q.at = "ready"
    BY <2>1, <2>3, <2>4, <2>5 DEF Request, Steps
  <2>7. ImageOK(q)
    BY <2>2, <2>3, <2>6 DEF ImageOK
  <2>8. req' = [req EXCEPT ![r] = q]
    BY <1>7 DEF FulfillVan
  <2> QED
    BY <1>7, <2>6, <2>7, <2>8, QuietStep DEF FulfillVan, IInv, TypeOK
<1>8. ASSUME NEW r \in Requests, FulfillCommit(r)
      PROVE  IInv'
  <2>1. /\ req[r] \in Request /\ req[r].v \in Vouchers /\ req[r].snap \in Header
        /\ req[r].snap.posted /\ req[r].snap.kind = "ORDER"
    BY <1>0, <1>8 DEF FulfillCommit, ImageOK
  <2>2. req[r].seen # None => Ship(req[r].seen, req[r].snap.qty) \in VanRow
    BY <2>1, VanTypes, QuantityIsNat DEF Request, Header
  <2>3. van' \in [Reps -> VanRow \cup {None}]
    BY <1>8, <2>2 DEF FulfillCommit, IInv, TypeOK
  <2> QED
    BY <1>8, <2>1, <2>3, WriteStep DEF FulfillCommit, Finish
<1>9. ASSUME NEW r \in Requests, NEW terms \in Terms, UpdateSave(r, terms)
      PROVE  IInv'
  <2> DEFINE row == [req[r].snap EXCEPT !.terms = terms]
  <2>1. req[r].v \in Vouchers /\ req[r].snap \in Header /\ ~req[r].snap.fulfilled
    BY <1>0, <1>9 DEF UpdateSave, ImageOK
  <2>2. row \in Header /\ ~row.fulfilled
    BY <2>1 DEF Header
  <2> QED
    BY <1>9, <2>1, <2>2, WriteStep DEF UpdateSave, Finish, IInv, TypeOK
<1>10. ASSUME NEW r \in Requests, RemoveSave(r)
       PROVE  IInv'
  <2> DEFINE v   == req[r].v
             row == [voucher[v] EXCEPT !.deleted = TRUE]
  <2>1. v \in Vouchers /\ voucher[v] # None
    BY <1>0, <1>10 DEF RemoveSave, ImageOK
  <2>2. voucher[v] \in Header
    BY <2>1 DEF IInv, TypeOK
  <2>3. row \in Header /\ (row.fulfilled => row.posted /\ row.kind = "ORDER")
    BY <2>1, <2>2 DEF Header, IInv, FulfilledIsPosted
  <2>4. voucher' = [voucher EXCEPT ![v] = row]
    BY <1>10 DEF RemoveSave
  <2>5. /\ req' = [req EXCEPT ![r] = Idle] /\ UNCHANGED announced
        /\ van' \in [Reps -> VanRow \cup {None}]
    BY <1>10 DEF RemoveSave, Finish, IInv, TypeOK
  <2> HIDE DEF row, v
  <2> QED
    BY <2>1, <2>3, <2>4, <2>5, WriteStep
<1>11. ASSUME NEW r \in Requests, NEW rep \in Reps, NEW op \in {"load", "unload"},
              NEW qty \in Quantities, VanRead(r, rep, op, qty)
       PROVE  IInv'
  <2> DEFINE q == [Idle EXCEPT !.op = op, !.at = "ready", !.rep = rep, !.seen = van[rep],
                               !.qty = qty]
  <2>1. q \in Request /\ ImageOK(q)
    BY DEF Idle, Request, Ops, Steps, ImageOK, IInv, TypeOK
  <2> QED
    BY <1>11, <2>1, QuietStep DEF VanRead, IInv, TypeOK
<1>12. ASSUME NEW r \in Requests, VanCommit(r)
       PROVE  IInv'
  <2> DEFINE q     == req[r]
             delta == IF q.op = "load" THEN q.qty ELSE -q.qty
             row   == [RowOrZero(q.seen) EXCEPT !.quantity = NonNegative(@ + delta)]
  <2>1. q \in Request
    BY <1>0
  <2>2. RowOrZero(q.seen) \in VanRow
    BY <2>1, VanTypes DEF Request
  <2>3. delta \in Int
    <3>1. q.qty \in Quantities \cup {0}
      BY <2>1 DEF Request
    <3> QED
      BY <3>1, QuantityIsNat
  <2>4. row \in VanRow
    BY <2>2, <2>3, VanTypes
  <2>5. van' \in [Reps -> VanRow \cup {None}]
    BY <1>12, <2>4 DEF VanCommit, IInv, TypeOK
  <2>6. Idle \in Request /\ ImageOK(Idle) /\ req' = [req EXCEPT ![r] = Idle]
    BY <1>12 DEF Idle, Request, Ops, Steps, ImageOK, VanCommit, Finish
  <2>7. TypeOK' /\ FulfilledIsPosted'
    BY <1>12, <2>5, <2>6 DEF VanCommit, IInv, TypeOK, FulfilledIsPosted
  <2>8. \A o \in Requests : ImageOK(req[o])'
    BY <1>12, <2>6 DEF VanCommit, ImageOK, IInv, TypeOK
  <2> QED
    BY <2>7, <2>8 DEF IInv
<1>13. ASSUME NEW r \in Requests, Emit(r) \/ Abort(r)
       PROVE  IInv'
  <2>1. Idle \in Request /\ ImageOK(Idle) /\ req' = [req EXCEPT ![r] = Idle]
    BY <1>13 DEF Idle, Request, Ops, Steps, ImageOK, Emit, Abort, Finish
  <2>2. announced' \subseteq Vouchers
    BY <1>0, <1>13 DEF Emit, Abort, ImageOK, IInv, TypeOK
  <2> QED
    BY <1>13, <2>1, <2>2, QuietStep DEF Emit, Abort
<1>14. CASE UNCHANGED vars
  BY <1>14 DEF vars, IInv, TypeOK, FulfilledIsPosted, ImageOK
<1>15. ASSUME NEW r \in Requests, NEW v \in Vouchers,
              PostRead(r, v) \/ \E op \in {"update", "remove"} : EditRead(r, v, op)
       PROVE  IInv'
  BY <1>3, <1>15 DEF PostRead, EditRead
<1> QED
  BY <1>1, <1>2, <1>4, <1>5, <1>6, <1>7, <1>8, <1>9, <1>10, <1>11, <1>12, <1>13, <1>14,
     <1>15
  DEF Next

\* The strengthening is an invariant of the specification.
THEOREM Inductive == Spec => []IInv
BY InitInv, NextInv, PTL DEF Spec

\* Every variable keeps its type.
THEOREM TypeCorrect == Spec => []TypeOK
<1>1. IInv => TypeOK
  BY DEF IInv
<1> QED
  BY <1>1, Inductive, PTL

\* However many requests overlap, no save leaves an order shipped but unposted.
THEOREM ShippedOrdersArePosted == Spec => []FulfilledIsPosted
<1>1. IInv => FulfilledIsPosted
  BY DEF IInv
<1> QED
  BY <1>1, Inductive, PTL

-----------------------------------------------------------------------------
(***************************************************************************)
(* What a request holds in memory is consistent by itself, whatever the    *)
(* tables have become: it edits drafts, and writes the van it read.        *)
(***************************************************************************)
Sound(q) ==
  /\ q.at = "idle" => q.op = "none"
  /\ q.op \in {"create", "post", "fulfill", "update", "remove"} => ~q.snap.deleted
  /\ q.op \in {"update", "remove"} \/ (q.op = "post" /\ q.at = "read") => ~q.snap.posted
  /\ q.op \in {"create", "update", "remove"} => q.at # "ready"
  /\ (q.op = "post" /\ q.at = "ready") => q.rep = VanOf(q.snap)
  /\ (q.op = "fulfill" /\ q.at = "ready") => q.rep = q.snap.owner /\ q.snap.fulfilled
  /\ (q.at = "ready" /\ q.rep = None) => q.seen = None
  /\ q.op \in {"load", "unload"} => q.rep \in Reps
  /\ (q.op = "post" /\ q.at = "ready") => q.snap.posted

Sounds == IInv /\ \A r \in Requests : Sound(req[r])

LEMMA SoundInit == Init => Sounds
BY InitInv DEF Init, Idle, Sound, Sounds

\* One request takes a step: the others keep what they hold.
LEMMA SoundStep ==
  ASSUME Sounds, IInv', NEW r \in Requests, NEW q, Sound(q), req' = [req EXCEPT ![r] = q]
  PROVE  Sounds'
<1>1. \A o \in Requests : req'[o] = req[o] \/ req'[o] = q BY DEF Sounds, IInv, TypeOK
<1>2. \A o \in Requests : Sound(req'[o]) BY <1>1 DEF Sounds
<1>3. \A o \in Requests : Sound(req[o])' BY <1>2 DEF Sound, VanOf
<1> QED BY <1>3 DEF Sounds

LEMMA SoundNext == Sounds /\ [Next]_vars => Sounds'
<1> SUFFICES ASSUME Sounds, [Next]_vars PROVE Sounds'
  OBVIOUS
<1>0. /\ IInv' /\ req \in [Requests -> Request]
      /\ voucher \in [Vouchers -> Header \cup {None}] /\ van \in [Reps -> VanRow \cup {None}]
      /\ \A r \in Requests : req[r] \in Request /\ ImageOK(req[r]) /\ Sound(req[r])
  BY NextInv DEF Sounds, IInv, TypeOK
<1>1. ASSUME NEW r \in Requests, NEW v \in Vouchers, NEW row \in NewRows(v),
             CreateCheck(r, v, row)
      PROVE  Sounds'
  <2> DEFINE q == [Idle EXCEPT !.op = "create", !.at = "read", !.v = v, !.snap = row]
  <2>1. req' = [req EXCEPT ![r] = q] BY <1>1 DEF CreateCheck, Start
  <2>2. ~row.deleted BY DEF NewRows
  <2>3. Sound(q) BY <2>2 DEF Sound, Idle
  <2> QED BY <1>0, <2>1, <2>3, SoundStep
<1>2. ASSUME NEW r \in Requests, CreateCommit(r)
      PROVE  Sounds'
  <2>1. CASE req' = [req EXCEPT ![r] = Idle]
    <3>1. Sound(Idle) BY DEF Sound, Idle
    <3> QED BY <1>0, <2>1, <3>1, SoundStep
  <2>2. CASE req[r].snap.posted /\ req' = [req EXCEPT ![r].at = "emit"]
    <3> DEFINE q == [req[r] EXCEPT !.at = "emit"]
    <3>1. /\ q.op = "create" /\ q.at = "emit" /\ q.snap = req[r].snap
          /\ ~req[r].snap.deleted
      BY <1>0, <1>2 DEF CreateCommit, Request, Sound
    <3>2. Sound(q) BY <2>2, <3>1 DEF Sound
    <3> QED BY <1>0, <2>2, <3>2, SoundStep
  <2> QED BY <1>2, <2>1, <2>2 DEF CreateCommit, Finish
<1>3. ASSUME NEW r \in Requests, NEW v \in Vouchers, NEW op \in {"post", "update", "remove", "fulfill"},
             Live(v), op # "fulfill" => ~voucher[v].posted, Start(r, op, v, voucher[v])
      PROVE  Sounds'
  <2> DEFINE q == [Idle EXCEPT !.op = op, !.at = "read", !.v = v, !.snap = voucher[v]]
  <2>1. req' = [req EXCEPT ![r] = q] BY <1>3 DEF Start
  <2>2. Sound(q) BY <1>3 DEF Sound, Idle, Live
  <2> QED BY <1>0, <2>1, <2>2, SoundStep
<1>4. ASSUME NEW r \in Requests, PostSave(r)
      PROVE  Sounds'
  <2> DEFINE image == [req[r].snap EXCEPT !.posted = TRUE]
             rep   == VanOf(req[r].snap)
             q     == [req[r] EXCEPT !.at = "ready", !.snap = image, !.rep = rep,
                                     !.seen = Read(rep),
                                     !.dirty = (voucher[req[r].v] # image)]
  <2>1. /\ req' = [req EXCEPT ![r] = q] /\ req[r].op = "post" /\ req[r].snap \in Header
        /\ ~req[r].snap.deleted
    BY <1>0, <1>4 DEF PostSave, ImageOK, Sound
  <2>2. ~image.deleted /\ image.posted /\ VanOf(image) = rep BY <2>1 DEF Header, VanOf
  <2>3. /\ q.op = "post" /\ q.at = "ready" /\ q.snap = image /\ q.rep = rep /\ q.seen = Read(rep)
    <3> HIDE DEF image, rep
    <3> QED BY <1>0, <2>1 DEF Request
  <2>4. Sound(q)
    <3> HIDE DEF image, rep, q
    <3> QED BY <2>2, <2>3 DEF Sound, Read
  <2> QED BY <1>0, <2>1, <2>4, SoundStep
<1>5. ASSUME NEW r \in Requests, PostCommit(r)
      PROVE  Sounds'
  <2> DEFINE q == [req[r] EXCEPT !.at = "emit"]
  <2>1. req' = [req EXCEPT ![r] = q] /\ q.op = "post" /\ q.at = "emit" /\ q.snap = req[r].snap
    BY <1>0, <1>5 DEF PostCommit, Request
  <2>2. Sound(q) BY <1>0, <1>5, <2>1 DEF PostCommit, Sound
  <2> QED BY <1>0, <2>1, <2>2, SoundStep
<1>6. ASSUME NEW r \in Requests, FulfillVan(r)
      PROVE  Sounds'
  <2> DEFINE rep   == req[r].snap.owner
             image == [req[r].snap EXCEPT !.fulfilled = TRUE]
             q     == [req[r] EXCEPT !.at = "ready", !.rep = rep, !.seen = Read(rep),
                                     !.snap = image]
  <2>1. /\ req' = [req EXCEPT ![r] = q] /\ req[r].op = "fulfill" /\ req[r].snap \in Header
        /\ ~req[r].snap.deleted
    BY <1>0, <1>6 DEF FulfillVan, ImageOK, Sound
  <2>2. ~image.deleted /\ image.owner = rep /\ image.fulfilled BY <2>1 DEF Header
  <2>3. q.op = "fulfill" /\ q.at = "ready" /\ q.snap = image /\ q.rep = rep /\ q.seen = Read(rep)
    <3> HIDE DEF image, rep
    <3> QED BY <1>0, <2>1 DEF Request
  <2>4. Sound(q)
    <3> HIDE DEF image, rep, q
    <3> QED BY <2>2, <2>3 DEF Sound, Read
  <2> QED BY <1>0, <2>1, <2>4, SoundStep
<1>7. ASSUME NEW r \in Requests, NEW rep \in Reps, NEW op \in {"load", "unload"},
             NEW qty \in Quantities, VanRead(r, rep, op, qty)
      PROVE  Sounds'
  <2> DEFINE q == [Idle EXCEPT !.op = op, !.at = "ready", !.rep = rep, !.seen = van[rep],
                               !.qty = qty]
  <2>1. req' = [req EXCEPT ![r] = q] BY <1>7 DEF VanRead
  <2>2. Sound(q) BY VouchersAssumption DEF Sound, Idle
  <2> QED BY <1>0, <2>1, <2>2, SoundStep
<1>8. ASSUME NEW r \in Requests, Finish(r)
      PROVE  Sounds'
  <2>1. Sound(Idle) BY DEF Sound, Idle
  <2> QED BY <1>0, <1>8, <2>1, SoundStep DEF Finish
<1>9. CASE UNCHANGED vars
  BY <1>0, <1>9 DEF vars, Sounds, Sound, VanOf
<1> QED
  BY <1>1, <1>2, <1>3, <1>4, <1>5, <1>6, <1>7, <1>8, <1>9
  DEF Next, PostRead, FulfillRead, EditRead, FulfillCommit, UpdateSave, RemoveSave, VanCommit,
      Emit, Abort

\* Requests edit what was a draft when they read it.
THEOREM SoundInductive == Spec => []Sounds
BY SoundInit, SoundNext, PTL DEF Spec

-----------------------------------------------------------------------------
(***************************************************************************)
(* A step that writes a header either puts back an image that was          *)
(* overtaken, or ships an order, or is about a draft.                      *)
(***************************************************************************)
Overwrites(v) == \E r \in Requests : Acts(r) /\ req[r].v = v /\ HeaderOvertaken(r)

\* The row a request read was a draft, unless it ships an order.
LEMMA ReadDraft ==
  ASSUME Sounds, NEW r \in Requests, req[r].op \in {"post", "update", "remove"}, req[r].at # "emit"
  PROVE  ~RowRead(r).posted
<1>1. req[r] \in Request /\ req[r].snap \in Header /\ Sound(req[r])
  BY DEF Sounds, IInv, TypeOK, ImageOK
<1>2. req[r].at \in {"read", "ready"} BY <1>1 DEF Request, Steps, Sound
<1>3. CASE req[r].op = "post" /\ req[r].at = "ready"
  BY <1>1, <1>3 DEF RowRead, Header
<1>4. CASE ~(req[r].op = "post" /\ req[r].at = "ready")
  <2>1. RowRead(r) = req[r].snap BY <1>4 DEF RowRead
  <2>2. req[r].op # "post" \/ req[r].at = "read" BY <1>2, <1>4
  <2> QED BY <1>1, <2>1, <2>2, <1>4 DEF Sound
<1> QED BY <1>3, <1>4

\* A posted voucher is written by an overtaken request, or shipped.
LEMMA FrozenNext ==
  ASSUME Sounds, [Next]_vars, NEW v \in Vouchers, IsPosted(v)
  PROVE  \/ voucher'[v] = voucher[v]
         \/ voucher'[v] = [voucher[v] EXCEPT !.fulfilled = TRUE]
         \/ Overwrites(v)
<1>0. /\ req \in [Requests -> Request]
      /\ voucher \in [Vouchers -> Header \cup {None}] /\ voucher[v] \in Header
      /\ \A r \in Requests : req[r] \in Request /\ ImageOK(req[r]) /\ Sound(req[r])
  BY DEF Sounds, IInv, TypeOK, IsPosted, Live
<1>1. ASSUME NEW r \in Requests, CreateCommit(r)
      PROVE  voucher'[v] = voucher[v]
  BY <1>0, <1>1 DEF CreateCommit, IsPosted, Live
<1>2. ASSUME NEW r \in Requests, (\E terms \in Terms : UpdateSave(r, terms)) \/ RemoveSave(r)
      PROVE  voucher'[v] = voucher[v] \/ Overwrites(v)
  <2>1. CASE req[r].v # v BY <1>0, <1>2, <2>1 DEF UpdateSave, RemoveSave
  <2>2. CASE req[r].v = v
    <3>1. ~RowRead(r).posted BY <1>2, ReadDraft DEF UpdateSave, RemoveSave
    <3>2. req[r].op \in {"update", "remove"} /\ voucher[v].posted
      BY <1>2 DEF IsPosted, UpdateSave, RemoveSave
    <3>4. HeaderOvertaken(r)
      <4>1. voucher[req[r].v] # RowRead(r) BY <2>2, <3>1, <3>2
      <4>2. req[r].op \in {"post", "fulfill", "update", "remove"} BY <3>2
      <4> QED BY <4>1, <4>2 DEF HeaderOvertaken
    <3>3. Acts(r)
      <4>1. req'[r] = Idle
        <5>1. CASE RemoveSave(r) BY <1>0, <5>1 DEF RemoveSave, Finish
        <5>2. CASE \E terms \in Terms : UpdateSave(r, terms) BY <1>0, <5>2 DEF UpdateSave, Finish
        <5> QED BY <1>2, <5>1, <5>2
      <4>2. Idle.op = "none" BY DEF Idle
      <4>3. req[r].op # "none" BY <3>2
      <4> QED BY <4>1, <4>2, <4>3 DEF Acts
    <3> QED BY <2>2, <3>3, <3>4 DEF Overwrites
  <2> QED BY <2>1, <2>2
<1>3. ASSUME NEW r \in Requests, PostCommit(r)
      PROVE  voucher'[v] = voucher[v] \/ Overwrites(v)
  <2>1. CASE req[r].v # v BY <1>0, <1>3, <2>1 DEF PostCommit
  <2>2. CASE req[r].v = v
    <3>1. ~RowRead(r).posted BY <1>3, ReadDraft DEF PostCommit
    <3>2. HeaderOvertaken(r) BY <1>3, <2>2, <3>1 DEF HeaderOvertaken, IsPosted, PostCommit
    <3>3. req'[r].at = "emit" /\ req[r].at = "ready" BY <1>0, <1>3 DEF PostCommit, Request
    <3>4. Acts(r) BY <3>3 DEF Acts
    <3> QED BY <2>2, <3>2, <3>4 DEF Overwrites
  <2> QED BY <2>1, <2>2
<1>4. ASSUME NEW r \in Requests, FulfillCommit(r)
      PROVE  \/ voucher'[v] = voucher[v] \/ voucher'[v] = [voucher[v] EXCEPT !.fulfilled = TRUE]
             \/ Overwrites(v)
  <2>1. CASE req[r].v # v BY <1>0, <1>4, <2>1 DEF FulfillCommit
  <2>2. CASE req[r].v = v /\ voucher[v] # RowRead(r)
    <3>1. HeaderOvertaken(r) BY <1>4, <2>2 DEF HeaderOvertaken, FulfillCommit
    <3>2. Acts(r) BY <1>0, <1>4 DEF Acts, FulfillCommit, Finish, Idle
    <3> QED BY <2>2, <3>1, <3>2 DEF Overwrites
  <2>3. CASE req[r].v = v /\ voucher[v] = RowRead(r)
    <3> DEFINE image == req[r].snap
    <3>1. /\ voucher[v] = [image EXCEPT !.fulfilled = FALSE] /\ image \in Header
          /\ voucher'[v] = image
      BY <1>0, <1>4, <2>3 DEF FulfillCommit, RowRead, ImageOK
    <3>2. CASE image.fulfilled
      <4>1. image = [voucher[v] EXCEPT !.fulfilled = TRUE]
        <5> HIDE DEF image
        <5> QED BY <3>1, <3>2 DEF Header
      <4> QED BY <3>1, <4>1
    <3>3. CASE ~image.fulfilled
      <4>1. image = voucher[v]
        <5> HIDE DEF image
        <5> QED BY <3>1, <3>3 DEF Header
      <4> QED BY <3>1, <4>1
    <3>4. image.fulfilled \in BOOLEAN BY <3>1 DEF Header
    <3> HIDE DEF image
    <3> QED BY <3>2, <3>3, <3>4
  <2> QED BY <2>1, <2>2, <2>3
<1>5. CASE voucher' = voucher BY <1>5
<1> QED
  BY <1>1, <1>2, <1>3, <1>4, <1>5
  DEF Next, vars, CreateCheck, PostRead, FulfillRead, EditRead, PostSave, FulfillVan, VanRead,
      VanCommit, Emit, Abort

\* A posted voucher is immutable but for its shipping, unless two requests
\* overlap: what writes over it is a request that holds an image another one has
\* overtaken ("Cannot edit a posted voucher", update, remove, post).
THEOREM PostedIsImmutable == Spec => PostedIsFrozen
<1>1. Sounds /\ [Next]_vars =>
        [\A v \in Vouchers :
           (Live(v) /\ voucher[v].posted) =>
             \/ voucher'[v] = voucher[v]
             \/ voucher'[v] = [voucher[v] EXCEPT !.fulfilled = TRUE]
             \/ \E r \in Requests : Acts(r) /\ req[r].v = v /\ HeaderOvertaken(r)]_vars
  BY FrozenNext DEF IsPosted, Overwrites
<1> QED
  BY <1>1, SoundInductive, PTL DEF PostedIsFrozen, Spec

\* Who is told of: nobody new but the voucher that was just created as posted, or
\* just posted.
LEMMA NewlyTold ==
  ASSUME Sounds, [Next]_vars, NEW v \in Vouchers, v \in Told', v \notin Told
  PROVE  \E r \in Requests : req[r].v = v /\ (PostCommit(r) \/ (CreateCommit(r) /\ req[r].snap.posted))
<1>0. req \in [Requests -> Request] BY DEF Sounds, IInv, TypeOK
<1>1. ASSUME NEW r \in Requests, NEW q, req' = [req EXCEPT ![r] = q], q.at # "emit",
             announced' = announced
      PROVE  FALSE
  <2>1. PICK o \in Requests : req'[o].at = "emit" /\ req'[o].v = v BY <1>1 DEF Told
  <2>2. o # r BY <1>0, <1>1, <2>1
  <2>3. req'[o] = req[o] BY <1>0, <1>1, <2>2
  <2> QED BY <2>1, <2>3 DEF Told
<1>2. ASSUME NEW r \in Requests, Finish(r), announced' = announced PROVE FALSE
  <2>1. Idle.at # "emit" BY DEF Idle
  <2> QED BY <1>1, <1>2, <2>1 DEF Finish
<1>3. ASSUME NEW r \in Requests, Emit(r) PROVE FALSE
  <2>1. announced' = announced \cup {req[r].v} /\ req[r].at = "emit" BY <1>3 DEF Emit
  <2>2. CASE v \in announced' BY <2>1, <2>2 DEF Told
  <2>3. CASE v \notin announced'
    <3>1. PICK o \in Requests : req'[o].at = "emit" /\ req'[o].v = v BY <2>3 DEF Told
    <3>2. o # r BY <1>0, <1>3, <3>1 DEF Emit, Finish, Idle
    <3>3. req'[o] = req[o] BY <1>0, <1>3, <3>2 DEF Emit, Finish
    <3> QED BY <3>1, <3>3 DEF Told
  <2> QED BY <2>2, <2>3
<1>4. ASSUME NEW r \in Requests, req' = [req EXCEPT ![r].at = "emit"], announced' = announced
      PROVE  req[r].v = v
  <2>1. PICK o \in Requests : req'[o].at = "emit" /\ req'[o].v = v BY <1>4 DEF Told
  <2>2. CASE o = r
    <3>1. req'[r].v = req[r].v BY <1>0, <1>4 DEF Request
    <3> QED BY <2>1, <2>2, <3>1
  <2>3. CASE o # r
    <3>1. req'[o] = req[o] BY <1>0, <1>4, <2>3
    <3> QED BY <2>1, <3>1 DEF Told
  <2> QED BY <2>2, <2>3
<1>5. ASSUME NEW r \in Requests, PostSave(r) \/ FulfillVan(r) PROVE FALSE
  <2>0. req[r] \in Request BY <1>0
  <2>1. ASSUME NEW rep, NEW seen, NEW image, NEW dirty,
               req' = [req EXCEPT ![r] = [@ EXCEPT !.at = "ready", !.snap = image, !.rep = rep,
                                                   !.seen = seen, !.dirty = dirty]],
               announced' = announced
        PROVE  FALSE
    <3> DEFINE q == [req[r] EXCEPT !.at = "ready", !.snap = image, !.rep = rep,
                                   !.seen = seen, !.dirty = dirty]
    <3>1. q.at = "ready" BY <2>0 DEF Request
    <3>2. req' = [req EXCEPT ![r] = q] BY <2>1
    <3> HIDE DEF q
    <3> QED BY <1>1, <2>1, <3>1, <3>2
  <2>2. ASSUME NEW rep, NEW seen, NEW image,
               req' = [req EXCEPT ![r] = [@ EXCEPT !.at = "ready", !.rep = rep,
                                                   !.seen = seen, !.snap = image]],
               announced' = announced
        PROVE  FALSE
    <3> DEFINE q == [req[r] EXCEPT !.at = "ready", !.rep = rep, !.seen = seen, !.snap = image]
    <3>1. q.at = "ready" BY <2>0 DEF Request
    <3>2. req' = [req EXCEPT ![r] = q] BY <2>2
    <3> HIDE DEF q
    <3> QED BY <1>1, <2>2, <3>1, <3>2
  <2>3. CASE PostSave(r) BY <2>1, <2>3 DEF PostSave
  <2>4. CASE FulfillVan(r) BY <2>2, <2>4 DEF FulfillVan
  <2> QED BY <1>5, <2>3, <2>4
<1>6. ASSUME NEW r \in Requests, NEW op, NEW w, NEW row, Start(r, op, w, row),
             announced' = announced
      PROVE  FALSE
  <2> DEFINE q == [Idle EXCEPT !.op = op, !.at = "read", !.v = w, !.snap = row]
  <2>1. req' = [req EXCEPT ![r] = q] BY <1>6 DEF Start
  <2>2. q.at = "read" BY DEF Idle
  <2> HIDE DEF q
  <2> QED BY <1>1, <1>6, <2>1, <2>2
<1>7. ASSUME NEW r \in Requests, NEW rep, NEW op, NEW qty, VanRead(r, rep, op, qty)
      PROVE  FALSE
  <2> DEFINE q == [Idle EXCEPT !.op = op, !.at = "ready", !.rep = rep, !.seen = van[rep],
                               !.qty = qty]
  <2>1. req' = [req EXCEPT ![r] = q] /\ announced' = announced BY <1>7 DEF VanRead
  <2>2. q.at = "ready" BY DEF Idle
  <2> HIDE DEF q
  <2> QED BY <1>1, <2>1, <2>2
<1>8. CASE UNCHANGED vars BY <1>8 DEF vars, Told
<1>9. ASSUME NEW r \in Requests, PostCommit(r) PROVE req[r].v = v BY <1>4, <1>9 DEF PostCommit
<1>10. ASSUME NEW r \in Requests, CreateCommit(r) PROVE req[r].v = v /\ req[r].snap.posted
  BY <1>2, <1>4, <1>10 DEF CreateCommit
<1> QED
  BY <1>2, <1>3, <1>5, <1>6, <1>7, <1>8, <1>9, <1>10
  DEF Next, CreateCheck, PostRead, FulfillRead, EditRead, FulfillCommit, UpdateSave, RemoveSave,
      VanCommit, Abort

\* What the ERP is told of is posted and stays so, unless an overtaken request
\* posts it or writes over it (create, post: the event follows the commit).
THEOREM AnnouncementsCorrect == Spec => AnnouncedIsPosted
<1>1. ASSUME Sounds, [Next]_vars, NEW v \in Vouchers, v \in Told', v \in Told => IsPosted(v)
      PROVE  IsPosted(v)' \/ Overwrites(v)
  <2>0. /\ req \in [Requests -> Request] /\ voucher \in [Vouchers -> Header \cup {None}]
        /\ \A r \in Requests : req[r] \in Request /\ ImageOK(req[r]) /\ Sound(req[r])
    BY <1>1 DEF Sounds, IInv, TypeOK
  <2>1. CASE v \in Told
    <3>1. IsPosted(v) /\ voucher[v] \in Header BY <1>1, <2>0, <2>1 DEF IsPosted, Live
    <3>2. \/ voucher'[v] = voucher[v] \/ voucher'[v] = [voucher[v] EXCEPT !.fulfilled = TRUE]
          \/ Overwrites(v)
      BY <1>1, <3>1, FrozenNext
    <3>3. /\ [voucher[v] EXCEPT !.fulfilled = TRUE] \in Header
          /\ [voucher[v] EXCEPT !.fulfilled = TRUE].posted = voucher[v].posted
          /\ [voucher[v] EXCEPT !.fulfilled = TRUE].deleted = voucher[v].deleted
      BY <3>1 DEF Header
    <3> QED BY <3>1, <3>2, <3>3, NoneAssumption DEF IsPosted, Live
  <2>2. CASE v \notin Told
    <3>1. PICK r \in Requests :
            req[r].v = v /\ (PostCommit(r) \/ (CreateCommit(r) /\ req[r].snap.posted))
      BY <1>1, <2>2, NewlyTold
    <3>2. req[r].snap \in Header /\ ~req[r].snap.deleted
      BY <2>0, <3>1 DEF PostCommit, CreateCommit, ImageOK, Sound
    <3>3. CASE voucher'[v] = req[r].snap /\ req[r].snap.posted
      BY <3>2, <3>3, NoneAssumption DEF IsPosted, Live
    <3>4. CASE PostCommit(r) /\ HeaderOvertaken(r)
      <4>1. req'[r].at = "emit" /\ req[r].at = "ready" BY <2>0, <3>4 DEF PostCommit, Request
      <4>2. Acts(r) BY <4>1 DEF Acts
      <4> QED BY <3>1, <3>4, <4>2 DEF Overwrites
    <3>5. CASE PostCommit(r) /\ ~HeaderOvertaken(r)
      <4>1. voucher'[v] = req[r].snap
        BY <2>0, <3>1, <3>5 DEF PostCommit, HeaderOvertaken
      <4>2. req[r].snap.posted BY <2>0, <3>5 DEF PostCommit, Sound
      <4> QED BY <3>3, <4>1, <4>2
    <3>6. CASE CreateCommit(r) /\ req[r].snap.posted BY <2>0, <3>1, <3>3, <3>6 DEF CreateCommit, IsPosted, Live
    <3> QED BY <3>1, <3>4, <3>5, <3>6
  <2> QED BY <2>1, <2>2
<1>2. Sounds /\ [Next]_vars =>
        [\A v \in Vouchers :
           (v \in Told' /\ (v \in Told => IsPosted(v))) =>
             \/ IsPosted(v)'
             \/ \E r \in Requests : Acts(r) /\ req[r].v = v /\ HeaderOvertaken(r)]_vars
  BY <1>1 DEF Overwrites
<1> QED
  BY <1>2, SoundInductive, PTL DEF AnnouncedIsPosted, Spec

-----------------------------------------------------------------------------
\* What one row adds to the balance of a store, and to the orders of a rep.
Moves(row, s) ==
  IF row = None \/ ~row.posted THEN 0
  ELSE (IF row.to = s THEN row.qty ELSE 0) - (IF row.from = s THEN row.qty ELSE 0)

Orders(row, rep) ==
  IF /\ row # None /\ ~row.deleted
     /\ row.kind = "ORDER" /\ row.posted /\ ~row.fulfilled /\ row.owner = rep
  THEN row.qty ELSE 0

MovesOf(table, s) == [v \in Vouchers |-> Moves(table[v], s)]
OrdersOf(table, rep) == [v \in Vouchers |-> Orders(table[v], rep)]

\* The balance of a store and the open orders of a rep as sums over the table.
LEMMA AsSums ==
  /\ \A s : ItemBalance(s) = InitStock + SumFunctionOnSet(MovesOf(voucher, s), Vouchers)
  /\ \A rep : Ordered(rep) = SumFunctionOnSet(OrdersOf(voucher, rep), Vouchers)
<1>1. ASSUME NEW s PROVE MovesOf(voucher, s) = [v \in Vouchers |-> Movement(v, s)]
  BY DEF MovesOf, Moves, Movement
<1>2. ASSUME NEW rep
      PROVE  OrdersOf(voucher, rep) =
               [v \in Vouchers |->
                  IF OpenOrder(v) /\ voucher[v].owner = rep THEN voucher[v].qty ELSE 0]
  BY DEF OrdersOf, Orders, OpenOrder, Live
<1> QED BY <1>1, <1>2 DEF ItemBalance, Ordered

\* What a row adds is a number.
LEMMA RowInt ==
  ASSUME NEW row \in Header \cup {None}, NEW x
  PROVE  Moves(row, x) \in Int /\ Orders(row, x) \in Nat
<1>1. row # None => row.qty \in Nat BY QuantityIsNat DEF Header
<1> QED BY <1>1 DEF Moves, Orders

Rows(table) == \A v \in Vouchers : table[v] \in Header \cup {None}

\* So are the sums, and one order is at most all of them.
LEMMA TableInt ==
  ASSUME NEW table, Rows(table), NEW x
  PROVE  /\ SumFunctionOnSet(MovesOf(table, x), Vouchers) \in Int
         /\ SumFunctionOnSet(OrdersOf(table, x), Vouchers) \in Nat
         /\ \A v \in Vouchers :
              Orders(table[v], x) <= SumFunctionOnSet(OrdersOf(table, x), Vouchers)
<1>1. \A v \in Vouchers : MovesOf(table, x)[v] \in Int /\ OrdersOf(table, x)[v] \in Nat
  BY RowInt DEF Rows, MovesOf, OrdersOf
<1>2. IsFiniteSet(Vouchers) BY VouchersAssumption
<1>3. SumFunctionOnSet(MovesOf(table, x), Vouchers) \in Int BY <1>1, <1>2, SumInt
<1>4. /\ SumFunctionOnSet(OrdersOf(table, x), Vouchers) \in Nat
      /\ \A v \in Vouchers :
           OrdersOf(table, x)[v] <= SumFunctionOnSet(OrdersOf(table, x), Vouchers)
  BY <1>1, <1>2, SumNat
<1>5. \A v \in Vouchers : OrdersOf(table, x)[v] = Orders(table[v], x) BY DEF OrdersOf
<1> QED BY <1>3, <1>4, <1>5

\* Two tables that differ in one row: the sums differ by what it adds.
LEMMA OneRow ==
  ASSUME NEW table, Rows(table), NEW after, Rows(after), NEW v \in Vouchers,
         \A w \in Vouchers \ {v} : after[w] = table[w], NEW x
  PROVE  /\ SumFunctionOnSet(MovesOf(after, x), Vouchers)
              = SumFunctionOnSet(MovesOf(table, x), Vouchers)
                  - Moves(table[v], x) + Moves(after[v], x)
         /\ SumFunctionOnSet(OrdersOf(after, x), Vouchers)
              = SumFunctionOnSet(OrdersOf(table, x), Vouchers)
                  - Orders(table[v], x) + Orders(after[v], x)
<1> DEFINE m0 == MovesOf(table, x)
           m1 == MovesOf(after, x)
           o0 == OrdersOf(table, x)
           o1 == OrdersOf(after, x)
<1>1. \A w \in Vouchers : m0[w] \in Int /\ m1[w] \in Int /\ o0[w] \in Int /\ o1[w] \in Int
  BY RowInt DEF Rows, MovesOf, OrdersOf
<1>2. \A w \in Vouchers \ {v} : m0[w] = m1[w] /\ o0[w] = o1[w]
  BY DEF MovesOf, OrdersOf
<1>3. /\ m0[v] = Moves(table[v], x) /\ m1[v] = Moves(after[v], x)
      /\ o0[v] = Orders(table[v], x) /\ o1[v] = Orders(after[v], x)
  BY DEF MovesOf, OrdersOf
<1>4. IsFiniteSet(Vouchers) BY VouchersAssumption
<1>5. /\ SumFunctionOnSet(m1, Vouchers) = SumFunctionOnSet(m0, Vouchers) - m0[v] + m1[v]
      /\ SumFunctionOnSet(o1, Vouchers) = SumFunctionOnSet(o0, Vouchers) - o0[v] + o1[v]
  <2> HIDE DEF m0, m1, o0, o1
  <2>1. SumFunctionOnSet(m1, Vouchers) = SumFunctionOnSet(m0, Vouchers) - m0[v] + m1[v]
    BY <1>1, <1>2, <1>4, SumChange
  <2>2. SumFunctionOnSet(o1, Vouchers) = SumFunctionOnSet(o0, Vouchers) - o0[v] + o1[v]
    BY <1>1, <1>2, <1>4, SumChange
  <2> QED BY <2>1, <2>2
<1> QED BY <1>3, <1>5

\* The same of the balances and the orders before and after a step.
LEMMA RowSaved ==
  ASSUME Rows(voucher), Rows(voucher'), NEW v \in Vouchers,
         \A w \in Vouchers \ {v} : voucher'[w] = voucher[w], NEW x
  PROVE  /\ ItemBalance(x)' = ItemBalance(x) - Moves(voucher[v], x) + Moves(voucher'[v], x)
         /\ Ordered(x)' = Ordered(x) - Orders(voucher[v], x) + Orders(voucher'[v], x)
         /\ ItemBalance(x) \in Int
         /\ Ordered(x) \in Nat /\ Orders(voucher[v], x) <= Ordered(x)
         /\ Moves(voucher[v], x) \in Int /\ Moves(voucher'[v], x) \in Int
         /\ Orders(voucher[v], x) \in Nat /\ Orders(voucher'[v], x) \in Nat
<1> DEFINE a == SumFunctionOnSet(MovesOf(voucher, x), Vouchers)
           b == SumFunctionOnSet(MovesOf(voucher', x), Vouchers)
           c == SumFunctionOnSet(OrdersOf(voucher, x), Vouchers)
           d == SumFunctionOnSet(OrdersOf(voucher', x), Vouchers)
<1>1. /\ ItemBalance(x) = InitStock + a /\ ItemBalance(x)' = InitStock + b
      /\ Ordered(x) = c /\ Ordered(x)' = d
  <2>1. MovesOf(voucher', x) = [w \in Vouchers |-> Movement(w, x)']
    BY DEF MovesOf, Moves, Movement
  <2>2. OrdersOf(voucher', x) =
          [w \in Vouchers |->
             (IF OpenOrder(w) /\ voucher[w].owner = x THEN voucher[w].qty ELSE 0)']
    BY DEF OrdersOf, Orders, OpenOrder, Live
  <2> QED BY <2>1, <2>2, AsSums DEF ItemBalance, Ordered
<1>2. a \in Int /\ c \in Nat /\ Orders(voucher[v], x) <= c BY TableInt
<1>3. /\ b = a - Moves(voucher[v], x) + Moves(voucher'[v], x)
      /\ d = c - Orders(voucher[v], x) + Orders(voucher'[v], x)
  BY OneRow
<1>4. /\ Moves(voucher[v], x) \in Int /\ Moves(voucher'[v], x) \in Int
      /\ Orders(voucher[v], x) \in Nat /\ Orders(voucher'[v], x) \in Nat
  BY RowInt DEF Rows
<1>5. InitStock \in Int BY VouchersAssumption
<1> HIDE DEF a, b, c, d
<1> QED BY <1>1, <1>2, <1>3, <1>4, <1>5

-----------------------------------------------------------------------------
(***************************************************************************)
(* The reservations of a van: a request that is not overtaken moves them   *)
(* by what the row it writes adds to the open orders, or takes from them.  *)
(***************************************************************************)
LEMMA BalanceMoves ==
  ASSUME IInv, IInv', NEW v \in Vouchers, \A w \in Vouchers \ {v} : voucher'[w] = voucher[w],
         NEW rep \in Reps, Balanced(rep),
         RowOrZero(van'[rep]).reserved
           = RowOrZero(van[rep]).reserved - Orders(voucher[v], rep) + Orders(voucher'[v], rep)
  PROVE  Balanced(rep)'
<1>1. Rows(voucher) /\ Rows(voucher') BY DEF Rows, IInv, TypeOK
<1>2. /\ Ordered(rep)' = Ordered(rep) - Orders(voucher[v], rep) + Orders(voucher'[v], rep)
      /\ Ordered(rep) \in Nat
  BY <1>1, RowSaved
<1> QED BY <1>2 DEF Balanced

\* A posted order is reserved on the van its request read.
LEMMA PostReserves ==
  ASSUME Sounds, NEW r \in Requests, PostCommit(r), ~HeaderOvertaken(r), ~VanOvertaken(r),
         NEW x \in Reps
  PROVE  LET v == req[r].v IN
         /\ v \in Vouchers /\ \A w \in Vouchers \ {v} : voucher'[w] = voucher[w]
         /\ RowOrZero(van'[x]).reserved
              = RowOrZero(van[x]).reserved - Orders(voucher[v], x) + Orders(voucher'[v], x)
<1>0. /\ req \in [Requests -> Request] /\ req[r] \in Request /\ ImageOK(req[r]) /\ Sound(req[r])
      /\ voucher \in [Vouchers -> Header \cup {None}] /\ van \in [Reps -> VanRow \cup {None}]
  BY DEF Sounds, IInv, TypeOK
<1> DEFINE v == req[r].v
           old == voucher[v]
           row == req[r].snap
           rep == req[r].rep
           seen == req[r].seen
<1>1. /\ req[r].op = "post" /\ req[r].at = "ready" /\ v \in Vouchers /\ row \in Header
      /\ row.posted /\ ~row.deleted /\ ~row.fulfilled /\ rep = VanOf(row)
      /\ old = [row EXCEPT !.posted = FALSE] /\ req[r].dirty
      /\ rep # None => seen = van[rep]
  BY <1>0 DEF PostCommit, HeaderOvertaken, VanOvertaken, RowRead, ImageOK, Sound
<1>2. voucher' = [voucher EXCEPT ![v] = row] BY <1>1 DEF PostCommit
<1>3. voucher'[v] = row /\ \A w \in Vouchers \ {v} : voucher'[w] = voucher[w]
  BY <1>0, <1>1, <1>2
<1>4. Orders(old, x) = 0 BY <1>1 DEF Orders, Header
<1>5. None \notin Reps BY VouchersAssumption
<1>6. van' = IF rep = None THEN van
             ELSE [van EXCEPT ![rep] = ApplyLineToVan(RowOrZero(seen), row.kind, row.qty)]
  BY DEF PostCommit
<1>7. RowOrZero(van[x]) \in VanRow BY <1>0, VanTypes
<1>8. RowOrZero(van[x]).reserved \in Nat BY <1>7 DEF VanRow
<1>9. RowOrZero(van'[x]).reserved = RowOrZero(van[x]).reserved - Orders(old, x) + Orders(row, x)
  <2>1. CASE rep # x
    <3>1. van'[x] = van[x] BY <1>0, <1>6, <2>1
    <3>2. Orders(row, x) = 0
      <4>1. row.kind = "ORDER" => rep = row.owner BY <1>1 DEF VanOf, VanEffect
      <4> QED BY <2>1, <4>1 DEF Orders
    <3> QED BY <1>4, <1>8, <3>1, <3>2
  <2>2. CASE rep = x
    <3>1. row.owner = x /\ row.kind \in DOMAIN VanEffect /\ seen = van[x]
      BY <1>1, <1>5, <2>2 DEF VanOf
    <3>2. van'[x] = ApplyLineToVan(RowOrZero(van[x]), row.kind, row.qty)
      BY <1>0, <1>5, <1>6, <2>2, <3>1
    <3>3. row.qty \in Nat BY <1>1, QuantityIsNat DEF Header
    <3>4. /\ row.kind = "ORDER" => van'[x].reserved = RowOrZero(van[x]).reserved + row.qty
          /\ row.kind # "ORDER" => van'[x].reserved = RowOrZero(van[x]).reserved
      BY <3>1, <3>2, <1>7 DEF ApplyLineToVan, VanEffect, VanRow
    <3>5. van'[x] # None
      <4>1. van'[x] \in VanRow BY <3>1, <3>2, <3>3, <1>7, VanTypes
      <4> QED BY <4>1, NoneAssumption
    <3>6. RowOrZero(van'[x]).reserved = van'[x].reserved BY <3>5 DEF RowOrZero
    <3>7. Orders(row, x) = IF row.kind = "ORDER" THEN row.qty ELSE 0
      <4>1. row # None BY <1>1, NoneAssumption
      <4> QED BY <1>1, <3>1, <4>1 DEF Orders
    <3> HIDE DEF row, old
    <3> QED BY <1>4, <1>8, <3>3, <3>4, <3>6, <3>7
  <2> QED BY <2>1, <2>2
<1> HIDE DEF row, old, v
<1> QED BY <1>1, <1>3, <1>9 DEF old, v

\* A shipped order is released on the van its request read, which holds it if
\* reservations and orders agree.
LEMMA ShipReleases ==
  ASSUME Sounds, NEW r \in Requests, FulfillCommit(r), ~HeaderOvertaken(r), ~VanOvertaken(r),
         NEW x \in Reps, Balanced(x)
  PROVE  LET v == req[r].v IN
         /\ v \in Vouchers /\ \A w \in Vouchers \ {v} : voucher'[w] = voucher[w]
         /\ RowOrZero(van'[x]).reserved
              = RowOrZero(van[x]).reserved - Orders(voucher[v], x) + Orders(voucher'[v], x)
<1>0. /\ req \in [Requests -> Request] /\ req[r] \in Request /\ ImageOK(req[r]) /\ Sound(req[r])
      /\ voucher \in [Vouchers -> Header \cup {None}] /\ van \in [Reps -> VanRow \cup {None}]
  BY DEF Sounds, IInv, TypeOK
<1> DEFINE v == req[r].v
           old == voucher[v]
           row == req[r].snap
           rep == req[r].rep
           seen == req[r].seen
<1>1. /\ req[r].op = "fulfill" /\ req[r].at = "ready" /\ v \in Vouchers /\ row \in Header
      /\ row.posted /\ ~row.deleted /\ row.kind = "ORDER" /\ rep = row.owner
      /\ old = [row EXCEPT !.fulfilled = FALSE]
      /\ rep # None => seen = van[rep]
      /\ rep = None => seen = None
  BY <1>0 DEF FulfillCommit, HeaderOvertaken, VanOvertaken, RowRead, ImageOK, Sound
<1>2. voucher' = [voucher EXCEPT ![v] = row] BY <1>1 DEF FulfillCommit
<1>3. voucher'[v] = row /\ \A w \in Vouchers \ {v} : voucher'[w] = voucher[w]
  BY <1>0, <1>1, <1>2
<1>4. /\ old \in Header /\ old # None /\ row # None
      /\ Orders(old, x) = IF rep = x THEN row.qty ELSE 0
      /\ Orders(row, x) = IF rep = x /\ ~row.fulfilled THEN row.qty ELSE 0
  <2>1. old \in Header /\ row # None BY <1>1, NoneAssumption DEF Header
  <2>2. /\ ~old.deleted /\ old.kind = "ORDER" /\ old.posted /\ ~old.fulfilled
        /\ old.owner = rep /\ old.qty = row.qty
    BY <1>1 DEF Header
  <2>3. old # None BY <2>1, NoneAssumption
  <2> HIDE DEF old, row
  <2> QED BY <1>1, <2>1, <2>2, <2>3 DEF Orders
<1>5. None \notin Reps BY VouchersAssumption
<1>6. van' = IF seen = None THEN van ELSE [van EXCEPT ![rep] = Ship(seen, row.qty)]
  BY DEF FulfillCommit
<1>7. RowOrZero(van[x]) \in VanRow BY <1>0, VanTypes
<1>8. RowOrZero(van[x]).reserved \in Nat BY <1>7 DEF VanRow
<1>10. row.fulfilled BY <1>0, <1>1 DEF Sound
<1>9. RowOrZero(van'[x]).reserved = RowOrZero(van[x]).reserved - Orders(old, x) + Orders(row, x)
  <2>1. CASE rep # x
    <3>1. van'[x] = van[x] BY <1>0, <1>1, <1>6, <2>1
    <3> QED BY <1>4, <1>8, <2>1, <3>1
  <2>2. CASE rep = x
    <3>1. seen = van[x] BY <1>1, <1>5, <2>2
    <3>2. row.qty \in Nat \ {0} BY <1>1, QuantityIsNat, VouchersAssumption DEF Header
    <3>3. Rows(voucher) BY <1>0 DEF Rows
    <3>4. Ordered(x) \in Nat /\ row.qty <= Ordered(x)
      BY <1>1, <1>4, <2>2, <3>3, TableInt, AsSums
    <3>5. RowOrZero(van[x]).reserved = Ordered(x) BY DEF Balanced
    <3>6. seen # None
      <4>1. seen = None => RowOrZero(van[x]).reserved = 0 BY <3>1 DEF RowOrZero
      <4> QED BY <3>2, <3>4, <3>5, <4>1
    <3>7. van'[x] = Ship(van[x], row.qty) BY <1>0, <1>6, <2>2, <3>1, <3>6
    <3>8. van[x] \in VanRow /\ RowOrZero(van[x]) = van[x] BY <1>0, <3>1, <3>6 DEF RowOrZero
    <3>9. van'[x].reserved = Ordered(x) - row.qty
      BY <3>2, <3>4, <3>5, <3>7, <3>8 DEF Ship, NonNegative, VanRow
    <3>10. van'[x] # None
      <4>1. van'[x] \in VanRow BY <3>2, <3>7, <3>8, VanTypes
      <4> QED BY <4>1, NoneAssumption
    <3>11. RowOrZero(van'[x]).reserved = van'[x].reserved BY <3>10 DEF RowOrZero
    <3> HIDE DEF row, old
    <3> QED BY <1>4, <1>10, <2>2, <3>2, <3>4, <3>5, <3>9, <3>11
  <2> QED BY <2>1, <2>2
<1> HIDE DEF row, old, v
<1> QED BY <1>1, <1>3, <1>9 DEF old, v

\* Drafts are not among the open orders, before and after their row is edited,
\* deleted or inserted.
LEMMA DraftReservesNothing ==
  ASSUME Sounds, NEW r \in Requests, ~HeaderOvertaken(r), ~BornPosted(r),
         CreateCommit(r) \/ (\E terms \in Terms : UpdateSave(r, terms)) \/ RemoveSave(r)
  PROVE  LET v == req[r].v IN
         /\ v \in Vouchers /\ \A w \in Vouchers \ {v} : voucher'[w] = voucher[w]
         /\ van' = van
         /\ \A x \in Reps : Orders(voucher[v], x) = 0 /\ Orders(voucher'[v], x) = 0
<1>0. /\ req[r] \in Request /\ ImageOK(req[r]) /\ Sound(req[r])
      /\ voucher \in [Vouchers -> Header \cup {None}]
  BY DEF Sounds, IInv, TypeOK
<1> DEFINE v == req[r].v
<1>1. CASE CreateCommit(r)
  <2>1. /\ v \in Vouchers /\ voucher[v] = None /\ van' = van
        /\ voucher' = [voucher EXCEPT ![v] = req[r].snap]
        /\ req[r].snap.kind = "ORDER" => ~req[r].snap.posted
    BY <1>0, <1>1 DEF CreateCommit, ImageOK, BornPosted
  <2> QED BY <1>0, <2>1 DEF Orders
<1>2. ASSUME NEW terms \in Terms, UpdateSave(r, terms)
      PROVE  /\ v \in Vouchers /\ \A w \in Vouchers \ {v} : voucher'[w] = voucher[w]
             /\ van' = van
             /\ \A x \in Reps : Orders(voucher[v], x) = 0 /\ Orders(voucher'[v], x) = 0
  <2>1. /\ v \in Vouchers /\ req[r].snap \in Header /\ ~req[r].snap.posted /\ van' = van
        /\ voucher[v] = req[r].snap
        /\ voucher' = [voucher EXCEPT ![v] = [req[r].snap EXCEPT !.terms = terms]]
    BY <1>0, <1>2 DEF UpdateSave, ImageOK, Sound, HeaderOvertaken, RowRead
  <2>2. ~[req[r].snap EXCEPT !.terms = terms].posted BY <2>1 DEF Header
  <2> QED BY <1>0, <2>1, <2>2 DEF Orders
<1>3. CASE RemoveSave(r)
  <2>1. /\ v \in Vouchers /\ req[r].snap \in Header /\ ~req[r].snap.posted /\ van' = van
        /\ voucher[v] = req[r].snap
        /\ voucher' = [voucher EXCEPT ![v] = [voucher[v] EXCEPT !.deleted = TRUE]]
    BY <1>0, <1>3 DEF RemoveSave, ImageOK, Sound, HeaderOvertaken, RowRead
  <2>2. ~[req[r].snap EXCEPT !.deleted = TRUE].posted BY <2>1 DEF Header
  <2> QED BY <1>0, <2>1, <2>2 DEF Orders
<1> QED BY <1>1, <1>2, <1>3

\* Loading a van does not touch what it has reserved.
LEMMA LoadReservesNothing ==
  ASSUME Sounds, NEW r \in Requests, VanCommit(r), ~VanOvertaken(r), NEW x \in Reps
  PROVE  RowOrZero(van'[x]).reserved = RowOrZero(van[x]).reserved
<1>0. /\ req[r] \in Request /\ Sound(req[r]) /\ van \in [Reps -> VanRow \cup {None}]
  BY DEF Sounds, IInv, TypeOK
<1> DEFINE rep == req[r].rep
           delta == IF req[r].op = "load" THEN req[r].qty ELSE -req[r].qty
           row == [RowOrZero(van[rep]) EXCEPT !.quantity = NonNegative(@ + delta)]
<1>1. rep \in Reps /\ req[r].seen = van[rep]
  BY <1>0, VouchersAssumption DEF VanCommit, Sound, VanOvertaken
<1>2. van' = [van EXCEPT ![rep] = row] BY <1>1 DEF VanCommit
<1>3. RowOrZero(van[rep]) \in VanRow BY <1>0, <1>1, VanTypes
<1>4. delta \in Int
  <2>1. req[r].qty \in Quantities \cup {0} BY <1>0 DEF Request
  <2> QED BY <2>1, QuantityIsNat
<1>5. row \in VanRow /\ row.reserved = RowOrZero(van[rep]).reserved
  <2> HIDE DEF delta
  <2> QED BY <1>3, <1>4, VanTypes DEF VanRow
<1>6. row # None BY <1>5, NoneAssumption
<1> HIDE DEF row
<1> QED BY <1>0, <1>1, <1>2, <1>5, <1>6 DEF RowOrZero

\* However requests interleave, the reservations of a van leave its open orders
\* only by the save of an overtaken request, or with an order created as posted
\* (post, fulfill; van-stock.service.ts).
THEOREM ReservationsFollow == Spec => ReservedFollowsOrders
<1> DEFINE Lost == \E r \in Requests :
                     Acts(r) /\ (HeaderOvertaken(r) \/ VanOvertaken(r) \/ BornPosted(r))
<1>1. ASSUME Sounds, [Next]_vars, NEW x \in Reps, Balanced(x) PROVE Balanced(x)' \/ Lost
  <2>0. /\ IInv /\ IInv' /\ req \in [Requests -> Request]
        /\ \A r \in Requests : req[r] \in Request /\ ImageOK(req[r]) /\ Sound(req[r])
    BY <1>1, NextInv DEF Sounds, IInv, TypeOK
  <2>1. ASSUME NEW r \in Requests, HeaderOvertaken(r) \/ VanOvertaken(r) \/ BornPosted(r),
               \/ CreateCommit(r) \/ PostCommit(r) \/ FulfillCommit(r) \/ RemoveSave(r)
               \/ (\E terms \in Terms : UpdateSave(r, terms)) \/ VanCommit(r)
        PROVE  Lost
    <3>1. req'[r] = Idle \/ req'[r].at = "emit"
      <4>1. CASE CreateCommit(r) BY <2>0, <4>1 DEF CreateCommit, Finish, Request
      <4>2. CASE PostCommit(r) BY <2>0, <4>2 DEF PostCommit, Request
      <4>3. CASE FulfillCommit(r) BY <2>0, <4>3 DEF FulfillCommit, Finish
      <4>4. CASE RemoveSave(r) BY <2>0, <4>4 DEF RemoveSave, Finish
      <4>5. CASE \E terms \in Terms : UpdateSave(r, terms) BY <2>0, <4>5 DEF UpdateSave, Finish
      <4>6. CASE VanCommit(r) BY <2>0, <4>6 DEF VanCommit, Finish
      <4> QED BY <2>1, <4>1, <4>2, <4>3, <4>4, <4>5, <4>6
    <3>2. req[r].op # "none" /\ req[r].at # "emit"
      BY <2>1 DEF CreateCommit, PostCommit, FulfillCommit, RemoveSave, UpdateSave, VanCommit
    <3>3. Acts(r) BY <3>1, <3>2 DEF Acts, Idle
    <3> QED BY <2>1, <3>3
  <2>2. ASSUME NEW r \in Requests, PostCommit(r) PROVE Balanced(x)' \/ Lost
    BY <1>1, <2>0, <2>1, <2>2, PostReserves, BalanceMoves
  <2>3. ASSUME NEW r \in Requests, FulfillCommit(r) PROVE Balanced(x)' \/ Lost
    BY <1>1, <2>0, <2>1, <2>3, ShipReleases, BalanceMoves
  <2>4. ASSUME NEW r \in Requests,
               CreateCommit(r) \/ (\E terms \in Terms : UpdateSave(r, terms)) \/ RemoveSave(r)
        PROVE  Balanced(x)' \/ Lost
    <3>1. CASE HeaderOvertaken(r) \/ BornPosted(r) BY <2>1, <2>4, <3>1
    <3>2. CASE ~HeaderOvertaken(r) /\ ~BornPosted(r)
      <4> DEFINE v == req[r].v
      <4>1. /\ v \in Vouchers /\ \A w \in Vouchers \ {v} : voucher'[w] = voucher[w]
            /\ van' = van /\ Orders(voucher[v], x) = 0 /\ Orders(voucher'[v], x) = 0
        BY <1>1, <2>4, <3>2, DraftReservesNothing
      <4>2. RowOrZero(van[x]).reserved \in Nat BY <2>0, VanTypes DEF IInv, TypeOK, VanRow
      <4> HIDE DEF v
      <4> QED BY <1>1, <2>0, <4>1, <4>2, BalanceMoves
    <3> QED BY <3>1, <3>2
  <2>5. ASSUME NEW r \in Requests, VanCommit(r) PROVE Balanced(x)' \/ Lost
    <3>1. CASE VanOvertaken(r) BY <2>1, <2>5, <3>1
    <3>2. CASE ~VanOvertaken(r)
      <4>1. RowOrZero(van'[x]).reserved = RowOrZero(van[x]).reserved
        BY <1>1, <2>5, <3>2, LoadReservesNothing
      <4>2. Ordered(x)' = Ordered(x) BY <2>5 DEF VanCommit, Ordered, OpenOrder, Live
      <4> QED BY <1>1, <4>1, <4>2 DEF Balanced
    <3> QED BY <3>1, <3>2
  <2>6. CASE UNCHANGED <<voucher, van>>
    <3>1. Ordered(x)' = Ordered(x) BY <2>6 DEF Ordered, OpenOrder, Live
    <3> QED BY <1>1, <2>6, <3>1 DEF Balanced
  <2> HIDE DEF Lost
  <2> QED
    BY <1>1, <2>2, <2>3, <2>4, <2>5, <2>6
    DEF Next, vars, CreateCheck, PostRead, FulfillRead, EditRead, PostSave, FulfillVan, VanRead,
        Emit, Abort
<1>2. Sounds /\ [Next]_vars =>
        [\A rep \in Reps :
           Balanced(rep) =>
             \/ Balanced(rep)'
             \/ \E r \in Requests :
                  Acts(r) /\ (HeaderOvertaken(r) \/ VanOvertaken(r) \/ BornPosted(r))]_vars
  BY <1>1
<1> QED
  BY <1>2, SoundInductive, PTL DEF ReservedFollowsOrders, Spec

=============================================================================
