---------------------------- MODULE Offers_proofs ----------------------------
(*************************************************************************)
(* Type correctness of the sales with offers, how far the limit of an    *)
(* offer can be exceeded, and the money of a posted sale: the header     *)
(* discount is spread to the last fils, a voucher and an invoice of the  *)
(* same lines agree, and a plain sale costs what its preview said.  For  *)
(* any catalogue, any number of sellers and any requests the DTOs let    *)
(* through.                                                              *)
(*************************************************************************)
EXTENDS Offers, Sums, SequenceTheorems, WellFoundedInduction

\* What a sale is when an action leaves it: the shapes of the records.
LEMMA NoSaleOK == SaleOK(NoSale)
BY DEF SaleOK, NoSale

LEMMA OtherSales ==
  ASSUME NEW s \in Sellers, NEW x, SaleOK(x), TypeOK, sale' = [sale EXCEPT ![s] = x]
  PROVE  DOMAIN sale' = Sellers /\ \A t \in Sellers : SaleOK(sale'[t])
BY DEF TypeOK

\* The offers an evaluation applies were open when it began.
LEMMA AppliedAreOpen ==
  ASSUME NEW request, NEW open, NEW store
  PROVE  Evaluate(request, Granted(request, open, store)).applied \subseteq open
<1> PICK granted : granted = Granted(request, open, store) OBVIOUS
<1>1. granted \subseteq open BY DEF Granted
<1>2. Evaluate(request, granted).applied \subseteq granted BY Zenon DEF Evaluate
<1> QED BY <1>1, <1>2

LEMMA InitTypeOK == Init => TypeOK
BY NoSaleOK DEF Init, TypeOK

\* A sale before it is posted.
LEMMA SellTypeOK ==
  ASSUME TypeOK, NEW s \in Sellers,
         \/ \E request \in Requests : Preview(s, request) \/ Unseen(s, request)
         \/ Leave(s) \/ Confirmed(s) \/ ApplyOffers(s) \/ OffersFail(s) \/ PostFails(s)
  PROVE  TypeOK'
<1>1. UNCHANGED <<active, count, redemptions, sold, edit, missed>>
  BY Zenon DEF Preview, Leave, Unseen, Confirmed, Begin, ApplyOffers, OffersFail, PostFails, Priced
<1>2. \E x : SaleOK(x) /\ sale' = [sale EXCEPT ![s] = x]
  <2>1. ASSUME NEW request \in Requests, NEW preview, Begin(s, request, preview)
        PROVE  \E x : SaleOK(x) /\ sale' = [sale EXCEPT ![s] = x]
    <3> PICK open : open = OpenOffers OBVIOUS
    <3> DEFINE x == [pc |-> "read", request |-> request, open |-> open, preview |-> preview]
    <3>1. open \subseteq Offers BY DEF OpenOffers
    <3>2. sale' = [sale EXCEPT ![s] = x] BY <2>1, Zenon DEF Begin
    <3>3. SaleOK(x) BY <3>1 DEF SaleOK
    <3> QED BY <3>2, <3>3
  <2>2. ASSUME NEW lines, NEW applied, applied \subseteq Offers, NEW shown, sale[s].pc = "read",
               Priced(s, lines, applied, shown)
        PROVE  \E x : SaleOK(x) /\ sale' = [sale EXCEPT ![s] = x]
    <3> DEFINE x == [pc |-> "priced", request |-> sale[s].request, lines |-> lines,
                     applied |-> applied, shown |-> shown]
    <3>1. sale[s].request \in Requests BY <2>2 DEF TypeOK, SaleOK
    <3>2. SaleOK(x) BY <2>2, <3>1 DEF SaleOK
    <3> QED BY <2>2, <3>2 DEF Priced
  <2>3. CASE ApplyOffers(s)
    <3>1. Evaluate(sale[s].request, Granted(sale[s].request, sale[s].open, None)).applied \subseteq Offers
      BY <2>3, AppliedAreOpen DEF TypeOK, SaleOK, ApplyOffers
    <3>2. \E lines, applied, shown : applied \subseteq Offers /\ Priced(s, lines, applied, shown)
      BY <2>3, <3>1, Zenon DEF ApplyOffers
    <3> QED BY <2>2, <2>3, <3>2 DEF ApplyOffers
  <2>4. CASE OffersFail(s)
    <3>1. \E lines, shown : Priced(s, lines, {}, shown) BY <2>4, Zenon DEF OffersFail
    <3> QED BY <2>2, <2>4, <3>1 DEF OffersFail
  <2>5. CASE PostFails(s) \/ Leave(s) BY <2>5, NoSaleOK DEF PostFails, Leave
  <2>6. ASSUME NEW request \in Requests, Preview(s, request)
        PROVE  \E x : SaleOK(x) /\ sale' = [sale EXCEPT ![s] = x]
    <3>1. PICK preview :
            sale' = [sale EXCEPT ![s] = [pc |-> "previewed", request |-> request, preview |-> preview]]
      BY <2>6, Zenon DEF Preview
    <3>2. SaleOK([pc |-> "previewed", request |-> request, preview |-> preview]) BY DEF SaleOK
    <3> QED BY <3>1, <3>2
  <2>7. CASE Confirmed(s)
    <3>1. sale[s].request \in Requests BY <2>7 DEF Confirmed, TypeOK, SaleOK
    <3> QED BY <2>1, <2>7, <3>1 DEF Confirmed
  <2>8. ASSUME NEW request \in Requests, Unseen(s, request)
        PROVE  \E x : SaleOK(x) /\ sale' = [sale EXCEPT ![s] = x]
    BY <2>1, <2>8 DEF Unseen
  <2> QED BY <2>3, <2>4, <2>5, <2>6, <2>7, <2>8
<1>3. DOMAIN sale' = Sellers /\ \A t \in Sellers : SaleOK(sale'[t]) BY <1>2, OtherSales
<1> QED BY <1>1, <1>3 DEF TypeOK

LEMMA PostTypeOK ==
  ASSUME TypeOK, NEW s \in Sellers, Post(s)
  PROVE  TypeOK'
<1>1. sold' = sold + 1 /\ UNCHANGED <<active, count, redemptions, edit, missed>> BY DEF Post
<1>2. PICK lines, mode, voucher, tobacco :
        sale' = [sale EXCEPT ![s] =
          [pc |-> "posted", request |-> sale[s].request, lines |-> lines, mode |-> mode,
           voucher |-> voucher, tobacco |-> tobacco, applied |-> sale[s].applied,
           shown |-> sale[s].shown, number |-> sold + 1]]
  BY Zenon DEF Post
<1>3. sale[s].request \in Requests /\ sale[s].applied \subseteq Offers /\ sold + 1 \in Nat
  BY DEF Post, TypeOK, SaleOK
<1>4. SaleOK([pc |-> "posted", request |-> sale[s].request, lines |-> lines, mode |-> mode,
              voucher |-> voucher, tobacco |-> tobacco, applied |-> sale[s].applied,
              shown |-> sale[s].shown, number |-> sold + 1])
  BY <1>3 DEF SaleOK
<1>5. DOMAIN sale' = Sellers /\ \A t \in Sellers : SaleOK(sale'[t]) BY <1>2, <1>4, OtherSales
<1> QED BY <1>1, <1>3, <1>5 DEF TypeOK

\* Recording what was applied.
LEMMA RecordTypeOK ==
  ASSUME TypeOK, NEW s \in Sellers, Record(s) \/ Count(s) \/ RecordFails(s)
  PROVE  TypeOK'
<1>1. CASE Record(s)
  <2>1. /\ sale[s].request \in Requests /\ sale[s].applied \subseteq Offers /\ sale[s].number \in Nat
    BY <1>1 DEF Record, TypeOK, SaleOK
  <2>2. redemptions' \subseteq Redemption BY <1>1, <2>1 DEF Record, TypeOK, Redemption
  <2>3. SaleOK([pc |-> "counting", applied |-> sale[s].applied]) BY <2>1 DEF SaleOK
  <2>4. DOMAIN sale' = Sellers /\ \A t \in Sellers : SaleOK(sale'[t])
    BY <1>1, <2>3, NoSaleOK, OtherSales DEF Record
  <2> QED BY <1>1, <2>2, <2>4 DEF Record, TypeOK
<1>2. CASE Count(s)
  <2>1. PICK o \in sale[s].applied :
          /\ count' = [count EXCEPT ![o] = @ + 1]
          /\ sale' = [sale EXCEPT ![s] = IF sale[s].applied = {o} THEN NoSale
                                         ELSE [pc |-> "counting", applied |-> @.applied \ {o}]]
    BY <1>2 DEF Count
  <2>2. sale[s].applied \subseteq Offers /\ o \in Offers BY <1>2, <2>1 DEF Count, TypeOK, SaleOK
  <2>3. SaleOK([pc |-> "counting", applied |-> sale[s].applied \ {o}]) BY <2>2 DEF SaleOK
  <2>4. DOMAIN sale' = Sellers /\ \A t \in Sellers : SaleOK(sale'[t])
    BY <2>1, <2>3, NoSaleOK, OtherSales
  <2>5. count' \in [Offers -> Nat] /\ \A p \in Offers : count[p] <= count'[p]
    BY <2>1, <2>2 DEF TypeOK
  <2>6. edit' = edit /\ (edit # None => edit.offer \in Offers)
    BY <1>2, OffersAssumption DEF Count, TypeOK
  <2>7. edit # None => edit.count \in 0..count'[edit.offer]
    BY <2>5, <2>6, SMT DEF TypeOK
  <2> QED BY <1>2, <2>4, <2>5, <2>6, <2>7 DEF Count, TypeOK
<1>3. CASE RecordFails(s)
  <2>1. DOMAIN sale' = Sellers /\ \A t \in Sellers : SaleOK(sale'[t])
    BY <1>3, NoSaleOK, OtherSales DEF RecordFails
  <2>2. missed' \in [Offers -> Nat] BY <1>3 DEF RecordFails, TypeOK
  <2> QED BY <1>3, <2>1, <2>2 DEF RecordFails, TypeOK
<1> QED BY <1>1, <1>2, <1>3

LEMMA ToggleTypeOK ==
  ASSUME TypeOK, (\E o \in Edited : ToggleRead(o)) \/ ToggleSave
  PROVE  TypeOK'
<1>1. ASSUME NEW o \in Edited, ToggleRead(o) PROVE TypeOK'
  <2>1. o \in Offers BY OffersAssumption
  <2>2. count[o] \in 0..count[o] /\ (~active[o]) \in BOOLEAN BY <2>1, SMT DEF TypeOK
  <2> QED BY <1>1, <2>2 DEF ToggleRead, TypeOK
<1>2. CASE ToggleSave
  <2>1. /\ edit.offer \in Offers /\ edit.active \in BOOLEAN
        /\ edit.count \in 0..count[edit.offer] /\ edit' = None
    BY <1>2, OffersAssumption DEF ToggleSave, TypeOK
  <2>2. count' \in [Offers -> Nat] /\ active' \in [Offers -> BOOLEAN]
    BY <1>2, <2>1 DEF ToggleSave, TypeOK
  <2>3. missed' \in [Offers -> Nat] BY <1>2, <2>1, SMT DEF ToggleSave, TypeOK
  <2> QED BY <1>2, <2>1, <2>2, <2>3 DEF ToggleSave, TypeOK
<1> QED BY <1>1, <1>2

LEMMA NextTypeOK == TypeOK /\ [Next]_vars => TypeOK'
<1> SUFFICES ASSUME TypeOK, [Next]_vars PROVE TypeOK' OBVIOUS
<1>1. CASE UNCHANGED vars BY <1>1 DEF vars, TypeOK
<1>2. Carts \subseteq Requests BY OffersAssumption
<1> QED BY <1>1, <1>2, SellTypeOK, PostTypeOK, RecordTypeOK, ToggleTypeOK, Zenon DEF Next, Sell

\* Every variable keeps its type, and the count an administrator holds is
\* never above the count of the offer.
THEOREM TypeCorrect == Spec => []TypeOK
BY InitTypeOK, NextTypeOK, PTL DEF Spec

-----------------------------------------------------------------------------
(***************************************************************************)
(* LimitHolds.  A sale that begins finds the count under the limit; the    *)
(* count lags behind the rows by the redemptions it has missed and by the  *)
(* sales that have saved their rows and not counted them (Saved).  Those   *)
(* sales and the ones that hold the offer are different sellers, so that   *)
(* with the one that begins they are Cardinality(Sellers) at most.         *)
(***************************************************************************)
Saved(o) == {s \in Sellers : sale[s].pc = "counting" /\ o \in sale[s].applied}

Bounded(o) ==
  /\ IsFiniteSet(Redeemed(o))
  /\ Cardinality(Redeemed(o)) <= count[o] + missed[o] + Cardinality(Saved(o))
  /\ Catalogue[o].limit # NoLimit =>
       Cardinality(Redeemed(o)) + Cardinality(Holding(o))
         <= Catalogue[o].limit + missed[o] + Cardinality(Sellers) - 1

\* Sets of sellers are finite, and a part of one is no larger.
LEMMA SellersFinite ==
  /\ IsFiniteSet(Sellers) /\ Cardinality(Sellers) \in Nat \ {0}
  /\ \A S \in SUBSET Sellers : IsFiniteSet(S) /\ Cardinality(S) \in Nat
  /\ \A S \in SUBSET Sellers, T \in SUBSET Sellers :
       S \subseteq T => Cardinality(S) <= Cardinality(T)
<1>1. IsFiniteSet(Sellers) /\ Sellers # {} BY OffersAssumption
<1>2. Cardinality(Sellers) \in Nat \ {0} BY <1>1, FS_CardinalityType, FS_EmptySet
<1>3. \A S \in SUBSET Sellers : IsFiniteSet(S) /\ Cardinality(S) \in Nat
  BY <1>1, FS_Subset, FS_CardinalityType
<1>4. \A S \in SUBSET Sellers, T \in SUBSET Sellers :
        S \subseteq T => Cardinality(S) <= Cardinality(T)
  BY <1>3, FS_Subset
<1> QED BY <1>1, <1>2, <1>3, <1>4

LEMMA SellerSets ==
  ASSUME NEW o \in Offers
  PROVE  /\ Holding(o) \in SUBSET Sellers /\ Saved(o) \in SUBSET Sellers
         /\ Cardinality(Holding(o)) \in Nat /\ Cardinality(Saved(o)) \in Nat
<1>1. Holding(o) \in SUBSET Sellers /\ Saved(o) \in SUBSET Sellers BY DEF Holding, Saved
<1> QED BY <1>1, SellersFinite

\* Sales that give an offer up, with nothing recorded.
LEMMA Quiet ==
  ASSUME TypeOK, TypeOK', NEW o \in Offers, Bounded(o), redemptions' = redemptions,
         count'[o] + missed'[o] = count[o] + missed[o], missed[o] <= missed'[o],
         Holding(o)' \subseteq Holding(o), Saved(o)' = Saved(o)
  PROVE  Bounded(o)'
<1>1. Redeemed(o)' = Redeemed(o) BY DEF Redeemed
<1>2. Holding(o)' \in SUBSET Sellers /\ Holding(o) \in SUBSET Sellers BY DEF Holding
<1>3. /\ Cardinality(Holding(o)') <= Cardinality(Holding(o))
      /\ Cardinality(Holding(o)') \in Nat /\ Cardinality(Holding(o)) \in Nat
  BY <1>2, SellersFinite
<1>4. Cardinality(Redeemed(o)) \in Nat BY FS_CardinalityType DEF Bounded
<1>5. /\ count[o] \in Nat /\ count'[o] \in Nat /\ missed[o] \in Nat /\ missed'[o] \in Nat
      /\ Cardinality(Saved(o)) \in Nat /\ Cardinality(Sellers) \in Nat
      /\ Catalogue[o].limit # NoLimit => Catalogue[o].limit \in Nat
  BY SellerSets, SellersFinite, OffersAssumption DEF TypeOK
<1> DEFINE r == Cardinality(Redeemed(o))  h == Cardinality(Holding(o))
           k == Cardinality(Holding(o)')  v == Cardinality(Saved(o))
           n == Cardinality(Sellers)  l == Catalogue[o].limit
<1>6. r <= count'[o] + missed'[o] + v BY <1>4, <1>5, SMT DEF Bounded
<1>7. l # NoLimit => r + k <= l + missed'[o] + n - 1 BY <1>3, <1>4, <1>5, SMT DEF Bounded
<1> QED BY <1>1, <1>6, <1>7, Zenon DEF Bounded

LEMMA BeginBounded ==
  ASSUME TypeOK, NEW o \in Offers, Bounded(o), NEW s \in Sellers, NEW request, NEW preview,
         sale[s].pc \in {"idle", "previewed"}, Begin(s, request, preview)
  PROVE  Bounded(o)'
<1>1. /\ UNCHANGED <<count, redemptions, missed>>
      /\ DOMAIN sale = Sellers /\ count[o] \in Nat /\ missed[o] \in Nat
  BY DEF Begin, TypeOK
<1>2. PICK open : /\ sale' = [sale EXCEPT ![s] =
                       [pc |-> "read", request |-> request, open |-> open, preview |-> preview]]
                  /\ open = {p \in Offers : active[p] /\ WithinLimit(p, count)}
  BY DEF Begin, OpenOffers
<1>3. Redeemed(o)' = Redeemed(o) /\ Saved(o)' = Saved(o) BY <1>1, <1>2 DEF Redeemed, Saved
<1>4. Holding(o)' = IF o \in open THEN Holding(o) \cup {s} ELSE Holding(o)
  BY <1>1, <1>2 DEF Holding
<1>5. /\ Holding(o) \in SUBSET Sellers /\ Saved(o) \in SUBSET Sellers
      /\ s \notin Holding(o) /\ s \notin Saved(o) /\ Holding(o) \cap Saved(o) = {}
  BY <1>1 DEF Holding, Saved
<1>6. Cardinality(Holding(o)) + Cardinality(Saved(o)) + 1 <= Cardinality(Sellers)
  <2>1. IsFiniteSet(Holding(o)) /\ IsFiniteSet(Saved(o)) BY <1>5, SellersFinite
  <2>2. /\ IsFiniteSet(Holding(o) \cup Saved(o))
        /\ Cardinality(Holding(o) \cup Saved(o)) = Cardinality(Holding(o)) + Cardinality(Saved(o))
                                                     - Cardinality(Holding(o) \cap Saved(o))
    BY <2>1, FS_Union
  <2>3. Cardinality(Holding(o) \cap Saved(o)) = 0 BY <1>5, FS_EmptySet
  <2>4. Cardinality((Holding(o) \cup Saved(o)) \cup {s}) = Cardinality(Holding(o) \cup Saved(o)) + 1
    BY <1>5, <2>2, FS_AddElement
  <2>5. Cardinality((Holding(o) \cup Saved(o)) \cup {s}) <= Cardinality(Sellers)
    BY <1>5, SellersFinite
  <2> QED BY <2>2, <2>3, <2>4, <2>5, SellerSets, SMT
<1>7. /\ Cardinality(Redeemed(o)) \in Nat /\ Cardinality(Sellers) \in Nat
      /\ Cardinality(Holding(o)) \in Nat /\ Cardinality(Saved(o)) \in Nat
  BY FS_CardinalityType, SellerSets, SellersFinite DEF Bounded
<1>8. CASE o \in open
  <2>1. Cardinality(Holding(o)') = Cardinality(Holding(o)) + 1
    BY <1>4, <1>5, <1>8, SellersFinite, FS_AddElement
  <2>2. Catalogue[o].limit # NoLimit => Catalogue[o].limit \in Nat /\ count[o] < Catalogue[o].limit
    BY <1>2, <1>8, OffersAssumption DEF WithinLimit
  <2>3. Catalogue[o].limit # NoLimit =>
          Cardinality(Redeemed(o)) + (Cardinality(Holding(o)) + 1)
            <= Catalogue[o].limit + missed[o] + Cardinality(Sellers) - 1
    BY <1>1, <1>6, <1>7, <2>2, SMT DEF Bounded
  <2> QED BY <1>1, <1>3, <2>1, <2>3 DEF Bounded
<1>9. CASE o \notin open
  <2>1. Holding(o)' = Holding(o) BY <1>4, <1>9
  <2> QED BY <1>1, <1>3, <2>1 DEF Bounded
<1> QED BY <1>8, <1>9

\* The rows of a sale are saved: it no longer holds the offer, and it is to count.
LEMMA RecordBounded ==
  ASSUME TypeOK, NEW o \in Offers, Bounded(o), NEW s \in Sellers, Record(s)
  PROVE  Bounded(o)'
<1> DEFINE row == [offer |-> o, voucher |-> sale[s].number, customer |-> sale[s].request.customer]
<1>1. /\ sale[s].pc = "posted" /\ UNCHANGED <<count, missed>> /\ DOMAIN sale = Sellers
      /\ count[o] \in Nat /\ missed[o] \in Nat
  BY DEF Record, TypeOK
<1>2. Redeemed(o)' = IF o \in sale[s].applied THEN Redeemed(o) \cup {row} ELSE Redeemed(o)
  BY DEF Record, Redeemed
<1>3. sale' = [sale EXCEPT ![s] = IF sale[s].applied = {} THEN NoSale
                                  ELSE [pc |-> "counting", applied |-> sale[s].applied]]
  BY DEF Record
<1>4. /\ Holding(o) \in SUBSET Sellers /\ Saved(o) \in SUBSET Sellers /\ s \notin Saved(o)
      /\ o \in sale[s].applied <=> s \in Holding(o)
  BY <1>1 DEF Holding, Saved
<1>5. Holding(o)' = Holding(o) \ {s} BY <1>1, <1>3 DEF Holding, NoSale
<1>6. Saved(o)' = IF o \in sale[s].applied THEN Saved(o) \cup {s} ELSE Saved(o)
  BY <1>1, <1>3 DEF Saved, NoSale
<1>7. /\ Cardinality(Redeemed(o)) \in Nat /\ Cardinality(Sellers) \in Nat
      /\ Cardinality(Holding(o)) \in Nat /\ Cardinality(Saved(o)) \in Nat
      /\ Catalogue[o].limit # NoLimit => Catalogue[o].limit \in Nat
  BY FS_CardinalityType, SellerSets, SellersFinite, OffersAssumption DEF Bounded
<1>8. CASE o \in sale[s].applied
  <2>1. /\ IsFiniteSet(Redeemed(o)')
        /\ Cardinality(Redeemed(o)') \in {Cardinality(Redeemed(o)), Cardinality(Redeemed(o)) + 1}
    <3>1. Redeemed(o)' = Redeemed(o) \cup {row} BY <1>2, <1>8
    <3>2. IsFiniteSet(Redeemed(o)) BY DEF Bounded
    <3> HIDE DEF row
    <3> QED BY <3>1, <3>2, FS_AddElement
  <2>2. Cardinality(Holding(o)') = Cardinality(Holding(o)) - 1
    BY <1>4, <1>5, <1>8, SellersFinite, FS_RemoveElement
  <2>3. Cardinality(Saved(o)') = Cardinality(Saved(o)) + 1
    BY <1>4, <1>6, <1>8, SellersFinite, FS_AddElement
  <2>4. Cardinality(Redeemed(o)) + 1 <= count[o] + missed[o] + (Cardinality(Saved(o)) + 1)
    BY <1>1, <1>7, SMT DEF Bounded
  <2>5. Catalogue[o].limit # NoLimit =>
          (Cardinality(Redeemed(o)) + 1) + (Cardinality(Holding(o)) - 1)
            <= Catalogue[o].limit + missed[o] + Cardinality(Sellers) - 1
    BY <1>1, <1>7, SMT DEF Bounded
  <2>6. Cardinality(Redeemed(o)') <= count[o] + missed[o] + Cardinality(Saved(o)')
    BY <1>1, <1>7, <2>1, <2>3, <2>4, SMT
  <2>7. Catalogue[o].limit # NoLimit =>
          Cardinality(Redeemed(o)') + Cardinality(Holding(o)')
            <= Catalogue[o].limit + missed[o] + Cardinality(Sellers) - 1
    BY <1>1, <1>7, <2>1, <2>2, <2>5, SMT
  <2> QED BY <1>1, <2>1, <2>6, <2>7 DEF Bounded
<1>9. CASE o \notin sale[s].applied
  <2>1. Redeemed(o)' = Redeemed(o) /\ Saved(o)' = Saved(o) BY <1>2, <1>6, <1>9
  <2>2. Holding(o)' = Holding(o) BY <1>4, <1>5, <1>9
  <2> QED BY <1>1, <2>1, <2>2 DEF Bounded
<1> QED BY <1>8, <1>9

\* An offer of the sale is counted, or never will be.
LEMMA CountBounded ==
  ASSUME TypeOK, TypeOK', NEW o \in Offers, Bounded(o), NEW s \in Sellers, redemptions' = redemptions,
         sale[s].pc = "counting", o \in sale[s].applied,
         count'[o] + missed'[o] = count[o] + missed[o] + 1, missed[o] <= missed'[o],
         Holding(o)' = Holding(o), Saved(o)' = Saved(o) \ {s}
  PROVE  Bounded(o)'
<1>1. Redeemed(o)' = Redeemed(o) BY DEF Redeemed
<1>2. s \in Saved(o) BY DEF Saved
<1>3. Cardinality(Saved(o)') = Cardinality(Saved(o)) - 1
  BY <1>2, SellerSets, SellersFinite, FS_RemoveElement
<1>4. /\ count[o] \in Nat /\ count'[o] \in Nat /\ missed[o] \in Nat /\ missed'[o] \in Nat
      /\ Cardinality(Redeemed(o)) \in Nat /\ Cardinality(Sellers) \in Nat
      /\ Cardinality(Holding(o)) \in Nat /\ Cardinality(Saved(o)) \in Nat
      /\ Catalogue[o].limit # NoLimit => Catalogue[o].limit \in Nat
  BY FS_CardinalityType, SellerSets, SellersFinite, OffersAssumption DEF Bounded, TypeOK
<1>5. Cardinality(Redeemed(o)) <= count'[o] + missed'[o] + (Cardinality(Saved(o)) - 1)
  BY <1>4, SMT DEF Bounded
<1>6. Catalogue[o].limit # NoLimit =>
        Cardinality(Redeemed(o)) + Cardinality(Holding(o))
          <= Catalogue[o].limit + missed'[o] + Cardinality(Sellers) - 1
  BY <1>4, SMT DEF Bounded
<1>7. Cardinality(Redeemed(o)) <= count'[o] + missed'[o] + Cardinality(Saved(o)')
  BY <1>3, <1>5
<1> QED BY <1>1, <1>6, <1>7, Zenon DEF Bounded

-----------------------------------------------------------------------------
LEMMA InitBounded == Init => \A o \in Offers : Bounded(o)
<1> SUFFICES ASSUME Init, NEW o \in Offers PROVE Bounded(o) OBVIOUS
<1>1. Redeemed(o) = {} /\ Holding(o) = {} /\ Saved(o) = {} /\ count[o] = 0 /\ missed[o] = 0
  BY DEF Init, Redeemed, Holding, Saved, NoSale
<1>2. IsFiniteSet({}) /\ Cardinality({}) = 0 BY FS_EmptySet
<1>3. Catalogue[o].limit # NoLimit => 0 + 0 <= Catalogue[o].limit + 0 + Cardinality(Sellers) - 1
  BY SellersFinite, OffersAssumption, SMT
<1> QED BY <1>1, <1>2, <1>3 DEF Bounded

LEMMA NextBounded ==
  ASSUME TypeOK, TypeOK', [Next]_vars, NEW o \in Offers, Bounded(o)
  PROVE  Bounded(o)'
<1>0. /\ count[o] \in Nat /\ missed[o] \in Nat /\ DOMAIN sale = Sellers
  BY DEF TypeOK
<1>1. ASSUME NEW s \in Sellers, (\E request \in Requests : Unseen(s, request)) \/ Confirmed(s)
      PROVE  Bounded(o)'
  <2>1. /\ sale[s].pc \in {"idle", "previewed"}
        /\ \E request, preview : Begin(s, request, preview)
    BY <1>1, Zenon DEF Unseen, Confirmed
  <2> QED BY <2>1, BeginBounded
<1>2. ASSUME NEW s \in Sellers, ApplyOffers(s) \/ OffersFail(s) PROVE Bounded(o)'
  <2>1. PICK lines, applied, shown : applied \subseteq sale[s].open /\ Priced(s, lines, applied, shown)
    <3>1. CASE ApplyOffers(s)
      <4>1. Evaluate(sale[s].request, Granted(sale[s].request, sale[s].open, None)).applied
              \subseteq sale[s].open
        BY AppliedAreOpen
      <4> QED BY <3>1, <4>1, Zenon DEF ApplyOffers
    <3>2. CASE OffersFail(s)
      <4>1. \E lines, shown : Priced(s, lines, {}, shown) BY <3>2, Zenon DEF OffersFail
      <4> QED BY <4>1
    <3> QED BY <1>2, <3>1, <3>2
  <2>2. sale[s].pc = "read" BY <1>2 DEF ApplyOffers, OffersFail
  <2>3. Holding(o)' \subseteq Holding(o) /\ Saved(o)' = Saved(o)
    BY <1>0, <2>1, <2>2 DEF Priced, Holding, Saved
  <2> QED BY <1>0, <2>1, <2>3, Quiet DEF Priced
<1>3. ASSUME NEW s \in Sellers, Post(s) PROVE Bounded(o)'
  <2>1. /\ sale[s].pc = "priced" /\ UNCHANGED <<count, redemptions, missed>> BY <1>3 DEF Post
  <2>2. PICK lines, mode, voucher, tobacco :
          sale' = [sale EXCEPT ![s] =
            [pc |-> "posted", request |-> sale[s].request, lines |-> lines, mode |-> mode,
             voucher |-> voucher, tobacco |-> tobacco, applied |-> sale[s].applied,
             shown |-> sale[s].shown, number |-> sold + 1]]
    BY <1>3, Zenon DEF Post
  <2>3. Holding(o)' = Holding(o) /\ Saved(o)' = Saved(o)
    BY <1>0, <2>1, <2>2 DEF Holding, Saved
  <2> QED BY <1>0, <2>1, <2>3, Quiet
<1>4. ASSUME NEW s \in Sellers,
             (\E request \in Requests : Preview(s, request)) \/ Leave(s) \/ PostFails(s)
      PROVE  Bounded(o)'
  <2>1. PICK x : /\ sale' = [sale EXCEPT ![s] = x] /\ x.pc \in {"idle", "previewed"}
                 /\ sale[s].pc # "counting" /\ UNCHANGED <<count, redemptions, missed>>
    <3>1. CASE Leave(s) \/ PostFails(s) BY <3>1 DEF Leave, PostFails, NoSale
    <3>2. ASSUME NEW request \in Requests, Preview(s, request)
          PROVE  \E x : /\ sale' = [sale EXCEPT ![s] = x] /\ x.pc \in {"idle", "previewed"}
                        /\ sale[s].pc # "counting" /\ UNCHANGED <<count, redemptions, missed>>
      <4>1. PICK preview :
              sale' = [sale EXCEPT ![s] = [pc |-> "previewed", request |-> request, preview |-> preview]]
        BY <3>2, Zenon DEF Preview
      <4>2. sale[s].pc = "idle" /\ UNCHANGED <<count, redemptions, missed>> BY <3>2 DEF Preview
      <4> QED BY <4>1, <4>2
    <3> QED BY <1>4, <3>1, <3>2
  <2>2. Holding(o)' \subseteq Holding(o) /\ Saved(o)' = Saved(o)
    BY <1>0, <2>1 DEF Holding, Saved
  <2> QED BY <1>0, <2>1, <2>2, Quiet
<1>5. ASSUME NEW s \in Sellers, Record(s) PROVE Bounded(o)'
  BY <1>5, RecordBounded
<1>6. ASSUME NEW s \in Sellers, Count(s) PROVE Bounded(o)'
  <2>1. PICK p \in sale[s].applied :
          /\ count' = [count EXCEPT ![p] = @ + 1]
          /\ sale' = [sale EXCEPT ![s] = IF sale[s].applied = {p} THEN NoSale
                                         ELSE [pc |-> "counting", applied |-> sale[s].applied \ {p}]]
    BY <1>6 DEF Count
  <2>2. sale[s].pc = "counting" /\ UNCHANGED <<redemptions, missed>> BY <1>6 DEF Count
  <2>3. Holding(o)' = Holding(o) BY <1>0, <2>1, <2>2 DEF Holding, NoSale
  <2>4. Saved(o)' = IF o = p THEN Saved(o) \ {s} ELSE Saved(o)
    BY <1>0, <2>1, <2>2 DEF Saved, NoSale
  <2>5. count'[o] = IF o = p THEN count[o] + 1 ELSE count[o] BY <2>1 DEF TypeOK
  <2>6. CASE o = p
    <3>1. count'[o] + missed'[o] = count[o] + missed[o] + 1 BY <1>0, <2>2, <2>5, <2>6
    <3> QED BY <1>0, <2>1, <2>2, <2>3, <2>4, <2>6, <3>1, CountBounded
  <2>7. CASE o # p BY <1>0, <2>2, <2>3, <2>4, <2>5, <2>7, Quiet
  <2> QED BY <2>6, <2>7
<1>7. ASSUME NEW s \in Sellers, RecordFails(s) PROVE Bounded(o)'
  <2>1. /\ sale' = [sale EXCEPT ![s] = NoSale] /\ UNCHANGED <<count, redemptions>>
        /\ missed'[o] = IF sale[s].pc = "counting" /\ o \in sale[s].applied
                        THEN missed[o] + 1 ELSE missed[o]
    BY <1>7 DEF RecordFails
  <2>2. Holding(o)' \subseteq Holding(o) /\ Saved(o)' = Saved(o) \ {s}
    BY <1>0, <2>1 DEF Holding, Saved, NoSale
  <2>3. CASE sale[s].pc = "counting" /\ o \in sale[s].applied
    <3>1. Holding(o)' = Holding(o) BY <1>0, <2>1, <2>3 DEF Holding, NoSale
    <3>2. count'[o] + missed'[o] = count[o] + missed[o] + 1 BY <1>0, <2>1, <2>3
    <3>3. missed[o] <= missed'[o] BY <1>0, <2>1, <2>3
    <3> QED BY <2>1, <2>2, <2>3, <3>1, <3>2, <3>3, CountBounded
  <2>4. CASE ~(sale[s].pc = "counting" /\ o \in sale[s].applied)
    <3>1. Saved(o)' = Saved(o) BY <2>2, <2>4 DEF Saved
    <3> QED BY <1>0, <2>1, <2>2, <2>4, <3>1, Quiet
  <2> QED BY <2>3, <2>4
<1>8. ASSUME NEW p \in Edited, ToggleRead(p) PROVE Bounded(o)'
  <2>1. Holding(o)' = Holding(o) /\ Saved(o)' = Saved(o) BY <1>8 DEF ToggleRead, Holding, Saved
  <2> QED BY <1>0, <1>8, <2>1, Quiet DEF ToggleRead
<1>9. CASE ToggleSave
  <2>1. Holding(o)' = Holding(o) /\ Saved(o)' = Saved(o) BY <1>9 DEF ToggleSave, Holding, Saved
  <2>2. /\ edit.offer \in Offers /\ edit.count \in 0..count[edit.offer]
    BY <1>9, OffersAssumption DEF ToggleSave, TypeOK
  <2>3. /\ count' = [count EXCEPT ![edit.offer] = edit.count]
        /\ missed' = [missed EXCEPT ![edit.offer] = @ + count[edit.offer] - edit.count]
        /\ redemptions' = redemptions
    BY <1>9 DEF ToggleSave
  <2>4. count'[o] + missed'[o] = count[o] + missed[o] /\ missed[o] <= missed'[o]
    BY <1>0, <2>2, <2>3, SMT DEF TypeOK
  <2> QED BY <2>1, <2>3, <2>4, Quiet
<1>10. CASE UNCHANGED vars BY <1>10 DEF vars, Bounded, Redeemed, Holding, Saved
<1>11. Carts \subseteq Requests BY OffersAssumption
<1> QED BY <1>1, <1>2, <1>3, <1>4, <1>5, <1>6, <1>7, <1>8, <1>9, <1>10, <1>11, Zenon DEF Next, Sell

\* However many sales overlap and whatever fails to be recorded, an offer is
\* redeemed at most Cardinality(Sellers) - 1 times beyond its limit, and once
\* more for each redemption its count has missed (offers-engine.service.ts,
\* the limit; offers.service.ts, recordApplied and toggle).
THEOREM LimitIsHeld == Spec => []LimitHolds
<1>1. TypeOK /\ TypeOK' /\ [Next]_vars /\ (\A o \in Offers : Bounded(o))
        => (\A o \in Offers : Bounded(o))'
  BY NextBounded
<1>2. TypeOK /\ (\A o \in Offers : Bounded(o)) => LimitHolds
  <2> SUFFICES ASSUME TypeOK, NEW o \in Offers, Bounded(o), Catalogue[o].limit # NoLimit
               PROVE  Cardinality(Redeemed(o)) <= Catalogue[o].limit + missed[o] + Cardinality(Sellers) - 1
    BY Zenon DEF LimitHolds
  <2>1. /\ Cardinality(Redeemed(o)) \in Nat /\ Cardinality(Holding(o)) \in Nat
        /\ Cardinality(Sellers) \in Nat /\ missed[o] \in Nat /\ Catalogue[o].limit \in Nat
    BY FS_CardinalityType, SellerSets, SellersFinite, OffersAssumption DEF Bounded, TypeOK
  <2> QED BY <2>1, SMT DEF Bounded
<1> QED BY <1>1, <1>2, InitBounded, TypeCorrect, PTL DEF Spec

-----------------------------------------------------------------------------
(*************************************************************************)
(* The money of a sale.  No claim about money is inductive over the      *)
(* actions by itself: what survives them is that the lines of a posted   *)
(* sale are lines the DTOs let through with their item's tax, that its   *)
(* voucher was computed of them, and that its preview was what they come *)
(* to (CartsOK, below).  The claims follow from that by facts about the  *)
(* operators alone, which come first: rounding, the shares of a header   *)
(* discount, the evaluation of the offers, and the lines they write.     *)
(*************************************************************************)

\* The division of a fraction, its rounding half up, and percentages.
LEMMA DivBound ==
  ASSUME NEW a \in Int, NEW b \in Nat \ {0}
  PROVE  a \div b \in Int /\ b * (a \div b) <= a /\ a < b * (a \div b) + b
OBVIOUS

\* A quotient is the only one.
LEMMA DivUnique ==
  ASSUME NEW a \in Int, NEW b \in Nat \ {0}, NEW q \in Int, b * q <= a, a < b * q + b
  PROVE  a \div b = q
<1> PICK p : p = a \div b OBVIOUS
<1>1. p \in Int /\ b * p <= a /\ a < b * p + b BY DivBound
<1>2. p > q => b * (p - q - 1) >= 0
  <2>1. p > q => p - q - 1 \in Nat BY <1>1
  <2> QED BY <2>1
<1>3. q > p => b * (q - p - 1) >= 0
  <2>1. q > p => q - p - 1 \in Nat BY <1>1
  <2> QED BY <2>1
<1>4. /\ b * (p - q - 1) = b * p - b * q - b
      /\ b * (q - p - 1) = b * q - b * p - b
  BY <1>1
<1>5. b * p \in Int /\ b * q \in Int BY <1>1
<1> QED BY <1>1, <1>2, <1>3, <1>4, <1>5

\* Math.round is off by half the divisor at most.
LEMMA HalfUpBound ==
  ASSUME NEW n \in Int, NEW d \in Nat \ {0}
  PROVE  /\ HalfUp(n, d) \in Int
         /\ 2 * (d * HalfUp(n, d)) <= 2 * n + d
         /\ 2 * n < 2 * (d * HalfUp(n, d)) + d
<1>1. 2 * n + d \in Int /\ 2 * d \in Nat \ {0} OBVIOUS
<1>2. PICK q \in Int :
        HalfUp(n, d) = q /\ (2 * d) * q <= 2 * n + d /\ 2 * n + d < (2 * d) * q + 2 * d
  BY <1>1, DivBound DEF HalfUp
<1>3. (2 * d) * q = 2 * (d * q) OBVIOUS
<1> QED BY <1>2, <1>3

LEMMA HalfUpIs ==
  ASSUME NEW n \in Int, NEW d \in Nat \ {0}, NEW q \in Int,
         2 * (d * q) <= 2 * n + d, 2 * n < 2 * (d * q) + d
  PROVE  HalfUp(n, d) = q
<1>1. (2 * d) * q = 2 * (d * q) /\ d * q \in Int OBVIOUS
<1>2. 2 * n + d \in Int /\ 2 * d \in Nat \ {0} OBVIOUS
<1>3. (2 * d) * q <= 2 * n + d /\ 2 * n + d < (2 * d) * q + 2 * d BY <1>1
<1>4. (2 * n + d) \div (2 * d) = q BY <1>2, <1>3, DivUnique
<1> QED BY <1>4 DEF HalfUp

LEMMA HalfUpNat ==
  ASSUME NEW n \in Nat, NEW d \in Nat \ {0}
  PROVE  HalfUp(n, d) \in Nat
<1> PICK q : q = HalfUp(n, d) OBVIOUS
<1>1. q \in Int /\ 2 * n < 2 * (d * q) + d BY HalfUpBound
<1>2. q < 0 => d * (0 - 1 - q) >= 0
  <2>1. q < 0 => 0 - 1 - q \in Nat BY <1>1
  <2> QED BY <2>1
<1>3. d * (0 - 1 - q) = 0 - d - d * q /\ d * q \in Int BY <1>1
<1> QED BY <1>1, <1>2, <1>3

LEMMA HalfUpZero == ASSUME NEW d \in Nat \ {0} PROVE HalfUp(0, d) = 0
<1>1. d * 0 = 0 OBVIOUS
<1> QED BY <1>1, HalfUpIs

LEMMA PercentInt == ASSUME NEW n \in Int, NEW p \in Int PROVE Percent(n, p) \in Int
BY HalfUpBound DEF Percent

LEMMA PercentNat == ASSUME NEW n \in Nat, NEW p \in Nat PROVE Percent(n, p) \in Nat
<1>1. n * p \in Nat OBVIOUS
<1> QED BY <1>1, HalfUpNat DEF Percent

LEMMA PercentNone == ASSUME NEW n \in Int PROVE Percent(n, 0) = 0
<1>1. n * 0 = 0 OBVIOUS
<1> QED BY <1>1, HalfUpZero DEF Percent

LEMMA PercentAll == ASSUME NEW n \in Int PROVE Percent(n, 100) = n
BY HalfUpIs DEF Percent

-----------------------------------------------------------------------------
\* Lines of a cart, at least one, and what they come to.
Lines(lines) == \E n \in Nat \ {0} : lines \in [1..n -> Line]

LEMMA NetIs ==
  ASSUME NEW l \in Line
  PROVE  /\ Gross(l) \in Nat /\ LineDiscount(l) \in 0..Gross(l)
         /\ Net(l) \in 0..Gross(l) /\ Net(l) = Gross(l) - LineDiscount(l)
<1>1. Gross(l) \in Nat
  <2>1. l.price \in Nat /\ l.qty \in Nat BY DEF Line
  <2> QED BY <2>1 DEF Gross
<1>2. Percent(Gross(l), l.pct) \in Int /\ l.fils \in Int
  <2>1. l.pct \in Int /\ l.fils \in Int BY DEF Line
  <2>2. Gross(l) \in Int BY <1>1
  <2>3. Percent(Gross(l), l.pct) \in Int BY <2>1, <2>2, PercentInt
  <2> QED BY <2>1, <2>3
<1> QED BY <1>1, <1>2 DEF LineDiscount, Net, clamp, Most, Least

\* A discount takes off no more than there is.
LEMMA DiscountIs ==
  ASSUME NEW base \in Nat, NEW d, d.pct \in Int, d.fils \in Int
  PROVE  computeDiscount(base, d) \in 0..base
<1>1. d.pct > 0 => Percent(base, d.pct) \in Nat
  <2>1. d.pct > 0 => d.pct \in Nat OBVIOUS
  <2> QED BY <2>1, PercentNat
<1> QED BY <1>1 DEF computeDiscount, Most, Least

\* What each line comes to before tax and header discount.
Nets(lines) == [i \in DOMAIN lines |-> Net(lines[i])]

LEMMA NetsAre ==
  ASSUME NEW n \in Nat, NEW lines \in [1..n -> Line]
  PROVE  /\ Nets(lines) \in [1..n -> Nat] /\ Total(Nets(lines)) \in Nat
         /\ \A i \in 1..n : Nets(lines)[i] <= Total(Nets(lines))
<1>1. \A i \in 1..n : Net(lines[i]) \in Nat BY NetIs
<1>2. Nets(lines) \in [1..n -> Nat] BY <1>1 DEF Nets
<1> DEFINE nets == Nets(lines)
<1>3. nets \in [1..n -> Nat] BY <1>2
<1>6. IsFiniteSet(1..n) BY FS_Interval
<1> HIDE DEF nets
<1>4. /\ SumFunctionOnSet(nets, 1..n) \in Nat
      /\ \A i \in 1..n : nets[i] <= SumFunctionOnSet(nets, 1..n)
  BY <1>3, <1>6, SumNat
<1>5. Total(nets) = SumFunctionOnSet(nets, 1..n) BY <1>3 DEF Total
<1> QED BY <1>2, <1>4, <1>5 DEF nets

-----------------------------------------------------------------------------
(*************************************************************************)
(* The shares of a header discount.  Each is rounded by itself, and the  *)
(* last line that comes to something takes what is left over.  The       *)
(* rounded shares are each off by half a fils at most, so the rest is    *)
(* off by half a fils for every line that was rounded before it.         *)
(*************************************************************************)

\* The share of one line, rounded.
ShareOf(net, discount, sum) == IF sum > 0 THEN HalfUp(discount * net, sum) ELSE 0

LEMMA RoundedIs ==
  ASSUME NEW n \in Nat, NEW nets \in [1..n -> Nat], NEW sum \in Nat, sum = Total(nets),
         NEW discount \in Nat
  PROVE  /\ Rounded(nets, discount) \in [1..n -> Nat]
         /\ Total(Rounded(nets, discount)) = SumFunctionOnSet(Rounded(nets, discount), 1..n)
         /\ Total(Rounded(nets, discount)) \in Nat
<1>1. Rounded(nets, discount) = [i \in 1..n |-> ShareOf(nets[i], discount, sum)]
  BY DEF Rounded, ShareOf
<1>2. ASSUME NEW i \in 1..n PROVE ShareOf(nets[i], discount, sum) \in Nat
  <2>1. discount * nets[i] \in Nat OBVIOUS
  <2> QED BY <2>1, HalfUpNat DEF ShareOf
<1>3. Rounded(nets, discount) \in [1..n -> Nat] BY <1>1, <1>2
<1> PICK shares : shares = Rounded(nets, discount) OBVIOUS
<1>4. IsFiniteSet(1..n) BY FS_Interval
<1>5. SumFunctionOnSet(shares, 1..n) \in Nat BY <1>3, <1>4, SumNat
<1>6. Total(shares) = SumFunctionOnSet(shares, 1..n) BY <1>3 DEF Total
<1> QED BY <1>3, <1>5, <1>6

LEMMA RoundedAt ==
  ASSUME NEW nets, NEW sum, sum = Total(nets), NEW discount, NEW i \in DOMAIN nets
  PROVE  Rounded(nets, discount)[i] = ShareOf(nets[i], discount, sum)
BY DEF Rounded, ShareOf

\* A set of natural numbers has a least element.
LEMMA LeastIs ==
  ASSUME NEW S \in SUBSET Nat, S # {}
  PROVE  \E m \in S : \A k \in S : m <= k
<1> DEFINE less == OpToRel(<, Nat)
<1>1. IsWellFoundedOn(less, Nat) BY NatLessThanWellFounded
<1>2. \A x, y \in Nat : <<y, x>> \in less <=> y < x BY DEF OpToRel
<1> HIDE DEF less
<1>3. PICK m \in S : \A k \in S : ~ (<<k, m>> \in less) BY <1>1, WFMin, Zenon
<1>4. ASSUME NEW k \in S PROVE m <= k
  <2>1. k \in Nat /\ m \in Nat OBVIOUS
  <2>2. ~ (k < m) BY <1>2, <1>3, <2>1
  <2> QED BY <2>1, <2>2
<1> QED BY <1>4

\* The line that takes what rounding leaves over.
LEMMA LastCharged ==
  ASSUME NEW n \in Nat, NEW nets \in [1..n -> Nat],
         NEW charged, charged = Charged(nets), charged # {}
  PROVE  Max(charged) \in charged /\ \A i \in charged : i <= Max(charged)
<1>0. charged \subseteq 1..n BY DEF Charged
<1> DEFINE far == {k \in Nat : \A i \in charged : i <= k}
<1>1. far # {} /\ far \subseteq Nat
  <2>1. n \in far BY <1>0 DEF far
  <2> QED BY <2>1
<1>2. PICK k \in far : \A j \in far : k <= j BY <1>1, LeastIs
<1>3. k \in charged
  <2> SUFFICES ASSUME k \notin charged PROVE FALSE OBVIOUS
  <2>1. k > 0 BY <1>0, <1>2
  <2>2. \A i \in charged : i <= k - 1 BY <1>0, <1>2
  <2>3. k - 1 \in far BY <1>2, <2>1, <2>2
  <2> QED BY <1>2, <2>3
<1>4. \E x \in charged : \A y \in charged : x >= y BY <1>0, <1>2, <1>3
<1>5. /\ Max(charged) \in charged
      /\ \A y \in charged : Max(charged) >= y
  BY <1>4, Zenon DEF Max
<1> QED BY <1>5

\* Every share is a rounded one, but that of the last line charged.
OwnOrLast(shares, own, charged, n) ==
  \A i \in 1..n : shares[i] = own[i] \/ (i \in charged /\ \A j \in charged : j <= i)

\* The shares add up to the discount, and only that line's is not its own rounded share.
LEMMA SharesAdd ==
  ASSUME NEW n \in Nat, NEW nets \in [1..n -> Nat], NEW sum \in Nat, sum = Total(nets),
         NEW discount \in 0..sum
  PROVE  /\ HeaderShares(nets, discount) \in [1..n -> Int]
         /\ SumFunctionOnSet(HeaderShares(nets, discount), 1..n) = discount
         /\ OwnOrLast(HeaderShares(nets, discount), Rounded(nets, discount), Charged(nets), n)
<1> PICK charged : charged = Charged(nets) OBVIOUS
<1> PICK shares : shares = HeaderShares(nets, discount) OBVIOUS
<1> SUFFICES /\ shares \in [1..n -> Int]
             /\ SumFunctionOnSet(shares, 1..n) = discount
             /\ \A i \in 1..n : shares[i] = Rounded(nets, discount)[i]
                                \/ (i \in charged /\ \A j \in charged : j <= i)
  BY DEF OwnOrLast
<1> PICK own : own = Rounded(nets, discount) OBVIOUS
<1> PICK over : over = discount - Total(own) OBVIOUS
<1>1. /\ own \in [1..n -> Nat] /\ Total(own) \in Nat /\ Total(own) = SumFunctionOnSet(own, 1..n)
      /\ \A i \in 1..n : own[i] = ShareOf(nets[i], discount, sum)
  <2>1. discount \in Nat OBVIOUS
  <2>2. Rounded(nets, discount) \in [1..n -> Nat] BY <2>1, RoundedIs
  <2>3. Total(Rounded(nets, discount)) \in Nat BY <2>1, RoundedIs
  <2>4. Total(Rounded(nets, discount)) = SumFunctionOnSet(Rounded(nets, discount), 1..n)
    BY <2>1, RoundedIs
  <2>5. \A i \in 1..n : Rounded(nets, discount)[i] = ShareOf(nets[i], discount, sum)
    BY RoundedAt
  <2> QED BY <2>2, <2>3, <2>4, <2>5
<1>2. over \in Int BY <1>1
<1>3. shares = IF over = 0 \/ charged = {} THEN own ELSE [own EXCEPT ![Max(charged)] = @ + over]
  BY DEF HeaderShares
<1>4. IsFiniteSet(1..n) BY FS_Interval
<1>5. CASE over = 0
  <2>1. shares = own BY <1>3, <1>5
  <2>2. Total(own) = discount BY <1>1, <1>5
  <2> QED BY <1>1, <2>1, <2>2
<1>6. CASE over # 0 /\ charged = {}
  <2>1. \A i \in 1..n : nets[i] = 0 BY <1>6 DEF Charged
  <2>2. SumFunctionOnSet(nets, 1..n) = 0 BY <1>4, <2>1, SumZero
  <2>3. sum = 0 BY <2>2 DEF Total
  <2>4. \A i \in 1..n : own[i] = 0 BY <1>1, <2>3 DEF ShareOf
  <2>5. SumFunctionOnSet(own, 1..n) = 0 BY <1>4, <2>4, SumZero
  <2> QED BY <1>1, <1>6, <2>3, <2>5
<1>7. CASE over # 0 /\ charged # {}
  <2> PICK last : last = Max(charged) OBVIOUS
  <2>1. last \in charged /\ \A i \in charged : i <= last BY <1>7, LastCharged
  <2>2. last \in 1..n BY <2>1 DEF Charged
  <2>3. shares = [own EXCEPT ![last] = own[last] + over] BY <1>3, <1>7
  <2>4. shares \in [1..n -> Int] BY <1>1, <1>2, <2>2, <2>3
  <2>5. \A i \in 1..n \ {last} : own[i] = shares[i] BY <1>1, <2>3
  <2>6. SumFunctionOnSet(shares, 1..n) = SumFunctionOnSet(own, 1..n) - own[last] + shares[last]
    <3>1. \A i \in 1..n : own[i] \in Int /\ shares[i] \in Int BY <1>1, <2>4
    <3> PICK S : S = 1..n OBVIOUS
    <3>2. IsFiniteSet(S) /\ last \in S BY <1>4, <2>2
    <3>3. \A x \in S : own[x] \in Int /\ shares[x] \in Int BY <3>1
    <3>4. \A x \in S \ {last} : own[x] = shares[x] BY <2>5
    <3>5. SumFunctionOnSet(shares, S) = SumFunctionOnSet(own, S) - own[last] + shares[last]
      BY ONLY <3>2, <3>3, <3>4, SumChange
    <3> QED BY <3>5
  <2>7. shares[last] = own[last] + over /\ own[last] \in Int BY <1>1, <2>2, <2>3
  <2>8. SumFunctionOnSet(shares, 1..n) = discount
    <3> PICK all : all = SumFunctionOnSet(own, 1..n) OBVIOUS
    <3>1. all \in Int /\ over = discount - all BY <1>1
    <3> QED BY <1>2, <2>6, <2>7, <3>1
  <2> QED BY <1>1, <2>1, <2>4, <2>5, <2>8
<1> QED BY <1>5, <1>6, <1>7

\* A share that is only rounded is off by half a fils.
LEMMA OwnShare ==
  ASSUME NEW sum \in Nat, NEW net \in 0..sum, NEW discount \in Nat
  PROVE  /\ ShareOf(net, discount, sum) \in Int
         /\ 2 * (discount * net) - 2 * (sum * ShareOf(net, discount, sum)) <= sum
         /\ 2 * (sum * ShareOf(net, discount, sum)) - 2 * (discount * net) <= sum
<1> PICK own : own = ShareOf(net, discount, sum) OBVIOUS
<1> SUFFICES /\ own \in Int
             /\ 2 * (discount * net) - 2 * (sum * own) <= sum
             /\ 2 * (sum * own) - 2 * (discount * net) <= sum
  OBVIOUS
<1>1. CASE sum = 0
  <2>1. own = 0 /\ net = 0 BY <1>1 DEF ShareOf
  <2>2. discount * net = 0 /\ sum * own = 0 BY <2>1, <1>1
  <2> QED BY <2>1, <2>2, <1>1
<1>2. CASE sum > 0
  <2>1. own = HalfUp(discount * net, sum) BY <1>2 DEF ShareOf
  <2>2. discount * net \in Int /\ sum \in Nat \ {0} BY <1>2
  <2>3. /\ own \in Int
        /\ 2 * (sum * own) <= 2 * (discount * net) + sum
        /\ 2 * (discount * net) < 2 * (sum * own) + sum
    BY <2>1, <2>2, HalfUpBound
  <2>4. sum * own \in Int BY <2>3
  <2> QED BY <2>2, <2>3, <2>4
<1> QED BY <1>1, <1>2

LEMMA Leftover ==
  ASSUME NEW sum \in Int, NEW discount \in Int, NEW net \in Int, NEW share \in Int
  PROVE  /\ (2 * discount) * (sum - net) + (0 - 2 * sum) * (discount - share)
              = 2 * (sum * share) - 2 * (discount * net)
         /\ (0 - 2 * discount) * (sum - net) + (2 * sum) * (discount - share)
              = 2 * (discount * net) - 2 * (sum * share)
<1>1. /\ (2 * discount) * (sum - net) = 2 * (discount * sum) - 2 * (discount * net)
      /\ (0 - 2 * discount) * (sum - net) = 2 * (discount * net) - 2 * (discount * sum)
  OBVIOUS
<1>2. /\ (2 * sum) * (discount - share) = 2 * (discount * sum) - 2 * (sum * share)
      /\ (0 - 2 * sum) * (discount - share) = 2 * (sum * share) - 2 * (discount * sum)
  OBVIOUS
<1>3. discount * sum \in Int /\ discount * net \in Int /\ sum * share \in Int OBVIOUS
<1> QED BY <1>1, <1>2, <1>3

LEMMA Weighed ==
  ASSUME NEW sum \in Int, NEW discount \in Int, NEW x \in Int, NEW y \in Int
  PROVE  /\ (2 * discount) * x + (0 - 2 * sum) * y = 2 * (discount * x) - 2 * (sum * y)
         /\ (0 - 2 * discount) * x + (2 * sum) * y = 2 * (sum * y) - 2 * (discount * x)
         /\ discount * x \in Int /\ sum * y \in Int
OBVIOUS

LEMMA OthersOf ==
  ASSUME NEW n \in Nat, NEW i \in 1..n
  PROVE  IsFiniteSet((1..n) \ {i}) /\ Cardinality((1..n) \ {i}) = n - 1
<1>1. IsFiniteSet(1..n) /\ Cardinality(1..n) = n BY FS_Interval
<1>2. /\ IsFiniteSet((1..n) \ {i})
      /\ Cardinality((1..n) \ {i}) = IF i \in 1..n THEN Cardinality(1..n) - 1 ELSE Cardinality(1..n)
  BY <1>1, FS_RemoveElement
<1> QED BY <1>1, <1>2

\* The line that takes what is left over is off by what the others are.
LEMMA LastShare ==
  ASSUME NEW n \in Nat, NEW nets \in [1..n -> Nat], NEW sum \in Nat,
         sum = SumFunctionOnSet(nets, 1..n), NEW discount \in Nat,
         NEW shares \in [1..n -> Int], SumFunctionOnSet(shares, 1..n) = discount,
         NEW i \in 1..n,
         \A j \in (1..n) \ {i} : shares[j] = ShareOf(nets[j], discount, sum)
  PROVE  /\ 2 * (sum * shares[i]) - 2 * (discount * nets[i]) <= sum * (n - 1)
         /\ 2 * (discount * nets[i]) - 2 * (sum * shares[i]) <= sum * (n - 1)
<1> PICK R : R = (1..n) \ {i} OBVIOUS
<1>1. IsFiniteSet(R) /\ Cardinality(R) = n - 1 BY OthersOf
<1>2. IsFiniteSet(1..n) BY FS_Interval
<1>3. \A j \in 1..n : nets[j] <= sum BY <1>2, SumNat
<1> PICK N : N = SumFunctionOnSet(nets, R) OBVIOUS
<1> PICK A : A = SumFunctionOnSet(shares, R) OBVIOUS
<1>4. N \in Int /\ sum = nets[i] + N
  <2>1. \A x \in 1..n : nets[x] \in Int OBVIOUS
  <2>2. \A x \in R : nets[x] \in Int BY <2>1
  <2>3. N \in Int BY <1>1, <2>2, SumInt
  <2>4. SumFunctionOnSet(nets, 1..n) = nets[i] + SumFunctionOnSet(nets, (1..n) \ {i})
    BY <1>2, <2>1, SumRemove
  <2> QED BY <2>3, <2>4
<1>5. A \in Int /\ discount = shares[i] + A
  <2>1. \A x \in 1..n : shares[x] \in Int OBVIOUS
  <2>2. \A x \in R : shares[x] \in Int BY <2>1
  <2>3. A \in Int BY <1>1, <2>2, SumInt
  <2>4. SumFunctionOnSet(shares, 1..n) = shares[i] + SumFunctionOnSet(shares, (1..n) \ {i})
    BY <1>2, <2>1, SumRemove
  <2> QED BY <2>3, <2>4
<1>6. \A j \in R : /\ shares[j] \in Int /\ nets[j] \in Int
                   /\ 2 * (discount * nets[j]) - 2 * (sum * shares[j]) <= sum
                   /\ 2 * (sum * shares[j]) - 2 * (discount * nets[j]) <= sum
  <2> TAKE j \in R
  <2> PICK net : net = nets[j] OBVIOUS
  <2>1. net \in 0..sum /\ nets[j] \in Int BY <1>3
  <2>2. shares[j] = ShareOf(net, discount, sum) /\ shares[j] \in Int OBVIOUS
  <2>3. /\ 2 * (discount * net) - 2 * (sum * shares[j]) <= sum
        /\ 2 * (sum * shares[j]) - 2 * (discount * net) <= sum
    BY <2>1, <2>2, OwnShare
  <2> QED BY <2>1, <2>2, <2>3
<1> PICK a : a = 2 * discount OBVIOUS
<1> PICK b : b = 2 * sum OBVIOUS
<1> PICK na : na = 0 - 2 * discount OBVIOUS
<1> PICK nb : nb = 0 - 2 * sum OBVIOUS
<1>7. a \in Int /\ b \in Int /\ na \in Int /\ nb \in Int OBVIOUS
<1> PICK up : up = [j \in R |-> a * nets[j] + nb * shares[j]] OBVIOUS
<1> PICK down : down = [j \in R |-> na * nets[j] + b * shares[j]] OBVIOUS
<1>8. \A j \in R : /\ up[j] = a * nets[j] + nb * shares[j] /\ up[j] \in Int /\ up[j] <= sum
                   /\ down[j] = na * nets[j] + b * shares[j] /\ down[j] \in Int /\ down[j] <= sum
  <2> TAKE j \in R
  <2> PICK x : x = nets[j] OBVIOUS
  <2> PICK y : y = shares[j] OBVIOUS
  <2>1. /\ x \in Int /\ y \in Int
        /\ 2 * (discount * x) - 2 * (sum * y) <= sum
        /\ 2 * (sum * y) - 2 * (discount * x) <= sum
    BY <1>6
  <2>2. /\ a * x + nb * y = 2 * (discount * x) - 2 * (sum * y)
        /\ na * x + b * y = 2 * (sum * y) - 2 * (discount * x)
        /\ discount * x \in Int /\ sum * y \in Int
    BY ONLY <2>1, Weighed, discount \in Int, sum \in Int, a = 2 * discount, b = 2 * sum,
       na = 0 - 2 * discount, nb = 0 - 2 * sum
  <2> PICK p : p = discount * x OBVIOUS
  <2> PICK q : q = sum * y OBVIOUS
  <2>3. p \in Int /\ q \in Int /\ 2 * p - 2 * q <= sum /\ 2 * q - 2 * p <= sum BY <2>1, <2>2
  <2>4. up[j] = 2 * p - 2 * q /\ down[j] = 2 * q - 2 * p
    <3>1. up[j] = a * x + nb * y /\ down[j] = na * x + b * y OBVIOUS
    <3> QED BY <3>1, <2>2
  <2>5. up[j] \in Int /\ up[j] <= sum BY ONLY <2>3, <2>4
  <2>6. down[j] \in Int /\ down[j] <= sum BY ONLY <2>3, <2>4
  <2>7. up[j] = a * nets[j] + nb * shares[j] /\ down[j] = na * nets[j] + b * shares[j] OBVIOUS
  <2> QED BY <2>5, <2>6, <2>7
<1>9. SumFunctionOnSet(up, R) = a * N + nb * A
  <2>1. Weighted(R, up, a, nets, nb, shares) BY <1>6, <1>8 DEF Weighted
  <2>2. SumFunctionOnSet(up, R)
          = a * SumFunctionOnSet(nets, R) + nb * SumFunctionOnSet(shares, R)
    BY ONLY <1>1, <1>7, <2>1, SumLinear
  <2> QED BY <2>2
<1>10. SumFunctionOnSet(down, R) = na * N + b * A
  <2>1. Weighted(R, down, na, nets, b, shares) BY <1>6, <1>8 DEF Weighted
  <2>2. SumFunctionOnSet(down, R)
          = na * SumFunctionOnSet(nets, R) + b * SumFunctionOnSet(shares, R)
    BY ONLY <1>1, <1>7, <2>1, SumLinear
  <2> QED BY <2>2
<1>11. SumFunctionOnSet(up, R) <= sum * (n - 1) /\ SumFunctionOnSet(down, R) <= sum * (n - 1)
  <2>1. \A x \in R : up[x] \in Int /\ up[x] <= sum BY <1>8
  <2>2. \A x \in R : down[x] \in Int /\ down[x] <= sum BY <1>8
  <2>3. SumFunctionOnSet(up, R) <= sum * Cardinality(R) BY ONLY <1>1, <2>1, SumBound, sum \in Int
  <2>4. SumFunctionOnSet(down, R) <= sum * Cardinality(R) BY ONLY <1>1, <2>2, SumBound, sum \in Int
  <2> QED BY <1>1, <2>3, <2>4
<1> PICK net : net = nets[i] OBVIOUS
<1> PICK share : share = shares[i] OBVIOUS
<1>12. net \in Int /\ share \in Int /\ sum \in Int /\ discount \in Int OBVIOUS
<1>13. N = sum - net /\ A = discount - share BY ONLY <1>4, <1>5, <1>12, net = nets[i], share = shares[i]
<1>14. /\ SumFunctionOnSet(up, R) = 2 * (sum * share) - 2 * (discount * net)
       /\ SumFunctionOnSet(down, R) = 2 * (discount * net) - 2 * (sum * share)
  BY ONLY <1>9, <1>10, <1>12, <1>13, Leftover, a = 2 * discount, b = 2 * sum,
     na = 0 - 2 * discount, nb = 0 - 2 * sum
<1> QED BY <1>11, <1>14

\* What HeaderIsSpread says of the shares, of any lines and any discount.
LEMMA SharesSpread ==
  ASSUME NEW n \in Nat, NEW nets \in [1..n -> Nat], NEW sum \in Nat, sum = Total(nets),
         NEW discount \in 0..sum, NEW i \in 1..n
  PROVE  Within(HeaderShares(nets, discount)[i] * sum, discount * nets[i],
               sum * (IF \E j \in Charged(nets) : j > i THEN 1 ELSE Most(1, n - 1)))
<1> PICK charged : charged = Charged(nets) OBVIOUS
<1> PICK shares : shares = HeaderShares(nets, discount) OBVIOUS
<1>1. shares \in [1..n -> Int] /\ SumFunctionOnSet(shares, 1..n) = discount
  BY SharesAdd
<1>2. \A j \in 1..n : shares[j] = Rounded(nets, discount)[j]
                       \/ (j \in charged /\ \A k \in charged : k <= j)
  <2>1. OwnOrLast(shares, Rounded(nets, discount), charged, n) BY SharesAdd
  <2> QED BY <2>1 DEF OwnOrLast
<1>3. \A j \in 1..n : Rounded(nets, discount)[j] = ShareOf(nets[j], discount, sum)
  <2>1. DOMAIN nets = 1..n OBVIOUS
  <2> QED BY <2>1, RoundedAt
<1>4. sum = SumFunctionOnSet(nets, 1..n) BY DEF Total
<1>5. \A j \in 1..n : nets[j] \in 0..sum
  <2>1. IsFiniteSet(1..n) BY FS_Interval
  <2>2. \A j \in 1..n : nets[j] \in Nat OBVIOUS
  <2>3. \A j \in 1..n : nets[j] <= sum BY <1>4, <2>1, <2>2, SumNat
  <2> QED BY <2>2, <2>3
<1> PICK net : net = nets[i] OBVIOUS
<1> PICK share : share = shares[i] OBVIOUS
<1> PICK most : most = IF \E j \in charged : j > i THEN 1 ELSE Most(1, n - 1) OBVIOUS
<1>6. net \in 0..sum /\ share \in Int BY <1>1, <1>5
<1>7. most \in Int /\ most >= 1 BY DEF Most
<1>8. \A k \in Int : k <= most => sum * k <= sum * most
  <2> TAKE k \in Int
  <2> HAVE k <= most
  <2>1. sum * (most - k) >= 0
    <3>1. most - k \in Nat BY <1>7
    <3> QED BY <3>1
  <2>2. sum * (most - k) = sum * most - sum * k /\ sum * most \in Int /\ sum * k \in Int BY <1>7
  <2> PICK x : x = sum * (most - k) OBVIOUS
  <2> PICK y : y = sum * most OBVIOUS
  <2> PICK z : z = sum * k OBVIOUS
  <2>3. x >= 0 /\ x = y - z /\ y \in Int /\ z \in Int BY <2>1, <2>2
  <2>4. z <= y BY ONLY <2>3
  <2> QED BY <2>4
<1>9. sum * most \in Int /\ sum * share \in Int /\ discount * net \in Int /\ share * sum = sum * share
  BY ONLY <1>6, <1>7, sum \in Nat, discount \in 0..sum
<1>10. \A k \in Int : /\ k <= most
                      /\ 2 * (sum * share) - 2 * (discount * net) <= sum * k
                      /\ 2 * (discount * net) - 2 * (sum * share) <= sum * k
         => Within(share * sum, discount * net, sum * most)
  <2> TAKE k \in Int
  <2>1. k <= most => sum * k <= sum * most /\ sum * k \in Int BY <1>8
  <2> PICK p : p = sum * k OBVIOUS
  <2> PICK q : q = sum * most OBVIOUS
  <2> PICK x : x = sum * share OBVIOUS
  <2> PICK y : y = discount * net OBVIOUS
  <2>2. /\ k <= most => p <= q /\ p \in Int
        /\ q \in Int /\ x \in Int /\ y \in Int /\ share * sum = x
    BY <1>9, <2>1
  <2>3. k <= most /\ 2 * x - 2 * y <= p /\ 2 * y - 2 * x <= p
        => 2 * (x - y) <= q /\ 2 * (y - x) <= q
    BY ONLY <2>2
  <2>4. k <= most /\ 2 * x - 2 * y <= p /\ 2 * y - 2 * x <= p => Within(x, y, q)
    BY <2>3 DEF Within
  <2> QED BY <2>2, <2>4
<1>11. CASE shares[i] = ShareOf(nets[i], discount, sum)
  <2>1. discount \in Nat /\ share = ShareOf(net, discount, sum) BY <1>11
  <2>2. /\ 2 * (discount * net) - 2 * (sum * share) <= sum
        /\ 2 * (sum * share) - 2 * (discount * net) <= sum
    BY <1>6, <2>1, OwnShare
  <2>3. 1 \in Int /\ sum * 1 = sum OBVIOUS
  <2>4. Within(share * sum, discount * net, sum * most) BY <1>7, <1>10, <2>2, <2>3
  <2> QED BY <2>4
<1>12. CASE shares[i] # ShareOf(nets[i], discount, sum)
  <2>1. i \in charged /\ \A k \in charged : k <= i BY <1>2, <1>3, <1>12
  <2>2. \A j \in (1..n) \ {i} : shares[j] = ShareOf(nets[j], discount, sum)
    <3> TAKE j \in (1..n) \ {i}
    <3>1. CASE shares[j] = Rounded(nets, discount)[j] BY <1>3, <3>1
    <3>2. CASE j \in charged /\ \A k \in charged : k <= j
      <4>1. i <= j /\ j <= i BY <2>1, <3>2
      <4> QED BY <4>1
    <3> QED BY <1>2, <3>1, <3>2
  <2>3. discount \in Nat OBVIOUS
  <2>4. /\ 2 * (sum * shares[i]) - 2 * (discount * nets[i]) <= sum * (n - 1)
        /\ 2 * (discount * nets[i]) - 2 * (sum * shares[i]) <= sum * (n - 1)
    BY <1>1, <1>4, <2>2, <2>3, LastShare
  <2>5. most >= n - 1
    <3>1. \A j \in charged : ~ (j > i) BY <2>1
    <3> QED BY <3>1 DEF Most
  <2>6. n - 1 \in Int OBVIOUS
  <2>7. Within(share * sum, discount * net, sum * most) BY <1>7, <1>10, <2>4, <2>5, <2>6
  <2> QED BY <2>7
<1> QED BY <1>11, <1>12

LEMMA RequestLines ==
  ASSUME NEW r \in Requests
  PROVE  /\ \E n \in Nat \ {0} : r.lines \in [1..n -> Line]
         /\ r.lines \in Seq(Line)
<1>1. r.lines \in Seq(Line) /\ r.lines # <<>> BY MoneyAssumption DEF RequestOK
<1>2. Len(r.lines) \in Nat \ {0} BY <1>1, EmptySeq
<1>3. r.lines \in [1..Len(r.lines) -> Line] BY <1>1, LenProperties
<1> QED BY <1>1, <1>2, <1>3

LEMMA QuantityNat ==
  ASSUME NEW n \in Nat, NEW lines \in [1..n -> Line], NEW items
  PROVE  Quantity(lines, items) \in Nat
<1> PICK f : f = [i \in DOMAIN lines |-> IF lines[i].item \in items THEN lines[i].qty ELSE 0]
  OBVIOUS
<1>1. DOMAIN f = 1..n /\ \A i \in 1..n : f[i] \in Nat BY DEF Line
<1>2. IsFiniteSet(1..n) BY FS_Interval
<1>3. SumFunctionOnSet(f, 1..n) \in Nat BY <1>1, <1>2, SumNat
<1> QED BY <1>1, <1>3 DEF Quantity, Total

LEMMA CartGrossNat ==
  ASSUME NEW n \in Nat, NEW lines \in [1..n -> Line], NEW item \in Items
  PROVE  CartGross(lines, item) \in Nat
<1>1. Price[item] \in Nat BY MoneyAssumption
<1>2. Quantity(lines, {item}) \in Nat BY QuantityNat
<1> QED BY <1>1, <1>2 DEF CartGross

LEMMA EffectiveNat ==
  ASSUME NEW o \in Offers, NEW q \in Nat
  PROVE  effectivePercent(Catalogue[o], q) \in Nat
<1> PICK c : c = Catalogue[o] OBVIOUS
<1>1. /\ c.anchor \in Nat /\ c.base \in Nat /\ c.multiplier \in Nat /\ c.step \in Nat /\ c.cap \in Nat
  BY MoneyAssumption DEF OfferOK
<1> PICK steps : steps = IF c.step = 0 THEN 0 ELSE Most(0, q - c.anchor) \div c.step OBVIOUS
<1>2. steps \in Int
  <2>1. Most(0, q - c.anchor) \in Int BY <1>1 DEF Most
  <2>2. c.step # 0 => Most(0, q - c.anchor) \div c.step \in Int BY <1>1, <2>1, DivBound
  <2> QED BY <2>2
<1>3. c.base * (1 + c.multiplier * steps) \in Int
  <2>1. c.multiplier * steps \in Int BY <1>1, <1>2
  <2> QED BY <1>1, <2>1
<1>4. effectivePercent(c, q) = Most(0, Least(c.base * (1 + c.multiplier * steps), c.cap))
  BY DEF effectivePercent
<1>5. Least(c.base * (1 + c.multiplier * steps), c.cap) \in Int BY <1>1, <1>3 DEF Least
<1>6. Most(0, Least(c.base * (1 + c.multiplier * steps), c.cap)) \in Nat BY <1>5 DEF Most
<1> QED BY <1>4, <1>6

LEMMA PercentsNat ==
  ASSUME NEW o \in Offers, NEW r \in Requests
  PROVE  PaymentPercent(o, r) \in Nat /\ ItemPercent(o, r) \in Nat
<1> PICK n \in Nat : r.lines \in [1..n -> Line] BY RequestLines
<1>1. Quantity(r.lines, Items) \in Nat BY QuantityNat
<1>2. Quantity(r.lines, Catalogue[o].items) \in Nat BY QuantityNat
<1>3. effectivePercent(Catalogue[o], Quantity(r.lines, Items)) \in Nat BY <1>1, EffectiveNat
<1>4. effectivePercent(Catalogue[o], Quantity(r.lines, Catalogue[o].items)) \in Nat
  BY <1>2, EffectiveNat
<1>5. PaymentPercent(o, r) \in Nat BY <1>3, Zenon DEF PaymentPercent
<1>6. ItemPercent(o, r) \in Nat BY <1>4, Zenon DEF ItemPercent
<1> QED BY <1>5, <1>6

LEMMA BestIs ==
  ASSUME NEW offers \in SUBSET Offers, NEW pct \in [Offers -> Nat]
  PROVE  /\ Best(offers, pct).pct \in Nat
         /\ \/ Best(offers, pct) = [offer |-> None, pct |-> 0]
            \/ Best(offers, pct).offer \in offers
<1> PICK highest : highest = {o \in offers : pct[o] > 0 /\ \A p \in offers : pct[p] <= pct[o]} OBVIOUS
<1>1. CASE highest = {}
  <2>1. Best(offers, pct) = [offer |-> None, pct |-> 0] BY <1>1 DEF Best
  <2> QED BY <2>1
<1>2. CASE highest # {}
  <2>1. highest \in SUBSET Nat BY MoneyAssumption
  <2>2. \E m \in highest : \A k \in highest : m <= k BY <1>2, <2>1, LeastIs
  <2>3. Min(highest) \in highest BY <2>2, Zenon DEF Min
  <2>4. Best(offers, pct) = [offer |-> Min(highest), pct |-> pct[Min(highest)]]
    BY <1>2 DEF Best
  <2>5. Min(highest) \in offers /\ pct[Min(highest)] \in Nat BY <2>3
  <2> QED BY <2>4, <2>5
<1> QED BY <1>1, <1>2

LEMMA OnLineIs ==
  ASSUME NEW gross \in Nat, NEW pay, NEW item, pay.pct \in Nat, item.pct \in Nat
  PROVE  LET part == OnLine(gross, pay, item)
         IN  part.off \in 0..gross /\ part.net = gross - part.off
<1> PICK payFils : payFils = Least(Percent(gross, pay.pct), gross) OBVIOUS
<1> PICK itemFils : itemFils = Least(Percent(gross, item.pct), gross - payFils) OBVIOUS
<1>1. Percent(gross, pay.pct) \in Nat /\ Percent(gross, item.pct) \in Nat BY PercentNat
<1>2. payFils \in 0..gross BY <1>1 DEF Least
<1>3. itemFils \in 0..(gross - payFils) BY <1>1, <1>2 DEF Least
<1>4. /\ OnLine(gross, pay, item).off = payFils + itemFils
      /\ OnLine(gross, pay, item).net = gross - payFils - itemFils
  BY DEF OnLine
<1> QED BY <1>2, <1>3, <1>4

-----------------------------------------------------------------------------
(*************************************************************************)
(* The evaluation of a cart: its discounts and its gifts are never       *)
(* negative, whatever offers are open.                                   *)
(*************************************************************************)

\* The part of one item, and the free units of one gift.
Part1(r, granted, item) ==
  OnLine(CartGross(r.lines, item),
         Best(granted, [o \in Offers |-> PaymentPercent(o, r)]),
         Best({o \in granted : item \in Catalogue[o].items},
              [o \in Offers |-> ItemPercent(o, r)]))

Given(r, o, item) == Cardinality({i \in Picks(o, r) : r.picks[i] = item})

LEMMA EvaluateAt ==
  ASSUME NEW r, NEW granted, NEW item \in Bought(r.lines)
  PROVE  Evaluate(r, granted).discount[item] = Part1(r, granted, item).off
BY DEF Evaluate, Part1, Given

LEMMA GiftsAt ==
  ASSUME NEW r, NEW granted, NEW item \in Items
  PROVE  Evaluate(r, granted).gifts[item] = Total([o \in granted |-> Given(r, o, item)])
BY DEF Evaluate, Given

LEMMA TotalIs ==
  ASSUME NEW r, NEW granted
  PROVE  Evaluate(r, granted).total =
           Total([item \in Bought(r.lines) |->
             Part1(r, granted, item).net + Percent(Part1(r, granted, item).net, Rate[item])])
BY DEF Evaluate, Part1, Given

LEMMA DiscountNat ==
  ASSUME NEW r \in Requests, NEW granted \in SUBSET Offers, NEW item \in Bought(r.lines)
  PROVE  Part1(r, granted, item).off \in 0..CartGross(r.lines, item)
         /\ Part1(r, granted, item).net = CartGross(r.lines, item) - Part1(r, granted, item).off
         /\ CartGross(r.lines, item) \in Nat /\ item \in Items
<1> PICK n \in Nat : r.lines \in [1..n -> Line] BY RequestLines
<1>1. item \in Items BY DEF Bought, Line
<1> PICK gross : gross = CartGross(r.lines, item) OBVIOUS
<1>2. gross \in Nat BY <1>1, CartGrossNat
<1> PICK pay : pay = Best(granted, [o \in Offers |-> PaymentPercent(o, r)]) OBVIOUS
<1> PICK its : its = Best({o \in granted : item \in Catalogue[o].items},
                          [o \in Offers |-> ItemPercent(o, r)]) OBVIOUS
<1>3. pay.pct \in Nat
  <2>1. [o \in Offers |-> PaymentPercent(o, r)] \in [Offers -> Nat] BY PercentsNat
  <2>2. granted \in SUBSET Offers OBVIOUS
  <2> QED BY <2>1, <2>2, BestIs
<1>4. its.pct \in Nat
  <2>1. [o \in Offers |-> ItemPercent(o, r)] \in [Offers -> Nat] BY PercentsNat
  <2>2. {o \in granted : item \in Catalogue[o].items} \in SUBSET Offers OBVIOUS
  <2> QED BY <2>1, <2>2, BestIs
<1>5. Part1(r, granted, item) = OnLine(gross, pay, its) BY DEF Part1
<1> QED BY <1>1, <1>2, <1>3, <1>4, <1>5, OnLineIs

LEMMA GiftsNat ==
  ASSUME NEW r \in Requests, NEW granted \in SUBSET Offers, NEW item
  PROVE  Total([o \in granted |-> Given(r, o, item)]) \in Nat
<1> PICK f : f = [o \in granted |-> Given(r, o, item)] OBVIOUS
<1>1. IsFiniteSet(granted)
  <2>1. granted \in SUBSET Offers OBVIOUS
  <2> QED BY <2>1, MoneyAssumption, FS_Subset
<1>2. ASSUME NEW o \in granted PROVE f[o] \in Nat
  <2> PICK S : S = {i \in Picks(o, r) : r.picks[i] = item} OBVIOUS
  <2>1. r.picks \in Seq(Items) BY MoneyAssumption DEF RequestOK
  <2>2. DOMAIN r.picks = 1..Len(r.picks) /\ Len(r.picks) \in Nat BY <2>1, LenProperties
  <2>3. IsFiniteSet(DOMAIN r.picks) BY <2>2, FS_Interval
  <2>4. S \subseteq DOMAIN r.picks BY DEF Picks
  <2>5. Cardinality(S) \in Nat BY <2>3, <2>4, FS_Subset, FS_CardinalityType
  <2> QED BY <2>5 DEF Given
<1>3. SumFunctionOnSet(f, granted) \in Nat BY <1>1, <1>2, SumNat
<1> QED BY <1>3 DEF Total

\* A line whose discount in fils is a whole number.
LEMMA DiscountedLines ==
  ASSUME NEW n \in Nat \ {0}, NEW lines \in [1..n -> Line], NEW discount,
         \A item \in Bought(lines) : discount[item] \in Nat
  PROVE  Discounted(lines, discount) \in [1..n -> Line]
<1> SUFFICES ASSUME NEW i \in 1..n PROVE Discounted(lines, discount)[i] \in Line
  BY DEF Discounted
<1>1. discount[lines[i].item] \in Nat BY DEF Bought
<1> PICK d \in Nat : d = discount[lines[i].item] BY <1>1
<1>2. lines[i] \in Line OBVIOUS
<1>3. [lines[i] EXCEPT !.fils = @ + d] \in Line BY <1>2 DEF Line
<1>4. Discounted(lines, discount)[i] \in {lines[i], [lines[i] EXCEPT !.fils = @ + d]}
  BY DEF Discounted
<1> QED BY <1>2, <1>3, <1>4

\* The gifts that make a line of their own, in some order.
GiftLines(gifts) == SetToSeq({GiftLine(item, gifts[item]) : item \in {i \in Items : gifts[i] > 0}})

LEMMA SetToSeqIs ==
  ASSUME NEW S, IsFiniteSet(S)
  PROVE  SetToSeq(S) \in Bijection(1..Cardinality(S), S) /\ Cardinality(S) \in Nat
<1> PICK n : n = Cardinality(S) OBVIOUS
<1>0. n \in Nat /\ ExistsBijection(1..n, S) BY FS_CardinalityType
<1>1. PICK f : n = Cardinality(S) /\ f \in Bijection(1..n, S) BY <1>0 DEF ExistsBijection
<1>2. f \in [1..Cardinality(S) -> S] /\ IsInjective(f) BY <1>1 DEF Bijection, Injection, IsInjective
<1>3. SetToSeq(S) \in [1..Cardinality(S) -> S] /\ IsInjective(SetToSeq(S))
  BY <1>2, Zenon DEF SetToSeq
<1>4. SetToSeq(S) \in Injection(1..Cardinality(S), S)
  BY <1>3 DEF Injection, IsInjective
<1>5. SetToSeq(S) \in Surjection(1..Cardinality(S), S)
  <2>1. IsFiniteSet(1..n) /\ Cardinality(1..n) = n BY <1>0, FS_Interval
  <2>2. SetToSeq(S) \in Injection(1..n, S) BY <1>4
  <2>3. Cardinality(1..n) = Cardinality(S) BY <2>1
  <2>4. SetToSeq(S) \in Surjection(1..n, S) BY <2>1, <2>2, <2>3, FS_Injection
  <2> QED BY <2>4
<1> QED BY <1>0, <1>4, <1>5 DEF Bijection

LEMMA GiftLinesAre ==
  ASSUME NEW gifts, \A item \in Items : gifts[item] \in Nat
  PROVE  LET S == {GiftLine(item, gifts[item]) : item \in {i \in Items : gifts[i] > 0}}
         IN  /\ IsFiniteSet(S) /\ S \subseteq Line
             /\ GiftLines(gifts) \in Bijection(1..Cardinality(S), S) /\ Cardinality(S) \in Nat
<1> PICK G : G = {i \in Items : gifts[i] > 0} OBVIOUS
<1> PICK S : S = {GiftLine(item, gifts[item]) : item \in G} OBVIOUS
<1> PICK f : f = [item \in G |-> GiftLine(item, gifts[item])] OBVIOUS
<1>1. IsFiniteSet(G)
  <2>1. G \in SUBSET Items OBVIOUS
  <2> QED BY <2>1, MoneyAssumption, FS_Subset
<1>2. f \in Surjection(G, S) BY DEF Surjection
<1>3. IsFiniteSet(S) BY <1>1, <1>2, FS_Surjection
<1>4. S \subseteq Line
  <2> SUFFICES ASSUME NEW item \in G PROVE GiftLine(item, gifts[item]) \in Line OBVIOUS
  <2>1. item \in Items /\ gifts[item] \in Nat /\ Price[item] \in Nat BY MoneyAssumption
  <2> QED BY <2>1 DEF GiftLine, Line
<1>5. SetToSeq(S) \in Bijection(1..Cardinality(S), S) /\ Cardinality(S) \in Nat BY <1>3, SetToSeqIs
<1> QED BY <1>3, <1>4, <1>5 DEF GiftLines

LEMMA GiftLinesSeq ==
  ASSUME NEW gifts, \A item \in Items : gifts[item] \in Nat
  PROVE  GiftLines(gifts) \in Seq(Line)
<1> PICK S : S = {GiftLine(item, gifts[item]) : item \in {i \in Items : gifts[i] > 0}} OBVIOUS
<1>1. S \subseteq Line /\ GiftLines(gifts) \in Bijection(1..Cardinality(S), S) /\ Cardinality(S) \in Nat
  BY GiftLinesAre
<1> PICK k \in Nat : k = Cardinality(S) BY <1>1
<1>2. GiftLines(gifts) \in [1..k -> Line] BY <1>1 DEF Bijection, Injection
<1> QED BY <1>2, SeqDef

LEMMA WithGiftsLines ==
  ASSUME NEW n \in Nat \ {0}, NEW lines \in [1..n -> Line], NEW gifts,
         \A item \in Items : gifts[item] \in Nat
  PROVE  Lines(WithGifts(lines, gifts))
<1>1. lines \in Seq(Line) /\ Len(lines) = n OBVIOUS
<1>2. GiftLines(gifts) \in Seq(Line) BY GiftLinesSeq
<1> PICK more : more = GiftLines(gifts) OBVIOUS
<1>3. Len(more) \in Nat BY <1>2, LenProperties
<1> PICK all : all = lines \o more OBVIOUS
<1>4. more \in Seq(Line) BY <1>2
<1>5. all \in Seq(Line) /\ Len(all) = Len(lines) + Len(more)
  BY ONLY <1>1, <1>4, all = lines \o more, ConcatProperties, Zenon
<1>6. Len(all) \in Nat \ {0} BY <1>1, <1>3, <1>5
<1>7. all \in [1..Len(all) -> Line] BY <1>5, LenProperties
<1>8. Lines(all) BY <1>6, <1>7 DEF Lines
<1> QED BY <1>8 DEF WithGifts, GiftLines

\* Whatever becomes of the evaluation, a sale goes on with the lines of a cart.
LEMMA PricedLines ==
  ASSUME NEW r \in Requests, NEW granted \in SUBSET Offers
  PROVE  LET result == Evaluate(r, granted)
         IN  /\ Lines(r.lines)
             /\ Lines(Discounted(r.lines, result.discount))
             /\ Lines(WithGifts(Discounted(r.lines, result.discount), result.gifts))
<1> PICK n \in Nat \ {0} : r.lines \in [1..n -> Line] BY RequestLines
<1>1. Lines(r.lines) BY DEF Lines
<1> PICK discount : discount = Evaluate(r, granted).discount OBVIOUS
<1> PICK gifts : gifts = Evaluate(r, granted).gifts OBVIOUS
<1>2. ASSUME NEW item \in Bought(r.lines) PROVE discount[item] \in Nat
  <2>1. discount[item] = Part1(r, granted, item).off BY EvaluateAt
  <2>2. Part1(r, granted, item).off \in 0..CartGross(r.lines, item) /\ CartGross(r.lines, item) \in Nat
    BY DiscountNat
  <2> QED BY <2>1, <2>2
<1>3. ASSUME NEW item \in Items PROVE gifts[item] \in Nat
  <2>1. gifts[item] = Total([o \in granted |-> Given(r, o, item)]) BY GiftsAt
  <2> QED BY <2>1, GiftsNat
<1>4. Discounted(r.lines, discount) \in [1..n -> Line] BY <1>2, DiscountedLines
<1>5. Lines(Discounted(r.lines, discount)) BY <1>4 DEF Lines
<1>6. Lines(WithGifts(Discounted(r.lines, discount), gifts)) BY <1>3, <1>4, WithGiftsLines
<1> QED BY <1>1, <1>5, <1>6

\* The lines as they are posted.
Posting(lines) == [i \in DOMAIN lines |-> Taxed(lines[i])]

LEMMA TaxedLines ==
  ASSUME NEW lines, Lines(lines)
  PROVE  Lines(Posting(lines))
<1> PICK n \in Nat \ {0} : lines \in [1..n -> Line] BY DEF Lines
<1>1. ASSUME NEW i \in 1..n PROVE Taxed(lines[i]) \in Line
  <2> PICK l \in Line : l = lines[i] OBVIOUS
  <2>1. Rate[l.item] \in Nat BY MoneyAssumption DEF Line
  <2>2. Taxed(l) = [l EXCEPT !.rate = 0] \/ Taxed(l) = [l EXCEPT !.rate = Rate[l.item]]
    BY DEF Taxed
  <2>3. [l EXCEPT !.rate = 0] \in Line /\ [l EXCEPT !.rate = Rate[l.item]] \in Line
    BY <2>1 DEF Line
  <2> QED BY <2>2, <2>3
<1>2. Posting(lines) \in [1..n -> Line] BY <1>1 DEF Posting
<1> QED BY <1>2 DEF Lines

-----------------------------------------------------------------------------
(*************************************************************************)
(* The preview of a plain cart: an item is on one line, so that the      *)
(* discount of the item is the discount of the line, and a gift comes to *)
(* nothing, so that the lines written by the offers come to the          *)
(* evaluation's total.                                                   *)
(*************************************************************************)

\* What a line comes to with its tax on top, and what a cart comes to.
LineWorth(l) == Net(l) + Percent(Net(l), Rate[l.item])
Worth(lines) == Total([i \in DOMAIN lines |-> LineWorth(lines[i])])
NoTobacco(lines) == \A i \in DOMAIN lines : Tobacco[lines[i].item] = None

LEMMA LineWorthInt ==
  ASSUME NEW l \in Line
  PROVE  LineWorth(l) \in Int /\ (Net(l) = 0 => LineWorth(l) = 0)
<1>1. Net(l) \in Nat BY NetIs
<1>2. Rate[l.item] \in Nat BY MoneyAssumption DEF Line
<1> PICK net \in Nat : net = Net(l) BY <1>1
<1> PICK rate \in Nat : rate = Rate[l.item] BY <1>2
<1>3. Percent(net, rate) \in Nat BY PercentNat
<1>4. net = 0 => Percent(net, rate) = 0
  <2>1. 0 * rate = 0 OBVIOUS
  <2>2. HalfUp(0, 100) = 0 BY HalfUpZero
  <2> QED BY <2>1, <2>2 DEF Percent
<1>5. net \in Int /\ Percent(net, rate) \in Int BY <1>3
<1> QED BY <1>4, <1>5 DEF LineWorth

\* An item that is on one line is bought in the quantity of that line.
LEMMA OnlyLine ==
  ASSUME NEW n \in Nat, NEW lines \in [1..n -> Line], NEW i \in 1..n,
         \A j \in 1..n : lines[j].item = lines[i].item => i = j
  PROVE  Quantity(lines, {lines[i].item}) = lines[i].qty
<1> PICK item : item = lines[i].item OBVIOUS
<1> PICK f : f = [j \in DOMAIN lines |-> IF lines[j].item \in {item} THEN lines[j].qty ELSE 0] OBVIOUS
<1>1. IsFiniteSet(1..n) BY FS_Interval
<1>2. \A x \in 1..n : f[x] \in Int BY DEF Line
<1>3. \A x \in (1..n) \ {i} : f[x] = 0 OBVIOUS
<1>4. f[i] = lines[i].qty /\ f[i] \in Int BY <1>2
<1>5. SumFunctionOnSet(f, 1..n) = f[i] + SumFunctionOnSet(f, (1..n) \ {i}) BY <1>1, <1>2, SumRemove
<1>6. SumFunctionOnSet(f, (1..n) \ {i}) = 0
  <2>1. IsFiniteSet((1..n) \ {i}) BY OthersOf
  <2> QED BY <1>3, <2>1, SumZero
<1>7. Quantity(lines, {item}) = SumFunctionOnSet(f, 1..n) BY DEF Quantity, Total
<1> QED BY <1>4, <1>5, <1>6, <1>7

\* A line that bears what the evaluation takes off its item.
LEMMA BearsItsPart ==
  ASSUME NEW l \in Line, l.pct = 0, NEW off \in 0..Gross(l), l.fils = off
  PROVE  Net(l) = Gross(l) - off
<1> PICK gross \in Nat : gross = Gross(l) BY NetIs
<1>1. Percent(gross, 0) = 0 BY PercentNone
<1>2. Most(0, off) = off /\ off \in 0..gross BY DEF Most
<1>3. LineDiscount(l) = clamp(0 + off, gross) BY <1>1, <1>2 DEF LineDiscount
<1>4. clamp(0 + off, gross) = off BY <1>2 DEF clamp, Most, Least
<1> QED BY <1>3, <1>4 DEF Net

LEMMA GiftIsFree ==
  ASSUME NEW item \in Items, NEW qty \in Nat
  PROVE  Net(GiftLine(item, qty)) = 0 /\ GiftLine(item, qty).item = item
<1> PICK l : l = GiftLine(item, qty) OBVIOUS
<1>1. l \in Line /\ l.pct = 100 /\ l.fils = 0 /\ l.item = item
  BY MoneyAssumption DEF GiftLine, Line
<1> PICK gross \in Nat : gross = Gross(l) BY <1>1, NetIs
<1>2. Percent(gross, 100) = gross BY PercentAll
<1>3. LineDiscount(l) = clamp(gross + 0, gross) BY <1>1, <1>2 DEF LineDiscount, Most
<1>4. clamp(gross + 0, gross) = gross BY DEF clamp, Most, Least
<1> QED BY <1>1, <1>3, <1>4 DEF Net

\* The lines of a cart, each with its own item, come to what the items come to.
LEMMA WorthByItem ==
  ASSUME NEW n \in Nat, NEW lines \in [1..n -> Line], NEW part,
         \A i \in 1..n : LineWorth(lines[i]) = part[lines[i].item],
         \A i, j \in 1..n : lines[i].item = lines[j].item => i = j
  PROVE  Worth(lines) = SumFunctionOnSet(part, Bought(lines))
<1> PICK f : f = [i \in 1..n |-> LineWorth(lines[i])] OBVIOUS
<1> PICK name : name = [i \in 1..n |-> lines[i].item] OBVIOUS
<1>1. \A x \in 1..n : f[x] \in Int /\ part[name[x]] = f[x]
  <2> TAKE x \in 1..n
  <2>1. LineWorth(lines[x]) \in Int BY LineWorthInt
  <2> QED BY <2>1
<1>2. \A x, y \in 1..n : name[x] = name[y] => x = y OBVIOUS
<1> PICK S : S = 1..n OBVIOUS
<1>3. IsFiniteSet(S) BY FS_Interval
<1>4. SumFunctionOnSet(part, Named(name, S)) = SumFunctionOnSet(f, S)
  <2>1. SameTerms(S, f, part, name) BY <1>1, <1>2 DEF SameTerms
  <2> QED BY <1>3, <2>1, SumRenamed
<1>5. Named(name, S) = Bought(lines) BY DEF Bought, Named
<1>6. Worth(lines) = SumFunctionOnSet(f, S) BY DEF Worth, Total
<1> QED BY <1>4, <1>5, <1>6

\* More lines, all free.
LEMMA WorthWithFree ==
  ASSUME NEW n \in Nat, NEW lines \in [1..n -> Line], NEW m \in Nat, NEW free \in [1..m -> Line],
         \A i \in 1..m : Net(free[i]) = 0
  PROVE  Worth(lines \o free) = Worth(lines)
<1> PICK all : all = lines \o free OBVIOUS
<1>1. lines \in Seq(Line) /\ Len(lines) = n /\ free \in Seq(Line) /\ Len(free) = m BY SeqDef
<1>2. all \in Seq(Line) /\ Len(all) = n + m BY <1>1, ConcatProperties
<1>3. \A i \in 1..(n + m) : all[i] = IF i <= n THEN lines[i] ELSE free[i - n] BY <1>1
<1>4. DOMAIN all = 1..(n + m) BY <1>2, LenProperties
<1> PICK f : f = [i \in 1..(n + m) |-> LineWorth(all[i])] OBVIOUS
<1> PICK g : g = [i \in 1..n |-> LineWorth(lines[i])] OBVIOUS
<1>5. \A x \in 1..(n + m) : f[x] \in Int
  <2> TAKE x \in 1..(n + m)
  <2>1. all[x] \in Line BY <1>2, <1>4
  <2> QED BY <2>1, LineWorthInt
<1>6. \A x \in (1..(n + m)) \ (1..n) : f[x] = 0
  <2> TAKE x \in (1..(n + m)) \ (1..n)
  <2>1. all[x] = free[x - n] /\ x - n \in 1..m BY <1>3
  <2>2. Net(free[x - n]) = 0 /\ free[x - n] \in Line BY <2>1
  <2>3. LineWorth(free[x - n]) = 0 BY <2>2, LineWorthInt
  <2> QED BY <2>1, <2>3
<1>7. \A x \in 1..n : f[x] = g[x] BY <1>3
<1> PICK S : S = 1..(n + m) OBVIOUS
<1> PICK T : T = 1..n OBVIOUS
<1>8. IsFiniteSet(S) /\ IsFiniteSet(T) /\ T \in SUBSET S
  <2>1. n + m \in Nat OBVIOUS
  <2>2. IsFiniteSet(S) BY <2>1, FS_Interval
  <2>3. IsFiniteSet(T) BY FS_Interval
  <2> QED BY <2>2, <2>3
<1>9. SumFunctionOnSet(f, S) = SumFunctionOnSet(f, T)
  BY <1>5, <1>6, <1>8, SumMore
<1>10. SumFunctionOnSet(f, T) = SumFunctionOnSet(g, T) BY <1>7, <1>8, SumEqual
<1>11. Worth(all) = SumFunctionOnSet(f, S) BY <1>4 DEF Worth, Total
<1>12. Worth(lines) = SumFunctionOnSet(g, T) BY DEF Worth, Total
<1> QED BY <1>9, <1>10, <1>11, <1>12

LEMMA AppliedIs ==
  ASSUME NEW r, NEW granted
  PROVE  Evaluate(r, granted).applied =
           {o \in granted :
              FreeQty(o, r) > 0 \/ \E item \in Bought(r.lines) : o \in Part1(r, granted, item).by}
BY DEF Evaluate, Part1

LEMMA OnLineBy ==
  ASSUME NEW gross \in Nat, NEW pay, NEW item, pay.pct \in Nat, item.pct \in Nat
  PROVE  LET part == OnLine(gross, pay, item)
         IN  \/ part.off = 0
             \/ pay.offer \in part.by /\ pay.pct # 0
             \/ item.offer \in part.by /\ item.pct # 0
<1> PICK payFils : payFils = Least(Percent(gross, pay.pct), gross) OBVIOUS
<1> PICK itemFils : itemFils = Least(Percent(gross, item.pct), gross - payFils) OBVIOUS
<1>1. Percent(gross, pay.pct) \in Nat /\ Percent(gross, item.pct) \in Nat BY PercentNat
<1>2. Percent(gross, 0) = 0 BY PercentNone
<1>3. payFils \in 0..gross /\ (pay.pct = 0 => payFils = 0) BY <1>1, <1>2 DEF Least
<1>4. itemFils \in 0..(gross - payFils) /\ (item.pct = 0 => itemFils = 0)
  BY <1>1, <1>2, <1>3 DEF Least
<1>5. /\ OnLine(gross, pay, item).off = payFils + itemFils
      /\ OnLine(gross, pay, item).by = {o \in {pay.offer} : payFils > 0} \cup {o \in {item.offer} : itemFils > 0}
  BY DEF OnLine
<1> QED BY <1>3, <1>4, <1>5

\* Offers that take something off a line are said to apply.
LEMMA NothingOff ==
  ASSUME NEW r \in Requests, NEW granted \in SUBSET Offers, Evaluate(r, granted).applied = {},
         NEW item \in Bought(r.lines)
  PROVE  Part1(r, granted, item).off = 0
<1> PICK gross : gross = CartGross(r.lines, item) OBVIOUS
<1>1. gross \in Nat BY DiscountNat
<1> PICK pays : pays = [o \in Offers |-> PaymentPercent(o, r)] OBVIOUS
<1> PICK itemPcts : itemPcts = [o \in Offers |-> ItemPercent(o, r)] OBVIOUS
<1> PICK pay : pay = Best(granted, pays) OBVIOUS
<1> PICK its : its = Best({o \in granted : item \in Catalogue[o].items}, itemPcts) OBVIOUS
<1>2. granted \in SUBSET Offers OBVIOUS
<1>3. pay.pct \in Nat /\ (pay = [offer |-> None, pct |-> 0] \/ pay.offer \in granted)
  <2>1. pays \in [Offers -> Nat] BY PercentsNat
  <2> QED BY <1>2, <2>1, BestIs
<1>4. its.pct \in Nat /\ (its = [offer |-> None, pct |-> 0] \/ its.offer \in granted)
  <2>1. itemPcts \in [Offers -> Nat] BY PercentsNat
  <2> PICK some : some = {o \in granted : item \in Catalogue[o].items} OBVIOUS
  <2>2. some \in SUBSET Offers /\ some \subseteq granted BY <1>2
  <2>3. its.pct \in Nat /\ (its = [offer |-> None, pct |-> 0] \/ its.offer \in some)
    BY <2>1, <2>2, BestIs
  <2> QED BY <2>2, <2>3
<1> PICK part : part = Part1(r, granted, item) OBVIOUS
<1>5. part = OnLine(gross, pay, its) BY DEF Part1
<1>6. part.off = 0 \/ (pay.offer \in part.by /\ pay.pct # 0) \/ (its.offer \in part.by /\ its.pct # 0)
  BY <1>1, <1>3, <1>4, <1>5, OnLineBy
<1>7. \A o \in granted : o \notin part.by
  <2> SUFFICES ASSUME NEW o \in granted, o \in part.by PROVE FALSE OBVIOUS
  <2>1. o \in Evaluate(r, granted).applied BY AppliedIs
  <2> QED BY <2>1
<1> QED BY <1>3, <1>4, <1>6, <1>7

\* A gift is one of the rep's picks.
LEMMA GiftsArePicked ==
  ASSUME NEW r \in Requests, NEW granted \in SUBSET Offers, NEW item \in Items,
         Evaluate(r, granted).gifts[item] > 0
  PROVE  \E i \in DOMAIN r.picks : r.picks[i] = item
<1> SUFFICES ASSUME \A i \in DOMAIN r.picks : r.picks[i] # item PROVE FALSE OBVIOUS
<1> PICK f : f = [o \in granted |-> Given(r, o, item)] OBVIOUS
<1>1. IsFiniteSet(granted)
  <2>1. granted \in SUBSET Offers OBVIOUS
  <2> QED BY <2>1, MoneyAssumption, FS_Subset
<1>2. ASSUME NEW o \in granted PROVE f[o] = 0
  <2>1. {i \in Picks(o, r) : r.picks[i] = item} = {} BY DEF Picks
  <2>2. Given(r, o, item) = 0 BY <2>1, FS_EmptySet DEF Given
  <2> QED BY <2>2
<1>3. SumFunctionOnSet(f, granted) = 0 BY <1>1, <1>2, SumZero
<1>4. Evaluate(r, granted).gifts[item] = Total(f) BY GiftsAt
<1>5. Total(f) = 0 BY <1>3 DEF Total
<1> QED BY <1>4, <1>5

-----------------------------------------------------------------------------
\* What an item of a cart comes to in the evaluation.
ItemWorth(r, granted) ==
  [item \in Bought(r.lines) |-> Part1(r, granted, item).net + Percent(Part1(r, granted, item).net, Rate[item])]

\* The cart of a plain sale.
PlainCart(r, n) ==
  /\ r.lines \in [1..n -> Line]
  /\ \A i \in 1..n : /\ r.lines[i].price = Price[r.lines[i].item]
                     /\ r.lines[i].pct = 0 /\ r.lines[i].fils = 0
                     /\ \A j \in 1..n : r.lines[j].item = r.lines[i].item => i = j
  /\ NoTobacco(r.lines)
  /\ \A i \in DOMAIN r.picks : Tobacco[r.picks[i]] = None

LEMMA PlainIs ==
  ASSUME NEW r \in Requests, Plain(r)
  PROVE  \E n \in Nat \ {0} : PlainCart(r, n)
<1> PICK n \in Nat \ {0} : r.lines \in [1..n -> Line] BY RequestLines
<1>1. DOMAIN r.lines = 1..n OBVIOUS
<1>2. PlainCart(r, n) BY <1>1 DEF Plain, PlainCart, NoTobacco
<1> QED BY <1>2

\* A line of it, with the discount of its item, comes to what the evaluation says.
LEMMA PlainLineWorth ==
  ASSUME NEW r \in Requests, NEW granted \in SUBSET Offers, NEW n \in Nat \ {0}, PlainCart(r, n),
         NEW i \in 1..n
  PROVE  LET item == r.lines[i].item
             off == Part1(r, granted, item).off
         IN  /\ item \in Bought(r.lines) /\ off \in Nat
             /\ LineWorth([r.lines[i] EXCEPT !.fils = @ + off]) = ItemWorth(r, granted)[item]
<1> PICK l \in Line : l = r.lines[i] BY DEF PlainCart
<1> PICK item : item = l.item OBVIOUS
<1> PICK off : off = Part1(r, granted, item).off OBVIOUS
<1>1. item \in Bought(r.lines) BY DEF Bought, PlainCart
<1>2. /\ off \in 0..CartGross(r.lines, item) /\ CartGross(r.lines, item) \in Nat
      /\ Part1(r, granted, item).net = CartGross(r.lines, item) - off
  BY <1>1, DiscountNat
<1>3. CartGross(r.lines, item) = Gross(l)
  <2>1. \A j \in 1..n : r.lines[j].item = r.lines[i].item => i = j BY DEF PlainCart
  <2>2. Quantity(r.lines, {item}) = l.qty BY <2>1, OnlyLine DEF PlainCart
  <2>3. l.price = Price[item] BY DEF PlainCart
  <2> QED BY <2>2, <2>3 DEF CartGross, Gross
<1> PICK m : m = [l EXCEPT !.fils = @ + off] OBVIOUS
<1>4. l.pct = 0 /\ l.fils = 0 BY DEF PlainCart
<1>5. m \in Line /\ m.pct = 0 /\ m.fils = off /\ m.item = item /\ Gross(m) = Gross(l)
  <2>1. off \in Int BY <1>2
  <2> QED BY <1>4, <2>1 DEF Line, Gross
<1>6. Net(m) = Gross(l) - off
  <2>1. off \in 0..Gross(m) BY <1>2, <1>3, <1>5
  <2>2. Net(m) = Gross(m) - off BY ONLY <1>5, <2>1, BearsItsPart
  <2> QED BY <1>5, <2>2
<1>7. Net(m) = Part1(r, granted, item).net BY <1>2, <1>3, <1>6
<1>8. LineWorth(m) = ItemWorth(r, granted)[item] BY <1>1, <1>5, <1>7 DEF LineWorth, ItemWorth
<1> QED BY <1>1, <1>2, <1>8

\* Every line bears the discount of its item.
Borne(r, granted, lines, n) ==
  \A i \in 1..n : lines[i] = [r.lines[i] EXCEPT !.fils = @ + Part1(r, granted, r.lines[i].item).off]

LEMMA PlainWorth ==
  ASSUME NEW r \in Requests, NEW granted \in SUBSET Offers, NEW n \in Nat \ {0}, PlainCart(r, n),
         NEW lines \in [1..n -> Line], Borne(r, granted, lines, n)
  PROVE  Worth(lines) = Evaluate(r, granted).total /\ NoTobacco(lines)
<1> USE DEF Borne
<1> PICK part : part = ItemWorth(r, granted) OBVIOUS
<1>1. \A i \in 1..n : lines[i].item = r.lines[i].item BY DEF PlainCart, Line
<1>2. \A i \in 1..n : LineWorth(lines[i]) = part[lines[i].item] BY <1>1, PlainLineWorth
<1>3. \A i, j \in 1..n : lines[i].item = lines[j].item => i = j
  <2> TAKE i, j \in 1..n
  <2>1. r.lines[j].item = r.lines[i].item => i = j BY DEF PlainCart
  <2>2. lines[i].item = r.lines[i].item /\ lines[j].item = r.lines[j].item BY <1>1
  <2> QED BY <2>1, <2>2
<1>4. Bought(lines) = Bought(r.lines)
  <2>1. DOMAIN lines = 1..n /\ DOMAIN r.lines = 1..n BY DEF PlainCart
  <2>2. {lines[i].item : i \in 1..n} = {r.lines[i].item : i \in 1..n} BY <1>1
  <2> QED BY <2>1, <2>2 DEF Bought
<1>5. Worth(lines) = SumFunctionOnSet(part, Bought(lines)) BY <1>2, <1>3, WorthByItem
<1>6. Evaluate(r, granted).total = Total(part) BY TotalIs DEF ItemWorth
<1>7. Total(part) = SumFunctionOnSet(part, Bought(r.lines)) BY DEF Total, ItemWorth
<1>8. NoTobacco(lines) BY <1>1 DEF NoTobacco, PlainCart
<1> QED BY <1>4, <1>5, <1>6, <1>7, <1>8

\* The lines with the discounts alone come to the total of the evaluation.
LEMMA DiscountedWorth ==
  ASSUME NEW r \in Requests, NEW granted \in SUBSET Offers, NEW n \in Nat \ {0}, PlainCart(r, n),
         NEW result, result = Evaluate(r, granted)
  PROVE  LET own == Discounted(r.lines, result.discount)
         IN  own \in [1..n -> Line] /\ Worth(own) = result.total /\ NoTobacco(own)
<1>0. r.lines \in [1..n -> Line] BY DEF PlainCart
<1> PICK own : own = Discounted(r.lines, result.discount) OBVIOUS
<1>1. own \in [1..n -> Line]
  <2>1. ASSUME NEW item \in Bought(r.lines) PROVE result.discount[item] \in Nat
    <3>1. result.discount[item] = Part1(r, granted, item).off BY EvaluateAt
    <3>2. /\ Part1(r, granted, item).off \in 0..CartGross(r.lines, item)
          /\ CartGross(r.lines, item) \in Nat
      BY DiscountNat
    <3> QED BY <3>1, <3>2
  <2> QED BY <1>0, <2>1, DiscountedLines
<1>2. ASSUME NEW i \in 1..n
      PROVE  own[i] = [r.lines[i] EXCEPT !.fils = @ + Part1(r, granted, r.lines[i].item).off]
  <2>1. r.lines[i].item \notin {r.lines[j].item : j \in 1..(i - 1)}
    <3> SUFFICES ASSUME NEW j \in 1..(i - 1), r.lines[j].item = r.lines[i].item PROVE FALSE
      OBVIOUS
    <3>1. j \in 1..n /\ j # i OBVIOUS
    <3> QED BY <3>1 DEF PlainCart
  <2>2. r.lines[i].item \in Bought(r.lines) BY <1>0 DEF Bought
  <2>3. result.discount[r.lines[i].item] = Part1(r, granted, r.lines[i].item).off
    BY <2>2, EvaluateAt
  <2>4. own[i] = [r.lines[i] EXCEPT !.fils = @ + result.discount[r.lines[i].item]]
    BY <1>0, <2>1 DEF Discounted
  <2> QED BY <2>3, <2>4
<1>3. Worth(own) = result.total /\ NoTobacco(own)
  <2>1. Borne(r, granted, own, n) BY <1>2 DEF Borne
  <2> QED BY <1>1, <2>1, PlainWorth
<1> QED BY <1>1, <1>3

\* A plain sale goes on with lines that come to the total of the evaluation.
LEMMA PreviewIs ==
  ASSUME NEW r \in Requests, NEW granted \in SUBSET Offers, Plain(r),
         NEW result, result = Evaluate(r, granted),
         NEW lines, \/ result.applied = {} /\ lines = r.lines
                    \/ lines = Discounted(r.lines, result.discount)
                    \/ lines = WithGifts(Discounted(r.lines, result.discount), result.gifts)
  PROVE  Worth(lines) = result.total /\ NoTobacco(lines)
<1>1. PICK n \in Nat \ {0} : PlainCart(r, n) BY PlainIs
<1>2. r.lines \in [1..n -> Line] BY <1>1 DEF PlainCart
<1>3. CASE result.applied = {} /\ lines = r.lines
  <2>1. ASSUME NEW i \in 1..n
        PROVE  lines[i] = [r.lines[i] EXCEPT !.fils = @ + Part1(r, granted, r.lines[i].item).off]
    <3>1. r.lines[i].item \in Bought(r.lines) BY <1>2 DEF Bought
    <3>2. Part1(r, granted, r.lines[i].item).off = 0 BY <1>3, <3>1, NothingOff
    <3>3. r.lines[i] \in Line /\ r.lines[i].fils = 0 BY <1>1 DEF PlainCart
    <3>4. [r.lines[i] EXCEPT !.fils = @ + 0] = r.lines[i] BY <3>3 DEF Line
    <3> QED BY <1>3, <3>2, <3>4
  <2>2. lines \in [1..n -> Line] BY <1>2, <1>3
  <2>3. Worth(lines) = Evaluate(r, granted).total /\ NoTobacco(lines)
    <3>1. Borne(r, granted, lines, n) BY <2>1 DEF Borne
    <3> QED BY <1>1, <2>2, <3>1, PlainWorth
  <2> QED BY <2>3
<1>4. CASE lines = WithGifts(Discounted(r.lines, result.discount), result.gifts)
  <2> PICK own : own = Discounted(r.lines, result.discount) OBVIOUS
  <2> PICK gifts : gifts = result.gifts OBVIOUS
  <2>1. own \in [1..n -> Line] BY <1>1, DiscountedWorth
  <2>3. Worth(own) = result.total /\ NoTobacco(own) BY <1>1, DiscountedWorth
  <2>4. ASSUME NEW item \in Items PROVE gifts[item] \in Nat
    <3>1. gifts[item] = Total([o \in granted |-> Given(r, o, item)]) BY GiftsAt
    <3> QED BY <3>1, GiftsNat
  <2> PICK S : S = {GiftLine(item, gifts[item]) : item \in {i \in Items : gifts[i] > 0}} OBVIOUS
  <2> PICK free : free = GiftLines(gifts) OBVIOUS
  <2>5. PICK m \in Nat : S \subseteq Line /\ free \in [1..m -> S]
    <3>1. S \subseteq Line /\ GiftLines(gifts) \in Bijection(1..Cardinality(S), S) /\ Cardinality(S) \in Nat
      BY <2>4, GiftLinesAre
    <3> QED BY <3>1 DEF Bijection, Injection
  <2>6. ASSUME NEW l \in S PROVE Net(l) = 0 /\ Tobacco[l.item] = None
    <3>1. PICK item \in Items : gifts[item] > 0 /\ l = GiftLine(item, gifts[item]) OBVIOUS
    <3>2. Net(l) = 0 /\ l.item = item BY <2>4, <3>1, GiftIsFree
    <3>3. PICK i \in DOMAIN r.picks : r.picks[i] = item BY <3>1, GiftsArePicked
    <3>4. Tobacco[item] = None BY <1>1, <3>3 DEF PlainCart
    <3> QED BY <3>2, <3>4
  <2>7. free \in [1..m -> Line] /\ \A i \in 1..m : Net(free[i]) = 0 BY <2>5, <2>6
  <2>8. lines = own \o free BY <1>4 DEF WithGifts, GiftLines
  <2>9. Worth(lines) = Worth(own) BY <2>1, <2>7, <2>8, WorthWithFree
  <2>10. NoTobacco(lines)
    <3>1. own \in Seq(Line) /\ Len(own) = n /\ free \in Seq(Line) /\ Len(free) = m
      BY <2>1, <2>7, SeqDef
    <3>2. lines \in Seq(Line) /\ Len(lines) = n + m BY <2>8, <3>1, ConcatProperties
    <3>3. \A i \in 1..(n + m) : lines[i] = IF i <= n THEN own[i] ELSE free[i - n] BY <2>8, <3>1
    <3>4. DOMAIN lines = 1..(n + m) BY <3>2, LenProperties
    <3> SUFFICES ASSUME NEW i \in 1..(n + m) PROVE Tobacco[lines[i].item] = None
      BY <3>4 DEF NoTobacco
    <3>5. CASE i <= n
      <4>1. lines[i] = own[i] /\ i \in 1..n BY <3>3, <3>5
      <4> QED BY <2>1, <2>3, <4>1 DEF NoTobacco
    <3>6. CASE i > n
      <4>1. lines[i] = free[i - n] /\ i - n \in 1..m BY <3>3, <3>6
      <4>2. free[i - n] \in S BY <2>5, <4>1
      <4> QED BY <2>6, <4>1, <4>2
    <3> QED BY <3>5, <3>6
  <2> QED BY <2>3, <2>9, <2>10
<1>5. CASE lines = Discounted(r.lines, result.discount) BY <1>1, <1>5, DiscountedWorth
<1> QED BY <1>3, <1>4, <1>5

-----------------------------------------------------------------------------
\* What a sale is worth once it is posted, of the lines it was priced with.
PostedFrom(x, lines) ==
  /\ Lines(lines) /\ x.lines = Posting(lines)
  /\ x.voucher = calcVoucher(x.lines, x.request.head, x.mode)
  /\ x.tobacco = Total([i \in DOMAIN x.lines |-> TobaccoTax(x.lines[i])])

\* The preview of a plain sale, if with the same offers, is what its lines come to.
Previewed(x, lines) ==
  Plain(x.request) /\ x.shown # None => NoTobacco(lines) /\ x.shown = Worth(lines)

\* The app was shown the total of its cart with the offers granted then.
PreviewOK(x) ==
  x.preview # None => x.preview.total = Evaluate(x.request, x.preview.granted).total

\* The inductive invariant: a sale that is priced or posted is so from its lines.
CartOK(x) ==
  /\ x.pc \in {"previewed", "read"} => PreviewOK(x)
  /\ x.pc = "priced" => Lines(x.lines) /\ Previewed(x, x.lines)
  /\ x.pc = "posted" => \E lines : PostedFrom(x, lines) /\ Previewed(x, lines)

CartsOK == \A s \in Sellers : CartOK(sale[s])

LEMMA OtherCarts ==
  ASSUME NEW s \in Sellers, NEW x, CartOK(x), TypeOK, CartsOK, sale' = [sale EXCEPT ![s] = x]
  PROVE  CartsOK'
BY DEF CartsOK, TypeOK

LEMMA NoCart ==
  ASSUME NEW x, x.pc \notin {"previewed", "read", "priced", "posted"}
  PROVE  CartOK(x)
BY DEF CartOK

LEMMA PricedCart ==
  ASSUME TypeOK, CartsOK, NEW s \in Sellers, NEW lines, Lines(lines), NEW applied, NEW shown,
         Plain(sale[s].request) /\ shown # None => NoTobacco(lines) /\ shown = Worth(lines),
         Priced(s, lines, applied, shown)
  PROVE  CartsOK'
<1> PICK x : x = [pc |-> "priced", request |-> sale[s].request, lines |-> lines,
                  applied |-> applied, shown |-> shown]
  OBVIOUS
<1>1. sale' = [sale EXCEPT ![s] = x] BY Zenon DEF Priced
<1>2. CartOK(x) BY DEF CartOK, Previewed
<1> QED BY <1>1, <1>2, OtherCarts

LEMMA NextCarts ==
  ASSUME TypeOK, CartsOK, [Next]_vars
  PROVE  CartsOK'
<1>1. ASSUME NEW s \in Sellers, (\E request \in Requests : Unseen(s, request)) \/ Confirmed(s)
      PROVE  CartsOK'
  <2>1. ASSUME NEW request, NEW preview, Begin(s, request, preview),
               preview # None => preview.total = Evaluate(request, preview.granted).total
        PROVE  CartsOK'
    <3> PICK x : x = [pc |-> "read", request |-> request, open |-> OpenOffers, preview |-> preview]
      OBVIOUS
    <3>1. sale' = [sale EXCEPT ![s] = x] BY <2>1, Zenon DEF Begin
    <3>2. CartOK(x) BY <2>1 DEF CartOK, PreviewOK
    <3> QED BY <3>1, <3>2, OtherCarts
  <2>2. CASE Confirmed(s)
    <3>1. PreviewOK(sale[s]) /\ Begin(s, sale[s].request, sale[s].preview)
      BY <2>2 DEF Confirmed, CartsOK, CartOK
    <3> QED BY <2>1, <3>1 DEF PreviewOK
  <2>3. ASSUME NEW request \in Requests, Unseen(s, request) PROVE CartsOK'
    BY <2>1, <2>3 DEF Unseen
  <2> QED BY <1>1, <2>2, <2>3
<1>2. ASSUME NEW s \in Sellers, ApplyOffers(s) \/ OffersFail(s) PROVE CartsOK'
  <2> PICK r : r = sale[s].request OBVIOUS
  <2> PICK granted : granted = Granted(r, sale[s].open, None) OBVIOUS
  <2> PICK result : result = Evaluate(r, granted) OBVIOUS
  <2> PICK shown : shown = Shown(s, granted) OBVIOUS
  <2>1. r \in Requests /\ granted \in SUBSET Offers /\ PreviewOK(sale[s])
    BY <1>2 DEF ApplyOffers, OffersFail, TypeOK, SaleOK, CartsOK, CartOK, Granted
  <2>2. /\ Lines(r.lines)
        /\ Lines(Discounted(r.lines, result.discount))
        /\ Lines(WithGifts(Discounted(r.lines, result.discount), result.gifts))
    BY <2>1, PricedLines
  <2>3. shown # None => shown = result.total BY <2>1 DEF Shown, PreviewOK
  <2>4. ASSUME NEW lines, \/ result.applied = {} /\ lines = r.lines
                          \/ lines = Discounted(r.lines, result.discount)
                          \/ lines = WithGifts(Discounted(r.lines, result.discount), result.gifts)
        PROVE  Plain(r) /\ shown # None => NoTobacco(lines) /\ shown = Worth(lines)
    BY <2>1, <2>3, <2>4, PreviewIs
  <2>5. \E lines, applied, told :
          /\ Lines(lines) /\ Priced(s, lines, applied, told)
          /\ Plain(r) /\ told # None => NoTobacco(lines) /\ told = Worth(lines)
    <3>1. CASE ApplyOffers(s)
      <4>1. CASE result.applied = {}
        <5>1. Priced(s, r.lines, {}, shown) BY <3>1, <4>1, Zenon DEF ApplyOffers
        <5> QED BY <2>2, <2>4, <4>1, <5>1
      <4>2. CASE result.applied # {}
        <5> PICK lines : lines = WithGifts(Discounted(r.lines, result.discount), result.gifts) OBVIOUS
        <5>1. Priced(s, lines, result.applied, shown) BY <3>1, <4>2, Zenon DEF ApplyOffers
        <5> QED BY <2>2, <2>4, <5>1
      <4> QED BY <4>1, <4>2
    <3>2. CASE OffersFail(s)
      <4>1. \/ Priced(s, r.lines, {}, None)
            \/ Priced(s, Discounted(r.lines, result.discount), {}, shown)
        BY <3>2, Zenon DEF OffersFail
      <4> QED BY <2>2, <2>4, <4>1
    <3> QED BY <1>2, <3>1, <3>2
  <2> QED BY <2>5, PricedCart
<1>3. ASSUME NEW s \in Sellers, Post(s) PROVE CartsOK'
  <2> DEFINE lines == sale[s].lines
  <2>1. Lines(lines) /\ Previewed(sale[s], lines) BY <1>3 DEF Post, CartsOK, CartOK
  <2>2. PICK mode \in TaxModes :
          sale' = [sale EXCEPT ![s] =
            [pc |-> "posted", request |-> sale[s].request, lines |-> Posting(lines), mode |-> mode,
             voucher |-> calcVoucher(Posting(lines), sale[s].request.head, mode),
             tobacco |-> Total([i \in DOMAIN Posting(lines) |-> TobaccoTax(Posting(lines)[i])]),
             applied |-> sale[s].applied, shown |-> sale[s].shown, number |-> sold + 1]]
    BY <1>3, Zenon DEF Post, Posting
  <2> PICK x : x = [pc |-> "posted", request |-> sale[s].request, lines |-> Posting(lines), mode |-> mode,
             voucher |-> calcVoucher(Posting(lines), sale[s].request.head, mode),
             tobacco |-> Total([i \in DOMAIN Posting(lines) |-> TobaccoTax(Posting(lines)[i])]),
             applied |-> sale[s].applied, shown |-> sale[s].shown, number |-> sold + 1]
    OBVIOUS
  <2>3. sale' = [sale EXCEPT ![s] = x] BY <2>2
  <2>4. PostedFrom(x, lines) BY <2>1 DEF PostedFrom
  <2>5. Previewed(x, lines) BY <2>1 DEF Previewed
  <2>6. CartOK(x) BY <2>4, <2>5 DEF CartOK
  <2> QED BY ONLY <2>3, <2>6, TypeOK, CartsOK, s \in Sellers, OtherCarts
<1>4. ASSUME NEW s \in Sellers, Leave(s) \/ PostFails(s) \/ Record(s) \/ Count(s) \/ RecordFails(s)
      PROVE  CartsOK'
  <2>1. \E x : CartOK(x) /\ sale' = [sale EXCEPT ![s] = x]
    <3>1. CartOK(NoSale) BY NoCart DEF NoSale
    <3>2. \A applied : CartOK([pc |-> "counting", applied |-> applied])
      <4> TAKE applied
      <4> PICK x : x = [pc |-> "counting", applied |-> applied] OBVIOUS
      <4>1. CartOK(x) BY NoCart
      <4> QED BY <4>1
    <3>3. CASE Leave(s) \/ PostFails(s) BY <3>1, <3>3 DEF Leave, PostFails
    <3>4. CASE Record(s)
      <4>1. CASE sale[s].applied = {} BY <3>1, <3>4, <4>1 DEF Record
      <4>2. CASE sale[s].applied # {} BY <3>2, <3>4, <4>2 DEF Record
      <4> QED BY <4>1, <4>2
    <3>5. CASE Count(s)
      <4>1. PICK o \in sale[s].applied :
              sale' = [sale EXCEPT ![s] = IF sale[s].applied = {o} THEN NoSale
                                          ELSE [pc |-> "counting", applied |-> @.applied \ {o}]]
        BY <3>5 DEF Count
      <4>2. CASE sale[s].applied = {o} BY <3>1, <4>1, <4>2
      <4>3. CASE sale[s].applied # {o} BY <3>2, <4>1, <4>3
      <4> QED BY <4>2, <4>3
    <3>6. CASE RecordFails(s) BY <3>1, <3>6 DEF RecordFails
    <3> QED BY <1>4, <3>3, <3>4, <3>5, <3>6
  <2> QED BY <2>1, OtherCarts
<1>5. ASSUME UNCHANGED sale PROVE CartsOK'
  BY <1>5 DEF CartsOK
<1>6. (\E o \in Edited : ToggleRead(o)) \/ ToggleSave => UNCHANGED sale
  BY DEF ToggleRead, ToggleSave
<1>7. UNCHANGED vars => UNCHANGED sale BY DEF vars
<1>8. ASSUME NEW s \in Sellers, NEW request \in Carts, Preview(s, request) PROVE CartsOK'
  <2> PICK granted : granted = Granted(request, OpenOffers, request.store) OBVIOUS
  <2> PICK x : x = [pc |-> "previewed", request |-> request,
                    preview |-> [granted |-> granted, total |-> Evaluate(request, granted).total]]
    OBVIOUS
  <2>1. sale' = [sale EXCEPT ![s] = x] BY <1>8, Zenon DEF Preview
  <2>2. CartOK(x) BY DEF CartOK, PreviewOK
  <2> QED BY <2>1, <2>2, OtherCarts
<1> QED BY <1>1, <1>2, <1>3, <1>4, <1>5, <1>6, <1>7, <1>8, Zenon DEF Next, Sell

\* No sale is under way at first, and every action leaves good carts.
LEMMA InitCarts == Init => CartsOK
BY DEF Init, CartsOK, CartOK, NoSale

LEMMA CartsHold == Spec => []CartsOK
<1>1. TypeOK /\ CartsOK /\ [Next]_vars => CartsOK' BY NextCarts
<1> QED BY <1>1, InitCarts, TypeCorrect, PTL DEF Spec

\* The discount and the shares of a voucher.
LEMMA VoucherIs ==
  ASSUME NEW lines, NEW head, NEW mode
  PROVE  LET discount == computeDiscount(Total(Nets(lines)), head)
         IN  /\ calcVoucher(lines, head, mode).discount = discount
             /\ calcVoucher(lines, head, mode).shares = HeaderShares(Nets(lines), discount)
BY DEF calcVoucher, Nets

\* Every posted voucher spreads its header discount over its lines to the last
\* fils, each line bearing its share to half a fils and the last one that comes
\* to something the rest, for any lines and any discount (voucher-calc.ts,
\* calcVoucher: the shares and the remainder).
THEOREM HeaderIsSpreadHolds == Spec => []HeaderIsSpread
<1>1. TypeOK /\ CartsOK => HeaderIsSpread
  <2> SUFFICES ASSUME TypeOK, CartsOK, NEW s \in Posted
               PROVE  Spread(sale[s].lines, sale[s].voucher)
    BY DEF HeaderIsSpread
  <2>1. s \in Sellers /\ sale[s].pc = "posted" /\ sale[s].request \in Requests
    BY DEF Posted, TypeOK, SaleOK
  <2>2. PICK before : PostedFrom(sale[s], before) BY <2>1 DEF CartsOK, CartOK
  <2> PICK lines : lines = sale[s].lines OBVIOUS
  <2>3. Lines(lines) BY <2>2, TaxedLines DEF PostedFrom
  <2>4. PICK n \in Nat \ {0} : lines \in [1..n -> Line] BY <2>3 DEF Lines
  <2> PICK nets : nets = Nets(lines) OBVIOUS
  <2> PICK sum : sum = Total(nets) OBVIOUS
  <2> PICK head : head = sale[s].request.head OBVIOUS
  <2> PICK discount : discount = computeDiscount(sum, head) OBVIOUS
  <2>6. /\ sale[s].voucher.discount = discount
        /\ sale[s].voucher.shares = HeaderShares(nets, discount)
    BY <2>2, VoucherIs DEF PostedFrom
  <2>7. nets \in [1..n -> Nat] /\ sum \in Nat BY <2>4, NetsAre
  <2>8. discount \in 0..sum
    <3>1. head.pct \in Int /\ head.fils \in Int BY <2>1, MoneyAssumption DEF RequestOK
    <3> QED BY <2>7, <3>1, DiscountIs
  <2>9. Total(HeaderShares(nets, discount)) = discount
    <3> PICK shares : shares = HeaderShares(nets, discount) OBVIOUS
    <3>1. shares \in [1..n -> Int] /\ SumFunctionOnSet(shares, 1..n) = discount
      BY <2>7, <2>8, SharesAdd
    <3> QED BY <3>1 DEF Total
  <2>10. ASSUME NEW i \in 1..n
         PROVE  Within(HeaderShares(nets, discount)[i] * sum, discount * nets[i],
                  sum * (IF \E j \in Charged(nets) : j > i THEN 1 ELSE Most(1, n - 1)))
    BY <2>7, <2>8, SharesSpread
  <2>11. DOMAIN nets = 1..n /\ Len(nets) = n BY <2>7
  <2> QED BY <2>6, <2>9, <2>10, <2>11 DEF Spread, Nets
<1> QED BY <1>1, CartsHold, TypeCorrect, PTL

-----------------------------------------------------------------------------
\* Half a fils is never left over, unless the rate is 4, 12, 20 ... percent.
LEMMA NoTie ==
  ASSUME NEW rate \in Nat, rate % 8 # 4, NEW net \in Int, NEW q \in Int
  PROVE  2 * ((100 + rate) * q) # 200 * net + (100 + rate)
<1> SUFFICES ASSUME 2 * ((100 + rate) * q) = 200 * net + (100 + rate) PROVE FALSE OBVIOUS
<1>1. PICK a \in Nat, r \in 0..7 : rate = 8 * a + r /\ r # 4
  <2> PICK a : a = rate \div 8 OBVIOUS
  <2>1. a \in Int /\ 8 * a <= rate /\ rate < 8 * a + 8 BY DivBound
  <2>2. a \in Nat /\ rate - 8 * a \in 0..7 BY <2>1
  <2>3. rate - 8 * a = 4 => rate % 8 = 4 BY <2>2
  <2> QED BY <2>2, <2>3
<1> PICK b : b = a + 12 OBVIOUS
<1> PICK t : t = r + 4 OBVIOUS
<1> PICK k : k = 2 * q - 1 OBVIOUS
<1>2. b \in Int /\ t \in {4, 5, 6, 7, 9, 10, 11} /\ k \in Int /\ 100 + rate = 8 * b + t
  BY <1>1
<1>3. (8 * b + t) * k = 200 * net
  <2>1. (100 + rate) * k = 2 * ((100 + rate) * q) - (100 + rate) OBVIOUS
  <2>2. (100 + rate) * q \in Int OBVIOUS
  <2>3. (100 + rate) * k = 200 * net BY <2>1, <2>2
  <2> QED BY <1>2, <2>3
<1> PICK m : m = 25 * net - b * k OBVIOUS
<1>4. m \in Int /\ t * k = 8 * m
  <2>1. b * k \in Int /\ t * k \in Int BY <1>2
  <2>2. (8 * b + t) * k = 8 * (b * k) + t * k BY <1>2
  <2> QED BY <1>3, <2>1, <2>2
<1>5. CASE t = 4 BY <1>4, <1>5
<1>6. CASE t = 5 BY <1>4, <1>6
<1>7. CASE t = 6 BY <1>4, <1>7
<1>8. CASE t = 7 BY <1>4, <1>8
<1>9. CASE t = 9 BY <1>4, <1>9
<1>10. CASE t = 10 BY <1>4, <1>10
<1>11. CASE t = 11 BY <1>4, <1>11
<1> QED BY <1>2, <1>5, <1>6, <1>7, <1>8, <1>9, <1>10, <1>11

\* The tax inside a price, and what the price is without it, make up the price.
LEMMA TaxInside ==
  ASSUME NEW rate \in Nat, rate % 8 # 4, NEW net \in Int
  PROVE  /\ HalfUp(net * rate, 100 + rate) = net - HalfUp(net * 100, 100 + rate)
<1> PICK d : d = 100 + rate OBVIOUS
<1>1. d \in Nat \ {0} OBVIOUS
<1>2. net * 100 \in Int /\ net * rate \in Int OBVIOUS
<1> PICK q : q = HalfUp(net * 100, d) OBVIOUS
<1>3. q \in Int /\ 2 * (d * q) <= 2 * (net * 100) + d /\ 2 * (net * 100) < 2 * (d * q) + d
  BY <1>1, <1>2, HalfUpBound
<1>4. 2 * (d * q) # 200 * net + d BY <1>3, NoTie
<1>5. d * (net - q) = d * net - d * q /\ net * rate = d * net - 100 * net
  <2>1. d * (net - q) = d * net - d * q BY ONLY <1>1, <1>3, net \in Int
  <2>2. (100 + rate) * net = 100 * net + net * rate OBVIOUS
  <2>3. net * rate = d * net - 100 * net BY <2>2
  <2> QED BY <2>1, <2>3
<1>6. d * q \in Int /\ d * net \in Int /\ net - q \in Int BY <1>1, <1>3
<1>7. 2 * (d * (net - q)) <= 2 * (net * rate) + d /\ 2 * (net * rate) < 2 * (d * (net - q)) + d
  <2> PICK x : x = d * q OBVIOUS
  <2> PICK y : y = d * net OBVIOUS
  <2>1. x \in Int /\ y \in Int /\ d * (net - q) = y - x /\ net * rate = y - 100 * net
    BY <1>5, <1>6
  <2>2. 2 * x <= 200 * net + d /\ 200 * net < 2 * x + d /\ 2 * x # 200 * net + d
    BY <1>3, <1>4
  <2>3. 2 * (y - x) <= 2 * (y - 100 * net) + d /\ 2 * (y - 100 * net) < 2 * (y - x) + d
    BY ONLY <1>1, <2>1, <2>2, net \in Int
  <2> QED BY <2>1, <2>3
<1>8. HalfUp(net * rate, d) = net - q BY <1>1, <1>2, <1>6, <1>7, HalfUpIs
<1> QED BY <1>8

\* One line: the two engines find the same net, tax and total.
LEMMA SameLine ==
  ASSUME NEW net \in Int, NEW rate \in Nat, NEW mode, mode = "EXCLUSIVE" \/ rate % 8 # 4
  PROVE  InvoiceLine(net, rate, InvoiceType(mode)) = VoucherLine(net, rate, mode)
<1>1. CASE mode = "EXCLUSIVE"
  <2>1. InvoiceType(mode) = "TAXABLE" BY <1>1 DEF InvoiceType
  <2>2. VoucherLine(net, rate, mode)
          = [taxable |-> net, tax |-> Percent(net, rate), total |-> net + Percent(net, rate)]
    BY <1>1 DEF VoucherLine
  <2>3. InvoiceLine(net, rate, "TAXABLE")
          = [taxable |-> net, tax |-> Percent(net, rate), total |-> net + Percent(net, rate)]
    BY DEF InvoiceLine
  <2> QED BY <2>1, <2>2, <2>3
<1>2. CASE mode # "EXCLUSIVE"
  <2>1. InvoiceType(mode) = "INCLUSIVE" BY <1>2 DEF InvoiceType
  <2> PICK tax : tax = HalfUp(net * rate, 100 + rate) OBVIOUS
  <2>2. tax = net - HalfUp(net * 100, 100 + rate) BY <1>2, TaxInside
  <2>3. VoucherLine(net, rate, mode) = [taxable |-> net - tax, tax |-> tax, total |-> net]
    BY <1>2, <2>2 DEF VoucherLine
  <2>4. InvoiceLine(net, rate, "INCLUSIVE") = [taxable |-> net - tax, tax |-> tax, total |-> net]
    BY DEF InvoiceLine
  <2> QED BY <2>1, <2>3, <2>4
<1> QED BY <1>1, <1>2

\* A percentage of a price that is below 0 comes to no more than nothing.
LEMMA PercentNeg ==
  ASSUME NEW n \in Nat, NEW p \in Int, p <= 0
  PROVE  Percent(n, p) \in Int /\ Percent(n, p) <= 0
<1> PICK m : m = n * p OBVIOUS
<1>1. m \in Int /\ m <= 0
  <2>1. n * (0 - p) >= 0
    <3>1. 0 - p \in Nat OBVIOUS
    <3> QED BY <3>1
  <2>2. n * (0 - p) = 0 - n * p OBVIOUS
  <2> QED BY <2>1, <2>2
<1> PICK q : q = HalfUp(m, 100) OBVIOUS
<1>2. q \in Int /\ 2 * (100 * q) <= 2 * m + 100 BY <1>1, HalfUpBound
<1> QED BY <1>1, <1>2 DEF Percent

\* The discount of the header is the same of the same lines.
LEMMA SameDiscount ==
  ASSUME NEW l \in Line, l.pct = 0 \/ l.fils = 0
  PROVE  Gross(l) - computeDiscount(Gross(l), l) = Net(l)
<1> PICK gross : gross = Gross(l) OBVIOUS
<1> PICK part : part = Percent(gross, l.pct) OBVIOUS
<1>1. gross \in Nat BY NetIs
<1>2. l.pct \in Int /\ l.fils \in Int BY DEF Line
<1>3. part \in Int /\ (l.pct > 0 => part >= 0) /\ (l.pct <= 0 => part <= 0)
  <2>1. CASE l.pct > 0
    <3>1. l.pct \in Nat BY <1>2, <2>1
    <3>2. part \in Nat BY <1>1, <3>1, PercentNat
    <3>3. part \in Int /\ part >= 0 BY ONLY <3>2
    <3> QED BY <1>2, <2>1, <3>3
  <2>2. CASE l.pct <= 0 BY <1>1, <1>2, <2>2, PercentNeg
  <2> QED BY <1>2, <2>1, <2>2
<1>4. l.pct = 0 => part = 0 BY <1>1, PercentNone
<1>5. computeDiscount(gross, l) = Least(IF l.pct > 0 THEN part ELSE Most(0, l.fils), gross)
  BY DEF computeDiscount
<1>6. LineDiscount(l) = Most(0, Least(part + Most(0, l.fils), gross))
  BY DEF LineDiscount, clamp
<1>7. Least(IF l.pct > 0 THEN part ELSE Most(0, l.fils), gross)
        = Most(0, Least(part + Most(0, l.fils), gross))
  BY <1>1, <1>2, <1>3, <1>4 DEF Least, Most
<1> QED BY <1>5, <1>6, <1>7 DEF Net

\* The two ways to place what rounding leaves over are one if the last line has a net.
LEMMA SameShares ==
  ASSUME NEW n \in Nat \ {0}, NEW nets \in [1..n -> Nat], nets[n] > 0,
         NEW sum \in Nat, sum = Total(nets), NEW discount \in 0..sum
  PROVE  InvoiceShares(nets, discount) = HeaderShares(nets, discount)
<1> PICK own : own = Rounded(nets, discount) OBVIOUS
<1> PICK over : over = discount - Total(own) OBVIOUS
<1>1. n \in Charged(nets) /\ Charged(nets) \subseteq 1..n BY DEF Charged
<1>2. Max(Charged(nets)) = n
  <2> PICK charged : charged = Charged(nets) OBVIOUS
  <2>1. charged # {} BY <1>1
  <2>2. Max(charged) \in charged /\ \A i \in charged : i <= Max(charged) BY <2>1, LastCharged
  <2> QED BY <1>1, <2>2
<1>3. own \in [1..n -> Nat] /\ Total(own) \in Nat
  <2>1. discount \in Nat OBVIOUS
  <2> QED BY <2>1, RoundedIs
<1>4. sum > 0
  <2>1. IsFiniteSet(1..n) BY FS_Interval
  <2>2. \A i \in 1..n : nets[i] <= SumFunctionOnSet(nets, 1..n) BY <2>1, SumNat
  <2>3. n \in 1..n /\ SumFunctionOnSet(nets, 1..n) = sum BY DEF Total
  <2> QED BY <2>2, <2>3
<1>5. HeaderShares(nets, discount) = IF over = 0 THEN own ELSE [own EXCEPT ![n] = own[n] + over]
  BY <1>1, <1>2 DEF HeaderShares
<1>6. CASE discount > 0
  <2>1. InvoiceShares(nets, discount) = [own EXCEPT ![n] = own[n] + discount - Total(own)]
    <3>1. Len(nets) = n OBVIOUS
    <3> QED BY <1>4, <1>6, <3>1 DEF InvoiceShares
  <2>2. own[n] + discount - Total(own) = own[n] + over /\ over \in Int /\ own[n] \in Int BY <1>3
  <2>3. over = 0 => [own EXCEPT ![n] = own[n] + over] = own BY <1>3, <2>2
  <2> QED BY <1>5, <2>1, <2>2, <2>3
<1>7. CASE discount = 0
  <2>1. \A i \in 1..n : own[i] = 0
    <3> TAKE i \in 1..n
    <3>1. own[i] = ShareOf(nets[i], discount, sum) BY RoundedAt
    <3>2. discount * nets[i] = 0 BY <1>7
    <3>3. HalfUp(0, sum) = 0 BY <1>4, HalfUpZero
    <3> QED BY <1>4, <3>1, <3>2, <3>3 DEF ShareOf
  <2>2. Total(own) = 0
    <3>1. IsFiniteSet(1..n) BY FS_Interval
    <3>2. SumFunctionOnSet(own, 1..n) = 0 BY <2>1, <3>1, SumZero
    <3> QED BY <1>3, <3>2 DEF Total
  <2>3. over = 0 BY <1>7, <2>2
  <2>4. InvoiceShares(nets, discount) = [i \in 1..n |-> 0] BY <1>7 DEF InvoiceShares
  <2>5. own = [i \in 1..n |-> 0] BY <1>3, <2>1
  <2> QED BY <1>5, <2>3, <2>4, <2>5
<1> QED BY <1>6, <1>7

\* A rate that a line is posted with.
Rated(lines) == \A i \in DOMAIN lines : lines[i].rate \in Nat

\* The rate of a posted line: that of its item, or 0 for tobacco.
LEMMA PostedRates ==
  ASSUME NEW lines, Lines(lines)
  PROVE  Rated(Posting(lines))
<1> PICK n \in Nat \ {0} : lines \in [1..n -> Line] BY DEF Lines
<1> SUFFICES ASSUME NEW i \in 1..n PROVE Taxed(lines[i]).rate \in Nat BY DEF Rated, Posting
<1> PICK l \in Line : l = lines[i] OBVIOUS
<1>1. Rate[l.item] \in Nat BY MoneyAssumption DEF Line
<1>2. Taxed(l).rate = IF Tobacco[l.item] # None THEN 0 ELSE Rate[l.item] BY DEF Taxed, Line
<1> QED BY <1>1, <1>2

\* The parts of an invoice and of a voucher, a line each, and their sums.
InvoiceNets(lines) == [i \in DOMAIN lines |-> Gross(lines[i]) - computeDiscount(Gross(lines[i]), lines[i])]

InvoiceParts(lines, nets, shares, types) ==
  [i \in DOMAIN lines |-> InvoiceLine(nets[i] - shares[i], lines[i].rate, types[i])]

VoucherParts(lines, nets, shares, mode) ==
  [i \in DOMAIN lines |-> VoucherLine(nets[i] - shares[i], lines[i].rate, mode)]

SumsOf(money, parts) ==
  /\ money.net = Part(parts, "taxable") /\ money.tax = Part(parts, "tax")
  /\ money.total = Part(parts, "total")

LEMMA InvoiceIs ==
  ASSUME NEW lines, NEW types, NEW head, NEW nets, nets = InvoiceNets(lines)
  PROVE  SumsOf(calculateInvoice(lines, types, head),
           InvoiceParts(lines, nets, InvoiceShares(nets, computeDiscount(Total(nets), head)), types))
BY DEF calculateInvoice, InvoiceNets, InvoiceParts, SumsOf

LEMMA VoucherTotals ==
  ASSUME NEW lines, NEW head, NEW mode, NEW nets, nets = Nets(lines)
  PROVE  SumsOf(calcVoucher(lines, head, mode),
           VoucherParts(lines, nets, HeaderShares(nets, computeDiscount(Total(nets), head)), mode))
BY DEF calcVoucher, Nets, VoucherParts, SumsOf

LEMMA SameEngines ==
  ASSUME NEW n \in Nat \ {0}, NEW lines \in [1..n -> Line], Rated(lines),
         NEW head, head.pct \in Int, head.fils \in Int, NEW mode, Comparable(lines, mode),
         NEW types, types = [i \in DOMAIN lines |-> InvoiceType(mode)]
  PROVE  SameMoney(calculateInvoice(lines, types, head), calcVoucher(lines, head, mode))
<1> PICK nets : nets = Nets(lines) OBVIOUS
<1> PICK sum : sum = Total(nets) OBVIOUS
<1> PICK discount : discount = computeDiscount(sum, head) OBVIOUS
<1> PICK shares : shares = HeaderShares(nets, discount) OBVIOUS
<1>1. nets \in [1..n -> Nat] /\ sum \in Nat BY NetsAre
<1>2. discount \in 0..sum BY <1>1, DiscountIs
<1>3. shares \in [1..n -> Int] BY <1>1, <1>2, SharesAdd
<1>4. InvoiceNets(lines) = nets
  <2>1. ASSUME NEW i \in 1..n
        PROVE  Gross(lines[i]) - computeDiscount(Gross(lines[i]), lines[i]) = Net(lines[i])
    <3>1. lines[i].pct = 0 \/ lines[i].fils = 0 BY DEF Comparable
    <3> QED BY <3>1, SameDiscount
  <2> QED BY <2>1 DEF InvoiceNets, Nets
<1>5. InvoiceShares(nets, discount) = shares
  <2>1. nets[n] > 0
    <3>1. Len(lines) = n OBVIOUS
    <3> QED BY <3>1 DEF Comparable, Nets
  <2> QED BY <1>1, <1>2, <2>1, SameShares
<1>6. InvoiceParts(lines, nets, shares, types) = VoucherParts(lines, nets, shares, mode)
  <2>1. ASSUME NEW i \in 1..n
        PROVE  InvoiceLine(nets[i] - shares[i], lines[i].rate, types[i])
                 = VoucherLine(nets[i] - shares[i], lines[i].rate, mode)
    <3>1. lines[i].rate \in Nat /\ (mode = "EXCLUSIVE" \/ lines[i].rate % 8 # 4)
      BY DEF Rated, Comparable
    <3>2. nets[i] - shares[i] \in Int BY <1>1, <1>3
    <3>3. types[i] = InvoiceType(mode) OBVIOUS
    <3> QED BY <3>1, <3>2, <3>3, SameLine
  <2> QED BY <2>1 DEF InvoiceParts, VoucherParts
<1> PICK parts : parts = VoucherParts(lines, nets, shares, mode) OBVIOUS
<1>7. SumsOf(calculateInvoice(lines, types, head), parts)
  <2>1. SumsOf(calculateInvoice(lines, types, head),
               InvoiceParts(lines, nets, InvoiceShares(nets, discount), types))
    BY <1>4, InvoiceIs
  <2> QED BY <1>5, <1>6, <2>1
<1>8. SumsOf(calcVoucher(lines, head, mode), parts) BY VoucherTotals
<1> QED BY <1>7, <1>8 DEF SameMoney, SumsOf

\* The two engines make the same net, tax and total of the lines of any posted
\* voucher that an invoice can express, at any rate where half a fils of tax
\* cannot arise (voucher-calc.ts, calcVoucher; invoice-calculator.ts,
\* calculateInvoice).
THEOREM EnginesAgreeHolds == Spec => []EnginesAgree
<1>1. TypeOK /\ CartsOK => EnginesAgree
  <2> SUFFICES ASSUME TypeOK, CartsOK, NEW s \in Posted,
                      Comparable(sale[s].lines, sale[s].mode),
                      NEW types, types = [i \in DOMAIN sale[s].lines |-> InvoiceType(sale[s].mode)]
               PROVE  SameMoney(calculateInvoice(sale[s].lines, types, sale[s].request.head),
                                sale[s].voucher)
    BY Zenon DEF EnginesAgree
  <2>1. s \in Sellers /\ sale[s].pc = "posted" /\ sale[s].request \in Requests
    BY DEF Posted, TypeOK, SaleOK
  <2>2. PICK before : PostedFrom(sale[s], before) BY <2>1 DEF CartsOK, CartOK
  <2> PICK lines : lines = sale[s].lines OBVIOUS
  <2>3. Lines(lines) /\ Rated(lines) BY <2>2, TaxedLines, PostedRates DEF PostedFrom
  <2>4. PICK n \in Nat \ {0} : lines \in [1..n -> Line] BY <2>3 DEF Lines
  <2> PICK head : head = sale[s].request.head OBVIOUS
  <2> PICK mode : mode = sale[s].mode OBVIOUS
  <2>5. head.pct \in Int /\ head.fils \in Int BY <2>1, MoneyAssumption DEF RequestOK
  <2>6. SameMoney(calculateInvoice(lines, types, head), calcVoucher(lines, head, mode))
    BY <2>3, <2>4, <2>5, SameEngines
  <2> QED BY <2>2, <2>6 DEF PostedFrom
<1> QED BY <1>1, CartsHold, TypeCorrect, PTL

-----------------------------------------------------------------------------
\* A line without tobacco is posted at the rate of its item.
LEMMA PostedLine ==
  ASSUME NEW l \in Line, Tobacco[l.item] = None
  PROVE  Net(Taxed(l)) = Net(l) /\ Taxed(l).rate = Rate[l.item] /\ TobaccoTax(Taxed(l)) = 0
<1> PICK m : m = Taxed(l) OBVIOUS
<1>1. m = [l EXCEPT !.rate = Rate[l.item]] BY DEF Taxed
<1>2. /\ m.item = l.item /\ m.qty = l.qty /\ m.price = l.price /\ m.pct = l.pct
      /\ m.fils = l.fils /\ m.rate = Rate[l.item]
  BY <1>1 DEF Line
<1>3. Net(m) = Net(l) BY <1>2 DEF Net, Gross, LineDiscount
<1>4. TobaccoTax(m) = 0 BY <1>2 DEF TobaccoTax
<1> QED BY <1>2, <1>3, <1>4

\* No header discount, no shares.
LEMMA NoShares ==
  ASSUME NEW n \in Nat, NEW nets \in [1..n -> Nat]
  PROVE  HeaderShares(nets, 0) = [i \in 1..n |-> 0]
<1> PICK own : own = Rounded(nets, 0) OBVIOUS
<1> PICK sum : sum = Total(nets) OBVIOUS
<1>1. IsFiniteSet(1..n) BY FS_Interval
<1>2. sum \in Nat
  <2>1. SumFunctionOnSet(nets, 1..n) \in Nat BY <1>1, SumNat
  <2> QED BY <2>1 DEF Total
<1>3. own \in [1..n -> Nat] BY <1>2, RoundedIs
<1>4. \A i \in 1..n : own[i] = 0
  <2> TAKE i \in 1..n
  <2>1. own[i] = ShareOf(nets[i], 0, sum) BY RoundedAt
  <2>2. 0 * nets[i] = 0 OBVIOUS
  <2>3. sum > 0 => HalfUp(0, sum) = 0 BY <1>2, HalfUpZero
  <2> QED BY <2>1, <2>2, <2>3 DEF ShareOf
<1>5. Total(own) = 0
  <2>1. SumFunctionOnSet(own, 1..n) = 0 BY <1>1, <1>4, SumZero
  <2> QED BY <1>3, <2>1 DEF Total
<1>6. HeaderShares(nets, 0) = own BY <1>5 DEF HeaderShares
<1> QED BY <1>3, <1>4, <1>6

\* What a plain sale is posted at, with the tax on top.
LEMMA PostedWorth ==
  ASSUME NEW n \in Nat \ {0}, NEW lines \in [1..n -> Line], NoTobacco(lines),
         NEW head, head.pct = 0, head.fils = 0
  PROVE  /\ calcVoucher(Posting(lines), head, "EXCLUSIVE").total = Worth(lines)
         /\ Total([i \in DOMAIN Posting(lines) |-> TobaccoTax(Posting(lines)[i])]) = 0
         /\ Worth(lines) \in Int
<1> PICK posted : posted = Posting(lines) OBVIOUS
<1>1. DOMAIN posted = 1..n /\ \A i \in 1..n : posted[i] = Taxed(lines[i]) BY DEF Posting
<1>2. \A i \in 1..n : /\ Net(posted[i]) = Net(lines[i]) /\ posted[i].rate = Rate[lines[i].item]
                      /\ TobaccoTax(posted[i]) = 0
  <2> TAKE i \in 1..n
  <2>1. Tobacco[lines[i].item] = None BY DEF NoTobacco
  <2> QED BY <1>1, <2>1, PostedLine
<1> PICK nets : nets = Nets(posted) OBVIOUS
<1>3. nets = Nets(lines) BY <1>1, <1>2 DEF Nets
<1>4. nets \in [1..n -> Nat] /\ Total(nets) \in Nat BY <1>3, NetsAre
<1>5. computeDiscount(Total(nets), head) = 0 BY <1>4 DEF computeDiscount, Most, Least
<1> PICK shares : shares = HeaderShares(nets, 0) OBVIOUS
<1>6. shares = [i \in 1..n |-> 0] BY <1>4, NoShares
<1> PICK parts : parts = VoucherParts(posted, nets, shares, "EXCLUSIVE") OBVIOUS
<1>7. calcVoucher(posted, head, "EXCLUSIVE").total = Part(parts, "total")
  BY <1>5, VoucherTotals DEF SumsOf
<1>8. \A i \in 1..n : parts[i].total = LineWorth(lines[i])
  <2> TAKE i \in 1..n
  <2>1. parts[i] = VoucherLine(nets[i] - shares[i], posted[i].rate, "EXCLUSIVE")
    BY <1>1 DEF VoucherParts
  <2>2. nets[i] = Net(lines[i]) /\ nets[i] - shares[i] = nets[i]
    <3>1. nets[i] = Net(lines[i]) BY <1>3 DEF Nets
    <3>2. shares[i] = 0 BY <1>6
    <3>3. nets[i] \in Nat BY <1>4
    <3> QED BY <3>1, <3>2, <3>3
  <2>3. parts[i] = VoucherLine(Net(lines[i]), Rate[lines[i].item], "EXCLUSIVE")
    BY <1>2, <2>1, <2>2
  <2> QED BY <2>3 DEF VoucherLine, LineWorth
<1> PICK S : S = 1..n OBVIOUS
<1> PICK f : f = [i \in S |-> parts[i]["total"]] OBVIOUS
<1> PICK g : g = [i \in S |-> LineWorth(lines[i])] OBVIOUS
<1> PICK t : t = [i \in S |-> TobaccoTax(posted[i])] OBVIOUS
<1>9. IsFiniteSet(S) BY FS_Interval
<1>10. SumFunctionOnSet(f, S) = SumFunctionOnSet(g, S)
  <2>1. \A x \in S : f[x] = g[x] BY <1>8
  <2> QED BY <1>9, <2>1, SumEqual
<1>11. Part(parts, "total") = SumFunctionOnSet(f, S)
  <2>1. DOMAIN parts = S BY <1>1 DEF VoucherParts
  <2> QED BY <2>1 DEF Part, Total
<1>12. Worth(lines) = SumFunctionOnSet(g, S) BY DEF Worth, Total
<1>13. SumFunctionOnSet(g, S) \in Int
  <2>1. \A x \in S : g[x] \in Int
    <3> TAKE x \in S
    <3>1. LineWorth(lines[x]) \in Int BY LineWorthInt
    <3> QED BY <3>1
  <2> QED BY <1>9, <2>1, SumInt
<1>14. Total([i \in DOMAIN posted |-> TobaccoTax(posted[i])]) = 0
  <2>1. \A x \in S : t[x] = 0 BY <1>2
  <2>2. SumFunctionOnSet(t, S) = 0 BY <1>9, <2>1, SumZero
  <2>3. [i \in DOMAIN posted |-> TobaccoTax(posted[i])] = t /\ DOMAIN t = S BY <1>1
  <2> QED BY <2>2, <2>3 DEF Total
<1> QED BY <1>7, <1>10, <1>11, <1>12, <1>13, <1>14

\* A plain sale is posted at the total the app was shown, with the gifts and
\* whatever the other sales and the administrator did meanwhile, if the same
\* offers may be granted by then, and also if the gifts could not be written
\* (offers-engine.service.ts, evaluate; offers.controller.ts, evaluate;
\* vouchers.service.ts, applyOffers, which promises it).
THEOREM PostedAsPreviewedHolds == Spec => []PostedAsPreviewed
<1>1. TypeOK /\ CartsOK => PostedAsPreviewed
  <2> SUFFICES ASSUME TypeOK, CartsOK, NEW s \in Posted, Plain(sale[s].request),
                      sale[s].mode = "EXCLUSIVE", sale[s].shown # None
               PROVE  sale[s].voucher.total + sale[s].tobacco = sale[s].shown
    BY DEF PostedAsPreviewed
  <2>1. s \in Sellers /\ sale[s].pc = "posted" BY DEF Posted
  <2>2. PICK lines : PostedFrom(sale[s], lines) /\ Previewed(sale[s], lines)
    BY <2>1 DEF CartsOK, CartOK
  <2>3. NoTobacco(lines) /\ sale[s].shown = Worth(lines) BY <2>2 DEF Previewed
  <2>4. PICK n \in Nat \ {0} : lines \in [1..n -> Line] BY <2>2 DEF PostedFrom, Lines
  <2> PICK head : head = sale[s].request.head OBVIOUS
  <2>5. head.pct = 0 /\ head.fils = 0 BY DEF Plain
  <2>6. /\ calcVoucher(Posting(lines), head, "EXCLUSIVE").total = Worth(lines)
        /\ Total([i \in DOMAIN Posting(lines) |-> TobaccoTax(Posting(lines)[i])]) = 0
        /\ Worth(lines) \in Int
    BY <2>3, <2>4, <2>5, PostedWorth
  <2>7. sale[s].voucher.total = Worth(lines) /\ sale[s].tobacco = 0 BY <2>2, <2>6 DEF PostedFrom
  <2> QED BY <2>3, <2>6, <2>7
<1> QED BY <1>1, CartsHold, TypeCorrect, PTL
=============================================================================
