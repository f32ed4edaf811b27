------------------------------ MODULE MCOffers ------------------------------
(* Two sellers, three items (one of them tobacco) and four offers, the last  *)
(* one for a store only.                                                     *)
EXTENDS Offers, TLC

CONSTANTS s1, s2, water, juice, smoke, d1, van

Offer(type, payment, items, anchor, base, limit) ==
  [type |-> type, payment |-> payment, items |-> items, anchor |-> anchor, base |-> base,
   limit |-> limit, perCustomer |-> NoLimit, scope |-> "ALL", stores |-> {}, minTotal |-> 0,
   multiplier |-> 1, step |-> 0, cap |-> 100,
   giftItems |-> {}, perGift |-> 1, perStep |-> 1, maxFree |-> NoLimit]

MCCatalogue == <<
  [Offer("PAYMENT", "CASH", {}, 1, 20, NoLimit) EXCEPT !.scope = "NEW_ONLY"],
  [Offer("ITEM", None, {water, juice}, 2, 30, 1) EXCEPT !.step = 1, !.cap = 90],
  [Offer("GIFT", None, {water}, 1, 0, NoLimit) EXCEPT
     !.giftItems = {juice, smoke}, !.perGift = 2, !.maxFree = 1, !.perCustomer = 1],
  [Offer("ITEM", None, {smoke}, 1, 10, NoLimit) EXCEPT !.stores = {van}] >>

MCItems == {water, juice, smoke}
MCPrice == [i \in MCItems |-> CASE i = water -> 7 [] i = juice -> 150 [] i = smoke -> 20]
MCRate == [i \in MCItems |-> IF i = water THEN 0 ELSE 16]
MCTobacco == [i \in MCItems |-> IF i = smoke THEN
  [consumerPrice |-> 25, taxBase |-> "CONSUMER_PRICE", salesPct |-> 13,
   special |-> "FIXED_PLUS_RATE", specialBase |-> "QUANTITY", specialFils |-> 6, specialPct |-> 10,
   withheld |-> "RATE", withheldBase |-> "GROSS_TAX", withheldFils |-> 4, withheldPct |-> 50]
  ELSE None]

CartLine(item, qty) == [item |-> item, qty |-> qty, price |-> MCPrice[item], pct |-> 0, fils |-> 0, rate |-> 0]
NoHead == [pct |-> 0, fils |-> 0]
Request(lines, head, payment, customer, picks, store) ==
  [lines |-> lines, head |-> head, payment |-> payment, customer |-> customer, picks |-> picks,
   store |-> store]

MCRequests == {
  Request(<<CartLine(juice, 1), CartLine(water, 3)>>, NoHead, "CASH", d1, <<juice, juice>>, None),
  Request(<<[CartLine(water, 1) EXCEPT !.fils = 2], CartLine(water, 1), CartLine(smoke, 1),
            [CartLine(juice, 1) EXCEPT !.pct = 33]>>, [NoHead EXCEPT !.fils = 3], "CREDIT", None, <<>>, van) }

MCCarts == {r \in MCRequests : r.customer = d1}

Symmetry == Permutations(Sellers)
=============================================================================
