------------------------------- MODULE Offers -------------------------------
(***************************************************************************)
(* Offers on sales: the app may ask what a cart comes to; the sale it then *)
(* sends is evaluated again against the active offers, what they grant is  *)
(* written into its lines before the voucher is posted, and is recorded    *)
(* after the voucher is committed.  An administrator may pause an offer at *)
(* any time.                                                               *)
(* Source: offers-engine.service.ts, offers.service.ts, offers.controller.ts,*)
(* vouchers.service.ts                                                     *)
(***************************************************************************)
EXTENDS Money, FiniteSets, SequencesExt

CONSTANTS
  Sellers,    \* sales that may be under way at once
  Catalogue,  \* the offers, a sequence in the order of their priority
  NoLimit,    \* an offer without the limit has this in its place
  Items, Price, Rate,   \* item -> price in fils, item -> tax rate
  Tobacco,    \* item -> its tobacco tax profile, None for another item
  Requests,   \* the sales the app may send
  Carts,      \* bound: those it asks about first, and no others
  TaxModes,   \* what settings may say prices are: EXCLUSIVE or INCLUSIVE of tax
  Edited,     \* bound: the offers the administrator may pause
  EditsUntil, \* bound: he opens one while fewer vouchers than this are posted
  MaxSales,   \* bound
  MaxLost,    \* bound: redemptions that fail to be recorded
  None

Offers == DOMAIN Catalogue
NewOnly == {o \in Offers : Catalogue[o].scope = "NEW_ONLY"}

ASSUME OffersAssumption ==
  /\ IsFiniteSet(Sellers) /\ Sellers # {}
  /\ \A o \in Offers : Catalogue[o].limit \in Nat \/ Catalogue[o].limit = NoLimit
  /\ NoLimit \notin Nat
  /\ Edited \subseteq Offers /\ Carts \subseteq Requests

\* What the DTOs of offers, items and vouchers let through (offer-config.dto.ts,
\* create-voucher.dto.ts and validateLines, which a sale has to pass to be posted).
OfferOK(o) ==
  /\ {o.anchor, o.base, o.multiplier, o.step, o.cap, o.perStep} \subseteq Nat
  /\ o.perGift \in Nat \ {0}
  /\ o.maxFree \in Nat \cup {NoLimit}

Line == [item : Items, qty : Nat, price : Nat, pct : Int, fils : Int, rate : Int]

RequestOK(r) ==
  /\ r.lines \in Seq(Line) /\ r.lines # <<>>
  /\ r.head.pct \in Int /\ r.head.fils \in Int
  /\ r.picks \in Seq(Items)

ASSUME MoneyAssumption ==
  /\ IsFiniteSet(Items) /\ Price \in [Items -> Nat] /\ Rate \in [Items -> Nat]
  /\ IsFiniteSet(Offers) /\ Offers \subseteq Nat
  /\ \A o \in Offers : OfferOK(Catalogue[o])
  /\ \A r \in Requests : RequestOK(r)

VARIABLES
  active,       \* offer -> is it switched on
  count,        \* redemption_count of each offer
  redemptions,  \* offer_redemptions: [offer, voucher, customer]
  buyers,       \* customers with a SALE voucher
  sold,         \* the number of vouchers posted, and the number of the last
  sale,         \* the sale each seller has under way
  edit,         \* the offer the administrator has read and will save
  missed        \* history: redemptions that count will never show

vars == <<active, count, redemptions, buyers, sold, sale, edit, missed>>

NoSale == [pc |-> "idle"]

Init ==
  /\ active = [o \in Offers |-> TRUE]
  /\ count = [o \in Offers |-> 0]
  /\ redemptions = {}
  /\ buyers = {}
  /\ sold = 0
  /\ sale = [s \in Sellers |-> NoSale]
  /\ edit = None
  /\ missed = [o \in Offers |-> 0]

-----------------------------------------------------------------------------
(* The cart: the quantity of each item, whatever lines it is spread over. *)

Bought(lines) == {lines[i].item : i \in DOMAIN lines}
Quantity(lines, items) ==
  Total([i \in DOMAIN lines |-> IF lines[i].item \in items THEN lines[i].qty ELSE 0])
CartGross(lines, item) == Price[item] * Quantity(lines, {item})
Subtotal(lines) == Total([item \in Bought(lines) |-> CartGross(lines, item)])

(* The percentage an offer gives at a quantity: the base at the anchor, and *)
(* a multiple of it more for every full step above; step is 0 if static.    *)
effectivePercent(o, quantity) ==
  LET steps == IF o.step = 0 THEN 0 ELSE Most(0, quantity - o.anchor) \div o.step
  IN  Most(0, Least(o.base * (1 + o.multiplier * steps), o.cap))

giftFreeQty(o, quantity) ==
  LET n == (quantity \div o.perGift) * o.perStep
  IN  IF o.maxFree = NoLimit THEN n ELSE Least(n, o.maxFree)

\* Mutant of WithinLimit: an offer at its limit is granted once more.
WithinLimitInclusive(o, counts) ==
  Catalogue[o].limit # NoLimit => counts[o] <= Catalogue[o].limit

WithinLimit(o, counts) ==
  Catalogue[o].limit # NoLimit => counts[o] < Catalogue[o].limit

\* Who may have the offer: the scope, the store that asks, and how often this
\* customer had it.
Eligible(o, request, store) ==
  /\ Catalogue[o].stores # {} => store \in Catalogue[o].stores
  /\ o \in NewOnly => request.customer # None /\ request.customer \notin buyers
  /\ (Catalogue[o].perCustomer # NoLimit /\ request.customer # None) =>
       Cardinality({r \in redemptions : r.offer = o /\ r.customer = request.customer})
         < Catalogue[o].perCustomer

\* The percentage each offer takes off, 0 for one that its trigger denies.
PaymentPercent(o, request) ==
  LET offer == Catalogue[o]
      quantity == Quantity(request.lines, Items)
  IN  IF /\ offer.type = "PAYMENT"
         /\ offer.payment = IF request.payment = "CREDIT" THEN "CREDIT" ELSE "CASH"
         /\ Subtotal(request.lines) >= offer.minTotal
         /\ quantity >= offer.anchor
      THEN effectivePercent(offer, quantity) ELSE 0

ItemPercent(o, request) ==
  LET offer == Catalogue[o]
      quantity == Quantity(request.lines, offer.items)
  IN  IF offer.type = "ITEM" /\ quantity >= offer.anchor
      THEN effectivePercent(offer, quantity) ELSE 0

FreeQty(o, request) ==
  IF Catalogue[o].type = "GIFT"
  THEN giftFreeQty(Catalogue[o], Quantity(request.lines, Catalogue[o].items)) ELSE 0

\* The first of the offers with the highest percentage, if any takes something off.
Best(offers, pct) ==
  LET highest == {o \in offers : pct[o] > 0 /\ \A p \in offers : pct[p] <= pct[o]}
  IN  IF highest = {} THEN [offer |-> None, pct |-> 0]
      ELSE [offer |-> Min(highest), pct |-> pct[Min(highest)]]

\* What the best of each kind takes off a line, never more than it comes to.
OnLine(gross, pay, item) ==
  LET payFils == Least(Percent(gross, pay.pct), gross)
      itemFils == Least(Percent(gross, item.pct), gross - payFils)
  IN  [off |-> payFils + itemFils, net |-> gross - payFils - itemFils,
       by |-> {o \in {pay.offer} : payFils > 0} \cup {o \in {item.offer} : itemFils > 0}]

\* The picks of the rep that a gift offer honours: the first of those it may give.
Picks(o, request) ==
  LET pool == {i \in DOMAIN request.picks : request.picks[i] \in Catalogue[o].giftItems}
  IN  {i \in pool : Cardinality({j \in pool : j < i}) < FreeQty(o, request)}

\* Of the offers that were open when the evaluation began, those it may grant.
Granted(request, open, store) == {o \in open : Eligible(o, request, store)}

(* evaluate: the discount on each item, the gifts, the offers applied and   *)
(* what the sale comes to, with the offers it may grant.                    *)
Evaluate(request, granted) ==
  LET items == Bought(request.lines)
      parts == [item \in items |->
        OnLine(CartGross(request.lines, item),
               Best(granted, [o \in Offers |-> PaymentPercent(o, request)]),
               Best({o \in granted : item \in Catalogue[o].items},
                    [o \in Offers |-> ItemPercent(o, request)]))]
      picked(o, item) == {i \in Picks(o, request) : request.picks[i] = item}
  IN  [discount |-> [item \in items |-> parts[item].off],
       gifts |-> [item \in Items |->
         Total([o \in granted |-> Cardinality(picked(o, item))])],
       applied |-> {o \in granted :
         FreeQty(o, request) > 0 \/ \E item \in items : o \in parts[item].by},
       total |-> Total([item \in items |->
         parts[item].net + Percent(parts[item].net, Rate[item])])]

-----------------------------------------------------------------------------
(* Offers are a best effort: a sale goes through whatever becomes of them. *)

OpenOffers == {o \in Offers : active[o] /\ WithinLimit(o, count)}

\* Bound: room for one more sale beside those posted and under way.
Room == sold + Cardinality({t \in Sellers : sale[t].pc \in {"read", "priced"}}) < MaxSales

\* POST /offers/evaluate: a seller's app asks what a cart comes to.
Preview(s, request) ==
  /\ sale[s].pc = "idle" /\ Room
  /\ LET granted == Granted(request, OpenOffers, request.store)
     IN  sale' = [sale EXCEPT ![s] =
           [pc |-> "previewed", request |-> request,
            preview |-> [granted |-> granted, total |-> Evaluate(request, granted).total]]]
  /\ UNCHANGED <<active, count, redemptions, buyers, sold, edit, missed>>

\* The answer does not arrive, or the rep does not go on with the cart.
Leave(s) ==
  /\ sale[s].pc = "previewed"
  /\ sale' = [sale EXCEPT ![s] = NoSale]
  /\ UNCHANGED <<active, count, redemptions, buyers, sold, edit, missed>>

\* The app sends a sale, asked about before or not; the offers are read again.
Begin(s, request, preview) ==
  /\ Room
  /\ sale' = [sale EXCEPT ![s] =
       [pc |-> "read", request |-> request, open |-> OpenOffers, preview |-> preview]]
  /\ UNCHANGED <<active, count, redemptions, buyers, sold, edit, missed>>

Unseen(s, request) == sale[s].pc = "idle" /\ Begin(s, request, None)
Confirmed(s) == sale[s].pc = "previewed" /\ Begin(s, sale[s].request, sale[s].preview)

\* The discount of an item goes onto the first line that sells it.
Discounted(lines, discount) ==
  [i \in DOMAIN lines |->
    IF lines[i].item \in {lines[j].item : j \in 1..(i - 1)} THEN lines[i]
    ELSE [lines[i] EXCEPT !.fils = @ + discount[lines[i].item]]]

\* Mutant of GiftLine: a gift is charged for.
GiftLineCharged(item, qty) ==
  [item |-> item, qty |-> qty, price |-> Price[item], pct |-> 0, fils |-> 0, rate |-> 0]

GiftLine(item, qty) ==
  [item |-> item, qty |-> qty, price |-> Price[item], pct |-> 100, fils |-> 0, rate |-> 0]

\* The gifts become lines of their own, one for each item, at no charge.
WithGifts(lines, gifts) ==
  lines \o SetToSeq({GiftLine(item, gifts[item]) : item \in {i \in Items : gifts[i] > 0}})

\* History: the total the app was shown, if it was with these very offers.
Shown(s, granted) ==
  IF sale[s].preview # None /\ sale[s].preview.granted = granted
  THEN sale[s].preview.total ELSE None

Priced(s, lines, applied, shown) ==
  /\ sale' = [sale EXCEPT ![s] =
       [pc |-> "priced", request |-> sale[s].request, lines |-> lines,
        applied |-> applied, shown |-> shown]]
  /\ UNCHANGED <<active, count, redemptions, buyers, sold, edit, missed>>

\* applyOffers: the cart is evaluated once more, for no store in particular.
ApplyOffers(s) ==
  /\ sale[s].pc = "read"
  /\ LET request == sale[s].request
         granted == Granted(request, sale[s].open, None)
         result == Evaluate(request, granted)
     IN  IF result.applied = {} THEN Priced(s, request.lines, {}, Shown(s, granted))
         ELSE Priced(s, WithGifts(Discounted(request.lines, result.discount), result.gifts),
                     result.applied, Shown(s, granted))

\* The evaluation fails, or the names of the gifts cannot be read: by then
\* the discounts are written, and they stay, but no offer is said to apply.
OffersFail(s) ==
  /\ sale[s].pc = "read"
  /\ LET request == sale[s].request
         granted == Granted(request, sale[s].open, None)
         result == Evaluate(request, granted)
     IN  \/ Priced(s, request.lines, {}, None)
         \/ /\ \E item \in Items : result.gifts[item] > 0
            /\ Priced(s, Discounted(request.lines, result.discount), {}, Shown(s, granted))

Taxed(line) == [line EXCEPT !.rate = IF Tobacco[line.item] # None THEN 0 ELSE Rate[line.item]]

\* The tax of a tobacco line, on top of the voucher.
TobaccoTax(line) ==
  IF Tobacco[line.item] = None THEN 0
  ELSE calculateTobaccoTax(line.qty, line.price, Tobacco[line.item].consumerPrice, Tobacco[line.item])

\* createUnchecked: the tax of a line is that of its item.
Post(s) ==
  /\ sale[s].pc = "priced"
  /\ \E mode \in TaxModes :
       LET lines == [i \in DOMAIN sale[s].lines |-> Taxed(sale[s].lines[i])]
       IN  sale' = [sale EXCEPT ![s] =
             [pc |-> "posted", request |-> sale[s].request, lines |-> lines, mode |-> mode,
              voucher |-> calcVoucher(lines, sale[s].request.head, mode),
              tobacco |-> Total([i \in DOMAIN lines |-> TobaccoTax(lines[i])]),
              applied |-> sale[s].applied, shown |-> sale[s].shown, number |-> sold + 1]]
  /\ sold' = sold + 1
  /\ buyers' = buyers \cup ({sale[s].request.customer} \ {None})
  /\ UNCHANGED <<active, count, redemptions, edit, missed>>

\* The voucher is refused, or its transaction rolls back.
PostFails(s) ==
  /\ sale[s].pc = "priced"
  /\ sale' = [sale EXCEPT ![s] = NoSale]
  /\ UNCHANGED <<active, count, redemptions, buyers, sold, edit, missed>>

\* recordApplied: one row for every offer applied, all saved together ...
Record(s) ==
  /\ sale[s].pc = "posted"
  /\ redemptions' = redemptions \cup
       {[offer |-> o, voucher |-> sale[s].number, customer |-> sale[s].request.customer] :
          o \in sale[s].applied}
  /\ sale' = [sale EXCEPT ![s] = IF sale[s].applied = {} THEN NoSale
                                 ELSE [pc |-> "counting", applied |-> sale[s].applied]]
  /\ UNCHANGED <<active, count, buyers, sold, edit, missed>>

\* ... and then the count of each of them is incremented, one by one.
Count(s) ==
  /\ sale[s].pc = "counting"
  /\ \E o \in sale[s].applied :
       /\ \A p \in sale[s].applied : o <= p
       /\ count' = [count EXCEPT ![o] = @ + 1]
       /\ sale' = [sale EXCEPT ![s] = IF sale[s].applied = {o} THEN NoSale
                                      ELSE [pc |-> "counting", applied |-> @.applied \ {o}]]
  /\ UNCHANGED <<active, redemptions, buyers, sold, edit, missed>>

\* A failure or a crash before the rows are saved, or before the counts are.
RecordFails(s) ==
  /\ sale[s].pc \in {"posted", "counting"}
  /\ sale[s].pc = "counting" =>
       \A o \in sale[s].applied : missed[o] < MaxLost
  /\ missed' = [o \in Offers |->
       IF sale[s].pc = "counting" /\ o \in sale[s].applied THEN missed[o] + 1 ELSE missed[o]]
  /\ sale' = [sale EXCEPT ![s] = NoSale]
  /\ UNCHANGED <<active, count, redemptions, buyers, sold, edit>>

-----------------------------------------------------------------------------
\* toggle: the administrator's copy of the offer, its count with it ...
ToggleRead(o) ==
  /\ edit = None /\ sold < EditsUntil
  /\ edit' = [offer |-> o, active |-> ~active[o], count |-> count[o]]
  /\ UNCHANGED <<active, count, redemptions, buyers, sold, sale, missed>>

\* ... is saved where it differs from the row: the count may go back.
ToggleSave ==
  /\ edit # None
  /\ missed[edit.offer] + count[edit.offer] - edit.count <= MaxLost
  /\ active' = [active EXCEPT ![edit.offer] = edit.active]
  /\ count' = [count EXCEPT ![edit.offer] = edit.count]
  /\ missed' = [missed EXCEPT ![edit.offer] = @ + count[edit.offer] - edit.count]
  /\ edit' = None
  /\ UNCHANGED <<redemptions, buyers, sold, sale>>

-----------------------------------------------------------------------------
Sell(s) ==
  \/ \E request \in Carts : Preview(s, request)
  \/ \E request \in Requests \ Carts : Unseen(s, request)
  \/ Leave(s) \/ Confirmed(s)
  \/ ApplyOffers(s) \/ OffersFail(s)
  \/ Post(s) \/ PostFails(s)
  \/ Record(s) \/ Count(s) \/ RecordFails(s)

Next ==
  \/ \E s \in Sellers : Sell(s)
  \/ \E o \in Edited : ToggleRead(o)
  \/ ToggleSave

Spec == Init /\ [][Next]_vars

-----------------------------------------------------------------------------
(* Types.  Nothing is said of the lines and the money of a sale here.      *)
Redemption == [offer : Offers, voucher : Nat, customer : {r.customer : r \in Requests}]

SaleOK(x) ==
  /\ x.pc \in {"idle", "previewed", "read", "priced", "posted", "counting"}
  /\ x.pc \in {"previewed", "read", "priced", "posted"} => x.request \in Requests
  /\ x.pc = "read" => x.open \subseteq Offers
  /\ x.pc \in {"priced", "posted", "counting"} => x.applied \subseteq Offers
  /\ x.pc = "posted" => x.number \in Nat

TypeOK ==
  /\ active \in [Offers -> BOOLEAN]
  /\ count \in [Offers -> Nat] /\ missed \in [Offers -> Nat]
  /\ sold \in Nat
  /\ redemptions \subseteq Redemption
  /\ DOMAIN sale = Sellers /\ \A s \in Sellers : SaleOK(sale[s])
  /\ edit # None => /\ edit.offer \in Edited /\ edit.active \in BOOLEAN
                    /\ edit.count \in 0..count[edit.offer]

\* The sales under way that may have an offer and have not recorded it yet.
Holding(o) ==
  {s \in Sellers : \/ sale[s].pc = "read" /\ o \in sale[s].open
                   \/ sale[s].pc \in {"priced", "posted"} /\ o \in sale[s].applied}

Redeemed(o) == {r \in redemptions : r.offer = o}

(* LimitHolds: sales that overlap may exceed the limit of an offer, but by   *)
(* no more than one redemption for each of them but one, and one more for   *)
(* every redemption that its count has missed.                              *)
(* About evaluate's test of redemptionCount (offers-engine.service.ts) and  *)
(* recordApplied, which counts after the voucher is committed.              *)
LimitHolds ==
  \A o \in Offers : Catalogue[o].limit # NoLimit =>
    Cardinality(Redeemed(o)) <= Catalogue[o].limit + missed[o] + Cardinality(Sellers) - 1

Posted == {s \in Sellers : sale[s].pc = "posted"}

(* A sale of which the engines should say the same: an item on one line     *)
(* only, at its price, no discount but the offers', and no tobacco, which   *)
(* is taxed even as a gift.                                                 *)
Plain(request) ==
  /\ request.head.pct = 0 /\ request.head.fils = 0
  /\ \A i \in DOMAIN request.lines :
       LET l == request.lines[i]
       IN  /\ l.price = Price[l.item] /\ Tobacco[l.item] = None
           /\ l.pct = 0 /\ l.fils = 0
           /\ \A j \in DOMAIN request.lines : request.lines[j].item = l.item => i = j
  /\ \A i \in DOMAIN request.picks : Tobacco[request.picks[i]] = None

(* PostedAsPreviewed: a plain sale is posted at the very total the app was  *)
(* shown before, gifts and all, unless other offers may be granted by then: *)
(* one paused, used up or spent by the customer meanwhile, one confined to  *)
(* a store, or the offers could not be read.  That the names of the gifts   *)
(* cannot be read makes no difference.                                      *)
(* About applyOffers, which promises that the voucher matches exactly what  *)
(* /offers/evaluate previewed (vouchers.service.ts 219-220).                *)
PostedAsPreviewed ==
  \A s \in Posted :
    Plain(sale[s].request) /\ sale[s].mode = "EXCLUSIVE" /\ sale[s].shown # None =>
    sale[s].voucher.total + sale[s].tobacco = sale[s].shown

\* |a - b| is at most bound / 2.
Within(a, b, bound) == 2 * (a - b) <= bound /\ 2 * (b - a) <= bound

Spread(lines, voucher) ==
  LET nets == [i \in DOMAIN lines |-> Net(lines[i])]
      sum == Total(nets)
  IN  /\ Total(voucher.shares) = voucher.discount
      /\ \A i \in DOMAIN nets :
           Within(voucher.shares[i] * sum, voucher.discount * nets[i],
                  sum * (IF \E j \in Charged(nets) : j > i THEN 1 ELSE Most(1, Len(nets) - 1)))

(* HeaderIsSpread: the discount of the header is spread over the lines to   *)
(* the last fils, every line bears its share to half a fils, and the line   *)
(* that takes the rest is off by half a fils for each of the others.        *)
(* About the shares of calcVoucher, the canonical engine the app copies.    *)
HeaderIsSpread == \A s \in Posted : Spread(sale[s].lines, sale[s].voucher)

\* The last line comes to something, and no line has both discounts.  At 4, 12
\* or 20 % in a price the tax may end in half a fils, which one engine rounds up
\* in the tax and the other in what is left.
Comparable(lines, mode) ==
  /\ Net(lines[Len(lines)]) > 0
  /\ \A i \in DOMAIN lines :
       /\ lines[i].pct = 0 \/ lines[i].fils = 0
       /\ mode = "EXCLUSIVE" \/ lines[i].rate % 8 # 4

InvoiceType(mode) == IF mode = "EXCLUSIVE" THEN "TAXABLE" ELSE "INCLUSIVE"

SameMoney(a, b) == a.net = b.net /\ a.tax = b.tax /\ a.total = b.total

(* EnginesAgree: an invoice with the lines of a posted voucher comes to the *)
(* same net, tax and total, to the fils, unless its last line comes to      *)
(* nothing, a line has both discounts, which an invoice line cannot have,   *)
(* or half a fils of tax is to be rounded.                                  *)
(* About calcVoucher and calculateInvoice, two engines for one document.    *)
EnginesAgree ==
  \A s \in Posted : Comparable(sale[s].lines, sale[s].mode) =>
    LET types == [i \in DOMAIN sale[s].lines |-> InvoiceType(sale[s].mode)]
    IN  SameMoney(calculateInvoice(sale[s].lines, types, sale[s].request.head), sale[s].voucher)
=============================================================================
