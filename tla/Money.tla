------------------------------- MODULE Money -------------------------------
(***************************************************************************)
(* The money engines: what a voucher, an invoice and a tobacco line come   *)
(* to.  Amounts are whole fils and rates whole percents; a quotient is     *)
(* exact until it is rounded half up (the code divides in floating point). *)
(* Source: voucher-calc.ts, invoice-calculator.ts, tobacco-tax-calc.ts     *)
(***************************************************************************)
EXTENDS Integers, Sequences, FiniteSetsExt, Functions

\* Math.round of n / d.
HalfUp(n, d) == (2 * n + d) \div (2 * d)
Percent(n, pct) == HalfUp(n * pct, 100)
Least(a, b) == IF a < b THEN a ELSE b
Most(a, b) == IF a < b THEN b ELSE a
Total(f) == SumFunctionOnSet(f, DOMAIN f)

\* n brought between 0 and most.
clamp(n, most) == Most(0, Least(n, most))

-----------------------------------------------------------------------------
\* A line is [qty, price, pct, fils, rate]: both discounts of a line stack.
Gross(l) == l.price * l.qty
LineDiscount(l) == clamp(Percent(Gross(l), l.pct) + Most(0, l.fils), Gross(l))
Net(l) == Gross(l) - LineDiscount(l)

\* One discount: a percentage of the base if there is one, else an amount.
computeDiscount(base, d) ==
  Least(IF d.pct > 0 THEN Percent(base, d.pct) ELSE Most(0, d.fils), base)

Rounded(nets, discount) ==
  LET sum == Total(nets)
  IN  [i \in DOMAIN nets |-> IF sum > 0 THEN HalfUp(discount * nets[i], sum) ELSE 0]

\* Mutant of HeaderShares: what rounding leaves over goes to no line.
HeaderSharesRounded(nets, discount) == Rounded(nets, discount)

Charged(nets) == {i \in DOMAIN nets : nets[i] > 0}

\* calcVoucher: the last line with a net takes what rounding leaves over.
HeaderShares(nets, discount) ==
  LET shares == Rounded(nets, discount)
      over == discount - Total(shares)
      charged == Charged(nets)
  IN  IF over = 0 \/ charged = {} THEN shares ELSE [shares EXCEPT ![Max(charged)] = @ + over]

\* What a line is taxed on and pays.  Prices carry the tax or they do not.
VoucherLine(net, rate, mode) ==
  LET tax == IF mode = "EXCLUSIVE" THEN Percent(net, rate)
             ELSE net - HalfUp(net * 100, 100 + rate)
  IN  IF mode = "EXCLUSIVE" THEN [taxable |-> net, tax |-> tax, total |-> net + tax]
      ELSE [taxable |-> net - tax, tax |-> tax, total |-> net]

Part(parts, field) == Total([i \in DOMAIN parts |-> parts[i][field]])

calcVoucher(lines, head, mode) ==
  LET nets == [i \in DOMAIN lines |-> Net(lines[i])]
      discount == computeDiscount(Total(nets), head)
      shares == HeaderShares(nets, discount)
      parts == [i \in DOMAIN lines |-> VoucherLine(nets[i] - shares[i], lines[i].rate, mode)]
  IN  [shares |-> shares, discount |-> discount, parts |-> parts,
       net |-> Part(parts, "taxable"), tax |-> Part(parts, "tax"), total |-> Part(parts, "total")]

-----------------------------------------------------------------------------
\* calculateInvoice: the last line takes what is not distributed before it.
InvoiceShares(nets, discount) ==
  IF discount > 0 /\ Total(nets) > 0
  THEN LET shares == Rounded(nets, discount)
       IN  [shares EXCEPT ![Len(nets)] = @ + discount - Total(shares)]
  ELSE [i \in DOMAIN nets |-> 0]

\* Mutant of InvoiceLine: the tax inside a price is taken as if on top of it.
InvoiceLineOnTop(net, rate, type) ==
  CASE type = "TAXABLE" ->
         [taxable |-> net, tax |-> Percent(net, rate), total |-> net + Percent(net, rate)]
    [] type = "INCLUSIVE" ->
         [taxable |-> net - Percent(net, rate), tax |-> Percent(net, rate), total |-> net]
    [] type = "EXEMPT" -> [taxable |-> 0, tax |-> 0, total |-> net]

\* The tax of a line: on top of its net, extracted from it, or none.
InvoiceLine(net, rate, type) ==
  CASE type = "TAXABLE" ->
         [taxable |-> net, tax |-> Percent(net, rate), total |-> net + Percent(net, rate)]
    [] type = "INCLUSIVE" ->
         LET tax == HalfUp(net * rate, 100 + rate)
         IN  [taxable |-> net - tax, tax |-> tax, total |-> net]
    [] type = "EXEMPT" -> [taxable |-> 0, tax |-> 0, total |-> net]

calculateInvoice(lines, types, head) ==
  LET nets == [i \in DOMAIN lines |-> Gross(lines[i]) - computeDiscount(Gross(lines[i]), lines[i])]
      discount == computeDiscount(Total(nets), head)
      shares == InvoiceShares(nets, discount)
      parts == [i \in DOMAIN lines |-> InvoiceLine(nets[i] - shares[i], lines[i].rate, types[i])]
  IN  [shares |-> shares, discount |-> discount, parts |-> parts,
       net |-> Part(parts, "taxable"), tax |-> Part(parts, "tax"), total |-> Part(parts, "total")]

-----------------------------------------------------------------------------
\* Tobacco: a sales tax and a special tax, less what was withheld before.
SpecialTax(qty, sale, consumer, p) ==
  LET base == CASE p.specialBase = "CONSUMER_PRICE" -> consumer
                [] p.specialBase = "QUANTITY" -> qty
                [] p.specialBase = "SALE_PRICE" -> sale
  IN  (IF p.special \in {"FIXED_PER_UNIT", "FIXED_PLUS_RATE"} THEN p.specialFils * qty ELSE 0)
        + (IF p.special \in {"RATE", "FIXED_PLUS_RATE"} THEN Percent(base, p.specialPct) ELSE 0)

WithheldTax(qty, sale, consumer, gross, p) ==
  LET base == CASE p.withheldBase = "CONSUMER_PRICE" -> consumer
                [] p.withheldBase = "GROSS_TAX" -> gross
                [] p.withheldBase = "SALE_PRICE" -> sale
  IN  CASE p.withheld = "FIXED_PER_UNIT" -> p.withheldFils * qty
        [] p.withheld = "RATE" -> Percent(base, p.withheldPct)
        [] p.withheld = "NONE" -> 0

calculateTobaccoTax(qty, price, consumerPrice, p) ==
  LET sale == price * qty
      consumer == consumerPrice * qty
      gross == Percent(IF p.taxBase = "CONSUMER_PRICE" THEN consumer ELSE sale, p.salesPct)
                 + SpecialTax(qty, sale, consumer, p)
  IN  Most(gross - WithheldTax(qty, sale, consumer, gross, p), 0)
=============================================================================
