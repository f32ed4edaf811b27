SPECIFICATION TaxSpec
CONSTANTS
  i1 = i1
  c1 = c1
  c2 = c2
  c3 = c3
  r1 = r1
  r2 = r2
  s1 = s1
  Absent = Absent
  Invoices = {i1}
  Notes = {c1, c2, c3}
  InvoiceOf <- OneInvoice
  Figures = {1, 2}
  MaxQty = 1
  Submissions = {s1}
  Submitted = {i1}
  Answerers = {"istd", "standin"}
  Returners = {r1, r2}
SYMMETRY Symmetry
INVARIANT LedgerIsAnswered
 
