--------------------------- MODULE MCTaxDocuments ---------------------------
(* One invoice, credit notes against it, two of which may be made out at    *)
(* once, and a submission that an edit or a rejection overtakes.            *)
EXTENDS TaxDocuments, TLC

CONSTANTS i1, c1, c2, c3, r1, r2, s1

OneInvoice == [c \in Notes |-> i1]
Symmetry == Permutations(Notes) \cup Permutations(Returners)
=============================================================================
