---------------------------- MODULE TaxDocuments ----------------------------
(***************************************************************************)
(* Invoices and credit notes on their way to the tax authority (ISTD): the *)
(* life of an invoice in the back office, credit notes against it, their   *)
(* submission to JoFotara, and the tax ledger the monthly report is built  *)
(* from.                                                                   *)
(* Source: invoices.service.ts, credit-notes.service.ts,                   *)
(* jofotara-submission.service.ts, tax-ledger.service.ts                   *)
(*                                                                         *)
(* A document is a header and one line; a figure stands for its totals.    *)
(***************************************************************************)
EXTENDS Integers, FiniteSets, Functions

CONSTANTS
  Invoices, Notes,   \* documents: invoices, credit notes
  InvoiceOf,         \* the invoice a credit note is made out against
  Figures,           \* totals an invoice may have
  MaxQty,            \* bound: the quantity of a line
  Submissions,       \* submissions that may overlap
  Submitted,         \* bound: the documents that are submitted
  Answerers,         \* who may answer a submission: "istd", "standin"
  Returners,         \* requests for a credit note that may overlap
  Absent            \* no document, no entry, no figure

Documents == Invoices \cup Notes
Quantities == 1..MaxQty

ASSUME DocumentsAssumption ==
  /\ Invoices \cap Notes = {}
  /\ IsFiniteSet(Notes) /\ IsFiniteSet(Returners) /\ Answerers \subseteq {"istd", "standin"}
  /\ InvoiceOf \in [Notes -> Invoices]
  /\ Submitted \subseteq Documents
  /\ MaxQty \in Nat \ {0}
  /\ Absent \notin Documents \cup Figures \cup Quantities

VARIABLES
  doc,        \* the header of each document, Absent before it is created
  qty,        \* the quantity on the line of an invoice, 0 while it has none
  linked,     \* credit notes whose line still refers to a line of the invoice
  office,     \* the request of the back office in hand: one at a time
  returning,  \* requests for a credit note between the check and the commit
  sub,        \* submissions in hand, with the header as they read it
  answered,   \* the figures of a document that were answered with success
  ledger      \* tax_ledger_entries: at most one entry for a document

taxVars == <<doc, qty, linked, office, returning, sub, answered, ledger>>

NoOffice == [op |-> "none", inv |-> Absent, image |-> Absent, qty |-> 0]
NoReturn == [note |-> Absent, qty |-> 0]
NoSub == [at |-> "idle", of |-> Absent, image |-> Absent]

TaxInit ==
  /\ doc = [d \in Documents |-> Absent]
  /\ qty = [i \in Invoices |-> 0]
  /\ linked = {}
  /\ office = NoOffice
  /\ returning = [r \in Returners |-> NoReturn]
  /\ sub = [s \in Submissions |-> NoSub]
  /\ answered = [d \in Documents |-> {}]
  /\ ledger = [d \in Documents |-> Absent]

-----------------------------------------------------------------------------
\* create: the header and its lines are saved together.
Create(i) ==
  /\ office = NoOffice /\ doc[i] = Absent
  /\ \E f \in Figures, q \in Quantities :
       /\ doc' = [doc EXCEPT ![i] = [status |-> "draft", figure |-> f, jofotara |-> "PENDING"]]
       /\ qty' = [qty EXCEPT ![i] = q]
  /\ UNCHANGED <<linked, office, returning, sub, answered, ledger>>

\* What the requests make of the header they read, and whom they refuse.
Admits(op, row) ==
  CASE op \in {"update", "confirm"} -> row.status = "draft"
    [] op = "approve" -> row.status = "confirmed"
    [] op \in {"cancel", "reject", "override"} -> row.status # "cancelled"

Changed(op, row, f) ==
  CASE op \in {"confirm", "approve"} -> [row EXCEPT !.status = "confirmed"]
    [] op = "cancel" -> [row EXCEPT !.status = "cancelled"]
    [] op = "reject" -> [row EXCEPT !.status = "draft"]
    [] op \in {"update", "override"} -> [row EXCEPT !.figure = f]

OfficeOps == {"update", "confirm", "approve", "cancel", "reject", "override"}

OfficeRead(i, op) ==
  /\ office = NoOffice /\ doc[i] # Absent
  /\ Admits(op, doc[i])
  /\ \E f \in Figures, q \in Quantities :
       /\ op # "update" => q = 1
       /\ office' = [op |-> op, inv |-> i, image |-> Changed(op, doc[i], f), qty |-> q]
  /\ UNCHANGED <<doc, qty, linked, returning, sub, answered, ledger>>

\* update deletes the lines first; lines of credit notes lose their reference, and
\* a credit note under way finds none (ON DELETE SET NULL).
DeleteLines ==
  /\ office.op = "update"
  /\ qty' = [qty EXCEPT ![office.inv] = 0]
  /\ linked' = {c \in linked : InvoiceOf[c] # office.inv}
  /\ returning' = [r \in Returners |->
       IF returning[r].note \in Notes /\ InvoiceOf[returning[r].note] = office.inv
       THEN NoReturn ELSE returning[r]]
  /\ office' = [office EXCEPT !.op = "rewrite"]
  /\ UNCHANGED <<doc, sub, answered, ledger>>

\* The image is saved whole, as it was read but for the change.
OfficeSave ==
  /\ office.op \notin {"none", "update"}
  /\ doc' = [doc EXCEPT ![office.inv] = office.image]
  /\ qty' = IF office.op = "rewrite" THEN [qty EXCEPT ![office.inv] = office.qty] ELSE qty
  /\ office' = NoOffice
  /\ UNCHANGED <<linked, returning, sub, answered, ledger>>

-----------------------------------------------------------------------------
\* The view invoice_line_returnable_qty.
Returned(i) ==
  SumFunctionOnSet([c \in Notes |-> IF c \in linked /\ InvoiceOf[c] = i
                                    THEN doc[c].figure ELSE 0], Notes)
Returnable(i) == qty[i] - Returned(i)

\* Mutant of ReturnCheck: the quantity sold, not what is left of it.
ReturnCheckSold(r, c) ==
  LET i == InvoiceOf[c] IN
  /\ returning[r] = NoReturn /\ doc[c] = Absent
  /\ \A o \in Returners : returning[o].note # c
  /\ doc[i] # Absent /\ doc[i].status \notin {"draft", "cancelled"}
  /\ \E q \in 1..qty[i] : returning' = [returning EXCEPT ![r] = [note |-> c, qty |-> q]]
  /\ UNCHANGED <<doc, qty, linked, office, sub, answered, ledger>>

\* create of a credit note: the checks, outside any transaction.
ReturnCheck(r, c) ==
  LET i == InvoiceOf[c] IN
  /\ returning[r] = NoReturn /\ doc[c] = Absent
  /\ \A o \in Returners : returning[o].note # c
  /\ doc[i] # Absent /\ doc[i].status \notin {"draft", "cancelled"}
  /\ \E q \in 1..Returnable(i) : returning' = [returning EXCEPT ![r] = [note |-> c, qty |-> q]]
  /\ UNCHANGED <<doc, qty, linked, office, sub, answered, ledger>>

\* The transaction, and credit_note.created.
ReturnCommit(r) ==
  LET c == returning[r].note IN
  /\ returning[r] # NoReturn
  /\ doc' = [doc EXCEPT ![c] = [status |-> "issued", figure |-> returning[r].qty,
                                jofotara |-> "PENDING"]]
  /\ linked' = linked \cup {c}
  /\ returning' = [returning EXCEPT ![r] = NoReturn]
  /\ UNCHANGED <<qty, office, sub, answered, ledger>>

-----------------------------------------------------------------------------
Goto(s, place) == sub' = [sub EXCEPT ![s].at = place]
SaveImage(s, status) ==
  doc' = [doc EXCEPT ![sub[s].of] = [sub[s].image EXCEPT !.jofotara = status]]

\* submitInvoice, submitCreditNote: on invoice.confirmed or credit_note.created, or at
\* any time from the dashboard, whatever the state of the document.  Validation looks
\* at the lines of an invoice and at the settings.
Submit(s, d) ==
  /\ d \in Submitted /\ sub[s] = NoSub /\ doc[d] # Absent
  /\ \E next \in {"valid", "invalid"} :
       /\ (d \in Invoices /\ qty[d] = 0) => next = "invalid"
       /\ d \in Notes => next = "valid"
       /\ sub' = [sub EXCEPT ![s] = [at |-> next, of |-> d, image |-> doc[d]]]
  /\ UNCHANGED <<doc, qty, linked, office, returning, answered, ledger>>

Refuse(s) ==
  /\ sub[s].at = "invalid"
  /\ SaveImage(s, "REJECTED")
  /\ sub' = [sub EXCEPT ![s] = NoSub]
  /\ UNCHANGED <<qty, linked, office, returning, answered, ledger>>

MarkSubmitted(s) ==
  /\ sub[s].at = "valid"
  /\ SaveImage(s, "SUBMITTED")
  /\ Goto(s, "call")
  /\ UNCHANGED <<qty, linked, office, returning, answered, ledger>>

\* submit without credentials, or while JOFOTARA_MOCK is not false: a stand-in
\* answers with success at once.
StandIn(s) ==
  /\ sub[s].at = "call" /\ "standin" \in Answerers
  /\ answered' = [answered EXCEPT ![sub[s].of] = @ \cup {sub[s].image.figure}]
  /\ Goto(s, "success")
  /\ UNCHANGED <<doc, qty, linked, office, returning, ledger>>

\* External: ISTD accepts the document, and its answer may come too late for the
\* 30 s timeout of submit; or it refuses, or is not reached.
IstdAccepts(s) ==
  /\ sub[s].at = "call" /\ "istd" \in Answerers
  /\ answered' = [answered EXCEPT ![sub[s].of] = @ \cup {sub[s].image.figure}]
  /\ Goto(s, "success") \/ Goto(s, "failure")
  /\ UNCHANGED <<doc, qty, linked, office, returning, ledger>>

IstdFails(s) ==
  /\ sub[s].at = "call" /\ "istd" \in Answerers
  /\ Goto(s, "failure")
  /\ UNCHANGED <<doc, qty, linked, office, returning, answered, ledger>>

\* The answer is logged and the image of before the call saved.
Succeed(s) ==
  /\ sub[s].at = "success"
  /\ SaveImage(s, "VALIDATED")
  /\ Goto(s, "ledger")
  /\ UNCHANGED <<qty, linked, office, returning, answered, ledger>>

Fail(s) ==
  /\ sub[s].at = "failure"
  /\ SaveImage(s, "ERROR")
  /\ sub' = [sub EXCEPT ![s] = NoSub]
  /\ UNCHANGED <<qty, linked, office, returning, answered, ledger>>

\* Mutant of Post: the document is read again.
PostReread(s) ==
  /\ sub[s].at = "ledger"
  /\ ledger' = [ledger EXCEPT ![sub[s].of] = doc[sub[s].of].figure]
  /\ sub' = [sub EXCEPT ![s] = NoSub]
  /\ UNCHANGED <<doc, qty, linked, office, returning, answered>>

\* TaxLedgerService.post: find the entry, then write it; of two that find none the
\* unique index refuses one.
Post(s) ==
  /\ sub[s].at = "ledger"
  /\ \/ ledger' = [ledger EXCEPT ![sub[s].of] = sub[s].image.figure]
     \/ /\ ledger[sub[s].of] # Absent
        /\ UNCHANGED ledger
  /\ sub' = [sub EXCEPT ![s] = NoSub]
  /\ UNCHANGED <<doc, qty, linked, office, returning, answered>>

-----------------------------------------------------------------------------
\* The process restarts: requests, submissions and events in memory are gone.
TaxRestart ==
  /\ office' = NoOffice
  /\ returning' = [r \in Returners |-> NoReturn]
  /\ sub' = [s \in Submissions |-> NoSub]
  /\ UNCHANGED <<doc, qty, linked, answered, ledger>>

-----------------------------------------------------------------------------
Work(s) ==
  Refuse(s) \/ MarkSubmitted(s) \/ StandIn(s) \/ IstdAccepts(s)
            \/ IstdFails(s) \/ Succeed(s) \/ Fail(s) \/ Post(s)

TaxNext ==
  \/ \E i \in Invoices : Create(i) \/ \E op \in OfficeOps : OfficeRead(i, op)
  \/ DeleteLines \/ OfficeSave
  \/ \E r \in Returners : ReturnCommit(r) \/ \E c \in Notes : ReturnCheck(r, c)
  \/ \E s \in Submissions : Work(s) \/ \E d \in Documents : Submit(s, d)
  \/ TaxRestart

TaxSpec == TaxInit /\ [][TaxNext]_taxVars

-----------------------------------------------------------------------------
Statuses == {"draft", "confirmed", "cancelled", "issued"}
JoFotaraStatuses == {"PENDING", "SUBMITTED", "VALIDATED", "REJECTED", "ERROR"}
Totals == Figures \cup Quantities
Headers == [status : Statuses, figure : Totals, jofotara : JoFotaraStatuses]

ASSUME AbsentAssumption == Absent \notin Headers

TaxTypeOK ==
  /\ doc \in [Documents -> Headers \cup {Absent}]
  /\ qty \in [Invoices -> 0..MaxQty]
  /\ linked \subseteq {c \in Notes : doc[c] # Absent}
  /\ office = NoOffice \/ office \in [op : OfficeOps \cup {"rewrite"},
                                      inv : {i \in Invoices : doc[i] # Absent},
                                      image : Headers, qty : Quantities]
  /\ returning \in [Returners -> [note : Notes, qty : Quantities] \cup {NoReturn}]
  /\ sub \in [Submissions -> [at : {"valid", "invalid", "call", "success", "failure", "ledger"},
                              of : {d \in Documents : doc[d] # Absent},
                              image : Headers] \cup {NoSub}]
  /\ answered \in [Documents -> SUBSET Totals]
  /\ ledger \in [Documents -> Totals \cup {Absent}]

\* The tax ledger carries a document only with a figure that a submission of it was
\* answered for, whatever is overridden, rejected or submitted again meanwhile
\* (submitInvoice, TaxLedgerService.post).  Without a stand-in, ISTD has accepted it.
LedgerIsAnswered == \A d \in Documents : ledger[d] # Absent => ledger[d] \in answered[d]

\* A document that shows as VALIDATED was answered for at some time, whatever stale
\* headers requests and submissions save (submitInvoice).
ValidatedIsAnswered ==
  \A d \in Documents :
    (doc[d] # Absent /\ doc[d].jofotara = "VALIDATED") => answered[d] # {}

\* The check of a credit note counts the notes made out, not those on their way:
\* requests that overlap may all return what is left, but no more than each of them
\* the quantity sold, however many follow; edits and rejections of the invoice may
\* come in between (CreditNotesService.create, invoice_line_returnable_qty).
ReturnsFit == \A i \in Invoices : Returned(i) <= Cardinality(Returners) * qty[i]
=============================================================================
