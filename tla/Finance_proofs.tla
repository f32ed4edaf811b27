--------------------------- MODULE Finance_proofs ---------------------------
(***************************************************************************)
(* Invoices and credit notes on their way to the tax authority (module     *)
(* TaxDocuments), and the day of a salesman as the back office settles it  *)
(* (module BackOffice): for any number of documents, submissions, receipts *)
(* and requests.                                                           *)
(*                                                                         *)
(* Nothing is assumed of how requests overlap: the properties themselves   *)
(* name the save of a request that another one overtook.                   *)
(***************************************************************************)
EXTENDS BackOffice, TaxDocuments, Sums, TLAPS

-----------------------------------------------------------------------------
(* The tax ledger and the status VALIDATED.  Shape is all these proofs     *)
(* rely on; the types are proved below.                                    *)
IsHeader(h) == h = [status |-> h.status, figure |-> h.figure, jofotara |-> h.jofotara]

Shape ==
  /\ doc = [d \in Documents |-> doc[d]]
  /\ \A d \in Documents : doc[d] # Absent => IsHeader(doc[d])
  /\ answered = [d \in Documents |-> answered[d]]
  /\ ledger = [d \in Documents |-> ledger[d]]

\* A submission that has its answer has it for the figure it sent.
Answered(row, taken) ==
  /\ row = [at |-> row.at, of |-> row.of, image |-> row.image]
  /\ row.at # "idle" => row.of \in Documents /\ IsHeader(row.image)
  /\ row.at \in {"success", "ledger"} => row.image.figure \in taken[row.of]

\* A request of the back office holds a header that says VALIDATED only if the
\* document was answered: it never makes it up.
HeldInOffice ==
  /\ office = [op |-> office.op, inv |-> office.inv, image |-> office.image, qty |-> office.qty]
  /\ office.op # "none" =>
       /\ office.inv \in Invoices /\ IsHeader(office.image)
       /\ office.image.jofotara = "VALIDATED" => answered[office.inv] # {}

Inv ==
  /\ Shape
  /\ sub = [s \in Submissions |-> sub[s]] /\ \A s \in Submissions : Answered(sub[s], answered)
  /\ HeldInOffice
  /\ LedgerIsAnswered
  /\ ValidatedIsAnswered

-----------------------------------------------------------------------------
\* What the back office makes of a header keeps its JoFotara status.
LEMMA ChangedKeeps ==
  ASSUME NEW op \in OfficeOps, NEW row, IsHeader(row), NEW f
  PROVE  IsHeader(Changed(op, row, f)) /\ Changed(op, row, f).jofotara = row.jofotara
<1>1. CASE op \in {"confirm", "approve"}
  <2>1. Changed(op, row, f) = [row EXCEPT !.status = "confirmed"] BY <1>1 DEF Changed
  <2> QED BY <2>1 DEF IsHeader
<1>2. CASE op = "cancel"
  <2>1. Changed(op, row, f) = [row EXCEPT !.status = "cancelled"] BY <1>2 DEF Changed
  <2> QED BY <2>1 DEF IsHeader
<1>3. CASE op = "reject"
  <2>1. Changed(op, row, f) = [row EXCEPT !.status = "draft"] BY <1>3 DEF Changed
  <2> QED BY <2>1 DEF IsHeader
<1>4. CASE op \in {"update", "override"}
  <2>1. Changed(op, row, f) = [row EXCEPT !.figure = f] BY <1>4 DEF Changed
  <2> QED BY <2>1 DEF IsHeader
<1> QED BY <1>1, <1>2, <1>3, <1>4 DEF OfficeOps

\* What was answered stays answered, so whatever relied on it still holds.
LEMMA AnsweredGrows ==
  ASSUME \A d \in Documents : answered[d] \subseteq answered'[d],
         NEW row, Answered(row, answered)
  PROVE  Answered(row, answered')
BY DEF Answered

\* A submission that saves its image writes its own document, with this status.
LEMMA ImageSaved ==
  ASSUME Inv, NEW s \in Submissions, sub[s].at # "idle", NEW status, SaveImage(s, status),
         status = "VALIDATED" => answered[sub[s].of] # {},
         UNCHANGED <<answered, ledger>>
  PROVE  Shape' /\ ValidatedIsAnswered'
<1>1. sub[s].of \in Documents /\ IsHeader(sub[s].image) BY DEF Inv, Answered
<1> DEFINE row == [sub[s].image EXCEPT !.jofotara = status]
<1>2. IsHeader(row) /\ row.jofotara = status BY <1>1 DEF IsHeader
<1>3. doc' = [doc EXCEPT ![sub[s].of] = row] BY DEF SaveImage
<1> HIDE DEF row
<1> QED BY <1>1, <1>2, <1>3 DEF Inv, Shape, ValidatedIsAnswered

-----------------------------------------------------------------------------
(* The requests of the back office, credit notes and restarts. *)

\* Nothing was answered or submitted: only the headers and the office matter.
LEMMA SubsUntouched ==
  ASSUME Inv, UNCHANGED <<sub, answered, ledger>>, Shape', HeldInOffice', ValidatedIsAnswered'
  PROVE  Inv'
BY DEF Inv, Shape, Answered, LedgerIsAnswered

LEMMA CreateKeeps ==
  ASSUME Inv, NEW i \in Invoices, Create(i)
  PROVE  Inv'
<1>1. PICK row : /\ doc' = [doc EXCEPT ![i] = row] /\ IsHeader(row) /\ row.jofotara = "PENDING"
                 /\ UNCHANGED <<office, sub, answered, ledger>>
  BY DEF Create, IsHeader
<1>2. i \in Documents BY DEF Documents
<1>3. Shape' BY <1>1, <1>2 DEF Inv, Shape
<1>4. ValidatedIsAnswered' BY <1>1, <1>2 DEF Inv, Shape, ValidatedIsAnswered
<1>5. HeldInOffice' BY <1>1 DEF Inv, HeldInOffice
<1> QED BY <1>1, <1>3, <1>4, <1>5, SubsUntouched

LEMMA OfficeReadKeeps ==
  ASSUME Inv, NEW i \in Invoices, NEW op \in OfficeOps, OfficeRead(i, op)
  PROVE  Inv'
<1>1. PICK f \in Figures, q \in Quantities :
        office' = [op |-> op, inv |-> i, image |-> Changed(op, doc[i], f), qty |-> q]
  BY DEF OfficeRead
<1>2. i \in Documents /\ doc[i] # Absent /\ UNCHANGED <<doc, sub, answered, ledger>>
  BY DEF OfficeRead, Documents
<1>3. IsHeader(doc[i]) BY <1>2 DEF Inv, Shape
<1>4. /\ IsHeader(Changed(op, doc[i], f))
      /\ Changed(op, doc[i], f).jofotara = doc[i].jofotara
  BY <1>3, ChangedKeeps
<1>5. HeldInOffice' BY <1>1, <1>2, <1>4 DEF Inv, ValidatedIsAnswered, HeldInOffice
<1>6. Shape' /\ ValidatedIsAnswered' BY <1>2 DEF Inv, Shape, ValidatedIsAnswered
<1> QED BY <1>2, <1>5, <1>6, SubsUntouched

LEMMA DeleteLinesKeeps ==
  ASSUME Inv, DeleteLines
  PROVE  Inv'
<1>1. office' = [office EXCEPT !.op = "rewrite"] /\ UNCHANGED <<doc, sub, answered, ledger>>
  BY DEF DeleteLines
<1>2. HeldInOffice' BY <1>1 DEF DeleteLines, Inv, HeldInOffice
<1>3. Shape' /\ ValidatedIsAnswered' BY <1>1 DEF Inv, Shape, ValidatedIsAnswered
<1> QED BY <1>1, <1>2, <1>3, SubsUntouched

LEMMA NoOfficeHolds == office' = NoOffice => HeldInOffice'
BY DEF NoOffice, HeldInOffice

LEMMA OfficeSaveKeeps ==
  ASSUME Inv, OfficeSave
  PROVE  Inv'
<1>1. /\ office.op # "none" /\ office' = NoOffice
      /\ doc' = [doc EXCEPT ![office.inv] = office.image]
      /\ UNCHANGED <<sub, answered, ledger>>
  BY DEF OfficeSave
<1>2. /\ office.inv \in Documents /\ IsHeader(office.image)
      /\ office.image.jofotara = "VALIDATED" => answered[office.inv] # {}
  BY <1>1 DEF Inv, HeldInOffice, Documents
<1>3. Shape' /\ ValidatedIsAnswered' BY <1>1, <1>2 DEF Inv, Shape, ValidatedIsAnswered
<1> QED BY <1>1, <1>3, NoOfficeHolds, SubsUntouched

LEMMA ReturnKeeps ==
  ASSUME Inv, NEW r \in Returners, ReturnCommit(r) \/ \E c \in Notes : ReturnCheck(r, c)
  PROVE  Inv'
<1>1. UNCHANGED <<office, sub, answered, ledger>> BY DEF ReturnCommit, ReturnCheck
<1>2. HeldInOffice' BY <1>1 DEF Inv, HeldInOffice
<1>3. CASE ReturnCommit(r)
  <2> DEFINE c == returning[r].note
             row == [status |-> "issued", figure |-> returning[r].qty, jofotara |-> "PENDING"]
  <2>1. doc' = [doc EXCEPT ![c] = row] /\ IsHeader(row) /\ row.jofotara = "PENDING"
    BY <1>3 DEF ReturnCommit, IsHeader
  <2> HIDE DEF c, row
  <2>2. Shape'
    <3>1. doc = [d \in Documents |-> doc[d]] /\ \A d \in Documents : doc[d] # Absent => IsHeader(doc[d])
      BY DEF Inv, Shape
    <3>2. \A d \in Documents : doc'[d] = (IF d = c THEN row ELSE doc[d]) BY <2>1, <3>1
    <3>3. doc' = [d \in Documents |-> doc'[d]] BY <2>1, <3>1, Zenon
    <3>4. \A d \in Documents : doc'[d] # Absent => IsHeader(doc'[d]) BY <2>1, <3>1, <3>2, Zenon
    <3>5. /\ answered' = [d \in Documents |-> answered'[d]]
          /\ ledger' = [d \in Documents |-> ledger'[d]]
      BY <1>1 DEF Inv, Shape
    <3> QED BY <3>3, <3>4, <3>5 DEF Shape
  <2>3. ValidatedIsAnswered' BY <1>1, <2>1 DEF Inv, Shape, ValidatedIsAnswered
  <2> QED BY <1>1, <1>2, <2>2, <2>3, SubsUntouched
<1>4. CASE \E c \in Notes : ReturnCheck(r, c)
  <2>1. doc' = doc BY <1>4 DEF ReturnCheck
  <2>2. Shape' /\ ValidatedIsAnswered' BY <1>1, <2>1 DEF Inv, Shape, ValidatedIsAnswered
  <2> QED BY <1>1, <1>2, <2>2, SubsUntouched
<1> QED BY <1>3, <1>4

-----------------------------------------------------------------------------
(* The submissions. *)

\* A step of one submission: the others keep what they have.
LEMMA OneSub ==
  ASSUME Inv, NEW s \in Submissions, NEW row, sub' = [sub EXCEPT ![s] = row],
         \A d \in Documents : answered[d] \subseteq answered'[d],
         Answered(row, answered'), UNCHANGED office
  PROVE  /\ sub' = [t \in Submissions |-> sub'[t]]
         /\ \A t \in Submissions : Answered(sub'[t], answered')
         /\ HeldInOffice'
<1>1. sub = [t \in Submissions |-> sub[t]] BY DEF Inv
<1>2. ASSUME NEW t \in Submissions PROVE Answered(sub'[t], answered')
  <2>1. CASE t = s BY <1>1, <2>1
  <2>2. CASE t # s
    <3>1. sub'[t] = sub[t] /\ Answered(sub[t], answered) BY <1>1, <2>2 DEF Inv
    <3> QED BY <3>1, AnsweredGrows
  <2> QED BY <2>1, <2>2
<1>3. HeldInOffice'
  <2>1. HeldInOffice BY DEF Inv
  <2>2. \A d \in Documents : answered[d] # {} => answered'[d] # {} OBVIOUS
  <2> QED BY <2>1, <2>2 DEF HeldInOffice, Documents
<1> QED BY <1>1, <1>2, <1>3

LEMMA IdleAnswered == Answered(NoSub, answered')
BY DEF NoSub, Answered

\* A place at which nothing is known of an answer.
LEMMA Elsewhere ==
  ASSUME Inv, NEW s \in Submissions, sub[s].at # "idle",
         NEW place, place \notin {"success", "ledger"}
  PROVE  /\ [sub EXCEPT ![s].at = place] = [sub EXCEPT ![s] = [sub[s] EXCEPT !.at = place]]
         /\ Answered([sub[s] EXCEPT !.at = place], answered)
<1>1. Answered(sub[s], answered) BY DEF Inv
<1> QED BY <1>1 DEF Answered

LEMMA SubmitKeeps ==
  ASSUME Inv, NEW s \in Submissions, NEW d \in Documents, Submit(s, d)
  PROVE  Inv'
<1>1. PICK next \in {"valid", "invalid"} :
        sub' = [sub EXCEPT ![s] = [at |-> next, of |-> d, image |-> doc[d]]]
  BY DEF Submit
<1>2. doc[d] # Absent /\ UNCHANGED <<doc, office, answered, ledger>> BY DEF Submit
<1>3. IsHeader(doc[d]) BY <1>2 DEF Inv, Shape
<1>4. Answered([at |-> next, of |-> d, image |-> doc[d]], answered') BY <1>3 DEF Answered
<1>5. Shape' /\ ValidatedIsAnswered' /\ LedgerIsAnswered'
  BY <1>2 DEF Inv, Shape, ValidatedIsAnswered, LedgerIsAnswered
<1> QED BY <1>1, <1>2, <1>4, <1>5, OneSub DEF Inv

\* The steps that save the image, and go on to a place or end.
LEMMA SaveKeeps ==
  ASSUME Inv, NEW s \in Submissions,
         Refuse(s) \/ MarkSubmitted(s) \/ Succeed(s) \/ Fail(s)
  PROVE  Inv'
<1>1. UNCHANGED <<office, answered, ledger>> /\ sub[s].at # "idle"
  BY DEF Refuse, MarkSubmitted, Succeed, Fail
<1>2. PICK status : /\ SaveImage(s, status)
                    /\ status = "VALIDATED" => sub[s].at = "success"
  BY DEF Refuse, MarkSubmitted, Succeed, Fail
<1>3. Answered(sub[s], answered) BY DEF Inv
<1>4. status = "VALIDATED" => answered[sub[s].of] # {} BY <1>2, <1>3 DEF Answered
<1>5. Shape' /\ ValidatedIsAnswered' BY <1>1, <1>2, <1>4, ImageSaved
<1>6. LedgerIsAnswered' BY <1>1 DEF Inv, LedgerIsAnswered
<1>7. CASE Refuse(s) \/ Fail(s)
  <2>1. sub' = [sub EXCEPT ![s] = NoSub] BY <1>7 DEF Refuse, Fail
  <2> QED BY <1>1, <1>5, <1>6, <2>1, OneSub, IdleAnswered DEF Inv
<1>8. CASE MarkSubmitted(s)
  <2>1. sub' = [sub EXCEPT ![s] = [sub[s] EXCEPT !.at = "call"]]
    BY <1>1, <1>8, Elsewhere DEF MarkSubmitted, Goto
  <2>2. Answered([sub[s] EXCEPT !.at = "call"], answered') BY <1>1, Elsewhere
  <2> QED BY <1>1, <1>5, <1>6, <2>1, <2>2, OneSub DEF Inv
<1>9. CASE Succeed(s)
  <2>1. sub[s].at = "success" /\ sub' = [sub EXCEPT ![s].at = "ledger"]
    BY <1>9 DEF Succeed, Goto
  <2>2. sub' = [sub EXCEPT ![s] = [sub[s] EXCEPT !.at = "ledger"]] BY <1>3, <2>1 DEF Answered
  <2>3. Answered([sub[s] EXCEPT !.at = "ledger"], answered') BY <1>1, <1>3, <2>1 DEF Answered
  <2> QED BY <1>1, <1>5, <1>6, <2>2, <2>3, OneSub DEF Inv
<1> QED BY <1>7, <1>8, <1>9

LEMMA IstdAcceptsKeeps ==
  ASSUME Inv, NEW s \in Submissions, StandIn(s) \/ IstdAccepts(s)
  PROVE  Inv'
<1> DEFINE row(place) == [sub[s] EXCEPT !.at = place]
<1>1. /\ sub[s].at = "call" /\ UNCHANGED <<doc, office, ledger>>
      /\ answered' = [answered EXCEPT ![sub[s].of] = @ \cup {sub[s].image.figure}]
  BY DEF StandIn, IstdAccepts
<1>2. Answered(sub[s], answered) BY DEF Inv
<1>3. PICK place \in {"success", "failure"} : sub' = [sub EXCEPT ![s].at = place]
  BY DEF StandIn, IstdAccepts, Goto
<1>4. sub' = [sub EXCEPT ![s] = row(place)] BY <1>2, <1>3 DEF Answered
<1>5. sub[s].of \in Documents BY <1>1, <1>2 DEF Answered
<1>6. answered = [d \in Documents |-> answered[d]] BY DEF Inv, Shape
<1>7. /\ \A d \in Documents : answered[d] \subseteq answered'[d]
      /\ sub[s].image.figure \in answered'[sub[s].of]
      /\ answered' = [d \in Documents |-> answered'[d]]
  BY <1>1, <1>5, <1>6
<1>8. Answered(row(place), answered') BY <1>1, <1>2, <1>7 DEF Answered
<1> HIDE DEF row
<1>9. /\ sub' = [t \in Submissions |-> sub'[t]]
      /\ \A t \in Submissions : Answered(sub'[t], answered')
      /\ HeldInOffice'
  BY <1>1, <1>4, <1>7, <1>8, OneSub
<1>10. Shape' BY <1>1, <1>7 DEF Inv, Shape
<1>11. LedgerIsAnswered' BY <1>1, <1>7 DEF Inv, LedgerIsAnswered
<1>12. ValidatedIsAnswered' BY <1>1, <1>7 DEF Inv, ValidatedIsAnswered
<1> QED BY <1>9, <1>10, <1>11, <1>12 DEF Inv

LEMMA IstdFailsKeeps ==
  ASSUME Inv, NEW s \in Submissions, IstdFails(s)
  PROVE  Inv'
<1>1. sub[s].at = "call" /\ UNCHANGED <<doc, office, answered, ledger>> BY DEF IstdFails
<1>2. sub' = [sub EXCEPT ![s] = [sub[s] EXCEPT !.at = "failure"]]
  BY <1>1, Elsewhere DEF IstdFails, Goto
<1>3. Answered([sub[s] EXCEPT !.at = "failure"], answered') BY <1>1, Elsewhere
<1>4. Shape' /\ ValidatedIsAnswered' /\ LedgerIsAnswered'
  BY <1>1 DEF Inv, Shape, ValidatedIsAnswered, LedgerIsAnswered
<1> QED BY <1>1, <1>2, <1>3, <1>4, OneSub DEF Inv

LEMMA PostKeeps ==
  ASSUME Inv, NEW s \in Submissions, Post(s)
  PROVE  Inv'
<1>1. /\ sub[s].at = "ledger" /\ UNCHANGED <<doc, office, answered>>
      /\ sub' = [sub EXCEPT ![s] = NoSub]
  BY DEF Post
<1>2. Answered(sub[s], answered) BY DEF Inv
<1>3. sub[s].of \in Documents /\ sub[s].image.figure \in answered[sub[s].of]
  BY <1>1, <1>2 DEF Answered
<1>4. ledger' = [ledger EXCEPT ![sub[s].of] = sub[s].image.figure] \/ ledger' = ledger
  BY DEF Post
<1>5. Shape' BY <1>1, <1>4 DEF Inv, Shape
<1>6. LedgerIsAnswered' BY <1>1, <1>3, <1>4 DEF Inv, Shape, LedgerIsAnswered
<1>7. ValidatedIsAnswered' BY <1>1 DEF Inv, ValidatedIsAnswered
<1> QED BY <1>1, <1>5, <1>6, <1>7, OneSub, IdleAnswered DEF Inv

LEMMA RestartKeeps ==
  ASSUME Inv, TaxRestart
  PROVE  Inv'
<1>1. /\ UNCHANGED <<doc, answered, ledger>> /\ office' = NoOffice
      /\ sub' = [s \in Submissions |-> NoSub]
  BY DEF TaxRestart
<1>2. Shape' /\ ValidatedIsAnswered' /\ LedgerIsAnswered'
  BY <1>1 DEF Inv, Shape, ValidatedIsAnswered, LedgerIsAnswered
<1> QED BY <1>1, <1>2, NoOfficeHolds, IdleAnswered DEF Inv

-----------------------------------------------------------------------------
LEMMA InitHolds == TaxInit => Inv
BY DEF TaxInit, Inv, Shape, Answered, HeldInOffice, NoOffice, NoSub, LedgerIsAnswered,
       ValidatedIsAnswered

LEMMA StepKeeps == Inv /\ [TaxNext]_taxVars => Inv'
<1> SUFFICES ASSUME Inv, [TaxNext]_taxVars PROVE Inv'
  OBVIOUS
<1>1. CASE UNCHANGED taxVars
  BY <1>1 DEF taxVars, Inv, Shape, Answered, HeldInOffice, LedgerIsAnswered, ValidatedIsAnswered
<1>2. ASSUME NEW i \in Invoices, Create(i) PROVE Inv' BY <1>2, CreateKeeps
<1>3. ASSUME NEW i \in Invoices, NEW op \in OfficeOps, OfficeRead(i, op) PROVE Inv'
  BY <1>3, OfficeReadKeeps
<1>4. CASE DeleteLines BY <1>4, DeleteLinesKeeps
<1>5. CASE OfficeSave BY <1>5, OfficeSaveKeeps
<1>6. ASSUME NEW r \in Returners, ReturnCommit(r) \/ \E c \in Notes : ReturnCheck(r, c)
      PROVE Inv'
  BY <1>6, ReturnKeeps
<1>7. ASSUME NEW s \in Submissions, Work(s) PROVE Inv'
  BY <1>7, SaveKeeps, IstdAcceptsKeeps, IstdFailsKeeps, PostKeeps DEF Work
<1>8. ASSUME NEW s \in Submissions, NEW d \in Documents, Submit(s, d) PROVE Inv'
  BY <1>8, SubmitKeeps
<1>9. CASE TaxRestart BY <1>9, RestartKeeps
<1> QED BY <1>1, <1>2, <1>3, <1>4, <1>5, <1>6, <1>7, <1>8, <1>9 DEF TaxNext

THEOREM Invariance == TaxSpec => []Inv
BY InitHolds, StepKeeps, PTL DEF TaxSpec

\* The tax ledger carries a document only with a figure ISTD has answered, however
\* submissions, edits and restarts overlap (submitInvoice, TaxLedgerService.post).
THEOREM LedgerCorrect == TaxSpec => []LedgerIsAnswered
<1>1. Inv => LedgerIsAnswered BY DEF Inv
<1> QED BY <1>1, Invariance, PTL

\* A document that shows as VALIDATED was answered, whatever stale headers requests
\* and submissions save (submitInvoice, submitCreditNote).
THEOREM ValidatedCorrect == TaxSpec => []ValidatedIsAnswered
<1>1. Inv => ValidatedIsAnswered BY DEF Inv
<1> QED BY <1>1, Invariance, PTL

-----------------------------------------------------------------------------
(* Types.  A credit note keeps the quantity it was made out with, since    *)
(* every image saved of it has that figure: the sum over the credit notes  *)
(* of an invoice is a natural number, and a quantity returned is one of    *)
(* the quantities of a line.                                               *)

NotesKeepQuantities ==
  /\ \A c \in Notes : doc[c] # Absent => doc[c].figure \in Quantities
  /\ \A s \in Submissions :
       sub[s] # NoSub /\ sub[s].of \in Notes => sub[s].image.figure = doc[sub[s].of].figure

\* Two requests never make out the same credit note.
ReturnsApart ==
  \A r \in Returners : returning[r] # NoReturn =>
    /\ doc[returning[r].note] = Absent
    /\ \A o \in Returners \ {r} : returning[o].note # returning[r].note

TypeInv == TaxTypeOK /\ NotesKeepQuantities

\* What a request or a submission in hand may be, given the documents there are.
OfficeType ==
  office = NoOffice \/ office \in [op : OfficeOps \cup {"rewrite"},
                                   inv : {i \in Invoices : doc[i] # Absent},
                                   image : Headers, qty : Quantities]
SubType ==
  sub \in [Submissions -> [at : {"valid", "invalid", "call", "success", "failure", "ledger"},
                           of : {d \in Documents : doc[d] # Absent},
                           image : Headers] \cup {NoSub}]
ReturningType == returning \in [Returners -> [note : Notes, qty : Quantities] \cup {NoReturn}]

\* No document disappears, and credit notes keep their quantities.
Kept ==
  /\ doc' \in [Documents -> Headers \cup {Absent}]
  /\ \A d \in Documents : doc[d] # Absent => doc'[d] # Absent
  /\ \A c \in Notes : doc[c] # Absent => doc'[c].figure = doc[c].figure
  /\ \A c \in Notes : doc'[c] # Absent => doc'[c].figure \in Quantities

LEMMA DocUntouched == ASSUME TypeInv, UNCHANGED doc PROVE Kept
BY DEF TypeInv, TaxTypeOK, NotesKeepQuantities, Kept

LEMMA OfficeUntouched == ASSUME TypeInv, Kept, UNCHANGED office PROVE OfficeType'
BY DEF TypeInv, TaxTypeOK, OfficeType, Kept, Documents

LEMMA SubUntouched == ASSUME TypeInv, Kept, UNCHANGED sub PROVE SubType' /\ NotesKeepQuantities'
<1>1. SubType BY DEF TypeInv, TaxTypeOK, SubType
<1>2. \A s \in Submissions : sub[s] # NoSub =>
        /\ sub[s] \in [at : {"valid", "invalid", "call", "success", "failure", "ledger"},
                       of : {d \in Documents : doc[d] # Absent}, image : Headers]
        /\ sub[s].of \in Documents /\ doc[sub[s].of] # Absent
  BY <1>1 DEF SubType
<1>3. SubType'
  <2>1. ASSUME NEW s \in Submissions, sub[s] # NoSub
        PROVE  sub[s] \in [at : {"valid", "invalid", "call", "success", "failure", "ledger"},
                           of : {d \in Documents : doc'[d] # Absent}, image : Headers]
    BY <1>2, <2>1 DEF Kept
  <2>2. sub' = [s \in Submissions |-> sub[s]] BY <1>1 DEF SubType
  <2> QED BY <2>1, <2>2 DEF SubType
<1>4. NotesKeepQuantities' BY <1>2 DEF TypeInv, NotesKeepQuantities, Kept
<1> QED BY <1>3, <1>4

\* A step keeps the types when each part of the state keeps its own.
LEMMA TypeStep ==
  ASSUME Kept, qty' \in [Invoices -> 0..MaxQty],
         linked' \subseteq {c \in Notes : doc'[c] # Absent},
         OfficeType', ReturningType', SubType', NotesKeepQuantities',
         answered' \in [Documents -> SUBSET Totals],
         ledger' \in [Documents -> Totals \cup {Absent}]
  PROVE  TypeInv'
BY DEF TypeInv, TaxTypeOK, OfficeType, ReturningType, SubType, Kept

LEMMA LinkedUntouched ==
  ASSUME TypeInv, Kept, linked' \subseteq linked
  PROVE  linked' \subseteq {c \in Notes : doc'[c] # Absent}
BY DEF TypeInv, TaxTypeOK, Kept, Documents

\* What the sums range over.
Terms(i, heads, links) ==
  [c \in Notes |-> IF c \in links /\ InvoiceOf[c] = i THEN heads[c].figure ELSE 0]

LEMMA ReturnedIs ==
  ASSUME NEW i
  PROVE  /\ Returned(i) = SumFunctionOnSet(Terms(i, doc, linked), Notes)
         /\ Returned(i)' = SumFunctionOnSet(Terms(i, doc', linked'), Notes)
BY DEF Returned, Terms

LEMMA TermsNat ==
  ASSUME NEW i, NEW heads, NEW links,
         \A c \in Notes : c \in links => heads[c].figure \in Quantities
  PROVE  \A c \in Notes : Terms(i, heads, links)[c] \in Nat
BY DocumentsAssumption DEF Terms, Quantities

LEMMA ReturnedNat ==
  ASSUME TypeInv, NEW i
  PROVE  Returned(i) \in Nat
<1> DEFINE terms == Terms(i, doc, linked)
<1>1. \A c \in Notes : terms[c] \in Nat
  BY TermsNat DEF TypeInv, TaxTypeOK, NotesKeepQuantities
<1> HIDE DEF terms
<1>2. SumFunctionOnSet(terms, Notes) \in Nat BY <1>1, SumNat, DocumentsAssumption
<1> QED BY <1>2, ReturnedIs DEF terms

-----------------------------------------------------------------------------
\* The parts a step leaves alone.
LEMMA RestUntouched ==
  ASSUME TypeInv
  PROVE  /\ UNCHANGED qty => qty' \in [Invoices -> 0..MaxQty]
         /\ UNCHANGED returning => ReturningType'
         /\ UNCHANGED answered => answered' \in [Documents -> SUBSET Totals]
         /\ UNCHANGED ledger => ledger' \in [Documents -> Totals \cup {Absent}]
BY DEF TypeInv, TaxTypeOK, ReturningType

LEMMA TypeCreate ==
  ASSUME TypeInv, NEW i \in Invoices, Create(i)
  PROVE  TypeInv'
<1>1. PICK f \in Figures, q \in Quantities :
        /\ doc' = [doc EXCEPT ![i] = [status |-> "draft", figure |-> f, jofotara |-> "PENDING"]]
        /\ qty' = [qty EXCEPT ![i] = q]
  BY DEF Create
<1>2. UNCHANGED <<linked, office, returning, sub, answered, ledger>> BY DEF Create
<1>3. i \in Documents /\ i \notin Notes BY DocumentsAssumption DEF Documents
<1>4. [status |-> "draft", figure |-> f, jofotara |-> "PENDING"] \in Headers
  BY DEF Headers, Statuses, JoFotaraStatuses, Totals
<1>5. doc \in [Documents -> Headers \cup {Absent}] BY DEF TypeInv, TaxTypeOK
<1>6. Kept BY <1>1, <1>3, <1>4, <1>5, AbsentAssumption DEF Kept, TypeInv, NotesKeepQuantities, Documents
<1>7. qty' \in [Invoices -> 0..MaxQty]
  BY <1>1, DocumentsAssumption DEF TypeInv, TaxTypeOK, Quantities
<1>8. OfficeType' /\ SubType' /\ NotesKeepQuantities' BY <1>2, <1>6, OfficeUntouched, SubUntouched
<1>9. linked' \subseteq {c \in Notes : doc'[c] # Absent} BY <1>2, <1>6, LinkedUntouched
<1> QED BY <1>2, <1>6, <1>7, <1>8, <1>9, RestUntouched, TypeStep

LEMMA ChangedType ==
  ASSUME NEW op \in OfficeOps, NEW row \in Headers, NEW f \in Figures
  PROVE  Changed(op, row, f) \in Headers
<1>1. CASE op \in {"confirm", "approve"}
  <2>1. Changed(op, row, f) = [row EXCEPT !.status = "confirmed"] BY <1>1 DEF Changed
  <2> QED BY <2>1 DEF Headers, Statuses
<1>2. CASE op = "cancel"
  <2>1. Changed(op, row, f) = [row EXCEPT !.status = "cancelled"] BY <1>2 DEF Changed
  <2> QED BY <2>1 DEF Headers, Statuses
<1>3. CASE op = "reject"
  <2>1. Changed(op, row, f) = [row EXCEPT !.status = "draft"] BY <1>3 DEF Changed
  <2> QED BY <2>1 DEF Headers, Statuses
<1>4. CASE op \in {"update", "override"}
  <2>1. Changed(op, row, f) = [row EXCEPT !.figure = f] BY <1>4 DEF Changed
  <2> QED BY <2>1 DEF Headers, Totals
<1> QED BY <1>1, <1>2, <1>3, <1>4 DEF OfficeOps

LEMMA TypeOfficeRead ==
  ASSUME TypeInv, NEW i \in Invoices, NEW op \in OfficeOps, OfficeRead(i, op)
  PROVE  TypeInv'
<1>1. PICK f \in Figures, q \in Quantities :
        office' = [op |-> op, inv |-> i, image |-> Changed(op, doc[i], f), qty |-> q]
  BY DEF OfficeRead
<1>2. doc[i] # Absent /\ UNCHANGED <<doc, qty, linked, returning, sub, answered, ledger>>
  BY DEF OfficeRead
<1>3. doc[i] \in Headers BY <1>2 DEF TypeInv, TaxTypeOK, Documents
<1>4. Changed(op, doc[i], f) \in Headers BY <1>3, ChangedType
<1>5. OfficeType' BY <1>1, <1>2, <1>4 DEF OfficeType
<1>6. Kept BY <1>2, DocUntouched
<1>7. SubType' /\ NotesKeepQuantities' BY <1>2, <1>6, SubUntouched
<1>8. linked' \subseteq {c \in Notes : doc'[c] # Absent} BY <1>2, <1>6, LinkedUntouched
<1> QED BY <1>2, <1>5, <1>6, <1>7, <1>8, RestUntouched, TypeStep

LEMMA TypeDeleteLines ==
  ASSUME TypeInv, DeleteLines
  PROVE  TypeInv'
<1>1. UNCHANGED <<doc, sub, answered, ledger>> /\ linked' \subseteq linked BY DEF DeleteLines
<1>2. Kept BY <1>1, DocUntouched
<1>3. OfficeType'
  <2>1. office # NoOffice BY DEF DeleteLines, NoOffice
  <2>2. office \in [op : OfficeOps \cup {"rewrite"}, inv : {i \in Invoices : doc[i] # Absent},
                    image : Headers, qty : Quantities]
    BY <2>1 DEF TypeInv, TaxTypeOK
  <2> QED BY <1>1, <2>2 DEF DeleteLines, OfficeType
<1>4. qty' \in [Invoices -> 0..MaxQty]
  <2>1. qty' = [qty EXCEPT ![office.inv] = 0] BY DEF DeleteLines
  <2>2. qty \in [Invoices -> 0..MaxQty] BY DEF TypeInv, TaxTypeOK
  <2>3. 0 \in 0..MaxQty BY DocumentsAssumption
  <2> QED BY <2>1, <2>2, <2>3
<1>5. ReturningType' BY DEF TypeInv, TaxTypeOK, ReturningType, DeleteLines
<1>6. SubType' /\ NotesKeepQuantities' BY <1>1, <1>2, SubUntouched
<1>7. linked' \subseteq {c \in Notes : doc'[c] # Absent} BY <1>1, <1>2, LinkedUntouched
<1> QED BY <1>1, <1>2, <1>3, <1>4, <1>5, <1>6, <1>7, RestUntouched, TypeStep

LEMMA TypeOfficeSave ==
  ASSUME TypeInv, OfficeSave
  PROVE  TypeInv'
<1>1. UNCHANGED <<linked, returning, sub, answered, ledger>> BY DEF OfficeSave
<1>2. office \in [op : OfficeOps \cup {"rewrite"}, inv : {i \in Invoices : doc[i] # Absent},
                  image : Headers, qty : Quantities]
  BY DEF TypeInv, TaxTypeOK, OfficeSave, NoOffice
<1>3. /\ office.inv \in Invoices /\ office.image \in Headers /\ office.qty \in Quantities
      /\ office.inv \in Documents /\ office.inv \notin Notes
  BY <1>2, DocumentsAssumption DEF Documents
<1>4. doc' = [doc EXCEPT ![office.inv] = office.image] BY DEF OfficeSave
<1>5. doc \in [Documents -> Headers \cup {Absent}] BY DEF TypeInv, TaxTypeOK
<1>6. Kept BY <1>3, <1>4, <1>5, AbsentAssumption DEF Kept, TypeInv, NotesKeepQuantities, Documents
<1>7. OfficeType' BY DEF OfficeSave, OfficeType, NoOffice
<1>8. qty' \in [Invoices -> 0..MaxQty]
  BY <1>3, DocumentsAssumption DEF TypeInv, TaxTypeOK, OfficeSave, Quantities
<1>9. SubType' /\ NotesKeepQuantities' BY <1>1, <1>6, SubUntouched
<1>10. linked' \subseteq {c \in Notes : doc'[c] # Absent} BY <1>1, <1>6, LinkedUntouched
<1> QED BY <1>1, <1>6, <1>7, <1>8, <1>9, <1>10, RestUntouched, TypeStep

LEMMA TypeReturnCheck ==
  ASSUME TypeInv, NEW r \in Returners, NEW c \in Notes, ReturnCheck(r, c)
  PROVE  TypeInv'
<1> DEFINE i == InvoiceOf[c]
<1>1. PICK q \in 1..Returnable(i) :
        returning' = [returning EXCEPT ![r] = [note |-> c, qty |-> q]]
  BY DEF ReturnCheck
<1>2. UNCHANGED <<doc, qty, linked, office, sub, answered, ledger>> BY DEF ReturnCheck
<1>3. i \in Invoices BY DocumentsAssumption
<1>4. q \in Quantities
  <2>1. Returned(i) \in Nat BY ReturnedNat
  <2>2. qty[i] \in 0..MaxQty BY <1>3 DEF TypeInv, TaxTypeOK
  <2> HIDE DEF i
  <2> QED BY <2>1, <2>2, DocumentsAssumption DEF Returnable, Quantities
<1>5. ReturningType' BY <1>1, <1>4 DEF TypeInv, TaxTypeOK, ReturningType
<1>6. Kept BY <1>2, DocUntouched
<1>7. SubType' /\ NotesKeepQuantities' /\ OfficeType' BY <1>2, <1>6, SubUntouched, OfficeUntouched
<1>8. linked' \subseteq {d \in Notes : doc'[d] # Absent} BY <1>2, <1>6, LinkedUntouched
<1> QED BY <1>2, <1>5, <1>6, <1>7, <1>8, RestUntouched, TypeStep
LEMMA TypeReturnCommit ==
  ASSUME TypeInv, NEW r \in Returners, ReturnCommit(r), doc[returning[r].note] = Absent
  PROVE  TypeInv'
<1> DEFINE c == returning[r].note
           row == [status |-> "issued", figure |-> returning[r].qty, jofotara |-> "PENDING"]
<1>1. c \in Notes /\ c \in Documents /\ returning[r].qty \in Quantities
  BY DEF TypeInv, TaxTypeOK, ReturnCommit, Documents
<1>2. /\ doc' = [doc EXCEPT ![c] = row] /\ linked' = linked \cup {c}
      /\ returning' = [returning EXCEPT ![r] = NoReturn]
      /\ UNCHANGED <<qty, office, sub, answered, ledger>>
  BY DEF ReturnCommit
<1>3. row \in Headers /\ row.figure \in Quantities
  BY <1>1 DEF Headers, Statuses, JoFotaraStatuses, Totals
<1>4. doc[c] = Absent OBVIOUS
<1> HIDE DEF c, row
<1>5. doc \in [Documents -> Headers \cup {Absent}] BY DEF TypeInv, TaxTypeOK
<1>6. \A d \in Documents : d # c => doc'[d] = doc[d] BY <1>2, <1>5
<1>7. doc'[c] = row /\ row # Absent BY <1>1, <1>2, <1>3, <1>5, AbsentAssumption
<1>8. Kept
  <2>1. doc' \in [Documents -> Headers \cup {Absent}] BY <1>2, <1>3, <1>5
  <2>2. \A d \in Documents : doc[d] # Absent => doc'[d] # Absent BY <1>4, <1>6
  <2>3. \A n \in Notes : doc[n] # Absent => doc'[n].figure = doc[n].figure
    BY <1>4, <1>6 DEF Documents
  <2>4. \A n \in Notes : doc'[n] # Absent => doc'[n].figure \in Quantities
    BY <1>3, <1>6, <1>7 DEF Documents, TypeInv, NotesKeepQuantities
  <2> QED BY <2>1, <2>2, <2>3, <2>4 DEF Kept
<1>9. linked' \subseteq {n \in Notes : doc'[n] # Absent}
  <2>1. linked \subseteq {n \in Notes : doc[n] # Absent} BY DEF TypeInv, TaxTypeOK
  <2> QED BY <1>1, <1>2, <1>6, <1>7, <2>1 DEF Documents
<1>10. ReturningType' BY <1>2 DEF TypeInv, TaxTypeOK, ReturningType
<1>11. SubType' /\ NotesKeepQuantities' /\ OfficeType' BY <1>2, <1>8, SubUntouched, OfficeUntouched
<1> QED BY <1>2, <1>8, <1>9, <1>10, <1>11, RestUntouched, TypeStep

\* One submission changes.
LEMMA TypeSub ==
  ASSUME TypeInv, Kept, UNCHANGED <<qty, linked, office, returning>>,
         answered' \in [Documents -> SUBSET Totals], ledger' \in [Documents -> Totals \cup {Absent}],
         NEW s \in Submissions, NEW row, sub' = [sub EXCEPT ![s] = row],
         row # NoSub =>
           /\ row \in [at : {"valid", "invalid", "call", "success", "failure", "ledger"},
                       of : {d \in Documents : doc'[d] # Absent}, image : Headers]
           /\ row.of \in Notes => row.image.figure = doc'[row.of].figure
  PROVE  TypeInv'
<1>1. SubType' /\ NotesKeepQuantities'
  <2>1. SubType BY DEF TypeInv, TaxTypeOK, SubType
  <2> DEFINE Row == [at : {"valid", "invalid", "call", "success", "failure", "ledger"},
                     of : {d \in Documents : doc'[d] # Absent}, image : Headers]
             Fits(x) == x # NoSub => /\ x \in Row
                                     /\ x.of \in Notes => x.image.figure = doc'[x.of].figure
  <2>2. ASSUME NEW t \in Submissions PROVE Fits(sub[t])
    <3>1. sub[t] # NoSub =>
            /\ sub[t] \in [at : {"valid", "invalid", "call", "success", "failure", "ledger"},
                           of : {d \in Documents : doc[d] # Absent}, image : Headers]
            /\ sub[t].of \in Documents /\ doc[sub[t].of] # Absent
            /\ sub[t].of \in Notes => sub[t].image.figure = doc[sub[t].of].figure
      BY <2>1 DEF SubType, TypeInv, NotesKeepQuantities
    <3> QED BY <3>1 DEF Kept
  <2>3. Fits(row) OBVIOUS
  <2>4. \A t \in Submissions : sub'[t] = (IF t = s THEN row ELSE sub[t]) BY <2>1 DEF SubType
  <2> HIDE DEF Fits
  <2>5. \A t \in Submissions : Fits(sub'[t])
    <3> TAKE t \in Submissions
    <3>1. CASE t = s BY <2>3, <2>4, <3>1
    <3>2. CASE t # s BY <2>2, <2>4, <3>2
    <3> QED BY <3>1, <3>2
  <2>6. sub' = [t \in Submissions |-> sub'[t]] BY <2>1 DEF SubType
  <2>7. \A t \in Submissions : sub'[t] \in Row \cup {NoSub} BY <2>5 DEF Fits
  <2>8. SubType' BY <2>6, <2>7 DEF SubType
  <2>9. NotesKeepQuantities' BY <2>5 DEF NotesKeepQuantities, Kept, Fits
  <2> QED BY <2>8, <2>9
<1>2. OfficeType' BY OfficeUntouched
<1>3. linked' \subseteq {c \in Notes : doc'[c] # Absent} BY LinkedUntouched
<1> QED BY <1>1, <1>2, <1>3, RestUntouched, TypeStep

LEMMA TypeSubmit ==
  ASSUME TypeInv, NEW s \in Submissions, NEW d \in Documents, Submit(s, d)
  PROVE  TypeInv'
<1>1. PICK next \in {"valid", "invalid"} :
        sub' = [sub EXCEPT ![s] = [at |-> next, of |-> d, image |-> doc[d]]]
  BY DEF Submit
<1>2. doc[d] # Absent /\ UNCHANGED <<doc, qty, linked, office, returning, answered, ledger>>
  BY DEF Submit
<1>3. doc[d] \in Headers BY <1>2 DEF TypeInv, TaxTypeOK
<1>4. Kept BY <1>2, DocUntouched
<1> DEFINE row == [at |-> next, of |-> d, image |-> doc[d]]
<1>5. /\ row \in [at : {"valid", "invalid", "call", "success", "failure", "ledger"},
                  of : {e \in Documents : doc'[e] # Absent}, image : Headers]
      /\ row.image.figure = doc'[row.of].figure
  BY <1>2, <1>3
<1> HIDE DEF row
<1>6. sub' = [sub EXCEPT ![s] = row] BY <1>1 DEF row
<1> QED BY <1>2, <1>4, <1>5, <1>6, RestUntouched, TypeSub

\* What a submission in hand holds.
LEMMA InHandType ==
  ASSUME TypeInv, NEW s \in Submissions, sub[s] # NoSub
  PROVE  /\ sub[s] \in [at : {"valid", "invalid", "call", "success", "failure", "ledger"},
                        of : {d \in Documents : doc[d] # Absent}, image : Headers]
         /\ sub[s].of \in Documents /\ doc[sub[s].of] # Absent /\ sub[s].image \in Headers
         /\ sub[s].of \in Notes => sub[s].image.figure = doc[sub[s].of].figure
         /\ sub[s].image.figure \in Totals
BY DEF TypeInv, TaxTypeOK, NotesKeepQuantities, Headers

\* Saving the image of a submission keeps the documents there are, and the
\* quantities of credit notes.
LEMMA SavedKept ==
  ASSUME TypeInv, NEW s \in Submissions, sub[s] # NoSub, NEW status \in JoFotaraStatuses,
         SaveImage(s, status)
  PROVE  Kept
<1> DEFINE d == sub[s].of
           row == [sub[s].image EXCEPT !.jofotara = status]
<1>1. /\ d \in Documents /\ doc[d] # Absent /\ sub[s].image \in Headers
      /\ d \in Notes => sub[s].image.figure = doc[d].figure
  BY InHandType
<1>2. row \in Headers /\ row.figure = sub[s].image.figure BY <1>1 DEF Headers
<1>3. doc' = [doc EXCEPT ![d] = row] BY DEF SaveImage
<1> HIDE DEF d, row
<1>4. doc \in [Documents -> Headers \cup {Absent}] BY DEF TypeInv, TaxTypeOK
<1>5. \A e \in Documents : doc'[e] = (IF e = d THEN row ELSE doc[e]) BY <1>3, <1>4
<1>6. doc' \in [Documents -> Headers \cup {Absent}] BY <1>2, <1>3, <1>4
<1>7. row # Absent BY <1>2, AbsentAssumption
<1>8. \A c \in Notes : doc[c] # Absent => doc[c].figure \in Quantities
  BY DEF TypeInv, NotesKeepQuantities
<1> QED BY <1>1, <1>2, <1>5, <1>6, <1>7, <1>8 DEF Kept, Documents

LEMMA TypeWork ==
  ASSUME TypeInv, NEW s \in Submissions, Work(s)
  PROVE  TypeInv'
<1> DEFINE Places == {"valid", "invalid", "call", "success", "failure", "ledger"}
<1>1. sub[s] # NoSub
  BY DEF Work, Refuse, MarkSubmitted, StandIn, IstdAccepts, IstdFails, Succeed, Fail, Post, NoSub
<1>2. UNCHANGED <<qty, linked, office, returning>>
  BY DEF Work, Refuse, MarkSubmitted, StandIn, IstdAccepts, IstdFails, Succeed, Fail, Post
<1>3. Kept
  <2>1. CASE UNCHANGED doc BY <2>1, DocUntouched
  <2>2. CASE \E status \in JoFotaraStatuses : SaveImage(s, status) BY <1>1, <2>2, SavedKept
  <2> QED BY <2>1, <2>2 DEF Work, Refuse, MarkSubmitted, StandIn, IstdAccepts, IstdFails, Succeed, Fail,
                            Post, JoFotaraStatuses
<1>4. /\ sub[s] \in [at : Places, of : {d \in Documents : doc[d] # Absent}, image : Headers]
      /\ sub[s].of \in Documents /\ doc[sub[s].of] # Absent
      /\ sub[s].of \in Notes => sub[s].image.figure = doc[sub[s].of].figure
      /\ sub[s].image.figure \in Totals
  BY <1>1, InHandType
<1>5. answered' \in [Documents -> SUBSET Totals]
  <2>1. answered \in [Documents -> SUBSET Totals] BY DEF TypeInv, TaxTypeOK
  <2>2. \/ UNCHANGED answered
        \/ answered' = [answered EXCEPT ![sub[s].of] = @ \cup {sub[s].image.figure}]
    BY DEF Work, Refuse, MarkSubmitted, StandIn, IstdAccepts, IstdFails, Succeed, Fail, Post
  <2> QED BY <1>4, <2>1, <2>2
<1>6. ledger' \in [Documents -> Totals \cup {Absent}]
  <2>1. ledger \in [Documents -> Totals \cup {Absent}] BY DEF TypeInv, TaxTypeOK
  <2>2. \/ UNCHANGED ledger
        \/ ledger' = [ledger EXCEPT ![sub[s].of] = sub[s].image.figure]
    BY DEF Work, Refuse, MarkSubmitted, StandIn, IstdAccepts, IstdFails, Succeed, Fail, Post
  <2> QED BY <1>4, <2>1, <2>2
<1>7. CASE sub' = [sub EXCEPT ![s] = NoSub]
  BY <1>2, <1>3, <1>5, <1>6, <1>7, TypeSub
<1>8. CASE \E place \in Places : sub' = [sub EXCEPT ![s].at = place]
  <2>1. PICK place \in Places : sub' = [sub EXCEPT ![s].at = place] BY <1>8
  <2> DEFINE row == [sub[s] EXCEPT !.at = place]
  <2>2. sub' = [sub EXCEPT ![s] = row] BY <2>1
  <2>3. /\ row \in [at : Places, of : {d \in Documents : doc'[d] # Absent}, image : Headers]
        /\ row.of \in Notes => row.image.figure = doc'[row.of].figure
    BY <1>3, <1>4 DEF Kept
  <2> HIDE DEF row
  <2> QED BY <1>2, <1>3, <1>5, <1>6, <2>2, <2>3, TypeSub
<1> QED BY <1>7, <1>8 DEF Work, Refuse, MarkSubmitted, StandIn, IstdAccepts, IstdFails, Succeed, Fail,
                          Post, Goto

LEMMA TypeRestart ==
  ASSUME TypeInv, TaxRestart
  PROVE  TypeInv'
<1>1. UNCHANGED <<doc, qty, linked, answered, ledger>> BY DEF TaxRestart
<1>2. Kept BY <1>1, DocUntouched
<1>3. OfficeType' BY DEF TaxRestart, OfficeType
<1>4. ReturningType' BY DEF TaxRestart, ReturningType
<1>5. SubType' BY DEF TaxRestart, SubType
<1>6. NotesKeepQuantities' BY <1>1 DEF TaxRestart, TypeInv, NotesKeepQuantities
<1>7. linked' \subseteq {c \in Notes : doc'[c] # Absent} BY <1>1, <1>2, LinkedUntouched
<1> QED BY <1>1, <1>2, <1>3, <1>4, <1>5, <1>6, <1>7, RestUntouched, TypeStep

\* A credit note in hand is on paper nowhere yet.
LEMMA ApartUntouched ==
  ASSUME ReturnsApart, ReturningType, UNCHANGED returning,
         \A c \in Notes : doc[c] = Absent => doc'[c] = Absent
  PROVE  ReturnsApart'
BY DEF ReturnsApart, ReturningType

LEMMA ApartNext ==
  ASSUME TypeInv, ReturnsApart, TaxNext
  PROVE  ReturnsApart'
<1>1. ReturningType BY DEF TypeInv, TaxTypeOK, ReturningType
<1>2. doc \in [Documents -> Headers \cup {Absent}] BY DEF TypeInv, TaxTypeOK
<1>3. CASE \E i \in Invoices : Create(i) \/ \E op \in OfficeOps : OfficeRead(i, op)
  <2>1. UNCHANGED returning /\ \A c \in Notes : doc'[c] = doc[c]
    BY <1>2, <1>3, DocumentsAssumption DEF Create, OfficeRead, Documents
  <2> QED BY <1>1, <2>1, ApartUntouched
<1>4. CASE DeleteLines
  BY <1>1, <1>4, DocumentsAssumption
  DEF DeleteLines, ReturnsApart, ReturningType, NoReturn, Documents
<1>5. CASE OfficeSave
  <2>1. office.inv \in Invoices
    BY <1>5 DEF TypeInv, TaxTypeOK, OfficeSave, NoOffice
  <2>2. UNCHANGED returning /\ doc' = [doc EXCEPT ![office.inv] = office.image]
    BY <1>5 DEF OfficeSave
  <2>3. \A c \in Notes : doc'[c] = doc[c] BY <1>2, <2>1, <2>2, DocumentsAssumption DEF Documents
  <2> QED BY <1>1, <2>2, <2>3, ApartUntouched
<1>6. ASSUME NEW r \in Returners, ReturnCommit(r) PROVE ReturnsApart'
  <2> DEFINE c == returning[r].note
  <2>1. /\ \A d \in Documents : d # c => doc'[d] = doc[d]
        /\ \A o \in Returners : returning'[o] = (IF o = r THEN NoReturn ELSE returning[o])
    BY <1>1, <1>2, <1>6 DEF ReturnCommit, ReturningType
  <2>2. \A o \in Returners \ {r} : returning[o].note # c BY <1>6 DEF ReturnsApart, ReturnCommit
  <2>3. NoReturn.note \notin Notes BY DocumentsAssumption DEF NoReturn, Documents
  <2>4. \A o \in Returners : returning[o] # NoReturn => returning[o].note \in Documents
    BY <1>1 DEF ReturningType, Documents
  <2>5. \A o \in Returners : returning[o] # NoReturn => returning[o].note \in Notes
    BY <1>1 DEF ReturningType
  <2> HIDE DEF c
  <2> QED BY <2>1, <2>2, <2>3, <2>4, <2>5 DEF ReturnsApart
<1>7. ASSUME NEW r \in Returners, NEW c \in Notes, ReturnCheck(r, c) PROVE ReturnsApart'
  <2>1. PICK q : returning' = [returning EXCEPT ![r] = [note |-> c, qty |-> q]]
    BY <1>7 DEF ReturnCheck
  <2>2. /\ UNCHANGED doc /\ doc[c] = Absent /\ \A o \in Returners : returning[o].note # c
    BY <1>7 DEF ReturnCheck
  <2>3. \A o \in Returners :
          returning'[o] = (IF o = r THEN [note |-> c, qty |-> q] ELSE returning[o])
    BY <1>1, <2>1 DEF ReturningType
  <2> QED BY <2>2, <2>3 DEF ReturnsApart
<1>8. ASSUME NEW s \in Submissions, Work(s) PROVE ReturnsApart'
  <2>1. UNCHANGED returning /\ sub[s] # NoSub
    BY <1>8 DEF Work, Refuse, MarkSubmitted, StandIn, IstdAccepts, IstdFails, Succeed, Fail, Post, NoSub
  <2>2. doc[sub[s].of] # Absent BY <2>1, InHandType
  <2>3. UNCHANGED doc \/ \E status : SaveImage(s, status)
    BY <1>8 DEF Work, Refuse, MarkSubmitted, StandIn, IstdAccepts, IstdFails, Succeed, Fail, Post
  <2>4. \A c \in Notes : doc[c] = Absent => doc'[c] = Absent
    BY <1>2, <2>2, <2>3 DEF SaveImage, Documents
  <2> QED BY <1>1, <2>1, <2>4, ApartUntouched
<1>9. ASSUME NEW s \in Submissions, NEW d \in Documents, Submit(s, d) PROVE ReturnsApart'
  BY <1>1, <1>9, ApartUntouched DEF Submit
<1>10. CASE TaxRestart BY <1>10 DEF TaxRestart, ReturnsApart
<1> QED BY <1>3, <1>4, <1>5, <1>6, <1>7, <1>8, <1>9, <1>10 DEF TaxNext

TypesHold == TypeInv /\ ReturnsApart

LEMMA TaxTypesInit == TaxInit => TypesHold
<1> SUFFICES ASSUME TaxInit PROVE TypesHold
  OBVIOUS
<1>1. doc = [d \in Documents |-> Absent] /\ linked = {} /\ office = NoOffice
  BY DEF TaxInit
<1>2. qty \in [Invoices -> 0..MaxQty] BY DocumentsAssumption DEF TaxInit
<1>3. TaxTypeOK BY <1>1, <1>2 DEF TaxInit, TaxTypeOK
<1>4. NotesKeepQuantities BY <1>1 DEF TaxInit, NotesKeepQuantities, Documents
<1>5. ReturnsApart BY DEF TaxInit, ReturnsApart
<1> QED BY <1>3, <1>4, <1>5 DEF TypesHold, TypeInv

LEMMA TaxTypesNext == TypesHold /\ [TaxNext]_taxVars => TypesHold'
<1> SUFFICES ASSUME TypesHold, [TaxNext]_taxVars PROVE TypesHold'
  OBVIOUS
<1>1. CASE UNCHANGED taxVars
  BY <1>1 DEF taxVars, TypesHold, TypeInv, TaxTypeOK, NotesKeepQuantities, ReturnsApart
<1>2. CASE TaxNext
  <2>1. TypeInv /\ ReturnsApart BY DEF TypesHold
  <2>2. ReturnsApart' BY <1>2, <2>1, ApartNext
  <2>3. ASSUME NEW i \in Invoices, Create(i) PROVE TypeInv' BY <2>1, <2>3, TypeCreate
  <2>4. ASSUME NEW i \in Invoices, NEW op \in OfficeOps, OfficeRead(i, op) PROVE TypeInv'
    BY <2>1, <2>4, TypeOfficeRead
  <2>5. ASSUME DeleteLines PROVE TypeInv' BY <2>1, <2>5, TypeDeleteLines
  <2>6. ASSUME OfficeSave PROVE TypeInv' BY <2>1, <2>6, TypeOfficeSave
  <2>7. ASSUME NEW r \in Returners, ReturnCommit(r) PROVE TypeInv'
    <3>1. doc[returning[r].note] = Absent BY <2>1, <2>7 DEF ReturnsApart, ReturnCommit
    <3> QED BY <2>1, <2>7, <3>1, TypeReturnCommit
  <2>8. ASSUME NEW r \in Returners, NEW c \in Notes, ReturnCheck(r, c) PROVE TypeInv'
    BY <2>1, <2>8, TypeReturnCheck
  <2>9. ASSUME NEW s \in Submissions, Work(s) PROVE TypeInv' BY <2>1, <2>9, TypeWork
  <2>10. ASSUME NEW s \in Submissions, NEW d \in Documents, Submit(s, d) PROVE TypeInv'
    BY <2>1, <2>10, TypeSubmit
  <2>11. ASSUME TaxRestart PROVE TypeInv' BY <2>1, <2>11, TypeRestart
  <2>12. TypeInv'
    BY <1>2, <2>3, <2>4, <2>5, <2>6, <2>7, <2>8, <2>9, <2>10, <2>11 DEF TaxNext
  <2> QED BY <2>2, <2>12 DEF TypesHold
<1> QED BY <1>1, <1>2

THEOREM TaxTypesInductive == TaxSpec => []TypesHold
BY TaxTypesInit, TaxTypesNext, PTL DEF TaxSpec

\* Headers, lines, requests, submissions and entries are always what the code takes
\* them for; in particular a quantity returned is one of the quantities of a line.
THEOREM TaxTypeCorrect == TaxSpec => []TaxTypeOK
<1>1. TypesHold => TaxTypeOK BY DEF TypesHold, TypeInv
<1> QED BY <1>1, TaxTypesInductive, PTL

-----------------------------------------------------------------------------
(* Credit notes against their invoice.  What requests have checked and not *)
(* yet committed counts as well as what was returned: each may have        *)
(* checked all that was sold, whatever the others were about to return.    *)

Claim(i, hand, r) == IF InvoiceOf[hand[r].note] = i THEN hand[r].qty ELSE 0
Claims(i, hand) == [r \in Returners |-> IF hand[r] = NoReturn THEN 0 ELSE Claim(i, hand, r)]
Claimed(i) == SumFunctionOnSet(Claims(i, returning), Returners)
ClaimedNext(i) == SumFunctionOnSet(Claims(i, returning'), Returners)

Limit(q) == Cardinality(Returners) * q

\* The invariant: with what is claimed, the returns keep the limit.
ClaimsFit == \A i \in Invoices : Returned(i) + Claimed(i) <= Limit(qty[i])

\* A request in hand returns no more than was sold.
ClaimHolds(r) ==
  returning[r] # NoReturn =>
    /\ doc[InvoiceOf[returning[r].note]] # Absent
    /\ returning[r].qty <= qty[InvoiceOf[returning[r].note]]

Unreferenced(i) == \A c \in linked : InvoiceOf[c] # i

\* Where there is no line nothing refers to it.
NoLineNoReturns ==
  /\ \A i \in Invoices : doc[i] = Absent => qty[i] = 0 /\ Unreferenced(i)
  /\ office.op = "rewrite" => qty[office.inv] = 0 /\ Unreferenced(office.inv)

ReturnInv ==
  /\ NoLineNoReturns
  /\ ClaimsFit
  /\ \A r \in Returners : ClaimHolds(r)

LEMMA LimitIs ==
  /\ Cardinality(Returners) \in Nat
  /\ \A q \in Nat : Limit(q) \in Nat
<1>1. Cardinality(Returners) \in Nat BY FS_CardinalityType, DocumentsAssumption
<1> QED BY <1>1 DEF Limit

\* What a request in hand claims is a quantity of its invoice.
LEMMA InHandFits ==
  ASSUME TypeInv, ReturnInv, NEW r \in Returners, returning[r] # NoReturn
  PROVE  /\ returning[r].note \in Notes /\ InvoiceOf[returning[r].note] \in Invoices
         /\ returning[r].qty \in Quantities /\ returning[r].qty \in Nat /\ returning[r].qty >= 1
         /\ doc[InvoiceOf[returning[r].note]] # Absent
         /\ returning[r].qty <= qty[InvoiceOf[returning[r].note]]
<1>1. returning[r].note \in Notes /\ returning[r].qty \in Quantities
  BY DEF TypeInv, TaxTypeOK
<1>2. InvoiceOf[returning[r].note] \in Invoices BY <1>1, DocumentsAssumption
<1>3. ClaimHolds(r) BY DEF ReturnInv
<1>4. returning[r].qty \in Nat /\ returning[r].qty >= 1
  BY <1>1, DocumentsAssumption DEF Quantities
<1> QED BY <1>1, <1>2, <1>3, <1>4 DEF ClaimHolds

LEMMA ClaimsAre ==
  ASSUME TypeInv, ReturnInv, NEW i \in Invoices
  PROVE  /\ qty[i] \in Nat
         /\ \A r \in Returners : Claims(i, returning)[r] \in Nat /\ Claims(i, returning)[r] <= qty[i]
         /\ Claimed(i) \in Nat
<1>1. qty[i] \in Nat BY DocumentsAssumption DEF TypeInv, TaxTypeOK
<1>2. ASSUME NEW r \in Returners
      PROVE  Claims(i, returning)[r] \in Nat /\ Claims(i, returning)[r] <= qty[i]
  <2>1. CASE returning[r] = NoReturn
    <3>1. Claims(i, returning)[r] = 0 BY <2>1 DEF Claims
    <3> QED BY <1>1, <3>1
  <2>2. CASE returning[r] # NoReturn /\ InvoiceOf[returning[r].note] = i
    <3>1. Claims(i, returning)[r] = returning[r].qty BY <2>2 DEF Claims, Claim
    <3> QED BY <2>2, <3>1, InHandFits
  <2>3. CASE returning[r] # NoReturn /\ InvoiceOf[returning[r].note] # i
    <3>1. Claims(i, returning)[r] = 0 BY <2>3 DEF Claims, Claim
    <3> QED BY <1>1, <3>1
  <2> QED BY <2>1, <2>2, <2>3
<1>3. Claimed(i) \in Nat BY <1>2, SumNat, DocumentsAssumption DEF Claimed
<1> QED BY <1>1, <1>2, <1>3

\* What one request claims is part of what is claimed.
LEMMA NoClaims ==
  ASSUME NEW i, NEW hand,
         \A r \in Returners : hand[r] = NoReturn \/ InvoiceOf[hand[r].note] # i
  PROVE  SumFunctionOnSet(Claims(i, hand), Returners) = 0
<1> DEFINE f == Claims(i, hand)
<1>1. \A r \in Returners : f[r] = 0 BY DEF Claims, Claim
<1> HIDE DEF f
<1>2. SumFunctionOnSet(f, Returners) = 0 BY <1>1, SumZero, DocumentsAssumption
<1> QED BY <1>2 DEF f

\* Nothing refers to the invoice: nothing was returned of it.
LEMMA ReturnedNone ==
  ASSUME NEW i, \A c \in linked' : InvoiceOf[c] # i
  PROVE  Returned(i)' = 0
<1> DEFINE terms == Terms(i, doc', linked')
<1>1. \A c \in Notes : terms[c] = 0 BY DEF Terms
<1> HIDE DEF terms
<1>2. SumFunctionOnSet(terms, Notes) = 0 BY <1>1, SumZero, DocumentsAssumption
<1> QED BY <1>2, ReturnedIs DEF terms

\* The credit notes of the invoice are as they were.
LEMMA ReturnedKept ==
  ASSUME NEW i,
         \A c \in Notes : InvoiceOf[c] = i =>
           /\ c \in linked' <=> c \in linked
           /\ c \in linked => doc'[c].figure = doc[c].figure
  PROVE  Returned(i)' = Returned(i)
<1> DEFINE old == Terms(i, doc, linked)
           new == Terms(i, doc', linked')
<1>1. \A c \in Notes : old[c] = new[c] BY DEF Terms
<1> HIDE DEF old, new
<1>2. SumFunctionOnSet(old, Notes) = SumFunctionOnSet(new, Notes)
  BY <1>1, SumEqual, DocumentsAssumption
<1> QED BY <1>2, ReturnedIs DEF old, new

\* One more credit note.
LEMMA ReturnedMore ==
  ASSUME TypeInv, NEW c \in Notes, NEW q \in Nat, c \notin linked,
         linked' = linked \cup {c}, doc'[c].figure = q,
         \A n \in Notes : n # c => doc'[n] = doc[n],
         NEW i
  PROVE  Returned(i)' = Returned(i) + (IF InvoiceOf[c] = i THEN q ELSE 0)
<1> DEFINE old == Terms(i, doc, linked)
           new == Terms(i, doc', linked')
<1>1. \A n \in Notes : old[n] \in Nat
  BY TermsNat DEF TypeInv, TaxTypeOK, NotesKeepQuantities
<1>2. \A n \in Notes \ {c} : old[n] = new[n] BY DEF Terms
<1>3. old[c] = 0 /\ new[c] = (IF InvoiceOf[c] = i THEN q ELSE 0) BY DEF Terms
<1> HIDE DEF old, new
<1>4. \A n \in Notes : old[n] \in Int /\ new[n] \in Int BY <1>1, <1>2, <1>3
<1>0. IsFiniteSet(Notes) BY DocumentsAssumption
<1>5. SumFunctionOnSet(new, Notes) = SumFunctionOnSet(old, Notes) - old[c] + new[c]
  <2>1. \A x \in Notes : old[x] \in Int /\ new[x] \in Int BY <1>4
  <2>2. \A x \in Notes \ {c} : old[x] = new[x] BY <1>2
  <2>3. c \in Notes OBVIOUS
  <2> QED BY ONLY <1>0, <2>1, <2>2, <2>3, SumChange
<1>6. SumFunctionOnSet(old, Notes) \in Int BY <1>4, SumInt, DocumentsAssumption
<1>7. Returned(i) \in Int /\ Returned(i)' = Returned(i) - old[c] + new[c]
  BY <1>5, <1>6, ReturnedIs DEF old, new
<1> QED BY <1>3, <1>7

\* A step that leaves an invoice, its returns and its claims alone.
LEMMA FitsUntouched ==
  ASSUME ReturnInv, NEW i \in Invoices, qty'[i] = qty[i], Returned(i)' = Returned(i),
         ClaimedNext(i) = Claimed(i)
  PROVE  (Returned(i) + Claimed(i) <= Limit(qty[i]))'
<1>1. Returned(i) + Claimed(i) <= Limit(qty[i]) BY DEF ReturnInv, ClaimsFit
<1>2. Claimed(i)' = ClaimedNext(i) BY DEF Claimed, ClaimedNext
<1>3. Limit(qty[i])' = Limit(qty[i]) BY DEF Limit
<1> QED BY <1>1, <1>2, <1>3

\* A step that leaves an invoice without returns and without claims.
LEMMA FitsNothing ==
  ASSUME NEW i, qty'[i] \in Nat, Returned(i)' = 0, ClaimedNext(i) = 0
  PROVE  (Returned(i) + Claimed(i) <= Limit(qty[i]))'
<1>1. Claimed(i)' = 0 BY DEF Claimed, ClaimedNext
<1>2. Limit(qty'[i]) \in Nat BY LimitIs
<1>3. Limit(qty[i])' = Limit(qty'[i]) BY DEF Limit
<1> QED BY <1>1, <1>2, <1>3

LEMMA SameClaims == ASSUME NEW i, UNCHANGED returning PROVE ClaimedNext(i) = Claimed(i)
BY DEF Claimed, ClaimedNext

\* A step that touches neither lines nor what was returned of them.
LEMMA LinesUntouched ==
  ASSUME TypeInv, ReturnInv, Kept, UNCHANGED <<qty, linked, returning>>,
         \A i \in Invoices : doc[i] = Absent => doc'[i] = Absent,
         office'.op = "rewrite" => office' = office
  PROVE  ReturnInv'
<1>1. \A i \in Invoices : Returned(i)' = Returned(i)
  <2> TAKE i \in Invoices
  <2>1. \A c \in Notes : c \in linked => doc'[c].figure = doc[c].figure
    BY DEF TypeInv, TaxTypeOK, Kept
  <2> QED BY <2>1, ReturnedKept
<1>2. ClaimsFit' BY <1>1, SameClaims, FitsUntouched DEF ClaimsFit
<1>3. NoLineNoReturns' BY DEF ReturnInv, NoLineNoReturns, Unreferenced, Kept, Documents
<1>4. ASSUME NEW r \in Returners PROVE ClaimHolds(r)'
  <2>1. CASE returning[r] = NoReturn BY <2>1 DEF ClaimHolds
  <2>2. CASE returning[r] # NoReturn
    BY <2>2, InHandFits DEF ClaimHolds, Kept, Documents
  <2> QED BY <2>1, <2>2
<1> QED BY <1>2, <1>3, <1>4 DEF ReturnInv

LEMMA ReturnCreate ==
  ASSUME TypeInv, ReturnInv, NEW i \in Invoices, Create(i)
  PROVE  ReturnInv'
<1>1. PICK q \in Quantities : qty' = [qty EXCEPT ![i] = q] BY DEF Create
<1>2. PICK row : doc' = [doc EXCEPT ![i] = row] /\ row \in Headers
  <2>1. PICK f \in Figures :
          doc' = [doc EXCEPT ![i] = [status |-> "draft", figure |-> f, jofotara |-> "PENDING"]]
    BY DEF Create
  <2>2. [status |-> "draft", figure |-> f, jofotara |-> "PENDING"] \in Headers
    BY DEF Headers, Statuses, JoFotaraStatuses, Totals
  <2> QED BY <2>1, <2>2
<1>3. UNCHANGED <<linked, office, returning>> /\ office = NoOffice /\ doc[i] = Absent
  BY DEF Create
<1>4. doc \in [Documents -> Headers \cup {Absent}] /\ qty \in [Invoices -> 0..MaxQty]
  BY DEF TypeInv, TaxTypeOK
<1>5. i \in Documents /\ \A c \in Notes : c \in Documents /\ c # i
  BY DocumentsAssumption DEF Documents
<1>6. /\ doc'[i] # Absent
      /\ \A d \in Documents : d # i => doc'[d] = doc[d]
      /\ qty'[i] = q /\ \A j \in Invoices : j # i => qty'[j] = qty[j]
  BY <1>1, <1>2, <1>4, <1>5, AbsentAssumption
<1>7. Unreferenced(i) BY <1>3 DEF ReturnInv, NoLineNoReturns
<1>8. \A j \in Invoices : Returned(j)' = Returned(j)
  <2> TAKE j \in Invoices
  <2> QED BY <1>3, <1>5, <1>6, ReturnedKept
<1>9. Returned(i)' = 0 BY <1>3, <1>7, ReturnedNone DEF Unreferenced
<1>10. \A r \in Returners : returning'[r] = NoReturn \/ InvoiceOf[returning'[r].note] # i
  BY <1>3, InHandFits
<1>11. ClaimsFit'
  <2> SUFFICES ASSUME NEW j \in Invoices PROVE (Returned(j) + Claimed(j) <= Limit(qty[j]))'
    BY DEF ClaimsFit
  <2>1. CASE j = i
    <3>1. ClaimedNext(i) = 0 BY <1>10, NoClaims DEF ClaimedNext
    <3>2. qty'[i] \in Nat BY <1>6, DocumentsAssumption DEF Quantities
    <3> QED BY <1>9, <2>1, <3>1, <3>2, FitsNothing
  <2>2. CASE j # i BY <1>3, <1>6, <1>8, <2>2, SameClaims, FitsUntouched
  <2> QED BY <2>1, <2>2
<1>12. NoLineNoReturns'
  BY <1>3, <1>6 DEF ReturnInv, NoLineNoReturns, Unreferenced, NoOffice, Documents
<1>13. ASSUME NEW r \in Returners PROVE ClaimHolds(r)'
  <2>1. CASE returning[r] = NoReturn BY <1>3, <2>1 DEF ClaimHolds
  <2>2. CASE returning[r] # NoReturn
    BY <1>3, <1>6, <2>2, InHandFits DEF ClaimHolds, Documents
  <2> QED BY <2>1, <2>2
<1> QED BY <1>11, <1>12, <1>13 DEF ReturnInv

LEMMA ReturnDelete ==
  ASSUME TypeInv, ReturnInv, DeleteLines
  PROVE  ReturnInv'
<1>0. PICK i : i = office.inv OBVIOUS
<1>1. /\ qty' = [qty EXCEPT ![i] = 0]
      /\ linked' = {c \in linked : InvoiceOf[c] # i}
      /\ office' = [office EXCEPT !.op = "rewrite"]
      /\ UNCHANGED doc
  BY <1>0 DEF DeleteLines
<1>2. i \in Invoices /\ doc[i] # Absent /\ office'.inv = i
  BY <1>0 DEF TypeInv, TaxTypeOK, DeleteLines, NoOffice
<1>3. \A r \in Returners :
        returning'[r] = (IF returning[r].note \in Notes /\ InvoiceOf[returning[r].note] = i
                         THEN NoReturn ELSE returning[r])
  BY <1>0 DEF TypeInv, TaxTypeOK, DeleteLines
<1>4. qty \in [Invoices -> 0..MaxQty] BY DEF TypeInv, TaxTypeOK
<1>5. qty'[i] = 0 /\ \A j \in Invoices : j # i => qty'[j] = qty[j] BY <1>1, <1>2, <1>4
<1>6. Unreferenced(i)' BY <1>1 DEF Unreferenced
<1>7. Returned(i)' = 0 BY <1>1, ReturnedNone
<1>8. \A r \in Returners :
        /\ returning'[r] = NoReturn \/ InvoiceOf[returning'[r].note] # i
        /\ returning'[r] = NoReturn \/ returning'[r] = returning[r]
        /\ returning'[r] # returning[r] => InvoiceOf[returning[r].note] = i
  BY <1>3, InHandFits
<1>9. ClaimsFit'
  <2> SUFFICES ASSUME NEW j \in Invoices PROVE (Returned(j) + Claimed(j) <= Limit(qty[j]))'
    BY DEF ClaimsFit
  <2>1. CASE j = i
    <3>1. ClaimedNext(i) = 0 BY <1>8, NoClaims DEF ClaimedNext
    <3> QED BY <1>5, <1>7, <2>1, <3>1, FitsNothing
  <2>2. CASE j # i
    <3>1. Returned(j)' = Returned(j) BY <1>1, <2>2, ReturnedKept
    <3> DEFINE old == Claims(j, returning)
               new == Claims(j, returning')
    <3>2. \A r \in Returners : old[r] = new[r]
      BY <1>8, <2>2 DEF Claims, Claim
    <3> HIDE DEF old, new
    <3>3. SumFunctionOnSet(old, Returners) = SumFunctionOnSet(new, Returners)
      BY <3>2, SumEqual, DocumentsAssumption
    <3>4. ClaimedNext(j) = Claimed(j) BY <3>3 DEF Claimed, ClaimedNext, old, new
    <3> QED BY <1>5, <2>2, <3>1, <3>4, FitsUntouched
  <2> QED BY <2>1, <2>2
<1>10. NoLineNoReturns'
  BY <1>1, <1>2, <1>5, <1>6 DEF ReturnInv, NoLineNoReturns, Unreferenced
<1>11. ASSUME NEW r \in Returners PROVE ClaimHolds(r)'
  BY <1>1, <1>5, <1>8, InHandFits DEF ClaimHolds
<1> QED BY <1>9, <1>10, <1>11 DEF ReturnInv

LEMMA ReturnSave ==
  ASSUME TypeInv, ReturnInv, Kept, OfficeSave
  PROVE  ReturnInv'
<1>0. PICK i : i = office.inv OBVIOUS
<1>1. /\ doc' = [doc EXCEPT ![i] = office.image]
      /\ qty' = IF office.op = "rewrite" THEN [qty EXCEPT ![i] = office.qty] ELSE qty
      /\ office' = NoOffice
      /\ UNCHANGED <<linked, returning>>
  BY <1>0 DEF OfficeSave
<1>2. i \in Invoices /\ doc[i] # Absent /\ office.qty \in Quantities
  BY <1>0 DEF TypeInv, TaxTypeOK, OfficeSave, NoOffice
<1>3. office'.op # "rewrite" BY <1>1 DEF NoOffice
<1>4. doc \in [Documents -> Headers \cup {Absent}] /\ qty \in [Invoices -> 0..MaxQty]
  BY DEF TypeInv, TaxTypeOK
<1>5. \A d \in Documents : d # i => doc'[d] = doc[d] BY <1>1, <1>4
<1>6. CASE office.op # "rewrite"
  <2>1. UNCHANGED <<qty, linked, returning>> BY <1>1, <1>6
  <2>2. \A j \in Invoices : doc[j] = Absent => doc'[j] = Absent BY <1>2, <1>5 DEF Documents
  <2> QED BY <1>3, <2>1, <2>2, LinesUntouched
<1>7. CASE office.op = "rewrite"
  <2>1. qty[i] = 0 /\ Unreferenced(i) BY <1>0, <1>7 DEF ReturnInv, NoLineNoReturns
  <2>2. qty'[i] = office.qty /\ \A j \in Invoices : j # i => qty'[j] = qty[j]
    BY <1>1, <1>2, <1>4, <1>7
  <2>3. Returned(i)' = 0 BY <1>1, <2>1, ReturnedNone DEF Unreferenced
  <2>4. \A r \in Returners : returning'[r] = NoReturn \/ InvoiceOf[returning'[r].note] # i
    <3> SUFFICES ASSUME NEW r \in Returners, returning[r] # NoReturn,
                        InvoiceOf[returning[r].note] = i
                 PROVE  FALSE
      BY <1>1
    <3>1. returning[r].qty \in Nat /\ returning[r].qty >= 1 /\ returning[r].qty <= qty[i]
      BY InHandFits
    <3> QED BY <2>1, <3>1
  <2>5. ClaimsFit'
    <3> SUFFICES ASSUME NEW j \in Invoices PROVE (Returned(j) + Claimed(j) <= Limit(qty[j]))'
      BY DEF ClaimsFit
    <3>1. CASE j = i
      <4>1. ClaimedNext(i) = 0 BY <2>4, NoClaims DEF ClaimedNext
      <4>2. qty'[i] \in Nat BY <1>2, <2>2, DocumentsAssumption DEF Quantities
      <4> QED BY <2>3, <3>1, <4>1, <4>2, FitsNothing
    <3>2. CASE j # i
      <4>1. \A c \in Notes : c \in linked => doc'[c].figure = doc[c].figure
        BY DEF TypeInv, TaxTypeOK, Kept
      <4>2. Returned(j)' = Returned(j) BY <1>1, <4>1, ReturnedKept
      <4> QED BY <1>1, <2>2, <3>2, <4>2, SameClaims, FitsUntouched
    <3> QED BY <3>1, <3>2
  <2>6. NoLineNoReturns'
    BY <1>1, <1>2, <1>3, <1>5, <2>2 DEF ReturnInv, NoLineNoReturns, Unreferenced, Kept, Documents
  <2>7. ASSUME NEW r \in Returners PROVE ClaimHolds(r)'
    <3>1. CASE returning[r] = NoReturn BY <1>1, <3>1 DEF ClaimHolds
    <3>2. CASE returning[r] # NoReturn
      <4>1. InvoiceOf[returning[r].note] # i BY <1>1, <2>4, <3>2
      <4> QED BY <1>1, <1>5, <2>2, <3>2, <4>1, InHandFits DEF ClaimHolds, Documents
    <3> QED BY <3>1, <3>2
  <2> QED BY <2>5, <2>6, <2>7 DEF ReturnInv
<1> QED BY <1>6, <1>7

\* A request that checks finds enough left, and the others claim no more than was
\* sold each.
LEMMA ReturnChecked ==
  ASSUME TypeInv, ReturnInv, NEW r \in Returners, NEW c \in Notes, ReturnCheck(r, c)
  PROVE  ReturnInv'
<1>1. PICK q \in 1..Returnable(InvoiceOf[c]) :
        returning' = [returning EXCEPT ![r] = [note |-> c, qty |-> q]]
  BY DEF ReturnCheck
<1>2. doc[InvoiceOf[c]] # Absent /\ UNCHANGED <<doc, qty, linked, office>> BY DEF ReturnCheck
<1>3. returning[r] = NoReturn BY DEF ReturnCheck
<1>4. \A i \in Invoices : Returned(i)' = Returned(i)
  <2> TAKE i \in Invoices
  <2> QED BY <1>2, ReturnedKept
<1>5. /\ \A o \in Returners : o # r => returning'[o] = returning[o]
      /\ returning'[r] = [note |-> c, qty |-> q]
  BY <1>1 DEF TypeInv, TaxTypeOK
<1> DEFINE k == InvoiceOf[c]
<1>6. k \in Invoices BY DocumentsAssumption
<1>7. Returned(k) \in Nat /\ qty[k] \in Nat /\ q \in Nat /\ q >= 1 /\ q + Returned(k) <= qty[k]
  <2>1. Returned(k) \in Nat /\ qty[k] \in Nat BY <1>6, ReturnedNat, ClaimsAre
  <2> QED BY <2>1 DEF Returnable
<1>8. [note |-> c, qty |-> q] # NoReturn BY <1>7 DEF NoReturn
<1>9. ASSUME NEW i \in Invoices PROVE (Returned(i) + Claimed(i) <= Limit(qty[i]))'
  <2> DEFINE old == Claims(i, returning)
             new == Claims(i, returning')
  <2>1. \A o \in Returners \ {r} : new[o] = old[o] BY <1>5 DEF Claims, Claim
  <2>2. old[r] = 0 BY <1>3 DEF Claims
  <2>3. new[r] = IF k = i THEN q ELSE 0 BY <1>5, <1>8 DEF Claims, Claim
  <2>4. qty[i] \in Nat /\ \A o \in Returners : old[o] \in Nat /\ old[o] <= qty[i] BY ClaimsAre
  <2>5. Claimed(i) = SumFunctionOnSet(old, Returners)
        /\ ClaimedNext(i) = SumFunctionOnSet(new, Returners)
    BY DEF Claimed, ClaimedNext
  <2> HIDE DEF old, new
  <2>6. CASE k # i
    <3>1. \A o \in Returners : old[o] = new[o] BY <2>1, <2>2, <2>3, <2>6
    <3>2. ClaimedNext(i) = Claimed(i) BY <2>5, <3>1, SumEqual, DocumentsAssumption
    <3> QED BY <1>2, <1>4, <3>2, FitsUntouched
  <2>7. CASE k = i
    <3> DEFINE others == Returners \ {r}
               n == Cardinality(others)
               rest == SumFunctionOnSet(new, others)
    <3>1. \A o \in Returners : new[o] \in Int BY <1>7, <2>1, <2>3, <2>4, <2>7
    <3>2. SumFunctionOnSet(new, Returners) = new[r] + rest
      BY <3>1, SumRemove, DocumentsAssumption
    <3>3. IsFiniteSet(others) /\ n \in Nat /\ Cardinality(Returners) = n + 1
      <4>1. IsFiniteSet(Returners) BY DocumentsAssumption
      <4>2. Cardinality(Returners) \in Nat BY <4>1, FS_CardinalityType
      <4>3. IsFiniteSet(others) /\ n = Cardinality(Returners) - 1 BY <4>1, FS_RemoveElement
      <4>4. n \in Nat BY <4>3, FS_CardinalityType
      <4> HIDE DEF n
      <4> QED BY <4>2, <4>3, <4>4
    <3>4. \A o \in others : new[o] \in Int /\ new[o] <= qty[i] BY <2>1, <2>4, <3>1
    <3>5. rest <= qty[i] * n
      <4>1. qty[i] \in Int BY <2>4
      <4> HIDE DEF others
      <4> QED BY <3>3, <3>4, <4>1, SumBound
    <3>6. rest \in Int BY <3>3, <3>4, SumInt
    <3>7. new[r] = q /\ Claimed(i)' = q + rest
      BY <2>3, <2>5, <2>7, <3>2 DEF Claimed, ClaimedNext
    <3>8. Limit(qty[i])' = qty[i] * n + qty[i]
      <4>1. Limit(qty[i])' = (n + 1) * qty[i] BY <1>2, <3>3 DEF Limit
      <4>2. \A a, b \in Nat : (a + 1) * b = b * a + b OBVIOUS
      <4> HIDE DEF n
      <4> QED BY <2>4, <3>3, <4>1, <4>2
    <3>9. qty[i] * n \in Int BY <2>4, <3>3
    <3> HIDE DEF n, rest
    <3>10. Returned(i)' + Claimed(i)' <= qty[i] * n + qty[i]
      BY <1>4, <1>7, <2>4, <2>7, <3>5, <3>6, <3>7, <3>9
    <3> QED BY <3>8, <3>10
  <2> QED BY <2>6, <2>7
<1>10. ClaimsFit' BY <1>9 DEF ClaimsFit
<1>11. NoLineNoReturns' BY <1>2 DEF ReturnInv, NoLineNoReturns, Unreferenced
<1>12. ASSUME NEW o \in Returners PROVE ClaimHolds(o)'
  <2>1. CASE o = r
    <3>1. q <= qty[k] BY <1>7
    <3> QED BY <1>2, <1>5, <2>1, <3>1 DEF ClaimHolds
  <2>2. CASE o # r
    <3>1. ClaimHolds(o) BY DEF ReturnInv
    <3> QED BY <1>2, <1>5, <2>2, <3>1 DEF ClaimHolds
  <2> QED BY <2>1, <2>2
<1> QED BY <1>10, <1>11, <1>12 DEF ReturnInv

\* What was claimed is returned.
LEMMA ReturnCommitted ==
  ASSUME TypeInv, ReturnsApart, ReturnInv, NEW r \in Returners, ReturnCommit(r)
  PROVE  ReturnInv'
<1> DEFINE c == returning[r].note
           q == returning[r].qty
           i == InvoiceOf[c]
<1>1. /\ returning[r] # NoReturn
      /\ doc' = [doc EXCEPT ![c] = [status |-> "issued", figure |-> q, jofotara |-> "PENDING"]]
      /\ linked' = linked \cup {c} /\ returning' = [returning EXCEPT ![r] = NoReturn]
      /\ UNCHANGED <<qty, office>>
  BY DEF ReturnCommit
<1>2. /\ c \in Notes /\ i \in Invoices /\ q \in Nat /\ q >= 1
      /\ doc[i] # Absent /\ q <= qty[i]
  BY <1>1, InHandFits
<1>3. c \notin linked BY <1>1 DEF ReturnsApart, TypeInv, TaxTypeOK
<1>4. \A j : Claims(j, returning)[r] = (IF i = j THEN q ELSE 0) BY <1>1 DEF Claims, Claim
<1> HIDE DEF c, q
<1>5. doc \in [Documents -> Headers \cup {Absent}] BY DEF TypeInv, TaxTypeOK
<1>6. c \in Documents /\ \A n \in Notes : n \in Documents BY <1>2 DEF Documents
<1>7. doc'[c].figure = q /\ \A d \in Documents : d # c => doc'[d] = doc[d] BY <1>1, <1>5, <1>6
<1>8. \A j \in Invoices : j \in Documents /\ j # c BY <1>2, DocumentsAssumption DEF Documents
<1>9. \A j : Returned(j)' = Returned(j) + (IF i = j THEN q ELSE 0)
  <2> TAKE j
  <2>1. \A n \in Notes : n # c => doc'[n] = doc[n] BY <1>6, <1>7
  <2> QED BY <1>1, <1>2, <1>3, <1>7, <2>1, ReturnedMore
<1>10. returning'[r] = NoReturn /\ \A o \in Returners : o # r => returning'[o] = returning[o]
  BY <1>1 DEF TypeInv, TaxTypeOK
<1>11. ASSUME NEW j \in Invoices PROVE (Returned(j) + Claimed(j) <= Limit(qty[j]))'
  <2> DEFINE old == Claims(j, returning)
             new == Claims(j, returning')
  <2>1. \A o \in Returners \ {r} : old[o] = new[o] BY <1>10 DEF Claims, Claim
  <2>2. new[r] = 0 BY <1>10 DEF Claims
  <2>3. qty[j] \in Nat /\ Claimed(j) \in Nat /\ \A o \in Returners : old[o] \in Nat BY ClaimsAre
  <2>4. /\ Claimed(j) = SumFunctionOnSet(old, Returners)
        /\ ClaimedNext(j) = SumFunctionOnSet(new, Returners)
        /\ Claimed(j)' = ClaimedNext(j)
    BY DEF Claimed, ClaimedNext
  <2>5. old[r] = IF i = j THEN q ELSE 0 BY <1>4
  <2> HIDE DEF old, new
  <2>6. \A o \in Returners : old[o] \in Int /\ new[o] \in Int BY <2>1, <2>2, <2>3
  <2>7. ClaimedNext(j) = Claimed(j) - old[r] + new[r]
    BY <2>1, <2>4, <2>6, SumChange, DocumentsAssumption
  <2>8. Returned(j) \in Nat BY ReturnedNat
  <2>9. Returned(j) + Claimed(j) <= Limit(qty[j]) BY DEF ReturnInv, ClaimsFit
  <2>10. Limit(qty[j])' = Limit(qty[j]) BY <1>1 DEF Limit
  <2>11. Returned(j)' + Claimed(j)' = Returned(j) + Claimed(j)
    BY <1>2, <1>9, <2>2, <2>3, <2>4, <2>5, <2>7, <2>8
  <2> QED BY <2>9, <2>10, <2>11
<1>12. ClaimsFit' BY <1>11 DEF ClaimsFit
<1>13. NoLineNoReturns'
  <2>1. office.op = "rewrite" => office.inv # i
    BY <1>2 DEF ReturnInv, NoLineNoReturns
  <2>2. \A j \in Invoices : doc'[j] = doc[j] BY <1>7, <1>8
  <2> QED BY <1>1, <1>2, <2>1, <2>2 DEF ReturnInv, NoLineNoReturns, Unreferenced
<1>14. ASSUME NEW o \in Returners PROVE ClaimHolds(o)'
  <2>1. CASE o = r BY <1>10, <2>1 DEF ClaimHolds
  <2>2. CASE o # r /\ returning[o] = NoReturn BY <1>10, <2>2 DEF ClaimHolds
  <2>3. CASE o # r /\ returning[o] # NoReturn
    BY <1>1, <1>7, <1>8, <1>10, <2>3, InHandFits DEF ClaimHolds
  <2> QED BY <2>1, <2>2, <2>3
<1> QED BY <1>12, <1>13, <1>14 DEF ReturnInv

LEMMA ReturnInit == TaxInit => ReturnInv
<1> SUFFICES ASSUME TaxInit PROVE ReturnInv
  OBVIOUS
<1>1. NoLineNoReturns BY DEF TaxInit, NoLineNoReturns, Unreferenced, NoOffice, Documents
<1>2. ASSUME NEW i \in Invoices PROVE Returned(i) + Claimed(i) <= Limit(qty[i])
  <2> DEFINE terms == Terms(i, doc, linked)
  <2>1. \A c \in Notes : terms[c] = 0 BY DEF Terms, TaxInit
  <2> HIDE DEF terms
  <2>2. SumFunctionOnSet(terms, Notes) = 0 BY <2>1, SumZero, DocumentsAssumption
  <2>3. Returned(i) = 0 BY <2>2, ReturnedIs DEF terms
  <2>4. \A r \in Returners : returning[r] = NoReturn BY DEF TaxInit
  <2>5. Claimed(i) = 0 BY <2>4, NoClaims DEF Claimed
  <2>6. qty[i] = 0 BY DEF TaxInit
  <2>7. Limit(qty[i]) \in Nat BY <2>6, LimitIs
  <2> QED BY <2>3, <2>5, <2>7
<1>3. \A r \in Returners : ClaimHolds(r) BY DEF TaxInit, ClaimHolds
<1> QED BY <1>1, <1>2, <1>3 DEF ReturnInv, ClaimsFit

LEMMA ReturnNext ==
  TypesHold /\ ReturnInv /\ [TaxNext]_taxVars => ReturnInv'
<1> SUFFICES ASSUME TypesHold, ReturnInv, [TaxNext]_taxVars PROVE ReturnInv'
  OBVIOUS
<1>1. TypeInv /\ ReturnsApart BY DEF TypesHold
<1>2. ASSUME Kept, UNCHANGED <<qty, linked, office, returning>>,
             \A i \in Invoices : doc[i] = Absent => doc'[i] = Absent
      PROVE  ReturnInv'
  BY <1>1, <1>2, LinesUntouched
<1>3. CASE UNCHANGED taxVars
  <2>1. Kept BY <1>1, <1>3, DocUntouched DEF taxVars
  <2> QED BY <1>2, <1>3, <2>1 DEF taxVars
<1>4. ASSUME NEW i \in Invoices, Create(i) PROVE ReturnInv' BY <1>1, <1>4, ReturnCreate
<1>5. ASSUME NEW i \in Invoices, NEW op \in OfficeOps, OfficeRead(i, op) PROVE ReturnInv'
  <2>1. UNCHANGED <<doc, qty, linked, returning>> /\ office'.op # "rewrite"
    BY <1>5 DEF OfficeRead, OfficeOps
  <2>2. Kept BY <1>1, <2>1, DocUntouched
  <2> QED BY <1>1, <2>1, <2>2, LinesUntouched
<1>6. CASE DeleteLines BY <1>1, <1>6, ReturnDelete
<1>7. CASE OfficeSave
  <2>1. office.inv \in Invoices /\ office.image \in Headers
    BY <1>1, <1>7 DEF TypeInv, TaxTypeOK, OfficeSave, NoOffice
  <2>2. doc \in [Documents -> Headers \cup {Absent}] BY <1>1 DEF TypeInv, TaxTypeOK
  <2>3. doc' = [doc EXCEPT ![office.inv] = office.image] BY <1>7 DEF OfficeSave
  <2>4. office.inv \in Documents /\ office.inv \notin Notes
    BY <2>1, DocumentsAssumption DEF Documents
  <2>5. Kept
    BY <1>1, <2>1, <2>2, <2>3, <2>4, AbsentAssumption
    DEF Kept, TypeInv, NotesKeepQuantities, Documents
  <2> QED BY <1>1, <1>7, <2>5, ReturnSave
<1>8. ASSUME NEW r \in Returners, ReturnCommit(r) PROVE ReturnInv'
  BY <1>1, <1>8, ReturnCommitted
<1>9. ASSUME NEW r \in Returners, NEW c \in Notes, ReturnCheck(r, c) PROVE ReturnInv'
  BY <1>1, <1>9, ReturnChecked
<1>10. ASSUME NEW s \in Submissions, Work(s) PROVE ReturnInv'
  <2>1. sub[s] # NoSub /\ UNCHANGED <<qty, linked, office, returning>>
    BY <1>10 DEF Work, Refuse, MarkSubmitted, StandIn, IstdAccepts, IstdFails, Succeed, Fail, Post, NoSub
  <2>2. UNCHANGED doc \/ \E status \in JoFotaraStatuses : SaveImage(s, status)
    BY <1>10 DEF Work, Refuse, MarkSubmitted, StandIn, IstdAccepts, IstdFails, Succeed, Fail, Post,
                 JoFotaraStatuses
  <2>3. Kept BY <1>1, <2>1, <2>2, DocUntouched, SavedKept
  <2>4. doc[sub[s].of] # Absent BY <1>1, <2>1, InHandType
  <2>5. doc \in [Documents -> Headers \cup {Absent}] BY <1>1 DEF TypeInv, TaxTypeOK
  <2>6. \A i \in Invoices : doc[i] = Absent => doc'[i] = Absent
    BY <2>2, <2>4, <2>5 DEF SaveImage, Documents
  <2> QED BY <1>2, <2>1, <2>3, <2>6
<1>11. ASSUME NEW s \in Submissions, NEW d \in Documents, Submit(s, d) PROVE ReturnInv'
  <2>1. UNCHANGED <<doc, qty, linked, office, returning>> BY <1>11 DEF Submit
  <2>2. Kept BY <1>1, <2>1, DocUntouched
  <2> QED BY <1>2, <2>1, <2>2
<1>12. CASE TaxRestart
  <2>1. /\ UNCHANGED <<doc, qty, linked>> /\ office'.op # "rewrite"
        /\ \A r \in Returners : returning'[r] = NoReturn
    BY <1>12 DEF TaxRestart, NoOffice
  <2>2. ASSUME NEW i \in Invoices PROVE (Returned(i) + Claimed(i) <= Limit(qty[i]))'
    <3>1. Returned(i)' = Returned(i) BY <2>1, ReturnedKept
    <3>2. ClaimedNext(i) = 0 BY <2>1, NoClaims DEF ClaimedNext
    <3>3. Claimed(i)' = 0 /\ Claimed(i) \in Nat BY <1>1, <3>2, ClaimsAre DEF Claimed, ClaimedNext
    <3>4. Returned(i) + Claimed(i) <= Limit(qty[i]) BY DEF ReturnInv, ClaimsFit
    <3>5. Limit(qty[i])' = Limit(qty[i]) BY <2>1 DEF Limit
    <3>6. Limit(qty[i]) \in Nat /\ Returned(i) \in Nat BY <1>1, LimitIs, ClaimsAre, ReturnedNat
    <3> QED BY <3>1, <3>3, <3>4, <3>5, <3>6
  <2>3. ClaimsFit' BY <2>2 DEF ClaimsFit
  <2> QED BY <2>1, <2>3 DEF ReturnInv, NoLineNoReturns, Unreferenced, ClaimHolds
<1>13. CASE TaxNext
  BY <1>4, <1>5, <1>6, <1>7, <1>8, <1>9, <1>10, <1>11, <1>12, <1>13 DEF TaxNext
<1> QED BY <1>3, <1>13

\* Credit notes return no more of a line than each of the requests that may overlap
\* could have found left of it: edits, rejections, submissions and restarts may come
\* between the check and the commit (CreditNotesService.create,
\* invoice_line_returnable_qty).  With one request at a time, no more than was sold.
THEOREM ReturnsFitHolds == TaxSpec => []ReturnsFit
<1>1. TaxInit => TypesHold /\ ReturnInv BY TaxTypesInit, ReturnInit
<1>2. TypesHold /\ ReturnInv /\ [TaxNext]_taxVars => TypesHold' /\ ReturnInv'
  BY TaxTypesNext, ReturnNext
<1>3. TypesHold /\ ReturnInv => ReturnsFit
  <2> SUFFICES ASSUME TypesHold, ReturnInv, NEW i \in Invoices PROVE Returned(i) <= Limit(qty[i])
    BY DEF ReturnsFit, Limit
  <2>1. TypeInv BY DEF TypesHold
  <2>2. Returned(i) \in Nat /\ Claimed(i) \in Nat /\ Limit(qty[i]) \in Nat
    BY <2>1, ReturnedNat, ClaimsAre, LimitIs
  <2>3. Returned(i) + Claimed(i) <= Limit(qty[i]) BY DEF ReturnInv, ClaimsFit
  <2> QED BY <2>2, <2>3
<1> QED BY <1>1, <1>2, <1>3, PTL DEF TaxSpec
-----------------------------------------------------------------------------
(* Approvals.  A decision still to be saved, executed or not, is one of    *)
(* those that may be in hand at a time; each took its request pending.     *)

\* The decisions in hand for a request that have made no voucher, or not yet.
IsOpen(r, a) == r.of = a /\ r.at \in {"approve", "refused", "reject", "cancel"}
IsExecuted(r, a) == r.of = a /\ r.at = "executed"
Open(a) == {v \in Reviews : IsOpen(review[v], a)}

Refused(a) == request[a] \in {"rejected", "cancelled"}
One(p) == IF p THEN 1 ELSE 0

DecisionsFit(a) ==
  /\ request[a] = None => vouchers[a] = 0
  /\ request[a] = "approved" => vouchers[a] >= 1
  /\ a \notin cutOff =>
       /\ request[a] = "pending" => vouchers[a] = Cardinality(A!Executed(a))
       /\ request[a] \in {"approved", "rejected", "cancelled"} =>
            vouchers[a] + Cardinality(Open(a)) + One(Refused(a)) <= Cardinality(Reviews)

DecisionInv ==
  /\ \A v \in Reviews : review[v] # A!NoReview =>
       /\ request[review[v].of] # None
       /\ review[v].at = "executed" => vouchers[review[v].of] >= 1
  /\ \A a \in SaleRequests : DecisionsFit(a)

\* A decision that is in hand.
LEMMA InHandIs ==
  ASSUME A!TypeOK, NEW v \in Reviews
  PROVE  /\ review[v] = A!NoReview <=> review[v].at = "idle"
         /\ review[v] # A!NoReview =>
              /\ review[v].of \in SaleRequests
              /\ review[v] = [at |-> review[v].at, of |-> review[v].of]
              /\ review[v].at \in A!Decisions \cup {"executed", "refused"}
BY DEF A!TypeOK, A!NoReview, A!Decisions

LEMMA ReviewsFinite ==
  /\ IsFiniteSet(Reviews) /\ Cardinality(Reviews) \in Nat /\ Cardinality(Reviews) >= 1
<1>0. A!ApprovalsAssumption BY BackOfficeAssumption
<1>3. A!IsFiniteSet(Reviews) /\ Reviews # {} BY <1>0 DEF A!ApprovalsAssumption
<1>1. IsFiniteSet(Reviews) /\ Reviews # {} BY <1>3 DEF A!IsFiniteSet, IsFiniteSet
<1>2. Cardinality(Reviews) \in Nat /\ Cardinality(Reviews) # 0
  BY <1>1, FS_CardinalityType, FS_EmptySet
<1> QED BY <1>1, <1>2

LEMMA StatusesAre == None \notin A!Statuses
BY BackOfficeAssumption DEF A!ApprovalsAssumption

\* One element comes or goes.
LEMMA OneMember ==
  ASSUME NEW S, IsFiniteSet(S), NEW v \in S, NEW T \in SUBSET S, NEW U \in SUBSET S,
         U \ {v} = T \ {v}
  PROVE  /\ Cardinality(T) \in Nat /\ Cardinality(U) \in Nat
         /\ Cardinality(U) = Cardinality(T) - (IF v \in T THEN 1 ELSE 0) + (IF v \in U THEN 1 ELSE 0)
<1>1. IsFiniteSet(T) /\ IsFiniteSet(U) BY FS_Subset
<1>2. Cardinality(T) \in Nat /\ Cardinality(U) \in Nat BY <1>1, FS_CardinalityType
<1>3. CASE v \in T /\ v \in U
  <2>1. T = U BY <1>3
  <2> QED BY <1>2, <1>3, <2>1
<1>4. CASE v \notin T /\ v \notin U
  <2>1. T = U BY <1>4
  <2> QED BY <1>2, <1>4, <2>1
<1>5. CASE v \in T /\ v \notin U
  <2>1. T = U \cup {v} BY <1>5
  <2>2. Cardinality(T) = Cardinality(U) + 1 BY <1>1, <1>5, <2>1, FS_AddElement
  <2> QED BY <1>2, <1>5, <2>2
<1>6. CASE v \notin T /\ v \in U
  <2>1. U = T \cup {v} BY <1>6
  <2>2. Cardinality(U) = Cardinality(T) + 1 BY <1>1, <1>6, <2>1, FS_AddElement
  <2> QED BY <1>2, <1>6, <2>2
<1> QED BY <1>3, <1>4, <1>5, <1>6

\* The decisions in hand for one request are some of those that may be.
LEMMA HandsFit ==
  ASSUME NEW a
  PROVE  /\ Cardinality(A!Executed(a)) \in Nat /\ Cardinality(Open(a)) \in Nat
         /\ Cardinality(A!Executed(a)) + Cardinality(Open(a)) <= Cardinality(Reviews)
<1> DEFINE E == A!Executed(a)
           O == Open(a)
<1>1. E \subseteq Reviews /\ O \subseteq Reviews /\ E \cap O = {}
  BY DEF A!Executed, Open, IsOpen
<1> HIDE DEF E, O
<1>2. IsFiniteSet(E) /\ IsFiniteSet(O) BY <1>1, ReviewsFinite, FS_Subset
<1>3. Cardinality(E \cup O) = Cardinality(E) + Cardinality(O) - Cardinality(E \cap O)
  BY <1>2, FS_Union
<1>4. Cardinality(E \cap O) = 0 BY <1>1, FS_EmptySet
<1>5. Cardinality(E) \in Nat /\ Cardinality(O) \in Nat BY <1>2, FS_CardinalityType
<1>6. E \cup O \subseteq Reviews BY <1>1
<1>7. Cardinality(E \cup O) <= Cardinality(Reviews) BY <1>6, ReviewsFinite, FS_Subset
<1>8. Cardinality(E) + Cardinality(O) <= Cardinality(Reviews) BY <1>3, <1>4, <1>5, <1>7
<1> QED BY <1>5, <1>8 DEF E, O

\* One decision moves on.
LEMMA HandsChange ==
  ASSUME A!TypeOK, NEW v \in Reviews, NEW r, review' = [review EXCEPT ![v] = r], NEW a
  PROVE  /\ Cardinality(A!Executed(a))' = Cardinality(A!Executed(a))
                - (IF IsExecuted(review[v], a) THEN 1 ELSE 0) + (IF IsExecuted(r, a) THEN 1 ELSE 0)
         /\ Cardinality(Open(a))' = Cardinality(Open(a))
                - (IF IsOpen(review[v], a) THEN 1 ELSE 0) + (IF IsOpen(r, a) THEN 1 ELSE 0)
<1>1. \A w \in Reviews : review'[w] = IF w = v THEN r ELSE review[w] BY DEF A!TypeOK
<1>2. /\ A!Executed(a) \in SUBSET Reviews /\ A!Executed(a)' \in SUBSET Reviews
      /\ Open(a) \in SUBSET Reviews /\ Open(a)' \in SUBSET Reviews
  BY DEF A!Executed, Open
<1>3. /\ A!Executed(a)' \ {v} = A!Executed(a) \ {v}
      /\ v \in A!Executed(a) <=> IsExecuted(review[v], a)
      /\ v \in A!Executed(a)' <=> IsExecuted(r, a)
  BY <1>1 DEF A!Executed, IsExecuted
<1>4. /\ Open(a)' \ {v} = Open(a) \ {v}
      /\ v \in Open(a) <=> IsOpen(review[v], a)
      /\ v \in Open(a)' <=> IsOpen(r, a)
  BY <1>1 DEF Open, IsOpen
<1>5. Cardinality(A!Executed(a)') = Cardinality(A!Executed(a))
        - (IF v \in A!Executed(a) THEN 1 ELSE 0) + (IF v \in A!Executed(a)' THEN 1 ELSE 0)
  BY <1>2, <1>3, ReviewsFinite, OneMember
<1>6. Cardinality(Open(a)') = Cardinality(Open(a))
        - (IF v \in Open(a) THEN 1 ELSE 0) + (IF v \in Open(a)' THEN 1 ELSE 0)
  BY <1>2, <1>4, ReviewsFinite, OneMember
<1> QED BY <1>3, <1>4, <1>5, <1>6

LEMMA ApprovalsInit == A!Init => A!TypeOK /\ DecisionInv
<1> SUFFICES ASSUME A!Init PROVE A!TypeOK /\ DecisionInv
  OBVIOUS
<1>1. /\ request = [a \in SaleRequests |-> None] /\ review = [v \in Reviews |-> A!NoReview]
      /\ vouchers = [a \in SaleRequests |-> 0] /\ cutOff = {}
  BY DEF A!Init
<1>2. A!TypeOK BY <1>1 DEF A!TypeOK
<1>3. \A v \in Reviews : review[v] = A!NoReview BY <1>1
<1>4. \A a \in SaleRequests : vouchers[a] = 0 /\ request[a] = None /\ None \notin A!Statuses
  BY <1>1, StatusesAre
<1> QED BY <1>2, <1>3, <1>4 DEF DecisionInv, DecisionsFit, A!Statuses

LEMMA ApprovalsType ==
  ASSUME A!TypeOK, A!Request \/ A!Restart
  PROVE  A!TypeOK'
<1>1. /\ request \in [SaleRequests -> A!Statuses \cup {None}]
      /\ review \in [Reviews -> [at : A!Decisions \cup {"executed", "refused"},
                                 of : SaleRequests] \cup {A!NoReview}]
      /\ vouchers \in [SaleRequests -> Nat] /\ cutOff \subseteq SaleRequests
  BY DEF A!TypeOK
<1>2. ASSUME NEW a \in SaleRequests, A!File(a) PROVE A!TypeOK'
  BY <1>1, <1>2 DEF A!File, A!TypeOK, A!Statuses
<1>3. ASSUME NEW v \in Reviews, NEW a \in SaleRequests, NEW d \in A!Decisions, A!Read(v, a, d)
      PROVE A!TypeOK'
  BY <1>1, <1>3 DEF A!Read, A!TypeOK
<1>4. ASSUME NEW v \in Reviews, A!Execute(v) PROVE A!TypeOK'
  <2>1. review[v].at = "approve" BY <1>4 DEF A!Execute
  <2>2. review[v].of \in SaleRequests /\ review[v] # A!NoReview
    BY <2>1, InHandIs
  <2>3. review' \in [Reviews -> [at : A!Decisions \cup {"executed", "refused"},
                                 of : SaleRequests] \cup {A!NoReview}]
    BY <1>1, <1>4, <2>2 DEF A!Execute, A!Goto
  <2>4. vouchers' \in [SaleRequests -> Nat] BY <1>1, <1>4, <2>2 DEF A!Execute
  <2> QED BY <1>1, <1>4, <2>3, <2>4 DEF A!Execute, A!TypeOK
<1>5. ASSUME NEW v \in Reviews, A!LoseVoucher(v) PROVE A!TypeOK'
  <2>1. review[v].at = "executed" BY <1>5 DEF A!LoseVoucher
  <2>2. review[v].of \in SaleRequests /\ review[v] # A!NoReview
    BY <2>1, InHandIs
  <2>3. review' \in [Reviews -> [at : A!Decisions \cup {"executed", "refused"},
                                 of : SaleRequests] \cup {A!NoReview}]
    BY <1>1, <1>5, <2>2 DEF A!LoseVoucher, A!Goto
  <2> QED BY <1>1, <1>5, <2>2, <2>3 DEF A!LoseVoucher, A!TypeOK
<1>6. ASSUME NEW v \in Reviews, A!Decide(v) PROVE A!TypeOK'
  <2>1. A!Decision(review[v].at) \in A!Statuses BY <1>6 DEF A!Decide, A!Decision, A!Statuses
  <2> QED BY <1>1, <1>6, <2>1 DEF A!Decide, A!TypeOK
<1>7. ASSUME A!Restart PROVE A!TypeOK'
  <2>1. \A v \in Reviews : review[v].at = "executed" => review[v].of \in SaleRequests
    BY InHandIs
  <2> QED BY <1>1, <1>7, <2>1 DEF A!Restart, A!TypeOK
<1> QED BY <1>2, <1>3, <1>4, <1>5, <1>6, <1>7 DEF A!Request

\* A decision goes on, without a word to the request.
LEMMA DecisionMoves ==
  ASSUME A!TypeOK, A!TypeOK', DecisionInv, UNCHANGED <<request, cutOff>>,
         NEW v \in Reviews, NEW r, review' = [review EXCEPT ![v] = r],
         NEW b \in SaleRequests, r.of = b, request[b] # None,
         r.at = "executed" => vouchers'[b] >= 1,
         \A a \in SaleRequests : vouchers'[a] >= vouchers[a] /\ (a # b => vouchers'[a] = vouchers[a]),
         DecisionsFit(b)',
         review[v] # A!NoReview => review[v].of = b
  PROVE  DecisionInv'
<1>1. \A w \in Reviews : review'[w] = IF w = v THEN r ELSE review[w] BY DEF A!TypeOK
<1>2. ASSUME NEW w \in Reviews, review'[w] # A!NoReview
      PROVE  /\ request'[review'[w].of] # None
             /\ review'[w].at = "executed" => vouchers'[review'[w].of] >= 1
  <2>1. CASE w = v BY <1>1, <2>1
  <2>2. CASE w # v
    <3>1. review'[w] = review[w] /\ review[w].of \in SaleRequests BY <1>1, <1>2, <2>2, InHandIs
    <3>2. vouchers[review[w].of] \in Nat /\ vouchers'[review[w].of] \in Nat BY <3>1 DEF A!TypeOK
    <3> QED BY <1>2, <3>1, <3>2 DEF DecisionInv
  <2> QED BY <2>1, <2>2
<1>3. ASSUME NEW a \in SaleRequests PROVE DecisionsFit(a)'
  <2>1. CASE a = b BY <2>1
  <2>2. CASE a # b
    <3>1. vouchers'[a] = vouchers[a] /\ DecisionsFit(a) BY <2>2 DEF DecisionInv
    <3>2. /\ ~IsExecuted(r, a) /\ ~IsOpen(r, a)
          /\ ~IsExecuted(review[v], a) /\ ~IsOpen(review[v], a)
      BY <2>2, InHandIs DEF IsExecuted, IsOpen
    <3>4. /\ Cardinality(A!Executed(a))' = Cardinality(A!Executed(a))
                - (IF IsExecuted(review[v], a) THEN 1 ELSE 0) + (IF IsExecuted(r, a) THEN 1 ELSE 0)
          /\ Cardinality(Open(a))' = Cardinality(Open(a))
                - (IF IsOpen(review[v], a) THEN 1 ELSE 0) + (IF IsOpen(r, a) THEN 1 ELSE 0)
      BY ONLY A!TypeOK, v \in Reviews, review' = [review EXCEPT ![v] = r], HandsChange
    <3>3. /\ Cardinality(A!Executed(a))' = Cardinality(A!Executed(a))
          /\ Cardinality(Open(a))' = Cardinality(Open(a))
      BY <3>2, <3>4, HandsFit
    <3> QED BY <3>1, <3>3 DEF DecisionsFit, Refused
  <2> QED BY <2>1, <2>2
<1> QED BY <1>2, <1>3 DEF DecisionInv

\* What a step of an approval does to what is known of the decisions in hand.
LEMMA DecisionStep ==
  ASSUME A!TypeOK, A!TypeOK', DecisionInv, A!Request \/ A!Restart
  PROVE  DecisionInv'
<1>1. /\ request \in [SaleRequests -> A!Statuses \cup {None}]
      /\ review = [v \in Reviews |-> review[v]]
      /\ vouchers \in [SaleRequests -> Nat] /\ cutOff \subseteq SaleRequests
  BY DEF A!TypeOK
<1>2. None \notin {"pending", "approved", "rejected", "cancelled"} BY StatusesAre DEF A!Statuses
<1>3. ASSUME NEW a \in SaleRequests, A!File(a) PROVE DecisionInv'
  <2>1. /\ request[a] = None /\ request' = [request EXCEPT ![a] = "pending"]
        /\ UNCHANGED <<review, vouchers, cutOff>>
    BY <1>3 DEF A!File
  <2>2. /\ request'[a] = "pending"
        /\ \A b \in SaleRequests : b # a => request'[b] = request[b]
    BY <1>1, <2>1
  <2>3. \A v \in Reviews : review[v] # A!NoReview =>
          /\ request'[review[v].of] # None
          /\ review[v].at = "executed" => vouchers[review[v].of] >= 1
    BY <1>2, <2>1, <2>2, InHandIs DEF DecisionInv
  <2>4. DecisionsFit(a)'
    <3>1. vouchers[a] = 0 BY <2>1 DEF DecisionInv, DecisionsFit
    <3>2. \A v \in Reviews : review[v].at = "executed" => review[v].of # a
      BY <2>1, InHandIs DEF DecisionInv
    <3>3. A!Executed(a)' = {} BY <2>1, <3>2 DEF A!Executed
    <3>4. Cardinality(A!Executed(a))' = 0 BY <3>3, FS_EmptySet
    <3> QED BY <1>2, <2>1, <2>2, <3>1, <3>4 DEF DecisionsFit
  <2>5. ASSUME NEW b \in SaleRequests, b # a PROVE DecisionsFit(b)'
    <3>1. Cardinality(A!Executed(b))' = Cardinality(A!Executed(b)) BY <2>1 DEF A!Executed
    <3>2. Cardinality(Open(b))' = Cardinality(Open(b)) BY <2>1 DEF Open
    <3>3. DecisionsFit(b) BY DEF DecisionInv
    <3> QED BY <2>1, <2>2, <2>5, <3>1, <3>2, <3>3 DEF DecisionsFit, Refused
  <2> QED BY <2>1, <2>3, <2>4, <2>5 DEF DecisionInv
<1>4. ASSUME NEW v \in Reviews, NEW a \in SaleRequests, NEW d \in A!Decisions, A!Read(v, a, d)
      PROVE  DecisionInv'
  <2> DEFINE r == [at |-> d, of |-> a]
  <2>1. /\ request[a] = "pending" /\ review[v] = A!NoReview
        /\ review' = [review EXCEPT ![v] = r]
        /\ UNCHANGED <<request, vouchers, cutOff>>
    BY <1>4 DEF A!Read
  <2>2. r.of = a /\ r.at \in {"approve", "reject", "cancel"} BY DEF A!Decisions
  <2> HIDE DEF r
  <2>3. /\ ~IsExecuted(review[v], a) /\ ~IsExecuted(r, a)
    BY <2>1, <2>2, InHandIs DEF IsExecuted
  <2>10. review' = [review EXCEPT ![v] = r] BY <2>1
  <2>11. /\ Cardinality(A!Executed(a))' = Cardinality(A!Executed(a))
              - (IF IsExecuted(review[v], a) THEN 1 ELSE 0) + (IF IsExecuted(r, a) THEN 1 ELSE 0)
        /\ Cardinality(Open(a))' = Cardinality(Open(a))
              - (IF IsOpen(review[v], a) THEN 1 ELSE 0) + (IF IsOpen(r, a) THEN 1 ELSE 0)
    BY ONLY A!TypeOK, v \in Reviews, <2>10, HandsChange
  <2>4. Cardinality(A!Executed(a))' = Cardinality(A!Executed(a)) BY <2>3, <2>11, HandsFit
  <2>5. DecisionsFit(a) BY DEF DecisionInv
  <2>6. DecisionsFit(a)' BY <1>2, <2>1, <2>4, <2>5 DEF DecisionsFit
  <2>7. \A b \in SaleRequests : vouchers'[b] = vouchers[b] /\ vouchers[b] \in Nat BY <1>1, <2>1
  <2>8. \A b \in SaleRequests : vouchers'[b] >= vouchers[b] BY <2>7
  <2>9. request[a] # None BY <1>2, <2>1
  <2> QED BY <2>1, <2>2, <2>6, <2>7, <2>8, <2>9, DecisionMoves
<1>5. ASSUME NEW v \in Reviews, A!Execute(v) PROVE DecisionInv'
  <2>0. PICK b : b = review[v].of OBVIOUS
  <2>1. PICK next \in {"executed", "refused"} :
          /\ review' = [review EXCEPT ![v].at = next]
          /\ next = "refused" => UNCHANGED vouchers
          /\ next = "executed" => vouchers' = [vouchers EXCEPT ![b] = @ + 1]
          /\ UNCHANGED <<request, cutOff>>
          /\ review[v].at = "approve"
    BY <1>5, <2>0 DEF A!Execute, A!Goto
  <2>2. /\ review[v] # A!NoReview /\ b \in SaleRequests
        /\ review[v] = [at |-> "approve", of |-> b]
    BY <2>0, <2>1, InHandIs
  <2> DEFINE r == [at |-> next, of |-> b]
  <2>3. review' = [review EXCEPT ![v] = r]
    <3>1. [review[v] EXCEPT !.at = r.at] = r BY <2>2
    <3> QED BY <2>1, <3>1
  <2>4. r.of = b /\ r.at = next OBVIOUS
  <2> HIDE DEF r
  <2>5. /\ vouchers[b] \in Nat
        /\ \A a \in SaleRequests : a # b => vouchers'[a] = vouchers[a]
        /\ vouchers'[b] = vouchers[b] + One(next = "executed")
    BY <1>1, <2>1, <2>2 DEF One
  <2>6. /\ Cardinality(A!Executed(b))' = Cardinality(A!Executed(b)) + One(next = "executed")
        /\ Cardinality(Open(b))' = Cardinality(Open(b)) - 1 + One(next = "refused")
    <3>1. ~IsExecuted(review[v], b) /\ IsOpen(review[v], b) BY <2>2 DEF IsExecuted, IsOpen
    <3>2. IsExecuted(r, b) <=> next = "executed" BY <2>4 DEF IsExecuted
    <3>3. IsOpen(r, b) <=> next = "refused" BY <2>1, <2>4 DEF IsOpen
    <3>4. /\ Cardinality(A!Executed(b))' = Cardinality(A!Executed(b))
                - (IF IsExecuted(review[v], b) THEN 1 ELSE 0) + (IF IsExecuted(r, b) THEN 1 ELSE 0)
          /\ Cardinality(Open(b))' = Cardinality(Open(b))
                - (IF IsOpen(review[v], b) THEN 1 ELSE 0) + (IF IsOpen(r, b) THEN 1 ELSE 0)
      BY ONLY A!TypeOK, v \in Reviews, <2>3, HandsChange
    <3> QED BY <3>1, <3>2, <3>3, <3>4, HandsFit DEF One
  <2>7. DecisionsFit(b) BY <2>2 DEF DecisionInv
  <2>8. DecisionsFit(b)'
    <3>1. One(next = "executed") + One(next = "refused") = 1
          /\ One(next = "executed") \in Nat /\ One(next = "refused") \in Nat
      BY <2>1 DEF One
    <3>2. request[b] # None BY <2>0, <2>2 DEF DecisionInv
    <3>3. One(Refused(b)) \in Nat /\ One(Refused(b))' = One(Refused(b)) BY <2>1 DEF One, Refused
    <3>4. Cardinality(A!Executed(b)) \in Nat /\ Cardinality(Open(b)) \in Nat
          /\ Cardinality(Reviews) \in Nat
      BY HandsFit, ReviewsFinite
    <3> QED BY <2>1, <2>5, <2>6, <2>7, <3>1, <3>2, <3>3, <3>4 DEF DecisionsFit
  <2>9. \A a \in SaleRequests : vouchers'[a] >= vouchers[a]
    BY <1>1, <2>5 DEF One
  <2>10. r.at = "executed" => vouchers'[b] >= 1 BY <2>4, <2>5 DEF One
  <2>11. request[b] # None BY <2>0, <2>2 DEF DecisionInv
  <2>12. \A a \in SaleRequests :
           vouchers'[a] >= vouchers[a] /\ (a # b => vouchers'[a] = vouchers[a])
    BY <2>5, <2>9
  <2>13. UNCHANGED <<request, cutOff>> BY <2>1
  <2> QED
    BY ONLY A!TypeOK, A!TypeOK', DecisionInv, v \in Reviews, <2>0, <2>2, <2>3, <2>4, <2>8, <2>10,
            <2>11, <2>12, <2>13, DecisionMoves
<1>6. ASSUME NEW v \in Reviews, A!LoseVoucher(v) PROVE DecisionInv'
  <2>0. PICK b : b = review[v].of OBVIOUS
  <2>1. /\ review' = [review EXCEPT ![v].at = "refused"] /\ cutOff' = cutOff \cup {b}
        /\ UNCHANGED <<request, vouchers>> /\ review[v].at = "executed"
    BY <1>6, <2>0 DEF A!LoseVoucher, A!Goto
  <2>2. /\ review[v] # A!NoReview /\ b \in SaleRequests
        /\ review[v] = [at |-> "executed", of |-> b]
    BY <2>0, <2>1, InHandIs
  <2> DEFINE r == [at |-> "refused", of |-> b]
  <2>3. review' = [review EXCEPT ![v] = r]
    <3>1. [review[v] EXCEPT !.at = r.at] = r BY <2>2
    <3> QED BY <2>1, <3>1
  <2>4. r.of = b /\ r.at = "refused" OBVIOUS
  <2> HIDE DEF r
  <2>5. \A w \in Reviews : review'[w] = IF w = v THEN r ELSE review[w] BY <1>1, <2>3
  <2>6. ASSUME NEW w \in Reviews, review'[w] # A!NoReview
        PROVE  /\ request'[review'[w].of] # None
               /\ review'[w].at = "executed" => vouchers'[review'[w].of] >= 1
    BY <2>0, <2>1, <2>2, <2>4, <2>5, <2>6 DEF DecisionInv
  <2>7. ASSUME NEW a \in SaleRequests PROVE DecisionsFit(a)'
    <3>1. DecisionsFit(a) BY DEF DecisionInv
    <3>2. CASE a = b BY <2>1, <3>1, <3>2 DEF DecisionsFit
    <3>3. CASE a # b
      <4>1. /\ ~IsExecuted(r, a) /\ ~IsOpen(r, a)
            /\ ~IsExecuted(review[v], a) /\ ~IsOpen(review[v], a)
        BY <2>2, <2>4, <3>3 DEF IsExecuted, IsOpen
      <4>3. /\ Cardinality(A!Executed(a))' = Cardinality(A!Executed(a))
                  - (IF IsExecuted(review[v], a) THEN 1 ELSE 0) + (IF IsExecuted(r, a) THEN 1 ELSE 0)
            /\ Cardinality(Open(a))' = Cardinality(Open(a))
                  - (IF IsOpen(review[v], a) THEN 1 ELSE 0) + (IF IsOpen(r, a) THEN 1 ELSE 0)
        BY ONLY A!TypeOK, v \in Reviews, <2>3, HandsChange
      <4>2. /\ Cardinality(A!Executed(a))' = Cardinality(A!Executed(a))
            /\ Cardinality(Open(a))' = Cardinality(Open(a))
        BY <4>1, <4>3, HandsFit
      <4> QED BY <2>1, <3>1, <3>3, <4>2 DEF DecisionsFit, Refused
    <3> QED BY <3>2, <3>3
  <2> QED BY <2>6, <2>7 DEF DecisionInv
<1>7. ASSUME NEW v \in Reviews, A!Decide(v) PROVE DecisionInv'
  <2>0. PICK b, place : b = review[v].of /\ place = review[v].at OBVIOUS
  <2>1. /\ request' = [request EXCEPT ![b] = A!Decision(place)]
        /\ review' = [review EXCEPT ![v] = A!NoReview]
        /\ UNCHANGED <<vouchers, cutOff>>
        /\ place \in {"executed", "refused", "reject", "cancel"}
    BY <1>7, <2>0 DEF A!Decide
  <2>2. /\ review[v] # A!NoReview /\ b \in SaleRequests
        /\ review[v] = [at |-> place, of |-> b]
    BY <2>0, <2>1, InHandIs
  <2>3. PICK decision : decision = A!Decision(place) OBVIOUS
  <2>4. /\ decision \in {"approved", "rejected", "cancelled"}
        /\ decision = "approved" <=> place = "executed"
    BY <2>1, <2>3 DEF A!Decision
  <2>5. /\ request'[b] = decision
        /\ \A a \in SaleRequests : a # b => request'[a] = request[a]
    BY <1>1, <2>1, <2>2, <2>3
  <2>6. \A w \in Reviews : review'[w] = IF w = v THEN A!NoReview ELSE review[w] BY <1>1, <2>1
  <2>7. ASSUME NEW w \in Reviews, review'[w] # A!NoReview
        PROVE  /\ request'[review'[w].of] # None
               /\ review'[w].at = "executed" => vouchers'[review'[w].of] >= 1
    <3>1. review'[w] = review[w] /\ review[w].of \in SaleRequests BY <2>6, <2>7, InHandIs
    <3>2. request'[review[w].of] # None
      BY <1>2, <2>4, <2>5, <2>7, <3>1 DEF DecisionInv
    <3> QED BY <2>1, <2>7, <3>1, <3>2 DEF DecisionInv
  <2>11. review' = [review EXCEPT ![v] = A!NoReview] BY <2>1
  <2>8. /\ Cardinality(A!Executed(b))' = Cardinality(A!Executed(b)) - One(place = "executed")
        /\ Cardinality(Open(b))' = Cardinality(Open(b)) - One(place # "executed")
    <3>1. /\ IsExecuted(review[v], b) <=> place = "executed"
          /\ IsOpen(review[v], b) <=> place # "executed"
          /\ ~IsExecuted(A!NoReview, b) /\ ~IsOpen(A!NoReview, b)
      BY <2>1, <2>2 DEF IsExecuted, IsOpen, A!NoReview
    <3>2. /\ Cardinality(A!Executed(b))' = Cardinality(A!Executed(b))
                - (IF IsExecuted(review[v], b) THEN 1 ELSE 0) + (IF IsExecuted(A!NoReview, b) THEN 1 ELSE 0)
          /\ Cardinality(Open(b))' = Cardinality(Open(b))
                - (IF IsOpen(review[v], b) THEN 1 ELSE 0) + (IF IsOpen(A!NoReview, b) THEN 1 ELSE 0)
      BY ONLY A!TypeOK, v \in Reviews, <2>11, HandsChange
    <3> QED BY <3>1, <3>2, HandsFit DEF One
  <2>9. DecisionsFit(b)'
    <3>1. DecisionsFit(b) BY <2>2 DEF DecisionInv
    <3>2. /\ vouchers[b] \in Nat /\ vouchers'[b] = vouchers[b]
          /\ place = "executed" => vouchers[b] >= 1
      BY <1>1, <2>0, <2>1, <2>2 DEF DecisionInv
    <3>3. request[b] \in {"pending", "approved", "rejected", "cancelled"}
      BY <1>1, <2>0, <2>2 DEF DecisionInv, A!Statuses
    <3>4. One(Refused(b))' = One(place # "executed") BY <2>4, <2>5 DEF One, Refused
    <3>5. /\ One(Refused(b)) \in Nat
          /\ One(place # "executed") = IF place = "executed" THEN 0 ELSE 1
      BY DEF One
    <3>6. /\ Cardinality(A!Executed(b)) \in Nat /\ Cardinality(Open(b)) \in Nat
          /\ Cardinality(Reviews) \in Nat
          /\ Cardinality(A!Executed(b)) + Cardinality(Open(b)) <= Cardinality(Reviews)
      BY HandsFit, ReviewsFinite
    <3>7. b \notin cutOff => vouchers[b] + Cardinality(Open(b)) <= Cardinality(Reviews)
      BY <3>1, <3>2, <3>3, <3>5, <3>6 DEF DecisionsFit
    <3>8. b \notin cutOff' =>
            vouchers'[b] + Cardinality(Open(b))' + One(Refused(b))' <= Cardinality(Reviews)
      BY <2>1, <2>8, <3>2, <3>4, <3>5, <3>6, <3>7
    <3> QED BY <1>2, <2>4, <2>5, <3>2, <3>8 DEF DecisionsFit
  <2>10. ASSUME NEW a \in SaleRequests, a # b PROVE DecisionsFit(a)'
    <3>1. /\ ~IsExecuted(A!NoReview, a) /\ ~IsOpen(A!NoReview, a)
          /\ ~IsExecuted(review[v], a) /\ ~IsOpen(review[v], a)
      BY <2>2, <2>10 DEF IsExecuted, IsOpen, A!NoReview
    <3>4. /\ Cardinality(A!Executed(a))' = Cardinality(A!Executed(a))
                - (IF IsExecuted(review[v], a) THEN 1 ELSE 0) + (IF IsExecuted(A!NoReview, a) THEN 1 ELSE 0)
          /\ Cardinality(Open(a))' = Cardinality(Open(a))
                - (IF IsOpen(review[v], a) THEN 1 ELSE 0) + (IF IsOpen(A!NoReview, a) THEN 1 ELSE 0)
      BY ONLY A!TypeOK, v \in Reviews, <2>11, HandsChange
    <3>2. /\ Cardinality(A!Executed(a))' = Cardinality(A!Executed(a))
          /\ Cardinality(Open(a))' = Cardinality(Open(a))
      BY <3>1, <3>4, HandsFit
    <3>3. DecisionsFit(a) BY DEF DecisionInv
    <3> QED BY <2>1, <2>5, <2>10, <3>2, <3>3 DEF DecisionsFit, Refused
  <2> QED BY <2>7, <2>9, <2>10 DEF DecisionInv
<1>8. ASSUME A!Restart PROVE DecisionInv'
  <2>1. /\ cutOff' = cutOff \cup {review[v].of : v \in {x \in Reviews : review[x].at = "executed"}}
        /\ review' = [v \in Reviews |-> A!NoReview]
        /\ UNCHANGED <<request, vouchers>>
    BY <1>8 DEF A!Restart
  <2>2. ASSUME NEW a \in SaleRequests PROVE DecisionsFit(a)'
    <3>1. A!Executed(a)' = {} /\ Open(a)' = {}
      BY <2>1 DEF A!Executed, Open, IsOpen, A!NoReview
    <3>2. Cardinality(A!Executed(a))' = 0 /\ Cardinality(Open(a))' = 0 BY <3>1, FS_EmptySet
    <3>3. a \notin cutOff' => A!Executed(a) = {} BY <2>1 DEF A!Executed
    <3>4. a \notin cutOff' => Cardinality(A!Executed(a)) = 0 BY <3>3, FS_EmptySet
    <3>5. /\ Cardinality(Open(a)) \in Nat /\ Cardinality(Reviews) \in Nat /\ vouchers[a] \in Nat
          /\ One(Refused(a)) \in Nat /\ One(Refused(a))' = One(Refused(a))
      BY <1>1, <2>1, HandsFit, ReviewsFinite DEF One, Refused
    <3>6. DecisionsFit(a) BY DEF DecisionInv
    <3>7. a \notin cutOff' => a \notin cutOff BY <2>1
    <3> QED BY <2>1, <3>2, <3>4, <3>5, <3>6, <3>7 DEF DecisionsFit
  <2> QED BY <2>1, <2>2 DEF DecisionInv
<1> QED BY <1>3, <1>4, <1>5, <1>6, <1>7, <1>8 DEF A!Request

\* What the invariant says of a request, in the words of the property.
LEMMA DecisionsImply ==
  ASSUME A!TypeOK, DecisionInv
  PROVE  A!ApprovedIsExecuted
<1> SUFFICES ASSUME NEW a \in SaleRequests
             PROVE  /\ request[a] = "approved" => vouchers[a] >= 1
                    /\ a \notin cutOff =>
                         CASE request[a] = "pending" -> vouchers[a] = Cardinality(A!Executed(a))
                           [] request[a] = "approved" -> vouchers[a] <= Cardinality(Reviews)
                           [] OTHER -> vouchers[a] < Cardinality(Reviews)
  <2>1. \A S : A!Cardinality(S) = Cardinality(S) BY Zenon DEF A!Cardinality, Cardinality
  <2> QED BY <2>1 DEF A!ApprovedIsExecuted
<1>1. DecisionsFit(a) BY DEF DecisionInv
<1>2. vouchers[a] \in Nat /\ request[a] \in A!Statuses \cup {None} BY DEF A!TypeOK
<1>3. /\ Cardinality(Open(a)) \in Nat /\ Cardinality(Reviews) \in Nat /\ Cardinality(Reviews) >= 1
  BY HandsFit, ReviewsFinite
<1>4. CASE request[a] = None BY <1>1, <1>2, <1>3, <1>4, StatusesAre DEF DecisionsFit, A!Statuses
<1>5. CASE request[a] = "pending" BY <1>1, <1>5 DEF DecisionsFit
<1>6. CASE request[a] = "approved"
  <2>1. One(Refused(a)) = 0 BY <1>6 DEF One, Refused
  <2> QED BY <1>1, <1>2, <1>3, <1>6, <2>1 DEF DecisionsFit
<1>7. CASE request[a] \in {"rejected", "cancelled"}
  <2>1. One(Refused(a)) = 1 BY <1>7 DEF One, Refused
  <2> QED BY <1>1, <1>2, <1>3, <1>7, <2>1 DEF DecisionsFit
<1> QED BY <1>2, <1>4, <1>5, <1>6, <1>7 DEF A!Statuses

-----------------------------------------------------------------------------
(* Receipts.  The image a request holds is right for the rows it read; so  *)
(* what it saves is right unless another request overtook it.              *)

\* The words of a cheque agree with its amount, or were made to.
Agrees(q) == q # None /\ (q.match \/ q.reconciled)

\* The guards of a request held of the rows it read, and made its image from them.
Grounded(r) ==
  /\ r.op = "confirm" =>
       /\ r.seen.receipt.status = "pending"
       /\ r.image.method = "cheque" => Agrees(r.seen.cheque)
  /\ r.op = "update" => r.seen.receipt.status = "pending" /\ r.image.status = "pending"
  /\ r.op = "deposit" =>
       /\ r.seen.receipt \in C!ReceiptRows /\ r.seen.receipt.status = "confirmed"
       /\ r.image = [r.seen.receipt EXCEPT !.status = "deposited"]
  /\ r.op = "cheque" /\ Agrees(r.seen.cheque) => Agrees(r.image)

\* A receipt by cheque has one, and so has an image that would make it one.
WithCheque(r) ==
  r.op \in {"confirm", "update", "deposit"} /\ r.image.method = "cheque" => cheque[r.of] # None

Sound(row, q) == row # None /\ row.method = "cheque" => q # None

ReceiptInv ==
  /\ \A q \in ReceiptRequests : Grounded(req[q]) /\ WithCheque(req[q])
  /\ \A c \in Receipts : Sound(receipt[c], cheque[c])

HeldType(r) ==
  \/ r = C!NoReq
  \/ r.of \in Receipts /\ r.op = "announce"
  \/ r.of \in Receipts /\ r.op = "cheque" /\ r.image \in C!Cheques /\ r.seen \in C!SeenRows
  \/ /\ r.of \in Receipts /\ r.op \in {"confirm", "update", "deposit"}
     /\ r.image \in C!ReceiptRows /\ r.seen \in C!SeenRows

ReceiptTypes ==
  /\ receipt \in [Receipts -> C!ReceiptRows \cup {None}]
  /\ cheque \in [Receipts -> C!Cheques \cup {None}]
  /\ req = [q \in ReceiptRequests |-> req[q]] /\ \A q \in ReceiptRequests : HeldType(req[q])
  /\ announced \subseteq Receipts

LEMMA ReceiptTypesAre == ReceiptTypes => C!TypeOK
BY DEF ReceiptTypes, HeldType, C!TypeOK, C!Free

LEMMA NoReqIdle == C!NoReq.op = "idle" /\ HeldType(C!NoReq) /\ Grounded(C!NoReq)
BY DEF C!NoReq, HeldType, Grounded

LEMMA ReceiptsInit == C!Init => ReceiptTypes /\ ReceiptInv
<1> SUFFICES ASSUME C!Init PROVE ReceiptTypes /\ ReceiptInv
  OBVIOUS
<1>1. /\ receipt = [c \in Receipts |-> None] /\ cheque = [c \in Receipts |-> None]
      /\ req = [q \in ReceiptRequests |-> C!NoReq] /\ announced = {}
  BY DEF C!Init
<1>2. ReceiptTypes BY <1>1, NoReqIdle DEF ReceiptTypes
<1>3. ReceiptInv BY <1>1, NoReqIdle DEF ReceiptInv, WithCheque, Sound
<1> QED BY <1>2, <1>3

\* What a request does: it takes something in hand, or saves it and is done.
LEMMA OneRow ==
  ASSUME ReceiptTypes, NEW q \in ReceiptRequests, NEW r, req' = [req EXCEPT ![q] = r], HeldType(r),
         receipt' \in [Receipts -> C!ReceiptRows \cup {None}],
         cheque' \in [Receipts -> C!Cheques \cup {None}],
         announced' \subseteq Receipts
  PROVE  ReceiptTypes'
<1>1. req = [p \in ReceiptRequests |-> req[p]] /\ \A p \in ReceiptRequests : HeldType(req[p])
  BY DEF ReceiptTypes
<1>2. req' = [p \in ReceiptRequests |-> req'[p]] BY <1>1
<1>3. ASSUME NEW p \in ReceiptRequests PROVE HeldType(req'[p])
  <2>1. req'[p] = (IF p = q THEN r ELSE req[p]) BY <1>1
  <2>2. CASE p = q BY <2>1, <2>2
  <2>3. CASE p # q BY <1>1, <2>1, <2>3
  <2> QED BY <2>2, <2>3
<1> QED BY <1>2, <1>3 DEF ReceiptTypes, HeldType

LEMMA ReceiptsType ==
  ASSUME ReceiptTypes, NEW q \in ReceiptRequests, C!Request(q)
  PROVE  ReceiptTypes'
<1>1. /\ receipt \in [Receipts -> C!ReceiptRows \cup {None}]
      /\ cheque \in [Receipts -> C!Cheques \cup {None}]
      /\ announced \subseteq Receipts /\ HeldType(req[q])
  BY DEF ReceiptTypes
<1>0. \A c \in Receipts : C!Rows(c) \in C!SeenRows BY <1>1 DEF C!Rows, C!SeenRows
<1>2. ASSUME NEW c \in Receipts, NEW a \in Amounts, C!CreateCash(q, c, a) PROVE ReceiptTypes'
  <2>1. [method |-> "cash", status |-> "confirmed", amount |-> a] \in C!ReceiptRows
    BY DEF C!ReceiptRows, C!Methods
  <2>2. HeldType([op |-> "announce", of |-> c, image |-> None, seen |-> None]) BY DEF HeldType
  <2> QED BY <1>1, <1>2, <2>1, <2>2, OneRow DEF C!CreateCash, C!Announces
<1>3. ASSUME NEW c \in Receipts, NEW a \in Amounts, NEW match \in BOOLEAN,
             C!CreateCheque(q, c, a, match)
      PROVE  ReceiptTypes'
  <2>1. [method |-> "cheque", status |-> IF match THEN "confirmed" ELSE "pending",
         amount |-> a] \in C!ReceiptRows
    BY DEF C!ReceiptRows, C!Methods
  <2>2. [amount |-> a, match |-> match, reconciled |-> FALSE, status |-> "pending"] \in C!Cheques
    BY DEF C!Cheques
  <2>3. HeldType([op |-> "announce", of |-> c, image |-> None, seen |-> None]) BY DEF HeldType
  <2>4. /\ receipt' \in [Receipts -> C!ReceiptRows \cup {None}]
        /\ cheque' \in [Receipts -> C!Cheques \cup {None}]
        /\ announced' \subseteq Receipts
    BY <1>1, <1>3, <2>1, <2>2 DEF C!CreateCheque
  <2>5. CASE match BY <1>3, <2>3, <2>4, <2>5, OneRow DEF C!CreateCheque, C!Announces
  <2>6. CASE ~match
    <3>1. req' = req BY <1>3, <2>6 DEF C!CreateCheque
    <3>2. req' = [req EXCEPT ![q] = req[q]] BY <3>1 DEF ReceiptTypes
    <3> QED BY <1>1, <2>4, <3>2, OneRow
  <2> QED BY <2>5, <2>6
<1>4. ASSUME NEW c \in Receipts, NEW a \in Amounts, NEW method \in C!Methods,
             C!UpdateRead(q, c, method, a)
      PROVE  ReceiptTypes'
  <2>1. receipt[c] \in C!ReceiptRows BY <1>1, <1>4 DEF C!UpdateRead
  <2>2. [receipt[c] EXCEPT !.method = method, !.amount = a] \in C!ReceiptRows BY <2>1 DEF C!ReceiptRows
  <2>3. HeldType([op |-> "update", of |-> c,
                  image |-> [receipt[c] EXCEPT !.method = method, !.amount = a],
                  seen |-> C!Rows(c)])
    BY <2>2, <1>0 DEF HeldType
  <2> QED BY <1>1, <1>4, <2>3, OneRow DEF C!UpdateRead, C!Holds
<1>5. ASSUME NEW c \in Receipts, C!ConfirmRead(q, c) PROVE ReceiptTypes'
  <2>1. receipt[c] \in C!ReceiptRows BY <1>1, <1>5 DEF C!ConfirmRead
  <2>2. [receipt[c] EXCEPT !.status = "confirmed"] \in C!ReceiptRows BY <2>1 DEF C!ReceiptRows
  <2>3. HeldType([op |-> "confirm", of |-> c, image |-> [receipt[c] EXCEPT !.status = "confirmed"],
                  seen |-> C!Rows(c)])
    BY <2>2, <1>0 DEF HeldType
  <2> QED BY <1>1, <1>5, <2>3, OneRow DEF C!ConfirmRead, C!Holds
<1>6. ASSUME NEW c \in Receipts, C!DepositRead(q, c) PROVE ReceiptTypes'
  <2>1. receipt[c] \in C!ReceiptRows BY <1>1, <1>6 DEF C!DepositRead
  <2>2. [receipt[c] EXCEPT !.status = "deposited"] \in C!ReceiptRows BY <2>1 DEF C!ReceiptRows
  <2>3. HeldType([op |-> "deposit", of |-> c, image |-> [receipt[c] EXCEPT !.status = "deposited"],
                  seen |-> C!Rows(c)])
    BY <2>2, <1>0 DEF HeldType
  <2> QED BY <1>1, <1>6, <2>3, OneRow DEF C!DepositRead, C!Holds
<1>7. ASSUME NEW c \in Receipts, C!ChequeRead(q, c) PROVE ReceiptTypes'
  <2>1. cheque[c] \in C!Cheques BY <1>1, <1>7 DEF C!ChequeRead
  <2>2. PICK image \in C!Cheques :
          req' = [req EXCEPT ![q] = [op |-> "cheque", of |-> c, image |-> image, seen |-> C!Rows(c)]]
    <3>1. \A a \in Amounts :
            [cheque[c] EXCEPT !.amount = a, !.match = TRUE, !.reconciled = TRUE] \in C!Cheques
      BY <2>1 DEF C!Cheques
    <3>2. \A s \in {"cleared", "bounced"} : [cheque[c] EXCEPT !.status = s] \in C!Cheques
      BY <2>1 DEF C!Cheques
    <3> QED BY <1>7, <3>1, <3>2 DEF C!ChequeRead, C!Holds
  <2>3. HeldType([op |-> "cheque", of |-> c, image |-> image, seen |-> C!Rows(c)])
    BY <1>0 DEF HeldType
  <2> QED BY <1>1, <1>7, <2>2, <2>3, OneRow DEF C!ChequeRead
<1>8. CASE C!SaveReceipt(q)
  <2>1. req[q].of \in Receipts /\ req[q].image \in C!ReceiptRows
    BY <1>1, <1>8, NoReqIdle DEF C!SaveReceipt, HeldType
  <2>2. HeldType([op |-> "announce", of |-> req[q].of, image |-> None, seen |-> None]) BY <2>1 DEF HeldType
  <2>3. receipt' \in [Receipts -> C!ReceiptRows \cup {None}] /\ UNCHANGED <<cheque, announced>>
    BY <1>1, <1>8, <2>1 DEF C!SaveReceipt
  <2>4. \/ req' = [req EXCEPT ![q] = [op |-> "announce", of |-> req[q].of, image |-> None, seen |-> None]]
        \/ req' = [req EXCEPT ![q] = C!NoReq]
    BY <1>8 DEF C!SaveReceipt, C!Announces, C!Done
  <2> QED BY <1>1, <2>2, <2>3, <2>4, NoReqIdle, OneRow
<1>9. CASE C!SaveCheque(q)
  <2>1. req[q].of \in Receipts /\ req[q].image \in C!Cheques
    BY <1>1, <1>9, NoReqIdle DEF C!SaveCheque, HeldType
  <2>2. cheque' \in [Receipts -> C!Cheques \cup {None}] BY <1>1, <1>9, <2>1 DEF C!SaveCheque
  <2> QED BY <1>1, <1>9, <2>2, NoReqIdle, OneRow DEF C!SaveCheque, C!Done
<1>10. CASE C!Announce(q)
  <2>1. req[q].of \in Receipts BY <1>1, <1>10, NoReqIdle DEF C!Announce, HeldType
  <2> QED BY <1>1, <1>10, <2>1, NoReqIdle, OneRow DEF C!Announce, C!Done
<1>11. CASE C!Abort(q) BY <1>1, <1>11, NoReqIdle, OneRow DEF C!Abort, C!Done
<1> QED BY <1>2, <1>3, <1>4, <1>5, <1>6, <1>7, <1>8, <1>9, <1>10, <1>11 DEF C!Request

LEMMA ReceiptsRestart ==
  ASSUME ReceiptTypes, C!Restart
  PROVE  ReceiptTypes'
BY NoReqIdle DEF ReceiptTypes, C!Restart, HeldType

\* A receipt that counts is one with a status of those.
LEMMA TakenIs ==
  ASSUME ReceiptTypes
  PROVE  /\ \A c \in Receipts : receipt[c] # None => receipt[c] \in C!ReceiptRows
         /\ \A c \in Receipts : cheque[c] # None => cheque[c] \in C!Cheques
         /\ \A row \in C!ReceiptRows : row # None
         /\ \A row \in C!Cheques : row # None
         /\ \A row \in C!SeenRows : row # None
BY BackOfficeAssumption DEF ReceiptTypes, C!ReceiptsAssumption

Counts(row) == row # None /\ row.status \in {"confirmed", "deposited"}
Reconciled(row, q) == Counts(row) /\ row.method = "cheque" => (q.match \/ q.reconciled)
Frozen(old, new) ==
  Counts(old) => Counts(new) /\ new.amount = old.amount /\ new.method = old.method

\* What a step may do to a receipt, unless a request was overtaken.
Keeps(c) ==
  /\ Frozen(receipt[c], receipt'[c])
  /\ Reconciled(receipt[c], cheque[c]) => Reconciled(receipt'[c], cheque'[c])

LEMMA KeptIs == ASSUME NEW c, Keeps(c)
  PROVE /\ C!Taken(c) => C!Taken(c)' /\ receipt'[c].amount = receipt[c].amount
                                     /\ receipt'[c].method = receipt[c].method
        /\ C!Reconciled(c) => C!Reconciled(c)'
BY DEF Keeps, Frozen, Reconciled, Counts, C!Taken, C!Reconciled

LEMMA Untouched == ASSUME NEW c, receipt'[c] = receipt[c], cheque'[c] = cheque[c] PROVE Keeps(c)
BY DEF Keeps, Frozen, Reconciled, Counts

\* A request takes something in hand or saves it: one receipt and its cheque change.
LEMMA OneReceipt ==
  ASSUME ReceiptTypes, ReceiptInv,
         NEW q \in ReceiptRequests, NEW r, req' = [req EXCEPT ![q] = r],
         Grounded(r), WithCheque(r)',
         NEW c \in Receipts,
         \A d \in Receipts : d # c => receipt'[d] = receipt[d] /\ cheque'[d] = cheque[d],
         cheque[c] # None => cheque'[c] # None,
         Sound(receipt'[c], cheque'[c])
  PROVE  ReceiptInv' /\ \A d \in Receipts : d # c => Keeps(d)
<1>1. \A p \in ReceiptRequests : req'[p] = IF p = q THEN r ELSE req[p] BY DEF ReceiptTypes
<1>2. ASSUME NEW p \in ReceiptRequests PROVE Grounded(req'[p]) /\ WithCheque(req[p])'
  <2>1. CASE p = q
    <3>1. req'[p] = r BY <1>1, <2>1
    <3> QED BY <3>1 DEF WithCheque
  <2>2. CASE p # q
    <3>1. req'[p] = req[p] /\ Grounded(req[p]) /\ WithCheque(req[p])
      BY <1>1, <2>2 DEF ReceiptInv
    <3>2. HeldType(req[p]) BY DEF ReceiptTypes
    <3>3. req[p].op \in {"confirm", "update", "deposit"} => req[p].of \in Receipts
      BY <3>2, NoReqIdle DEF HeldType
    <3> QED BY <3>1, <3>3 DEF WithCheque
  <2> QED BY <2>1, <2>2
<1>3. \A d \in Receipts : Sound(receipt'[d], cheque'[d]) BY DEF ReceiptInv
<1>4. \A d \in Receipts : d # c => Keeps(d) BY Untouched
<1> QED BY <1>2, <1>3, <1>4 DEF ReceiptInv, Grounded

\* A request that reads.
LEMMA OnlyReads ==
  ASSUME ReceiptTypes, ReceiptInv, UNCHANGED <<receipt, cheque>>,
         NEW q \in ReceiptRequests, NEW r, req' = [req EXCEPT ![q] = r],
         Grounded(r), WithCheque(r), NEW c \in Receipts
  PROVE  ReceiptInv' /\ \A d \in Receipts : Keeps(d)
<1>1. WithCheque(r)' BY DEF WithCheque
<1>2. Sound(receipt'[c], cheque'[c]) BY DEF ReceiptInv
<1>3. ReceiptInv' BY <1>1, <1>2, OneReceipt
<1> QED BY <1>3, Untouched

LEMMA ReceiptsStep ==
  ASSUME ReceiptTypes, ReceiptInv, NEW q \in ReceiptRequests, C!Request(q)
  PROVE  ReceiptInv' /\ \A c \in Receipts : Keeps(c) \/ C!OvertakenSave(c)
<1>1. /\ receipt \in [Receipts -> C!ReceiptRows \cup {None}]
      /\ cheque \in [Receipts -> C!Cheques \cup {None}]
      /\ HeldType(req[q]) /\ Grounded(req[q]) /\ WithCheque(req[q])
  BY DEF ReceiptTypes, ReceiptInv
<1>2. \A d \in Receipts : Sound(receipt[d], cheque[d]) BY DEF ReceiptInv
<1> DEFINE Goal == ReceiptInv' /\ \A c \in Receipts : Keeps(c) \/ C!OvertakenSave(c)
<1>3. ASSUME NEW c \in Receipts, NEW a \in Amounts,
             \/ C!CreateCash(q, c, a)
             \/ \E match \in BOOLEAN : C!CreateCheque(q, c, a, match)
      PROVE  Goal
  <2>1. receipt[c] = None /\ req[q] = C!NoReq
    BY <1>3 DEF C!CreateCash, C!CreateCheque, C!Free
  <2>2. PICK row \in C!ReceiptRows : receipt' = [receipt EXCEPT ![c] = row]
    BY <1>3 DEF C!CreateCash, C!CreateCheque, C!ReceiptRows, C!Methods
  <2>3. /\ \A d \in Receipts : d # c => receipt'[d] = receipt[d] /\ cheque'[d] = cheque[d]
        /\ receipt'[c] = row
    BY <1>1, <1>3, <2>2 DEF C!CreateCash, C!CreateCheque
  <2>5. PICK r : req' = [req EXCEPT ![q] = r] /\ r.op \in {"announce", "idle"}
    <3>1. CASE req' = req
      <4>1. req' = [req EXCEPT ![q] = C!NoReq] BY <2>1, <3>1 DEF ReceiptTypes
      <4> QED BY <4>1, NoReqIdle
    <3>2. CASE C!Announces(q, c)
      <4>1. [op |-> "announce", of |-> c, image |-> None, seen |-> None].op = "announce" OBVIOUS
      <4> QED BY <3>2, <4>1 DEF C!Announces
    <3> QED BY <1>3, <3>1, <3>2 DEF C!CreateCash, C!CreateCheque
  <2>6. Grounded(r) /\ WithCheque(r)' BY <2>5 DEF Grounded, WithCheque
  <2>7. /\ Sound(receipt'[c], cheque'[c]) /\ Reconciled(receipt'[c], cheque'[c])
        /\ cheque[c] # None => cheque'[c] # None
    <3>1. CASE C!CreateCash(q, c, a)
      <4>1. receipt'[c].method = "cash" /\ cheque' = cheque BY <1>1, <3>1 DEF C!CreateCash
      <4> QED BY <4>1 DEF Sound, Reconciled
    <3>2. ASSUME NEW match \in BOOLEAN, C!CreateCheque(q, c, a, match)
          PROVE  /\ Sound(receipt'[c], cheque'[c]) /\ Reconciled(receipt'[c], cheque'[c])
                 /\ cheque'[c] # None
      <4>1. /\ receipt'[c].status = IF match THEN "confirmed" ELSE "pending"
            /\ cheque'[c] = [amount |-> a, match |-> match, reconciled |-> FALSE,
                             status |-> "pending"]
        BY <1>1, <3>2 DEF C!CreateCheque
      <4>2. cheque'[c] \in C!Cheques /\ cheque'[c].match = match BY <4>1 DEF C!Cheques
      <4>3. cheque'[c] # None BY <4>2, TakenIs
      <4> QED BY <4>1, <4>2, <4>3 DEF Sound, Reconciled, Counts
    <3> QED BY <1>3, <3>1, <3>2
  <2>8. Keeps(c) BY <2>1, <2>7 DEF Keeps, Frozen, Counts
  <2> QED BY <2>3, <2>5, <2>6, <2>7, <2>8, OneReceipt
<1>5. ASSUME NEW c \in Receipts, NEW a \in Amounts, NEW method \in C!Methods,
             C!UpdateRead(q, c, method, a)
      PROVE  Goal
  <2> DEFINE image == [receipt[c] EXCEPT !.method = method, !.amount = a]
             r == [op |-> "update", of |-> c, image |-> image, seen |-> C!Rows(c)]
  <2>1. /\ receipt[c] # None /\ receipt[c].status = "pending"
        /\ method = "cheque" => cheque[c] # None
        /\ req' = [req EXCEPT ![q] = r]
        /\ UNCHANGED <<receipt, cheque>>
    BY <1>5 DEF C!UpdateRead, C!Holds
  <2>2. receipt[c] \in C!ReceiptRows BY <2>1, TakenIs
  <2>3. image.method = method /\ image.status = "pending" BY <2>1, <2>2 DEF C!ReceiptRows
  <2>4. r.op = "update" /\ r.of = c /\ r.image = image /\ r.seen.receipt = receipt[c] BY DEF C!Rows
  <2> HIDE DEF image, r
  <2>5. Grounded(r) /\ WithCheque(r) BY <2>1, <2>3, <2>4 DEF Grounded, WithCheque
  <2> QED BY <2>1, <2>5, OnlyReads
<1>6. ASSUME NEW c \in Receipts, C!ConfirmRead(q, c) PROVE Goal
  <2> DEFINE image == [receipt[c] EXCEPT !.status = "confirmed"]
             r == [op |-> "confirm", of |-> c, image |-> image, seen |-> C!Rows(c)]
  <2>1. /\ receipt[c] # None /\ receipt[c].status = "pending" /\ ~C!Blocked(c)
        /\ req' = [req EXCEPT ![q] = r]
        /\ UNCHANGED <<receipt, cheque>>
    BY <1>6 DEF C!ConfirmRead, C!Holds
  <2>2. receipt[c] \in C!ReceiptRows BY <2>1, TakenIs
  <2>3. image.method = receipt[c].method BY <2>2 DEF C!ReceiptRows
  <2>4. receipt[c].method = "cheque" => Agrees(cheque[c])
    BY <1>2, <2>1 DEF C!Blocked, Agrees, Sound
  <2>5. /\ r.op = "confirm" /\ r.of = c /\ r.image = image
        /\ r.seen.receipt = receipt[c] /\ r.seen.cheque = cheque[c]
    BY DEF C!Rows
  <2> HIDE DEF image, r
  <2>6. Grounded(r) /\ WithCheque(r)
    BY <2>1, <2>3, <2>4, <2>5 DEF Grounded, WithCheque, Agrees
  <2> QED BY <2>1, <2>6, OnlyReads
<1>7. ASSUME NEW c \in Receipts, C!DepositRead(q, c) PROVE Goal
  <2> DEFINE image == [receipt[c] EXCEPT !.status = "deposited"]
             r == [op |-> "deposit", of |-> c, image |-> image, seen |-> C!Rows(c)]
  <2>1. /\ receipt[c] # None /\ receipt[c].status = "confirmed"
        /\ req' = [req EXCEPT ![q] = r]
        /\ UNCHANGED <<receipt, cheque>>
    BY <1>7 DEF C!DepositRead, C!Holds
  <2>2. receipt[c] \in C!ReceiptRows BY <2>1, TakenIs
  <2>3. image.method = receipt[c].method BY <2>2 DEF C!ReceiptRows
  <2>4. /\ r.op = "deposit" /\ r.of = c /\ r.image = image /\ r.seen.receipt = receipt[c]
        /\ image = [r.seen.receipt EXCEPT !.status = "deposited"]
    BY DEF C!Rows
  <2> HIDE DEF image, r
  <2>5. receipt[c].method = "cheque" => cheque[c] # None BY <1>2, <2>1 DEF Sound
  <2>6. Grounded(r) /\ WithCheque(r)
    BY <2>1, <2>2, <2>3, <2>4, <2>5 DEF Grounded, WithCheque
  <2> QED BY <2>1, <2>6, OnlyReads
<1>8. ASSUME NEW c \in Receipts, C!ChequeRead(q, c) PROVE Goal
  <2>1. cheque[c] # None /\ UNCHANGED <<receipt, cheque>> BY <1>8 DEF C!ChequeRead
  <2>2. cheque[c] \in C!Cheques BY <2>1, TakenIs
  <2>3. PICK image \in C!Cheques :
          /\ req' = [req EXCEPT ![q] = [op |-> "cheque", of |-> c, image |-> image, seen |-> C!Rows(c)]]
          /\ Agrees(cheque[c]) => image.match \/ image.reconciled
    <3>1. \A a \in Amounts :
            /\ [cheque[c] EXCEPT !.amount = a, !.match = TRUE, !.reconciled = TRUE] \in C!Cheques
            /\ [cheque[c] EXCEPT !.amount = a, !.match = TRUE, !.reconciled = TRUE].match
      BY <2>2 DEF C!Cheques
    <3>2. \A s \in {"cleared", "bounced"} :
            /\ [cheque[c] EXCEPT !.status = s] \in C!Cheques
            /\ [cheque[c] EXCEPT !.status = s].match = cheque[c].match
            /\ [cheque[c] EXCEPT !.status = s].reconciled = cheque[c].reconciled
      BY <2>2 DEF C!Cheques
    <3>3. CASE \E a \in Amounts : C!Holds(q, "cheque", c,
                 [cheque[c] EXCEPT !.amount = a, !.match = TRUE, !.reconciled = TRUE])
      BY <3>1, <3>3 DEF C!Holds
    <3>4. CASE \E s \in {"cleared", "bounced"} :
                 C!Holds(q, "cheque", c, [cheque[c] EXCEPT !.status = s])
      BY <3>2, <3>4 DEF C!Holds, Agrees
    <3> QED BY <1>8, <3>3, <3>4 DEF C!ChequeRead
  <2>4. Agrees(cheque[c]) => Agrees(image) BY <2>3, TakenIs DEF Agrees
  <2> DEFINE r == [op |-> "cheque", of |-> c, image |-> image, seen |-> C!Rows(c)]
  <2>5. r.op = "cheque" /\ r.image = image /\ r.seen.cheque = cheque[c] BY DEF C!Rows
  <2>6. req' = [req EXCEPT ![q] = r] BY <2>3
  <2> HIDE DEF r
  <2>7. Grounded(r) /\ WithCheque(r) BY <2>4, <2>5 DEF Grounded, WithCheque
  <2> QED BY <2>1, <2>6, <2>7, OnlyReads
<1>9. CASE C!SaveReceipt(q)
  <2>0. PICK c, image, op : c = req[q].of /\ image = req[q].image /\ op = req[q].op OBVIOUS
  <2>1. /\ c \in Receipts /\ image \in C!ReceiptRows /\ req[q].seen \in C!SeenRows
        /\ op \in {"confirm", "update", "deposit"}
    BY <1>1, <1>9, <2>0, NoReqIdle DEF C!SaveReceipt, HeldType
  <2>2. receipt' = [receipt EXCEPT ![c] = image] /\ UNCHANGED cheque
    BY <1>9, <2>0 DEF C!SaveReceipt
  <2>3. /\ receipt'[c] = image
        /\ \A d \in Receipts : d # c => receipt'[d] = receipt[d] /\ cheque'[d] = cheque[d]
    BY <1>1, <2>1, <2>2
  <2>4. PICK r : req' = [req EXCEPT ![q] = r] /\ r.op \in {"announce", "idle"}
    <3>1. CASE C!Done(q) BY <3>1, NoReqIdle DEF C!Done
    <3>2. CASE C!Announces(q, c)
      <4>1. [op |-> "announce", of |-> c, image |-> None, seen |-> None].op = "announce" OBVIOUS
      <4> QED BY <3>2, <4>1 DEF C!Announces
    <3> QED BY <1>9, <2>0, <3>1, <3>2 DEF C!SaveReceipt
  <2>5. Grounded(r) /\ WithCheque(r)' BY <2>4 DEF Grounded, WithCheque
  <2>6. Sound(image, cheque[c]) BY <1>1, <2>0, <2>1 DEF WithCheque, Sound
  <2>7. ReceiptInv' /\ \A d \in Receipts : d # c => Keeps(d)
    BY <2>1, <2>2, <2>3, <2>4, <2>5, <2>6, OneReceipt
  <2>8. CASE req[q].seen = C!Rows(c)
    <3>1. req[q].seen.receipt = receipt[c] /\ req[q].seen.cheque = cheque[c] BY <2>8 DEF C!Rows
    <3>2. image # None BY <2>1, TakenIs
    <3>3. CASE op = "confirm"
      <4>1. /\ receipt[c].status = "pending"
            /\ image.method = "cheque" => Agrees(cheque[c])
        BY <1>1, <2>0, <3>1, <3>3 DEF Grounded
      <4> QED BY <2>2, <2>3, <2>7, <4>1 DEF Keeps, Frozen, Reconciled, Counts, Agrees
    <3>4. CASE op = "update"
      <4>1. receipt[c].status = "pending" /\ image.status = "pending"
        BY <1>1, <2>0, <3>1, <3>4 DEF Grounded
      <4> QED BY <2>2, <2>3, <2>7, <4>1 DEF Keeps, Frozen, Reconciled, Counts
    <3>5. CASE op = "deposit"
      <4>1. /\ receipt[c] \in C!ReceiptRows /\ receipt[c].status = "confirmed"
            /\ image = [receipt[c] EXCEPT !.status = "deposited"]
        BY <1>1, <2>0, <3>1, <3>5 DEF Grounded
      <4>2. /\ image.method = receipt[c].method /\ image.amount = receipt[c].amount
            /\ image.status = "deposited" /\ receipt[c] # None
        BY <4>1, TakenIs DEF C!ReceiptRows
      <4> QED BY <2>2, <2>3, <2>7, <3>2, <4>1, <4>2 DEF Keeps, Frozen, Reconciled, Counts
    <3> QED BY <2>1, <3>3, <3>4, <3>5
  <2>9. CASE req[q].seen # C!Rows(c)
    <3>1. req'[q] # req[q] BY <2>0, <2>1, <2>4 DEF ReceiptTypes
    <3>2. req[q].seen # None BY <2>1, TakenIs
    <3>3. C!OvertakenSave(c) BY <2>0, <2>9, <3>1, <3>2 DEF C!OvertakenSave
    <3> QED BY <2>7, <3>3
  <2> QED BY <2>8, <2>9
<1>10. CASE C!SaveCheque(q)
  <2>0. PICK c, image : c = req[q].of /\ image = req[q].image OBVIOUS
  <2>1. /\ c \in Receipts /\ image \in C!Cheques /\ req[q].seen \in C!SeenRows
        /\ req[q].op = "cheque"
    BY <1>1, <1>10, <2>0, NoReqIdle DEF C!SaveCheque, HeldType
  <2>2. /\ cheque' = [cheque EXCEPT ![c] = image] /\ UNCHANGED receipt
        /\ req' = [req EXCEPT ![q] = C!NoReq]
    BY <1>10, <2>0 DEF C!SaveCheque, C!Done
  <2>3. /\ cheque'[c] = image
        /\ \A d \in Receipts : d # c => receipt'[d] = receipt[d] /\ cheque'[d] = cheque[d]
    BY <1>1, <2>1, <2>2
  <2>4. image # None BY <2>1, TakenIs
  <2>5. Sound(receipt'[c], cheque'[c]) BY <2>2, <2>3, <2>4 DEF Sound
  <2>6. Grounded(C!NoReq) /\ WithCheque(C!NoReq)' BY NoReqIdle DEF WithCheque
  <2>7. ReceiptInv' /\ \A d \in Receipts : d # c => Keeps(d)
    BY <2>1, <2>2, <2>3, <2>4, <2>5, <2>6, OneReceipt
  <2>8. CASE req[q].seen = C!Rows(c)
    <3>1. req[q].seen.cheque = cheque[c] BY <2>8 DEF C!Rows
    <3>2. Agrees(cheque[c]) => Agrees(image) BY <1>1, <2>0, <2>1, <3>1 DEF Grounded
    <3>3. Sound(receipt[c], cheque[c]) BY <1>2, <2>1
    <3>4. Keeps(c)
      BY <2>2, <2>3, <3>2, <3>3 DEF Keeps, Frozen, Reconciled, Counts, Agrees, Sound
    <3> QED BY <2>7, <3>4
  <2>9. CASE req[q].seen # C!Rows(c)
    <3>1. req'[q] # req[q] BY <2>1, <2>2, NoReqIdle DEF ReceiptTypes
    <3>2. req[q].seen # None BY <2>1, TakenIs
    <3>3. C!OvertakenSave(c) BY <2>0, <2>9, <3>1, <3>2 DEF C!OvertakenSave
    <3> QED BY <2>7, <3>3
  <2> QED BY <2>8, <2>9
<1>11. CASE C!Announce(q) \/ C!Abort(q)
  <2>1. req' = [req EXCEPT ![q] = C!NoReq] /\ UNCHANGED <<receipt, cheque>>
    BY <1>11 DEF C!Announce, C!Abort, C!Done
  <2>2. Grounded(C!NoReq) /\ WithCheque(C!NoReq) BY NoReqIdle DEF WithCheque
  <2>3. \A d \in Receipts : Keeps(d) BY <2>1, Untouched
  <2>4. \A p \in ReceiptRequests : req'[p] = req[p] \/ req'[p] = C!NoReq
    BY <2>1 DEF ReceiptTypes
  <2>5. ReceiptInv' BY <2>1, <2>2, <2>4 DEF ReceiptInv, Grounded, WithCheque
  <2> QED BY <2>3, <2>5
<1> QED BY <1>3, <1>5, <1>6, <1>7, <1>8, <1>9, <1>10, <1>11 DEF C!Request

LEMMA ReceiptsRestartKeeps ==
  ASSUME ReceiptInv, C!Restart
  PROVE  ReceiptInv' /\ \A c \in Receipts : Keeps(c)
<1>1. UNCHANGED <<receipt, cheque>> /\ \A q \in ReceiptRequests : req'[q] = C!NoReq
  BY DEF C!Restart
<1>2. \A q \in ReceiptRequests : Grounded(req'[q]) /\ WithCheque(req[q])'
  BY <1>1, NoReqIdle DEF WithCheque
<1>3. \A c \in Receipts : Keeps(c) BY <1>1, Untouched
<1> QED BY <1>1, <1>2, <1>3 DEF ReceiptInv, Grounded

-----------------------------------------------------------------------------
(* Settlements.  What counts keeps counting, so that a period is never     *)
(* worth less than when it was settled.                                    *)

BookTypes ==
  /\ settlements \in Seq(Entries)
  /\ settling \in [Settlers -> Entries \cup {None}]

\* The cash of a receipt, and of what was made from a request.
Collected == [c \in Receipts |-> IF C!Taken(c) /\ receipt[c].method = "cash"
                                 THEN receipt[c].amount ELSE 0]
SoldBy == [a \in SaleRequests |-> Price * vouchers[a]]

LEMMA CollectedNat == ReceiptTypes => \A c \in Receipts : Collected[c] \in Nat
<1> SUFFICES ASSUME ReceiptTypes PROVE \A c \in Receipts : Collected[c] \in Nat
  OBVIOUS
<1>1. \A c \in Receipts : receipt[c] # None => receipt[c].amount \in Nat
  BY TakenIs, BackOfficeAssumption DEF C!ReceiptRows, C!ReceiptsAssumption
<1> QED BY <1>1 DEF C!Taken, Collected

LEMMA SoldNat == A!TypeOK => \A a \in SaleRequests : SoldBy[a] \in Nat
<1> SUFFICES ASSUME A!TypeOK PROVE \A a \in SaleRequests : SoldBy[a] \in Nat
  OBVIOUS
<1>1. \A a \in SaleRequests : vouchers[a] \in Nat BY DEF A!TypeOK
<1> QED BY <1>1, BackOfficeAssumption DEF SoldBy

LEMMA SoldIs ==
  ASSUME A!TypeOK, NEW kinds \in SUBSET SaleRequests
  PROVE  Sold(kinds) = SumFunctionOnSet(SoldBy, kinds) /\ Sold(kinds) \in Nat
<1>1. IsFiniteSet(kinds) BY BackOfficeAssumption, FS_Subset
<1>2. SumFunctionOnSet(SoldBy, kinds) \in Nat BY <1>1, SoldNat, SumNat
<1>3. Sold(kinds) = SumFunctionOnSet(SoldBy, kinds) BY DEF Sold, SoldBy
<1> QED BY <1>2, <1>3

LEMMA CashIs ==
  ASSUME ReceiptTypes, A!TypeOK, NEW period \in SUBSET (Receipts \cup SaleRequests)
  PROVE  /\ CashIn(period) = SumFunctionOnSet(Collected, period \cap Receipts)
                               + SumFunctionOnSet(SoldBy, (period \cap SaleRequests) \ Refunds)
         /\ CashIn(period) \in Nat /\ Cash(period) \in Int
<1> DEFINE sales == (period \cap SaleRequests) \ Refunds
           back == period \cap Refunds
<1>1. sales \in SUBSET SaleRequests /\ back \in SUBSET SaleRequests BY BackOfficeAssumption
<1>2. IsFiniteSet(period \cap Receipts) BY BackOfficeAssumption, FS_Subset
<1>3. SumFunctionOnSet(Collected, period \cap Receipts) \in Nat BY <1>2, CollectedNat, SumNat
<1>4. CashIn(period) = SumFunctionOnSet(Collected, period \cap Receipts) + Sold(sales)
  BY DEF CashIn, Collected
<1>5. Cash(period) = CashIn(period) - Sold(back) BY DEF Cash
<1> HIDE DEF sales, back
<1>6. /\ Sold(sales) = SumFunctionOnSet(SoldBy, sales)
      /\ Sold(sales) \in Nat /\ Sold(back) \in Nat
  BY <1>1, SoldIs
<1>7. CashIn(period) \in Nat /\ Cash(period) \in Int BY <1>3, <1>4, <1>5, <1>6
<1> QED BY <1>4, <1>6, <1>7 DEF sales

LEMMA CashInNext ==
  ASSUME NEW period
  PROVE  CashIn(period)' = SumFunctionOnSet(Collected', period \cap Receipts)
                             + SumFunctionOnSet(SoldBy', (period \cap SaleRequests) \ Refunds)
BY DEF CashIn, Sold, Collected, SoldBy

\* Nothing that counted is lost when every receipt keeps and no voucher goes.
LEMMA CashGrows ==
  ASSUME ReceiptTypes, A!TypeOK, ReceiptTypes', A!TypeOK',
         \A c \in Receipts : Keeps(c),
         \A a \in SaleRequests : vouchers'[a] >= vouchers[a],
         NEW period \in SUBSET (Receipts \cup SaleRequests)
  PROVE  /\ CashIn(period) \in Int /\ CashIn(period)' \in Int
         /\ CashIn(period)' >= CashIn(period)
<1> DEFINE mine == period \cap Receipts
           sales == (period \cap SaleRequests) \ Refunds
<1>1. /\ mine \subseteq Receipts /\ sales \subseteq SaleRequests
      /\ IsFiniteSet(mine) /\ IsFiniteSet(sales)
  BY BackOfficeAssumption, FS_Subset
<1>2. /\ CashIn(period) = SumFunctionOnSet(Collected, mine) + SumFunctionOnSet(SoldBy, sales)
      /\ CashIn(period)' = SumFunctionOnSet(Collected', mine) + SumFunctionOnSet(SoldBy', sales)
  BY CashIs, CashInNext
<1> HIDE DEF mine, sales
<1>3. /\ \A c \in Receipts : Collected[c] \in Nat /\ Collected'[c] \in Nat
      /\ \A a \in SaleRequests : SoldBy[a] \in Nat /\ SoldBy'[a] \in Nat
  <2>1. \A c \in Receipts : Collected[c] \in Nat BY CollectedNat
  <2>2. (\A c \in Receipts : Collected[c] \in Nat)' BY CollectedNat, PTL
  <2>3. \A a \in SaleRequests : SoldBy[a] \in Nat BY SoldNat
  <2>4. (\A a \in SaleRequests : SoldBy[a] \in Nat)' BY SoldNat, PTL
  <2> QED BY <2>1, <2>2, <2>3, <2>4
<1>4. ASSUME NEW c \in Receipts PROVE Collected[c] <= Collected'[c]
  <2>1. /\ Collected[c] = IF C!Taken(c) /\ receipt[c].method = "cash"
                          THEN receipt[c].amount ELSE 0
        /\ Collected'[c] = IF C!Taken(c)' /\ receipt'[c].method = "cash"
                           THEN receipt'[c].amount ELSE 0
    BY DEF Collected
  <2>2. C!Taken(c) => C!Taken(c)' /\ receipt'[c].amount = receipt[c].amount
                                  /\ receipt'[c].method = receipt[c].method
    BY KeptIs
  <2>3. Collected[c] \in Nat /\ Collected'[c] \in Nat BY <1>3
  <2>4. CASE C!Taken(c) /\ receipt[c].method = "cash"
    <3>1. Collected'[c] = Collected[c] BY <2>1, <2>2, <2>4
    <3> QED BY <2>3, <3>1
  <2>5. CASE ~(C!Taken(c) /\ receipt[c].method = "cash")
    <3>1. Collected[c] = 0 BY <2>1, <2>5
    <3> QED BY <2>3, <3>1
  <2> QED BY <2>4, <2>5
<1>5. ASSUME NEW a \in SaleRequests PROVE SoldBy[a] <= SoldBy'[a]
  <2>1. SoldBy[a] = Price * vouchers[a] /\ SoldBy'[a] = Price * vouchers'[a] BY DEF SoldBy
  <2>2. PICK more : more = vouchers'[a] - vouchers[a] OBVIOUS
  <2>3. vouchers[a] \in Nat /\ vouchers'[a] \in Nat /\ Price \in Nat
    BY BackOfficeAssumption DEF A!TypeOK
  <2>4. more \in Nat /\ vouchers'[a] = vouchers[a] + more BY <2>2, <2>3
  <2>5. Price * (vouchers[a] + more) = Price * vouchers[a] + Price * more BY <2>3, <2>4
  <2>6. Price * more \in Nat /\ Price * vouchers[a] \in Nat BY <2>3, <2>4
  <2> QED BY <2>1, <2>4, <2>5, <2>6
<1>6. SumFunctionOnSet(Collected, mine) <= SumFunctionOnSet(Collected', mine)
  BY <1>1, <1>3, <1>4, SumGrows
<1>7. SumFunctionOnSet(SoldBy, sales) <= SumFunctionOnSet(SoldBy', sales)
  BY <1>1, <1>3, <1>5, SumGrows
<1>8. /\ SumFunctionOnSet(Collected, mine) \in Int /\ SumFunctionOnSet(Collected', mine) \in Int
      /\ SumFunctionOnSet(SoldBy, sales) \in Int /\ SumFunctionOnSet(SoldBy', sales) \in Int
  BY <1>1, <1>3, SumInt
<1> QED BY <1>2, <1>6, <1>7, <1>8

\* The balance of the latest settlement, as an operator on sequences.
BalanceOf(s) == IF s = <<>> THEN 0 ELSE s[Len(s)].balance

LEMMA BalanceIs == Balance = BalanceOf(settlements) /\ Balance' = BalanceOf(settlements')
BY DEF Balance, BalanceOf

LEMMA BalanceInt == ASSUME NEW s \in Seq(Entries) PROVE BalanceOf(s) \in Int
<1>1. CASE s = <<>> BY <1>1 DEF BalanceOf
<1>2. CASE s # <<>>
  <2>1. Len(s) \in 1..Len(s) BY <1>2
  <2>2. s[Len(s)] \in Entries BY <2>1
  <2> QED BY <1>2, <2>2 DEF BalanceOf, Entries
<1> QED BY <1>1, <1>2

LEMMA BooksInit ==
  ASSUME settlements = <<>>, settling = [k \in Settlers |-> None]
  PROVE  BookTypes
BY DEF BookTypes

LEMMA BooksType ==
  ASSUME ReceiptTypes, A!TypeOK, BookTypes, Settlement
  PROVE  BookTypes'
<1>1. settlements \in Seq(Entries) /\ settling \in [Settlers -> Entries \cup {None}]
  BY DEF BookTypes
<1>2. ASSUME NEW k \in Settlers, SettleSave(k) PROVE BookTypes'
  <2>1. settling[k] \in Entries BY <1>1, <1>2 DEF SettleSave
  <2> QED BY <1>1, <1>2, <2>1 DEF SettleSave, BookTypes
<1>3. ASSUME NEW k \in Settlers, NEW period \in SUBSET (Receipts \cup SaleRequests),
             NEW received \in Payments, SettleRead(k, period, received)
      PROVE  BookTypes'
  <2>1. Cash(period) \in Int /\ CashIn(period) \in Nat BY CashIs
  <2>2. received \in Nat BY BackOfficeAssumption
  <2>3. Balance \in Int BY <1>1, BalanceIs, BalanceInt
  <2> DEFINE cash == Cash(period)
             in == CashIn(period)
             owed == Balance
             entry == [period |-> period, cashIn |-> in, expected |-> cash,
                       received |-> received, balance |-> owed + cash - received]
  <2>4. settling' = [settling EXCEPT ![k] = entry] /\ UNCHANGED settlements
    BY <1>3 DEF SettleRead
  <2> HIDE DEF cash, in, owed
  <2>5. entry \in Entries BY <2>1, <2>2, <2>3 DEF Entries, cash, in, owed
  <2> HIDE DEF entry
  <2> QED BY <1>1, <2>4, <2>5 DEF BookTypes
<1> QED BY <1>2, <1>3 DEF Settlement

\* A settlement once saved is never changed.
LEMMA BooksKept ==
  ASSUME BookTypes, Settlement \/ UNCHANGED settlements
  PROVE  \A n \in DOMAIN settlements :
           /\ settlements'[n] = settlements[n]
           /\ settlements[n].period \in SUBSET (Receipts \cup SaleRequests)
           /\ settlements[n].cashIn \in Nat
<1>1. settlements \in Seq(Entries) /\ settling \in [Settlers -> Entries \cup {None}]
  BY DEF BookTypes
<1>2. ASSUME NEW n \in DOMAIN settlements
      PROVE  /\ settlements[n].period \in SUBSET (Receipts \cup SaleRequests)
             /\ settlements[n].cashIn \in Nat
  <2>1. settlements[n] \in Entries BY <1>1
  <2> QED BY <2>1 DEF Entries
<1>3. ASSUME NEW k \in Settlers, SettleSave(k), NEW n \in DOMAIN settlements
      PROVE  settlements'[n] = settlements[n]
  <2>1. settling[k] \in Entries BY <1>1, <1>3 DEF SettleSave
  <2> QED BY <1>1, <1>3, <2>1 DEF SettleSave
<1>4. Settlement => UNCHANGED settlements \/ \E k \in Settlers : SettleSave(k)
  BY DEF Settlement, SettleRead
<1> QED BY <1>2, <1>3, <1>4

-----------------------------------------------------------------------------
(* The whole day. *)

DayTypes == ReceiptTypes /\ A!TypeOK /\ BookTypes

LEMMA DayInit == Init => DayTypes /\ DecisionInv /\ ReceiptInv
BY ReceiptsInit, ApprovalsInit, BooksInit DEF Init, DayTypes

\* What a step does to each of the three parts.
LEMMA Steps ==
  ASSUME [Next]_vars
  PROVE  /\ (\E q \in ReceiptRequests : C!Request(q)) \/ C!Restart \/ UNCHANGED receipts
         /\ A!Request \/ A!Restart \/ UNCHANGED approvals
         /\ \/ Settlement
            \/ UNCHANGED settlements
               /\ (UNCHANGED settling \/ settling' = [k \in Settlers |-> None])
<1>1. CASE UNCHANGED vars BY <1>1 DEF vars, receipts, approvals, books
<1>2. CASE Receipt BY <1>2 DEF Receipt, approvals, books
<1>3. CASE Approval BY <1>3 DEF Approval, receipts, books
<1>4. CASE Settlement BY <1>4 DEF Settlement, SettleSave, SettleRead
<1>5. CASE Restart BY <1>5 DEF Restart
<1> QED BY <1>1, <1>2, <1>3, <1>4, <1>5 DEF Next

LEMMA DayTypesNext == DayTypes /\ [Next]_vars => DayTypes'
<1> SUFFICES ASSUME DayTypes, [Next]_vars PROVE DayTypes'
  OBVIOUS
<1>1. ReceiptTypes /\ A!TypeOK /\ BookTypes BY DEF DayTypes
<1>2. ReceiptTypes'
  <2>1. ASSUME NEW q \in ReceiptRequests, C!Request(q) PROVE ReceiptTypes'
    BY <1>1, <2>1, ReceiptsType
  <2>2. ASSUME C!Restart PROVE ReceiptTypes' BY <1>1, <2>2, ReceiptsRestart
  <2>3. ASSUME UNCHANGED receipts PROVE ReceiptTypes' BY <1>1, <2>3 DEF receipts, ReceiptTypes
  <2> QED BY <2>1, <2>2, <2>3, Steps
<1>3. A!TypeOK'
  <2>1. ASSUME A!Request \/ A!Restart PROVE A!TypeOK' BY <1>1, <2>1, ApprovalsType
  <2>2. ASSUME UNCHANGED approvals PROVE A!TypeOK' BY <1>1, <2>2 DEF approvals, A!TypeOK
  <2> QED BY <2>1, <2>2, Steps
<1>4. BookTypes'
  <2>1. ASSUME Settlement PROVE BookTypes' BY <1>1, <2>1, BooksType
  <2>2. ASSUME UNCHANGED settlements,
               UNCHANGED settling \/ settling' = [k \in Settlers |-> None]
        PROVE  BookTypes'
    BY <1>1, <2>2 DEF BookTypes
  <2> QED BY <2>1, <2>2, Steps
<1> QED BY <1>2, <1>3, <1>4 DEF DayTypes

THEOREM DayTypesHold == Spec => []DayTypes
<1>1. Init => DayTypes BY DayInit
<1> QED BY <1>1, DayTypesNext, PTL DEF Spec

\* Receipts, cheques, decisions and settlements are always what the code takes them for.
THEOREM DayTypeCorrect == Spec => []TypeOK
<1>1. DayTypes => TypeOK BY ReceiptTypesAre DEF DayTypes, BookTypes, TypeOK
<1> QED BY <1>1, DayTypesHold, PTL

\* However decisions on one request overlap, an approved request has its voucher; while
\* it is pending every voucher made from it is one whose decision is still to be saved;
\* and it has no more than one from each decision in hand at a time, none from the one
\* that rejected or cancelled it, unless an execution was cut off (ApprovalsService.approve).
THEOREM ApprovedHolds == Spec => []ApprovedIsExecuted
<1>1. Init => DayTypes /\ DecisionInv BY DayInit
<1>2. DayTypes /\ DecisionInv /\ [Next]_vars => DayTypes' /\ DecisionInv'
  <2> SUFFICES ASSUME DayTypes, DecisionInv, [Next]_vars PROVE DayTypes' /\ DecisionInv'
    OBVIOUS
  <2>1. DayTypes' BY DayTypesNext
  <2>2. A!TypeOK /\ A!TypeOK' BY <2>1 DEF DayTypes
  <2>3. ASSUME A!Request \/ A!Restart PROVE DecisionInv' BY <2>2, <2>3, DecisionStep
  <2>4. ASSUME UNCHANGED approvals PROVE DecisionInv'
    <3>1. UNCHANGED <<request, review, vouchers, cutOff>> BY <2>4 DEF approvals
    <3> QED
      BY <3>1 DEF DecisionInv, DecisionsFit, Refused, A!Executed, Open, IsOpen
  <2> QED BY <2>1, <2>3, <2>4, Steps
<1>3. DayTypes /\ DecisionInv => ApprovedIsExecuted
  BY DecisionsImply DEF DayTypes, ApprovedIsExecuted
<1> QED BY <1>1, <1>2, <1>3, PTL DEF Spec

LEMMA ReceiptsNext ==
  ASSUME DayTypes, ReceiptInv, [Next]_vars
  PROVE  ReceiptInv' /\ \A c \in Receipts : Keeps(c) \/ C!OvertakenSave(c)
<1>1. ReceiptTypes BY DEF DayTypes
<1>2. ASSUME NEW q \in ReceiptRequests, C!Request(q)
      PROVE  ReceiptInv' /\ \A c \in Receipts : Keeps(c) \/ C!OvertakenSave(c)
  BY <1>1, <1>2, ReceiptsStep
<1>3. ASSUME C!Restart
      PROVE  ReceiptInv' /\ \A c \in Receipts : Keeps(c)
  BY <1>3, ReceiptsRestartKeeps
<1>4. ASSUME UNCHANGED receipts
      PROVE  ReceiptInv' /\ \A c \in Receipts : Keeps(c)
  <2>1. UNCHANGED <<receipt, cheque, req>> BY <1>4 DEF receipts
  <2>2. \A c \in Receipts : Keeps(c) BY <2>1, Untouched
  <2> QED BY <2>1, <2>2 DEF ReceiptInv, Grounded, WithCheque
<1> QED BY <1>2, <1>3, <1>4, Steps

\* A receipt by cheque counts only once a mismatch between the amount and its words was
\* reconciled, and stays so, but for the save of a request that another one overtook
\* (CollectionsService.create, update, confirm; ChequesService.reconcile).
THEOREM ReconciledHolds == Spec => TakenIsReconciled
<1>1. Init => DayTypes /\ ReceiptInv BY DayInit
<1>2. DayTypes /\ ReceiptInv /\ [Next]_vars => DayTypes' /\ ReceiptInv'
  BY DayTypesNext, ReceiptsNext
<1>3. DayTypes /\ ReceiptInv /\ [Next]_vars =>
        [\A c \in Receipts : C!Reconciled(c) => C!Reconciled(c)' \/ C!OvertakenSave(c)]_(C!vars)
  BY ReceiptsNext, KeptIs
<1> QED BY <1>1, <1>2, <1>3, PTL DEF Spec, TakenIsReconciled, C!TakenIsReconciled

\* A receipt that counts keeps its amount and its method and never goes back to pending,
\* but for the save of a request that another one overtook (CollectionsService.update,
\* confirm, batchDeposit).
THEOREM FrozenHolds == Spec => TakenIsFrozen
<1>1. Init => DayTypes /\ ReceiptInv BY DayInit
<1>2. DayTypes /\ ReceiptInv /\ [Next]_vars => DayTypes' /\ ReceiptInv'
  BY DayTypesNext, ReceiptsNext
<1>3. DayTypes /\ ReceiptInv /\ [Next]_vars =>
        [\A c \in Receipts : C!Taken(c) =>
           \/ C!Taken(c)' /\ receipt'[c].amount = receipt[c].amount
                          /\ receipt'[c].method = receipt[c].method
           \/ C!OvertakenSave(c)]_(C!vars)
  BY ReceiptsNext, KeptIs
<1> QED BY <1>1, <1>2, <1>3, PTL DEF Spec, TakenIsFrozen, C!TakenIsFrozen

LEMMA VouchersStay ==
  ASSUME A!TypeOK, [Next]_vars
  PROVE  \A a \in SaleRequests : vouchers'[a] >= vouchers[a]
<1>1. vouchers \in [SaleRequests -> Nat] BY DEF A!TypeOK
<1>2. CASE UNCHANGED vouchers BY <1>1, <1>2
<1>3. ASSUME NEW v \in Reviews, A!Execute(v)
      PROVE  \A a \in SaleRequests : vouchers'[a] >= vouchers[a]
  <2>1. UNCHANGED vouchers \/ vouchers' = [vouchers EXCEPT ![review[v].of] = @ + 1]
    BY <1>3 DEF A!Execute
  <2> QED BY <1>1, <2>1
<1>4. UNCHANGED vouchers \/ \E v \in Reviews : A!Execute(v)
  BY Steps DEF A!Request, A!File, A!LoseVoucher, A!Decide, A!Read, A!Restart, approvals
<1> QED BY <1>2, <1>3, <1>4

\* What a settlement counted is never lost from the books of its period, but for the save
\* of a receipt by a request that another one overtook (ReportsService.settle).
THEOREM SettledHolds == Spec => SettledIsCovered
<1>1. Init => DayTypes /\ ReceiptInv BY DayInit
<1>2. DayTypes /\ ReceiptInv /\ [Next]_vars => DayTypes' /\ ReceiptInv'
  BY DayTypesNext, ReceiptsNext
<1>3. DayTypes /\ ReceiptInv /\ [Next]_vars =>
        [\A n \in DOMAIN settlements :
           Covered(n) => Covered(n)' \/ \E c \in Receipts : C!OvertakenSave(c)]_vars
  <2> SUFFICES ASSUME DayTypes, ReceiptInv, [Next]_vars, NEW n \in DOMAIN settlements,
                      Covered(n), \A c \in Receipts : ~C!OvertakenSave(c)
               PROVE  Covered(n)'
    OBVIOUS
  <2>1. DayTypes' BY DayTypesNext
  <2>2. /\ ReceiptTypes /\ A!TypeOK /\ ReceiptTypes' /\ A!TypeOK' /\ BookTypes
    BY <2>1 DEF DayTypes
  <2>3. \A c \in Receipts : Keeps(c) BY ReceiptsNext
  <2>4. \A a \in SaleRequests : vouchers'[a] >= vouchers[a] BY <2>2, VouchersStay
  <2>5. PICK period : period = settlements[n].period OBVIOUS
  <2>6. /\ settlements'[n] = settlements[n] /\ settlements[n].cashIn \in Nat
        /\ period \in SUBSET (Receipts \cup SaleRequests)
    BY <2>2, <2>5, BooksKept, Steps
  <2>7. /\ CashIn(period) \in Int /\ CashIn(period)' \in Int
        /\ CashIn(period)' >= CashIn(period)
    BY <2>2, <2>3, <2>4, <2>6, CashGrows
  <2>8. CashIn(period) >= settlements[n].cashIn BY <2>5 DEF Covered
  <2>9. CashIn(period)' >= settlements[n].cashIn BY <2>6, <2>7, <2>8
  <2>10. CashIn(settlements[n].period)' = CashIn(period)'
    BY <2>5, <2>6 DEF CashIn, Sold
  <2> QED BY <2>6, <2>9, <2>10 DEF Covered
<1> QED BY <1>1, <1>2, <1>3, PTL DEF Spec, SettledIsCovered
=============================================================================
