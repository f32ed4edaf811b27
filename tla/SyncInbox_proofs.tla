-------------------------- MODULE SyncInbox_proofs --------------------------
(***************************************************************************)
(* Proofs about SyncInbox, for any number of handlers, rows and documents  *)
(* and with crashes at any step.                                           *)
(*                                                                         *)
(* NumberedOnce is not inductive: it needs the unique voucher number, that *)
(* a numbered document is in the books exactly when its number is.         *)
(* PostedIsInBooks needs that a handler and the row it works on agree on   *)
(* the document although both may have changed since it read the row, for  *)
(* which a row id is in nobody else's hands until it is first saved.       *)
(***************************************************************************)
EXTENDS SyncInbox, TLAPS

\* A numbered voucher is in the books once if its number is, else not at all.
NumbersAreBooks ==
  \A d \in Numbered : copies[d] = IF d \in numbers THEN 1 ELSE 0

\* A handler at work has a row and a document.
HandsAreFull ==
  \A h \in Handlers :
    handler[h].at # "idle" => handler[h].row \in Rows /\ handler[h].doc \in Docs

\* A row not saved yet is its handler's alone.
CheckedIsPrivate ==
  \A h \in Handlers : handler[h].at = "checked" =>
    /\ inbox[handler[h].row] = None
    /\ \A o \in Handlers \ {h} : handler[o].row # handler[h].row

\* Whoever works on a row, and the row itself, agree on its document.
HandsAgree ==
  \A h \in Handlers : handler[h].at # "idle" =>
    /\ inbox[handler[h].row] # None => inbox[handler[h].row].doc = handler[h].doc
    /\ \A o \in Handlers :
         (handler[o].at # "idle" /\ handler[o].row = handler[h].row)
           => handler[o].doc = handler[h].doc

\* What a handler created is in the books.
CreatedIsInBooks ==
  \A h \in Handlers : handler[h].at = "created" => copies[handler[h].doc] > 0

\* Two rows with one clientRef are the same row.
RefIsUnique ==
  \A d \in Referenced : \A r1, r2 \in RowsOf(d) : r1 = r2

IInv ==
  /\ TypeOK
  /\ NumbersAreBooks
  /\ HandsAreFull
  /\ CheckedIsPrivate
  /\ HandsAgree
  /\ CreatedIsInBooks
  /\ PostedIsInBooks
  /\ RefIsUnique

-----------------------------------------------------------------------------
\* Before any request the invariant holds.
LEMMA InitInv == Init => IInv
<1> SUFFICES ASSUME Init PROVE IInv
  OBVIOUS
<1> USE InboxAssumption DEF Init
<1>1. TypeOK
  BY DEF TypeOK, Idle, Handler, InboxRow
<1>2. NumbersAreBooks
  BY DEF NumbersAreBooks, Docs
<1>3. HandsAreFull /\ CheckedIsPrivate /\ HandsAgree /\ CreatedIsInBooks
  BY DEF HandsAreFull, CheckedIsPrivate, HandsAgree, CreatedIsInBooks, Idle
<1>4. PostedIsInBooks /\ RefIsUnique
  BY DEF PostedIsInBooks, RefIsUnique, RowsOf
<1> QED
  BY <1>1, <1>2, <1>3, <1>4 DEF IInv

\* What a step that hands h something, or lets it go, does to the handlers.
LEMMA OneHand ==
  ASSUME TypeOK, NEW h \in Handlers, NEW entry \in Handler,
         handler' = [handler EXCEPT ![h] = entry]
  PROVE  /\ handler' \in [Handlers -> Handler]
         /\ handler'[h] = entry
         /\ \A o \in Handlers \ {h} : handler'[o] = handler[o]
BY DEF TypeOK

\* A handler may let go at any time, with the rows keeping their documents
\* and only what is in the books marked as posted.
LEMMA LetGo ==
  ASSUME IInv, NEW h \in Handlers, Finish(h), numbers' = numbers, copies' = copies,
         inbox' \in [Rows -> InboxRow \cup {None}],
         \A row \in Rows : /\ inbox'[row] = None <=> inbox[row] = None
                           /\ inbox[row] # None => inbox'[row].doc = inbox[row].doc,
         PostedIsInBooks'
  PROVE  IInv'
<1> USE DEF IInv
<1>1. /\ handler' \in [Handlers -> Handler]
      /\ handler'[h].at = "idle" /\ handler'[h].row = None
      /\ \A o \in Handlers \ {h} : handler'[o] = handler[o]
  <2>1. Idle \in Handler /\ handler' = [handler EXCEPT ![h] = Idle]
    BY DEF Finish, Idle, Handler
  <2> QED
    BY <2>1, OneHand DEF Idle
<1>2. TypeOK'
  BY <1>1 DEF TypeOK
<1>3. NumbersAreBooks'
  BY DEF NumbersAreBooks
<1>4. HandsAreFull'
  BY <1>1 DEF HandsAreFull
<1>5. CheckedIsPrivate'
  BY <1>1, InboxAssumption DEF CheckedIsPrivate, HandsAreFull
<1>6. HandsAgree'
  BY <1>1 DEF HandsAgree, HandsAreFull
<1>7. CreatedIsInBooks'
  BY <1>1 DEF CreatedIsInBooks
<1>8. RefIsUnique'
  BY DEF RefIsUnique, RowsOf
<1> QED
  BY <1>2, <1>3, <1>4, <1>5, <1>6, <1>7, <1>8

\* A new row is handed to a handler that nobody shares it with.
LEMMA IngestCheckInv ==
  ASSUME IInv, NEW h \in Handlers, NEW d \in Docs, NEW row \in Rows, IngestCheck(h, d, row)
  PROVE  IInv'
<1> DEFINE entry == [at |-> "checked", row |-> row, doc |-> d]
<1> USE DEF IInv
<1>1. /\ handler' \in [Handlers -> Handler]
      /\ handler'[h] = entry
      /\ \A o \in Handlers \ {h} : handler'[o] = handler[o]
  <2>1. entry \in Handler
    BY DEF Handler
  <2> QED
    BY <2>1, OneHand DEF IngestCheck, Become
<1>2. /\ inbox' = inbox /\ copies' = copies /\ numbers' = numbers \ {row}
      /\ inbox[row] = None /\ \A o \in Handlers : handler[o].row # row
  BY DEF IngestCheck, Fresh
<1>3. TypeOK'
  BY <1>1, <1>2 DEF TypeOK
<1>4. NumbersAreBooks'
  BY <1>2, InboxAssumption DEF NumbersAreBooks, Docs
<1>5. HandsAreFull' /\ CreatedIsInBooks'
  BY <1>1, <1>2 DEF HandsAreFull, CreatedIsInBooks
<1>6. CheckedIsPrivate'
  BY <1>1, <1>2 DEF CheckedIsPrivate
<1>7. HandsAgree'
  BY <1>1, <1>2 DEF HandsAgree
<1>8. PostedIsInBooks' /\ RefIsUnique'
  BY <1>2 DEF PostedIsInBooks, RefIsUnique, RowsOf
<1> QED
  BY <1>3, <1>4, <1>5, <1>6, <1>7, <1>8

\* Saving the row of a document keeps what the rows promise, when the row is
\* the document's already or has no other.
LEMMA SaveRow ==
  ASSUME IInv, NEW row \in Rows, NEW d \in Docs, Insertable(row, d),
         inbox' = [inbox EXCEPT ![row] = [doc |-> d, status |-> "pending"]],
         copies' = copies, inbox[row] # None => inbox[row].doc = d
  PROVE  /\ inbox' \in [Rows -> InboxRow \cup {None}]
         /\ PostedIsInBooks'
         /\ RefIsUnique'
<1> USE DEF IInv
<1>1. /\ inbox' \in [Rows -> InboxRow \cup {None}]
      /\ inbox'[row] = [doc |-> d, status |-> "pending"]
      /\ \A r \in Rows \ {row} : inbox'[r] = inbox[r]
  BY DEF TypeOK, InboxRow, Statuses
<1>2. PostedIsInBooks'
  BY <1>1 DEF PostedIsInBooks
<1>3. RefIsUnique'
  <2> SUFFICES ASSUME NEW e \in Referenced, NEW r1 \in RowsOf(e)', NEW r2 \in RowsOf(e)'
               PROVE  r1 = r2
    BY DEF RefIsUnique
  <2>1. \A r \in Rows \ {row} : r \in RowsOf(e)' => r \in RowsOf(e)
    BY <1>1 DEF RowsOf
  <2>2. row \in RowsOf(e)' => e = d
    BY <1>1 DEF RowsOf
  <2>3. e = d => RowsOf(e) \subseteq {row}
    BY DEF Insertable
  <2>4. r1 \in Rows /\ r2 \in Rows
    BY DEF RowsOf
  <2> QED
    BY <2>1, <2>2, <2>3, <2>4 DEF RefIsUnique
<1> QED
  BY <1>1, <1>2, <1>3

\* The first save of a row.
LEMMA IngestSaveInv ==
  ASSUME IInv, NEW h \in Handlers, IngestSave(h)
  PROVE  IInv'
<1> DEFINE q == handler[h]
<1> DEFINE entry == [at |-> "staged", row |-> q.row, doc |-> q.doc]
<1> USE DEF IInv
<1>1. q.at = "checked" /\ q.row \in Rows /\ q.doc \in Docs
  BY DEF IngestSave, HandsAreFull
<1>2. /\ handler' \in [Handlers -> Handler]
      /\ handler'[h] = entry
      /\ \A o \in Handlers \ {h} : handler'[o] = handler[o]
  <2>1. entry \in Handler
    BY <1>1 DEF Handler
  <2> QED
    BY <2>1, OneHand DEF IngestSave, Become
<1>3. inbox[q.row] = None /\ \A o \in Handlers \ {h} : handler[o].row # q.row
  BY <1>1 DEF CheckedIsPrivate
<1>4. /\ inbox' = [inbox EXCEPT ![q.row] = [doc |-> q.doc, status |-> "pending"]]
      /\ copies' = copies /\ numbers' = numbers /\ Insertable(q.row, q.doc)
  BY DEF IngestSave
<1>5. inbox' \in [Rows -> InboxRow \cup {None}] /\ PostedIsInBooks' /\ RefIsUnique'
  BY <1>1, <1>3, <1>4, SaveRow
<1>6. TypeOK'
  BY <1>2, <1>4, <1>5 DEF TypeOK
<1>7. NumbersAreBooks' /\ HandsAreFull' /\ CreatedIsInBooks'
  BY <1>1, <1>2, <1>4 DEF NumbersAreBooks, HandsAreFull, CreatedIsInBooks
<1>8. \A r \in Rows \ {q.row} : inbox'[r] = inbox[r]
  BY <1>4 DEF TypeOK
<1>9. inbox'[q.row].doc = q.doc
  BY <1>1, <1>4 DEF TypeOK
<1>10. CheckedIsPrivate'
  BY <1>1, <1>2, <1>3, <1>8 DEF CheckedIsPrivate, HandsAreFull
<1>11. HandsAgree'
  BY <1>1, <1>2, <1>3, <1>8, <1>9 DEF HandsAgree, HandsAreFull
<1> QED
  BY <1>5, <1>6, <1>7, <1>10, <1>11

\* A handler that takes a stored row up, to promote it again or to edit it.
LEMMA TakeRowInv ==
  ASSUME IInv, NEW h \in Handlers, NEW row \in Rows, NEW at \in {"staged", "editing"},
         inbox[row] # None, Become(h, at, row, inbox[row].doc),
         inbox' = inbox, copies' = copies, numbers' = numbers
  PROVE  IInv'
<1> DEFINE entry == [at |-> at, row |-> row, doc |-> inbox[row].doc]
<1> USE DEF IInv
<1>1. inbox[row].doc \in Docs
  BY DEF TypeOK, InboxRow
<1>2. /\ handler' \in [Handlers -> Handler]
      /\ handler'[h] = entry
      /\ \A o \in Handlers \ {h} : handler'[o] = handler[o]
  <2>1. entry \in Handler
    BY <1>1 DEF Handler
  <2> QED
    BY <2>1, OneHand DEF Become
<1>3. TypeOK'
  BY <1>2 DEF TypeOK
<1>4. NumbersAreBooks' /\ HandsAreFull' /\ CreatedIsInBooks'
  BY <1>1, <1>2 DEF NumbersAreBooks, HandsAreFull, CreatedIsInBooks
<1>5. CheckedIsPrivate'
  BY <1>2 DEF CheckedIsPrivate
<1>6. HandsAgree'
  BY <1>2 DEF HandsAgree
<1>7. PostedIsInBooks' /\ RefIsUnique'
  BY DEF PostedIsInBooks, RefIsUnique, RowsOf
<1> QED
  BY <1>3, <1>4, <1>5, <1>6, <1>7

\* A promotion goes on, with the books ahead of where they were.
LEMMA GoOnInv ==
  ASSUME IInv, NEW h \in Handlers, NEW at \in {"created", "rejected"},
         handler[h].at = "staged", Become(h, at, handler[h].row, handler[h].doc),
         inbox' = inbox, copies' \in [Docs -> Nat], numbers' \subseteq Numbered \cup Rows,
         \A d \in Docs : copies'[d] >= copies[d],
         at = "created" => copies'[handler[h].doc] > 0,
         NumbersAreBooks'
  PROVE  IInv'
<1> DEFINE q == handler[h]
<1> DEFINE entry == [at |-> at, row |-> q.row, doc |-> q.doc]
<1> USE DEF IInv
<1>1. q.row \in Rows /\ q.doc \in Docs
  BY DEF HandsAreFull
<1>2. /\ handler' \in [Handlers -> Handler]
      /\ handler'[h] = entry
      /\ \A o \in Handlers \ {h} : handler'[o] = handler[o]
  <2>1. entry \in Handler
    BY <1>1 DEF Handler
  <2> QED
    BY <2>1, OneHand DEF Become
<1>3. TypeOK'
  BY <1>2 DEF TypeOK
<1>4. HandsAreFull'
  BY <1>1, <1>2 DEF HandsAreFull
<1>5. CreatedIsInBooks'
  <2> SUFFICES ASSUME NEW o \in Handlers, handler'[o].at = "created"
               PROVE  copies'[handler'[o].doc] > 0
    BY DEF CreatedIsInBooks
  <2>1. CASE o = h
    BY <1>2, <2>1
  <2>2. CASE o # h
    <3>1. handler[o].at = "created" /\ handler'[o] = handler[o]
      BY <1>2, <2>2
    <3>2. copies[handler[o].doc] > 0 /\ handler[o].doc \in Docs
      BY <3>1 DEF CreatedIsInBooks, HandsAreFull
    <3>3. copies[handler[o].doc] \in Nat /\ copies'[handler[o].doc] \in Nat
      BY <3>2 DEF TypeOK
    <3> QED
      BY <3>1, <3>2, <3>3
  <2> QED
    BY <2>1, <2>2
<1>6. CheckedIsPrivate'
  BY <1>2 DEF CheckedIsPrivate
<1>7. HandsAgree'
  BY <1>2 DEF HandsAgree
<1>8. PostedIsInBooks'
  <2> SUFFICES ASSUME NEW row \in Rows, inbox[row] # None, inbox[row].status = "posted"
               PROVE  copies'[inbox[row].doc] > 0
    BY DEF PostedIsInBooks
  <2>1. copies[inbox[row].doc] > 0 /\ inbox[row].doc \in Docs
    BY DEF PostedIsInBooks, TypeOK, InboxRow
  <2>2. copies[inbox[row].doc] \in Nat /\ copies'[inbox[row].doc] \in Nat
    BY <2>1 DEF TypeOK
  <2> QED
    BY <2>1, <2>2
<1>9. RefIsUnique'
  BY DEF RefIsUnique, RowsOf
<1> QED
  BY <1>3, <1>4, <1>5, <1>6, <1>7, <1>8, <1>9

\* A voucher that is created was not in the books under its number.
LEMMA VoucherEnters ==
  ASSUME IInv, NEW h \in Handlers, CreateVoucher(h)
  PROVE  /\ copies' \in [Docs -> Nat]
         /\ numbers' \subseteq Numbered \cup Rows
         /\ copies'[handler[h].doc] = copies[handler[h].doc] + 1
         /\ \A d \in Docs \ {handler[h].doc} : copies'[d] = copies[d]
         /\ handler[h].doc \in Numbered => copies[handler[h].doc] = 0
         /\ NumbersAreBooks'
<1> DEFINE q == handler[h]
<1> USE DEF IInv
<1>1. q.row \in Rows /\ q.doc \in Docs
  BY DEF CreateVoucher, HandsAreFull
<1>2. /\ copies' \in [Docs -> Nat]
      /\ copies'[q.doc] = copies[q.doc] + 1
      /\ \A d \in Docs \ {q.doc} : copies'[d] = copies[d]
  BY <1>1 DEF CreateVoucher, TypeOK
<1>3. /\ numbers' = numbers \cup {NumberOf(q.row, q.doc)}
      /\ NumberOf(q.row, q.doc) \notin numbers
  BY DEF CreateVoucher
<1>4. NumberOf(q.row, q.doc) = IF q.doc \in Numbered THEN q.doc ELSE q.row
  BY DEF NumberOf
<1>5. numbers' \subseteq Numbered \cup Rows
  BY <1>1, <1>3, <1>4 DEF TypeOK
<1>6. q.doc \in Numbered => copies[q.doc] = 0
  BY <1>3, <1>4 DEF NumbersAreBooks
<1>7. NumbersAreBooks'
  <2> SUFFICES ASSUME NEW d \in Numbered
               PROVE  copies'[d] = IF d \in numbers' THEN 1 ELSE 0
    BY DEF NumbersAreBooks
  <2>1. d \in Docs /\ d \notin Rows
    BY InboxAssumption DEF Docs
  <2>2. CASE d = q.doc
    BY <2>2, <1>2, <1>3, <1>4, <1>6
  <2>3. CASE d # q.doc
    <3>1. d \in numbers' <=> d \in numbers
      BY <2>1, <2>3, <1>1, <1>3, <1>4
    <3> QED
      BY <3>1, <2>1, <2>3, <1>2 DEF NumbersAreBooks
  <2> QED
    BY <2>2, <2>3
<1> QED
  BY <1>2, <1>5, <1>6, <1>7

\* A collection that is created has no number, and leaves the numbers alone.
LEMMA CollectionEnters ==
  ASSUME IInv, NEW h \in Handlers, CreateCollection(h)
  PROVE  /\ copies' \in [Docs -> Nat]
         /\ copies'[handler[h].doc] = copies[handler[h].doc] + 1
         /\ \A d \in Docs \ {handler[h].doc} : copies'[d] = copies[d]
         /\ handler[h].doc \notin Numbered
         /\ NumbersAreBooks'
<1> USE DEF IInv
<1>1. handler[h].doc \in Docs /\ handler[h].doc \notin Numbered
  BY InboxAssumption DEF CreateCollection, Docs
<1>2. /\ copies' \in [Docs -> Nat]
      /\ copies'[handler[h].doc] = copies[handler[h].doc] + 1
      /\ \A d \in Docs \ {handler[h].doc} : copies'[d] = copies[d]
  BY <1>1 DEF CreateCollection, TypeOK
<1>3. NumbersAreBooks'
  BY <1>1, <1>2, InboxAssumption DEF CreateCollection, NumbersAreBooks, Docs
<1> QED
  BY <1>1, <1>2, <1>3

\* An edit saves the row of the document it read.
LEMMA EditSaveInv ==
  ASSUME IInv, NEW h \in Handlers, EditSave(h)
  PROVE  IInv'
<1> DEFINE q == handler[h]
<1> USE DEF IInv
<1>1. q.at = "editing" /\ q.row \in Rows /\ q.doc \in Docs
  BY DEF EditSave, HandsAreFull
<1>2. /\ handler' \in [Handlers -> Handler]
      /\ handler'[h].at = "idle" /\ handler'[h].row = None
      /\ \A o \in Handlers \ {h} : handler'[o] = handler[o]
  <2>1. Idle \in Handler /\ handler' = [handler EXCEPT ![h] = Idle]
    BY DEF EditSave, Finish, Idle, Handler
  <2> QED
    BY <2>1, OneHand DEF Idle
<1>3. inbox[q.row] # None => inbox[q.row].doc = q.doc
  BY <1>1 DEF HandsAgree
<1>4. /\ inbox' = [inbox EXCEPT ![q.row] = [doc |-> q.doc, status |-> "pending"]]
      /\ copies' = copies /\ numbers' = numbers /\ Insertable(q.row, q.doc)
  BY DEF EditSave
<1>5. inbox' \in [Rows -> InboxRow \cup {None}] /\ PostedIsInBooks' /\ RefIsUnique'
  BY <1>1, <1>3, <1>4, SaveRow
<1>6. TypeOK'
  BY <1>2, <1>4, <1>5 DEF TypeOK
<1>7. NumbersAreBooks' /\ HandsAreFull' /\ CreatedIsInBooks'
  BY <1>2, <1>4 DEF NumbersAreBooks, HandsAreFull, CreatedIsInBooks
<1>8. \A r \in Rows \ {q.row} : inbox'[r] = inbox[r]
  BY <1>4 DEF TypeOK
<1>9. inbox'[q.row].doc = q.doc
  BY <1>1, <1>4 DEF TypeOK
<1>10. CheckedIsPrivate'
  <2>1. \A o \in Handlers : handler[o].at = "checked" => handler[o].row # q.row
    BY <1>1 DEF CheckedIsPrivate
  <2> QED
    BY <2>1, <1>1, <1>2, <1>8, InboxAssumption DEF CheckedIsPrivate, HandsAreFull
<1>11. HandsAgree'
  BY <1>1, <1>2, <1>8, <1>9 DEF HandsAgree, HandsAreFull
<1> QED
  BY <1>5, <1>6, <1>7, <1>10, <1>11

\* Discarding a row takes nothing out of anyone's hands.
LEMMA DiscardInv ==
  ASSUME IInv, NEW h \in Handlers, NEW row \in Rows, Discard(h, row)
  PROVE  IInv'
<1> USE DEF IInv
<1>1. /\ inbox' \in [Rows -> InboxRow \cup {None}]
      /\ inbox'[row] = None
      /\ \A r \in Rows \ {row} : inbox'[r] = inbox[r]
      /\ copies' = copies /\ numbers' = numbers /\ handler' = handler
  BY DEF Discard, TypeOK
<1>2. TypeOK'
  BY <1>1 DEF TypeOK
<1>3. NumbersAreBooks' /\ HandsAreFull' /\ CreatedIsInBooks'
  BY <1>1 DEF NumbersAreBooks, HandsAreFull, CreatedIsInBooks
<1>4. CheckedIsPrivate' /\ HandsAgree'
  BY <1>1 DEF CheckedIsPrivate, HandsAgree, HandsAreFull
<1>5. PostedIsInBooks'
  BY <1>1 DEF PostedIsInBooks
<1>6. RefIsUnique'
  BY <1>1 DEF RefIsUnique, RowsOf
<1> QED
  BY <1>2, <1>3, <1>4, <1>5, <1>6

-----------------------------------------------------------------------------
\* Every step keeps the invariant.
LEMMA NextInv == IInv /\ [Next]_vars => IInv'
<1> SUFFICES ASSUME IInv, [Next]_vars PROVE IInv'
  OBVIOUS
<1>1. ASSUME NEW h \in Handlers, NEW row \in Rows, NEW d \in Docs, IngestCheck(h, d, row)
      PROVE  IInv'
  BY <1>1, IngestCheckInv
<1>2. ASSUME NEW h \in Handlers, NEW row \in Rows, Retry(h, row)
      PROVE  IInv'
  BY <1>2, TakeRowInv DEF Retry
<1>3. ASSUME NEW h \in Handlers, NEW row \in Rows, EditRead(h, row)
      PROVE  IInv'
  BY <1>3, TakeRowInv DEF EditRead
<1>4. ASSUME NEW h \in Handlers, NEW row \in Rows, Discard(h, row)
      PROVE  IInv'
  BY <1>4, DiscardInv
<1>5. ASSUME NEW h \in Handlers, IngestSave(h)
      PROVE  IInv'
  BY <1>5, IngestSaveInv
<1>6. ASSUME NEW h \in Handlers, IngestRefused(h) \/ Crash(h)
      PROVE  IInv'
  <2>1. Finish(h) /\ inbox' = inbox /\ copies' = copies /\ numbers' = numbers
    BY <1>6 DEF IngestRefused, Crash
  <2>2. inbox' \in [Rows -> InboxRow \cup {None}] /\ PostedIsInBooks'
    BY <2>1 DEF IInv, TypeOK, PostedIsInBooks
  <2> QED
    BY <2>1, <2>2, LetGo
<1>7. ASSUME NEW h \in Handlers, CreateVoucher(h)
      PROVE  IInv'
  <2>1. handler[h].doc \in Docs
    BY <1>7 DEF IInv, HandsAreFull, CreateVoucher
  <2>2. \A d \in Docs : copies'[d] >= copies[d]
    BY <1>7, VoucherEnters DEF IInv, TypeOK
  <2>3. copies'[handler[h].doc] > 0
    BY <1>7, <2>1, VoucherEnters DEF IInv, TypeOK
  <2> QED
    BY <1>7, <2>2, <2>3, VoucherEnters, GoOnInv DEF CreateVoucher
<1>8. ASSUME NEW h \in Handlers, CreateCollection(h)
      PROVE  IInv'
  <2>1. handler[h].doc \in Docs
    BY <1>8 DEF IInv, HandsAreFull, CreateCollection
  <2>2. \A d \in Docs : copies'[d] >= copies[d]
    BY <1>8, CollectionEnters DEF IInv, TypeOK
  <2>3. copies'[handler[h].doc] > 0
    BY <1>8, <2>1, CollectionEnters DEF IInv, TypeOK
  <2>4. numbers' \subseteq Numbered \cup Rows
    BY <1>8 DEF CreateCollection, IInv, TypeOK
  <2> QED
    BY <1>8, <2>2, <2>3, <2>4, CollectionEnters, GoOnInv DEF CreateCollection
<1>9. ASSUME NEW h \in Handlers, CreateRejected(h)
      PROVE  IInv'
  <2>1. /\ copies' \in [Docs -> Nat] /\ numbers' \subseteq Numbered \cup Rows
        /\ \A d \in Docs : copies'[d] >= copies[d]
        /\ NumbersAreBooks'
    BY <1>9 DEF CreateRejected, IInv, TypeOK, NumbersAreBooks
  <2> QED
    BY <1>9, <2>1, GoOnInv DEF CreateRejected
<1>10. ASSUME NEW h \in Handlers, MarkPosted(h) \/ MarkFailed(h)
       PROVE  IInv'
  <2> DEFINE row == handler[h].row
  <2>1. PICK at \in {"created", "rejected"}, status \in {"posted", "failed"} :
          Mark(h, at, status) /\ (status = "posted" => at = "created")
    BY <1>10 DEF MarkPosted, MarkFailed
  <2>2. row \in Rows /\ handler[h].at = at
    BY <2>1 DEF Mark, IInv, HandsAreFull
  <2>3. CASE inbox[row] = None
    <3>1. Finish(h) /\ inbox' = inbox /\ copies' = copies /\ numbers' = numbers
      BY <2>1, <2>3 DEF Mark
    <3>2. inbox' \in [Rows -> InboxRow \cup {None}] /\ PostedIsInBooks'
      BY <3>1 DEF IInv, TypeOK, PostedIsInBooks
    <3> QED
      BY <3>1, <3>2, LetGo
  <2>4. CASE inbox[row] # None
    <3>1. /\ Finish(h) /\ copies' = copies /\ numbers' = numbers
          /\ inbox' = [inbox EXCEPT ![row].status = status]
      BY <2>1, <2>4 DEF Mark
    <3>2. inbox[row] \in InboxRow
      BY <2>2, <2>4 DEF IInv, TypeOK
    <3>3. /\ inbox' \in [Rows -> InboxRow \cup {None}]
          /\ inbox'[row] \in InboxRow
          /\ inbox'[row].status = status /\ inbox'[row].doc = inbox[row].doc
          /\ \A r \in Rows \ {row} : inbox'[r] = inbox[r]
      BY <2>1, <2>2, <3>1, <3>2 DEF IInv, TypeOK, InboxRow, Statuses
    <3>4. inbox'[row] # None
      BY <3>3, NoneIsNoRow
    <3>5. at = "created" => copies[inbox[row].doc] > 0
      BY <2>2, <2>4 DEF IInv, HandsAgree, CreatedIsInBooks
    <3>6. PostedIsInBooks'
      BY <2>1, <3>1, <3>3, <3>5 DEF IInv, PostedIsInBooks
    <3> QED
      BY <2>4, <3>1, <3>3, <3>4, <3>6, LetGo
  <2> QED
    BY <2>3, <2>4
<1>11. ASSUME NEW h \in Handlers, EditSave(h)
       PROVE  IInv'
  BY <1>11, EditSaveInv
<1>12. ASSUME UNCHANGED vars
       PROVE  IInv'
  BY <1>12 DEF vars, IInv, TypeOK, NumbersAreBooks, HandsAreFull, CheckedIsPrivate,
               HandsAgree, CreatedIsInBooks, PostedIsInBooks, RefIsUnique, RowsOf
<1> QED
  BY <1>1, <1>2, <1>3, <1>4, <1>5, <1>6, <1>7, <1>8, <1>9, <1>10, <1>11, <1>12
  DEF Next, IngestReplay

\* The invariant holds in every state of every behaviour.
THEOREM Inductive == Spec => []IInv
BY InitInv, NextInv, PTL DEF Spec

\* Inbox rows, counts, numbers and handlers keep their types.
THEOREM TypeCorrect == Spec => []TypeOK
<1>1. IInv => TypeOK
  BY DEF IInv
<1> QED
  BY <1>1, Inductive, PTL

\* A voucher that carries the app's own number enters the books at most once,
\* for any number of replays, retries, edits, discards and crashes.
THEOREM NumberedEntersOnce == Spec => []NumberedOnce
<1>1. IInv => NumberedOnce
  BY DEF IInv, NumbersAreBooks, NumberedOnce
<1> QED
  BY <1>1, Inductive, PTL

\* An inbox row that says posted has its document in the books, even though
\* the row is marked by id, by handlers that read it long ago.
THEOREM PostedIsThere == Spec => []PostedIsInBooks
<1>1. IInv => PostedIsInBooks
  BY DEF IInv
<1> QED
  BY <1>1, Inductive, PTL

-----------------------------------------------------------------------------
\* A handler that promotes a document holds it.
Promoting == {"staged", "created", "rejected"}

\* A step whose rows and handlers are about one document leaves what the
\* server holds of the others alone.
LEMMA OnlyAbout ==
  ASSUME NEW d \in Docs,
         \A r \in Rows : \/ inbox'[r] = inbox[r]
                         \/ /\ inbox[r] # None => inbox[r].doc = d
                            /\ inbox'[r] # None => inbox'[r].doc = d,
         \A h \in Handlers : \/ handler'[h] = handler[h]
                             \/ /\ handler[h].at \in Promoting => handler[h].doc = d
                                /\ handler'[h].at \in Promoting => handler'[h].doc = d
  PROVE  \A e \in Docs \ {d} : e \in Held' <=> e \in Held
<1> SUFFICES ASSUME NEW e \in Docs \ {d} PROVE e \in Held' <=> e \in Held
  OBVIOUS
<1>1. RowsOf(e)' = RowsOf(e)
  BY DEF RowsOf
<1>2. \A h \in Handlers :
        (handler'[h].at \in Promoting /\ handler'[h].doc = e)
          <=> (handler[h].at \in Promoting /\ handler[h].doc = e)
  OBVIOUS
<1> QED
  BY <1>1, <1>2 DEF Held, Promoting

\* Holding or dropping one document, with the books untouched, is a step of
\* the intake or none at all.
LEMMA HoldOrDrop ==
  ASSUME NEW d \in Docs, \A e \in Docs \ {d} : e \in Held' <=> e \in Held,
         copies' = copies
  PROVE  Intake!Next \/ UNCHANGED <<Held \cap Numbered, [e \in Numbered |-> copies[e]]>>
<1>1. Numbered \subseteq Docs /\ Held \subseteq Docs /\ Held' \subseteq Docs
  BY InboxAssumption DEF Docs, Held
<1>2. CASE d \in Numbered /\ d \in Held'
  <2>1. (Held \cap Numbered)' = (Held \cap Numbered) \cup {d}
    BY <1>1, <1>2
  <2>2. Intake!Stage(d)
    BY <2>1 DEF Intake!Stage
  <2> QED
    BY <1>2, <2>2 DEF Intake!Next
<1>3. CASE d \in Numbered /\ d \notin Held'
  <2>1. (Held \cap Numbered)' = (Held \cap Numbered) \ {d}
    BY <1>1, <1>3
  <2>2. Intake!Drop(d)
    BY <2>1 DEF Intake!Drop
  <2> QED
    BY <1>3, <2>2 DEF Intake!Next
<1>4. CASE d \notin Numbered
  BY <1>1, <1>4
<1> QED
  BY <1>2, <1>3, <1>4

\* What creating a document does to what the server holds: nothing.
LEMMA CreatedStaysHeld ==
  ASSUME IInv, NEW h \in Handlers, handler[h].at = "staged", inbox' = inbox,
         Become(h, "created", handler[h].row, handler[h].doc)
  PROVE  Held' = Held
<1> DEFINE entry == [at |-> "created", row |-> handler[h].row, doc |-> handler[h].doc]
<1>1. entry \in Handler
  BY DEF IInv, HandsAreFull, Handler
<1>2. /\ handler'[h] = entry
      /\ \A o \in Handlers \ {h} : handler'[o] = handler[o]
  BY <1>1, OneHand DEF IInv, Become
<1>3. \A o \in Handlers :
        /\ handler'[o].at \in Promoting <=> handler[o].at \in Promoting
        /\ handler'[o].at \in Promoting => handler'[o].doc = handler[o].doc
  BY <1>2 DEF Promoting
<1> QED
  BY <1>3 DEF Held, RowsOf, Promoting

\* A step about the document in a handler's hands, which it goes on with or
\* lets go.
LEMMA AboutHand ==
  ASSUME IInv, NEW h \in Handlers, handler[h].at # "idle", copies' = copies,
         \/ Finish(h)
         \/ \E at \in {"staged", "rejected"} : Become(h, at, handler[h].row, handler[h].doc),
         \A r \in Rows : \/ inbox'[r] = inbox[r]
                         \/ /\ inbox[r] # None => inbox[r].doc = handler[h].doc
                            /\ inbox'[r] # None => inbox'[r].doc = handler[h].doc
  PROVE  Intake!Next \/ UNCHANGED <<Held \cap Numbered, [e \in Numbered |-> copies[e]]>>
<1>1. handler[h].doc \in Docs /\ handler[h].row \in Rows
  BY DEF IInv, HandsAreFull
<1>2. /\ handler'[h].at \in Promoting => handler'[h].doc = handler[h].doc
      /\ \A o \in Handlers \ {h} : handler'[o] = handler[o]
  <2>1. CASE Finish(h)
    <3>1. Idle \in Handler /\ handler' = [handler EXCEPT ![h] = Idle]
      BY <2>1 DEF Finish, Idle, Handler
    <3> QED
      BY <3>1, OneHand DEF IInv, Idle, Promoting
  <2>2. ASSUME NEW at \in {"staged", "rejected"},
               Become(h, at, handler[h].row, handler[h].doc)
        PROVE  /\ handler'[h].at \in Promoting => handler'[h].doc = handler[h].doc
               /\ \A o \in Handlers \ {h} : handler'[o] = handler[o]
    <3> DEFINE entry == [at |-> at, row |-> handler[h].row, doc |-> handler[h].doc]
    <3>1. entry \in Handler
      BY <1>1 DEF Handler
    <3> QED
      BY <2>2, <3>1, OneHand DEF IInv, Become
  <2> QED
    BY <2>1, <2>2
<1> QED
  BY <1>1, <1>2, OnlyAbout, HoldOrDrop

\* A step that leaves rows, books and the handlers that promote alone.
LEMMA NobodyPromotes ==
  ASSUME IInv, NEW h \in Handlers, handler[h].at \notin Promoting, copies' = copies,
         inbox' = inbox, NEW at \in {"checked", "editing"},
         NEW row \in Rows, NEW d \in Docs, Become(h, at, row, d)
  PROVE  UNCHANGED <<Held \cap Numbered, [e \in Numbered |-> copies[e]]>>
<1> DEFINE entry == [at |-> at, row |-> row, doc |-> d]
<1>1. entry \in Handler
  BY DEF Handler
<1>2. /\ handler'[h] = entry
      /\ \A o \in Handlers \ {h} : handler'[o] = handler[o]
  BY <1>1, OneHand DEF IInv, Become
<1>3. \A o \in Handlers :
        \/ handler'[o] = handler[o]
        \/ handler'[o].at \notin Promoting /\ handler[o].at \notin Promoting
  BY <1>2 DEF Promoting
<1>4. Held' = Held
  BY <1>3 DEF Held, RowsOf, Promoting
<1> QED
  BY <1>4

\* Every step of the inbox is a step of the intake it promises, or none.
LEMMA StepIsIntake ==
  IInv /\ [Next]_vars
    => [Intake!Next]_<<Held \cap Numbered, [d \in Numbered |-> copies[d]]>>
<1> DEFINE Promised == \/ Intake!Next
                       \/ UNCHANGED <<Held \cap Numbered, [d \in Numbered |-> copies[d]]>>
<1> SUFFICES ASSUME IInv, [Next]_vars PROVE Promised
  OBVIOUS
<1>1. ASSUME NEW h \in Handlers, NEW row \in Rows, NEW d \in Docs, IngestCheck(h, d, row)
      PROVE  Promised
  BY <1>1, NobodyPromotes DEF IngestCheck, Promoting
<1>2. ASSUME NEW h \in Handlers, NEW row \in Rows, Retry(h, row)
      PROVE  Promised
  <2> DEFINE d == inbox[row].doc
  <2> DEFINE entry == [at |-> "staged", row |-> row, doc |-> d]
  <2>1. d \in Docs /\ handler[h].at = "idle"
    BY <1>2 DEF Retry, IInv, TypeOK, InboxRow
  <2>2. entry \in Handler
    BY <2>1 DEF Handler
  <2>3. /\ handler'[h] = entry
        /\ \A o \in Handlers \ {h} : handler'[o] = handler[o]
    BY <1>2, <2>2, OneHand DEF Retry, Become, IInv
  <2>4. inbox' = inbox /\ copies' = copies
    BY <1>2 DEF Retry
  <2>5. \A e \in Docs \ {d} : e \in Held' <=> e \in Held
    BY <2>1, <2>3, <2>4, OnlyAbout DEF Promoting
  <2> QED
    BY <2>1, <2>4, <2>5, HoldOrDrop
<1>3. ASSUME NEW h \in Handlers, NEW row \in Rows, EditRead(h, row)
      PROVE  Promised
  <2>1. inbox[row].doc \in Docs
    BY <1>3 DEF EditRead, IInv, TypeOK, InboxRow
  <2> QED
    BY <1>3, <2>1, NobodyPromotes DEF EditRead, Promoting
<1>4. ASSUME NEW h \in Handlers, NEW row \in Rows, Discard(h, row)
      PROVE  Promised
  <2> DEFINE d == inbox[row].doc
  <2>1. /\ d \in Docs
        /\ inbox'[row] = None
        /\ \A r \in Rows \ {row} : inbox'[r] = inbox[r]
        /\ copies' = copies /\ handler' = handler
    BY <1>4 DEF Discard, IInv, TypeOK, InboxRow
  <2>2. \A e \in Docs \ {d} : e \in Held' <=> e \in Held
    BY <2>1, OnlyAbout
  <2> QED
    BY <2>1, <2>2, HoldOrDrop
<1>5. ASSUME NEW h \in Handlers, IngestSave(h) \/ EditSave(h)
      PROVE  Promised
  <2> DEFINE q == handler[h]
  <2>1. q.at \in {"checked", "editing"} /\ q.row \in Rows /\ q.doc \in Docs
    BY <1>5 DEF IngestSave, EditSave, IInv, HandsAreFull
  <2>2. /\ inbox' = [inbox EXCEPT ![q.row] = [doc |-> q.doc, status |-> "pending"]]
        /\ copies' = copies
        /\ Finish(h) \/ \E at \in {"staged", "rejected"} : Become(h, at, q.row, q.doc)
    BY <1>5 DEF IngestSave, EditSave
  <2>3. inbox[q.row] # None => inbox[q.row].doc = q.doc
    BY <2>1 DEF IInv, HandsAgree
  <2>4. /\ inbox'[q.row].doc = q.doc
        /\ \A r \in Rows \ {q.row} : inbox'[r] = inbox[r]
    BY <2>1, <2>2 DEF IInv, TypeOK
  <2>5. \A r \in Rows : \/ inbox'[r] = inbox[r]
                        \/ /\ inbox[r] # None => inbox[r].doc = q.doc
                           /\ inbox'[r] # None => inbox'[r].doc = q.doc
    BY <2>3, <2>4
  <2> QED
    BY <2>1, <2>2, <2>5, AboutHand
<1>6. ASSUME NEW h \in Handlers, IngestRefused(h) \/ Crash(h) \/ CreateRejected(h)
      PROVE  Promised
  BY <1>6, AboutHand DEF IngestRefused, Crash, CreateRejected
<1>7. ASSUME NEW h \in Handlers, CreateVoucher(h) \/ CreateCollection(h)
      PROVE  Promised
  <2>0. PICK doc \in Docs : doc = handler[h].doc
    BY <1>7 DEF CreateVoucher, CreateCollection, IInv, HandsAreFull
  <2>1. Numbered \subseteq Docs
    BY InboxAssumption DEF Docs
  <2>2. /\ handler[h].at = "staged" /\ inbox' = inbox
        /\ Become(h, "created", handler[h].row, doc)
    BY <1>7, <2>0 DEF CreateVoucher, CreateCollection
  <2>3. Held' = Held /\ doc \in Held
    BY <2>0, <2>2, CreatedStaysHeld DEF Held
  <2>4. /\ copies'[doc] = copies[doc] + 1
        /\ \A e \in Docs \ {doc} : copies'[e] = copies[e]
        /\ doc \in Numbered => copies[doc] = 0
    BY <1>7, <2>0, VoucherEnters, CollectionEnters
  <2>5. CASE doc \in Numbered
    <3>1. copies'[doc] = 1
      BY <2>4, <2>5
    <3>2. \A e \in Numbered : copies'[e] = IF e = doc THEN 1 ELSE copies[e]
      BY <2>1, <2>4, <3>1
    <3>3. [e \in Numbered |-> copies'[e]]
            = [[e \in Numbered |-> copies[e]] EXCEPT ![doc] = 1]
      BY <3>2
    <3>4. Intake!Enter(doc)
      BY <2>3, <2>4, <2>5, <3>3 DEF Intake!Enter
    <3>5. Intake!Next
      BY <2>5, <3>4 DEF Intake!Next
    <3> QED
      BY <3>5
  <2>6. CASE doc \notin Numbered
    <3>1. \A e \in Numbered : copies'[e] = copies[e]
      BY <2>1, <2>4, <2>6
    <3> QED
      BY <2>3, <3>1
  <2> QED
    BY <2>5, <2>6
<1>8. ASSUME NEW h \in Handlers, MarkPosted(h) \/ MarkFailed(h)
      PROVE  Promised
  <2> DEFINE row == handler[h].row
  <2>1. PICK at \in {"created", "rejected"}, status \in {"posted", "failed"} :
          Mark(h, at, status)
    BY <1>8 DEF MarkPosted, MarkFailed
  <2>2. /\ handler[h].at = at /\ row \in Rows
        /\ Finish(h) /\ copies' = copies
        /\ inbox' = IF inbox[row] = None THEN inbox
                    ELSE [inbox EXCEPT ![row].status = status]
    BY <2>1 DEF Mark, IInv, HandsAreFull
  <2>3. \A r \in Rows : \/ inbox'[r] = inbox[r]
                        \/ /\ inbox[r] # None => inbox[r].doc = handler[h].doc
                           /\ inbox'[r] # None => inbox'[r].doc = handler[h].doc
    <3>1. CASE inbox[row] = None
      BY <2>2, <3>1
    <3>2. CASE inbox[row] # None
      <4>1. inbox[row] \in InboxRow /\ inbox[row].doc = handler[h].doc
        BY <2>2, <3>2 DEF IInv, TypeOK, HandsAgree
      <4>2. /\ inbox'[row].doc = inbox[row].doc
            /\ \A r \in Rows \ {row} : inbox'[r] = inbox[r]
        BY <2>2, <3>2, <4>1 DEF IInv, TypeOK, InboxRow
      <4> QED
        BY <4>1, <4>2
    <3> QED
      BY <3>1, <3>2
  <2> QED
    BY <2>2, <2>3, AboutHand
<1>9. ASSUME UNCHANGED vars
      PROVE  Promised
  <2>1. Held' = Held /\ copies' = copies
    BY <1>9 DEF vars, Held, RowsOf
  <2> QED
    BY <2>1
<1>10. Next \/ UNCHANGED vars
  OBVIOUS
<1> QED
  BY <1>1, <1>2, <1>3, <1>4, <1>5, <1>6, <1>7, <1>8, <1>9, <1>10 DEF Next, IngestReplay

\* For the vouchers that carry their own number, the inbox keeps what a device
\* that keeps re-sending is promised: staged and dropped any number of times,
\* entered at most once, never taken out.
THEOREM KeepsThePromise == Spec => ImplementsIntake
<1>1. Init => Intake!Init
  <2> SUFFICES ASSUME Init PROVE Intake!Init
    OBVIOUS
  <2>1. Held = {}
    BY DEF Init, Held, RowsOf, Idle
  <2>2. Numbered \subseteq Docs
    BY InboxAssumption DEF Docs
  <2>3. [d \in Numbered |-> copies[d]] = [d \in Numbered |-> 0]
    BY <2>2 DEF Init
  <2> QED
    BY <2>1, <2>3 DEF Intake!Init
<1> QED
  BY <1>1, StepIsIntake, Inductive, PTL DEF Spec, ImplementsIntake, Intake!Spec

=============================================================================
