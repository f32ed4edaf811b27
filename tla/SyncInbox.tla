----------------------------- MODULE SyncInbox -----------------------------
(***************************************************************************)
(* The staging inbox mobile devices post vouchers and collections to:      *)
(* intake with de-duplication by clientRef, promotion into the main        *)
(* tables, and the dashboard's retry, edit and discard.                    *)
(* Source: sync.service.ts, voucher-inbox.entity.ts                        *)
(*                                                                         *)
(* A promotion is two transactions: the service it calls commits the       *)
(* document, then the inbox row is marked.  A handler may die between any  *)
(* two steps, and any number of handlers may work on the same row.         *)
(***************************************************************************)
EXTENDS Naturals

CONSTANTS
  Handlers,      \* requests in flight at the same time
  Rows,          \* voucher_inbox ids
  VoucherDocs,   \* documents of the devices that are vouchers
  CollectionDocs,\* documents of the devices that are collections
  Referenced,    \* documents a device sends with a clientRef
  Numbered,      \* vouchers that carry the app's own number
  MaxCopies,     \* bound of the model: copies of a document with no number
  None

Docs == VoucherDocs \cup CollectionDocs
Statuses == {"pending", "posted", "failed"}

ASSUME InboxAssumption ==
  /\ VoucherDocs \cap CollectionDocs = {}
  /\ Referenced \subseteq Docs
  /\ Numbered \subseteq VoucherDocs
  /\ Docs \cap Rows = {}
  /\ MaxCopies \in Nat \ {0}
  /\ None \notin Rows \cup Docs

VARIABLES
  inbox,     \* voucher_inbox
  copies,    \* how many vouchers or collections were created from a document
  numbers,   \* voucher numbers in voucher_headers
  handler    \* what each request in flight is doing

vars == <<inbox, copies, numbers, handler>>

InboxRow == [doc : Docs, status : Statuses]
ASSUME NoneIsNoRow == None \notin InboxRow

Idle == [at |-> "idle", row |-> None, doc |-> None]
Handler == [at : {"idle", "checked", "staged", "created", "rejected", "editing"},
            row : Rows \cup {None}, doc : Docs \cup {None}]

\* Mutants of NumberOf: every staging reserves a number; none does.
NumberOfRow(row, doc) == row
NumberOfDoc(row, doc) == doc

\* assigned_number: the app's own number, else one reserved for this row.
NumberOf(row, doc) == IF doc \in Numbered THEN doc ELSE row

RowsOf(doc) == {row \in Rows : inbox[row] # None /\ inbox[row].doc = doc}

\* Ids are never given twice: a row of the model stands for a new id once it
\* is neither stored nor in anyone's hands.
Fresh(row) == inbox[row] = None /\ \A h \in Handlers : handler[h].row # row

\* The partial unique index uq_voucher_inbox_client_ref admits this row.
Insertable(row, doc) == doc \in Referenced => RowsOf(doc) \subseteq {row}

Become(h, at, row, doc) ==
  handler' = [handler EXCEPT ![h] = [at |-> at, row |-> row, doc |-> doc]]

Finish(h) == handler' = [handler EXCEPT ![h] = Idle]

Init ==
  /\ inbox = [row \in Rows |-> None]
  /\ copies = [d \in Docs |-> 0]
  /\ numbers = {}
  /\ handler = [h \in Handlers |-> Idle]

-----------------------------------------------------------------------------
\* POST /sync/vouchers, /sync/collections: a clientRef already staged is
\* answered with the existing row, otherwise a number is reserved for the new
\* row if the document has none.
IngestCheck(h, d, row) ==
  /\ handler[h].at = "idle"
  /\ d \in Referenced => RowsOf(d) = {}
  /\ Fresh(row)
  /\ numbers' = numbers \ {row}
  /\ Become(h, "checked", row, d)
  /\ UNCHANGED <<inbox, copies>>

IngestReplay(d) ==
  /\ d \in Referenced
  /\ RowsOf(d) # {}
  /\ UNCHANGED vars

\* The row is saved as pending; a concurrent replay loses to the index.
IngestSave(h) ==
  LET q == handler[h] IN
  /\ q.at = "checked"
  /\ Insertable(q.row, q.doc)
  /\ inbox' = [inbox EXCEPT ![q.row] = [doc |-> q.doc, status |-> "pending"]]
  /\ Become(h, "staged", q.row, q.doc)
  /\ UNCHANGED <<copies, numbers>>

IngestRefused(h) ==
  /\ handler[h].at = "checked"
  /\ ~Insertable(handler[h].row, handler[h].doc)
  /\ Finish(h)
  /\ UNCHANGED <<inbox, copies, numbers>>

\* POST /sync/inbox/:id/retry, on anything not posted yet.
Retry(h, row) ==
  /\ handler[h].at = "idle"
  /\ inbox[row] # None
  /\ inbox[row].status # "posted"
  /\ Become(h, "staged", row, inbox[row].doc)
  /\ UNCHANGED <<inbox, copies, numbers>>

\* vouchers.create commits: its unique number is its natural key.
CreateVoucher(h) ==
  LET q == handler[h] IN
  /\ q.at = "staged" /\ q.doc \in VoucherDocs
  /\ NumberOf(q.row, q.doc) \notin numbers
  /\ q.doc \in Numbered \/ copies[q.doc] < MaxCopies
  /\ numbers' = numbers \cup {NumberOf(q.row, q.doc)}
  /\ copies' = [copies EXCEPT ![q.doc] = @ + 1]
  /\ Become(h, "created", q.row, q.doc)
  /\ UNCHANGED inbox

\* collections.create commits: nothing identifies the device's document.
CreateCollection(h) ==
  LET q == handler[h] IN
  /\ q.at = "staged" /\ q.doc \in CollectionDocs
  /\ copies[q.doc] < MaxCopies
  /\ copies' = [copies EXCEPT ![q.doc] = @ + 1]
  /\ Become(h, "created", q.row, q.doc)
  /\ UNCHANGED <<inbox, numbers>>

\* The service throws: no stock, validation, a number that already exists.
CreateRejected(h) ==
  /\ handler[h].at = "staged"
  /\ Become(h, "rejected", handler[h].row, handler[h].doc)
  /\ UNCHANGED <<inbox, copies, numbers>>

\* markPosted, markFailed: UPDATE by id, whatever the row says by now (and
\* nothing at all when it was discarded).
Mark(h, at, status) ==
  LET row == handler[h].row IN
  /\ handler[h].at = at
  /\ inbox' = IF inbox[row] = None THEN inbox
              ELSE [inbox EXCEPT ![row].status = status]
  /\ Finish(h)
  /\ UNCHANGED <<copies, numbers>>

\* Mutant of MarkFailed: a swallowed error looks like a success.
MarkFailedAsPosted(h) == Mark(h, "rejected", "posted")

MarkPosted(h) == Mark(h, "created", "posted")
MarkFailed(h) == Mark(h, "rejected", "failed")

\* PATCH /sync/inbox/:id: read, refuse a posted row, save the entity back as
\* pending (a row discarded meanwhile is inserted again).
EditRead(h, row) ==
  /\ handler[h].at = "idle"
  /\ inbox[row] # None
  /\ inbox[row].status # "posted"
  /\ Become(h, "editing", row, inbox[row].doc)
  /\ UNCHANGED <<inbox, copies, numbers>>

EditSave(h) ==
  LET q == handler[h] IN
  /\ q.at = "editing"
  /\ Insertable(q.row, q.doc)
  /\ inbox' = [inbox EXCEPT ![q.row] = [doc |-> q.doc, status |-> "pending"]]
  /\ Finish(h)
  /\ UNCHANGED <<copies, numbers>>

\* DELETE /sync/inbox/:id, whatever the status.
Discard(h, row) ==
  /\ handler[h].at = "idle"
  /\ inbox[row] # None
  /\ inbox' = [inbox EXCEPT ![row] = None]
  /\ UNCHANGED <<copies, numbers, handler>>

Crash(h) ==
  /\ handler[h].at # "idle"
  /\ Finish(h)
  /\ UNCHANGED <<inbox, copies, numbers>>

Next ==
  \/ \E h \in Handlers :
       \/ \E row \in Rows :
            \/ \E d \in Docs : IngestCheck(h, d, row)
            \/ Retry(h, row)
            \/ EditRead(h, row)
            \/ Discard(h, row)
       \/ IngestSave(h)
       \/ IngestRefused(h)
       \/ CreateVoucher(h)
       \/ CreateCollection(h)
       \/ CreateRejected(h)
       \/ MarkPosted(h)
       \/ MarkFailed(h)
       \/ EditSave(h)
       \/ Crash(h)
  \/ \E d \in Docs : IngestReplay(d)

Spec == Init /\ [][Next]_vars

-----------------------------------------------------------------------------
(* Properties                                                              *)

\* Rows, counts and handlers keep their types.
TypeOK ==
  /\ inbox \in [Rows -> InboxRow \cup {None}]
  /\ copies \in [Docs -> Nat]
  /\ numbers \subseteq Numbered \cup Rows
  /\ handler \in [Handlers -> Handler]

\* A voucher that carries its own number is created at most once, however
\* often it is re-sent, retried, edited or discarded and whoever crashes.
NumberedOnce == \A d \in Numbered : copies[d] <= 1

\* A row marked posted has its document in the books.
PostedIsInBooks ==
  \A row \in Rows :
    (inbox[row] # None /\ inbox[row].status = "posted") => copies[inbox[row].doc] > 0

\* A replayed document is not double-posted ("idempotency key so replays
\* don't double-post"), for every document that has a clientRef.
ReferencedOnce == \A d \in Referenced : copies[d] <= 1

\* The documents the server holds: staged rows, and those in the hands of a
\* handler that promotes them.
Held ==
  {d \in Docs :
     \/ RowsOf(d) # {}
     \/ \E h \in Handlers : /\ handler[h].at \in {"staged", "created", "rejected"}
                             /\ handler[h].doc = d}

\* The numbered vouchers among them go through the inbox as DocumentIntake
\* promises.
Intake == INSTANCE DocumentIntake
            WITH Docs <- Numbered,
                 staged <- Held \cap Numbered,
                 copies <- [d \in Numbered |-> copies[d]]

ImplementsIntake == Intake!Spec

=============================================================================
