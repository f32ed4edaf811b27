------------------------------ MODULE Receipts ------------------------------
(***************************************************************************)
(* Receipts a salesman collects, in cash or by cheque: from creation to    *)
(* confirmation and deposit, and the cheques in the back office.           *)
(* Source: collections.service.ts, cheques.service.ts                      *)
(*                                                                         *)
(* One cheque stands for those of a receipt.                               *)
(***************************************************************************)
EXTENDS Integers

CONSTANTS
  Receipts,   \* receipts, by id
  Amounts,    \* amounts in fils
  Requests,   \* requests on receipts and cheques that may overlap
  None

VARIABLES
  receipt,    \* collections, None before creation
  cheque,     \* cheques, None for a receipt that came without
  req,        \* a request between its read and its save, with the image it saves and
              \* the rows it read, which only the properties look at
  announced   \* receipts whose erp.collection.confirmed was emitted

vars == <<receipt, cheque, req, announced>>

NoReq == [op |-> "idle", of |-> None, image |-> None, seen |-> None]

Init ==
  /\ receipt = [c \in Receipts |-> None]
  /\ cheque = [c \in Receipts |-> None]
  /\ req = [q \in Requests |-> NoReq]
  /\ announced = {}

Free(q) == req[q] = NoReq
Rows(c) == [receipt |-> receipt[c], cheque |-> cheque[c]]
Holds(q, op, c, image) ==
  req' = [req EXCEPT ![q] = [op |-> op, of |-> c, image |-> image, seen |-> Rows(c)]]
Announces(q, c) ==
  req' = [req EXCEPT ![q] = [op |-> "announce", of |-> c, image |-> None, seen |-> None]]
Done(q) == req' = [req EXCEPT ![q] = NoReq]

-----------------------------------------------------------------------------
\* create with cash: confirmed at once.
CreateCash(q, c, a) ==
  /\ Free(q) /\ receipt[c] = None
  /\ receipt' = [receipt EXCEPT ![c] = [method |-> "cash", status |-> "confirmed", amount |-> a]]
  /\ Announces(q, c)
  /\ UNCHANGED <<cheque, announced>>

\* Mutant of CreateCheque: confirmed at once, like cash.
CreateChequeConfirmed(q, c, a, match) ==
  /\ Free(q) /\ receipt[c] = None
  /\ receipt' = [receipt EXCEPT ![c] =
       [method |-> "cheque", status |-> "confirmed", amount |-> a]]
  /\ cheque' = [cheque EXCEPT ![c] = [amount |-> a, match |-> match,
                                      reconciled |-> FALSE, status |-> "pending"]]
  /\ Announces(q, c)
  /\ UNCHANGED announced

\* create with a cheque: it stays pending when the amount in words differs.
CreateCheque(q, c, a, match) ==
  /\ Free(q) /\ receipt[c] = None
  /\ receipt' = [receipt EXCEPT ![c] =
       [method |-> "cheque", status |-> IF match THEN "confirmed" ELSE "pending", amount |-> a]]
  /\ cheque' = [cheque EXCEPT ![c] = [amount |-> a, match |-> match,
                                      reconciled |-> FALSE, status |-> "pending"]]
  /\ IF match THEN Announces(q, c) ELSE UNCHANGED req
  /\ UNCHANGED announced

\* The event, after the commit.
Announce(q) ==
  /\ req[q].op = "announce"
  /\ announced' = announced \cup {req[q].of}
  /\ Done(q)
  /\ UNCHANGED <<receipt, cheque>>

Blocked(c) ==
  /\ receipt[c].method = "cheque"
  /\ cheque[c] # None /\ ~cheque[c].match /\ ~cheque[c].reconciled

\* confirm: only a pending receipt, with every mismatch reconciled.
ConfirmRead(q, c) ==
  /\ Free(q) /\ receipt[c] # None
  /\ receipt[c].status = "pending" /\ ~Blocked(c)
  /\ Holds(q, "confirm", c, [receipt[c] EXCEPT !.status = "confirmed"])
  /\ UNCHANGED <<receipt, cheque, announced>>

\* Mutant of UpdateRead: what is not deposited may be edited.
UpdateReadAny(q, c, method, a) ==
  /\ Free(q) /\ receipt[c] # None
  /\ receipt[c].status \in {"pending", "confirmed"}
  /\ method = "cheque" => cheque[c] # None
  /\ Holds(q, "update", c, [receipt[c] EXCEPT !.method = method, !.amount = a])
  /\ UNCHANGED <<receipt, cheque, announced>>

\* update without new cheques: only a pending receipt.
UpdateRead(q, c, method, a) ==
  /\ Free(q) /\ receipt[c] # None
  /\ receipt[c].status = "pending"
  /\ method = "cheque" => cheque[c] # None
  /\ Holds(q, "update", c, [receipt[c] EXCEPT !.method = method, !.amount = a])
  /\ UNCHANGED <<receipt, cheque, announced>>

\* batchDeposit skips what is not confirmed.
DepositRead(q, c) ==
  /\ Free(q) /\ receipt[c] # None
  /\ receipt[c].status = "confirmed"
  /\ Holds(q, "deposit", c, [receipt[c] EXCEPT !.status = "deposited"])
  /\ UNCHANGED <<receipt, cheque, announced>>

\* The image is saved whole; a confirmed receipt is announced.
SaveReceipt(q) ==
  /\ req[q].op \in {"confirm", "update", "deposit"}
  /\ receipt' = [receipt EXCEPT ![req[q].of] = req[q].image]
  /\ IF req[q].op = "confirm" THEN Announces(q, req[q].of) ELSE Done(q)
  /\ UNCHANGED <<cheque, announced>>

-----------------------------------------------------------------------------
\* reconcile, markCleared, markBounced: of any cheque, in any state.
ChequeRead(q, c) ==
  /\ Free(q) /\ cheque[c] # None
  /\ \/ \E a \in Amounts :
          Holds(q, "cheque", c, [cheque[c] EXCEPT !.amount = a, !.match = TRUE, !.reconciled = TRUE])
     \/ \E s \in {"cleared", "bounced"} :
          Holds(q, "cheque", c, [cheque[c] EXCEPT !.status = s])
  /\ UNCHANGED <<receipt, cheque, announced>>

SaveCheque(q) ==
  /\ req[q].op = "cheque"
  /\ cheque' = [cheque EXCEPT ![req[q].of] = req[q].image]
  /\ Done(q)
  /\ UNCHANGED <<receipt, announced>>

\* The database refuses, or the request dies.
Abort(q) ==
  /\ ~Free(q)
  /\ Done(q)
  /\ UNCHANGED <<receipt, cheque, announced>>

Restart ==
  /\ req' = [q \in Requests |-> NoReq]
  /\ UNCHANGED <<receipt, cheque, announced>>

-----------------------------------------------------------------------------
Methods == {"cash", "cheque"}

Request(q) ==
  \/ \E c \in Receipts, a \in Amounts :
       \/ CreateCash(q, c, a)
       \/ \E match \in BOOLEAN : CreateCheque(q, c, a, match)
       \/ \E method \in Methods : UpdateRead(q, c, method, a)
  \/ \E c \in Receipts : ConfirmRead(q, c) \/ DepositRead(q, c) \/ ChequeRead(q, c)
  \/ SaveReceipt(q) \/ SaveCheque(q) \/ Announce(q) \/ Abort(q)

Next == (\E q \in Requests : Request(q)) \/ Restart

Spec == Init /\ [][Next]_vars

-----------------------------------------------------------------------------
ReceiptRows == [method : Methods, status : {"pending", "confirmed", "deposited"}, amount : Amounts]
Cheques == [amount : Amounts, match : BOOLEAN, reconciled : BOOLEAN,
            status : {"pending", "cleared", "bounced"}]

SeenRows == [receipt : ReceiptRows \cup {None}, cheque : Cheques \cup {None}]

\* Assumed where the module is used.
ReceiptsAssumption ==
  /\ Amounts \subseteq Nat
  /\ None \notin Receipts \cup Amounts \cup ReceiptRows \cup Cheques \cup SeenRows

TypeOK ==
  /\ receipt \in [Receipts -> ReceiptRows \cup {None}]
  /\ cheque \in [Receipts -> Cheques \cup {None}]
  /\ \A q \in Requests :
       \/ Free(q)
       \/ req[q].of \in Receipts /\ req[q].op = "announce"
       \/ /\ req[q].of \in Receipts /\ req[q].seen \in SeenRows
          /\ \/ req[q].op = "cheque" /\ req[q].image \in Cheques
             \/ req[q].op \in {"confirm", "update", "deposit"} /\ req[q].image \in ReceiptRows
  /\ announced \subseteq Receipts

Taken(c) == receipt[c] # None /\ receipt[c].status \in {"confirmed", "deposited"}

\* A request saves an image of c although c or its cheque changed since it read them.
OvertakenSave(c) ==
  \E q \in Requests :
    /\ req'[q] # req[q] /\ req[q].of = c
    /\ req[q].seen # None /\ req[q].seen # Rows(c)

Reconciled(c) ==
  (Taken(c) /\ receipt[c].method = "cheque") => (cheque[c].match \/ cheque[c].reconciled)

\* A receipt by cheque counts only once a mismatch between the amount and its words
\* was reconciled, by whatever edits it got there, and stays so, but for the save of
\* a request that another one overtook (create, update, confirm: "must be reconciled
\* before confirming", collections.service.ts).
TakenIsReconciled == [][\A c \in Receipts : Reconciled(c) => Reconciled(c)' \/ OvertakenSave(c)]_vars

\* A receipt that counts keeps its amount and its method and never goes back to
\* pending, but for the save of a request that another one overtook ("Blocked once
\* confirmed -- ERP receipts are immutable", collections.controller.ts).
TakenIsFrozen ==
  [][\A c \in Receipts : Taken(c) =>
       \/ Taken(c)' /\ receipt'[c].amount = receipt[c].amount
                    /\ receipt'[c].method = receipt[c].method
       \/ OvertakenSave(c)]_vars
=============================================================================
