----------------------------- MODULE BackOffice -----------------------------
(***************************************************************************)
(* The day of a salesman as the back office settles it: receipts (module   *)
(* Receipts) and cash sales less cash returns, created on approval (module *)
(* Approvals), are the cash expected of him, and a settlement carries what *)
(* he still owes over to the next one.  One server runs all of it, and     *)
(* restarts as a whole.                                                    *)
(* Source: reports.service.ts                                              *)
(***************************************************************************)
EXTENDS Integers, Sequences, FiniteSets, Functions

CONSTANTS
  Receipts, Amounts, ReceiptRequests,
  SaleRequests, NumberedSales, Reviews, MaxCopies,
  Refunds,          \* those of the sales that are returns, paid back in cash
  Price,            \* the cash of one approved sale or return
  Payments,         \* what a salesman may hand over, in fils
  Settlers,         \* requests to settle that may overlap
  MaxSettlements,   \* bound
  None

VARIABLES
  receipt, cheque, req, announced,         \* Receipts
  request, review, vouchers, cutOff,       \* Approvals
  settlements,                             \* salesman_settlement of the rep, oldest first
  settling                                 \* a settlement between its query and its save

C == INSTANCE Receipts WITH Requests <- ReceiptRequests
A == INSTANCE Approvals WITH Requests <- SaleRequests, Numbered <- NumberedSales

ASSUME BackOfficeAssumption ==
  /\ C!ReceiptsAssumption /\ A!ApprovalsAssumption
  /\ Price \in Nat /\ Payments \subseteq Nat /\ MaxSettlements \in Nat
  /\ IsFiniteSet(Receipts) /\ IsFiniteSet(SaleRequests)
  /\ SaleRequests \cap Receipts = {} /\ Refunds \subseteq SaleRequests

receipts == <<receipt, cheque, req, announced>>
approvals == <<request, review, vouchers, cutOff>>
books == <<settlements, settling>>
vars == <<receipts, approvals, books>>

Init ==
  /\ C!Init /\ A!Init
  /\ settlements = <<>>
  /\ settling = [k \in Settlers |-> None]

-----------------------------------------------------------------------------
\* eodRows: cash collected and sold in a period, which any days may be, and paid back.
Sold(kinds) == SumFunctionOnSet([a \in SaleRequests |-> Price * vouchers[a]], kinds)

CashIn(period) ==
  SumFunctionOnSet([c \in Receipts |-> IF C!Taken(c) /\ receipt[c].method = "cash"
                                       THEN receipt[c].amount ELSE 0], period \cap Receipts)
    + Sold((period \cap SaleRequests) \ Refunds)

Cash(period) == CashIn(period) - Sold(period \cap Refunds)

\* The balance of the latest settlement.
Balance == IF settlements = <<>> THEN 0 ELSE settlements[Len(settlements)].balance

\* settle: the aggregates are computed here, never taken from the client; a rep
\* without activity or balance has no row.
SettleRead(k, period, received) ==
  LET cash == Cash(period) IN
  /\ settling[k] = None
  /\ Len(settlements) < MaxSettlements
  /\ period # {} \/ Balance # 0
  /\ settling' = [settling EXCEPT ![k] =
       [period |-> period, cashIn |-> CashIn(period), expected |-> cash,
        received |-> received, balance |-> Balance + cash - received]]
  /\ UNCHANGED <<receipts, approvals, settlements>>

SettleSave(k) ==
  /\ settling[k] # None
  /\ settlements' = Append(settlements, settling[k])
  /\ settling' = [settling EXCEPT ![k] = None]
  /\ UNCHANGED <<receipts, approvals>>

Restart ==
  /\ C!Restart /\ A!Restart
  /\ settling' = [k \in Settlers |-> None]
  /\ UNCHANGED settlements

-----------------------------------------------------------------------------
Receipt == (\E q \in ReceiptRequests : C!Request(q)) /\ UNCHANGED <<approvals, books>>
Approval == A!Request /\ UNCHANGED <<receipts, books>>
Settlement ==
  \E k \in Settlers :
    \/ SettleSave(k)
    \/ \E period \in SUBSET (Receipts \cup SaleRequests), received \in Payments :
         SettleRead(k, period, received)

Next == Receipt \/ Approval \/ Settlement \/ Restart

Spec == Init /\ [][Next]_vars

-----------------------------------------------------------------------------
Entries == [period : SUBSET (Receipts \cup SaleRequests), cashIn : Nat,
            expected : Int, received : Nat, balance : Int]

TypeOK ==
  /\ C!TypeOK /\ A!TypeOK
  /\ settlements \in Seq(Entries)
  /\ settling \in [Settlers -> Entries \cup {None}]

ApprovedIsExecuted == A!ApprovedIsExecuted
TakenIsReconciled == C!TakenIsReconciled
TakenIsFrozen == C!TakenIsFrozen

\* The cash a settlement counted stays in the books of its period, whatever is
\* edited, approved or restarted afterwards, but for the save of a receipt by a
\* request that another one overtook: recomputing the period never finds less
\* ("recompute the period's aggregates server-side", reports.service.ts).
Covered(n) == CashIn(settlements[n].period) >= settlements[n].cashIn

SettledIsCovered ==
  [][\A n \in DOMAIN settlements :
       Covered(n) => Covered(n)' \/ \E c \in Receipts : C!OvertakenSave(c)]_vars
=============================================================================
