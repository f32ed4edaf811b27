-------------------------- MODULE VoucherNumbering --------------------------
(***************************************************************************)
(* The voucher-number series of one (store, trans_kind) pair: the          *)
(* voucher_counters row, the numbers voucher_headers holds, the numbers    *)
(* the sync inbox reserved, and the number the dashboard previews.         *)
(* Source: vouchers.service.ts, sync.service.ts                            *)
(*                                                                         *)
(* The upsert on voucher_counters locks the counter row until its          *)
(* transaction ends, so an allocation is split in two steps: take the lock *)
(* and walk to a candidate, then commit (or roll back, counter included).  *)
(* A voucher created with a number of the client's takes no lock.          *)
(***************************************************************************)
EXTENDS Naturals, FiniteSets

CONSTANTS
  Requests,       \* requests in flight at the same time
  MaxNumber,      \* bound of the model: serials 1..MaxNumber
  MaxAttempts,    \* candidates tried before giving up (1000 in the code)
  ClientNumbers   \* serials clients may choose by themselves

Numbers == 1..MaxNumber

ASSUME NumberingAssumption ==
  /\ MaxNumber \in Nat
  /\ MaxAttempts \in Nat \ {0}
  /\ ClientNumbers \subseteq Numbers

VARIABLES
  holder,     \* who inserted the voucher with this number, "free" if nobody
  deleted,    \* numbers of soft-deleted vouchers
  counter,    \* voucher_counters.last_number
  issued,     \* numbers the counter has handed out in a committed transaction
  reserved,   \* those of them the inbox keeps as assigned_number
  tx,         \* the allocation each request has open
  shown       \* what the cashier's screen previews, 0 when out of date

vars == <<holder, deleted, counter, issued, reserved, tx, shown>>

Holders == {"free", "auto", "inbox", "client"}
NoTx == [op |-> "none", n |-> 0]
Tx == [op : {"none", "create", "reserve"}, n : Numbers \cup {0}]

\* exist({ where: { voucherNumber } }) does not see soft-deleted rows.
Visible(n) == holder[n] # "free" /\ n \notin deleted

\* Mutant of IsNext: the walk starts at the last number instead of after it.
IsNextOrLast(n) ==
  /\ n >= counter
  /\ n <= counter + MaxAttempts
  /\ ~Visible(n)
  /\ \A k \in Numbers : (counter <= k /\ k < n) => Visible(k)

\* The candidate nextVoucherNumber stops at: the first serial after the
\* counter that no visible voucher has, within MaxAttempts.
IsNext(n) ==
  /\ n > counter
  /\ n <= counter + MaxAttempts
  /\ ~Visible(n)
  /\ \A k \in Numbers : (counter < k /\ k < n) => Visible(k)

\* Mutant of CounterFree: allocations do not wait for the counter row.
NoRowLock == TRUE

\* The upsert waits for the transaction that last touched the counter row.
CounterFree == \A r \in Requests : tx[r].op = "none"

Init ==
  /\ holder = [n \in Numbers |-> "free"]
  /\ deleted = {}
  /\ counter = 0
  /\ issued = {}
  /\ reserved = {}
  /\ tx = [r \in Requests |-> NoTx]
  /\ shown = 0

-----------------------------------------------------------------------------
\* nextVoucherNumber, for a voucher being created or for reserveVoucherNumber.
Allocate(r, op) ==
  /\ CounterFree
  /\ \E n \in Numbers : IsNext(n) /\ tx' = [tx EXCEPT ![r] = [op |-> op, n |-> n]]
  /\ UNCHANGED <<holder, deleted, counter, issued, reserved, shown>>

Issue(r) ==
  /\ counter' = tx[r].n
  /\ issued' = issued \cup {tx[r].n}
  /\ tx' = [tx EXCEPT ![r] = NoTx]
  /\ shown' = 0

\* createUnchecked inserts the header under the unique index on
\* voucher_number, which soft-deleted rows still occupy.
CommitCreate(r) ==
  /\ tx[r].op = "create"
  /\ holder[tx[r].n] = "free"
  /\ holder' = [holder EXCEPT ![tx[r].n] = "auto"]
  /\ Issue(r)
  /\ UNCHANGED <<deleted, reserved>>

\* Mutant of CommitReserve: the counter is not committed with the reservation.
ReserveUncounted(r) ==
  /\ tx[r].op = "reserve"
  /\ reserved' = reserved \cup {tx[r].n}
  /\ tx' = [tx EXCEPT ![r] = NoTx]
  /\ UNCHANGED <<holder, deleted, counter, issued, shown>>

\* reserveVoucherNumber commits the counter alone; the inbox row keeps the
\* number until it is promoted.
CommitReserve(r) ==
  /\ tx[r].op = "reserve"
  /\ reserved' = reserved \cup {tx[r].n}
  /\ Issue(r)
  /\ UNCHANGED <<holder, deleted>>

\* Any error after the allocation (no stock, a unique violation, a crash)
\* rolls the counter back with the rest.
Rollback(r) ==
  /\ tx[r].op # "none"
  /\ tx' = [tx EXCEPT ![r] = NoTx]
  /\ UNCHANGED <<holder, deleted, counter, issued, reserved, shown>>

\* POST /vouchers with a voucherNumber, or a synced voucher with its own.
CreateWithNumber(n) ==
  /\ n \in ClientNumbers
  /\ holder[n] = "free"
  /\ holder' = [holder EXCEPT ![n] = "client"]
  /\ shown' = 0
  /\ UNCHANGED <<deleted, counter, issued, reserved, tx>>

\* The inbox promotes a row under the number it reserved.
Promote(n) ==
  /\ n \in reserved
  /\ holder[n] = "free"
  /\ holder' = [holder EXCEPT ![n] = "inbox"]
  /\ shown' = 0
  /\ UNCHANGED <<deleted, counter, issued, reserved, tx>>

\* DELETE /vouchers/:id, drafts only (what the inbox creates is posted).
Remove(n) ==
  /\ Visible(n)
  /\ holder[n] # "inbox"
  /\ deleted' = deleted \cup {n}
  /\ shown' = 0
  /\ UNCHANGED <<holder, counter, issued, reserved, tx>>

\* Mutant of Preview: the last number is shown.
PreviewLast ==
  /\ shown' = counter
  /\ UNCHANGED <<holder, deleted, counter, issued, reserved, tx>>

\* GET /vouchers/next-number peeks at the counter.
Preview ==
  /\ shown' = counter + 1
  /\ UNCHANGED <<holder, deleted, counter, issued, reserved, tx>>

Next ==
  \/ \E r \in Requests :
       \/ \E op \in {"create", "reserve"} : Allocate(r, op)
       \/ CommitCreate(r)
       \/ CommitReserve(r)
       \/ Rollback(r)
  \/ \E n \in Numbers : CreateWithNumber(n) \/ Promote(n) \/ Remove(n)
  \/ Preview

Spec == Init /\ [][Next]_vars

-----------------------------------------------------------------------------
(* Properties                                                              *)

\* The counter, the numbers handed out and the open allocations keep their
\* types.
TypeOK ==
  /\ holder \in [Numbers -> Holders]
  /\ deleted \subseteq Numbers
  /\ counter \in Numbers \cup {0}
  /\ issued \subseteq Numbers
  /\ reserved \subseteq issued
  /\ tx \in [Requests -> Tx]
  /\ shown \in 0..(MaxNumber + 1)

\* The server never hands out a serial twice, whether to a voucher or to the
\* inbox, under any overlap of requests, rollbacks and client-chosen numbers.
IssuedOnce ==
  [][\A r \in Requests :
       (CommitCreate(r) \/ CommitReserve(r)) => tx[r].n \notin issued]_vars

\* A number the server hands out was not in use ("so we always return the
\* true next-available number and never collide").
AllocatedIsFree ==
  [][\A r \in Requests :
       (tx[r].op = "none" /\ tx'[r].op # "none") => holder[tx'[r].n] = "free"]_vars

\* The one number the server may hand out in use is that of a voucher a client
\* numbered and that was soft-deleted since: never one of its own vouchers', of
\* the inbox's or of a voucher still there.
CollidesOnlyWithDeleted ==
  [][\A r \in Requests :
       (tx[r].op = "none" /\ tx'[r].op # "none") =>
         LET n == tx'[r].n IN
         holder[n] = "free" \/ (holder[n] = "client" /\ n \in deleted)]_vars

\* A voucher created while the preview on the screen is up to date gets the
\* number it shows, unless a client has used that number.
PreviewIsExact ==
  [][\A r \in Requests :
       (CommitCreate(r) /\ shown \in Numbers /\ holder[shown] = "free")
         => tx[r].n = shown]_vars

=============================================================================
