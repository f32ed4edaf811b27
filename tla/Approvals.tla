----------------------------- MODULE Approvals -----------------------------
(***************************************************************************)
(* Requests of salesmen for a manager's approval: an approved request is   *)
(* executed by creating the voucher it carries.                            *)
(* Source: approvals.service.ts                                            *)
(***************************************************************************)
EXTENDS Integers, FiniteSets

CONSTANTS
  Requests,   \* approval requests
  Numbered,   \* those whose payload brings its own voucher number
  Reviews,    \* decisions in hand at a time: approve, reject, cancel
  MaxCopies,  \* bound: vouchers created from one request
  None

Statuses == {"pending", "approved", "rejected", "cancelled"}

\* Assumed where the module is used.
ApprovalsAssumption ==
  /\ Numbered \subseteq Requests /\ MaxCopies \in Nat
  /\ IsFiniteSet(Reviews) /\ Reviews # {}
  /\ None \notin Statuses

VARIABLES
  request,    \* the status of approval_requests, None before it is filed
  review,     \* a decision: the request it read, and how far it is
  vouchers,   \* vouchers created from a request
  cutOff      \* requests whose execution was cut off after the voucher's commit

vars == <<request, review, vouchers, cutOff>>

NoReview == [at |-> "idle", of |-> None]
Goto(v, place) == review' = [review EXCEPT ![v].at = place]

Init ==
  /\ request = [a \in Requests |-> None]
  /\ review = [v \in Reviews |-> NoReview]
  /\ vouchers = [a \in Requests |-> 0]
  /\ cutOff = {}

\* create: the payload is validated, the request filed.
File(a) ==
  /\ request[a] = None
  /\ request' = [request EXCEPT ![a] = "pending"]
  /\ UNCHANGED <<review, vouchers, cutOff>>

\* Mutant of Read: an approved request may be decided again.
ReadApproved(v, a, decision) ==
  /\ review[v] = NoReview /\ request[a] \in {"pending", "approved"}
  /\ review' = [review EXCEPT ![v] = [at |-> decision, of |-> a]]
  /\ UNCHANGED <<request, vouchers, cutOff>>

\* approve, reject and cancel read the request; only a pending one goes on.
Read(v, a, decision) ==
  /\ review[v] = NoReview /\ request[a] = "pending"
  /\ review' = [review EXCEPT ![v] = [at |-> decision, of |-> a]]
  /\ UNCHANGED <<request, vouchers, cutOff>>

\* External: vouchers.create commits, unless it refuses; a number is used once.
Execute(v) ==
  LET a == review[v].of IN
  /\ review[v].at = "approve"
  /\ \/ /\ vouchers[a] < MaxCopies
        /\ a \in Numbered => vouchers[a] = 0
        /\ vouchers' = [vouchers EXCEPT ![a] = @ + 1]
        /\ Goto(v, "executed")
     \/ /\ Goto(v, "refused")
        /\ UNCHANGED vouchers
  /\ UNCHANGED <<request, cutOff>>

\* Reading the voucher back fails after its commit: taken for a refusal.
LoseVoucher(v) ==
  /\ review[v].at = "executed"
  /\ Goto(v, "refused")
  /\ cutOff' = cutOff \cup {review[v].of}
  /\ UNCHANGED <<request, vouchers>>

\* Mutant of Decision: a refused execution is no reason to reject.
DecisionAny(place) ==
  CASE place \in {"executed", "refused"} -> "approved"
    [] place = "reject" -> "rejected"
    [] place = "cancel" -> "cancelled"
Decision(place) ==
  CASE place = "executed" -> "approved"
    [] place \in {"refused", "reject"} -> "rejected"
    [] place = "cancel" -> "cancelled"

\* The decision is saved over whatever the row has become; then notifyDecision.
Decide(v) ==
  /\ review[v].at \in {"executed", "refused", "reject", "cancel"}
  /\ request' = [request EXCEPT ![review[v].of] = Decision(review[v].at)]
  /\ review' = [review EXCEPT ![v] = NoReview]
  /\ UNCHANGED <<vouchers, cutOff>>

\* The process dies between the voucher's commit and the decision's save.
Restart ==
  /\ cutOff' = cutOff \cup {review[v].of : v \in {x \in Reviews : review[x].at = "executed"}}
  /\ review' = [v \in Reviews |-> NoReview]
  /\ UNCHANGED <<request, vouchers>>

Decisions == {"approve", "reject", "cancel"}

Request ==
  \/ \E a \in Requests : File(a)
  \/ \E v \in Reviews : Execute(v) \/ LoseVoucher(v) \/ Decide(v)
  \/ \E v \in Reviews, a \in Requests, d \in Decisions : Read(v, a, d)

Next == Request \/ Restart

Spec == Init /\ [][Next]_vars

-----------------------------------------------------------------------------
TypeOK ==
  /\ request \in [Requests -> Statuses \cup {None}]
  /\ review \in [Reviews -> [at : Decisions \cup {"executed", "refused"}, of : Requests]
                              \cup {NoReview}]
  /\ vouchers \in [Requests -> Nat]
  /\ cutOff \subseteq Requests

\* The decisions in hand for a request whose voucher is committed, and the others.
Executed(a) == {v \in Reviews : review[v].of = a /\ review[v].at = "executed"}

\* However decisions on one request overlap: while it is pending, each voucher made
\* from it is that of a decision still to be saved; once approved it has a voucher;
\* and it has no more than one from each decision in hand at a time, but none from
\* the one that rejected or cancelled it, unless an execution was cut off ("Record
\* the failure honestly instead of half-applying", approvals.service.ts).
ApprovedIsExecuted ==
  \A a \in Requests :
    /\ request[a] = "approved" => vouchers[a] >= 1
    /\ a \notin cutOff =>
         CASE request[a] = "pending" -> vouchers[a] = Cardinality(Executed(a))
           [] request[a] = "approved" -> vouchers[a] <= Cardinality(Reviews)
           [] OTHER -> vouchers[a] < Cardinality(Reviews)
=============================================================================
