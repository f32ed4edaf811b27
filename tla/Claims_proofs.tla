---------------------------- MODULE Claims_proofs ----------------------------
(***************************************************************************)
(* Two components in which one row of the database decides who may act,    *)
(* for any number of requests, servers and reps: the counter of a number   *)
(* series, whose lock an allocation holds until it commits, and the status *)
(* row of a rep, whose flag a server must set to announce that he fell     *)
(* silent.                                                                 *)
(***************************************************************************)
EXTENDS VoucherNumbering, RepLiveness, TLAPS

(***************************************************************************)
(* The number series.  The argument: the row lock keeps at most one        *)
(* allocation open, an open allocation lies above the counter, and         *)
(* everything handed out lies at or below it.                              *)
(***************************************************************************)
Open(r) == tx[r].op # "none"

OneOpen == \A a, b \in Requests : Open(a) /\ Open(b) => a = b
IssuedBelow == \A n \in issued : n <= counter
OpenAbove == \A r \in Requests : Open(r) => tx[r].n > counter

IInv == TypeOK /\ OneOpen /\ IssuedBelow /\ OpenAbove

\* What an allocation may end with: a number of the series nobody was handed.
LEMMA OpenNumber ==
  ASSUME IInv, NEW r \in Requests, Open(r)
  PROVE  /\ tx[r].n \in Numbers
         /\ tx[r].n > counter
         /\ tx[r].n \notin issued
         /\ \A o \in Requests \ {r} : ~Open(o)
<1>1. tx[r].n \in Numbers \cup {0} /\ counter \in Nat
  BY NumberingAssumption DEF IInv, TypeOK, Tx, Numbers
<1>2. tx[r].n > counter
  BY DEF IInv, OpenAbove
<1>3. tx[r].n \notin issued
  BY <1>1, <1>2 DEF IInv, IssuedBelow, Numbers
<1>4. \A o \in Requests \ {r} : ~Open(o)
  BY DEF IInv, OneOpen
<1> QED
  BY <1>1, <1>2, <1>3, <1>4

\* It holds of an empty series.
LEMMA InitInv == Init => IInv
BY NumberingAssumption
DEF Init, IInv, TypeOK, OneOpen, IssuedBelow, OpenAbove, Open, Tx, NoTx, Holders, Numbers

\* Taking the row lock keeps it: nobody else has an allocation open.
LEMMA AllocateInv ==
  ASSUME IInv, NEW r \in Requests, NEW op \in {"create", "reserve"}, Allocate(r, op)
  PROVE  IInv'
<1>1. PICK n \in Numbers : IsNext(n) /\ tx' = [tx EXCEPT ![r] = [op |-> op, n |-> n]]
  BY DEF Allocate
<1>2. n > counter
  BY <1>1 DEF IsNext
<1>3. \A o \in Requests \ {r} : ~Open(o)'
  BY <1>1 DEF Allocate, CounterFree, Open, IInv, TypeOK
<1>4. tx'[r] = [op |-> op, n |-> n] /\ tx' \in [Requests -> Tx]
  BY <1>1 DEF IInv, TypeOK, Tx
<1> QED
  BY <1>2, <1>3, <1>4
  DEF Allocate, IInv, TypeOK, OneOpen, IssuedBelow, OpenAbove, Open

\* So does committing an allocation, which moves the counter up to it.
LEMMA IssueInv ==
  ASSUME IInv, NEW r \in Requests, Open(r), Issue(r),
         holder' \in [Numbers -> Holders], deleted' = deleted,
         reserved' \subseteq issued'
  PROVE  IInv'
<1>1. /\ tx[r].n \in Numbers /\ tx[r].n > counter
      /\ \A o \in Requests \ {r} : ~Open(o)
  BY OpenNumber
<1>2. \A o \in Requests : ~Open(o)'
  BY <1>1 DEF Issue, Open, NoTx, IInv, TypeOK
<1>3. tx' \in [Requests -> Tx]
  BY DEF Issue, NoTx, Tx, IInv, TypeOK
<1>4. IssuedBelow'
  BY <1>1, NumberingAssumption DEF Issue, IssuedBelow, IInv, TypeOK, Numbers
<1>5. counter' \in Numbers /\ issued' \subseteq Numbers /\ shown' = 0
  BY <1>1 DEF Issue, IInv, TypeOK
<1>6. 0 \in 0..(MaxNumber + 1)
  BY NumberingAssumption
<1>7. TypeOK'
  BY <1>3, <1>5, <1>6 DEF IInv, TypeOK
<1> QED
  BY <1>2, <1>4, <1>7 DEF IInv, OneOpen, OpenAbove

\* And every other step.
LEMMA NextInv == IInv /\ [Next]_vars => IInv'
<1> SUFFICES ASSUME IInv, [Next]_vars PROVE IInv'
  OBVIOUS
<1> USE DEF IInv, TypeOK
<1>1. ASSUME NEW r \in Requests, NEW op \in {"create", "reserve"}, Allocate(r, op)
      PROVE  IInv'
  BY <1>1, AllocateInv
<1>2. ASSUME NEW r \in Requests, CommitCreate(r)
      PROVE  IInv'
  <2>1. Open(r) /\ Issue(r) /\ deleted' = deleted /\ reserved' = reserved
    BY <1>2 DEF CommitCreate, Open
  <2>2. holder' \in [Numbers -> Holders]
    BY <1>2 DEF CommitCreate, Holders
  <2>3. reserved' \subseteq issued'
    BY <2>1 DEF Issue
  <2> QED
    BY <2>1, <2>2, <2>3, IssueInv
<1>3. ASSUME NEW r \in Requests, CommitReserve(r)
      PROVE  IInv'
  <2>1. Open(r) /\ Issue(r) /\ deleted' = deleted /\ holder' = holder
    BY <1>3 DEF CommitReserve, Open
  <2>2. reserved' \subseteq issued'
    BY <1>3 DEF CommitReserve, Issue
  <2> QED
    BY <2>1, <2>2, IssueInv
<1>4. ASSUME NEW r \in Requests, Rollback(r)
      PROVE  IInv'
  BY <1>4 DEF Rollback, OneOpen, IssuedBelow, OpenAbove, Open, NoTx, Tx
<1>5. ASSUME NEW n \in Numbers, CreateWithNumber(n) \/ Promote(n) \/ Remove(n)
      PROVE  IInv'
  <2>1. holder' \in [Numbers -> Holders] /\ deleted' \subseteq Numbers
    BY <1>5 DEF CreateWithNumber, Promote, Remove, Holders
  <2>2. 0 \in 0..(MaxNumber + 1)
    BY NumberingAssumption
  <2> QED
    BY <1>5, <2>1, <2>2
    DEF CreateWithNumber, Promote, Remove, OneOpen, IssuedBelow, OpenAbove, Open
<1>6. CASE Preview
  BY <1>6, NumberingAssumption
  DEF Preview, OneOpen, IssuedBelow, OpenAbove, Open, Numbers
<1>7. CASE UNCHANGED vars
  BY <1>7 DEF vars, OneOpen, IssuedBelow, OpenAbove, Open
<1> QED
  BY <1>1, <1>2, <1>3, <1>4, <1>5, <1>6, <1>7 DEF Next

\* The strengthening is an invariant.
THEOREM Inductive == Spec => []IInv
BY InitInv, NextInv, PTL DEF Spec

\* Every variable keeps its type.
THEOREM NumberingTypeCorrect == Spec => []TypeOK
<1>1. IInv => TypeOK
  BY DEF IInv
<1> QED
  BY <1>1, Inductive, PTL

\* The server hands out no serial twice, however many requests allocate,
\* roll back or bring numbers of their own.
THEOREM NoDoubleIssue == Spec => IssuedOnce
<1>1. IInv => \A r \in Requests :
                (CommitCreate(r) \/ CommitReserve(r)) => tx[r].n \notin issued
  BY OpenNumber DEF CommitCreate, CommitReserve, Open
<1> QED
  BY <1>1, Inductive, PTL DEF IssuedOnce

-----------------------------------------------------------------------------
(***************************************************************************)
(* Clients' numbers may be anywhere; those of the server's vouchers and of *)
(* the inbox are numbers it issued, and an open allocation skips the next  *)
(* serial only because a client has it.                                    *)
(***************************************************************************)
HeldIsIssued == \A n \in Numbers : holder[n] \in {"auto", "inbox"} => n \in issued
SkipsOnlyUsed ==
  \A r \in Requests :
    (Open(r) /\ tx[r].n # counter + 1 /\ counter + 1 \in Numbers) => holder[counter + 1] # "free"
ShownIsNext == shown # 0 => shown = counter + 1

SeriesInv == IInv /\ HeldIsIssued /\ SkipsOnlyUsed /\ ShownIsNext

\* What the walk may stop at.
LEMMA Candidate ==
  ASSUME SeriesInv, NEW n \in Numbers, IsNext(n)
  PROVE  /\ holder[n] = "free" \/ (holder[n] = "client" /\ n \in deleted)
         /\ (n # counter + 1 /\ counter + 1 \in Numbers) => holder[counter + 1] # "free"
<1>1. counter \in Nat /\ n \in Nat /\ n > counter
  BY NumberingAssumption DEF SeriesInv, IInv, TypeOK, Numbers, IsNext
<1>2. holder[n] \notin {"auto", "inbox"}
  BY <1>1 DEF SeriesInv, HeldIsIssued, IInv, IssuedBelow
<1>3. holder[n] = "free" \/ n \in deleted
  BY DEF IsNext, Visible
<1>4. holder[n] \in Holders
  BY DEF SeriesInv, IInv, TypeOK
<1>5. (n # counter + 1 /\ counter + 1 \in Numbers) => Visible(counter + 1)
  BY <1>1 DEF IsNext
<1> QED
  BY <1>2, <1>3, <1>4, <1>5 DEF Holders, Visible

\* It holds of an empty series ...
LEMMA SeriesInit == Init => SeriesInv
BY InitInv DEF SeriesInv, Init, HeldIsIssued, SkipsOnlyUsed, ShownIsNext, Open, NoTx

\* ... and is kept by every step.
LEMMA SeriesNext == SeriesInv /\ [Next]_vars => SeriesInv'
<1> SUFFICES ASSUME SeriesInv, [Next]_vars PROVE SeriesInv'
  OBVIOUS
<1>0. IInv /\ IInv'
  BY NextInv DEF SeriesInv
<1> USE <1>0 DEF SeriesInv
<1>1. ASSUME NEW r \in Requests, NEW op \in {"create", "reserve"}, Allocate(r, op)
      PROVE  SeriesInv'
  <2>1. PICK n \in Numbers : IsNext(n) /\ tx' = [tx EXCEPT ![r] = [op |-> op, n |-> n]]
    BY <1>1 DEF Allocate
  <2>2. (n # counter + 1 /\ counter + 1 \in Numbers) => holder[counter + 1] # "free"
    BY <2>1, Candidate
  <2>3. SkipsOnlyUsed'
    BY <1>1, <2>1, <2>2 DEF Allocate, SkipsOnlyUsed, CounterFree, Open, IInv, TypeOK
  <2> QED
    BY <1>1, <2>3 DEF Allocate, HeldIsIssued, ShownIsNext
<1>2. ASSUME NEW r \in Requests, CommitCreate(r) \/ CommitReserve(r)
      PROVE  SeriesInv'
  <2>1. Open(r) /\ Issue(r)
    BY <1>2 DEF CommitCreate, CommitReserve, Open
  <2>2. /\ tx[r].n \in Numbers /\ tx[r].n \notin issued
        /\ \A o \in Requests \ {r} : ~Open(o)
    BY <2>1, OpenNumber
  <2>3. SkipsOnlyUsed' /\ ShownIsNext'
    BY <2>1, <2>2 DEF Issue, SkipsOnlyUsed, ShownIsNext, Open, NoTx, IInv, TypeOK
  <2>4. HeldIsIssued'
    BY <1>2, <2>1, <2>2 DEF CommitCreate, CommitReserve, Issue, HeldIsIssued, IInv, TypeOK
  <2> QED
    BY <2>3, <2>4
<1>3. ASSUME NEW r \in Requests, Rollback(r)
      PROVE  SeriesInv'
  BY <1>3
  DEF Rollback, HeldIsIssued, SkipsOnlyUsed, ShownIsNext, Open, NoTx, IInv, TypeOK
<1>4. ASSUME NEW n \in Numbers, CreateWithNumber(n) \/ Promote(n) \/ Remove(n)
      PROVE  SeriesInv'
  BY <1>4
  DEF CreateWithNumber, Promote, Remove, HeldIsIssued, SkipsOnlyUsed, ShownIsNext,
      Open, IInv, TypeOK
<1>5. CASE Preview
  BY <1>5 DEF Preview, HeldIsIssued, SkipsOnlyUsed, ShownIsNext, Open
<1>6. CASE UNCHANGED vars
  BY <1>6 DEF vars, HeldIsIssued, SkipsOnlyUsed, ShownIsNext, Open
<1> QED
  BY <1>1, <1>2, <1>3, <1>4, <1>5, <1>6 DEF Next

\* So it holds throughout.
THEOREM SeriesInductive == Spec => []SeriesInv
BY SeriesInit, SeriesNext, PTL DEF Spec

\* The counter stops at a number in use only if a client chose it for a voucher
\* that was soft-deleted.
THEOREM CollidesOnlyThere == Spec => CollidesOnlyWithDeleted
<1>1. ASSUME SeriesInv, [Next]_vars, NEW r \in Requests, tx[r].op = "none", tx'[r].op # "none"
      PROVE  \/ holder[tx'[r].n] = "free"
             \/ holder[tx'[r].n] = "client" /\ tx'[r].n \in deleted
  <2>1. PICK n \in Numbers : IsNext(n) /\ tx'[r].n = n
    <3>1. \E s \in Requests, op \in {"create", "reserve"} : Allocate(s, op)
      BY <1>1 DEF Next, CommitCreate, CommitReserve, Issue, Rollback, CreateWithNumber,
                  Promote, Remove, Preview, vars, NoTx, SeriesInv, IInv, TypeOK
    <3> QED
      BY <1>1, <3>1 DEF Allocate, SeriesInv, IInv, TypeOK
  <2> QED
    BY <1>1, <2>1, Candidate
<1>2. SeriesInv /\ [Next]_vars =>
        [\A r \in Requests :
           (tx[r].op = "none" /\ tx'[r].op # "none") =>
             LET n == tx'[r].n IN
             holder[n] = "free" \/ (holder[n] = "client" /\ n \in deleted)]_vars
  BY <1>1
<1> QED
  BY <1>2, SeriesInductive, PTL DEF CollidesOnlyWithDeleted, Spec

\* A preview still on the screen is the number the next voucher gets, unless a
\* client has used it.
THEOREM PreviewCorrect == Spec => PreviewIsExact
<1>1. SeriesInv => \A r \in Requests :
        (CommitCreate(r) /\ shown \in Numbers /\ holder[shown] = "free") => tx[r].n = shown
  <2> SUFFICES ASSUME SeriesInv, NEW r \in Requests, CommitCreate(r),
                      shown \in Numbers, holder[shown] = "free"
               PROVE  tx[r].n = shown
    OBVIOUS
  <2>1. shown = counter + 1
    BY DEF SeriesInv, ShownIsNext, Numbers
  <2> QED
    BY <2>1 DEF SeriesInv, SkipsOnlyUsed, CommitCreate, Open
<1> QED
  BY <1>1, SeriesInductive, PTL DEF PreviewIsExact

-----------------------------------------------------------------------------
(***************************************************************************)
(* The watchdog.                                                           *)
(***************************************************************************)
LEMMA OlderType ==
  ASSUME NEW limit \in Nat, NEW age \in 0..limit + 1 \cup {Never}
  PROVE  Older(age, limit) \in 0..limit + 1 \cup {Never}
BY LivenessAssumption, SMT DEF Older

LEMMA NewStatusType == NewStatus \in Statuses
BY LivenessAssumption, SMT DEF NewStatus, Statuses

\* What a row of the right type is made of.
LEMMA RowFields ==
  ASSUME NEW row \in Statuses
  PROVE  /\ row.seen \in 0..Threshold + 1 \cup {Never}
         /\ row.gps \in {"unknown", "on", "off"}
         /\ row.out \in BOOLEAN /\ row.alerted \in BOOLEAN
         /\ row.gpsAlerted \in 0..Cooldown + 1 \cup {Never}
BY DEF Statuses

LEMMA NoAlertType == NoAlert \in [Instances -> Nat]
BY DEF NoAlert

LEMMA ZeroAge == 0 \in 0..Threshold + 1 /\ 0 \in 0..Cooldown + 1
BY LivenessAssumption, SMT

LEMMA BeatenType ==
  ASSUME NEW row \in Statuses, NEW gps \in {"on", "off"}, NEW out \in BOOLEAN
  PROVE  Beaten(row, gps, out) \in Statuses
<1> DEFINE off == ~out /\ row.gps = "on" /\ gps = "off"
           on  == ~out /\ row.gps = "off" /\ gps = "on"
           recent == row.gpsAlerted # Never /\ row.gpsAlerted <= Cooldown
           alerted == IF off /\ ~recent THEN 0 ELSE IF on THEN Never ELSE row.gpsAlerted
<1>1. alerted \in 0..Cooldown + 1 \cup {Never}
  <2>1. row.gpsAlerted \in 0..Cooldown + 1 \cup {Never} BY RowFields
  <2> HIDE DEF off, on, recent
  <2> QED BY <2>1, ZeroAge, Zenon
<1>2. Beaten(row, gps, out)
        = [row EXCEPT !.seen = 0, !.gps = gps, !.out = out, !.gpsAlerted = alerted]
  BY Zenon DEF Beaten
<1>3. [row EXCEPT !.seen = 0, !.gps = gps, !.out = out, !.gpsAlerted = alerted] \in Statuses
  <2> HIDE DEF alerted
  <2> QED BY <1>1, ZeroAge DEF Statuses
<1> QED BY <1>2, <1>3

\* A minute keeps the types of a row and does not touch its flag.
LEMMA AgedType ==
  ASSUME NEW row \in Statuses
  PROVE  /\ [row EXCEPT !.seen = Older(@, Threshold),
                        !.gpsAlerted = Older(@, Cooldown)] \in Statuses
         /\ [row EXCEPT !.seen = Older(@, Threshold),
                        !.gpsAlerted = Older(@, Cooldown)].alerted = row.alerted
<1> DEFINE seen == Older(row.seen, Threshold)
           gpsAlerted == Older(row.gpsAlerted, Cooldown)
<1>1. seen \in 0..Threshold + 1 \cup {Never}
  <2>1. row.seen \in 0..Threshold + 1 \cup {Never} /\ Threshold \in Nat
    BY RowFields, LivenessAssumption
  <2> QED BY <2>1, OlderType
<1>2. gpsAlerted \in 0..Cooldown + 1 \cup {Never}
  <2>1. row.gpsAlerted \in 0..Cooldown + 1 \cup {Never} /\ Cooldown \in Nat
    BY RowFields, LivenessAssumption
  <2> QED BY <2>1, OlderType
<1>3. /\ [row EXCEPT !.seen = seen, !.gpsAlerted = gpsAlerted] \in Statuses
      /\ [row EXCEPT !.seen = seen, !.gpsAlerted = gpsAlerted].alerted = row.alerted
  <2> HIDE DEF seen, gpsAlerted
  <2> QED BY <1>1, <1>2 DEF Statuses
<1> QED BY <1>3

\* Dropping a row that has been looked at.
LEMMA RowDoneType ==
  ASSUME LivenessTypeOK, NEW i \in Instances, NEW r \in Reps, RowDone(i, r)
  PROVE  /\ DOMAIN rows' = Instances
         /\ \A j \in Instances : DOMAIN rows'[j] \subseteq Reps
                                 /\ rows'[j] \in [DOMAIN rows'[j] -> Statuses]
<1> DEFINE kept == [s \in DOMAIN rows[i] \ {r} |-> rows[i][s]]
<1>1. kept \in [DOMAIN kept -> Statuses] /\ DOMAIN kept \subseteq Reps
  BY DEF LivenessTypeOK
<1>2. rows' = [rows EXCEPT ![i] = kept] BY DEF RowDone
<1> HIDE DEF kept
<1> QED BY <1>1, <1>2 DEF LivenessTypeOK

-----------------------------------------------------------------------------
LEMMA LivenessTypeInit == LivenessInit => LivenessTypeOK
BY NewStatusType, NoAlertType, LivenessAssumption DEF LivenessInit, LivenessTypeOK, NoBeat, NoRows

LEMMA AlertType ==
  ASSUME LivenessTypeOK, NEW r \in Reps, NEW flag \in BOOLEAN, Alert(r, flag)
  PROVE  status' \in [Reps -> Statuses]
<1>1. status[r] \in Statuses BY DEF LivenessTypeOK
<1>2. [status[r] EXCEPT !.alerted = flag] \in Statuses BY <1>1 DEF Statuses
<1> QED BY <1>1, <1>2 DEF LivenessTypeOK, Alert

\* The watchdog looks at one row.
LEMMA LookTypeOK ==
  ASSUME LivenessTypeOK, NEW i \in Instances, NEW r \in Reps,
         SignedOut(i, r) \/ GoneOffline(i, r) \/ BackOnline(i, r) \/ NothingNew(i, r)
  PROVE  LivenessTypeOK'
<1>1. RowDone(i, r) /\ UNCHANGED <<beat, checked, failures>>
  BY DEF SignedOut, GoneOffline, BackOnline, NothingNew
<1>2. status' \in [Reps -> Statuses]
  <2>1. CASE \E flag \in BOOLEAN : Alert(r, flag) BY <2>1, AlertType
  <2>2. CASE status' = status BY <2>2 DEF LivenessTypeOK
  <2> QED BY <2>1, <2>2 DEF SignedOut, GoneOffline, BackOnline, NothingNew
<1>3. alerts' \in [Reps -> [Instances -> Nat]]
  <2>1. \/ alerts' = alerts \/ alerts' = [alerts EXCEPT ![r] = NoAlert]
        \/ alerts' = [alerts EXCEPT ![r][i] = @ + 1]
    BY DEF SignedOut, GoneOffline, BackOnline, NothingNew
  <2>2. alerts[r] \in [Instances -> Nat] /\ alerts[r][i] + 1 \in Nat BY SMT DEF LivenessTypeOK
  <2>3. [alerts[r] EXCEPT ![i] = @ + 1] \in [Instances -> Nat] BY <2>2
  <2> QED BY <2>1, <2>3, NoAlertType DEF LivenessTypeOK
<1> QED BY <1>1, <1>2, <1>3, RowDoneType DEF LivenessTypeOK

LEMMA LivenessTypeNext == LivenessTypeOK /\ [LivenessNext]_livenessVars => LivenessTypeOK'
<1> SUFFICES ASSUME LivenessTypeOK, [LivenessNext]_livenessVars PROVE LivenessTypeOK' OBVIOUS
<1>1. CASE Minute
  <2>1. status' \in [Reps -> Statuses] BY <1>1, AgedType DEF Minute, LivenessTypeOK
  <2> QED BY <1>1, <2>1 DEF Minute, LivenessTypeOK
<1>2. ASSUME NEW r \in Reps, Touch(r) PROVE LivenessTypeOK'
  <2>0. status[r] \in Statuses BY DEF LivenessTypeOK
  <2>1. [status[r] EXCEPT !.seen = 0] \in Statuses BY <2>0, ZeroAge DEF Statuses
  <2> QED BY <1>2, <2>1, NoAlertType DEF Touch, LivenessTypeOK
<1>3. ASSUME NEW b \in Beats, NEW r \in Reps, HeartbeatRead(b, r) PROVE LivenessTypeOK'
  <2>1. PICK gps \in {"on", "off"}, out \in BOOLEAN :
          beat' = [beat EXCEPT ![b] = [rep |-> r, image |-> Beaten(status[r], gps, out)]]
    BY <1>3 DEF HeartbeatRead
  <2>2. Beaten(status[r], gps, out) \in Statuses BY BeatenType DEF LivenessTypeOK
  <2>3. beat' \in [Beats -> [rep : Reps \cup {Never}, image : Statuses]]
    BY <2>1, <2>2 DEF LivenessTypeOK
  <2>4. \A c \in Beats : beat'[c] # NoBeat => beat'[c].rep \in Reps
    BY <2>1 DEF LivenessTypeOK
  <2> QED BY <1>3, <2>3, <2>4 DEF HeartbeatRead, LivenessTypeOK
<1>4. ASSUME NEW b \in Beats, HeartbeatSave(b) PROVE LivenessTypeOK'
  <2>1. beat[b].image \in Statuses /\ beat[b].rep \in Reps BY <1>4 DEF HeartbeatSave, LivenessTypeOK
  <2>2. NoBeat \in [rep : Reps \cup {Never}, image : Statuses] BY NewStatusType DEF NoBeat
  <2> QED BY <1>4, <2>1, <2>2, NoAlertType DEF HeartbeatSave, LivenessTypeOK
<1>5. ASSUME NEW b \in Beats, HeartbeatFails(b) PROVE LivenessTypeOK'
  <2>1. NoBeat \in [rep : Reps \cup {Never}, image : Statuses] BY NewStatusType DEF NoBeat
  <2> QED BY <1>5, <2>1 DEF HeartbeatFails, LivenessTypeOK
<1>6. ASSUME NEW i \in Instances, CheckStart(i) PROVE LivenessTypeOK'
  BY <1>6 DEF CheckStart, LivenessTypeOK
<1>7. ASSUME NEW i \in Instances, NEW r \in Reps,
             SignedOut(i, r) \/ GoneOffline(i, r) \/ BackOnline(i, r) \/ NothingNew(i, r)
      PROVE  LivenessTypeOK'
  BY <1>7, LookTypeOK
<1>8. ASSUME NEW i \in Instances, CheckFails(i) PROVE LivenessTypeOK'
  BY <1>8, LivenessAssumption, SMT DEF CheckFails, LivenessTypeOK, NoRows
<1>9. CASE UNCHANGED livenessVars BY <1>9 DEF livenessVars, LivenessTypeOK
<1> QED BY <1>1, <1>2, <1>3, <1>4, <1>5, <1>6, <1>7, <1>8, <1>9 DEF LivenessNext, Check

\* Every variable keeps its type, the ages within one minute past their limits.
THEOREM LivenessTypeCorrect == LivenessSpec => []LivenessTypeOK
BY LivenessTypeInit, LivenessTypeNext, PTL DEF LivenessSpec

-----------------------------------------------------------------------------
\* While a silence is announced its flag is set, and an instance that still holds
\* a row with the flag clear has not announced it.
Flagged ==
  \A r \in Reps, i \in Instances :
    /\ alerts[r][i] <= 1
    /\ alerts[r][i] # 0 => status[r].alerted
    /\ (r \in DOMAIN rows[i] /\ ~rows[i][r].alerted) => alerts[r][i] = 0

\* Dropping a row leaves the other rows.
LEMMA RowDoneKeeps ==
  ASSUME LivenessTypeOK, NEW i \in Instances, NEW r \in Reps, RowDone(i, r)
  PROVE  /\ \A j \in Instances, s \in Reps :
              s \in DOMAIN rows'[j] => s \in DOMAIN rows[j] /\ rows'[j][s] = rows[j][s]
         /\ r \notin DOMAIN rows'[i]
<1> DEFINE kept == [s \in DOMAIN rows[i] \ {r} |-> rows[i][s]]
<1>1. \A s \in Reps : s \in DOMAIN kept => s \in DOMAIN rows[i] /\ kept[s] = rows[i][s] OBVIOUS
<1>2. r \notin DOMAIN kept OBVIOUS
<1>3. rows' = [rows EXCEPT ![i] = kept] BY DEF RowDone
<1> HIDE DEF kept
<1> QED BY <1>1, <1>2, <1>3 DEF LivenessTypeOK

LEMMA LookFlagged ==
  ASSUME LivenessTypeOK, Flagged, NEW i \in Instances, NEW r \in Reps,
         SignedOut(i, r) \/ GoneOffline(i, r) \/ BackOnline(i, r) \/ NothingNew(i, r)
  PROVE  Flagged'
<1>0. /\ \A j \in Instances, s \in Reps :
            s \in DOMAIN rows'[j] => s \in DOMAIN rows[j] /\ rows'[j][s] = rows[j][s]
      /\ r \notin DOMAIN rows'[i]
  BY RowDoneKeeps DEF SignedOut, GoneOffline, BackOnline, NothingNew
<1>1. CASE Alert(r, FALSE) /\ alerts' = [alerts EXCEPT ![r] = NoAlert]
  <2>1. \A j \in Instances : alerts'[r][j] = 0 BY <1>1 DEF NoAlert, LivenessTypeOK
  <2>2. \A s \in Reps \ {r} : alerts'[s] = alerts[s] /\ status'[s] = status[s]
    BY <1>1 DEF Alert, LivenessTypeOK
  <2> QED BY <1>0, <2>1, <2>2, SMT DEF Flagged
<1>2. CASE GoneOffline(i, r)
  <2>1. alerts[r][i] = 0 BY <1>2 DEF GoneOffline, Row, Flagged
  <2>2. /\ alerts'[r][i] = 1
        /\ \A s \in Reps, j \in Instances : s # r \/ j # i => alerts'[s][j] = alerts[s][j]
    BY <1>2, <2>1, SMT DEF GoneOffline, LivenessTypeOK
  <2>3. status'[r].alerted /\ \A s \in Reps \ {r} : status'[s] = status[s]
    BY <1>2 DEF GoneOffline, Alert, LivenessTypeOK, Statuses
  <2> QED BY <1>0, <2>2, <2>3, SMT DEF Flagged
<1>3. CASE UNCHANGED <<status, alerts>> BY <1>0, <1>3 DEF Flagged
<1> QED BY <1>1, <1>2, <1>3 DEF SignedOut, BackOnline, NothingNew

LEMMA NextFlagged == LivenessTypeOK /\ Flagged /\ [LivenessNext]_livenessVars => Flagged'
<1> SUFFICES ASSUME LivenessTypeOK, Flagged, [LivenessNext]_livenessVars PROVE Flagged' OBVIOUS
<1>1. CASE Minute
  <2>1. \A r \in Reps : status'[r].alerted = status[r].alerted
    BY <1>1, AgedType DEF Minute, LivenessTypeOK
  <2> QED BY <1>1, <2>1 DEF Minute, Flagged
<1>2. ASSUME NEW r \in Reps, Touch(r) PROVE Flagged'
  BY <1>2, SMT DEF Touch, NoAlert, Flagged, LivenessTypeOK
<1>3. ASSUME NEW b \in Beats, HeartbeatSave(b) PROVE Flagged'
  BY <1>3, SMT DEF HeartbeatSave, NoAlert, Flagged, LivenessTypeOK
<1>4. ASSUME NEW i \in Instances, NEW r \in Reps,
             SignedOut(i, r) \/ GoneOffline(i, r) \/ BackOnline(i, r) \/ NothingNew(i, r)
      PROVE  Flagged'
  BY <1>4, LookFlagged
<1>5. ASSUME NEW i \in Instances, CheckStart(i) PROVE Flagged'
  BY <1>5 DEF CheckStart, Flagged, LivenessTypeOK
<1>6. ASSUME NEW i \in Instances, CheckFails(i) PROVE Flagged'
  BY <1>6 DEF CheckFails, NoRows, Flagged, LivenessTypeOK
<1>7. CASE UNCHANGED <<status, alerts, rows>> BY <1>7 DEF Flagged
<1> QED BY <1>1, <1>2, <1>3, <1>4, <1>5, <1>6, <1>7
        DEF LivenessNext, Check, HeartbeatRead, HeartbeatFails, livenessVars

\* However many instances check at once and however heartbeats overlap with
\* them, an instance announces a silence once: two instances may both announce
\* it, none does so twice (heartbeat-watchdog.service.ts, check).
THEOREM AlertedOnceByEachHolds == LivenessSpec => []AlertedOnceByEach
<1>1. LivenessInit => Flagged
  BY SMT DEF LivenessInit, NoAlert, NoRows, Flagged
<1>2. Flagged => AlertedOnceByEach BY DEF Flagged, AlertedOnceByEach
<1> QED BY <1>1, <1>2, NextFlagged, LivenessTypeCorrect, PTL DEF LivenessSpec
=============================================================================
