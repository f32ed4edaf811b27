---------------------------- MODULE RepLiveness ----------------------------
(***************************************************************************)
(* Liveness of the salesmen: heartbeats and location uploads keep the row  *)
(* rep_statuses of a rep fresh, and the watchdog of every server instance  *)
(* announces, once a minute, who fell silent and who came back.            *)
(* Source: rep-status.service.ts, heartbeat-watchdog.service.ts            *)
(*                                                                         *)
(* Timestamps are ages in minutes; an age past the limit it is compared    *)
(* with is not told from the next.                                         *)
(***************************************************************************)
EXTENDS Integers, FiniteSets

CONSTANTS
  Reps,        \* the active salesmen
  Instances,   \* servers that run the watchdog
  Beats,       \* heartbeat requests that may overlap
  Threshold,   \* heartbeat.offlineThresholdMin, in minutes
  Cooldown,    \* GPS_ALERT_COOLDOWN_MS, in minutes
  MaxFailures, \* bound: checks that fail
  Never        \* a timestamp that is NULL

ASSUME LivenessAssumption ==
  /\ Threshold \in Nat /\ Cooldown \in Nat /\ MaxFailures \in Nat
  /\ Never \notin Int
  /\ Instances \cap Beats = {}

VARIABLES
  status,    \* rep_statuses; a missing row reads like one never seen
  beat,      \* heartbeats between their read and their save
  rows,      \* rows an instance has read and not yet looked at
  checked,   \* instances whose watchdog ran in this minute
  alerts,    \* rep.offline by each instance since the last sign of life, recovery or
             \* sign-out of a rep
  failures   \* checks that failed

livenessVars == <<status, beat, rows, checked, alerts, failures>>

NewStatus == [seen |-> Never, gps |-> "unknown", out |-> FALSE,
              alerted |-> FALSE, gpsAlerted |-> Never]
NoBeat == [rep |-> Never, image |-> NewStatus]
NoRows == [r \in {} |-> NewStatus]
NoAlert == [i \in Instances |-> 0]

LivenessInit ==
  /\ status = [r \in Reps |-> NewStatus]
  /\ beat = [b \in Beats |-> NoBeat]
  /\ rows = [i \in Instances |-> NoRows]
  /\ checked = {}
  /\ alerts = [r \in Reps |-> NoAlert]
  /\ failures = 0

-----------------------------------------------------------------------------
Older(age, limit) == IF age = Never \/ age > limit THEN age ELSE age + 1

\* External: a minute passes.  A request and a check take less than that, and
\* the cron job runs in each instance.
Minute ==
  /\ checked = Instances
  /\ \A i \in Instances : rows[i] = NoRows
  /\ \A b \in Beats : beat[b] = NoBeat
  /\ status' = [r \in Reps |-> [status[r] EXCEPT !.seen = Older(@, Threshold),
                                                 !.gpsAlerted = Older(@, Cooldown)]]
  /\ checked' = {}
  /\ UNCHANGED <<beat, rows, alerts, failures>>

\* touch, after a location upload; a failure is swallowed.
Touch(r) ==
  /\ status' = [status EXCEPT ![r].seen = 0]
  /\ alerts' = [alerts EXCEPT ![r] = NoAlert]
  /\ UNCHANGED <<beat, rows, checked, failures>>

-----------------------------------------------------------------------------
\* heartbeat: the row with what the device reports.  A working rep whose GPS went
\* off is alerted unless one alert is recent; GPS back on forgets the alert.
Beaten(row, gps, out) ==
  LET off == ~out /\ row.gps = "on" /\ gps = "off"
      on  == ~out /\ row.gps = "off" /\ gps = "on"
      recent == row.gpsAlerted # Never /\ row.gpsAlerted <= Cooldown IN
  [row EXCEPT !.seen = 0, !.gps = gps, !.out = out,
              !.gpsAlerted = IF off /\ ~recent THEN 0 ELSE IF on THEN Never ELSE @]

HeartbeatRead(b, r) ==
  /\ beat[b] = NoBeat
  /\ \E gps \in {"on", "off"}, out \in BOOLEAN :
       beat' = [beat EXCEPT ![b] = [rep |-> r, image |-> Beaten(status[r], gps, out)]]
  /\ UNCHANGED <<status, rows, checked, alerts, failures>>

\* save(next) writes the whole image, offline_alerted_at as it was read included.
HeartbeatSave(b) ==
  /\ beat[b] # NoBeat
  /\ status' = [status EXCEPT ![beat[b].rep] = beat[b].image]
  /\ alerts' = [alerts EXCEPT ![beat[b].rep] = NoAlert]
  /\ beat' = [beat EXCEPT ![b] = NoBeat]
  /\ UNCHANGED <<rows, checked, failures>>

\* The save fails, or the server dies before it.
HeartbeatFails(b) ==
  /\ beat[b] # NoBeat
  /\ beat' = [beat EXCEPT ![b] = NoBeat]
  /\ UNCHANGED <<status, rows, checked, alerts, failures>>

-----------------------------------------------------------------------------
\* check, every minute: one query reads the rows of the active reps.
CheckStart(i) ==
  /\ i \notin checked
  /\ checked' = checked \cup {i}
  /\ rows' = [rows EXCEPT ![i] = status]
  /\ UNCHANGED <<status, beat, alerts, failures>>

Row(i, r) == rows[i][r]
RowDone(i, r) == rows' = [rows EXCEPT ![i] = [s \in DOMAIN rows[i] \ {r} |-> rows[i][s]]]
Silent(row) == row.seen # Never /\ row.seen > Threshold
Seen(row) == row.seen # Never /\ row.seen <= Threshold
Alert(r, flag) == status' = [status EXCEPT ![r].alerted = flag]

\* Day closed: never alert, clear a flag that is left.
SignedOut(i, r) ==
  /\ r \in DOMAIN rows[i] /\ Row(i, r).out
  /\ IF Row(i, r).alerted
     THEN Alert(r, FALSE) /\ alerts' = [alerts EXCEPT ![r] = NoAlert]
     ELSE UNCHANGED <<status, alerts>>
  /\ RowDone(i, r)
  /\ UNCHANGED <<beat, checked, failures>>

\* Mutant of GoneOffline: rep.offline is emitted, the flag is not set.
GoneOfflineUnflagged(i, r) ==
  /\ r \in DOMAIN rows[i] /\ ~Row(i, r).out
  /\ Silent(Row(i, r)) /\ ~Row(i, r).alerted
  /\ alerts' = [alerts EXCEPT ![r][i] = @ + 1]
  /\ RowDone(i, r)
  /\ UNCHANGED <<status, beat, checked, failures>>

\* One UPDATE ... RETURNING sets the flag where it is clear.  The driver answers
\* it with [rows, count], never an empty array: claimed.length > 0 is true also
\* for the instance whose UPDATE found the flag set, and it emits as well.
GoneOffline(i, r) ==
  /\ r \in DOMAIN rows[i] /\ ~Row(i, r).out
  /\ Silent(Row(i, r)) /\ ~Row(i, r).alerted
  /\ Alert(r, TRUE) /\ alerts' = [alerts EXCEPT ![r][i] = @ + 1]
  /\ RowDone(i, r)
  /\ UNCHANGED <<beat, checked, failures>>

\* Mutant of BackOnline: rep.online is emitted, the flag stays.
BackOnlineFlagged(i, r) ==
  /\ r \in DOMAIN rows[i] /\ ~Row(i, r).out
  /\ Seen(Row(i, r)) /\ Row(i, r).alerted
  /\ alerts' = [alerts EXCEPT ![r] = NoAlert]
  /\ RowDone(i, r)
  /\ UNCHANGED <<status, beat, checked, failures>>

\* Recovery: clear the flag and emit rep.online.
BackOnline(i, r) ==
  /\ r \in DOMAIN rows[i] /\ ~Row(i, r).out
  /\ Seen(Row(i, r)) /\ Row(i, r).alerted
  /\ Alert(r, FALSE) /\ alerts' = [alerts EXCEPT ![r] = NoAlert]
  /\ RowDone(i, r)
  /\ UNCHANGED <<beat, checked, failures>>

\* Never pinged, or nothing has changed.
NothingNew(i, r) ==
  /\ r \in DOMAIN rows[i] /\ ~Row(i, r).out
  /\ ~(Silent(Row(i, r)) /\ ~Row(i, r).alerted)
  /\ ~(Seen(Row(i, r)) /\ Row(i, r).alerted)
  /\ RowDone(i, r)
  /\ UNCHANGED <<status, beat, checked, alerts, failures>>

\* The database fails: tick gives the check up until the next minute.
CheckFails(i) ==
  /\ rows[i] # NoRows
  /\ failures < MaxFailures
  /\ failures' = failures + 1
  /\ rows' = [rows EXCEPT ![i] = NoRows]
  /\ UNCHANGED <<status, beat, checked, alerts>>

-----------------------------------------------------------------------------
Check(i) ==
  \/ CheckStart(i)
  \/ \E r \in Reps : SignedOut(i, r) \/ GoneOffline(i, r) \/ BackOnline(i, r) \/ NothingNew(i, r)

LivenessNext ==
  \/ Minute
  \/ \E r \in Reps : Touch(r)
  \/ \E b \in Beats : (\E r \in Reps : HeartbeatRead(b, r)) \/ HeartbeatSave(b) \/ HeartbeatFails(b)
  \/ \E i \in Instances : Check(i) \/ CheckFails(i)

LivenessSpec == LivenessInit /\ [][LivenessNext]_livenessVars

\* Time passes whatever the devices do, the cron job runs, requests end, and a
\* check goes on.
LivenessFairSpec ==
  /\ LivenessSpec
  /\ SF_livenessVars(Minute)
  /\ \A b \in Beats : WF_livenessVars(HeartbeatSave(b))
  /\ \A i \in Instances : WF_livenessVars(Check(i))

-----------------------------------------------------------------------------
Statuses == [seen : 0..Threshold + 1 \cup {Never}, gps : {"unknown", "on", "off"},
             out : BOOLEAN, alerted : BOOLEAN, gpsAlerted : 0..Cooldown + 1 \cup {Never}]

LivenessTypeOK ==
  /\ status \in [Reps -> Statuses]
  /\ beat \in [Beats -> [rep : Reps \cup {Never}, image : Statuses]]
  /\ \A b \in Beats : beat[b] # NoBeat => beat[b].rep \in Reps
  /\ DOMAIN rows = Instances
  /\ \A i \in Instances : DOMAIN rows[i] \subseteq Reps /\ rows[i] \in [DOMAIN rows[i] -> Statuses]
  /\ checked \subseteq Instances
  /\ alerts \in [Reps -> [Instances -> Nat]]
  /\ failures \in 0..MaxFailures

\* "RETURNING yields a row only for the instance that actually flipped NULL->now(),
\* so only it emits" (heartbeat-watchdog.service.ts): between two rep.offline of a
\* rep there is a sign of life, its recovery or the end of its day.  Two instances
\* that read the row before either wrote the flag both emit: the code does not do
\* what it says.
AlertedOnce ==
  \A r \in Reps : \A i, j \in Instances :
    alerts[r][i] <= 1 /\ (alerts[r][i] = 1 /\ alerts[r][j] = 1 => i = j)

\* What the flag does ensure: an instance announces a silence once, whatever
\* stale rows it looks at, and however heartbeats write the flag back.
AlertedOnceByEach == \A r \in Reps, i \in Instances : alerts[r][i] <= 1

\* A working rep that stays silent past the threshold is announced, whatever
\* came before: no flag left over from an earlier silence hides this one, as
\* long as fewer checks fail than the threshold has minutes (check).
SilenceIsAlerted ==
  \A r \in Reps :
    (~status[r].out /\ Silent(status[r]))
      ~> ((\E i \in Instances : alerts[r][i] >= 1) \/ status[r].out \/ ~Silent(status[r]))
=============================================================================
