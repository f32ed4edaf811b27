--------------------------- MODULE ErpPull_proofs ---------------------------
(***************************************************************************)
(* Type correctness of the inbound mirror, MovementOnce, SeenIsMirrored,   *)
(* PendingIsServed and CursorCovers, for any number of stores, rows, pages,*)
(* pulls that overlap, and restarts.                                       *)
(***************************************************************************)
EXTENDS ErpPull, FiniteSetTheorems, SequenceTheorems, TLAPS

Pulls == [at : Places, todo : SUBSET Feeds, feed : Feeds \cup {None},
          since : 0..MaxTime, max : 0..MaxTime, page : 0..MaxPages,
          rows : Seq(Rows), full : BOOLEAN]
Statuses == {None, "received", "processed", "ignored", "error"}
Answers == {"stored", "dispatched", "over"}

LEMMA TypeDef ==
  TypeOK <=> /\ erp \subseteq Rows
             /\ cursor \in [Feeds -> 0..MaxTime]
             /\ idmap \subseteq Rows /\ headers \subseteq Movements
             /\ mirrored \in [Rows -> Nat]
             /\ pulling \in BOOLEAN /\ webhookTimer \in BOOLEAN
             /\ stockPending \in BOOLEAN /\ stockRunning \in BOOLEAN
             /\ pull \in [Pullers -> Pulls]
             /\ event \in [Events -> Statuses]
             /\ request \in [Events -> Answers]
             /\ restarts \in 0..MaxRestarts
BY Zenon DEF TypeOK, Pulls, Statuses, Answers

\* The constants a proof about types needs.
LEMMA Numbers ==
  /\ MaxTime \in Nat /\ MaxPages \in Nat \ {0} /\ MaxRestarts \in Nat
  /\ 0 \in 0..MaxTime /\ 0 \in 0..MaxPages /\ 1 \in 0..MaxPages /\ 0 \in 0..MaxRestarts
BY PullAssumption, SMT

LEMMA IdleType ==
  /\ Idle \in Pulls
  /\ \A todo \in SUBSET Feeds : [Idle EXCEPT !.at = "feed", !.todo = todo] \in Pulls
<1>1. <<>> \in Seq(Rows) BY EmptySeq
<1> QED BY <1>1, Numbers DEF Idle, Pulls, Places

\* A page of a feed is a sequence of rows.
LEMMA PagesType ==
  ASSUME TypeOK, NEW f, NEW since, NEW page, NEW s \in Pages(f, since, page)
  PROVE  s \in Seq(Rows)
<1> DEFINE rank(r) == Cardinality({t \in Listing(f, since) : CreatedAt[t] < CreatedAt[r]})
           rows == {r \in Listing(f, since) :
                      rank(r) >= (page - 1) * PageSize /\ rank(r) < page * PageSize}
<1>1. rows \subseteq Rows BY DEF Listing, TypeOK
<1>2. s \in [1..Cardinality(rows) -> rows] BY Zenon DEF Pages
<1> HIDE DEF rows
<1>3. Cardinality(rows) \in Nat BY <1>1, PullAssumption, FS_Subset, FS_CardinalityType
<1> QED BY <1>1, <1>2, <1>3

\* One pull changes, the others go on as they were.
LEMMA OtherPulls ==
  ASSUME TypeOK, NEW p \in Pullers, NEW x \in Pulls, pull' = [pull EXCEPT ![p] = x]
  PROVE  pull' \in [Pullers -> Pulls]
BY TypeDef

LEMMA GotoType ==
  ASSUME TypeOK, NEW p \in Pullers, NEW place \in Places, Goto(p, place)
  PROVE  pull' \in [Pullers -> Pulls]
<1>1. pull[p] \in Pulls BY TypeDef
<1>2. [pull[p] EXCEPT !.at = place] \in Pulls BY <1>1 DEF Pulls
<1>3. pull' = [pull EXCEPT ![p] = [pull[p] EXCEPT !.at = place]] BY DEF Goto
<1> QED BY <1>2, <1>3, OtherPulls

LEMMA FeedOverType ==
  ASSUME TypeOK, NEW p \in Pullers, FeedOver(p)
  PROVE  pull' \in [Pullers -> Pulls]
<1>1. pull[p].todo \in SUBSET Feeds BY TypeDef DEF Pulls
<1> QED BY <1>1, IdleType, OtherPulls DEF FeedOver

LEMMA RowOverType ==
  ASSUME TypeOK, NEW p \in Pullers, pull[p].rows # <<>>, RowOver(p)
  PROVE  pull' \in [Pullers -> Pulls]
<1>1. pull[p] \in Pulls BY TypeDef
<1>2. Tail(pull[p].rows) \in Seq(Rows) BY <1>1, HeadTailProperties DEF Pulls
<1>3. [pull[p] EXCEPT !.at = "row", !.rows = Tail(@)] \in Pulls
  BY <1>1, <1>2 DEF Pulls, Places
<1>4. pull' = [pull EXCEPT ![p] = [pull[p] EXCEPT !.at = "row", !.rows = Tail(@)]]
  BY DEF RowOver
<1> QED BY <1>3, <1>4, OtherPulls

-----------------------------------------------------------------------------
LEMMA InitTypeOK == Init => TypeOK
<1> SUFFICES ASSUME Init PROVE TypeOK OBVIOUS
<1>1. pull \in [Pullers -> Pulls] BY IdleType DEF Init
<1>2. cursor \in [Feeds -> 0..MaxTime] /\ mirrored \in [Rows -> Nat] /\ restarts \in 0..MaxRestarts
  BY Numbers DEF Init
<1> QED BY <1>1, <1>2, TypeDef DEF Init, Statuses, Answers

\* With the ERP off a pull is over, or has nothing left to do.
LEMMA OffIs ==
  ASSUME TypeOK, NEW p \in Pullers, ErpOff(p)
  PROVE  \E x \in Pulls : /\ pull' = [pull EXCEPT ![p] = x]
                          /\ x.at = "feed" \/ (x.at = "idle" /\ p \in Scheduled)
<1>1. CASE pull' = [pull EXCEPT ![p] = Idle] /\ p \in Scheduled
  BY <1>1, IdleType DEF Idle
<1>2. CASE /\ At(p, "feed")
           /\ \E rest \in SUBSET (pull[p].todo \cap {ReceiptFeed}) :
                pull' = [pull EXCEPT ![p].todo = rest]
  <2>1. PICK rest \in SUBSET (pull[p].todo \cap {ReceiptFeed}) : pull' = [pull EXCEPT ![p].todo = rest]
    BY <1>2
  <2>2. pull[p] \in Pulls /\ pull[p].at = "feed" BY <1>2, TypeDef DEF At
  <2>3. pull' = [pull EXCEPT ![p] = [pull[p] EXCEPT !.todo = rest]] BY <2>1
  <2>4. rest \in SUBSET Feeds BY <2>1, <2>2 DEF Pulls
  <2>5. /\ [pull[p] EXCEPT !.todo = rest] \in Pulls
        /\ [pull[p] EXCEPT !.todo = rest].at = "feed"
    BY <2>2, <2>4 DEF Pulls
  <2> QED BY <2>3, <2>5
<1> QED BY <1>1, <1>2 DEF ErpOff

LEMMA OffTypeOK ==
  ASSUME TypeOK, NEW p \in Pullers, ErpOff(p)
  PROVE  TypeOK'
<1>1. pull' \in [Pullers -> Pulls] BY OffIs, OtherPulls
<1>2. UNCHANGED <<erp, cursor, idmap, headers, mirrored, pulling, webhookTimer, stockPending,
                  stockRunning, event, request, restarts>>
  BY Zenon DEF ErpOff, tables, flags, hub
<1> QED BY <1>1, <1>2 DEF TypeOK, Pulls

\* A pull starts, goes from feed to feed, and ends.
LEMMA FeedsTypeOK ==
  ASSUME TypeOK, NEW p \in Pullers,
         Tick(p) \/ TimerFires(p) \/ ScheduledStart(p) \/ ManualStart(p)
           \/ NextFeed(p) \/ PullOver(p)
  PROVE  TypeOK'
<1>1. UNCHANGED <<erp, tables, hub, restarts>>
  BY Zenon DEF Tick, TimerFires, ScheduledStart, ManualStart, NextFeed, PullOver, flags
<1>2. pulling' \in BOOLEAN /\ webhookTimer' \in BOOLEAN
      /\ stockPending' \in BOOLEAN /\ stockRunning' \in BOOLEAN
  <2>1. /\ pulling' = pulling \/ pulling' = TRUE \/ pulling' = FALSE
        /\ webhookTimer' = webhookTimer \/ webhookTimer' = FALSE
        /\ stockPending' = stockPending \/ stockPending' = FALSE
        /\ stockRunning' = stockRunning \/ stockRunning' = FALSE
           \/ stockRunning' = (p = Drain /\ stockPending)
    BY Zenon DEF Tick, TimerFires, ScheduledStart, ManualStart, NextFeed, PullOver, flags
  <2>2. (p = Drain /\ stockPending) \in BOOLEAN OBVIOUS
  <2> QED BY <2>1, <2>2, TypeDef
<1>3. pull' \in [Pullers -> Pulls]
  <2>1. CASE Tick(p) \/ TimerFires(p)
    <3>1. Goto(p, "config") BY <2>1, Zenon DEF Tick, TimerFires
    <3> QED BY <3>1, GotoType DEF Places
  <2>2. CASE ScheduledStart(p) \/ ManualStart(p)
    <3>1. pull' = [pull EXCEPT ![p] = [Idle EXCEPT !.at = "feed", !.todo = Feeds]]
      BY <2>2, Zenon DEF ScheduledStart, ManualStart
    <3> QED BY <3>1, IdleType, OtherPulls
  <2>3. CASE NextFeed(p)
    <3>1. PICK f \in pull[p].todo : pull' = [pull EXCEPT ![p] =
            [Idle EXCEPT !.at = "list", !.todo = pull[p].todo \ {f}, !.feed = f,
                         !.since = cursor[f], !.max = cursor[f], !.page = 1]]
      BY <2>3, Zenon DEF NextFeed
    <3>2. pull[p].todo \subseteq Feeds BY TypeDef DEF Pulls
    <3>3. f \in Feeds /\ cursor[f] \in 0..MaxTime BY <3>2, TypeDef
    <3>4. [Idle EXCEPT !.at = "list", !.todo = pull[p].todo \ {f}, !.feed = f,
                       !.since = cursor[f], !.max = cursor[f], !.page = 1] \in Pulls
      BY <3>2, <3>3, Numbers, EmptySeq DEF Idle, Pulls, Places
    <3> QED BY <3>1, <3>4, OtherPulls
  <2>4. CASE PullOver(p)
    <3>1. Stores \in SUBSET Feeds BY DEF Feeds
    <3>2. \E x \in Pulls : pull' = [pull EXCEPT ![p] = x]
      BY <2>4, <3>1, IdleType DEF PullOver
    <3> QED BY <3>2, OtherPulls
  <2> QED BY <2>1, <2>2, <2>3, <2>4
<1>4. /\ erp' = erp /\ cursor' = cursor /\ idmap' = idmap /\ headers' = headers
      /\ mirrored' = mirrored /\ event' = event /\ request' = request /\ restarts' = restarts
  BY <1>1, Zenon DEF tables, hub
<1> QED BY <1>2, <1>3, <1>4 DEF TypeOK, Pulls

\* A pull lists a page and looks at its rows.
LEMMA PagesTypeOK ==
  ASSUME TypeOK, NEW p \in Pullers,
         ListPage(p) \/ ListFails(p) \/ PageOver(p) \/ CheckRow(p)
  PROVE  TypeOK'
<1>1. UNCHANGED <<erp, tables, flags, hub, restarts>>
  BY Zenon DEF ListPage, ListFails, PageOver, CheckRow
<1>2. pull[p] \in Pulls BY TypeDef
<1>3. pull' \in [Pullers -> Pulls]
  <2>1. CASE ListPage(p)
    <3>1. PICK rows \in Pages(pull[p].feed, pull[p].since, pull[p].page) :
            pull' = [pull EXCEPT ![p].at = IF rows = <<>> THEN "cursor" ELSE "row",
                                 ![p].rows = rows, ![p].full = Len(rows) = PageSize]
      BY <2>1, Zenon DEF ListPage
    <3>2. rows \in Seq(Rows) BY <3>1, PagesType
    <3>3. PICK at \in Places : at = IF rows = <<>> THEN "cursor" ELSE "row" BY DEF Places
    <3>4. PICK full \in BOOLEAN : full = (Len(rows) = PageSize) OBVIOUS
    <3>5. pull' = [pull EXCEPT ![p] = [pull[p] EXCEPT !.at = at, !.rows = rows, !.full = full]]
      BY <3>1, <3>3, <3>4
    <3>6. [pull[p] EXCEPT !.at = at, !.rows = rows, !.full = full] \in Pulls
      BY <1>2, <3>2 DEF Pulls
    <3> QED BY <3>5, <3>6, OtherPulls
  <2>2. CASE ListFails(p) BY <2>2, FeedOverType DEF ListFails
  <2>3. CASE PageOver(p)
    <3> DEFINE more == pull[p].full /\ pull[p].page + 1 <= MaxPages
    <3>1. PICK at \in Places, page \in 0..MaxPages :
            /\ at = IF more THEN "list" ELSE "cursor"
            /\ page = IF more THEN pull[p].page + 1 ELSE pull[p].page
      <4>1. pull[p].page \in 0..MaxPages BY <1>2 DEF Pulls
      <4>2. more => pull[p].page + 1 \in 0..MaxPages BY <4>1, Numbers, SMT
      <4> HIDE DEF more
      <4> QED BY <4>1, <4>2 DEF Places
    <3>2. pull' = [pull EXCEPT ![p] = [pull[p] EXCEPT !.at = at, !.page = page]]
      BY <2>3, <3>1 DEF PageOver
    <3>3. [pull[p] EXCEPT !.at = at, !.page = page] \in Pulls BY <1>2 DEF Pulls
    <3> QED BY <3>2, <3>3, OtherPulls
  <2>4. CASE CheckRow(p)
    <3> DEFINE r == Row(p)
               skip == r \in idmap \cup CostOnly \cup Skipped
               place == CASE skip -> "row"
                          [] ~skip /\ r \in Movements -> "header"
                          [] ~skip /\ r \in Receipts -> "line"
    <3>1. pull[p].rows \in Seq(Rows) /\ pull[p].rows # <<>> BY <1>2, <2>4 DEF Pulls, CheckRow
    <3>2. r \in Rows /\ Tail(pull[p].rows) \in Seq(Rows) BY <3>1, HeadTailProperties DEF Row
    <3>3. place \in Places
      <4>1. r \in Movements \/ r \in Receipts BY <3>2 DEF Rows
      <4>2. ~ (r \in Movements /\ r \in Receipts) BY PullAssumption
      <4> HIDE DEF r, skip
      <4> QED BY <4>1, <4>2 DEF Places
    <3>4. PICK max \in 0..MaxTime :
            max = IF CreatedAt[r] > pull[p].max THEN CreatedAt[r] ELSE pull[p].max
      <4>1. CreatedAt[r] \in 0..MaxTime BY <3>2, PullAssumption, SMT
      <4>2. pull[p].max \in 0..MaxTime BY <1>2 DEF Pulls
      <4> QED BY <4>1, <4>2
    <3>5. PICK rows \in Seq(Rows) : rows = IF skip THEN Tail(pull[p].rows) ELSE pull[p].rows
      BY <3>1, <3>2
    <3>6. pull' = [pull EXCEPT ![p].max = IF CreatedAt[r] > @ THEN CreatedAt[r] ELSE @,
                               ![p].rows = IF skip THEN Tail(@) ELSE @,
                               ![p].at = place]
      BY <2>4, Zenon DEF CheckRow
    <3> HIDE DEF r, skip, place
    <3>7. pull' = [pull EXCEPT ![p] = [pull[p] EXCEPT !.max = max, !.rows = rows, !.at = place]]
      BY <3>4, <3>5, <3>6
    <3>8. [pull[p] EXCEPT !.max = max, !.rows = rows, !.at = place] \in Pulls BY <1>2, <3>3 DEF Pulls
    <3> QED BY <3>7, <3>8, OtherPulls
  <2> QED BY <2>1, <2>2, <2>3, <2>4
<1>4. /\ erp' = erp /\ cursor' = cursor /\ idmap' = idmap /\ headers' = headers
      /\ mirrored' = mirrored /\ event' = event /\ request' = request /\ restarts' = restarts
      /\ pulling' = pulling /\ webhookTimer' = webhookTimer
      /\ stockPending' = stockPending /\ stockRunning' = stockRunning
  BY <1>1, Zenon DEF tables, flags, hub
<1> QED BY <1>3, <1>4 DEF TypeOK, Pulls

-----------------------------------------------------------------------------
\* At these places a pull has a row in hand, for a header one of a movement.
Busy == {"header", "line", "map"}
InHand ==
  \A p \in Pullers : /\ pull[p].at \in Busy => pull[p].rows # <<>>
                     /\ pull[p].at = "header" => Row(p) \in Movements

LEMMA RowInHand ==
  ASSUME TypeOK, InHand, NEW p \in Pullers, pull[p].at \in Busy
  PROVE  Row(p) \in Rows
<1>1. pull[p].rows \in Seq(Rows) /\ pull[p].rows # <<>> BY TypeDef DEF Pulls, InHand
<1> QED BY <1>1, HeadTailProperties DEF Row

\* A pull writes its row, or saves the cursor of its feed.
LEMMA WritesTypeOK ==
  ASSUME TypeOK, InHand, NEW p \in Pullers,
         SaveHeader(p) \/ SaveLine(p) \/ SaveMap(p) \/ SaveCursor(p)
  PROVE  TypeOK'
<1>1. /\ erp' = erp /\ event' = event /\ request' = request /\ restarts' = restarts
      /\ pulling' = pulling /\ webhookTimer' = webhookTimer
      /\ stockPending' = stockPending /\ stockRunning' = stockRunning
  BY Zenon DEF SaveHeader, SaveLine, SaveMap, SaveCursor, flags, hub
<1>2. pull' \in [Pullers -> Pulls]
  <2>1. \/ \E place \in Places : Goto(p, place)
        \/ FeedOver(p)
        \/ RowOver(p) /\ pull[p].rows # <<>>
    BY DEF SaveHeader, SaveLine, SaveMap, SaveCursor, InHand, Busy, At, Places
  <2> QED BY <2>1, GotoType, FeedOverType, RowOverType
<1>3. headers' \subseteq Movements
  <2>1. SaveHeader(p) => Row(p) \in Movements BY DEF SaveHeader, At, InHand
  <2> QED BY <2>1, TypeDef DEF SaveHeader, SaveLine, SaveMap, SaveCursor
<1>4. idmap' \subseteq Rows
  <2>1. SaveMap(p) => Row(p) \in Rows BY RowInHand DEF SaveMap, At, Busy
  <2> QED BY <2>1, TypeDef DEF SaveHeader, SaveLine, SaveMap, SaveCursor
<1>5. mirrored' \in [Rows -> Nat]
  <2>1. mirrored' = mirrored \/ mirrored' = [mirrored EXCEPT ![Row(p)] = @ + 1]
    BY Zenon DEF SaveHeader, SaveLine, SaveMap, SaveCursor
  <2> QED BY <2>1, TypeDef, SMT
<1>6. cursor' \in [Feeds -> 0..MaxTime]
  <2>1. pull[p].max \in 0..MaxTime BY TypeDef DEF Pulls
  <2>2. \/ cursor' = cursor
        \/ cursor' = [cursor EXCEPT ![pull[p].feed] = IF pull[p].max = 0 THEN @ ELSE pull[p].max]
    BY Zenon DEF SaveHeader, SaveLine, SaveMap, SaveCursor
  <2> QED BY <2>1, <2>2, TypeDef
<1> QED BY <1>1, <1>2, <1>3, <1>4, <1>5, <1>6 DEF TypeOK, Pulls

\* The Hub delivers, the ERP commits, the process restarts.
LEMMA HubTypeOK ==
  ASSUME TypeOK,
         \/ \E r \in Rows : ErpCommits(r)
         \/ ErpWebhook
         \/ \E e \in Events : Receive(e) \/ Dispatch(e) \/ Record(e)
         \/ \E e \in Events : Reprocess(e)
         \/ Restart
  PROVE  TypeOK'
<1>1. /\ cursor' = cursor /\ idmap' = idmap /\ headers' = headers /\ mirrored' = mirrored
  BY Zenon DEF ErpCommits, ErpWebhook, Receive, Dispatch, Record, Reprocess, Restart, tables
<1>2. erp' \subseteq Rows /\ restarts' \in 0..MaxRestarts
  <2>1. erp' = erp \/ \E r \in Rows : erp' = erp \cup {r}
    BY Zenon DEF ErpCommits, ErpWebhook, Receive, Dispatch, Record, Reprocess, Restart
  <2>2. restarts' = restarts \/ (restarts < MaxRestarts /\ restarts' = restarts + 1)
    BY Zenon DEF ErpCommits, ErpWebhook, Receive, Dispatch, Record, Reprocess, Restart
  <2>3. restarts' \in 0..MaxRestarts BY <2>2, TypeDef, Numbers, SMT
  <2> QED BY <2>1, <2>3, TypeDef
<1>4. ASSUME NEW e, DispatchEvent(e)
      PROVE  /\ stockPending' \in BOOLEAN /\ stockRunning' \in BOOLEAN
             /\ pull' \in [Pullers -> Pulls]
  <2>1. \/ UNCHANGED <<stockPending, stockRunning, pull>> \/ StockChanged
    BY <1>4, Zenon DEF DispatchEvent
  <2>2. CASE StockChanged
    <3>1. Stores \in SUBSET Feeds /\ Drain \in Pullers BY DEF Feeds, Pullers
    <3>2. pull' = pull \/ pull' = [pull EXCEPT ![Drain] = [Idle EXCEPT !.at = "feed", !.todo = Stores]]
      BY <2>2, Zenon DEF StockChanged
    <3>3. pull' \in [Pullers -> Pulls] BY <3>1, <3>2, IdleType, OtherPulls, TypeDef
    <3> QED BY <2>2, <3>3, TypeDef DEF StockChanged
  <2> QED BY <2>1, <2>2, TypeDef
<1>5. pulling' \in BOOLEAN /\ webhookTimer' \in BOOLEAN
      /\ stockPending' \in BOOLEAN /\ stockRunning' \in BOOLEAN
      /\ pull' \in [Pullers -> Pulls]
  <2>1. CASE Restart
    BY <2>1, IdleType DEF Restart
  <2>2. CASE \/ \E r \in Rows : ErpCommits(r)
             \/ ErpWebhook
             \/ \E e \in Events : Receive(e) \/ Record(e)
    <3>1. pulling' = pulling /\ (webhookTimer' = webhookTimer \/ webhookTimer' = TRUE)
          /\ stockPending' = stockPending /\ stockRunning' = stockRunning /\ pull' = pull
      BY <2>2, Zenon DEF ErpCommits, ErpWebhook, Receive, Record, flags
    <3> QED BY <3>1, TypeDef
  <2>3. CASE \/ \E e \in Events : Dispatch(e)
             \/ \E e \in Events : Reprocess(e)
    <3>1. (\E e : DispatchEvent(e)) /\ pulling' = pulling /\ webhookTimer' = webhookTimer
      BY <2>3, Zenon DEF Dispatch, Reprocess
    <3> QED BY <1>4, <3>1, TypeDef
  <2> QED BY <2>1, <2>2, <2>3
<1>6. event' \in [Events -> Statuses]
  <2>1. ASSUME NEW e PROVE Outcome(e) \in Statuses BY DEF Outcome, Statuses
  <2>2. \/ event' = event
        \/ \E e, status : status \in Statuses /\ event' = [event EXCEPT ![e] = status]
    BY <2>1 DEF ErpCommits, ErpWebhook, Receive, Dispatch, Record, Reprocess, Restart, hub, Statuses
  <2> QED BY <2>2, TypeDef
<1>7. request' \in [Events -> Answers]
  <2>1. CASE Restart BY <2>1, TypeDef DEF Restart, Answers
  <2>2. CASE ~Restart
    <3>1. \/ request' = request
          \/ \E e, answer : answer \in Answers /\ request' = [request EXCEPT ![e] = answer]
      BY <2>2 DEF ErpCommits, ErpWebhook, Receive, Dispatch, Record, Reprocess, hub, Answers
    <3> QED BY <3>1, TypeDef
  <2> QED BY <2>1, <2>2
<1> QED BY <1>1, <1>2, <1>5, <1>6, <1>7 DEF TypeOK, Pulls, Statuses, Answers

-----------------------------------------------------------------------------
\* Why no movement counts twice: before its line is written its header is, the
\* header is written once, and one pull only is at that line.
OneLine ==
  /\ \A m \in Movements : m \notin headers => mirrored[m] = 0
  /\ \A p \in Pullers :
       /\ pull[p].at = "line" /\ Row(p) \in Movements =>
            /\ Row(p) \in headers /\ mirrored[Row(p)] = 0
            /\ \A q \in Pullers \ {p} : pull[q].at = "line" => Row(q) # Row(p)
       /\ pull[p].at = "map" => mirrored[Row(p)] >= 1

Inv == TypeOK /\ InHand /\ OneLine /\ MovementOnce /\ SeenIsMirrored

LEMMA InitInv == Init => Inv
<1> SUFFICES ASSUME Init PROVE InHand /\ OneLine /\ MovementOnce /\ SeenIsMirrored
  BY InitTypeOK DEF Inv
<1>1. \A p \in Pullers : pull[p].at = "idle" BY DEF Init, Idle
<1>2. (\A r \in Rows : mirrored[r] = 0) /\ idmap = {} BY DEF Init
<1> QED BY <1>1, <1>2 DEF InHand, OneLine, MovementOnce, SeenIsMirrored, Busy, Rows

\* A step after which the pulls that moved have no row in hand.
LEMMA QuietInv ==
  ASSUME Inv, TypeOK', headers' = headers, mirrored' = mirrored, idmap' = idmap,
         \A p \in Pullers : pull'[p] = pull[p] \/ pull'[p].at \notin Busy
  PROVE  Inv'
<1>1. \A p \in Pullers : pull'[p].at \in Busy => pull'[p].at = pull[p].at /\ Row(p)' = Row(p)
                                                 /\ pull'[p].rows = pull[p].rows
  BY DEF Row
<1>2. InHand' BY <1>1 DEF Inv, InHand, Busy
<1>3. OneLine' BY <1>1 DEF Inv, OneLine, Busy
<1> QED BY <1>2, <1>3 DEF Inv, MovementOnce, SeenIsMirrored

\* A pull that goes on with the row it has in hand.
LEMMA GotoRow ==
  ASSUME TypeOK, NEW p \in Pullers, NEW place \in Places, Goto(p, place)
  PROVE  /\ \A q \in Pullers \ {p} : pull'[q] = pull[q]
         /\ pull'[p].at = place /\ pull'[p].rows = pull[p].rows
         /\ \A q \in Pullers : Row(q)' = Row(q)
<1>1. pull' = [pull EXCEPT ![p] = [pull[p] EXCEPT !.at = place]] BY DEF Goto
<1>2. pull[p] \in Pulls BY TypeDef
<1>3. [pull[p] EXCEPT !.at = place].at = place /\ [pull[p] EXCEPT !.at = place].rows = pull[p].rows
  BY <1>2 DEF Pulls
<1> QED BY <1>1, <1>3, TypeDef DEF Row

\* A pull that is done with its row, or with its feed, has none in hand.
LEMMA OverIsQuiet ==
  ASSUME TypeOK, NEW p \in Pullers, FeedOver(p) \/ RowOver(p)
  PROVE  \A q \in Pullers : pull'[q] = pull[q] \/ pull'[q].at \notin Busy
<1>1. CASE FeedOver(p)
  <2>1. pull' = [pull EXCEPT ![p] = [Idle EXCEPT !.at = "feed", !.todo = pull[p].todo]]
    BY <1>1 DEF FeedOver
  <2>2. [Idle EXCEPT !.at = "feed", !.todo = pull[p].todo].at \notin Busy BY DEF Idle, Busy
  <2> QED BY <2>1, <2>2, TypeDef
<1>2. CASE RowOver(p)
  <2>1. pull' = [pull EXCEPT ![p] = [pull[p] EXCEPT !.at = "row", !.rows = Tail(@)]]
    BY <1>2 DEF RowOver
  <2>2. pull[p] \in Pulls BY TypeDef
  <2>3. [pull[p] EXCEPT !.at = "row", !.rows = Tail(@)].at \notin Busy
    BY <2>2 DEF Pulls, Busy
  <2> QED BY <2>1, <2>3, TypeDef
<1> QED BY <1>1, <1>2

-----------------------------------------------------------------------------
\* Starting, listing, and what the Hub, the ERP and a restart do, is quiet.
LEMMA FeedsInv ==
  ASSUME Inv, NEW p \in Pullers,
         Tick(p) \/ TimerFires(p) \/ ScheduledStart(p) \/ ManualStart(p)
           \/ NextFeed(p) \/ PullOver(p)
  PROVE  Inv'
<1>1. TypeOK' BY FeedsTypeOK DEF Inv
<1>2. headers' = headers /\ mirrored' = mirrored /\ idmap' = idmap
  BY Zenon DEF Tick, TimerFires, ScheduledStart, ManualStart, NextFeed, PullOver, tables
<1>3. \A q \in Pullers : pull'[q] = pull[q] \/ pull'[q].at \notin Busy
  <2>1. \A place : [Idle EXCEPT !.at = place].at = place BY DEF Idle
  <2>2. CASE Tick(p) \/ TimerFires(p)
    <3>1. Goto(p, "config") BY <2>2, Zenon DEF Tick, TimerFires
    <3>2. (\A q \in Pullers \ {p} : pull'[q] = pull[q]) /\ pull'[p].at = "config"
      BY <3>1, GotoRow DEF Places, Inv
    <3> QED BY <3>2 DEF Busy
  <2>3. CASE ScheduledStart(p) \/ ManualStart(p)
    <3>1. pull' = [pull EXCEPT ![p] = [Idle EXCEPT !.at = "feed", !.todo = Feeds]]
      BY <2>3, Zenon DEF ScheduledStart, ManualStart
    <3>2. [Idle EXCEPT !.at = "feed", !.todo = Feeds].at \notin Busy BY DEF Idle, Busy
    <3> QED BY <3>1, <3>2 DEF Inv, TypeOK
  <2>4. CASE NextFeed(p)
    <3>1. PICK f : pull' = [pull EXCEPT ![p] =
            [Idle EXCEPT !.at = "list", !.todo = pull[p].todo \ {f}, !.feed = f,
                         !.since = cursor[f], !.max = cursor[f], !.page = 1]]
      BY <2>4, Zenon DEF NextFeed
    <3>2. [Idle EXCEPT !.at = "list", !.todo = pull[p].todo \ {f}, !.feed = f,
                       !.since = cursor[f], !.max = cursor[f], !.page = 1].at \notin Busy
      BY DEF Idle, Busy
    <3> QED BY <3>1, <3>2 DEF Inv, TypeOK
  <2>5. CASE PullOver(p)
    <3>1. pull' = [pull EXCEPT ![p] = Idle]
          \/ pull' = [pull EXCEPT ![p] = [Idle EXCEPT !.at = "feed", !.todo = Stores]]
      BY <2>5 DEF PullOver
    <3>2. Idle.at \notin Busy /\ [Idle EXCEPT !.at = "feed", !.todo = Stores].at \notin Busy
      BY DEF Idle, Busy
    <3> QED BY <3>1, <3>2 DEF Inv, TypeOK
  <2> QED BY <2>2, <2>3, <2>4, <2>5
<1> QED BY <1>1, <1>2, <1>3, QuietInv

LEMMA OffInv ==
  ASSUME Inv, NEW p \in Pullers, ErpOff(p)
  PROVE  Inv'
<1>1. TypeOK' BY OffTypeOK DEF Inv
<1>2. headers' = headers /\ mirrored' = mirrored /\ idmap' = idmap
  BY Zenon DEF ErpOff, tables
<1>3. PICK x : pull' = [pull EXCEPT ![p] = x] /\ x.at \in {"idle", "feed"} BY OffIs DEF Inv
<1>4. \A q \in Pullers : pull'[q] = pull[q] \/ pull'[q].at \notin Busy
  BY <1>3 DEF Busy, Inv, TypeOK
<1> QED BY <1>1, <1>2, <1>4, QuietInv

LEMMA ListingInv ==
  ASSUME Inv, NEW p \in Pullers, ListPage(p) \/ ListFails(p) \/ PageOver(p)
  PROVE  Inv'
<1>1. TypeOK' BY PagesTypeOK DEF Inv
<1>2. headers' = headers /\ mirrored' = mirrored /\ idmap' = idmap
  BY Zenon DEF ListPage, ListFails, PageOver, tables
<1>3. \A q \in Pullers : pull'[q] = pull[q] \/ pull'[q].at \notin Busy
  <2>1. CASE ListFails(p) BY <2>1, OverIsQuiet DEF ListFails, Inv
  <2>2. CASE ListPage(p) \/ PageOver(p)
    <3>1. pull[p] \in Pulls BY TypeDef DEF Inv
    <3>2. \E x : x.at \notin Busy /\ pull' = [pull EXCEPT ![p] = x]
      <4>1. CASE ListPage(p)
        <5>1. PICK rows \in Pages(pull[p].feed, pull[p].since, pull[p].page) :
                pull' = [pull EXCEPT ![p].at = IF rows = <<>> THEN "cursor" ELSE "row",
                                     ![p].rows = rows, ![p].full = Len(rows) = PageSize]
          BY <4>1, Zenon DEF ListPage
        <5>2. PICK at \in {"cursor", "row"} : at = IF rows = <<>> THEN "cursor" ELSE "row"
          OBVIOUS
        <5>3. PICK full \in BOOLEAN : full = (Len(rows) = PageSize) OBVIOUS
        <5>4. pull' = [pull EXCEPT ![p] = [pull[p] EXCEPT !.at = at, !.rows = rows, !.full = full]]
          BY <5>1, <5>2, <5>3
        <5>5. [pull[p] EXCEPT !.at = at, !.rows = rows, !.full = full].at \notin Busy
          BY <3>1, <5>2 DEF Pulls, Busy
        <5> QED BY <5>4, <5>5, Zenon
      <4>2. CASE PageOver(p)
        <5> DEFINE more == pull[p].full /\ pull[p].page + 1 <= MaxPages
        <5>1. PICK at \in {"cursor", "list"} : at = IF more THEN "list" ELSE "cursor"
          OBVIOUS
        <5>3. PICK page : page = IF more THEN pull[p].page + 1 ELSE pull[p].page
          OBVIOUS
        <5>2. pull' = [pull EXCEPT ![p] = [pull[p] EXCEPT !.at = at, !.page = page]]
          BY <4>2, <5>1, <5>3 DEF PageOver
        <5>4. [pull[p] EXCEPT !.at = at, !.page = page].at \notin Busy
          BY <3>1, <5>1 DEF Pulls, Busy
        <5> QED BY <5>2, <5>4, Zenon
      <4> QED BY <2>2, <4>1, <4>2
    <3> QED BY <3>2, TypeDef DEF Inv
  <2> QED BY <2>1, <2>2
<1> QED BY <1>1, <1>2, <1>3, QuietInv

LEMMA HubInv ==
  ASSUME Inv,
         \/ \E r \in Rows : ErpCommits(r)
         \/ ErpWebhook
         \/ \E e \in Events : Receive(e) \/ Dispatch(e) \/ Record(e)
         \/ \E e \in Events : Reprocess(e)
         \/ Restart
  PROVE  Inv'
<1>1. TypeOK' BY HubTypeOK DEF Inv
<1>2. headers' = headers /\ mirrored' = mirrored /\ idmap' = idmap
  BY Zenon DEF ErpCommits, ErpWebhook, Receive, Dispatch, Record, Reprocess, Restart, tables
<1>3. \A q \in Pullers : pull'[q] = pull[q] \/ pull'[q].at \notin Busy
  <2>1. Idle.at \notin Busy /\ [Idle EXCEPT !.at = "feed", !.todo = Stores].at \notin Busy
    BY DEF Idle, Busy
  <2>2. \/ pull' = pull
        \/ pull' = [pull EXCEPT ![Drain] = [Idle EXCEPT !.at = "feed", !.todo = Stores]]
        \/ pull' = [p \in Pullers |-> Idle]
    BY Zenon DEF ErpCommits, ErpWebhook, Receive, Dispatch, DispatchEvent, StockChanged, Record,
                 Reprocess, Restart
  <2> QED BY <2>1, <2>2, TypeDef DEF Inv
<1> QED BY <1>1, <1>2, <1>3, QuietInv

\* The next row is in hand, or passed over.
LEMMA CheckedRow ==
  ASSUME TypeOK, NEW p \in Pullers, CheckRow(p)
  PROVE  /\ \A q \in Pullers \ {p} : pull'[q] = pull[q] /\ Row(q)' = Row(q)
         /\ pull'[p].at \in {"row", "header", "line"}
         /\ pull'[p].at # "row" =>
              pull'[p].rows = pull[p].rows /\ pull[p].rows # <<>> /\ Row(p)' = Row(p)
         /\ pull'[p].at = "header" => Row(p) \in Movements
         /\ pull'[p].at = "line" => Row(p) \notin Movements
<1> DEFINE r == Row(p)
           skip == r \in idmap \cup CostOnly \cup Skipped
           place == CASE skip -> "row"
                      [] ~skip /\ r \in Movements -> "header"
                      [] ~skip /\ r \in Receipts -> "line"
           rows == IF skip THEN Tail(pull[p].rows) ELSE pull[p].rows
<1>1. pull[p] \in Pulls /\ pull[p].rows # <<>> BY TypeDef DEF CheckRow
<1>2. r \in Rows BY <1>1, HeadTailProperties DEF Row, Pulls
<1>3. /\ skip => place = "row"
      /\ ~skip /\ r \in Movements => place = "header"
      /\ ~skip /\ r \notin Movements => place = "line"
  <2>1. r \in Movements \/ r \in Receipts BY <1>2 DEF Rows
  <2>2. ~ (r \in Movements /\ r \in Receipts) BY PullAssumption
  <2> HIDE DEF r, skip
  <2> QED BY <2>1, <2>2
<1>4. PICK max : pull' = [pull EXCEPT ![p].max = max, ![p].rows = rows, ![p].at = place]
  <2>1. pull' = [pull EXCEPT ![p].max = IF CreatedAt[r] > @ THEN CreatedAt[r] ELSE @,
                             ![p].rows = IF skip THEN Tail(@) ELSE @, ![p].at = place]
    BY Zenon DEF CheckRow
  <2> HIDE DEF r, skip, place
  <2> QED BY <2>1
<1> HIDE DEF skip, place
<1>5. /\ \A q \in Pullers \ {p} : pull'[q] = pull[q] /\ Row(q)' = Row(q)
      /\ pull'[p].at = place
      /\ place # "row" => pull'[p].rows = pull[p].rows /\ Row(p)' = r
  <2>1. pull' = [pull EXCEPT ![p] = [pull[p] EXCEPT !.max = max, !.rows = rows, !.at = place]]
    BY <1>4
  <2>2. /\ [pull[p] EXCEPT !.max = max, !.rows = rows, !.at = place].at = place
        /\ [pull[p] EXCEPT !.max = max, !.rows = rows, !.at = place].rows = rows
    BY <1>1 DEF Pulls
  <2>3. place # "row" => rows = pull[p].rows BY <1>3
  <2> HIDE DEF r, rows
  <2>4. pull'[p].at = place /\ pull'[p].rows = rows
        /\ \A q \in Pullers \ {p} : pull'[q] = pull[q]
    BY <2>1, <2>2, TypeDef
  <2> QED BY <2>3, <2>4 DEF Row, r
<1> QED BY <1>1, <1>3, <1>5

\* A movement whose row is in hand gets its header first.
LEMMA CheckRowInv ==
  ASSUME Inv, NEW p \in Pullers, CheckRow(p)
  PROVE  Inv'
<1>1. TypeOK' BY PagesTypeOK DEF Inv
<1>2. headers' = headers /\ mirrored' = mirrored /\ idmap' = idmap
  BY Zenon DEF CheckRow, tables
<1>3. /\ \A q \in Pullers \ {p} : pull'[q] = pull[q] /\ Row(q)' = Row(q)
      /\ pull'[p].at \in {"row", "header", "line"}
      /\ pull'[p].at # "row" =>
           pull'[p].rows = pull[p].rows /\ pull[p].rows # <<>> /\ Row(p)' = Row(p)
      /\ pull'[p].at = "header" => Row(p) \in Movements
      /\ pull'[p].at = "line" => Row(p) \notin Movements
  BY CheckedRow DEF Inv
<1>4. InHand' BY <1>3 DEF Inv, InHand, Busy
<1>5. OneLine' BY <1>2, <1>3 DEF Inv, OneLine
<1> QED BY <1>1, <1>2, <1>4, <1>5 DEF Inv, MovementOnce, SeenIsMirrored

\* The header of a movement is new: nobody is at its line.
LEMMA SaveHeaderInv ==
  ASSUME Inv, NEW p \in Pullers, SaveHeader(p)
  PROVE  Inv'
<1>1. TypeOK' BY WritesTypeOK DEF Inv
<1>2. mirrored' = mirrored /\ idmap' = idmap BY DEF SaveHeader
<1>3. CASE FeedOver(p) /\ UNCHANGED headers
  BY <1>1, <1>2, <1>3, OverIsQuiet, QuietInv DEF Inv
<1>4. CASE Row(p) \notin headers /\ headers' = headers \cup {Row(p)} /\ Goto(p, "line")
  <2>1. /\ \A q \in Pullers \ {p} : pull'[q] = pull[q]
        /\ pull'[p].at = "line" /\ pull'[p].rows = pull[p].rows
        /\ \A q \in Pullers : Row(q)' = Row(q)
    BY <1>4, GotoRow DEF Places, Inv
  <2>2. pull[p].rows # <<>> /\ Row(p) \in Movements BY DEF SaveHeader, At, Inv, InHand, Busy
  <2>3. mirrored[Row(p)] = 0 BY <1>4, <2>2 DEF Inv, OneLine
  <2>4. \A q \in Pullers : pull[q].at = "line" => Row(q) # Row(p)
    BY <1>4, <2>2 DEF Inv, OneLine
  <2>5. InHand' BY <2>1, <2>2 DEF Inv, InHand, Busy
  <2>6. OneLine' BY <1>2, <1>4, <2>1, <2>2, <2>3, <2>4 DEF Inv, OneLine
  <2> QED BY <1>1, <1>2, <2>5, <2>6 DEF Inv, MovementOnce, SeenIsMirrored
<1> QED BY <1>3, <1>4 DEF SaveHeader

\* The line of a movement is written by the one pull that is at it.
LEMMA SaveLineInv ==
  ASSUME Inv, NEW p \in Pullers, SaveLine(p)
  PROVE  Inv'
<1>1. TypeOK' BY WritesTypeOK DEF Inv
<1>2. headers' = headers /\ idmap' = idmap BY DEF SaveLine
<1>3. CASE FeedOver(p) /\ UNCHANGED mirrored
  BY <1>1, <1>2, <1>3, OverIsQuiet, QuietInv DEF Inv
<1>4. CASE mirrored' = [mirrored EXCEPT ![Row(p)] = @ + 1] /\ Goto(p, "map")
  <2>1. /\ \A q \in Pullers \ {p} : pull'[q] = pull[q]
        /\ pull'[p].at = "map" /\ pull'[p].rows = pull[p].rows
        /\ \A q \in Pullers : Row(q)' = Row(q)
    BY <1>4, GotoRow DEF Places, Inv
  <2>2. pull[p].at = "line" /\ Row(p) \in Rows BY RowInHand DEF SaveLine, At, Inv, Busy
  <2>3. /\ mirrored'[Row(p)] = mirrored[Row(p)] + 1
        /\ \A r \in Rows \ {Row(p)} : mirrored'[r] = mirrored[r]
        /\ mirrored \in [Rows -> Nat]
    BY <1>4, <2>2, TypeDef DEF Inv
  <2>4. \A r \in Rows : mirrored'[r] >= mirrored[r] BY <2>3, SMT
  <2>5. \A q \in Pullers : pull[q].at \in Busy => Row(q) \in Rows BY RowInHand DEF Inv
  <2>6. InHand' BY <2>1, <2>2 DEF Inv, InHand, Busy
  <2>7. Row(p) \in Movements =>
          /\ Row(p) \in headers /\ mirrored[Row(p)] = 0
          /\ \A q \in Pullers \ {p} : pull[q].at = "line" => Row(q) # Row(p)
    BY <2>2 DEF Inv, OneLine
  <2>8. OneLine'
    <3>1. ASSUME NEW m \in Movements, m \notin headers' PROVE mirrored'[m] = 0
      <4>1. m # Row(p) /\ m \in Rows /\ mirrored[m] = 0
        BY <1>2, <2>7, <3>1 DEF Inv, OneLine, Rows
      <4> QED BY <2>3, <4>1
    <3>2. ASSUME NEW q \in Pullers, pull'[q].at = "line", Row(q)' \in Movements
          PROVE  /\ Row(q)' \in headers' /\ mirrored'[Row(q)'] = 0
                 /\ \A s \in Pullers \ {q} : pull'[s].at = "line" => Row(s)' # Row(q)'
      <4>1. q # p /\ pull[q].at = "line" /\ Row(q)' = Row(q) BY <2>1, <3>2
      <4>2. Row(q) # Row(p) BY <2>7, <3>2, <4>1
      <4>3. Row(q) \in headers /\ mirrored[Row(q)] = 0
            /\ \A s \in Pullers \ {q} : pull[s].at = "line" => Row(s) # Row(q)
        BY <3>2, <4>1 DEF Inv, OneLine
      <4>4. mirrored'[Row(q)] = 0 BY <2>3, <2>5, <4>1, <4>2, <4>3 DEF Busy
      <4>5. ASSUME NEW s \in Pullers \ {q}, pull'[s].at = "line" PROVE Row(s)' # Row(q)'
        BY <2>1, <4>1, <4>3, <4>5
      <4> QED BY <1>2, <4>1, <4>3, <4>4, <4>5
    <3>3. ASSUME NEW q \in Pullers, pull'[q].at = "map" PROVE mirrored'[Row(q)'] >= 1
      <4>1. CASE q = p BY <2>1, <2>2, <2>3, <4>1, SMT
      <4>2. CASE q # p
        <5>1. pull[q].at = "map" /\ Row(q)' = Row(q) BY <2>1, <3>3, <4>2
        <5>2. mirrored[Row(q)] >= 1 /\ Row(q) \in Rows BY <2>5, <5>1 DEF Inv, OneLine, Busy
        <5>3. mirrored'[Row(q)] \in Nat BY <1>1, <5>2 DEF TypeOK
        <5> QED BY <2>3, <2>4, <5>1, <5>2, <5>3, SMT
      <4> QED BY <4>1, <4>2
    <3> QED BY <3>1, <3>2, <3>3 DEF OneLine
  <2>9. MovementOnce'
    <3>1. ASSUME NEW m \in Movements PROVE mirrored'[m] <= 1
      <4>1. m \in Rows /\ mirrored[m] <= 1 BY DEF Rows, Inv, MovementOnce
      <4> QED BY <2>3, <2>7, <4>1, SMT
    <3> QED BY <3>1 DEF MovementOnce
  <2>10. SeenIsMirrored'
    <3>1. ASSUME NEW r \in idmap PROVE mirrored'[r] >= 1
      <4>1. r \in Rows /\ mirrored[r] >= 1 BY TypeDef DEF Inv, SeenIsMirrored
      <4>2. mirrored'[r] \in Nat BY <1>1, <4>1 DEF TypeOK
      <4> QED BY <2>3, <2>4, <4>1, <4>2, SMT
    <3> QED BY <1>2, <3>1 DEF SeenIsMirrored
  <2> QED BY <1>1, <2>6, <2>8, <2>9, <2>10 DEF Inv
<1> QED BY <1>3, <1>4 DEF SaveLine

\* The row marked as seen is the one whose line has just been written.
LEMMA SaveMapInv ==
  ASSUME Inv, NEW p \in Pullers, SaveMap(p)
  PROVE  Inv'
<1>1. TypeOK' BY WritesTypeOK DEF Inv
<1>2. headers' = headers /\ mirrored' = mirrored /\ idmap' = idmap \cup {Row(p)}
  BY DEF SaveMap
<1>3. \A q \in Pullers : pull'[q] = pull[q] \/ pull'[q].at \notin Busy
  BY OverIsQuiet DEF SaveMap, Inv
<1>4. \A q \in Pullers : pull'[q].at \in Busy => pull'[q].at = pull[q].at /\ Row(q)' = Row(q)
                                                 /\ pull'[q].rows = pull[q].rows
  BY <1>3 DEF Row
<1>5. InHand' BY <1>4 DEF Inv, InHand, Busy
<1>6. OneLine' BY <1>2, <1>4 DEF Inv, OneLine, Busy
<1>7. mirrored[Row(p)] >= 1 BY DEF Inv, OneLine, SaveMap, At
<1>8. SeenIsMirrored' BY <1>2, <1>7 DEF Inv, SeenIsMirrored
<1> QED BY <1>1, <1>2, <1>5, <1>6, <1>8 DEF Inv, MovementOnce

LEMMA SaveCursorInv ==
  ASSUME Inv, NEW p \in Pullers, SaveCursor(p)
  PROVE  Inv'
<1>1. TypeOK' BY WritesTypeOK DEF Inv
<1> QED BY <1>1, OverIsQuiet, QuietInv DEF Inv, SaveCursor

LEMMA NextInv == Inv /\ [Next]_vars => Inv'
<1> SUFFICES ASSUME Inv, [Next]_vars PROVE Inv' OBVIOUS
<1>1. CASE UNCHANGED vars
  <2>1. TypeOK' /\ UNCHANGED <<headers, mirrored, idmap, pull>>
    BY <1>1 DEF vars, Inv, TypeOK
  <2> QED BY <2>1, QuietInv
<1>2. CASE Next
  <2>1. ASSUME NEW p \in Pullers, Step(p) PROVE Inv'
    BY <2>1, FeedsInv, ListingInv, CheckRowInv, SaveHeaderInv, SaveLineInv, SaveMapInv,
       SaveCursorInv DEF Step
  <2>2. ASSUME NEW p \in Pullers,
               Tick(p) \/ TimerFires(p) \/ ManualStart(p) \/ ErpOff(p) \/ ListFails(p)
        PROVE  Inv'
    BY <2>2, FeedsInv, OffInv, ListingInv
  <2> QED BY <1>2, <2>1, <2>2, HubInv DEF Next
<1> QED BY <1>1, <1>2

-----------------------------------------------------------------------------
\* The flag of the drain tells whether its loop runs, and is set while an event
\* is pending.
Served ==
  /\ stockRunning => pull[Drain].at # "idle"
  /\ stockPending => stockRunning

LEMMA NextServed == TypeOK /\ Served /\ [Next]_vars => Served'
<1> SUFFICES ASSUME TypeOK, Served, [Next]_vars PROVE Served' OBVIOUS
<1> USE DEF Served
<1>1. Drain \in Pullers /\ Drain \notin Scheduled \cup Manual BY PullAssumption DEF Pullers
\* The drain goes on.
<1>2. ASSUME stockRunning' = stockRunning, stockPending' = stockPending,
             pull'[Drain].at = pull[Drain].at \/ pull'[Drain].at # "idle"
      PROVE  Served'
  BY <1>2
<1>3. ASSUME NEW p \in Pullers,
             ListPage(p) \/ ListFails(p) \/ PageOver(p) \/ CheckRow(p) \/ NextFeed(p)
               \/ SaveHeader(p) \/ SaveLine(p) \/ SaveMap(p) \/ SaveCursor(p)
               \/ Tick(p) \/ TimerFires(p) \/ ScheduledStart(p) \/ ManualStart(p)
      PROVE  Served'
  <2>1. stockRunning' = stockRunning /\ stockPending' = stockPending
    BY <1>3, Zenon DEF ListPage, ListFails, PageOver, CheckRow, NextFeed, SaveHeader, SaveLine,
         SaveMap, SaveCursor, Tick, TimerFires, ScheduledStart, ManualStart, flags
  <2>2. CASE p # Drain
    <3>1. \E x : pull' = [pull EXCEPT ![p] = x]
      BY <1>3 DEF ListPage, ListFails, PageOver, CheckRow, NextFeed, SaveHeader, SaveLine,
         SaveMap, SaveCursor, Tick, TimerFires, ScheduledStart, ManualStart, Goto, FeedOver, RowOver
    <3> QED BY <1>1, <1>2, <2>1, <2>2, <3>1, TypeDef
  <2>3. CASE p = Drain
    <3>1. ~ (Tick(p) \/ TimerFires(p) \/ ManualStart(p))
      BY <1>1, <2>3 DEF Tick, TimerFires, ManualStart
    <3>2. ~ ScheduledStart(p) BY <1>1, <2>3 DEF ScheduledStart
    <3>3. pull[p] \in Pulls BY TypeDef
    <3>4. pull'[p].at # "idle"
      <4>1. CASE Goto(p, "line") \/ Goto(p, "map")
        BY <4>1, GotoRow DEF Places
      <4>2. CASE FeedOver(p)
        <5>1. [Idle EXCEPT !.at = "feed", !.todo = pull[p].todo].at # "idle" BY DEF Idle
        <5> QED BY <4>2, <5>1, TypeDef DEF FeedOver
      <4>3. CASE RowOver(p)
        <5>1. pull' = [pull EXCEPT ![p] = [pull[p] EXCEPT !.at = "row", !.rows = Tail(@)]]
          BY <4>3 DEF RowOver
        <5>2. [pull[p] EXCEPT !.at = "row", !.rows = Tail(@)].at # "idle" BY <3>3 DEF Pulls
        <5> QED BY <5>1, <5>2, TypeDef
      <4>4. CASE NextFeed(p)
        <5>1. PICK f : pull' = [pull EXCEPT ![p] =
                [Idle EXCEPT !.at = "list", !.todo = pull[p].todo \ {f}, !.feed = f,
                             !.since = cursor[f], !.max = cursor[f], !.page = 1]]
          BY <4>4, Zenon DEF NextFeed
        <5>2. [Idle EXCEPT !.at = "list", !.todo = pull[p].todo \ {f}, !.feed = f,
                           !.since = cursor[f], !.max = cursor[f], !.page = 1].at # "idle"
          BY DEF Idle
        <5> QED BY <5>1, <5>2, TypeDef
      <4>5. CASE ListPage(p)
        <5>1. PICK rows : pull' = [pull EXCEPT ![p].at = IF rows = <<>> THEN "cursor" ELSE "row",
                                     ![p].rows = rows, ![p].full = Len(rows) = PageSize]
          BY <4>5, Zenon DEF ListPage
        <5>2. pull'[p].at = IF rows = <<>> THEN "cursor" ELSE "row" BY <3>3, <5>1, TypeDef DEF Pulls
        <5> QED BY <5>2
      <4>6. CASE PageOver(p)
        <5> DEFINE more == pull[p].full /\ pull[p].page + 1 <= MaxPages
        <5>1. pull'[p].at = IF more THEN "list" ELSE "cursor"
          <6>1. PICK page : pull' = [pull EXCEPT ![p].at = IF more THEN "list" ELSE "cursor",
                                                 ![p].page = page]
            BY <4>6 DEF PageOver
          <6> HIDE DEF more
          <6> QED BY <3>3, <6>1, TypeDef DEF Pulls
        <5> QED BY <5>1
      <4>7. CASE CheckRow(p)
        BY <2>3, <4>7, CheckedRow
      <4> QED BY <1>3, <3>1, <3>2, <4>1, <4>2, <4>3, <4>4, <4>5, <4>6, <4>7
            DEF ListFails, SaveHeader, SaveLine, SaveMap, SaveCursor
    <3> QED BY <1>2, <2>1, <2>3, <3>4
  <2> QED BY <2>2, <2>3
<1>4. ASSUME NEW p \in Pullers, PullOver(p) PROVE Served'
  <2>1. CASE p # Drain
    <3>1. stockRunning' = stockRunning /\ stockPending' = stockPending
      BY <1>4, <2>1 DEF PullOver
    <3>2. pull'[Drain] = pull[Drain] BY <1>1, <1>4, <2>1, TypeDef DEF PullOver
    <3> QED BY <1>2, <3>1, <3>2
  <2>2. CASE p = Drain /\ stockPending
    <3>1. [Idle EXCEPT !.at = "feed", !.todo = Stores].at # "idle" BY DEF Idle
    <3>2. pull' = [pull EXCEPT ![p] = [Idle EXCEPT !.at = "feed", !.todo = Stores]]
          /\ stockPending' = FALSE
      BY <1>4, <2>2 DEF PullOver
    <3> QED BY <1>1, <2>2, <3>1, <3>2, TypeDef
  <2>3. CASE p = Drain /\ ~stockPending
    <3>1. stockRunning' = FALSE /\ stockPending' = stockPending BY <1>4, <2>3 DEF PullOver
    <3> QED BY <2>3, <3>1
  <2> QED BY <2>1, <2>2, <2>3
<1>5. CASE \/ \E r \in Rows : ErpCommits(r)
           \/ ErpWebhook
           \/ \E e \in Events : Receive(e) \/ Record(e)
           \/ UNCHANGED vars
  BY <1>2, <1>5, Zenon DEF ErpCommits, ErpWebhook, Receive, Record, flags, vars
<1>6. ASSUME NEW e, DispatchEvent(e) PROVE Served'
  <2>1. CASE UNCHANGED <<stockPending, stockRunning, pull>> BY <1>2, <2>1
  <2>2. CASE StockChanged
    <3>1. [Idle EXCEPT !.at = "feed", !.todo = Stores].at # "idle" BY DEF Idle
    <3>2. pull'[Drain].at # "idle" BY <1>1, <2>2, <3>1, TypeDef DEF StockChanged
    <3>3. stockRunning' = TRUE BY <2>2 DEF StockChanged
    <3> QED BY <3>2, <3>3
  <2> QED BY <1>6, <2>1, <2>2, Zenon DEF DispatchEvent
<1>7. CASE \/ \E e \in Events : Dispatch(e)
           \/ \E e \in Events : Reprocess(e)
  BY <1>6, <1>7, Zenon DEF Dispatch, Reprocess
<1>8. CASE Restart BY <1>8 DEF Restart
<1>9. ASSUME NEW p \in Pullers, ErpOff(p) PROVE Served'
  <2>1. stockRunning' = stockRunning /\ stockPending' = stockPending BY <1>9, Zenon DEF ErpOff, flags
  <2>2. PICK x : pull' = [pull EXCEPT ![p] = x] /\ (x.at = "feed" \/ p \in Scheduled)
    BY <1>9, OffIs
  <2>3. pull'[Drain].at = pull[Drain].at \/ pull'[Drain].at # "idle" BY <1>1, <2>2, TypeDef
  <2> QED BY <1>2, <2>1, <2>3
<1> QED BY <1>3, <1>4, <1>5, <1>7, <1>8, <1>9 DEF Next, Step

-----------------------------------------------------------------------------
(***************************************************************************)
(* CursorCovers.  The helpers take the committed rows E and the rows seen  *)
(* I as parameters, so that a step is a change of arguments.               *)
(***************************************************************************)
Due(E) == E \ (CostOnly \cup Skipped)
Listed(E, f, since) == {r \in E : FeedOf(r) = f /\ CreatedAt[r] >= since}
Below(E, f, since, r) == {s \in Listed(E, f, since) : CreatedAt[s] < CreatedAt[r]}
Rank(E, f, since, r) == Cardinality(Below(E, f, since, r))

\* A time the ERP has reached: what it commits in order is not older.
Stamp(E, t) == t = 0 \/ \E r \in E : CreatedAt[r] = t
\* The rows of a feed that are older than t have been seen.
Covered(E, I, f, t) == \A r \in Due(E) : FeedOf(r) = f /\ CreatedAt[r] < t => r \in I

\* The first n rows of the listing are there, and have been seen or are in hand.
FirstRows(E, I, f, since, n, hand) ==
  /\ Cardinality(Listed(E, f, since)) >= n
  /\ \A r \in Listed(E, f, since) \cap Due(E) :
       Rank(E, f, since, r) < n => r \in I \cup hand

\* The rows of a page in hand are in the order of the listing, and what is older
\* than one of them has been seen or is in hand as well.
Left(rows) == {rows[i] : i \in 1..Len(rows)}
Increasing(rows) == \A i, j \in 1..Len(rows) : i < j => CreatedAt[rows[i]] < CreatedAt[rows[j]]
InOrder(E, I, f, since, rows) ==
  /\ Left(rows) \subseteq Listed(E, f, since)
  /\ Increasing(rows)
  /\ \A r \in Left(rows), s \in Listed(E, f, since) \cap Due(E) :
       CreatedAt[s] < CreatedAt[r] => s \in I \cup Left(rows)

\* What a pull knows of its feed.
Paging == {"row", "header", "line", "map"}
Sound(E, I, x) ==
  x.at \in Paging \cup {"list", "cursor"} =>
    /\ x.feed \in Feeds /\ x.page >= 1
    /\ Stamp(E, x.since) /\ Covered(E, I, x.feed, x.since)
    /\ Stamp(E, x.max) /\ Covered(E, I, x.feed, x.max)
    /\ x.at = "list" => FirstRows(E, I, x.feed, x.since, (x.page - 1) * PageSize, {})
    /\ x.at \in Paging =>
         /\ InOrder(E, I, x.feed, x.since, x.rows)
         /\ x.full => FirstRows(E, I, x.feed, x.since, x.page * PageSize, Left(x.rows))

CoverInv ==
  /\ \A f \in Feeds : Stamp(erp, cursor[f]) /\ Covered(erp, idmap, f, cursor[f])
  /\ \A p \in Pullers : Sound(erp, idmap, pull[p])

\* Numbers of rows.
LEMMA ListedFinite ==
  ASSUME NEW E \in SUBSET Rows, NEW f, NEW since
  PROVE  /\ IsFiniteSet(Listed(E, f, since))
         /\ Cardinality(Listed(E, f, since)) \in Nat
         /\ \A r : IsFiniteSet(Below(E, f, since, r)) /\ Rank(E, f, since, r) \in Nat
                   /\ Rank(E, f, since, r) <= Cardinality(Listed(E, f, since))
<1>1. Listed(E, f, since) \subseteq Rows BY DEF Listed
<1>2. IsFiniteSet(Listed(E, f, since)) /\ Cardinality(Listed(E, f, since)) \in Nat
  BY <1>1, PullAssumption, FS_Subset, FS_CardinalityType
<1>3. \A r : Below(E, f, since, r) \subseteq Listed(E, f, since) BY DEF Below
<1> QED BY <1>2, <1>3, FS_Subset, FS_CardinalityType DEF Rank

LEMMA TimesAreNat == \A r \in Rows : CreatedAt[r] \in Nat /\ CreatedAt[r] >= 1
BY PullAssumption, SMT

\* A row committed in order goes to the end of its feed.
LEMMA Appended ==
  ASSUME NEW E \in SUBSET Rows, NEW r \in Rows \ E, \A s \in E : CreatedAt[s] <= CreatedAt[r],
         NEW f, NEW since
  PROVE  /\ Listed(E, f, since) \subseteq Listed(E \cup {r}, f, since)
         /\ Listed(E \cup {r}, f, since) \subseteq Listed(E, f, since) \cup {r}
         /\ \A s \in Listed(E, f, since) :
              Rank(E \cup {r}, f, since, s) = Rank(E, f, since, s)
         /\ r \in Listed(E \cup {r}, f, since) =>
              Rank(E \cup {r}, f, since, r) = Cardinality(Listed(E, f, since))
<1>1. /\ Listed(E, f, since) \subseteq Listed(E \cup {r}, f, since)
      /\ Listed(E \cup {r}, f, since) \subseteq Listed(E, f, since) \cup {r}
  BY DEF Listed
<1>2. \A s \in Listed(E, f, since) : ~ (CreatedAt[r] < CreatedAt[s])
  BY TimesAreNat DEF Listed
<1>3. \A s \in Listed(E, f, since) : Below(E \cup {r}, f, since, s) = Below(E, f, since, s)
  BY <1>1, <1>2 DEF Below
<1>4. ASSUME r \in Listed(E \cup {r}, f, since)
      PROVE  Below(E \cup {r}, f, since, r) = Listed(E, f, since)
  <2>1. ASSUME NEW s \in Listed(E, f, since) PROVE CreatedAt[s] < CreatedAt[r]
    <3>1. s \in Rows /\ s # r /\ FeedOf(s) = FeedOf(r) /\ CreatedAt[s] <= CreatedAt[r]
      BY <1>4 DEF Listed
    <3>2. CreatedAt[s] # CreatedAt[r] BY <3>1, PullAssumption
    <3> QED BY <3>1, <3>2, TimesAreNat
  <2>2. ~ (CreatedAt[r] < CreatedAt[r]) BY TimesAreNat
  <2> QED BY <1>1, <2>1, <2>2 DEF Below
<1> QED BY <1>1, <1>3, <1>4 DEF Rank

LEMMA CommitCovers ==
  ASSUME NEW E \in SUBSET Rows, NEW r \in Rows \ E, \A s \in E : CreatedAt[s] <= CreatedAt[r],
         NEW I, NEW f, NEW t, Stamp(E, t), Covered(E, I, f, t)
  PROVE  Stamp(E \cup {r}, t) /\ Covered(E \cup {r}, I, f, t)
<1>1. ~ (CreatedAt[r] < t) BY TimesAreNat DEF Stamp
<1> QED BY <1>1 DEF Stamp, Covered, Due

LEMMA CommitSound ==
  ASSUME NEW E \in SUBSET Rows, NEW r \in Rows \ E, \A s \in E : CreatedAt[s] <= CreatedAt[r],
         NEW I, NEW x \in Pulls, Sound(E, I, x)
  PROVE  Sound(E \cup {r}, I, x)
<1> SUFFICES ASSUME x.at \in Paging \cup {"list", "cursor"} PROVE Sound(E \cup {r}, I, x)
  BY DEF Sound
<1> DEFINE f == x.feed
           since == x.since
<1>1. /\ Stamp(E \cup {r}, since) /\ Covered(E \cup {r}, I, f, since)
      /\ Stamp(E \cup {r}, x.max) /\ Covered(E \cup {r}, I, f, x.max)
  BY CommitCovers DEF Sound
<1>2. /\ Listed(E, f, since) \subseteq Listed(E \cup {r}, f, since)
      /\ Listed(E \cup {r}, f, since) \subseteq Listed(E, f, since) \cup {r}
      /\ \A s \in Listed(E, f, since) : Rank(E \cup {r}, f, since, s) = Rank(E, f, since, s)
      /\ r \in Listed(E \cup {r}, f, since) => Rank(E \cup {r}, f, since, r) = Cardinality(Listed(E, f, since))
  <2>1. \A g, t :
          /\ Listed(E, g, t) \subseteq Listed(E \cup {r}, g, t)
          /\ Listed(E \cup {r}, g, t) \subseteq Listed(E, g, t) \cup {r}
          /\ \A s \in Listed(E, g, t) : Rank(E \cup {r}, g, t, s) = Rank(E, g, t, s)
          /\ r \in Listed(E \cup {r}, g, t) =>
               Rank(E \cup {r}, g, t, r) = Cardinality(Listed(E, g, t))
    BY Appended
  <2> QED BY <2>1
<1>3. ASSUME NEW n \in Nat, NEW hand, FirstRows(E, I, f, since, n, hand)
      PROVE  FirstRows(E \cup {r}, I, f, since, n, hand)
  <2>1. IsFiniteSet(Listed(E \cup {r}, f, since)) /\ Cardinality(Listed(E \cup {r}, f, since)) \in Nat
    <3>1. (E \cup {r}) \in SUBSET Rows OBVIOUS
    <3> QED BY <3>1, ListedFinite
  <2>2. Cardinality(Listed(E, f, since)) <= Cardinality(Listed(E \cup {r}, f, since))
    BY <1>2, <2>1, FS_Subset
  <2>3. Cardinality(Listed(E, f, since)) \in Nat BY ListedFinite
  <2>4. ASSUME NEW s \in Listed(E \cup {r}, f, since) \cap Due(E \cup {r}), Rank(E \cup {r}, f, since, s) < n
        PROVE  s \in I \cup hand
    <3>1. s # r BY <1>2, <1>3, <2>3, <2>4 DEF FirstRows
    <3>2. s \in Listed(E, f, since) \cap Due(E) BY <1>2, <2>4, <3>1 DEF Due
    <3> QED BY <1>2, <1>3, <2>4, <3>2 DEF FirstRows
  <2> QED BY <1>3, <2>1, <2>2, <2>3, <2>4 DEF FirstRows
<1>4. ASSUME InOrder(E, I, f, since, x.rows) PROVE InOrder(E \cup {r}, I, f, since, x.rows)
  <2>1. ASSUME NEW s \in Left(x.rows), NEW u \in Listed(E \cup {r}, f, since) \cap Due(E \cup {r}),
               CreatedAt[u] < CreatedAt[s]
        PROVE  u \in I \cup Left(x.rows)
    <3>1. s \in E BY <1>4 DEF InOrder, Listed
    <3>2. u # r BY <2>1, <3>1, TimesAreNat
    <3>3. u \in Listed(E, f, since) \cap Due(E) BY <1>2, <2>1, <3>2 DEF Due
    <3> QED BY <1>4, <2>1, <3>3 DEF InOrder
  <2> QED BY <1>2, <1>4, <2>1 DEF InOrder
<1>5. x.page >= 1 /\ (x.page - 1) * PageSize \in Nat /\ x.page * PageSize \in Nat
  <2>1. x.page \in Nat /\ x.page >= 1 BY Numbers DEF Sound, Pulls
  <2>2. PageSize \in Nat BY PullAssumption
  <2> QED BY <2>1, <2>2, SMT
<1> QED BY <1>1, <1>3, <1>4, <1>5 DEF Sound

\* More rows seen: what a pull knows stays true.
LEMMA MoreSeen ==
  ASSUME NEW E, NEW I, NEW J, I \subseteq J, NEW x, Sound(E, I, x)
  PROVE  Sound(E, J, x)
BY DEF Sound, Covered, FirstRows, InOrder

\* The numbers of a pull.
LEMMA PullNumbers ==
  ASSUME NEW x \in Pulls
  PROVE  /\ x.page \in Nat /\ x.since \in Nat /\ x.max \in Nat
         /\ PageSize \in Nat /\ PageSize >= 1
BY Numbers, PullAssumption DEF Pulls

\* The rows after the first are the others.
LEMMA TailLeft ==
  ASSUME NEW rows \in Seq(Rows), rows # <<>>, Increasing(rows)
  PROVE  /\ Head(rows) \in Left(rows)
         /\ Left(Tail(rows)) \subseteq Left(rows)
         /\ Left(rows) \subseteq Left(Tail(rows)) \cup {Head(rows)}
         /\ Increasing(Tail(rows))
         /\ \A r \in Left(rows) : ~ (CreatedAt[r] < CreatedAt[Head(rows)])
<1>1. /\ Head(rows) = rows[1] /\ Len(rows) \in Nat /\ Len(rows) >= 1
      /\ Tail(rows) \in Seq(Rows) /\ Len(Tail(rows)) = Len(rows) - 1
      /\ \A i \in 1..Len(Tail(rows)) : Tail(rows)[i] = rows[i+1]
      /\ \A i \in 1..Len(rows) : rows[i] \in Rows
  BY HeadTailProperties, EmptySeq
<1>2. Head(rows) \in Left(rows) BY <1>1 DEF Left
<1>3. \A i \in 1..Len(Tail(rows)) : i + 1 \in 1..Len(rows) BY <1>1
<1>4. \A i \in 1..Len(rows) : i = 1 \/ (i - 1 \in 1..Len(Tail(rows)) /\ (i - 1) + 1 = i) BY <1>1
<1>5. Left(Tail(rows)) \subseteq Left(rows) BY <1>1, <1>3 DEF Left
<1>6. Left(rows) \subseteq Left(Tail(rows)) \cup {Head(rows)}
  <2>1. ASSUME NEW i \in 1..Len(rows), i # 1 PROVE rows[i] \in Left(Tail(rows))
    <3>1. rows[i] = Tail(rows)[i - 1] /\ i - 1 \in 1..Len(Tail(rows)) BY <1>1, <1>4, <2>1
    <3> QED BY <3>1 DEF Left
  <2> QED BY <1>1, <2>1 DEF Left
<1>7. Increasing(Tail(rows))
  <2>1. ASSUME NEW i \in 1..Len(Tail(rows)), NEW j \in 1..Len(Tail(rows)), i < j
        PROVE  CreatedAt[Tail(rows)[i]] < CreatedAt[Tail(rows)[j]]
    <3>1. i + 1 \in 1..Len(rows) /\ j + 1 \in 1..Len(rows) /\ i + 1 < j + 1 BY <1>3, <2>1
    <3> QED BY <1>1, <3>1 DEF Increasing
  <2> QED BY <2>1 DEF Increasing
<1>8. ASSUME NEW i \in 1..Len(rows) PROVE ~ (CreatedAt[rows[i]] < CreatedAt[Head(rows)])
  <2>1. 1 \in 1..Len(rows) /\ (i = 1 \/ 1 < i) BY <1>1
  <2>2. i = 1 \/ CreatedAt[rows[1]] < CreatedAt[rows[i]] BY <2>1 DEF Increasing
  <2>3. CreatedAt[rows[1]] \in Nat /\ CreatedAt[rows[i]] \in Nat BY <1>1, <2>1, TimesAreNat
  <2> QED BY <1>1, <2>2, <2>3
<1> QED BY <1>2, <1>5, <1>6, <1>7, <1>8 DEF Left

\* The first row is done: seen, or of no effect.
LEMMA HeadDone ==
  ASSUME NEW E \in SUBSET Rows, NEW I, NEW x \in Pulls, Sound(E, I, x), x.at \in Paging,
         x.rows # <<>>, Head(x.rows) \in I \cup CostOnly \cup Skipped,
         NEW y, y.at = "row", y.rows = Tail(x.rows), y.feed = x.feed, y.page = x.page,
         y.since = x.since, y.full = x.full,
         Stamp(E, y.max), Covered(E, I, y.feed, y.max)
  PROVE  Sound(E, I, y)
<1>1. x.rows \in Seq(Rows) BY DEF Pulls
<1>2. InOrder(E, I, x.feed, x.since, x.rows) BY DEF Sound
<1>3. /\ Left(y.rows) \subseteq Left(x.rows)
      /\ Left(x.rows) \subseteq Left(y.rows) \cup {Head(x.rows)}
      /\ Increasing(y.rows)
  BY <1>1, <1>2, TailLeft DEF InOrder
<1>4. \A s \in Due(E) : s \in I \cup Left(x.rows) => s \in I \cup Left(y.rows)
  BY <1>3 DEF Due
<1>5. InOrder(E, I, y.feed, y.since, y.rows) BY <1>2, <1>3, <1>4 DEF InOrder
<1>6. y.full => FirstRows(E, I, y.feed, y.since, y.page * PageSize, Left(y.rows))
  BY <1>4 DEF Sound, FirstRows
<1> QED BY <1>5, <1>6 DEF Sound, Paging

\* The time of the first row covers its feed: what is older has been seen.
LEMMA HeadCovers ==
  ASSUME NEW E \in SUBSET Rows, NEW I, NEW x \in Pulls, Sound(E, I, x), x.at \in Paging,
         x.rows # <<>>
  PROVE  /\ Head(x.rows) \in E /\ Stamp(E, CreatedAt[Head(x.rows)])
         /\ Covered(E, I, x.feed, CreatedAt[Head(x.rows)])
<1> DEFINE h == Head(x.rows)
<1>1. x.rows \in Seq(Rows) BY DEF Pulls
<1>2. InOrder(E, I, x.feed, x.since, x.rows) /\ Covered(E, I, x.feed, x.since) BY DEF Sound
<1>3. h \in Left(x.rows) /\ \A r \in Left(x.rows) : ~ (CreatedAt[r] < CreatedAt[h])
  BY <1>1, <1>2, TailLeft DEF InOrder
<1>4. h \in E BY <1>2, <1>3 DEF InOrder, Listed
<1>5. ASSUME NEW s \in Due(E), FeedOf(s) = x.feed, CreatedAt[s] < CreatedAt[h] PROVE s \in I
  <2>1. CreatedAt[s] \in Nat /\ x.since \in Nat BY TimesAreNat, PullNumbers DEF Due
  <2>2. CASE CreatedAt[s] < x.since BY <1>2, <1>5, <2>2 DEF Covered
  <2>3. CASE CreatedAt[s] >= x.since
    <3>1. s \in Listed(E, x.feed, x.since) BY <1>5, <2>3 DEF Listed, Due
    <3> QED BY <1>2, <1>3, <1>5, <3>1 DEF InOrder
  <2> QED BY <2>1, <2>2, <2>3
<1> QED BY <1>4, <1>5 DEF Stamp, Covered

\* Older rows come first in the listing.
LEMMA RankGrows ==
  ASSUME NEW E \in SUBSET Rows, NEW f, NEW since,
         NEW r \in Listed(E, f, since), NEW s \in Listed(E, f, since),
         CreatedAt[s] < CreatedAt[r]
  PROVE  Rank(E, f, since, s) + 1 <= Rank(E, f, since, r)
<1> DEFINE S == Below(E, f, since, s)
           R == Below(E, f, since, r)
<1>1. r \in Rows /\ s \in Rows BY DEF Listed
<1>2. \A u \in S : CreatedAt[u] \in Nat /\ CreatedAt[u] < CreatedAt[s] /\ u \in Listed(E, f, since)
  BY TimesAreNat DEF Below, Listed
<1>3. S \cup {s} \subseteq R BY <1>1, <1>2, TimesAreNat DEF Below
<1>4. s \notin S BY <1>1, <1>2, TimesAreNat
<1>5. IsFiniteSet(S) /\ IsFiniteSet(R) /\ Cardinality(S) \in Nat /\ Cardinality(R) \in Nat
  BY ListedFinite DEF Rank
<1>6. Cardinality(S) = Rank(E, f, since, s) /\ Cardinality(R) = Rank(E, f, since, r) BY DEF Rank
<1> HIDE DEF S, R
<1>7. Cardinality(S \cup {s}) = Cardinality(S) + 1 BY <1>4, <1>5, FS_AddElement
<1>8. Cardinality(S \cup {s}) <= Cardinality(R) BY <1>3, <1>5, FS_Subset
<1> QED BY <1>5, <1>6, <1>7, <1>8

LEMMA RankInjective ==
  ASSUME NEW E \in SUBSET Rows, NEW f, NEW since,
         NEW r \in Listed(E, f, since), NEW s \in Listed(E, f, since),
         Rank(E, f, since, r) = Rank(E, f, since, s)
  PROVE  r = s
<1>1. Rank(E, f, since, r) \in Nat /\ Rank(E, f, since, s) \in Nat BY ListedFinite
<1>2. ~ (CreatedAt[r] < CreatedAt[s]) BY <1>1, RankGrows
<1>3. ~ (CreatedAt[s] < CreatedAt[r]) BY <1>1, RankGrows
<1>4. r \in Rows /\ s \in Rows /\ FeedOf(r) = FeedOf(s) BY DEF Listed
<1>5. CreatedAt[r] = CreatedAt[s] BY <1>2, <1>3, <1>4, TimesAreNat
<1> QED BY <1>4, <1>5, PullAssumption

\* The rows of a page of the listing.
OnPage(E, f, since, page) ==
  {r \in Listed(E, f, since) : /\ Rank(E, f, since, r) >= (page - 1) * PageSize
                               /\ Rank(E, f, since, r) < page * PageSize}

\* A page in hand holds them all: it lists as many rows, and no row twice.
LEMMA PageIsListed ==
  ASSUME erp \in SUBSET Rows, NEW f, NEW since, NEW page,
         NEW rows \in Pages(f, since, page)
  PROVE  /\ rows \in Seq(Rows) /\ Increasing(rows)
         /\ Left(rows) = OnPage(erp, f, since, page)
         /\ Len(rows) = Cardinality(OnPage(erp, f, since, page))
<1> DEFINE P == OnPage(erp, f, since, page)
           n == Cardinality(P)
<1>1. rows \in [1..n -> P] /\ \A i, j \in 1..n : i < j => CreatedAt[rows[i]] < CreatedAt[rows[j]]
  <2>1. rows \in {t \in [1..n -> P] :
                    \A i, j \in DOMAIN t : i < j => CreatedAt[t[i]] < CreatedAt[t[j]]}
    BY Zenon DEF Pages, OnPage, Rank, Below, Listed, Listing
  <2> HIDE DEF P, n
  <2> QED BY <2>1
<1>2. P \subseteq Rows /\ IsFiniteSet(P)
  <2>1. P \subseteq Listed(erp, f, since) BY DEF OnPage
  <2>2. Listed(erp, f, since) \subseteq Rows BY DEF Listed
  <2> HIDE DEF P
  <2> QED BY <2>1, <2>2, ListedFinite, FS_Subset
<1> HIDE DEF P
<1>3. n \in Nat BY <1>2, FS_CardinalityType
<1>4. rows \in Injection(1..n, P)
  <2>1. ASSUME NEW i \in 1..n, NEW j \in 1..n, rows[i] = rows[j] PROVE i = j
    <3>1. rows[i] \in Rows /\ rows[j] \in Rows BY <1>1, <1>2
    <3>2. ~ (i < j) /\ ~ (j < i) BY <1>1, <2>1, <3>1, TimesAreNat
    <3> QED BY <1>3, <3>2
  <2> QED BY <1>1, <2>1 DEF Injection, IsInjective
<1>5. Cardinality(1..n) = n
  <2>1. n = 0 \/ n >= 1 BY <1>3
  <2>2. Cardinality(1..n) = IF 1 > n THEN 0 ELSE n-1+1 BY <1>3, FS_Interval
  <2> QED BY <1>3, <2>1, <2>2
<1>6. rows \in Surjection(1..n, P) BY <1>2, <1>4, <1>5, FS_Injection
<1> HIDE DEF n
<1>7. rows \in Seq(Rows) /\ Len(rows) = n BY <1>1, <1>2, <1>3
<1>8. Increasing(rows) BY <1>1, <1>7 DEF Increasing
<1>9. Left(rows) = P
  <2>1. \A i \in 1..n : rows[i] \in P BY <1>1
  <2>2. \A r \in P : \E i \in 1..n : rows[i] = r BY <1>6 DEF Surjection
  <2> QED BY <1>7, <2>1, <2>2 DEF Left
<1> QED BY <1>7, <1>8, <1>9 DEF P, n

\* A full page ends where the next one begins: so many rows are listed.
LEMMA FullPage ==
  ASSUME NEW E \in SUBSET Rows, NEW f, NEW since, NEW page \in Nat, page >= 1,
         Cardinality(OnPage(E, f, since, page)) = PageSize
  PROVE  Cardinality(Listed(E, f, since)) >= page * PageSize
<1> DEFINE P == OnPage(E, f, since, page)
           low == (page - 1) * PageSize
           high == page * PageSize
           rank == [r \in P |-> Rank(E, f, since, r)]
<1>1. PageSize \in Nat /\ PageSize >= 1 BY PullAssumption
<1>2. low \in Nat /\ high \in Nat /\ high = low + PageSize BY <1>1
<1>3. P \subseteq Listed(E, f, since) /\ IsFiniteSet(P)
  <2>1. P \subseteq Listed(E, f, since) BY DEF OnPage
  <2> HIDE DEF P
  <2> QED BY <2>1, ListedFinite, FS_Subset
<1>4. \A r \in P : Rank(E, f, since, r) \in low..(high-1)
  <2>1. \A r \in P : Rank(E, f, since, r) >= low /\ Rank(E, f, since, r) < high BY DEF OnPage
  <2> HIDE DEF P, low, high
  <2> QED BY <1>2, <2>1, ListedFinite
<1> HIDE DEF P, low, high
<1>5. rank \in Injection(P, low..(high-1))
  <2>1. \A r, s \in P : rank[r] = rank[s] => r = s BY <1>3, RankInjective
  <2> QED BY <1>4, <2>1 DEF Injection, IsInjective
<1>6. IsFiniteSet(low..(high-1)) /\ Cardinality(low..(high-1)) = PageSize
  <2>1. low \in Int /\ high-1 \in Int /\ ~ (low > high-1) /\ high-1-low+1 = PageSize
    BY <1>1, <1>2
  <2> QED BY <2>1, FS_Interval
<1>7. rank \in Surjection(P, low..(high-1)) BY <1>5, <1>6, FS_Injection DEF P
<1>8. high-1 \in low..(high-1) BY <1>1, <1>2
<1>9. PICK r \in P : Rank(E, f, since, r) = high-1 BY <1>7, <1>8 DEF Surjection
<1>10. Below(E, f, since, r) \cup {r} \subseteq Listed(E, f, since) BY <1>3, <1>9 DEF Below
<1>11. r \notin Below(E, f, since, r)
  <2>1. r \in Rows BY <1>3, <1>9 DEF Listed
  <2> QED BY <2>1, TimesAreNat DEF Below
<1>12. Cardinality(Below(E, f, since, r) \cup {r}) = high
  <2>1. IsFiniteSet(Below(E, f, since, r)) /\ Cardinality(Below(E, f, since, r)) = high-1
    BY <1>9, ListedFinite DEF Rank
  <2>2. Cardinality(Below(E, f, since, r) \cup {r}) = Cardinality(Below(E, f, since, r)) + 1
    BY <1>11, <2>1, FS_AddElement
  <2> QED BY <1>2, <2>1, <2>2
<1>13. high <= Cardinality(Listed(E, f, since))
  BY <1>10, <1>12, ListedFinite, FS_Subset
<1> QED BY <1>2, <1>13, ListedFinite DEF high

\* A page in hand continues the rows that have been seen.
LEMMA PageSound ==
  ASSUME erp \in SUBSET Rows, NEW I, NEW f, NEW since, NEW page \in Nat, page >= 1,
         FirstRows(erp, I, f, since, (page - 1) * PageSize, {}),
         NEW rows \in Pages(f, since, page)
  PROVE  /\ InOrder(erp, I, f, since, rows)
         /\ Len(rows) = PageSize =>
              FirstRows(erp, I, f, since, page * PageSize, Left(rows))
<1>1. /\ Increasing(rows) /\ Left(rows) = OnPage(erp, f, since, page)
      /\ Len(rows) = Cardinality(OnPage(erp, f, since, page))
  BY PageIsListed
<1>2. ASSUME NEW r \in Listed(erp, f, since) \cap Due(erp),
             Rank(erp, f, since, r) < page * PageSize
      PROVE  r \in I \cup Left(rows)
  <2>1. Rank(erp, f, since, r) \in Nat BY ListedFinite
  <2>2. (page - 1) * PageSize \in Nat BY PullAssumption
  <2>3. CASE Rank(erp, f, since, r) < (page - 1) * PageSize BY <2>3 DEF FirstRows
  <2>4. CASE Rank(erp, f, since, r) >= (page - 1) * PageSize
    BY <1>1, <1>2, <2>4 DEF OnPage
  <2> QED BY <2>1, <2>2, <2>3, <2>4
<1>3. ASSUME NEW r \in Left(rows), NEW s \in Listed(erp, f, since) \cap Due(erp),
             CreatedAt[s] < CreatedAt[r]
      PROVE  s \in I \cup Left(rows)
  <2>1. r \in Listed(erp, f, since) /\ Rank(erp, f, since, r) < page * PageSize
    BY <1>1 DEF OnPage
  <2>2. Rank(erp, f, since, s) + 1 <= Rank(erp, f, since, r) BY <1>3, <2>1, RankGrows
  <2>3. Rank(erp, f, since, s) \in Nat /\ Rank(erp, f, since, r) \in Nat
        /\ page * PageSize \in Nat
    BY ListedFinite, PullAssumption
  <2>4. Rank(erp, f, since, s) < page * PageSize BY <2>1, <2>2, <2>3
  <2> QED BY <1>2, <2>4
<1>4. InOrder(erp, I, f, since, rows) BY <1>1, <1>3 DEF InOrder, OnPage
<1>5. Len(rows) = PageSize => Cardinality(Listed(erp, f, since)) >= page * PageSize
  BY <1>1, FullPage
<1> QED BY <1>2, <1>4, <1>5 DEF FirstRows

\* One pull moves; what it knows, and what the others do, stays true.
LEMMA OneMoves ==
  ASSUME Inv, CoverInv, erp' = erp, idmap \subseteq idmap',
         \A f \in Feeds : Stamp(erp, cursor'[f]) /\ Covered(erp, idmap', f, cursor'[f]),
         NEW p \in Pullers, NEW y, pull' = [pull EXCEPT ![p] = y], Sound(erp, idmap', y)
  PROVE  CoverInv'
<1>1. pull'[p] = y /\ \A q \in Pullers \ {p} : pull'[q] = pull[q] BY TypeDef DEF Inv
<1>2. \A q \in Pullers : Sound(erp, idmap', pull'[q]) BY <1>1, MoreSeen DEF CoverInv
<1> QED BY <1>2 DEF CoverInv

LEMMA CursorsKept ==
  ASSUME CoverInv, idmap \subseteq idmap', cursor' = cursor
  PROVE  \A f \in Feeds : Stamp(erp, cursor'[f]) /\ Covered(erp, idmap', f, cursor'[f])
BY DEF CoverInv, Covered

\* At these places a pull knows nothing of a feed.
LEMMA NothingKnown ==
  ASSUME NEW E, NEW I, NEW x, x.at \in {"idle", "config", "feed"}
  PROVE  Sound(E, I, x)
BY DEF Sound, Paging

\* The pull goes on with its page.
LEMMA SamePage ==
  ASSUME NEW E, NEW I, NEW x \in Pulls, Sound(E, I, x), x.at \in Paging, NEW place \in Paging
  PROVE  Sound(E, I, [x EXCEPT !.at = place])
BY DEF Sound, Paging, Pulls

LEMMA FeedOverSound ==
  ASSUME NEW p, NEW E, NEW I
  PROVE  Sound(E, I, [Idle EXCEPT !.at = "feed", !.todo = pull[p].todo])
<1> DEFINE y == [Idle EXCEPT !.at = "feed", !.todo = pull[p].todo]
<1>1. y.at = "feed" BY DEF Idle
<1> HIDE DEF y
<1>2. Sound(E, I, y) BY <1>1, NothingKnown
<1> QED BY <1>2 DEF y

LEMMA NextFeedCover ==
  ASSUME Inv, CoverInv, NEW p \in Pullers, NextFeed(p)
  PROVE  CoverInv'
<1>1. PICK f \in pull[p].todo : pull' = [pull EXCEPT ![p] =
        [Idle EXCEPT !.at = "list", !.todo = pull[p].todo \ {f}, !.feed = f,
                     !.since = cursor[f], !.max = cursor[f], !.page = 1]]
  BY Zenon DEF NextFeed
<1>2. erp' = erp /\ idmap' = idmap /\ cursor' = cursor BY Zenon DEF NextFeed, tables
<1> DEFINE y == [Idle EXCEPT !.at = "list", !.todo = pull[p].todo \ {f}, !.feed = f,
                             !.since = cursor[f], !.max = cursor[f], !.page = 1]
<1>3. y.at = "list" /\ y.feed = f /\ y.since = cursor[f] /\ y.max = cursor[f] /\ y.page = 1
  BY DEF Idle
<1> HIDE DEF y
<1>4. f \in Feeds BY TypeDef DEF Inv, Pulls
<1>5. (y.page - 1) * PageSize = 0 BY <1>3, PullAssumption
<1>6. FirstRows(erp, idmap, f, cursor[f], 0, {})
  <2>1. erp \in SUBSET Rows BY DEF Inv, TypeOK
  <2> QED BY <2>1, ListedFinite DEF FirstRows
<1>7. Sound(erp, idmap, y) BY <1>3, <1>4, <1>5, <1>6 DEF Sound, CoverInv, Paging
<1> QED BY <1>1, <1>2, <1>7, OneMoves, CursorsKept DEF y

LEMMA ListPageCover ==
  ASSUME Inv, CoverInv, NEW p \in Pullers, ListPage(p)
  PROVE  CoverInv'
<1> DEFINE x == pull[p]
<1>1. PICK rows \in Pages(x.feed, x.since, x.page) :
        pull' = [pull EXCEPT ![p].at = IF rows = <<>> THEN "cursor" ELSE "row",
                             ![p].rows = rows, ![p].full = Len(rows) = PageSize]
  BY Zenon DEF ListPage
<1>2. PICK at \in {"cursor", "row"} : at = IF rows = <<>> THEN "cursor" ELSE "row" OBVIOUS
<1>3. PICK full \in BOOLEAN : full = (Len(rows) = PageSize) OBVIOUS
<1>4. pull' = [pull EXCEPT ![p] = [x EXCEPT !.at = at, !.rows = rows, !.full = full]]
  BY <1>1, <1>2, <1>3
<1>5. x \in Pulls /\ x.at = "list" /\ Sound(erp, idmap, x) /\ erp \in SUBSET Rows
  BY TypeDef DEF ListPage, At, Inv, CoverInv
<1> DEFINE y == [x EXCEPT !.at = at, !.rows = rows, !.full = full]
<1>6. /\ y.at = at /\ y.rows = rows /\ y.full = full /\ y.feed = x.feed /\ y.page = x.page
      /\ y.since = x.since /\ y.max = x.max
  BY <1>5 DEF Pulls
<1> HIDE DEF x, y
<1>7. x.page \in Nat /\ x.page >= 1 BY <1>5, PullNumbers DEF Sound
<1>8. FirstRows(erp, idmap, x.feed, x.since, (x.page - 1) * PageSize, {}) BY <1>5 DEF Sound
<1>9. /\ InOrder(erp, idmap, x.feed, x.since, rows)
      /\ full => FirstRows(erp, idmap, x.feed, x.since, x.page * PageSize, Left(rows))
  BY <1>3, <1>5, <1>7, <1>8, PageSound
<1>10. Sound(erp, idmap, y) BY <1>2, <1>5, <1>6, <1>9 DEF Sound, Paging
<1>11. erp' = erp /\ idmap' = idmap /\ cursor' = cursor BY Zenon DEF ListPage, tables
<1> QED BY <1>4, <1>10, <1>11, OneMoves, CursorsKept DEF x, y

LEMMA PageOverCover ==
  ASSUME Inv, CoverInv, NEW p \in Pullers, PageOver(p)
  PROVE  CoverInv'
<1> DEFINE x == pull[p]
           more == x.full /\ x.page + 1 <= MaxPages
<1>1. PICK at \in {"list", "cursor"} : at = IF more THEN "list" ELSE "cursor" OBVIOUS
<1>2. PICK page : page = IF more THEN x.page + 1 ELSE x.page OBVIOUS
<1>3. pull' = [pull EXCEPT ![p] = [x EXCEPT !.at = at, !.page = page]]
  BY <1>1, <1>2 DEF PageOver
<1>4. x \in Pulls /\ x.at = "row" /\ x.rows = <<>> /\ Sound(erp, idmap, x)
  BY TypeDef DEF PageOver, At, Inv, CoverInv
<1> DEFINE y == [x EXCEPT !.at = at, !.page = page]
<1>5. /\ y.at = at /\ y.page = page /\ y.feed = x.feed /\ y.since = x.since /\ y.max = x.max
  BY <1>4 DEF Pulls
<1>6. x.page \in Nat /\ x.page >= 1 BY <1>4, PullNumbers DEF Sound, Paging
<1>7. page >= 1 BY <1>2, <1>6
<1>8. at = "list" => x.full /\ page - 1 = x.page BY <1>1, <1>2, <1>6
<1> HIDE DEF x, y, more
<1>9. Left(x.rows) = {} BY <1>4 DEF Left
<1>10. at = "list" => FirstRows(erp, idmap, x.feed, x.since, (page - 1) * PageSize, {})
  BY <1>4, <1>8, <1>9 DEF Sound, Paging
<1>11. Sound(erp, idmap, y) BY <1>1, <1>4, <1>5, <1>7, <1>10 DEF Sound, Paging
<1>12. erp' = erp /\ idmap' = idmap /\ cursor' = cursor BY Zenon DEF PageOver, tables
<1> QED BY <1>3, <1>11, <1>12, OneMoves, CursorsKept DEF x, y

LEMMA CheckRowCover ==
  ASSUME Inv, CoverInv, NEW p \in Pullers, CheckRow(p)
  PROVE  CoverInv'
<1> DEFINE x == pull[p]
           r == Row(p)
           skip == r \in idmap \cup CostOnly \cup Skipped
           place == CASE skip -> "row"
                      [] ~skip /\ r \in Movements -> "header"
                      [] ~skip /\ r \in Receipts -> "line"
<1>1. x \in Pulls /\ x.at = "row" /\ x.rows # <<>> /\ Sound(erp, idmap, x) /\ erp \in SUBSET Rows
  BY TypeDef DEF CheckRow, At, Inv, CoverInv
<1>2. r = Head(x.rows) /\ r \in Rows
  BY <1>1, HeadTailProperties DEF Row, Pulls
<1>3. (skip => place = "row") /\ (~skip => place \in {"header", "line"})
  <2>1. r \in Movements \/ r \in Receipts BY <1>2 DEF Rows
  <2>2. ~ (r \in Movements /\ r \in Receipts) BY PullAssumption
  <2> HIDE DEF r, skip
  <2> QED BY <2>1, <2>2
<1>4. PICK max : max = IF CreatedAt[r] > x.max THEN CreatedAt[r] ELSE x.max OBVIOUS
<1>5. PICK rows : rows = IF skip THEN Tail(x.rows) ELSE x.rows OBVIOUS
<1>6. pull' = [pull EXCEPT ![p].max = IF CreatedAt[r] > @ THEN CreatedAt[r] ELSE @,
                           ![p].rows = IF skip THEN Tail(@) ELSE @,
                           ![p].at = place]
  BY Zenon DEF CheckRow
<1> DEFINE y == [x EXCEPT !.max = max, !.rows = rows, !.at = place]
<1>7. pull' = [pull EXCEPT ![p] = y]
  <2> HIDE DEF r, skip, place
  <2> QED BY <1>4, <1>5, <1>6
<1>8. /\ y.at = place /\ y.rows = rows /\ y.max = max
      /\ y.feed = x.feed /\ y.page = x.page /\ y.since = x.since /\ y.full = x.full
  <2> HIDE DEF place
  <2> QED BY <1>1 DEF Pulls
<1> HIDE DEF x, y, r, place
<1>9. /\ Stamp(erp, CreatedAt[r]) /\ Covered(erp, idmap, x.feed, CreatedAt[r])
  BY <1>1, <1>2, HeadCovers DEF Paging
<1>10. Stamp(erp, max) /\ Covered(erp, idmap, x.feed, max)
  BY <1>1, <1>4, <1>9 DEF Sound, Paging
<1>11. Sound(erp, idmap, y)
  <2>1. CASE skip
    <3>1. y.at = "row" /\ y.rows = Tail(x.rows) BY <1>3, <1>5, <1>8, <2>1
    <3>2. Head(x.rows) \in idmap \cup CostOnly \cup Skipped BY <1>2, <2>1
    <3>3. Stamp(erp, y.max) /\ Covered(erp, idmap, y.feed, y.max) BY <1>8, <1>10
    <3> HIDE DEF skip
    <3> QED BY <1>1, <1>8, <3>1, <3>2, <3>3, HeadDone DEF Paging
  <2>2. CASE ~skip
    <3>1. y.rows = x.rows /\ y.at \in {"header", "line"} BY <1>3, <1>5, <1>8, <2>2
    <3> HIDE DEF skip
    <3> QED BY <1>1, <1>8, <1>10, <3>1 DEF Sound, Paging
  <2> QED BY <2>1, <2>2
<1>12. erp' = erp /\ idmap' = idmap /\ cursor' = cursor BY Zenon DEF CheckRow, tables
<1> QED BY <1>7, <1>11, <1>12, OneMoves, CursorsKept

LEMMA SaveRowCover ==
  ASSUME Inv, CoverInv, NEW p \in Pullers, SaveHeader(p) \/ SaveLine(p)
  PROVE  CoverInv'
<1> DEFINE x == pull[p]
<1>1. x \in Pulls /\ x.at \in Paging /\ Sound(erp, idmap, x)
  BY TypeDef DEF SaveHeader, SaveLine, At, Inv, CoverInv, Paging
<1>2. erp' = erp /\ idmap' = idmap /\ cursor' = cursor BY Zenon DEF SaveHeader, SaveLine
<1>3. CASE FeedOver(p)
  BY <1>2, <1>3, OneMoves, CursorsKept, FeedOverSound DEF FeedOver
<1>4. ASSUME NEW place \in Paging, Goto(p, place) PROVE CoverInv'
  <2>1. pull' = [pull EXCEPT ![p] = [x EXCEPT !.at = place]] BY <1>4 DEF Goto
  <2> HIDE DEF x
  <2>2. Sound(erp, idmap, [x EXCEPT !.at = place]) BY <1>1, SamePage
  <2> QED BY <1>2, <2>1, <2>2, OneMoves, CursorsKept
<1> QED BY <1>3, <1>4 DEF SaveHeader, SaveLine, Paging

LEMMA SaveMapCover ==
  ASSUME Inv, CoverInv, NEW p \in Pullers, SaveMap(p)
  PROVE  CoverInv'
<1> DEFINE x == pull[p]
<1>1. x \in Pulls /\ x.at = "map" /\ Sound(erp, idmap, x) /\ erp \in SUBSET Rows /\ x.rows # <<>>
  BY TypeDef DEF SaveMap, At, Inv, CoverInv, InHand, Busy
<1>2. erp' = erp /\ idmap' = idmap \cup {Row(p)} /\ cursor' = cursor BY Zenon DEF SaveMap
<1>3. CASE FeedOver(p)
  BY <1>2, <1>3, OneMoves, CursorsKept, FeedOverSound DEF FeedOver
<1>4. CASE RowOver(p)
  <2> DEFINE y == [x EXCEPT !.at = "row", !.rows = Tail(@)]
  <2>1. pull' = [pull EXCEPT ![p] = y] BY <1>4 DEF RowOver
  <2>2. /\ y.at = "row" /\ y.rows = Tail(x.rows) /\ y.max = x.max
        /\ y.feed = x.feed /\ y.page = x.page /\ y.since = x.since /\ y.full = x.full
    BY <1>1 DEF Pulls
  <2>3. Head(x.rows) \in idmap' BY <1>2 DEF Row
  <2> HIDE DEF x, y
  <2>4. Sound(erp, idmap', x) BY <1>1, <1>2, MoreSeen
  <2>5. Stamp(erp, y.max) /\ Covered(erp, idmap', y.feed, y.max)
    BY <1>1, <2>2, <2>4 DEF Sound, Paging
  <2>6. Sound(erp, idmap', y) BY <1>1, <2>2, <2>3, <2>4, <2>5, HeadDone DEF Paging
  <2> QED BY <1>2, <2>1, <2>6, OneMoves, CursorsKept
<1> QED BY <1>3, <1>4 DEF SaveMap

LEMMA SaveCursorCover ==
  ASSUME Inv, CoverInv, NEW p \in Pullers, SaveCursor(p)
  PROVE  CoverInv'
<1> DEFINE x == pull[p]
<1>1. x \in Pulls /\ x.at = "cursor" /\ Sound(erp, idmap, x)
  BY TypeDef DEF SaveCursor, At, Inv, CoverInv
<1>2. /\ erp' = erp /\ idmap' = idmap /\ FeedOver(p)
      /\ cursor' = [cursor EXCEPT ![x.feed] = IF x.max = 0 THEN @ ELSE x.max]
  BY Zenon DEF SaveCursor
<1> HIDE DEF x
<1>3. Stamp(erp, x.max) /\ Covered(erp, idmap, x.feed, x.max) BY <1>1 DEF Sound
<1>4. \A f \in Feeds : cursor'[f] = cursor[f] \/ (f = x.feed /\ cursor'[f] = x.max)
  <2>1. cursor \in [Feeds -> 0..MaxTime] BY DEF Inv, TypeOK
  <2> QED BY <1>2, <2>1
<1>5. \A f \in Feeds : Stamp(erp, cursor'[f]) /\ Covered(erp, idmap', f, cursor'[f])
  BY <1>2, <1>3, <1>4 DEF CoverInv
<1> QED BY <1>2, <1>5, OneMoves, FeedOverSound DEF FeedOver

\* A pull starts, ends, or gives up: it knows nothing.
LEMMA RestCover ==
  ASSUME Inv, CoverInv, NEW p \in Pullers,
         Tick(p) \/ TimerFires(p) \/ ScheduledStart(p) \/ ManualStart(p) \/ PullOver(p)
           \/ ListFails(p)
  PROVE  CoverInv'
<1>1. erp' = erp /\ idmap' = idmap /\ cursor' = cursor
  BY Zenon DEF Tick, TimerFires, ScheduledStart, ManualStart, PullOver, ListFails, tables
<1>2. pull[p] \in Pulls BY TypeDef DEF Inv
<1>3. \E y : pull' = [pull EXCEPT ![p] = y] /\ y.at \in {"idle", "config", "feed"}
  <2>1. CASE Goto(p, "config")
    <3>1. [pull[p] EXCEPT !.at = "config"].at = "config" BY <1>2 DEF Pulls
    <3> QED BY <2>1, <3>1 DEF Goto
  <2>2. ASSUME NEW todo, pull' = [pull EXCEPT ![p] = [Idle EXCEPT !.at = "feed", !.todo = todo]]
        PROVE  \E y : pull' = [pull EXCEPT ![p] = y] /\ y.at \in {"idle", "config", "feed"}
    <3>1. [Idle EXCEPT !.at = "feed", !.todo = todo].at = "feed" BY DEF Idle
    <3> QED BY <2>2, <3>1
  <2>3. CASE pull' = [pull EXCEPT ![p] = Idle]
    <3>1. Idle.at = "idle" BY DEF Idle
    <3> QED BY <2>3, <3>1
  <2>4. \/ Goto(p, "config")
        \/ \E todo : pull' = [pull EXCEPT ![p] = [Idle EXCEPT !.at = "feed", !.todo = todo]]
        \/ pull' = [pull EXCEPT ![p] = Idle]
    BY DEF Tick, TimerFires, ScheduledStart, ManualStart, PullOver, ListFails, FeedOver
  <2> QED BY <2>1, <2>2, <2>3, <2>4
<1>4. PICK y : pull' = [pull EXCEPT ![p] = y] /\ y.at \in {"idle", "config", "feed"} BY <1>3
<1>5. Sound(erp, idmap', y) BY <1>4, NothingKnown
<1> QED BY <1>1, <1>4, <1>5, OneMoves, CursorsKept

LEMMA OffCover ==
  ASSUME Inv, CoverInv, NEW p \in Pullers, ErpOff(p)
  PROVE  CoverInv'
<1>1. erp' = erp /\ idmap' = idmap /\ cursor' = cursor BY Zenon DEF ErpOff, tables
<1>2. PICK y : pull' = [pull EXCEPT ![p] = y] /\ y.at \in {"idle", "config", "feed"}
  BY OffIs DEF Inv
<1>3. Sound(erp, idmap', y) BY <1>2, NothingKnown
<1> QED BY <1>1, <1>2, <1>3, OneMoves, CursorsKept

\* The Hub delivers and the process restarts: nothing is learnt of a feed.
LEMMA HubCover ==
  ASSUME Inv, CoverInv,
         \/ ErpWebhook
         \/ \E e \in Events : Receive(e) \/ Dispatch(e) \/ Record(e)
         \/ \E e \in Events : Reprocess(e)
         \/ Restart
         \/ UNCHANGED vars
  PROVE  CoverInv'
<1>1. erp' = erp /\ idmap' = idmap /\ cursor' = cursor
  BY Zenon DEF ErpWebhook, Receive, Dispatch, Record, Reprocess, Restart, tables, vars
<1>2. \A q \in Pullers : pull'[q] = pull[q] \/ pull'[q].at \in {"idle", "feed"}
  <2>1. Idle.at = "idle" /\ [Idle EXCEPT !.at = "feed", !.todo = Stores].at = "feed"
    BY DEF Idle
  <2>2. \/ pull' = pull
        \/ pull' = [pull EXCEPT ![Drain] = [Idle EXCEPT !.at = "feed", !.todo = Stores]]
        \/ pull' = [p \in Pullers |-> Idle]
    BY Zenon DEF ErpWebhook, Receive, Dispatch, DispatchEvent, StockChanged, Record,
                 Reprocess, Restart, vars
  <2> QED BY <2>1, <2>2, TypeDef DEF Inv
<1>3. \A q \in Pullers : Sound(erp, idmap, pull'[q]) BY <1>2, NothingKnown DEF CoverInv
<1> QED BY <1>1, <1>3 DEF CoverInv

\* A row committed in order is younger than every time a cursor or a pull holds.
LEMMA CommitCover ==
  ASSUME ~MayCommitLate, Inv, CoverInv, NEW r \in Rows, ErpCommits(r)
  PROVE  CoverInv'
<1>1. /\ erp \in SUBSET Rows /\ r \in Rows \ erp /\ \A s \in erp : CreatedAt[s] <= CreatedAt[r]
      /\ erp' = erp \cup {r} /\ idmap' = idmap /\ cursor' = cursor /\ pull' = pull
  BY DEF ErpCommits, tables, Inv, TypeOK
<1>2. \A p \in Pullers : pull[p] \in Pulls BY TypeDef DEF Inv
<1>3. \A p \in Pullers : Sound(erp \cup {r}, idmap, pull[p])
  BY <1>1, <1>2, CommitSound DEF CoverInv
<1>4. \A f \in Feeds : Stamp(erp \cup {r}, cursor[f]) /\ Covered(erp \cup {r}, idmap, f, cursor[f])
  BY <1>1, CommitCovers DEF CoverInv
<1> QED BY <1>1, <1>3, <1>4 DEF CoverInv

LEMMA NextCover == ~MayCommitLate /\ Inv /\ CoverInv /\ [Next]_vars => CoverInv'
<1> SUFFICES ASSUME ~MayCommitLate, Inv, CoverInv, [Next]_vars PROVE CoverInv' OBVIOUS
<1>1. ASSUME NEW p \in Pullers, Step(p) PROVE CoverInv'
  BY <1>1, RestCover, NextFeedCover, ListPageCover, PageOverCover, CheckRowCover, SaveRowCover,
     SaveMapCover, SaveCursorCover DEF Step
<1>2. ASSUME NEW p \in Pullers,
             Tick(p) \/ TimerFires(p) \/ ManualStart(p) \/ ErpOff(p) \/ ListFails(p)
      PROVE  CoverInv'
  BY <1>2, RestCover, OffCover
<1>3. CASE \E r \in Rows : ErpCommits(r) BY <1>3, CommitCover
<1> QED BY <1>1, <1>2, <1>3, HubCover DEF Next

LEMMA InitCover == Init => CoverInv
<1> SUFFICES ASSUME Init PROVE CoverInv OBVIOUS
<1>1. \A p \in Pullers : pull[p].at = "idle" BY DEF Init, Idle
<1>2. \A p \in Pullers : Sound(erp, idmap, pull[p]) BY <1>1, NothingKnown
<1>3. \A f \in Feeds : cursor[f] = 0 BY DEF Init
<1>4. erp = {} BY DEF Init
<1> QED BY <1>2, <1>3, <1>4 DEF CoverInv, Stamp, Covered, Due

-----------------------------------------------------------------------------
\* Every variable of the mirror keeps its type, the cursors and pages their bounds.
THEOREM TypeCorrect == Spec => []TypeOK
<1>1. Inv => TypeOK BY DEF Inv
<1> QED BY <1>1, InitInv, NextInv, PTL DEF Spec

\* However many pulls overlap, fail and are cut off by restarts, the stock of a
\* movement of the ERP is written at most once (mirrorMovement).
THEOREM MovementOnceHolds == Spec => []MovementOnce
<1>1. Inv => MovementOnce BY DEF Inv
<1> QED BY <1>1, InitInv, NextInv, PTL DEF Spec

\* No row is marked as seen before its effect is written: a crash may repeat work,
\* never lose it (mirrorMovement, pullReceipts, upsertIdMap).
THEOREM SeenIsMirroredHolds == Spec => []SeenIsMirrored
<1>1. Inv => SeenIsMirrored BY DEF Inv
<1> QED BY <1>1, InitInv, NextInv, PTL DEF Spec

\* The hub's stock changes are never left without a drain: while one is pending
\* the drain's loop is under way (drainStock), whatever is cut off by restarts.
THEOREM PendingIsServedHolds == Spec => []PendingIsServed
<1>1. Init => Served
  BY DEF Init, Served
<1>2. Inv /\ Served /\ [Next]_vars => (Inv /\ Served)'
  <2>1. Inv => TypeOK BY DEF Inv
  <2> QED BY <2>1, NextInv, NextServed
<1>3. Served => PendingIsServed
  BY DEF Served, PendingIsServed, At
<1> QED BY <1>1, <1>2, <1>3, InitInv, PTL DEF Spec

\* As long as the ERP commits its rows in the order of their times, no cursor passes
\* a row that is still to be mirrored, however pulls overlap, fail and are cut off
\* (pullMovementsForStore, pullReceipts: pages, the largest time, the cursor last).
THEOREM CursorCoversHolds ==
  ASSUME ~MayCommitLate
  PROVE  Spec => []CursorCovers
<1>1. Init => Inv /\ CoverInv BY InitInv, InitCover
<1>2. Inv /\ CoverInv /\ [Next]_vars => (Inv /\ CoverInv)' BY NextInv, NextCover
<1>3. Inv /\ CoverInv => CursorCovers
  <2> SUFFICES ASSUME Inv, CoverInv, NEW r \in erp \ (CostOnly \cup Skipped),
                      CreatedAt[r] < cursor[FeedOf(r)]
               PROVE  r \in idmap
    BY DEF CursorCovers
  <2>1. r \in Rows BY DEF Inv, TypeOK
  <2>2. FeedOf(r) \in Feeds BY <2>1, PullAssumption DEF FeedOf, Feeds, Rows
  <2> QED BY <2>2 DEF CoverInv, Covered, Due
<1> QED BY <1>1, <1>2, <1>3, PTL DEF Spec

=============================================================================
