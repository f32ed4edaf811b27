------------------------------ MODULE ErpPull ------------------------------
(***************************************************************************)
(* The inbound mirror: stock movements and receipts of the ERP become      *)
(* vouchers and collections.  Pulls are started by the 5 min timer, by the *)
(* debounced ERP webhook, by the dashboard and by the stock events of the  *)
(* Integration Hub; they page through a feed from its cursor and write     *)
(* each new row in three statements without a transaction.                 *)
(* Source: erp-sync.service.ts, hub-webhook.service.ts                     *)
(*                                                                         *)
(* The ERP is external: a row appears in its feed when the ERP commits it, *)
(* the feed is listed by created_at, since inclusive, and a listing may    *)
(* fail.                                                                   *)
(***************************************************************************)
EXTENDS Integers, FiniteSets, Sequences

CONSTANTS
  Stores,        \* warehouses and van stores cash-van knows
  Movements,     \* rows of the ERP stock ledger
  Receipts,      \* rows of the ERP receipts feed
  StoreOf,       \* the warehouse of a movement
  CreatedAt,     \* created_at of a row
  MaxTime,
  CostOnly,      \* movements with quantityChanged = 0
  UnknownSku,    \* movements whose skuCode is no item of cash-van
  Skipped,       \* receipts of unknown or unassigned customers, or of van stores
  ReceiptFeed,   \* the entity 'receipts'
  Scheduled,     \* runs of scheduledPull that may overlap
  Manual,        \* "Sync now" requests that may overlap
  Drain,         \* the loop of drainHubStockSync
  StockEvents,   \* Hub events of type inventory.stock_changed
  OtherEvents,   \* Hub events cash-van ignores
  PageSize,      \* pageSize, 200 in the code
  MaxPages,      \* 50 in the code
  MaxRestarts,   \* bound: restarts of the process
  MayCommitLate, \* whether the ERP may commit a row after a younger one
  None

Rows == Movements \cup Receipts
Feeds == Stores \cup {ReceiptFeed}
FeedOf(r) == IF r \in Movements THEN StoreOf[r] ELSE ReceiptFeed
Events == StockEvents \cup OtherEvents
Pullers == Scheduled \cup Manual \cup {Drain}

ASSUME PullAssumption ==
  /\ StoreOf \in [Movements -> Stores]
  /\ IsFiniteSet(Rows)
  /\ MaxTime \in Nat /\ CreatedAt \in [Rows -> 1..MaxTime]
  /\ \A r, s \in Rows : r # s /\ FeedOf(r) = FeedOf(s) => CreatedAt[r] # CreatedAt[s]
  /\ Movements \cap Receipts = {} /\ StockEvents \cap OtherEvents = {}
  /\ CostOnly \subseteq Movements /\ UnknownSku \subseteq Movements
  /\ Skipped \subseteq Receipts
  /\ ReceiptFeed \notin Stores
  /\ Scheduled \cap Manual = {} /\ Drain \notin Scheduled \cup Manual
  /\ PageSize \in Nat \ {0} /\ MaxPages \in Nat \ {0} /\ MaxRestarts \in Nat
  /\ MayCommitLate \in BOOLEAN
  /\ None \notin Events /\ None \notin Feeds

VARIABLES
  erp,          \* rows the ERP has committed
  cursor,       \* erp_sync_cursor.updated_since, 0 when there is none
  idmap,        \* rows with an erp_id_map entry
  headers,      \* movements with a voucher header ERP-MV-<id>
  mirrored,     \* voucher lines or collections written, by row
  pulling,      \* the in-memory flag of scheduledPull
  webhookTimer, \* a debounced pull is scheduled
  stockPending, stockRunning,   \* flags of drainHubStockSync
  pull,         \* what each pull is doing
  event,        \* hub_webhook_events.status, None before the event is stored
  request,      \* what the Hub request that stored an event is doing
  restarts

vars == <<erp, cursor, idmap, headers, mirrored, pulling, webhookTimer,
          stockPending, stockRunning, pull, event, request, restarts>>
tables == <<cursor, idmap, headers, mirrored>>
flags == <<pulling, webhookTimer, stockPending, stockRunning>>
hub == <<event, request>>

\* todo: feeds left; rows: of the page still to do; max: cursor to save.
Idle == [at |-> "idle", todo |-> {}, feed |-> None, since |-> 0, max |-> 0,
         page |-> 0, rows |-> <<>>, full |-> FALSE]
At(p, place) == pull[p].at = place
Row(p) == Head(pull[p].rows)
\* The pull goes on at place; at "feed" the entity it worked on is over.
Goto(p, place) == pull' = [pull EXCEPT ![p].at = place]
FeedOver(p) == pull' = [pull EXCEPT ![p] = [Idle EXCEPT !.at = "feed", !.todo = pull[p].todo]]
RowOver(p) == pull' = [pull EXCEPT ![p].at = "row", ![p].rows = Tail(@)]

Init ==
  /\ erp = {}
  /\ cursor = [f \in Feeds |-> 0]
  /\ idmap = {} /\ headers = {}
  /\ mirrored = [r \in Rows |-> 0]
  /\ pulling = FALSE /\ webhookTimer = FALSE
  /\ stockPending = FALSE /\ stockRunning = FALSE
  /\ pull = [p \in Pullers |-> Idle]
  /\ event = [e \in Events |-> None]
  /\ request = [e \in Events |-> "over"]
  /\ restarts = 0

-----------------------------------------------------------------------------
\* External: the ERP commits a row.  Its created_at was taken before, so a
\* younger row may have been committed earlier.
ErpCommits(r) ==
  /\ r \notin erp
  /\ MayCommitLate \/ \A s \in erp : CreatedAt[s] <= CreatedAt[r]
  /\ erp' = erp \cup {r}
  /\ UNCHANGED <<tables, flags, pull, hub, restarts>>

\* External: GET of a page of the feed since a time, ordered by created_at.
Listing(f, since) == {r \in erp : FeedOf(r) = f /\ CreatedAt[r] >= since}
Pages(f, since, page) ==
  LET all == Listing(f, since)
      rank(r) == Cardinality({s \in all : CreatedAt[s] < CreatedAt[r]})
      rows == {r \in all : rank(r) >= (page - 1) * PageSize /\ rank(r) < page * PageSize} IN
  {s \in [1..Cardinality(rows) -> rows] :
     \A i, j \in DOMAIN s : i < j => CreatedAt[s[i]] < CreatedAt[s[j]]}

-----------------------------------------------------------------------------
\* scheduledPull, every 5 min: test the flag, then await the settings.
Tick(p) ==
  /\ p \in Scheduled /\ At(p, "idle") /\ ~pulling
  /\ Goto(p, "config")
  /\ UNCHANGED <<erp, tables, flags, hub, restarts>>

\* triggerWebhookSync: one timer for a burst of ERP webhooks.
ErpWebhook ==
  /\ ~webhookTimer
  /\ webhookTimer' = TRUE
  /\ UNCHANGED <<erp, tables, pulling, stockPending, stockRunning, pull, hub, restarts>>

\* The timer: while a pull runs it is set again, else scheduledPull is called.
TimerFires(p) ==
  /\ webhookTimer /\ ~pulling
  /\ p \in Scheduled /\ At(p, "idle")
  /\ webhookTimer' = FALSE
  /\ Goto(p, "config")
  /\ UNCHANGED <<erp, tables, pulling, stockPending, stockRunning, hub, restarts>>

\* scheduledPull after the await: the flag is set, then syncNow.
ScheduledStart(p) ==
  /\ p \in Scheduled /\ At(p, "config")
  /\ pulling' = TRUE
  /\ pull' = [pull EXCEPT ![p] = [Idle EXCEPT !.at = "feed", !.todo = Feeds]]
  /\ UNCHANGED <<erp, tables, webhookTimer, stockPending, stockRunning, hub, restarts>>

\* The ERP is off in the settings, or not configured: scheduledPull returns, syncNow
\* pulls nothing, and pullAllMovements leaves the stores out.
ErpOff(p) ==
  /\ \/ /\ p \in Scheduled /\ At(p, "config")
        /\ pull' = [pull EXCEPT ![p] = Idle]
     \/ /\ At(p, "feed") /\ pull[p].todo \in {Feeds, Stores}
        /\ \E rest \in SUBSET (pull[p].todo \cap {ReceiptFeed}) :
             pull' = [pull EXCEPT ![p].todo = rest]
  /\ UNCHANGED <<erp, tables, flags, hub, restarts>>

\* syncNow from the dashboard: it neither tests nor sets the flag.
ManualStart(p) ==
  /\ p \in Manual /\ At(p, "idle")
  /\ pull' = [pull EXCEPT ![p] = [Idle EXCEPT !.at = "feed", !.todo = Feeds]]
  /\ UNCHANGED <<erp, tables, flags, hub, restarts>>

\* pullMovementsForStore and pullReceipts read the cursor; receipts come last.
NextFeed(p) ==
  /\ At(p, "feed")
  /\ \E f \in pull[p].todo :
       /\ f = ReceiptFeed => pull[p].todo = {ReceiptFeed}
       /\ pull' = [pull EXCEPT ![p] =
            [Idle EXCEPT !.at = "list", !.todo = pull[p].todo \ {f}, !.feed = f,
                         !.since = cursor[f], !.max = cursor[f], !.page = 1]]
  /\ UNCHANGED <<erp, tables, flags, hub, restarts>>

\* Mutant of PullOver: the drain stops without looking for a new event.
PullOverNoLoop(p) ==
  /\ At(p, "feed") /\ pull[p].todo = {}
  /\ pull' = [pull EXCEPT ![p] = Idle]
  /\ pulling' = IF p \in Scheduled THEN FALSE ELSE pulling
  /\ stockRunning' = IF p = Drain THEN FALSE ELSE stockRunning
  /\ UNCHANGED <<erp, tables, webhookTimer, stockPending, hub, restarts>>

\* Mutant of PullOver: the flag of scheduledPull is not cleared.
PullOverFlagged(p) ==
  /\ At(p, "feed") /\ pull[p].todo = {}
  /\ pull' = [pull EXCEPT ![p] = Idle]
  /\ stockRunning' = IF p = Drain THEN FALSE ELSE stockRunning
  /\ UNCHANGED <<erp, tables, pulling, webhookTimer, stockPending, hub, restarts>>

\* All feeds done: scheduledPull clears its flag; the drain starts again when an
\* event came in meanwhile.
PullOver(p) ==
  /\ At(p, "feed") /\ pull[p].todo = {}
  /\ LET again == p = Drain /\ stockPending IN
     /\ pull' = [pull EXCEPT ![p] = IF again THEN [Idle EXCEPT !.at = "feed", !.todo = Stores]
                                    ELSE Idle]
     /\ stockPending' = IF again THEN FALSE ELSE stockPending
     /\ stockRunning' = IF p = Drain THEN again ELSE stockRunning
  /\ pulling' = IF p \in Scheduled THEN FALSE ELSE pulling
  /\ UNCHANGED <<erp, tables, webhookTimer, hub, restarts>>

-----------------------------------------------------------------------------
\* A page of the feed; an empty one ends the loop.
ListPage(p) ==
  /\ At(p, "list")
  /\ \E rows \in Pages(pull[p].feed, pull[p].since, pull[p].page) :
       pull' = [pull EXCEPT ![p].at = IF rows = <<>> THEN "cursor" ELSE "row",
                            ![p].rows = rows, ![p].full = Len(rows) = PageSize]
  /\ UNCHANGED <<erp, tables, flags, hub, restarts>>

\* The ERP is unreachable or refuses: runEntity gives this entity up.
ListFails(p) ==
  /\ At(p, "list")
  /\ FeedOver(p)
  /\ UNCHANGED <<erp, tables, flags, hub, restarts>>

\* Page done: the next one after a full page, up to the safety cap.
PageOver(p) ==
  LET more == pull[p].full /\ pull[p].page + 1 <= MaxPages IN
  /\ At(p, "row") /\ pull[p].rows = <<>>
  /\ pull' = [pull EXCEPT ![p].at = IF more THEN "list" ELSE "cursor",
                          ![p].page = IF more THEN @ + 1 ELSE @]
  /\ UNCHANGED <<erp, tables, flags, hub, restarts>>

\* The next row: seen before, of no effect, or to be mirrored.
CheckRow(p) ==
  LET r == Row(p)
      ts == CreatedAt[r]
      skip == r \in idmap \cup CostOnly \cup Skipped IN
  /\ At(p, "row") /\ pull[p].rows # <<>>
  /\ pull' = [pull EXCEPT ![p].max = IF ts > @ THEN ts ELSE @,
                          ![p].rows = IF skip THEN Tail(@) ELSE @,
                          ![p].at = CASE skip -> "row"
                                      [] ~skip /\ r \in Movements -> "header"
                                      [] ~skip /\ r \in Receipts -> "line"]
  /\ UNCHANGED <<erp, tables, flags, hub, restarts>>

\* Mutant of SaveHeader: the header is upserted by its number.
SaveHeaderUpsert(p) ==
  /\ At(p, "header")
  /\ headers' = headers \cup {Row(p)}
  /\ Goto(p, "line")
  /\ UNCHANGED <<erp, cursor, idmap, mirrored, flags, hub, restarts>>

\* Mutant of SaveHeader: a movement with a header is taken for mirrored.
SaveHeaderSkips(p) ==
  /\ At(p, "header")
  /\ headers' = headers \cup {Row(p)}
  /\ IF Row(p) \in headers THEN RowOver(p) ELSE Goto(p, "line")
  /\ UNCHANGED <<erp, cursor, idmap, mirrored, flags, hub, restarts>>

\* Mutant of SaveHeader: the id-map entry is written with the header.
SaveHeaderMapped(p) ==
  /\ At(p, "header") /\ Row(p) \notin headers
  /\ headers' = headers \cup {Row(p)}
  /\ idmap' = idmap \cup {Row(p)}
  /\ Goto(p, "line")
  /\ UNCHANGED <<erp, cursor, mirrored, flags, hub, restarts>>

\* mirrorMovement saves the header; the voucher number is unique.
SaveHeader(p) ==
  /\ At(p, "header")
  /\ \/ /\ Row(p) \notin headers
        /\ headers' = headers \cup {Row(p)}
        /\ Goto(p, "line")
     \/ /\ Row(p) \in headers
        /\ FeedOver(p)
        /\ UNCHANGED headers
  /\ UNCHANGED <<erp, cursor, idmap, mirrored, flags, hub, restarts>>

\* Then the line, which references the item; for a receipt, the collection.
SaveLine(p) ==
  /\ At(p, "line")
  /\ \/ /\ Row(p) \notin UnknownSku
        /\ mirrored' = [mirrored EXCEPT ![Row(p)] = @ + 1]
        /\ Goto(p, "map")
     \/ /\ Row(p) \in UnknownSku
        /\ FeedOver(p)
        /\ UNCHANGED mirrored
  /\ UNCHANGED <<erp, cursor, idmap, headers, flags, hub, restarts>>

\* upsertIdMap finds the entry, then inserts or updates it: when another pull
\* inserted it in between, the unique index refuses.
SaveMap(p) ==
  /\ At(p, "map")
  /\ idmap' = idmap \cup {Row(p)}
  /\ RowOver(p) \/ (Row(p) \in idmap /\ FeedOver(p))
  /\ UNCHANGED <<erp, cursor, headers, mirrored, flags, hub, restarts>>

\* The loop is over: the largest created_at seen is the new cursor.
SaveCursor(p) ==
  /\ At(p, "cursor")
  /\ cursor' = [cursor EXCEPT ![pull[p].feed] = IF pull[p].max = 0 THEN @ ELSE pull[p].max]
  /\ FeedOver(p)
  /\ UNCHANGED <<erp, idmap, headers, mirrored, flags, hub, restarts>>

-----------------------------------------------------------------------------
\* HubWebhookService.receive stores the event; dedup_key is unique, so another
\* request with the same event is answered and changes nothing.
Receive(e) ==
  /\ IF event[e] = None
     THEN /\ event' = [event EXCEPT ![e] = "received"]
          /\ request' = [request EXCEPT ![e] = "stored"]
     ELSE UNCHANGED <<event, request>>
  /\ UNCHANGED <<erp, tables, flags, pull, restarts>>

\* onHubStockChanged: note the event and start the drain unless it runs.
StockChanged ==
  /\ stockPending' = stockRunning
  /\ stockRunning' = TRUE
  /\ pull' = IF stockRunning THEN pull
             ELSE [pull EXCEPT ![Drain] = [Idle EXCEPT !.at = "feed", !.todo = Stores]]

DispatchEvent(e) ==
  IF e \in StockEvents THEN StockChanged ELSE UNCHANGED <<stockPending, stockRunning, pull>>

Dispatch(e) ==
  /\ request[e] = "stored"
  /\ DispatchEvent(e)
  /\ request' = [request EXCEPT ![e] = "dispatched"]
  /\ UNCHANGED <<erp, tables, pulling, webhookTimer, event, restarts>>

Outcome(e) == IF e \in StockEvents THEN "processed" ELSE "ignored"

\* The outcome is recorded; when that fails, the row is marked as an error.
Record(e) ==
  /\ request[e] = "dispatched"
  /\ \E status \in {Outcome(e), "error"} : event' = [event EXCEPT ![e] = status]
  /\ request' = [request EXCEPT ![e] = "over"]
  /\ UNCHANGED <<erp, tables, flags, pull, restarts>>

\* reprocess from the dashboard: any stored event is dispatched again.
Reprocess(e) ==
  /\ event[e] # None
  /\ DispatchEvent(e)
  /\ \E status \in {Outcome(e), "error"} : event' = [event EXCEPT ![e] = status]
  /\ UNCHANGED <<erp, tables, pulling, webhookTimer, request, restarts>>

\* The process restarts: what was in memory is gone, the tables stay.
Restart ==
  /\ restarts < MaxRestarts
  /\ restarts' = restarts + 1
  /\ pulling' = FALSE /\ webhookTimer' = FALSE
  /\ stockPending' = FALSE /\ stockRunning' = FALSE
  /\ pull' = [p \in Pullers |-> Idle]
  /\ request' = [e \in Events |-> "over"]
  /\ UNCHANGED <<erp, tables, event>>

-----------------------------------------------------------------------------
Step(p) ==
  \/ ScheduledStart(p) \/ NextFeed(p) \/ PullOver(p)
  \/ ListPage(p) \/ PageOver(p) \/ CheckRow(p)
  \/ SaveHeader(p) \/ SaveLine(p) \/ SaveMap(p) \/ SaveCursor(p)

Next ==
  \/ \E r \in Rows : ErpCommits(r)
  \/ ErpWebhook
  \/ \E p \in Pullers : \/ Tick(p) \/ TimerFires(p) \/ ManualStart(p)
                          \/ ErpOff(p) \/ ListFails(p) \/ Step(p)
  \/ \E e \in Events : Receive(e) \/ Dispatch(e) \/ Record(e) \/ Reprocess(e)
  \/ Restart

Spec == Init /\ [][Next]_vars

\* A pull in flight goes on and the 5 min timer keeps firing.  Assumed of the world:
\* the ERP is on in the settings from some time on, and its outages come to an end.
FairSpec ==
  /\ Spec
  /\ \A p \in Pullers : WF_vars(Step(p))
  /\ WF_vars(\E p \in Scheduled : Tick(p))
  /\ <>[][~ \E p \in Pullers : ErpOff(p) \/ ListFails(p)]_vars

-----------------------------------------------------------------------------
Places == {"idle", "config", "feed", "list", "row", "header", "line", "map", "cursor"}

TypeOK ==
  /\ erp \subseteq Rows
  /\ cursor \in [Feeds -> 0..MaxTime]
  /\ idmap \subseteq Rows /\ headers \subseteq Movements
  /\ mirrored \in [Rows -> Nat]
  /\ pulling \in BOOLEAN /\ webhookTimer \in BOOLEAN
  /\ stockPending \in BOOLEAN /\ stockRunning \in BOOLEAN
  /\ pull \in [Pullers -> [at : Places, todo : SUBSET Feeds, feed : Feeds \cup {None},
                           since : 0..MaxTime, max : 0..MaxTime, page : 0..MaxPages,
                           rows : Seq(Rows), full : BOOLEAN]]
  /\ event \in [Events -> {None, "received", "processed", "ignored", "error"}]
  /\ request \in [Events -> {"stored", "dispatched", "over"}]
  /\ restarts \in 0..MaxRestarts

\* A movement of the ERP changes the stock of cash-van at most once, however
\* pulls overlap, fail and are cut off (mirrorMovement, unique voucher number).
MovementOnce == \A m \in Movements : mirrored[m] <= 1

\* A row marked as seen has had its effect: nothing is skipped without having
\* been mirrored (mirrorMovement, pullReceipts: the id-map comes last).
SeenIsMirrored == \A r \in idmap : mirrored[r] >= 1

\* The cursor never passes a row that is still to be mirrored: a feed given up
\* half way is listed again (pullMovementsForStore, pullReceipts).
CursorCovers ==
  \A r \in erp \ (CostOnly \cup Skipped) :
    CreatedAt[r] < cursor[FeedOf(r)] => r \in idmap

\* A stock event that arrived is being served: none is left pending with
\* nobody draining (onHubStockChanged, drainHubStockSync).
PendingIsServed == stockPending => ~At(Drain, "idle")

\* A header whose line or id-map entry nobody is going to write: the unique
\* voucher number makes every later pull of the store stop at it.
Orphans == {m \in headers \ idmap :
              \A p \in Pullers : At(p, "line") \/ At(p, "map") => Row(p) # m}

\* Every movement the ERP has committed is mirrored in the end, Hub events lost
\* or not, unless an orphaned header blocks its store (scheduledPull).
MovementsAreMirrored ==
  \A m \in Movements \ CostOnly :
    m \in erp ~> (m \in idmap \/ \E o \in Orphans : StoreOf[o] = StoreOf[m])

=============================================================================
