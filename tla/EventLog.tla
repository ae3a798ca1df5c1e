------------------------------ MODULE EventLog ------------------------------
(***************************************************************************)
(* The connection log: from the queue in a route object's memory           *)
(* (src/durable-object.ts: queueConnectionLog, flushConnectionLog) over    *)
(* the calls under way to the table of the router index                    *)
(* (src/connection-log-storage.ts), which is cut by age and by number.     *)
(* The Worker's own calls, of a refused join or of a public request, have  *)
(* no queue; the inbound log (src/inbound-log-storage.ts) is the same      *)
(* table with only such calls.                                             *)
(*                                                                         *)
(* An event is known by its id.  Ids are random, so whichever is unused    *)
(* may come next; the table orders rows of one moment by them.  The events *)
(* of one call are stamped alike, at its arrival: a batch is a set.        *)
(***************************************************************************)
EXTENDS Naturals, FiniteSets

CONSTANTS
  Events,       \* ids, as the numbers SQLite compares
  Cap,          \* CONNECTION_LOG_MAX_EVENTS, INBOUND_LOG_MAX_EVENTS
  Retention,    \* CONNECTION_LOG_RETENTION_MS, INBOUND_LOG_RETENTION_MS
  MaxTime       \* bound: the clock stops here

ASSUME EventsAssumption == Events \subseteq Nat /\ IsFiniteSet(Events)
ASSUME CapAssumption == Cap \in Nat \ {0}
ASSUME TimeAssumption == Retention \in Nat /\ MaxTime \in Nat

VARIABLES
  clock,      \* Date.now() in the index
  queue,      \* pendingConnectionLog
  calls,      \* recordConnectionEvents and recordInboundEvents under way
  table,      \* connection_events or inbound_events: [id, at]
  logged,     \* history: ids of the events there were
  arrived,    \* history: every row there was
  lost        \* history: ids that went with a failed call or an eviction

logVars == <<clock, queue, calls, table, logged, arrived, lost>>

Rows == [id : Events, at : Nat]

LogTypeOK ==
  /\ clock \in 0..MaxTime
  /\ queue \subseteq Events /\ logged \subseteq Events /\ lost \subseteq Events
  /\ calls \subseteq SUBSET Events
  /\ table \subseteq Rows /\ arrived \subseteq Rows

-----------------------------------------------------------------------------
(* The table *)

\* ORDER BY occurred_at DESC, id DESC: is q before r?
Newer(q, r) == q.at > r.at \/ (q.at = r.at /\ q.id > r.id)

NewerIn(T, r) == {q \in T : Newer(q, r)}

\* DELETE ... WHERE occurred_at < now - RETENTION
Fresh(r, now) == r.at + Retention >= now
Unexpired(T, now) == {r \in T : Fresh(r, now)}

\* The first n rows of a listing.
Newest(T, n) == {r \in T : Cardinality(NewerIn(T, r)) < n}

TrimsNewest(T, now) ==                                             \* mutant
  {r \in Unexpired(T, now) :
     Cardinality({q \in Unexpired(T, now) : Newer(r, q)}) < Cap}

\* By age, then by number, oldest first.
PurgeEvents(T, now) == Newest(Unexpired(T, now), Cap)

Stamped(batch) == [id : batch, at : {clock}]

Insert(batch) ==
  /\ table' = PurgeEvents(table \cup Stamped(batch), clock)
  /\ arrived' = arrived \cup Stamped(batch)

-----------------------------------------------------------------------------
(* The route object and the Worker *)

Unused == Events \ logged

\* A handler queues an event of a row it creates, takes or removes.
QueueEvent(e) ==
  /\ e \in Unused
  /\ queue' = queue \cup {e}
  /\ logged' = logged \cup {e}
  /\ UNCHANGED <<clock, calls, table, arrived, lost>>

SendsACopy ==                                                      \* mutant
  /\ queue # {}
  /\ calls' = calls \cup {queue}
  /\ UNCHANGED <<clock, queue, table, logged, arrived, lost>>

\* splice(0), and only then the call: an event that another handler queues
\* during the call waits for the next flush.
Flush ==
  /\ queue # {}
  /\ calls' = calls \cup {queue}
  /\ queue' = {}
  /\ UNCHANGED <<clock, table, logged, arrived, lost>>

\* recordRejectedJoin, recordPublicInboundLog: one event, no queue.
RecordDirectly(e) ==
  /\ e \in Unused
  /\ calls' = calls \cup {{e}}
  /\ logged' = logged \cup {e}
  /\ UNCHANGED <<clock, queue, table, arrived, lost>>

-----------------------------------------------------------------------------
(* The index *)

\* Calls of different handlers may overtake each other.
RecordEvents(batch) ==
  /\ batch \in calls
  /\ calls' = calls \ {batch}
  /\ Insert(batch)
  /\ UNCHANGED <<clock, queue, logged, lost>>

\* Math.max(1, Math.min(limit, MAX_EVENTS))
PageSize(limit) == IF limit < 1 THEN 1 ELSE IF limit > Cap THEN Cap ELSE limit

\* SELECT ... WHERE occurred_at >= now - RETENTION ORDER BY ... LIMIT
Page(T, limit) == Newest(Unexpired(T, clock), PageSize(limit))

\* listConnectionEvents, listInboundEvents: the purge is all they change.
ListEvents ==
  /\ table' = PurgeEvents(table, clock)
  /\ UNCHANGED <<clock, queue, calls, logged, arrived, lost>>

-----------------------------------------------------------------------------
(* Failures and time *)

\* The call throws in the handler, which does not queue its events again.  One
\* that throws after its insert leaves what RecordEvents does: a handler looks at
\* nothing of the log after the call.
RecordFails(batch) ==
  /\ batch \in calls
  /\ calls' = calls \ {batch}
  /\ lost' = lost \cup batch
  /\ UNCHANGED <<clock, queue, table, logged, arrived>>

\* The route object is evicted: its memory is gone, its calls are on their way.
Evict ==
  /\ queue # {}
  /\ queue' = {}
  /\ lost' = lost \cup queue
  /\ UNCHANGED <<clock, calls, table, logged, arrived>>

Tick ==
  /\ clock < MaxTime
  /\ clock' = clock + 1
  /\ UNCHANGED <<queue, calls, table, logged, arrived, lost>>

-----------------------------------------------------------------------------

LogInit ==
  /\ clock = 0
  /\ queue = {} /\ calls = {} /\ table = {}
  /\ logged = {} /\ arrived = {} /\ lost = {}

LogNext ==
  \/ \E e \in Events : QueueEvent(e) \/ RecordDirectly(e)
  \/ Flush
  \/ \E batch \in calls : RecordEvents(batch) \/ RecordFails(batch)
  \/ ListEvents
  \/ Evict
  \/ Tick

LogSpec == LogInit /\ [][LogNext]_logVars

-----------------------------------------------------------------------------
(* Properties *)

\* "kept for 90 days (capped at 2,000 events)" (README.md:230).  A listing
\* of the log is the listing of all there ever was, in whatever order calls,
\* earlier listings and time went by: no purge removes a row that a page could
\* still show, none is shown beyond its time, and the table keeps to its cap.
ListsTheNewest ==
  /\ \A limit \in 0..(Cap + 1) : Page(table, limit) = Page(arrived, limit)
  /\ Cardinality(table) <= Cap

Arrived == {r.id : r \in arrived}
UnderWay == UNION calls

\* An event is in one place: queued, in one call, in the index or lost with
\* a call that failed or an object that was evicted.  So none is dropped
\* when it is queued during another handler's call, and none is written twice.
EachEventOnce ==
  /\ logged = queue \cup UnderWay \cup Arrived \cup lost
  /\ queue \cap (UnderWay \cup Arrived \cup lost) = {}
  /\ UnderWay \cap (Arrived \cup lost) = {}
  /\ Arrived \cap lost = {}
  /\ \A b, c \in calls : b # c => b \cap c = {}
  /\ \A r, q \in arrived : r.id = q.id => r = q
=============================================================================
