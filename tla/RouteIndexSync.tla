--------------------------- MODULE RouteIndexSync ---------------------------
(***************************************************************************)
(* One route's entry in the router index.  Public ingress asks RouterIndex *)
(* (src/router-index.ts) whether a route exists before it wakes the route  *)
(* object, so a route whose entry is missing is a 404 whoever is connected. *)
(*                                                                         *)
(* The entry is a copy of "the route has subscribers", written by calls of *)
(* one Durable Object to another: the route object's syncIndex() after     *)
(* most handlers (src/durable-object.ts), and the router Worker after      *)
(* register and deregister (src/management-http.ts) and when the dashboard *)
(* lists the routes (src/dashboard-http.ts).  A run is one such activity,  *)
(* from the handler to its last call; runs interleave between calls, and   *)
(* calls overtake each other.                                              *)
(*                                                                         *)
(* Of a subscriber only the row is kept: joins that wait for a digest,     *)
(* tokens and sockets are RouteSubscribers'.  An anonymous tunnel whose    *)
(* socket is closing, which getActiveSubscribers skips, counts as removed. *)
(***************************************************************************)
EXTENDS Naturals, Sequences, SequencesExt

CONSTANTS
  Publics,       \* subscribers with a public target
  Tunnels,       \* reverse tunnels
  Runs,          \* runs under way at once: joins, departures, requests
  AlarmRun,      \* the run of the alarm, which never overlaps itself
  MaxFailures    \* bound: calls to the index that fail

ASSUME SubsAssumption == Publics \cap Tunnels = {}
ASSUME RunsAssumption == AlarmRun \notin Runs
ASSUME FailuresAssumption == MaxFailures \in Nat

VARIABLES
  rows,       \* subscribers that have a row in the route object
  alarm,      \* the route object's alarm: "off", just "set", or "old", set a
              \* while ago: an old alarm fires unless a handler sets it anew
  run,        \* [run -> [pc: where it stands, next: what the Worker does then]]
  calls,      \* runs whose addRoute/removeRoute the object sent, oldest first
  indexed,    \* is the route in the index's table routes?
  failures,   \* calls that failed
  upset       \* history: since the rows were last counted, did a call fail or
              \* overtake another, or a late prune hit a route with subscribers?

vars == <<rows, alarm, run, calls, indexed, failures, upset>>

Subs == Publics \cup Tunnels
AllRuns == Runs \cup {AlarmRun}

\* "flushing" the connection log; "adding", "removing": the object's own call;
\* "readding": the Worker's addRoute after a registration; "checking": its
\* getActiveSubscribers call; "pruning": its removeRoute.
Pcs == {"idle", "flushing", "adding", "removing", "readding", "checking",
        "pruning"}
Nexts == {"nothing", "readding", "checking"}
Idle == [pc |-> "idle", next |-> "nothing"]

TypeOK ==
  /\ rows \subseteq Subs
  /\ alarm \in {"off", "set", "old"}
  /\ run \in [AllRuns -> [pc : Pcs, next : Nexts]]
  /\ calls \in Seq(AllRuns)
  /\ indexed \in BOOLEAN
  /\ failures \in 0..MaxFailures
  /\ upset \in BOOLEAN

-----------------------------------------------------------------------------
(* syncIndex *)

\* The call syncIndex makes for the rows R.
CallFor(R) == IF R = {} THEN "removing" ELSE "adding"

\* Its second half: count the rows, then tell the index.
Count(p, R, next) ==
  /\ run' = [run EXCEPT ![p] = [pc |-> CallFor(R), next |-> next]]
  /\ calls' = Append(calls, p)
  /\ upset' = FALSE

CountsBeforeFlush(p, queued, next) ==                              \* mutant
  Count(p, rows, next)

\* Its first half waits for the connection log, if the handler queued events.
SyncIndex(p, queued, next) ==
  IF queued
  THEN /\ run' = [run EXCEPT ![p] = [pc |-> "flushing", next |-> next]]
       /\ UNCHANGED <<calls, upset>>
  ELSE Count(p, rows', next)

\* scheduleCleanup: the alarm is set for the earliest expiry (sooner, if there
\* are tunnels) of the rows R, also when that puts a set alarm off.
Scheduled(R) == IF R = {} THEN "off" ELSE "set"

\* The index stored the events.
Flushed(p) ==
  /\ run[p].pc = "flushing"
  /\ Count(p, rows, run[p].next)
  /\ UNCHANGED <<rows, alarm, indexed, failures>>

\* addRoute or removeRoute takes effect and answers; the Worker goes on.
IndexAnswers(p) ==
  /\ run[p].pc \in {"adding", "removing"}
  /\ \E i \in 1..Len(calls) : /\ calls[i] = p
                              /\ calls' = RemoveAt(calls, i)
                              /\ upset' = (upset \/ i # 1)
  /\ indexed' = (run[p].pc = "adding")
  /\ run' = [run EXCEPT ![p] =
       [pc |-> IF @.next = "nothing" THEN "idle" ELSE @.next,
        next |-> "nothing"]]
  /\ UNCHANGED <<rows, alarm, failures>>

\* What the index holds once p's call has taken effect.
Effect(p) ==
  CASE run[p].pc \in {"adding", "readding"} -> TRUE
    [] run[p].pc \in {"removing", "pruning"} -> FALSE
    [] OTHER -> indexed

\* A call to the index fails, before it took effect or after: the handler
\* throws, and so does the Worker's call to it.
CallFails(p) ==
  /\ failures < MaxFailures
  /\ run[p].pc \notin {"idle", "checking"}
  /\ failures' = failures + 1
  /\ run' = [run EXCEPT ![p] = Idle]
  /\ IF run[p].pc \in {"adding", "removing"}
     THEN \E i \in 1..Len(calls) : calls[i] = p /\ calls' = RemoveAt(calls, i)
     ELSE UNCHANGED calls
  /\ indexed' \in {indexed, Effect(p)}
  /\ upset' = TRUE
  /\ UNCHANGED <<rows, alarm>>

-----------------------------------------------------------------------------
(* Handlers of the route object.  gone: the rows that purgeExpired removes. *)

\* A tunnel upgrade: a new row, or an old one reclaimed.  No alarm is set.
JoinTunnel(p, s, gone) ==
  /\ run[p].pc = "idle"
  /\ rows' = (rows \ gone) \cup {s}
  /\ SyncIndex(p, TRUE, "nothing")
  /\ UNCHANGED <<alarm, indexed, failures>>

\* A registration; the Worker adds the route once more when it returns.
Register(p, s, gone) ==
  /\ run[p].pc = "idle"
  /\ rows' = (rows \ gone) \cup {s}
  /\ alarm' = Scheduled(rows')
  /\ SyncIndex(p, TRUE, "readding")
  /\ UNCHANGED <<indexed, failures>>

\* DELETE of a subscriber, absent ones included; the Worker then asks for the
\* active ones and removes the route if there are none.
Deregister(p, s, gone) ==
  /\ run[p].pc = "idle"
  /\ rows' = rows \ (gone \cup {s})
  /\ alarm' = Scheduled(rows')
  /\ SyncIndex(p, rows' # rows, "checking")
  /\ UNCHANGED <<indexed, failures>>

\* A tunnel's socket closes: an anonymous row goes (if it is still there) ...
DetachAnonymous(p, s) ==
  /\ run[p].pc = "idle"
  /\ rows' = rows \ {s}
  /\ SyncIndex(p, rows' # rows, "nothing")
  /\ UNCHANGED <<alarm, indexed, failures>>

\* ... and one with an environment id is parked.
Park(p, s) ==
  /\ run[p].pc = "idle"
  /\ s \in rows
  /\ alarm' = Scheduled(rows)
  /\ UNCHANGED rows
  /\ SyncIndex(p, TRUE, "nothing")
  /\ UNCHANGED <<indexed, failures>>

\* The heartbeat of a target that still has its row: it puts the alarm off and
\* flushes the log, but does not sync the index.
Heartbeat(gone) ==
  /\ rows' = rows \ gone
  /\ rows' # {}
  /\ alarm' = Scheduled(rows')
  /\ UNCHANGED <<run, calls, indexed, failures, upset>>

\* Handlers that purge and neither sync the index nor touch the alarm:
\* ingress, bindOAuthState and the heartbeat of an id that has no row.
Purge(gone) ==
  /\ gone # {}
  /\ rows' = rows \ gone
  /\ UNCHANGED <<run, alarm, calls, indexed, failures, upset>>

\* Time passes.
AlarmAges ==
  /\ alarm = "set"
  /\ alarm' = "old"
  /\ UNCHANGED <<rows, run, calls, indexed, failures, upset>>

SyncsWhatItPurged(gone) ==                                         \* mutant
  /\ alarm = "old"
  /\ run[AlarmRun].pc = "idle"
  /\ rows' = rows \ gone
  /\ alarm' = Scheduled(rows')
  /\ IF gone # {} THEN SyncIndex(AlarmRun, TRUE, "nothing")
                  ELSE UNCHANGED <<run, calls, upset>>
  /\ UNCHANGED <<indexed, failures>>

Alarm(gone) ==
  /\ alarm = "old"
  /\ run[AlarmRun].pc = "idle"
  /\ rows' = rows \ gone
  /\ alarm' = Scheduled(rows')
  /\ SyncIndex(AlarmRun, gone # {}, "nothing")
  /\ UNCHANGED <<indexed, failures>>

-----------------------------------------------------------------------------
(* The router Worker *)

\* addRoute after register.
ReAdd(p) ==
  /\ run[p].pc = "readding"
  /\ indexed' = TRUE
  /\ run' = [run EXCEPT ![p] = Idle]
  /\ UNCHANGED <<rows, alarm, calls, failures, upset>>

SkipsEmpty(p, gone) ==                                             \* mutant
  /\ run[p].pc = "checking"
  /\ rows' = rows \ gone
  /\ run' = [run EXCEPT ![p] = Idle]
  /\ UNCHANGED <<alarm, calls, indexed, failures, upset>>

\* getActiveSubscribers, which purges: are there any?
Check(p, gone) ==
  /\ run[p].pc = "checking"
  /\ rows' = rows \ gone
  /\ run' = [run EXCEPT ![p] =
       [pc |-> IF rows' = {} THEN "pruning" ELSE "idle", next |-> "nothing"]]
  /\ UNCHANGED <<alarm, calls, indexed, failures, upset>>

\* removeRoute after deregister or for the dashboard.
Prune(p) ==
  /\ run[p].pc = "pruning"
  /\ indexed' = FALSE
  /\ upset' = (upset \/ rows # {})
  /\ run' = [run EXCEPT ![p] = Idle]
  /\ UNCHANGED <<rows, alarm, calls, failures>>

\* The dashboard lists the indexed routes and asks each for its subscribers.
LoadDashboard(p) ==
  /\ run[p].pc = "idle"
  /\ indexed
  /\ run' = [run EXCEPT ![p] = [pc |-> "checking", next |-> "nothing"]]
  /\ UNCHANGED <<rows, alarm, calls, indexed, failures, upset>>

-----------------------------------------------------------------------------

Init ==
  /\ rows = {} /\ alarm = "off"
  /\ run = [p \in AllRuns |-> Idle]
  /\ calls = <<>>
  /\ indexed = FALSE
  /\ failures = 0 /\ upset = FALSE

Next ==
  \/ \E p \in AllRuns : Flushed(p) \/ IndexAnswers(p) \/ CallFails(p)
  \/ \E p \in Runs : \E gone \in SUBSET rows :
       \/ \E s \in Tunnels : JoinTunnel(p, s, gone)
       \/ \E s \in Publics : Register(p, s, gone)
       \/ \E s \in Subs : Deregister(p, s, gone)
       \/ Check(p, gone)
  \/ \E p \in Runs, s \in Tunnels : DetachAnonymous(p, s) \/ Park(p, s)
  \/ \E p \in Runs : ReAdd(p) \/ Prune(p) \/ LoadDashboard(p)
  \/ \E gone \in SUBSET rows : Alarm(gone) \/ Heartbeat(gone) \/ Purge(gone)
  \/ AlarmAges

AlarmFires == \E gone \in SUBSET rows : Alarm(gone)

Spec == Init /\ [][Next]_vars

\* Calls are answered, and an alarm that no handler sets anew for ever fires.
\* Handlers run when others call them; heartbeats may put the alarm off for ever.
Fairness ==
  /\ \A p \in AllRuns : WF_vars(Flushed(p)) /\ WF_vars(IndexAnswers(p))
  /\ \A p \in Runs : /\ WF_vars(ReAdd(p)) /\ WF_vars(Prune(p))
                     /\ WF_vars(\E gone \in SUBSET rows : Check(p, gone))
  /\ WF_vars(AlarmAges) /\ WF_vars(AlarmFires)

FairSpec == Spec /\ Fairness

-----------------------------------------------------------------------------
(* Properties *)

\* syncIndex counts after its await, so when every run has ended a route with
\* subscribers is indexed, however the two halves of concurrent runs
\* interleaved: the last call carries a count that is not stale.  Only a call
\* that failed or overtook another, or a prune from outside that came too late,
\* can leave it out, and then until the rows are next counted.
QuietRouteIsIndexed ==
  (\A p \in AllRuns : run[p].pc = "idle") /\ ~upset /\ rows # {} => indexed

\* If the alarm keeps firing, a route whose subscriber stays is indexed in the
\* end, whatever late prune, overtaken call or failed call took the entry away:
\* each alarm counts the rows again, also when it purged none.
AlarmRepairsIndex ==
  \A s \in Subs : <>[](s \in rows) /\ []<><<AlarmFires>>_vars => <>[]indexed

\* A route that stays without subscribers is not indexed in the end, though a
\* late addRoute of the Worker or of the object may have put it back after the
\* last removal: it is listed on the dashboard, which asks and removes it.
EmptyRouteIsPruned ==
  <>[](rows = {}) /\ WF_vars(\E p \in Runs : LoadDashboard(p)) => <>[]~indexed

\* "A live subscriber receives the stripped path"
\* (src/skills/forwarding/SKILL.md:171): a route whose subscriber stays is
\* indexed in the end, certainly if no two calls of the object overlap, so that
\* none can overtake another.
LiveRouteIsIndexed ==
  [](Len(calls) < 2) => \A s \in Subs : <>[](s \in rows) => <>[]indexed
=============================================================================
