--------------------------- MODULE SidecarTunnel ---------------------------
(***************************************************************************)
(* A reverse-tunnel sidecar (src/src/tunnel-client.ts, TunnelConnection)   *)
(* and the route object at the other end of its sockets.  runLoop opens a  *)
(* socket, waits for the server's hello, serves until the socket closes,   *)
(* and starts again; disconnect() closes the socket, deregisters, and      *)
(* aborts what is left.                                                    *)
(*                                                                         *)
(* The two ends of a socket learn of its closing one after the other, and  *)
(* a broken link tells neither.  The route object is here what a sidecar   *)
(* sees of RouteSubscribers: a join sweeps the silent sockets, then takes  *)
(* the row of its environment if no socket holds it or the token proves    *)
(* it.  A row and a token are named after the socket whose join wrote      *)
(* them.  A join is one step here; RouteSubscribers takes it apart.        *)
(***************************************************************************)
EXTENDS Naturals, FiniteSets

CONSTANTS
  Identified,    \* the sidecar has an environment id
  Sockets,       \* names of sockets, reused when both ends are done
  None,          \* no socket, no token
  MaxFailures,   \* bound: broken links, refusals, closes by the server
  MaxCrashes     \* bound: restarts of the process

ASSUME TunnelAssumption ==
  /\ Identified \in BOOLEAN
  /\ IsFiniteSet(Sockets) /\ None \notin Sockets
  /\ MaxFailures \in Nat /\ MaxCrashes \in Nat

VARIABLES
  loop,      \* where runLoop is
  cur,       \* the socket of the current openAndServe
  socket,    \* this.socket
  serving,   \* this.serving
  state,     \* connectionState
  tok,       \* connectionToken, set together with subscriberId
  ready,     \* the ready promise: "pending", "resolved", "failed"
  disc,      \* where disconnect() is: "no", "closing", "deleting", "done"
  bye,       \* the socket disconnect() is closing
  cli,       \* readyState of each socket at the sidecar
  srv,       \* and at the route object
  hello,     \* sockets whose hello is on the way
  broken,    \* sockets whose link is dead, unknown to both ends
  silent,    \* sockets whose last ping is older than TUNNEL_STALE_MS
  lapsed,    \* sockets whose row is past its TTL
  row,       \* the token of the environment's row
  failures, crashes

loopVars == <<loop, cur, socket, serving, state, tok, ready>>
discVars == <<disc, bye>>
netVars == <<cli, srv, hello, broken>>
srvVars == <<silent, lapsed, row>>
bounds == <<failures, crashes>>
vars == <<loopVars, discVars, netVars, srvVars, bounds>>

Held == {s \in Sockets : srv[s] = "open"}

(***************************************************************************)
(* connectionState and the ready promise.                                  *)
(***************************************************************************)
(* Mutant: connectionState takes the reason as it is. *)
RawFailure(reason) == reason

Failure(reason) ==
  IF disc # "no" THEN "disconnected"
  ELSE IF "unauthorized" \in {state, reason} THEN "unauthorized"
  ELSE "network_error"

Settle(outcome) == ready' = IF ready = "pending" THEN outcome ELSE ready

(* The catch of runLoop: back off, or end if disconnected meanwhile. *)
Fails(reason) ==
  /\ state' = Failure(reason)
  /\ cur' = None
  /\ IF disc = "no"
       THEN loop' = "sleeping" /\ UNCHANGED ready
       ELSE loop' = "ended" /\ Settle("failed")

(***************************************************************************)
(* The sidecar's loop.                                                     *)
(***************************************************************************)
Done(s) ==
  /\ cli[s] = "closed" /\ srv[s] = "closed"
  /\ s \notin {cur, socket, tok, row, bye}

Attempt ==
  /\ loop \in {"new", "again"} /\ disc = "no"
  /\ \E s \in Sockets : Done(s)
  /\ LET s == CHOOSE t \in Sockets : Done(t) IN
       /\ cli' = [cli EXCEPT ![s] = "connecting"]
       /\ srv' = [srv EXCEPT ![s] = "none"]
       /\ broken' = broken \ {s} /\ hello' = hello \ {s}
       /\ cur' = s /\ socket' = s
  /\ loop' = "opening"
  /\ UNCHANGED <<serving, state, tok, ready, discVars, srvVars, bounds>>

SleepEnds ==
  /\ loop = "sleeping"
  /\ loop' = IF disc = "no" THEN "again" ELSE "ended"
  /\ UNCHANGED <<cur, socket, serving, state, tok, ready, discVars, netVars, srvVars, bounds>>

(* The upgrade succeeds.  A hello in the same segment as the response is   *)
(* emitted before waitForHello has put its listener on.                    *)
Opens(s) ==
  /\ loop = "opening" /\ cur = s /\ cli[s] = "connecting" /\ srv[s] = "open" /\ s \notin broken
  /\ cli' = [cli EXCEPT ![s] = "open"]
  /\ loop' = "hello"
  /\ \/ UNCHANGED <<hello, failures>>
     \/ failures < MaxFailures /\ failures' = failures + 1 /\ hello' = hello \ {s}
  /\ UNCHANGED <<cur, socket, serving, state, tok, ready, discVars, srv, broken, srvVars, crashes>>

(* Mutant: waitForHello leaves its listener on the socket it gave up. *)
ListensForever(s) == loop = "hello" /\ cli[s] = "open"

Listens(s) == loop = "hello" /\ cur = s

(* A socket that is closing still delivers what arrives. *)
HelloArrives(s) ==
  /\ s \in hello \ broken /\ cli[s] \in {"open", "closing"}
  /\ hello' = hello \ {s}
  /\ IF Listens(s)
       THEN /\ tok' = s
            /\ loop' = "serving" /\ serving' = TRUE /\ state' = "connected"
            /\ Settle("resolved")
       ELSE UNCHANGED <<tok, loop, serving, state, ready>>
  /\ UNCHANGED <<cur, socket, discVars, cli, srv, broken, srvVars, bounds>>

(* Mutant: waitForHello has no timer. *)
NoTimer == FALSE /\ UNCHANGED vars

(* The hello timer rejects; the socket stays as it is.  Fires early only   *)
(* when the hello is late, which is a failure.                             *)
HelloTimeout ==
  /\ loop = "hello"
  /\ Fails("timeout")
  /\ IF cur \in hello \ broken
       THEN failures < MaxFailures /\ failures' = failures + 1
       ELSE UNCHANGED failures
  /\ UNCHANGED <<socket, serving, tok, discVars, netVars, srvVars, crashes>>

(* Mutant: the end of serve leaves connectionState as it is. *)
KeepsReason == state

(* connectionState once serve has returned. *)
AfterServe == IF disc = "no" THEN "connecting" ELSE state

(* The loop learns that its socket is closed: in waitForOpen, waitForHello *)
(* or serve, which resolves on a close and rejects on an error.            *)
SocketGone ==
  /\ cur # None /\ cli[cur] = "closed"
  /\ loop \in {"opening", "hello", "serving"}
  /\ IF loop # "serving"
       THEN Fails("closed") /\ UNCHANGED <<socket, serving>>
       ELSE /\ serving' = FALSE
            /\ socket' = IF socket = cur THEN None ELSE socket
            /\ \/ Fails("error")
               \/ /\ state' = AfterServe
                  /\ cur' = None
                  /\ loop' = IF disc = "no" THEN "again" ELSE "ended"
                  /\ UNCHANGED ready
  /\ UNCHANGED <<tok, discVars, netVars, srvVars, bounds>>

(* No pong for TUNNEL_PONG_DEADLINE_MS: the ping timer, armed by serving,  *)
(* terminates the socket.                                                  *)
PongMissing ==
  /\ loop = "serving" /\ cli[cur] = "open"
  /\ cur \in broken
  /\ cli' = [cli EXCEPT ![cur] = "closed"]
  /\ UNCHANGED <<loopVars, discVars, srv, hello, broken, srvVars, bounds>>

(***************************************************************************)
(* disconnect().                                                           *)
(***************************************************************************)
(* closed.abort(): every wait of the loop rejects but serving. *)
AbortsLoop ==
  IF loop \in {"opening", "hello", "sleeping", "again"}
    THEN loop' = "ended" /\ cur' = None
    ELSE UNCHANGED <<loop, cur>>

(* After the socket: deregister if there is a subscriber, else abort. *)
Deregisters == disc' = "deleting" /\ UNCHANGED <<loop, cur, ready>>
Aborts == disc' = "done" /\ AbortsLoop /\ Settle("failed")
AfterClose == IF tok # None THEN Deregisters ELSE Aborts

(* Mutant: only an open socket is closed, a connecting one is left. *)
LeavesConnecting ==
  /\ loop \notin {"new", "again"} /\ disc = "no"
  /\ serving' = FALSE /\ state' = "disconnected" /\ socket' = None
  /\ IF socket # None /\ cli[socket] = "open"
       THEN /\ cli' = [cli EXCEPT ![socket] = "closing"]
            /\ bye' = socket /\ disc' = "closing"
            /\ UNCHANGED <<loop, cur, ready>>
       ELSE AfterClose /\ UNCHANGED <<cli, bye>>
  /\ UNCHANGED <<tok, srv, hello, broken, srvVars, bounds>>

(* Between serve's end and the next socket the loop does not yield. *)
Disconnect ==
  /\ loop \notin {"new", "again"} /\ disc = "no"
  /\ serving' = FALSE /\ state' = "disconnected" /\ socket' = None
  /\ IF socket # None /\ cli[socket] = "open"
       THEN /\ cli' = [cli EXCEPT ![socket] = "closing"]
            /\ bye' = socket /\ disc' = "closing"
            /\ UNCHANGED <<loop, cur, ready>>
       ELSE /\ cli' = IF socket = None THEN cli ELSE [cli EXCEPT ![socket] = "closed"]
            /\ AfterClose
            /\ UNCHANGED bye
  /\ UNCHANGED <<tok, srv, hello, broken, srvVars, bounds>>

Closed ==
  /\ disc = "closing" /\ cli[bye] = "closed"
  /\ bye' = None
  /\ AfterClose
  /\ UNCHANGED <<socket, serving, state, tok, netVars, srvVars, bounds>>

(* Mutant: closeSocket waits for the close event only. *)
WaitsForClose ==
  /\ disc = "closing" /\ cli[bye] = "closing"
  /\ bye \notin broken
  /\ cli' = [cli EXCEPT ![bye] = "closed"]
  /\ UNCHANGED <<loopVars, discVars, srv, hello, broken, srvVars, bounds>>

(* closeSocket gives up after DEREGISTER_TIMEOUT_MS and terminates. *)
CloseTimeout ==
  /\ disc = "closing" /\ cli[bye] = "closing"
  /\ cli' = [cli EXCEPT ![bye] = "closed"]
  /\ UNCHANGED <<loopVars, discVars, srv, hello, broken, srvVars, bounds>>

(* The DELETE closes the subscriber's sockets and removes the row, if the  *)
(* token is the row's; or it is refused, lost, or given up.                *)
Owned == IF Identified THEN Held ELSE Held \cap {tok}
Deregister ==
  /\ disc = "deleting"
  /\ \/ /\ IF Identified THEN row = tok ELSE srv[tok] = "open"
        /\ srv' = [s \in Sockets |-> IF s \in Owned THEN "closed" ELSE srv[s]]
        /\ row' = None
        /\ silent' = silent \ Owned /\ lapsed' = lapsed \ Owned
     \/ UNCHANGED <<srv, row, silent, lapsed>>
  /\ Aborts
  /\ UNCHANGED <<bye, socket, serving, state, tok, cli, hello, broken, bounds>>


(***************************************************************************)
(* The route object: joins, closes and sweeps.                             *)
(***************************************************************************)
(* A purge closes the silent sockets, but for those whose row has lapsed   *)
(* too: it extends these.                                                  *)
Swept == silent \ lapsed
Holders == Held \ Swept

SrvCloses(S) ==
  /\ srv' = [s \in Sockets |-> IF s \in S THEN "closed" ELSE srv[s]]
  /\ silent' = silent \ S /\ lapsed' = lapsed \ S

ProofMatches == tok = row
InUse == Identified /\ Holders # {} /\ ~ProofMatches

Join(s) ==
  /\ loop = "opening" /\ cur = s /\ srv[s] = "none" /\ cli[s] = "connecting" /\ s \notin broken
  /\ LET replaced == IF Identified /\ ~InUse THEN Held ELSE Swept IN
       /\ silent' = silent \ replaced /\ lapsed' = {}
       /\ srv' = [t \in Sockets |-> IF t = s THEN (IF InUse THEN "refused" ELSE "open")
                                    ELSE IF t \in replaced THEN "closed" ELSE srv[t]]
  /\ row' = IF Identified /\ ~InUse THEN s ELSE row
  /\ hello' = IF InUse THEN hello ELSE hello \cup {s}
  /\ UNCHANGED <<loopVars, discVars, cli, broken, bounds>>

(* The credential is refused: 401. *)
Unauthorized(s) ==
  /\ failures < MaxFailures /\ failures' = failures + 1
  /\ loop = "opening" /\ cur = s /\ srv[s] = "none"
  /\ srv' = [srv EXCEPT ![s] = "unauthorized"]
  /\ UNCHANGED <<loopVars, discVars, cli, hello, broken, srvVars, crashes>>

(* unexpected-response: note the status and terminate. *)
Refused ==
  /\ loop = "opening" /\ srv[cur] \in {"refused", "unauthorized"} /\ cur \notin broken
  /\ cli' = [cli EXCEPT ![cur] = "closed"]
  /\ srv' = [srv EXCEPT ![cur] = "closed"]
  /\ Fails(srv[cur])
  /\ UNCHANGED <<socket, serving, tok, discVars, hello, broken, srvVars, bounds>>

Purge ==
  /\ silent # {}
  /\ srv' = [s \in Sockets |-> IF s \in Swept THEN "closed" ELSE srv[s]]
  /\ silent' = silent \ Swept /\ lapsed' = {}
  /\ UNCHANGED <<loopVars, discVars, cli, hello, broken, row, bounds>>

ParkExpires ==
  /\ row # None /\ Held = {}
  /\ row' = None
  /\ UNCHANGED <<loopVars, discVars, netVars, silent, lapsed, bounds>>

ServerSeesClose(s) ==
  /\ srv[s] \in {"none", "refused", "unauthorized", "open"}
  /\ cli[s] \in {"closing", "closed"} /\ s \notin broken
  /\ SrvCloses({s})
  /\ UNCHANGED <<loopVars, discVars, cli, hello, broken, row, bounds>>

ClientSeesClose(s) ==
  /\ srv[s] = "closed" /\ cli[s] \in {"connecting", "open", "closing"} /\ s \notin broken
  /\ cli' = [cli EXCEPT ![s] = "closed"]
  /\ UNCHANGED <<loopVars, discVars, srv, hello, broken, srvVars, bounds>>

(***************************************************************************)
(* Time, the network, the process.                                         *)
(***************************************************************************)
Pings(s) == cur = s /\ s \notin broken /\ cli[s] \in {"connecting", "open"}

Silence(s) ==
  /\ srv[s] = "open" /\ s \notin silent /\ ~Pings(s)
  /\ silent' = silent \cup {s}
  /\ UNCHANGED <<loopVars, discVars, netVars, lapsed, row, bounds>>

(* Between two retries, at most CONNECTION_RETRY_MAX_DELAY_MS apart, no     *)
(* row lapses that the first of them saw: the TTL is longer.               *)
Retrying == loop \in {"again", "opening", "hello", "sleeping"} /\ cur \notin broken

RowLapses(s) ==
  /\ s \in silent \ lapsed /\ ~Retrying
  /\ lapsed' = lapsed \cup {s}
  /\ UNCHANGED <<loopVars, discVars, netVars, silent, row, bounds>>

Breaks(s) ==
  /\ failures < MaxFailures /\ failures' = failures + 1
  /\ s \notin broken /\ cli[s] # "closed"
  /\ broken' = broken \cup {s}
  /\ UNCHANGED <<loopVars, discVars, cli, srv, hello, srvVars, crashes>>

(* A socket that cannot connect fails; a dead end that never joined is     *)
(* forgotten by the server.                                                *)
ConnectFails(s) ==
  /\ s \in broken /\ cli[s] = "connecting"
  /\ cli' = [cli EXCEPT ![s] = "closed"]
  /\ UNCHANGED <<loopVars, discVars, srv, hello, broken, srvVars, bounds>>

ServerForgets(s) ==
  /\ s \in broken /\ srv[s] \in {"none", "refused", "unauthorized"} /\ cli[s] = "closed"
  /\ SrvCloses({s})
  /\ UNCHANGED <<loopVars, discVars, cli, hello, broken, row, bounds>>

ServerCloses(s) ==
  /\ failures < MaxFailures /\ failures' = failures + 1
  /\ srv[s] = "open"
  /\ SrvCloses({s})
  /\ UNCHANGED <<loopVars, discVars, cli, hello, broken, row, crashes>>

(* A new process of the same environment: no token, every socket closed. *)
Restart ==
  /\ crashes < MaxCrashes /\ crashes' = crashes + 1
  /\ loop \notin {"new", "again"}
  /\ loop' = "new" /\ cur' = None /\ socket' = None /\ serving' = FALSE
  /\ state' = "connecting" /\ tok' = None /\ ready' = "pending"
  /\ disc' = "no" /\ bye' = None
  /\ cli' = [s \in Sockets |-> "closed"]
  /\ UNCHANGED <<srv, hello, broken, srvVars, failures>>

Init ==
  /\ loop = "new" /\ cur = None /\ socket = None /\ serving = FALSE
  /\ state = "connecting" /\ tok = None /\ ready = "pending"
  /\ disc = "no" /\ bye = None
  /\ cli = [s \in Sockets |-> "closed"] /\ srv = [s \in Sockets |-> "closed"]
  /\ hello = {} /\ broken = {} /\ silent = {} /\ lapsed = {} /\ row = None
  /\ failures = 0 /\ crashes = 0

Sidecar == Attempt \/ SleepEnds \/ HelloTimeout \/ SocketGone \/ PongMissing \/ Refused
Goodbye == Closed \/ CloseTimeout \/ Deregister
Wire(s) == Opens(s) \/ HelloArrives(s) \/ Join(s) \/ ServerSeesClose(s) \/ ClientSeesClose(s)
             \/ ConnectFails(s) \/ ServerForgets(s)

Next ==
  \/ Sidecar \/ Disconnect \/ Goodbye
  \/ Purge \/ ParkExpires \/ Restart
  \/ \E s \in Sockets : Wire(s) \/ Silence(s) \/ RowLapses(s) \/ Unauthorized(s)
                          \/ Breaks(s) \/ ServerCloses(s)

Spec == Init /\ [][Next]_vars

(* Timers fire, and what is on the wire arrives. *)
Fairness ==
  /\ WF_vars(Sidecar) /\ WF_vars(Goodbye)
  /\ \A s \in Sockets : WF_vars(Wire(s)) /\ WF_vars(Silence(s))

FairSpec == Spec /\ Fairness

(***************************************************************************)
(* Properties.                                                             *)
(***************************************************************************)
TypeOK ==
  /\ loop \in {"new", "again", "opening", "hello", "serving", "sleeping", "ended"}
  /\ {cur, socket, tok, bye, row} \subseteq Sockets \cup {None}
  /\ serving \in BOOLEAN
  /\ state \in {"connecting", "connected", "unauthorized", "network_error", "disconnected"}
  /\ ready \in {"pending", "resolved", "failed"}
  /\ disc \in {"no", "closing", "deleting", "done"}
  /\ cli \in [Sockets -> {"connecting", "open", "closing", "closed"}]
  /\ srv \in [Sockets -> {"none", "refused", "unauthorized", "open", "closed"}]
  /\ hello \subseteq Sockets /\ broken \subseteq Sockets
  /\ lapsed \subseteq silent /\ silent \subseteq Held
  /\ failures \in 0..MaxFailures /\ crashes \in 0..MaxCrashes

(* Until disconnect(), /ready's reason is "connected" exactly while the    *)
(* sidecar serves: no refusal, timeout or close leaves it behind.          *)
ReasonIsTruthful == disc = "no" => (state = "connected" <=> serving)

(* A sidecar that serves a working socket holds the token of its row, so   *)
(* it can bind states, deregister, and reclaim the row.                    *)
ServingTokenIsCurrent ==
  Identified /\ serving /\ disc = "no" /\ cur \notin broken /\ srv[cur] = "open" => tok = row

(* disconnect() is final: once it is past the socket, the loop has no socket *)
(* that could still connect, greet or serve, though a hello that arrives     *)
(* while the socket closes makes it "connected" and serving once more.       *)
DisconnectIsFinal ==
  disc \in {"deleting", "done"} => cur = None \/ cli[cur] = "closed"

(* A running sidecar serves a working socket again and again, whatever was *)
(* lost: its own silent socket or that of a killed process is swept by the *)
(* joins it retries.                                                       *)
Reconnects ==
  (loop # "new" /\ disc = "no") ~> (disc # "no" \/ loop = "new" \/ (serving /\ srv[cur] = "open"))

(* disconnect() ends the loop and settles the ready promise, and a late      *)
(* hello that had it serving again is undone.                                *)
DisconnectSettles ==
  disc # "no" ~> (loop = "new" \/ (/\ disc = "done" /\ loop = "ended"
                                   /\ ready # "pending" /\ ~serving))

=============================================================================
