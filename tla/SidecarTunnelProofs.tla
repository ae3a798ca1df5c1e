------------------------ MODULE SidecarTunnelProofs ------------------------
(***************************************************************************)
(* What a reverse-tunnel sidecar says of itself is so, its token is its    *)
(* row's, and a disconnect is final: for any number of sockets, failures   *)
(* and restarts, identified or not.                                        *)
(***************************************************************************)
EXTENDS SidecarTunnel, TLAPS

(* The loop has a socket where it waits on one, and serves where it says   *)
(* so; until disconnect() that socket is this.socket.                      *)
LoopInv ==
  /\ cur # None <=> loop \in {"opening", "hello", "serving"}
  /\ disc = "no" =>
       /\ serving <=> loop = "serving"
       /\ state = "connected" <=> serving
       /\ cur # None => socket = cur

(* The socket disconnect() closes does not open again, and the loop has no *)
(* other one.                                                              *)
FarewellInv ==
  /\ disc = "closing" =>
       /\ bye \in Sockets /\ cli[bye] \in {"closing", "closed"}
       /\ cur \in {None, bye} \/ cli[cur] = "closed"
  /\ DisconnectIsFinal

(* A join that succeeded wrote the row, and no other join or expiry takes  *)
(* it from the socket while the route object has it open.                  *)
RowInv ==
  /\ Identified /\ disc = "no" /\ cur # None /\ cur \notin broken /\ srv[cur] = "open" => row = cur
  /\ serving /\ disc = "no" => tok = cur

IInv == TypeOK /\ LoopInv /\ FarewellInv /\ RowInv

LEMMA InitInv == ASSUME Init PROVE IInv
<1>1. failures \in 0..MaxFailures /\ crashes \in 0..MaxCrashes
  BY TunnelAssumption DEF Init
<1>2. TypeOK
  BY <1>1 DEF Init, TypeOK, Held
<1>3. LoopInv /\ FarewellInv /\ RowInv
  BY DEF Init, LoopInv, FarewellInv, RowInv, DisconnectIsFinal
<1> QED
  BY <1>2, <1>3 DEF IInv

-----------------------------------------------------------------------------
(* The sidecar's loop. *)

LEMMA AttemptInv == ASSUME IInv, Attempt PROVE IInv'
<1> DEFINE s == CHOOSE t \in Sockets : Done(t)
<1>1. s \in Sockets /\ Done(s)
  BY DEF Attempt
<1>2. /\ cli' = [cli EXCEPT ![s] = "connecting"]
      /\ srv' = [srv EXCEPT ![s] = "none"]
      /\ broken' = broken \ {s} /\ hello' = hello \ {s}
      /\ cur' = s /\ socket' = s /\ loop' = "opening" /\ disc = "no"
      /\ loop \in {"new", "again"}
      /\ UNCHANGED <<serving, state, tok, ready, discVars, srvVars, bounds>>
  BY DEF Attempt
<1> HIDE DEF s
<1>3. TypeOK'
  BY <1>1, <1>2 DEF IInv, TypeOK, Held, Done, discVars, srvVars, bounds
<1>4. LoopInv' /\ FarewellInv' /\ RowInv'
  BY <1>1, <1>2, TunnelAssumption
  DEF IInv, TypeOK, LoopInv, FarewellInv, DisconnectIsFinal, RowInv, discVars, srvVars
<1> QED
  BY <1>3, <1>4 DEF IInv

(* Backing off: no socket is left, and nothing is served. *)
LEMMA FailsInv ==
  ASSUME IInv, NEW reason, Fails(reason), UNCHANGED discVars, disc = "no" => ~serving',
         disc = "closing" => cli'[bye] \in {"closing", "closed"}
  PROVE  LoopInv' /\ FarewellInv' /\ RowInv'
  BY DEF Fails, Failure, Settle, discVars, IInv, LoopInv, FarewellInv, DisconnectIsFinal, RowInv

LEMMA HelloTimeoutInv == ASSUME IInv, HelloTimeout PROVE IInv'
<1>1. TypeOK'
  BY TunnelAssumption DEF HelloTimeout, Fails, Failure, Settle, IInv, TypeOK, Held, discVars, netVars, srvVars
<1>2. LoopInv' /\ FarewellInv' /\ RowInv'
  BY FailsInv DEF HelloTimeout, IInv, LoopInv, FarewellInv, netVars, discVars
<1> QED
  BY <1>1, <1>2 DEF IInv

LEMMA SocketGoneInv == ASSUME IInv, SocketGone PROVE IInv'
<1>1. TypeOK'
  BY DEF SocketGone, Fails, Failure, Settle, AfterServe, IInv, TypeOK, Held, discVars, netVars, srvVars, bounds
<1>2. CASE \E reason : Fails(reason)
  BY <1>1, <1>2, FailsInv DEF SocketGone, IInv, LoopInv, FarewellInv, netVars, discVars
<1>3. CASE loop = "serving" /\ state' = AfterServe /\ cur' = None
           /\ loop' = (IF disc = "no" THEN "again" ELSE "ended") /\ serving' = FALSE
  BY <1>1, <1>3 DEF SocketGone, AfterServe, IInv, LoopInv, FarewellInv, DisconnectIsFinal, RowInv,
       discVars, netVars
<1> QED
  BY <1>2, <1>3 DEF SocketGone

LEMMA RefusedInv == ASSUME IInv, Refused PROVE IInv'
<1>1. TypeOK'
  BY DEF Refused, Fails, Failure, Settle, IInv, TypeOK, Held, discVars, srvVars, bounds
<1>2. cur \in Sockets
  BY DEF Refused, IInv, TypeOK, LoopInv
<1>3. LoopInv' /\ FarewellInv' /\ RowInv'
  BY <1>2, FailsInv DEF Refused, IInv, TypeOK, LoopInv, FarewellInv, discVars
<1> QED
  BY <1>1, <1>3 DEF IInv

LEMMA HelloArrivesInv == ASSUME IInv, NEW s \in Sockets, HelloArrives(s) PROVE IInv'
<1> USE DEF HelloArrives, Listens, Settle, IInv, discVars, srvVars, bounds
<1>1. TypeOK'
  BY DEF TypeOK, Held
<1>2. LoopInv' /\ FarewellInv' /\ RowInv'
  BY TunnelAssumption DEF LoopInv, FarewellInv, DisconnectIsFinal, RowInv
<1> QED
  BY <1>1, <1>2

(* An upgrade that succeeds after disconnect() would be of a socket it had *)
(* not closed.                                                             *)
LEMMA OpensInv == ASSUME IInv, NEW s \in Sockets, Opens(s) PROVE IInv'
<1> USE DEF Opens, IInv, discVars, srvVars
<1>1. TypeOK'
  BY TunnelAssumption DEF TypeOK, Held
<1>2. disc = "no"
  BY TunnelAssumption DEF TypeOK, FarewellInv, DisconnectIsFinal
<1>3. LoopInv' /\ FarewellInv' /\ RowInv'
  BY <1>2, TunnelAssumption DEF TypeOK, LoopInv, FarewellInv, DisconnectIsFinal, RowInv
<1> QED
  BY <1>1, <1>3

(* A socket is closed at the sidecar, by whatever: nothing else changes. *)
LEMMA ClosesInv ==
  ASSUME IInv, NEW s \in Sockets, cli' = [cli EXCEPT ![s] = "closed"],
         UNCHANGED <<loopVars, discVars, srv, hello, broken, srvVars, bounds>>
  PROVE  IInv'
<1> USE DEF IInv, loopVars, discVars, srvVars, bounds
<1>1. TypeOK'
  BY DEF TypeOK, Held
<1>2. LoopInv' /\ FarewellInv' /\ RowInv'
  BY DEF TypeOK, LoopInv, FarewellInv, DisconnectIsFinal, RowInv
<1> QED
  BY <1>1, <1>2

LEMMA SidecarInv == ASSUME IInv, Sidecar PROVE IInv'
<1>1. CASE SleepEnds
  <2>1. TypeOK'
    BY <1>1 DEF SleepEnds, IInv, TypeOK, Held, discVars, netVars, srvVars, bounds
  <2>2. LoopInv' /\ FarewellInv' /\ RowInv'
    BY <1>1 DEF SleepEnds, IInv, LoopInv, FarewellInv, DisconnectIsFinal, RowInv, discVars, netVars, srvVars
  <2> QED
    BY <2>1, <2>2 DEF IInv
<1>2. CASE PongMissing
  <2>1. cur \in Sockets
    BY <1>2 DEF PongMissing, IInv, TypeOK, LoopInv
  <2> QED
    BY <1>2, <2>1, ClosesInv DEF PongMissing
<1> QED
  BY <1>1, <1>2, AttemptInv, HelloTimeoutInv, SocketGoneInv, RefusedInv DEF Sidecar

-----------------------------------------------------------------------------
(* disconnect(). *)

LEMMA DisconnectInv == ASSUME IInv, Disconnect PROVE IInv'
<1> USE DEF Disconnect, AfterClose, Deregisters, Aborts, AbortsLoop, Settle, IInv, srvVars, bounds
<1>1. TypeOK'
  BY DEF TypeOK, Held
<1>2. socket \in Sockets \cup {None} /\ (cur # None => socket = cur)
  BY DEF TypeOK, LoopInv
<1>3. LoopInv'
  BY <1>2 DEF LoopInv
<1>4. FarewellInv'
  BY <1>2, TunnelAssumption DEF TypeOK, FarewellInv, DisconnectIsFinal
<1>5. RowInv'
  BY DEF RowInv
<1> QED
  BY <1>1, <1>3, <1>4, <1>5

LEMMA GoodbyeInv == ASSUME IInv, Goodbye PROVE IInv'
<1>1. CASE Closed
  <2> USE <1>1 DEF Closed, AfterClose, Deregisters, Aborts, AbortsLoop, Settle, IInv, netVars, srvVars, bounds
  <2>1. TypeOK'
    BY DEF TypeOK, Held
  <2>2. LoopInv' /\ FarewellInv' /\ RowInv'
    BY DEF LoopInv, FarewellInv, DisconnectIsFinal, RowInv
  <2> QED
    BY <2>1, <2>2
<1>2. CASE CloseTimeout
  BY <1>2, ClosesInv DEF CloseTimeout, IInv, FarewellInv
<1>3. CASE Deregister
  <2> USE <1>3 DEF Deregister, Aborts, AbortsLoop, Settle, IInv, bounds
  <2>1. TypeOK'
    BY DEF TypeOK, Held
  <2>2. LoopInv' /\ FarewellInv' /\ RowInv'
    BY DEF LoopInv, FarewellInv, DisconnectIsFinal, RowInv
  <2> QED
    BY <2>1, <2>2
<1> QED
  BY <1>1, <1>2, <1>3 DEF Goodbye

-----------------------------------------------------------------------------
(* The route object, the network, the process. *)

(* The route object ends sockets; the row stays. *)
LEMMA ServerInv ==
  ASSUME IInv, TypeOK', UNCHANGED <<loopVars, discVars, cli, row>>,
         broken \subseteq broken',
         \A s \in Sockets : srv'[s] = "open" => srv[s] = "open"
  PROVE  IInv'
  BY DEF IInv, TypeOK, LoopInv, FarewellInv, DisconnectIsFinal, RowInv, loopVars, discVars

LEMMA JoinInv == ASSUME IInv, NEW s \in Sockets, Join(s) PROVE IInv'
<1> USE DEF Join, loopVars, discVars, bounds
<1>1. TypeOK'
  BY DEF IInv, TypeOK, Held, Swept
<1>2. srv'[s] = "open" /\ Identified => row' = s
  BY DEF IInv, TypeOK
<1>3. LoopInv' /\ FarewellInv' /\ RowInv'
  BY <1>2 DEF IInv, LoopInv, FarewellInv, DisconnectIsFinal, RowInv
<1> QED
  BY <1>1, <1>3 DEF IInv

LEMMA WireInv == ASSUME IInv, NEW s \in Sockets, Wire(s) PROVE IInv'
<1>1. CASE ServerSeesClose(s) \/ ServerForgets(s)
  <2> USE <1>1 DEF ServerSeesClose, ServerForgets, SrvCloses, loopVars, discVars, bounds
  <2>1. TypeOK'
    BY DEF IInv, TypeOK, Held
  <2> QED
    BY <2>1, ServerInv DEF IInv, TypeOK
<1>2. CASE ClientSeesClose(s) \/ ConnectFails(s)
  BY <1>2, ClosesInv DEF ClientSeesClose, ConnectFails
<1> QED
  BY <1>1, <1>2, OpensInv, HelloArrivesInv, JoinInv DEF Wire

LEMMA RestartInv == ASSUME IInv, Restart PROVE IInv'
<1> USE DEF Restart, IInv, srvVars
<1>1. crashes' \in 0..MaxCrashes
  BY TunnelAssumption DEF TypeOK
<1>2. TypeOK'
  BY <1>1 DEF TypeOK, Held
<1>3. LoopInv' /\ FarewellInv' /\ RowInv'
  BY DEF LoopInv, FarewellInv, DisconnectIsFinal, RowInv
<1> QED
  BY <1>2, <1>3

LEMMA ParkExpiresInv == ASSUME IInv, ParkExpires PROVE IInv'
<1> USE DEF ParkExpires, IInv, loopVars, discVars, netVars, bounds
<1>1. TypeOK'
  BY DEF TypeOK, Held
<1>2. LoopInv' /\ FarewellInv' /\ RowInv'
  BY DEF TypeOK, LoopInv, FarewellInv, DisconnectIsFinal, RowInv, Held
<1> QED
  BY <1>1, <1>2

LEMMA OthersInv ==
  ASSUME IInv,
         Purge \/ \E s \in Sockets : Silence(s) \/ RowLapses(s) \/ Unauthorized(s)
                                       \/ Breaks(s) \/ ServerCloses(s)
  PROVE  IInv'
<1>1. CASE Purge
  <2> USE <1>1 DEF Purge, Swept, loopVars, discVars, bounds
  <2>1. TypeOK'
    BY DEF IInv, TypeOK, Held
  <2> QED
    BY <2>1, ServerInv DEF IInv, TypeOK
<1>2. ASSUME NEW s \in Sockets, Silence(s) \/ RowLapses(s) PROVE IInv'
  <2> USE <1>2 DEF Silence, RowLapses, loopVars, discVars, netVars, bounds
  <2>1. TypeOK'
    BY DEF IInv, TypeOK, Held
  <2> QED
    BY <2>1, ServerInv
<1>3. ASSUME NEW s \in Sockets, Unauthorized(s) \/ Breaks(s) \/ ServerCloses(s) PROVE IInv'
  <2> USE <1>3 DEF Unauthorized, Breaks, ServerCloses, SrvCloses, loopVars, discVars, srvVars
  <2>1. TypeOK'
    BY TunnelAssumption DEF IInv, TypeOK, Held
  <2> QED
    BY <2>1, ServerInv DEF IInv, TypeOK
<1> QED
  BY <1>1, <1>2, <1>3

LEMMA StepInv == ASSUME IInv, [Next]_vars PROVE IInv'
<1>1. CASE UNCHANGED vars
  BY <1>1 DEF vars, loopVars, discVars, netVars, srvVars, bounds, IInv, TypeOK, Held, LoopInv,
       FarewellInv, DisconnectIsFinal, RowInv
<1> QED
  BY <1>1, SidecarInv, DisconnectInv, GoodbyeInv, OthersInv, ParkExpiresInv, RestartInv, WireInv DEF Next

-----------------------------------------------------------------------------

(* Every run keeps the invariant. *)
THEOREM Inductive == Spec => []IInv
  BY InitInv, StepInv, PTL DEF Spec

(* Every variable keeps its type; lapsed rows are of silent sockets and    *)
(* these are open.                                                         *)
THEOREM TypeCorrect == Spec => []TypeOK
<1>1. IInv => TypeOK
  BY DEF IInv
<1> QED
  BY <1>1, Inductive, PTL

(* Until disconnect(), a sidecar says it is connected exactly while it     *)
(* serves: no refusal, timeout, close or restart leaves the reason behind. *)
THEOREM ReasonsAreTruthful == Spec => []ReasonIsTruthful
<1>1. IInv => ReasonIsTruthful
  BY DEF IInv, LoopInv, ReasonIsTruthful
<1> QED
  BY <1>1, Inductive, PTL

(* A sidecar that serves a working socket holds the token of its row,      *)
(* however many sockets it lost and joins it retried before.               *)
THEOREM ServingTokensAreCurrent == Spec => []ServingTokenIsCurrent
<1>1. IInv => ServingTokenIsCurrent
  BY DEF IInv, TypeOK, LoopInv, RowInv, ServingTokenIsCurrent
<1> QED
  BY <1>1, Inductive, PTL

(* Once disconnect() is past the socket, the loop has none that could      *)
(* still connect, greet or serve.                                          *)
THEOREM DisconnectsAreFinal == Spec => []DisconnectIsFinal
<1>1. IInv => DisconnectIsFinal
  BY DEF IInv, FarewellInv
<1> QED
  BY <1>1, Inductive, PTL


-----------------------------------------------------------------------------
(* The end of disconnect(). *)

(* The safety half of DisconnectSettles: when disconnect() is done, the    *)
(* ready promise is settled, and what is left of the loop is at most a     *)
(* serve() whose socket is closed; a loop that has ended serves nothing.   *)
DoneIsSettled ==
  disc = "done" =>
    /\ ready # "pending"
    /\ \/ loop = "ended" /\ ~serving
       \/ loop = "serving" /\ cli[cur] = "closed"

(* The loop serves in one phase only, and does not start once disconnect() *)
(* was called.                                                             *)
SettledInv ==
  /\ serving => loop = "serving"
  /\ loop \in {"new", "again"} => disc = "no"
  /\ disc = "done" => loop \in {"serving", "ended"} /\ ready # "pending"

LEMMA LoopSettled == ASSUME TypeOK, SettledInv, Sidecar \/ (\E s \in Sockets : Wire(s)) PROVE SettledInv'
<1> USE DEF SettledInv, discVars
<1>1. CASE Attempt \/ SleepEnds
  BY <1>1 DEF Attempt, SleepEnds
<1>2. CASE HelloTimeout \/ Refused
  BY <1>2 DEF HelloTimeout, Refused, Fails, Settle
<1>3. CASE SocketGone
  BY <1>3 DEF SocketGone, Fails, Settle
<1>4. CASE PongMissing
  BY <1>4 DEF PongMissing, loopVars
<1>5. ASSUME NEW s \in Sockets, Opens(s) \/ HelloArrives(s) PROVE SettledInv'
  BY <1>5 DEF Opens, HelloArrives, Listens, Settle
<1>6. ASSUME NEW s \in Sockets,
             Join(s) \/ ServerSeesClose(s) \/ ClientSeesClose(s) \/ ConnectFails(s) \/ ServerForgets(s)
      PROVE  SettledInv'
  BY <1>6 DEF Join, ServerSeesClose, ClientSeesClose, ConnectFails, ServerForgets, loopVars
<1> QED
  BY <1>1, <1>2, <1>3, <1>4, <1>5, <1>6 DEF Sidecar, Wire

LEMMA GoodbyeSettled == ASSUME TypeOK, SettledInv, Disconnect \/ Goodbye PROVE SettledInv'
<1> USE DEF SettledInv, discVars
<1>1. ASSUME Aborts, loop \notin {"new", "again"} PROVE loop' \in {"serving", "ended"} /\ ready' # "pending"
  BY <1>1 DEF Aborts, AbortsLoop, Settle, TypeOK
<1>2. ASSUME AfterClose, loop \notin {"new", "again"}, serving' => serving PROVE SettledInv'
  BY <1>1, <1>2 DEF AfterClose, Deregisters, Aborts, AbortsLoop
<1>3. CASE Disconnect
  BY <1>2, <1>3 DEF Disconnect
<1>4. CASE Closed
  BY <1>2, <1>4 DEF Closed
<1>5. CASE CloseTimeout
  BY <1>5 DEF CloseTimeout, loopVars
<1>6. CASE Deregister
  BY <1>1, <1>6 DEF Deregister, Aborts, AbortsLoop
<1> QED
  BY <1>3, <1>4, <1>5, <1>6 DEF Goodbye

LEMMA OthersSettled ==
  ASSUME SettledInv,
         \/ Purge \/ ParkExpires \/ Restart
         \/ \E s \in Sockets : Silence(s) \/ RowLapses(s) \/ Unauthorized(s) \/ Breaks(s) \/ ServerCloses(s)
         \/ UNCHANGED vars
  PROVE  SettledInv'
<1>1. CASE Restart
  BY <1>1 DEF Restart, SettledInv
<1>2. CASE ~Restart
  <2>1. UNCHANGED <<loopVars, discVars>>
    BY <1>2 DEF Purge, ParkExpires, Silence, RowLapses, Unauthorized, Breaks, ServerCloses, vars
  <2>2. UNCHANGED <<serving, loop, disc, ready>>
    BY <2>1 DEF loopVars, discVars
  <2> QED
    BY <2>2 DEF SettledInv
<1> QED
  BY <1>1, <1>2

(* When disconnect() is done it has settled the ready promise, and no late *)
(* hello has left the loop serving.                                        *)
THEOREM DisconnectsAreSettled == Spec => []DoneIsSettled
<1>1. Init => SettledInv
  BY DEF Init, SettledInv
<1>2. IInv /\ SettledInv /\ [Next]_vars => SettledInv'
  BY LoopSettled, GoodbyeSettled, OthersSettled DEF IInv, Next
<1>3. IInv /\ SettledInv => DoneIsSettled
  <2> SUFFICES ASSUME IInv, SettledInv, disc = "done" PROVE DoneIsSettled
    BY DEF DoneIsSettled
  <2>1. CASE loop = "serving"
    <3>1. cur # None /\ cli[cur] = "closed"
      BY <2>1 DEF IInv, LoopInv, FarewellInv, DisconnectIsFinal
    <3> QED
      BY <2>1, <3>1 DEF SettledInv, DoneIsSettled
  <2>2. CASE loop # "serving"
    <3>1. ~serving
      BY <2>2 DEF SettledInv
    <3>2. loop = "ended" /\ ready # "pending"
      BY <2>2 DEF SettledInv
    <3> QED
      BY <3>1, <3>2 DEF DoneIsSettled
  <2> QED
    BY <2>1, <2>2
<1> QED
  BY <1>1, <1>2, <1>3, Inductive, PTL DEF Spec
=============================================================================
