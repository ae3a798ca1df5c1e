--------------------------- MODULE TunnelDelivery ---------------------------
(***************************************************************************)
(* The deliveries of one route object (src/durable-object.ts): fanOut,     *)
(* proxyOAuth, deliver, sendAndWait and the pending map, with the closing  *)
(* sockets that settle deliveries early and the timers that settle the     *)
(* rest.                                                                   *)
(*                                                                         *)
(* The map is keyed by request id alone, so a request that is fanned out   *)
(* to several tunnels has one entry, of the tunnel served last.  An entry  *)
(* holds the promise and the timer of its own delivery.                    *)
(*                                                                         *)
(* Which subscribers a request goes to, and when sockets come and go, are  *)
(* RouteSubscribers'; here both are the environment's choice.  purgeExpired *)
(* also fails the deliveries of the rows it removes: those have no socket, *)
(* and PendingIsServed says that then there are none.                      *)
(***************************************************************************)
EXTENDS Naturals

CONSTANTS
  Requests,     \* ingress requests: one request id, dispatched once
  Tunnels,      \* subscribers with transport "tunnel"
  Publics,      \* subscribers with transport "public"
  NoSub,        \* no subscriber: the map has no entry
  MaxSockets    \* bound: sockets accepted for one tunnel

ASSUME SubsAssumption == Tunnels \cap Publics = {} /\ NoSub \notin Tunnels
ASSUME SocketsAssumption == MaxSockets \in Nat

VARIABLES
  sock,       \* [socket -> state of its server end]
  pending,    \* [request -> subscriber of its entry in the map, or NoSub]
  timers,     \* deliveries whose DELIVERY_TIMEOUT_MS timer is armed
  sent,       \* <<request, socket>>: sent, and not answered by the peer
  outcome     \* [delivery -> how the promise of deliver() stands]

vars == <<sock, pending, timers, sent, outcome>>

Subs == Tunnels \cup Publics
Socks == Tunnels \X (1..MaxSockets)
Del == Requests \X Subs
SubOf(k) == k[1]

SockStates == {"none", "open", "closing", "gone"}
Outcomes == {"none", "waiting", "answered", "failed", "lost"}

TypeOK ==
  /\ sock \in [Socks -> SockStates]
  /\ pending \in [Requests -> Tunnels \cup {NoSub}]
  /\ timers \subseteq Del
  /\ sent \subseteq Requests \X Socks
  /\ outcome \in [Del -> Outcomes]

-----------------------------------------------------------------------------
(* The pending map *)

\* liveSocket(s): any open socket, whichever the runtime lists first.
Open(s) == {k \in Socks : SubOf(k) = s /\ sock[k] = "open"}

\* Sockets on which messages of the peer still arrive.
Listed(k) == sock[k] \in {"open", "closing"}

\* The promises of D settle, all alike.
Settle(D, how) == outcome' = [d \in Del |-> IF d \in D THEN how ELSE outcome[d]]

FailsSilently(s) ==                                              \* mutant
  /\ Settle({}, "failed")
  /\ timers' = timers \ {d \in Del : d[2] = s /\ pending[d[1]] = s}
  /\ pending' = [r \in Requests |-> IF pending[r] = s THEN NoSub ELSE pending[r]]

AnswersDeparted(s) ==                                            \* mutant
  LET D == {d \in Del : d[2] = s /\ pending[d[1]] = s} IN
  /\ Settle(D, "answered")
  /\ timers' = timers \ D
  /\ pending' = [r \in Requests |-> IF pending[r] = s THEN NoSub ELSE pending[r]]

\* failPendingForSubscriber(s): only deliveries that have an entry.
FailPending(s) ==
  LET D == {d \in Del : d[2] = s /\ pending[d[1]] = s} IN
  /\ Settle(D, "failed")
  /\ timers' = timers \ D
  /\ pending' = [r \in Requests |-> IF pending[r] = s THEN NoSub ELSE pending[r]]

-----------------------------------------------------------------------------
(* Dispatch: fanOut and proxyOAuth *)

DispatchesAgain(r) == \A s \in Subs : outcome[<<r, s>>] # "waiting"  \* mutant

Undispatched(r) == \A s \in Subs : outcome[<<r, s>>] = "none"

\* deliver() to each of T in one go.  Over a tunnel, sendAndWait arms a timer,
\* sets the entry and sends on via[s]; F are the tunnels for which that fails
\* (no socket, a body too large, or send throws and the entry is deleted
\* again).  last is the tunnel served last.
Deliver(r, T, F, via, last) ==
  LET served == T \ F
      begun == {r} \X served IN
  /\ outcome' = [d \in Del |-> IF d \in begun THEN "waiting"
                               ELSE IF d \in {r} \X F THEN "failed"
                               ELSE outcome[d]]
  /\ timers' = timers \cup begun
  /\ pending' = [pending EXCEPT
                   ![r] = IF last \in served THEN last ELSE NoSub]
  /\ sent' = sent \cup {<<r, via[s]>> : s \in served \cap Tunnels}
  /\ UNCHANGED sock

\* A webhook: every tunnel among the targets has an open socket, the handler
\* has not yielded since it looked.
FanOut(r) ==
  /\ Undispatched(r)
  /\ \E T \in SUBSET {s \in Subs : s \in Publics \/ Open(s) # {}} :
     \E F \in SUBSET (T \cap Tunnels) :
     \E via \in [T \cap Tunnels -> Socks] :
     \E last \in Tunnels \cup {NoSub} :
       /\ T # {}
       /\ \A s \in T \cap Tunnels : via[s] \in Open(s)
       /\ IF T \cap Tunnels = {} THEN last = NoSub ELSE last \in T
       /\ Deliver(r, T, F, via, last)

\* Has s ever been connected?
Known(s) == s \in Publics \/ \E k \in Socks : SubOf(k) = s /\ sock[k] # "none"

\* An OAuth callback goes to one subscriber, chosen before the await of the
\* state's digest: by now its socket may be gone.
ProxyOAuth(r) ==
  /\ Undispatched(r)
  /\ \E s \in Subs :
       /\ Known(s)
       /\ \/ s \in Publics /\ Deliver(r, {s}, {}, <<>>, NoSub)
          \/ s \in Tunnels /\ Deliver(r, {s}, {s}, <<>>, s)
          \/ \E k \in Open(s) : Deliver(r, {s}, {}, [t \in {s} |-> k], s)

-----------------------------------------------------------------------------
(* Settling *)

\* webSocketMessage: the peer's response or error for r, on the socket that
\* carried r.  Without an entry it is ignored.
Reply(r, k, how) ==
  LET s == pending[r] IN
  /\ <<r, k>> \in sent
  /\ Listed(k)
  /\ sent' = sent \ {<<r, k>>}
  /\ IF s = NoSub
     THEN UNCHANGED <<pending, timers, outcome>>
     ELSE /\ Settle({<<r, s>>}, how)
          /\ timers' = timers \ {<<r, s>>}
          /\ pending' = [pending EXCEPT ![r] = NoSub]
  /\ UNCHANGED sock

ExpiresOwnEntry(d) ==                                              \* mutant
  /\ d \in timers /\ (d[2] \in Tunnels => pending[d[1]] = d[2])
  /\ timers' = timers \ {d}
  /\ Settle({d}, "failed")
  /\ pending' = [pending EXCEPT ![d[1]] = NoSub]
  /\ UNCHANGED <<sock, sent>>

\* The timer of a delivery fires; over a tunnel it deletes the entry of the
\* request, whoever's it is.  AbortSignal.timeout for a public subscriber.
Timeout(d) ==
  /\ d \in timers
  /\ timers' = timers \ {d}
  /\ Settle({d}, "failed")
  /\ pending' = IF d[2] \in Tunnels
                THEN [pending EXCEPT ![d[1]] = NoSub] ELSE pending
  /\ UNCHANGED <<sock, sent>>

\* The fetch of a public subscriber returns or throws.
FetchReturns(d, how) ==
  /\ d \in timers
  /\ d[2] \in Publics
  /\ timers' = timers \ {d}
  /\ Settle({d}, how)
  /\ UNCHANGED <<sock, pending, sent>>

-----------------------------------------------------------------------------
(* Sockets *)

\* acceptWebSocket, after a join.
Attach(k) ==
  /\ sock[k] = "none"
  /\ \A n \in 1..(k[2] - 1) : sock[<<k[1], n>>] # "none"
  /\ sock' = [sock EXCEPT ![k] = "open"]
  /\ UNCHANGED <<pending, timers, sent, outcome>>

\* deregister, or a reclaim of the row: closeSockets, failPendingForSubscriber.
Depart(s) ==
  /\ sock' = [k \in Socks |-> IF SubOf(k) = s /\ sock[k] = "open"
                              THEN "closing" ELSE sock[k]]
  /\ FailPending(s)
  /\ UNCHANGED sent

\* The peer closes, or expireStaleTunnels does.
CloseSocket(k) ==
  /\ sock[k] = "open"
  /\ sock' = [sock EXCEPT ![k] = "closing"]
  /\ UNCHANGED <<pending, timers, sent, outcome>>

FailsNothing(k) == UNCHANGED <<pending, timers, outcome>>          \* mutant

\* detachSocket fails the subscriber's deliveries before it looks whether the
\* object closed the socket itself: those over a newer socket as well.
FailDeparted(k) == FailPending(SubOf(k))

\* webSocketClose and webSocketError: the socket is listed no more.
DetachSocket(k) ==
  /\ sock[k] = "closing"
  /\ sock' = [sock EXCEPT ![k] = "gone"]
  /\ FailDeparted(k)
  /\ UNCHANGED sent

\* The object is evicted with its memory and its connections.
Restart ==
  /\ sock' = [k \in Socks |-> IF sock[k] = "none" THEN "none" ELSE "gone"]
  /\ pending' = [r \in Requests |-> NoSub]
  /\ timers' = {}
  /\ sent' = {}
  /\ Settle({d \in Del : outcome[d] = "waiting"}, "lost")

-----------------------------------------------------------------------------

Init ==
  /\ sock = [k \in Socks |-> "none"]
  /\ pending = [r \in Requests |-> NoSub]
  /\ timers = {}
  /\ sent = {}
  /\ outcome = [d \in Del |-> "none"]

Next ==
  \/ \E r \in Requests : FanOut(r) \/ ProxyOAuth(r)
  \/ \E r \in Requests, k \in Socks, how \in {"answered", "failed"} :
       Reply(r, k, how)
  \/ \E d \in Del : Timeout(d)
  \/ \E d \in Del, how \in {"answered", "failed"} : FetchReturns(d, how)
  \/ \E k \in Socks : Attach(k) \/ CloseSocket(k) \/ DetachSocket(k)
  \/ \E s \in Tunnels : Depart(s)
  \/ Restart

Spec == Init /\ [][Next]_vars

\* The runtime fires an armed timer; nothing is assumed of peers.
Fairness == \A d \in Del : WF_vars(Timeout(d))
FairSpec == Spec /\ Fairness

-----------------------------------------------------------------------------
(* Properties *)

\* A delivery waits exactly as long as its timer is armed, although entries of
\* the map are overwritten, deleted by another delivery's timer or failed with
\* a departing subscriber: no promise of sendAndWait is forgotten.
WaitingHasTimer == timers = {d \in Del : outcome[d] = "waiting"}

\* An entry of the map belongs to a delivery that waits and whose request is
\* with a peer that can still answer: when the last socket of a subscriber is
\* gone, or it is replaced, no caller with an entry waits for it.
PendingIsServed ==
  \A r \in Requests : pending[r] # NoSub =>
    /\ outcome[<<r, pending[r]>>] = "waiting"
    /\ \E k \in Socks : SubOf(k) = pending[r] /\ <<r, k>> \in sent /\ Listed(k)

\* The delivery d gets an answer in this step.
GetsAnswer(d) == outcome[d] = "waiting" /\ outcome'[d] = "answered"

\* The peer of tunnel s replied to request r in this step.
Replied(r, s) == \E k \in Socks : SubOf(k) = s /\ <<r, k>> \in sent \ sent'

\* A request with a single target, as every OAuth callback is, is answered by
\* that target only, whatever was sent, replaced or timed out before.
SoleAnswerIsOwn ==
  [][\A d \in Requests \X Tunnels :
       /\ GetsAnswer(d)
       /\ \A s \in Subs \ {d[2]} : outcome[<<d[1], s>>] = "none"
       => Replied(d[1], d[2])]_vars

\* Every delivery is settled once, in any interleaving: the module Deliveries.
D == INSTANCE Deliveries WITH outcome <- outcome
DeliveriesSettleOnce == D!Spec

\* No delivery waits forever: fanOut and proxyOAuth return even when a peer
\* never answers and the entry of its delivery was overwritten.
EveryDeliverySettles == D!Settled

\* "one failed webhook subscriber does not cancel the others"
\* (src/skills/forwarding/SKILL.md:73): the reply of one tunnel, an error as
\* much as a response, settles no other tunnel's delivery.
OwnOutcome ==
  [][\A d \in Requests \X Tunnels :
       outcome[d] = "waiting" /\ outcome'[d] \in {"answered", "failed"}
       /\ sock' = sock /\ sent' # sent
       => Replied(d[1], d[2])]_vars
=============================================================================
