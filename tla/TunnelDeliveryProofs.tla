------------------------ MODULE TunnelDeliveryProofs ------------------------
(***************************************************************************)
(* What TunnelDelivery keeps for any numbers of requests, subscribers and  *)
(* sockets, and that it implements Deliveries.                             *)
(***************************************************************************)
EXTENDS TunnelDelivery, TLAPS

\* Only what was dispatched is with a peer.
SentIsBegun == \A m \in sent : outcome[<<m[1], SubOf(m[2])>>] # "none"

IInv == TypeOK /\ WaitingHasTimer /\ PendingIsServed /\ SentIsBegun

\* Deliver, as a step that a dispatch of r takes.
Dispatch(r) ==
  \E T \in SUBSET Subs : \E F \in SUBSET (T \cap Tunnels) :
    \E via : \E last \in Tunnels \cup {NoSub} :
      /\ T # {}
      /\ \A s \in (T \ F) \cap Tunnels : via[s] \in Open(s)
      /\ Deliver(r, T, F, via, last)

LEMMA DispatchCases ==
  ASSUME NEW r \in Requests, FanOut(r) \/ ProxyOAuth(r)
  PROVE  Undispatched(r) /\ Dispatch(r)
<1>1. CASE FanOut(r)
  <2>1. PICK T \in SUBSET Subs : \E F \in SUBSET (T \cap Tunnels) :
          \E via \in [T \cap Tunnels -> Socks] :
          \E last \in Tunnels \cup {NoSub} :
            /\ T # {}
            /\ \A s \in T \cap Tunnels : via[s] \in Open(s)
            /\ Deliver(r, T, F, via, last)
    BY <1>1 DEF FanOut
  <2> QED
    BY <1>1, <2>1 DEF FanOut, Dispatch
<1>2. CASE ProxyOAuth(r)
  <2>1. PICK s \in Subs :
          \/ s \in Publics /\ Deliver(r, {s}, {}, <<>>, NoSub)
          \/ s \in Tunnels /\ Deliver(r, {s}, {s}, <<>>, s)
          \/ \E k \in Open(s) : Deliver(r, {s}, {}, [t \in {s} |-> k], s)
    BY <1>2 DEF ProxyOAuth
  <2>2. CASE s \in Publics /\ Deliver(r, {s}, {}, <<>>, NoSub)
    <3>1. ({s} \ {}) \cap Tunnels = {}
      BY <2>2, SubsAssumption
    <3> QED
      BY <1>2, <2>2, <3>1 DEF Dispatch, ProxyOAuth, Subs
  <2>3. CASE s \in Tunnels /\ Deliver(r, {s}, {s}, <<>>, s)
    BY <1>2, <2>3 DEF Dispatch, ProxyOAuth, Subs
  <2>4. ASSUME NEW k \in Open(s), Deliver(r, {s}, {}, [t \in {s} |-> k], s)
        PROVE  Undispatched(r) /\ Dispatch(r)
    <3>1. s \in Tunnels
      BY <2>4 DEF Open, Socks, SubOf
    <3> DEFINE via == [t \in {s} |-> k]
    <3>2. \A u \in ({s} \ {}) \cap Tunnels : via[u] \in Open(u)
      BY <2>4
    <3>3. Deliver(r, {s}, {}, via, s)
      BY <2>4
    <3> HIDE DEF via
    <3> QED
      BY <1>2, <3>1, <3>2, <3>3 DEF Dispatch, ProxyOAuth, Subs
  <2> QED
    BY <2>1, <2>2, <2>3, <2>4
<1> QED
  BY <1>1, <1>2

LEMMA InitInv == Init => IInv
BY SubsAssumption DEF Init, IInv, TypeOK, WaitingHasTimer, PendingIsServed,
   SentIsBegun, SockStates, Outcomes

LEMMA DispatchInv ==
  ASSUME IInv, NEW r \in Requests, Undispatched(r), Dispatch(r)
  PROVE  IInv'
<1>1. PICK T \in SUBSET Subs : \E F \in SUBSET (T \cap Tunnels) :
        \E via : \E last \in Tunnels \cup {NoSub} :
          /\ T # {}
          /\ \A s \in (T \ F) \cap Tunnels : via[s] \in Open(s)
          /\ Deliver(r, T, F, via, last)
  BY DEF Dispatch
<1>2. PICK F \in SUBSET (T \cap Tunnels) : \E via : \E last \in Tunnels \cup {NoSub} :
        /\ \A s \in (T \ F) \cap Tunnels : via[s] \in Open(s)
        /\ Deliver(r, T, F, via, last)
  BY <1>1
<1>0. PICK via : \E last \in Tunnels \cup {NoSub} :
        /\ \A s \in (T \ F) \cap Tunnels : via[s] \in Open(s)
        /\ Deliver(r, T, F, via, last)
  BY <1>2
<1>a. PICK last \in Tunnels \cup {NoSub} :
        /\ \A s \in (T \ F) \cap Tunnels : via[s] \in Open(s)
        /\ Deliver(r, T, F, via, last)
  BY <1>0
<1> DEFINE served == T \ F
           begun == {r} \X served
<1>3. /\ outcome' = [d \in Del |-> IF d \in begun THEN "waiting"
                                   ELSE IF d \in {r} \X F THEN "failed"
                                   ELSE outcome[d]]
      /\ timers' = timers \cup begun
      /\ pending' = [pending EXCEPT ![r] = IF last \in served THEN last ELSE NoSub]
      /\ sent' = sent \cup {<<r, via[s]>> : s \in served \cap Tunnels}
      /\ sock' = sock
  BY <1>a DEF Deliver
<1>4. begun \subseteq Del /\ {r} \X F \subseteq Del
  BY DEF Del
<1>5. \A s \in Subs : outcome[<<r, s>>] = "none" /\ <<r, s>> \in Del
  BY DEF Undispatched, Del
<1>6. \A s \in served \cap Tunnels : via[s] \in Socks /\ SubOf(via[s]) = s
                                    /\ sock[via[s]] = "open"
  BY <1>a DEF Open
<1>7. TypeOK'
  <2>1. timers' \subseteq Del /\ outcome' \in [Del -> Outcomes]
    BY <1>3, <1>4 DEF IInv, TypeOK, Outcomes
  <2>2. pending' \in [Requests -> Tunnels \cup {NoSub}]
    BY <1>3 DEF IInv, TypeOK
  <2>3. sent' \subseteq Requests \X Socks
    BY <1>3, <1>6 DEF IInv, TypeOK
  <2> QED
    BY <1>3, <2>1, <2>2, <2>3 DEF IInv, TypeOK
<1>8. WaitingHasTimer'
  <2>1. \A d \in Del : d \in {r} \X F => d \notin begun /\ d \notin timers
    BY <1>5 DEF IInv, WaitingHasTimer
  <2> QED
    BY <1>3, <1>4, <2>1 DEF IInv, WaitingHasTimer
<1>9. PendingIsServed'
  <2> SUFFICES ASSUME NEW q \in Requests, pending'[q] # NoSub
               PROVE  /\ outcome'[<<q, pending'[q]>>] = "waiting"
                      /\ \E k \in Socks : /\ SubOf(k) = pending'[q]
                                          /\ <<q, k>> \in sent' /\ Listed(k)'
    BY DEF PendingIsServed
  <2>1. CASE q = r
    <3>1. pending'[q] = last /\ last \in served \cap Tunnels
      BY <1>3, <2>1 DEF IInv, TypeOK
    <3>2. <<r, last>> \in begun /\ <<r, via[last]>> \in sent'
      BY <1>3, <3>1
    <3> QED
      BY <1>3, <1>4, <1>6, <2>1, <3>1, <3>2 DEF Listed
  <2>2. CASE q # r
    <3>1. pending'[q] = pending[q] /\ pending[q] \in Tunnels
      BY <1>3, <2>2 DEF IInv, TypeOK
    <3>2. <<q, pending[q]>> \in Del /\ <<q, pending[q]>> \notin begun
          /\ <<q, pending[q]>> \notin {r} \X F
      BY <2>2, <3>1 DEF Del, Subs
    <3>3. outcome'[<<q, pending'[q]>>] = "waiting"
      BY <1>3, <3>1, <3>2 DEF IInv, PendingIsServed
    <3>4. PICK k \in Socks : /\ SubOf(k) = pending[q]
                             /\ <<q, k>> \in sent /\ Listed(k)
      BY <3>1 DEF IInv, PendingIsServed
    <3>5. <<q, k>> \in sent' /\ Listed(k)'
      BY <1>3, <3>4 DEF Listed
    <3> QED
      BY <3>1, <3>3, <3>4, <3>5
  <2> QED
    BY <2>1, <2>2
<1>10. SentIsBegun'
  <2> SUFFICES ASSUME NEW m \in sent'
               PROVE  outcome'[<<m[1], SubOf(m[2])>>] # "none"
    BY DEF SentIsBegun, SubOf
  <2>1. CASE m \in sent
    <3>1. <<m[1], SubOf(m[2])>> \in Del
      BY <2>1 DEF IInv, TypeOK, Del, Socks, SubOf, Subs
    <3> QED
      BY <1>3, <2>1, <3>1 DEF IInv, SentIsBegun
  <2>2. ASSUME NEW s \in served \cap Tunnels, m = <<r, via[s]>>
        PROVE  outcome'[<<m[1], SubOf(m[2])>>] # "none"
    <3>1. <<m[1], SubOf(m[2])>> = <<r, s>> /\ <<r, s>> \in begun
      BY <1>6, <2>2
    <3> QED
      BY <1>3, <1>4, <3>1
  <2> QED
    BY <1>3, <2>1, <2>2
<1> QED
  BY <1>7, <1>8, <1>9, <1>10 DEF IInv

\* Deliveries D settle and their entries go; every entry that stays is of
\* another delivery and still has its peer.
LEMMA SettleInv ==
  ASSUME IInv,
         NEW D0 \in SUBSET timers, NEW how \in {"answered", "failed", "lost"},
         Settle(D0, how), timers' = timers \ D0,
         pending' \in [Requests -> Tunnels \cup {NoSub}],
         sock' \in [Socks -> SockStates], sent' \subseteq sent,
         \A q \in Requests : pending'[q] # NoSub =>
           /\ pending'[q] = pending[q]
           /\ <<q, pending[q]>> \notin D0
           /\ \A k \in Socks :
                SubOf(k) = pending[q] /\ <<q, k>> \in sent /\ Listed(k)
                => <<q, k>> \in sent' /\ Listed(k)'
  PROVE  IInv'
<1>1. outcome' = [d \in Del |-> IF d \in D0 THEN how ELSE outcome[d]]
  BY DEF Settle
<1>2. TypeOK'
  BY <1>1 DEF IInv, TypeOK, Outcomes
<1>3. WaitingHasTimer'
  BY <1>1 DEF IInv, WaitingHasTimer
<1>4. PendingIsServed'
  <2> SUFFICES ASSUME NEW q \in Requests, pending'[q] # NoSub
               PROVE  /\ outcome'[<<q, pending'[q]>>] = "waiting"
                      /\ \E k \in Socks : /\ SubOf(k) = pending'[q]
                                          /\ <<q, k>> \in sent' /\ Listed(k)'
    BY DEF PendingIsServed
  <2>1. pending'[q] = pending[q] /\ <<q, pending[q]>> \in Del
    BY DEF Del, Subs
  <2>2. outcome[<<q, pending[q]>>] = "waiting"
    BY <2>1 DEF IInv, PendingIsServed
  <2>3. PICK k \in Socks : SubOf(k) = pending[q] /\ <<q, k>> \in sent /\ Listed(k)
    BY <2>1 DEF IInv, PendingIsServed
  <2> QED
    BY <1>1, <2>1, <2>2, <2>3
<1>5. SentIsBegun'
  <2> SUFFICES ASSUME NEW m \in sent'
               PROVE  outcome'[<<m[1], SubOf(m[2])>>] # "none"
    BY DEF SentIsBegun, SubOf
  <2>1. <<m[1], SubOf(m[2])>> \in Del
    BY DEF IInv, TypeOK, Del, Socks, SubOf, Subs
  <2>2. outcome[<<m[1], SubOf(m[2])>>] # "none"
    BY DEF IInv, SentIsBegun
  <2> QED
    BY <1>1, <2>1, <2>2
<1> QED
  BY <1>2, <1>3, <1>4, <1>5 DEF IInv

\* The deliveries FailPending(s) fails.
Entries(s) == {d \in Del : d[2] = s /\ pending[d[1]] = s}

LEMMA FailPendingInv ==
  ASSUME IInv, NEW s \in Tunnels, FailPending(s), sent' = sent,
         sock' \in [Socks -> SockStates],
         \A k \in Socks : SubOf(k) # s => (Listed(k) => Listed(k)')
  PROVE  IInv'
<1>1. \A d \in Entries(s) : d \in timers
  <2> SUFFICES ASSUME NEW d \in Entries(s) PROVE d \in timers
    OBVIOUS
  <2>1. d = <<d[1], pending[d[1]]>> /\ d[1] \in Requests /\ pending[d[1]] # NoSub
    BY SubsAssumption DEF Entries, Del
  <2> QED
    BY <2>1 DEF Entries, IInv, WaitingHasTimer, PendingIsServed
<1>2. /\ Settle(Entries(s), "failed")
      /\ timers' = timers \ Entries(s)
      /\ pending' = [r \in Requests |-> IF pending[r] = s THEN NoSub ELSE pending[r]]
  BY DEF FailPending, Entries
<1>3. pending' \in [Requests -> Tunnels \cup {NoSub}]
  BY <1>2 DEF IInv, TypeOK
<1>4. ASSUME NEW q \in Requests, pending'[q] # NoSub
      PROVE  /\ pending'[q] = pending[q] /\ pending[q] # s
             /\ <<q, pending[q]>> \notin Entries(s)
  BY <1>2, <1>4 DEF Entries
<1> QED
  BY <1>1, <1>2, <1>3, <1>4, SettleInv

-----------------------------------------------------------------------------
(* Every step *)

\* A reply settles the delivery of the entry it finds, if any.
LEMMA ReplyInv ==
  ASSUME IInv, NEW r \in Requests, NEW k \in Socks,
         NEW how \in {"answered", "failed"}, Reply(r, k, how)
  PROVE  IInv'
<1> DEFINE s == pending[r]
           D0 == IF s = NoSub THEN {} ELSE {<<r, s>>}
<1>1. /\ sent' = sent \ {<<r, k>>} /\ sock' = sock
      /\ s = NoSub => UNCHANGED <<pending, timers, outcome>>
      /\ s # NoSub => /\ Settle({<<r, s>>}, how)
                      /\ timers' = timers \ {<<r, s>>}
                      /\ pending' = [pending EXCEPT ![r] = NoSub]
  BY DEF Reply
<1>2. D0 \subseteq timers
  BY DEF IInv, TypeOK, WaitingHasTimer, PendingIsServed, Del, Subs
<1>3. Settle(D0, how)
  BY <1>1 DEF Settle, IInv, TypeOK
<1>4. timers' = timers \ D0
  BY <1>1
<1>5. /\ pending' \in [Requests -> Tunnels \cup {NoSub}]
      /\ sock' \in [Socks -> SockStates] /\ sent' \subseteq sent
  BY <1>1 DEF IInv, TypeOK
<1>6. ASSUME NEW q \in Requests, pending'[q] # NoSub
      PROVE  /\ pending'[q] = pending[q] /\ q # r
             /\ <<q, pending[q]>> \notin D0
  BY <1>1, <1>6 DEF IInv, TypeOK
<1>7. \A q \in Requests : pending'[q] # NoSub =>
        /\ pending'[q] = pending[q]
        /\ <<q, pending[q]>> \notin D0
        /\ \A j \in Socks :
             SubOf(j) = pending[q] /\ <<q, j>> \in sent /\ Listed(j)
             => <<q, j>> \in sent' /\ Listed(j)'
  BY <1>1, <1>6 DEF Listed
<1> HIDE DEF D0
<1> QED
  BY <1>2, <1>3, <1>4, <1>5, <1>7, SettleInv

\* A delivery settles by its own timer or, to a public subscriber, its fetch.
LEMMA TimerInv ==
  ASSUME IInv, NEW d \in Del, NEW how \in {"answered", "failed"},
         (Timeout(d) /\ how = "failed") \/ FetchReturns(d, how)
  PROVE  IInv'
<1>1. /\ {d} \subseteq timers /\ timers' = timers \ {d} /\ Settle({d}, how)
      /\ sock' = sock /\ sent' = sent
      /\ \/ d[2] \in Tunnels /\ pending' = [pending EXCEPT ![d[1]] = NoSub]
         \/ d[2] \in Publics /\ pending' = pending
  BY SubsAssumption DEF Timeout, FetchReturns, Del, Subs
<1>2. /\ pending' \in [Requests -> Tunnels \cup {NoSub}]
      /\ sock' \in [Socks -> SockStates] /\ sent' \subseteq sent
  BY <1>1 DEF IInv, TypeOK
<1>3. ASSUME NEW q \in Requests, pending'[q] # NoSub
      PROVE  pending'[q] = pending[q] /\ <<q, pending[q]>> \notin {d}
  BY <1>1, <1>3, SubsAssumption DEF IInv, TypeOK, Del
<1>4. \A q \in Requests : pending'[q] # NoSub =>
        /\ pending'[q] = pending[q]
        /\ <<q, pending[q]>> \notin {d}
        /\ \A j \in Socks :
             SubOf(j) = pending[q] /\ <<q, j>> \in sent /\ Listed(j)
             => <<q, j>> \in sent' /\ Listed(j)'
  BY <1>1, <1>3 DEF Listed
<1> QED
  BY <1>1, <1>2, <1>4, SettleInv

LEMMA RestartInv == ASSUME IInv, Restart PROVE IInv'
<1> DEFINE D0 == {d \in Del : outcome[d] = "waiting"}
<1>1. /\ D0 = timers /\ timers' = timers \ D0 /\ Settle(D0, "lost")
      /\ sent' \subseteq sent
      /\ \A q \in Requests : pending'[q] = NoSub
      /\ pending' \in [Requests -> Tunnels \cup {NoSub}]
      /\ sock' \in [Socks -> SockStates]
  BY DEF Restart, IInv, WaitingHasTimer, SockStates
<1> HIDE DEF D0
<1> QED
  BY <1>1, SettleInv

\* A socket is accepted or starts closing: no entry loses its peer.
LEMMA SocketInv ==
  ASSUME IInv, NEW k \in Socks, Attach(k) \/ CloseSocket(k)
  PROVE  IInv'
<1>1. /\ UNCHANGED <<pending, timers, sent, outcome>>
      /\ sock' \in [Socks -> SockStates]
      /\ \A j \in Socks : Listed(j) => Listed(j)'
  BY DEF Attach, CloseSocket, IInv, TypeOK, SockStates, Listed
<1> QED
  BY <1>1 DEF IInv, TypeOK, WaitingHasTimer, PendingIsServed, SentIsBegun

LEMMA NextInv == IInv /\ [Next]_vars => IInv'
<1> SUFFICES ASSUME IInv, [Next]_vars PROVE IInv'
  OBVIOUS
<1>1. ASSUME NEW r \in Requests, FanOut(r) \/ ProxyOAuth(r) PROVE IInv'
  BY <1>1, DispatchCases, DispatchInv
<1>2. ASSUME NEW r \in Requests, NEW k \in Socks,
             NEW how \in {"answered", "failed"}, Reply(r, k, how)
      PROVE  IInv'
  BY <1>2, ReplyInv
<1>3. ASSUME NEW d \in Del, Timeout(d) PROVE IInv'
  BY <1>3, TimerInv
<1>4. ASSUME NEW d \in Del, NEW how \in {"answered", "failed"},
             FetchReturns(d, how)
      PROVE  IInv'
  BY <1>4, TimerInv
<1>5. ASSUME NEW k \in Socks, Attach(k) \/ CloseSocket(k) PROVE IInv'
  BY <1>5, SocketInv
<1>6. ASSUME NEW k \in Socks, DetachSocket(k) PROVE IInv'
  <2>1. SubOf(k) \in Tunnels /\ FailPending(SubOf(k)) /\ sent' = sent
    BY <1>6 DEF DetachSocket, FailDeparted, Socks, SubOf
  <2>2. /\ sock' \in [Socks -> SockStates]
        /\ \A j \in Socks : SubOf(j) # SubOf(k) => (Listed(j) => Listed(j)')
    BY <1>6 DEF DetachSocket, IInv, TypeOK, SockStates, Listed
  <2> QED
    BY <2>1, <2>2, FailPendingInv
<1>7. ASSUME NEW s \in Tunnels, Depart(s) PROVE IInv'
  <2>1. FailPending(s) /\ sent' = sent
    BY <1>7 DEF Depart
  <2>2. /\ sock' \in [Socks -> SockStates]
        /\ \A j \in Socks : SubOf(j) # s => (Listed(j) => Listed(j)')
    BY <1>7 DEF Depart, IInv, TypeOK, SockStates, Listed
  <2> QED
    BY <2>1, <2>2, FailPendingInv
<1>8. CASE Restart
  BY <1>8, RestartInv
<1>9. CASE UNCHANGED vars
  BY <1>9 DEF vars, IInv, TypeOK, WaitingHasTimer, PendingIsServed, SentIsBegun, Listed
<1> QED
  BY <1>1, <1>2, <1>3, <1>4, <1>5, <1>6, <1>7, <1>8, <1>9 DEF Next

LEMMA Invariance == Spec => []IInv
BY InitInv, NextInv, PTL DEF Spec

-----------------------------------------------------------------------------
(* Theorems *)

\* The state of the route object's deliveries is well typed.
THEOREM TypeCorrect == Spec => []TypeOK
BY Invariance, PTL DEF IInv

\* No promise of sendAndWait is forgotten: whatever happens to the entries of
\* the map, a delivery that waits has its timer armed.
THEOREM NoDeliveryIsForgotten == Spec => []WaitingHasTimer
BY Invariance, PTL DEF IInv

\* An entry of the map always has a peer that can still answer it.
THEOREM EntriesAreServed == Spec => []PendingIsServed
BY Invariance, PTL DEF IInv

\* A request with a single target is answered by that target only.
THEOREM SoleAnswers == Spec => SoleAnswerIsOwn
<1>1. IInv /\ [Next]_vars =>
        [\A d \in Requests \X Tunnels :
           /\ GetsAnswer(d)
           /\ \A s \in Subs \ {d[2]} : outcome[<<d[1], s>>] = "none"
           => Replied(d[1], d[2])]_vars
  <2> SUFFICES ASSUME IInv, Next, NEW d \in Requests \X Tunnels, GetsAnswer(d),
                      \A s \in Subs \ {d[2]} : outcome[<<d[1], s>>] = "none"
               PROVE  Replied(d[1], d[2])
    BY DEF vars
  <2>0. d \in Del /\ outcome[d] = "waiting" /\ outcome'[d] = "answered"
        /\ d[2] \notin Publics
    BY SubsAssumption DEF GetsAnswer, Del, Subs
  <2>1. PICK r \in Requests, k \in Socks : Reply(r, k, "answered")
    <3>1. ASSUME NEW r \in Requests, FanOut(r) \/ ProxyOAuth(r) PROVE FALSE
      BY <2>0, <3>1, DispatchCases DEF Dispatch, Deliver
    <3>2. \A r \in Requests, k \in Socks : ~Reply(r, k, "failed")
      BY <2>0 DEF Reply, Settle
    <3>3. \A e \in Del : ~Timeout(e)
      BY <2>0 DEF Timeout, Settle
    <3>4. \A e \in Del, how \in {"answered", "failed"} : ~FetchReturns(e, how)
      BY <2>0 DEF FetchReturns, Settle
    <3>5. \A k \in Socks : ~Attach(k) /\ ~CloseSocket(k) /\ ~DetachSocket(k)
      BY <2>0 DEF Attach, CloseSocket, DetachSocket, FailDeparted, FailPending, Settle
    <3>6. \A s \in Tunnels : ~Depart(s)
      BY <2>0 DEF Depart, FailPending, Settle
    <3>7. ~Restart
      BY <2>0 DEF Restart, Settle
    <3> QED
      BY <3>1, <3>2, <3>3, <3>4, <3>5, <3>6, <3>7 DEF Next
  <2>2. /\ <<r, k>> \in sent /\ <<r, k>> \notin sent'
        /\ outcome' = outcome \/ d = <<r, pending[r]>>
    BY <2>0, <2>1 DEF Reply, Settle
  <2>3. d[1] = r
    BY <2>0, <2>2
  <2>4. SubOf(k) \in Subs /\ outcome[<<r, SubOf(k)>>] # "none"
    BY <2>2 DEF IInv, SentIsBegun, Socks, SubOf, Subs
  <2>5. SubOf(k) = d[2]
    BY <2>3, <2>4
  <2> QED
    BY <2>2, <2>3, <2>5 DEF Replied
<1> QED
  BY <1>1, Invariance, PTL DEF Spec, SoleAnswerIsOwn

\* The deliveries of a route object behave as the module Deliveries says: each
\* is begun once and settles once.
THEOREM SettleOnce == Spec => DeliveriesSettleOnce
<1>1. Init => D!Init
  BY DEF Init, D!Init, Del
<1>2. IInv /\ [Next]_vars => [D!Next]_outcome
  <2> SUFFICES ASSUME IInv, Next, outcome' # outcome PROVE D!Next
    BY DEF vars
  <2>1. ASSUME NEW r \in Requests, FanOut(r) \/ ProxyOAuth(r) PROVE D!Next
    <3>1. Undispatched(r) /\ Dispatch(r)
      BY <2>1, DispatchCases
    <3>2. PICK T \in SUBSET Subs :
            \E F \in SUBSET (T \cap Tunnels) : \E via : \E last :
              T # {} /\ Deliver(r, T, F, via, last)
      BY <3>1 DEF Dispatch
    <3>3. PICK F \in SUBSET (T \cap Tunnels) : \E via : \E last :
              T # {} /\ Deliver(r, T, F, via, last)
      BY <3>2
    <3> DEFINE S0 == {r} \X T
               F0 == {r} \X F
    <3>4. outcome' = [d \in Del |-> IF d \in F0 THEN "failed"
                                   ELSE IF d \in S0 THEN "waiting" ELSE outcome[d]]
      BY <3>3 DEF Deliver
    <3>5. /\ S0 \in SUBSET Del /\ F0 \in SUBSET Del /\ F0 \subseteq S0 /\ S0 # {}
          /\ \A d \in S0 : outcome[d] = "none"
      <4>1. S0 \in SUBSET Del /\ F0 \in SUBSET Del /\ F0 \subseteq S0
        BY DEF Del
      <4>2. PICK s \in T : TRUE
        BY <3>3
      <4>3. <<r, s>> \in S0
        BY <4>2
      <4>4. \A d \in S0 : outcome[d] = "none"
        BY <3>1 DEF Undispatched
      <4> QED
        BY <4>1, <4>3, <4>4
    <3>6. D!Begin(S0, F0)
      BY <3>4, <3>5 DEF D!Begin, Del
    <3> HIDE DEF S0, F0
    <3> QED
      BY <3>5, <3>6 DEF D!Next, Del
  <2>2. ASSUME NEW D0 \in SUBSET timers, Settle(D0, "failed") PROVE D!Next
    <3>1. D0 # {}
      BY <2>2 DEF Settle, IInv, TypeOK
    <3>2. D0 \in SUBSET Del /\ \A d \in D0 : outcome[d] = "waiting"
      BY DEF IInv, WaitingHasTimer
    <3>3. D!Fail(D0)
      BY <2>2, <3>1, <3>2 DEF D!Fail, Settle, Del
    <3> QED
      BY <3>2, <3>3 DEF D!Next, Del
  <2>3. ASSUME NEW d \in timers, Settle({d}, "answered") PROVE D!Next
    <3>1. d \in Del /\ outcome[d] = "waiting"
      BY DEF IInv, WaitingHasTimer
    <3>2. outcome' = [outcome EXCEPT ![d] = "answered"]
      BY <2>3, <3>1 DEF Settle, IInv, TypeOK
    <3>3. D!Answer(d)
      BY <3>1, <3>2 DEF D!Answer
    <3> QED
      BY <3>1, <3>3 DEF D!Next, Del
  <2>4. ASSUME NEW r \in Requests, NEW k \in Socks,
               NEW how \in {"answered", "failed"}, Reply(r, k, how)
        PROVE  D!Next
    <3>1. pending[r] # NoSub /\ Settle({<<r, pending[r]>>}, how)
      BY <2>4 DEF Reply
    <3>2. <<r, pending[r]>> \in timers
      BY <3>1 DEF IInv, TypeOK, WaitingHasTimer, PendingIsServed, Del, Subs
    <3> QED
      BY <2>2, <2>3, <3>1, <3>2
  <2>5. ASSUME NEW d \in Del, Timeout(d) PROVE D!Next
    BY <2>2, <2>5 DEF Timeout
  <2>6. ASSUME NEW d \in Del, NEW how \in {"answered", "failed"},
               FetchReturns(d, how)
        PROVE  D!Next
    BY <2>2, <2>3, <2>6 DEF FetchReturns
  <2>7. ASSUME NEW s \in Tunnels, FailPending(s) PROVE D!Next
    <3>1. Entries(s) \subseteq timers
      <4> SUFFICES ASSUME NEW d \in Entries(s) PROVE d \in timers
        OBVIOUS
      <4>1. d = <<d[1], pending[d[1]]>> /\ d[1] \in Requests /\ pending[d[1]] # NoSub
        BY SubsAssumption DEF Entries, Del
      <4> QED
        BY <4>1 DEF Entries, IInv, WaitingHasTimer, PendingIsServed
    <3>2. Settle(Entries(s), "failed")
      BY <2>7 DEF FailPending, Entries
    <3> QED
      BY <2>2, <3>1, <3>2
  <2>8. ASSUME NEW k \in Socks, DetachSocket(k) PROVE D!Next
    BY <2>7, <2>8 DEF DetachSocket, FailDeparted, Socks, SubOf
  <2>9. ASSUME NEW s \in Tunnels, Depart(s) PROVE D!Next
    BY <2>7, <2>9 DEF Depart
  <2>10. CASE Restart
    <3>1. D!Lose
      BY <2>10 DEF Restart, Settle, D!Lose, Del
    <3> QED
      BY <3>1 DEF D!Next
  <2>11. \A k \in Socks : ~Attach(k) /\ ~CloseSocket(k)
    BY DEF Attach, CloseSocket
  <2> QED
    BY <2>1, <2>4, <2>5, <2>6, <2>8, <2>9, <2>10, <2>11 DEF Next
<1> QED
  BY <1>1, <1>2, Invariance, PTL DEF Spec, D!Spec, DeliveriesSettleOnce
=============================================================================
