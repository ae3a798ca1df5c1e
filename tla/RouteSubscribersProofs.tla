----------------------- MODULE RouteSubscribersProofs -----------------------
(***************************************************************************)
(* Theorems about RouteSubscribers for every set of attempts, environments *)
(* and OAuth states, and whether or not a digest yields.                   *)
(***************************************************************************)
EXTENDS RouteSubscribers, TLAPS

-----------------------------------------------------------------------------
(* The purge *)

\* The rows a purge leaves are rows.
LEMMA PurgedRowsType ==
  ASSUME NEW rw \in [Conns -> Row], NEW sk \in [Conns -> SockStates]
  PROVE  PurgedRows(rw, sk) \in [Conns -> Row]
<1>1. NoRow \in Row
  BY DEF NoRow, Row, Ages
<1>2. \A s \in Conns : [rw[s] EXCEPT !.age = "fresh"] \in Row
  BY DEF Row, Ages
<1> QED
  BY <1>1, <1>2 DEF PurgedRows

\* Closing stale sockets keeps the sockets' type.
LEMMA StaleClosedType ==
  ASSUME NEW rw, NEW sk \in [Conns -> SockStates], NEW sk2 \in StaleClosed(rw, sk)
  PROVE  sk2 \in [Conns -> SockStates]
BY DEF StaleClosed, SockStates

\* Extending rows keeps them rows.
LEMMA ExtendedType ==
  ASSUME NEW rw \in [Conns -> Row], NEW S
  PROVE  Extended(rw, S) \in [Conns -> Row]
BY DEF Extended, Row, Ages

\* Deleting bindings, for removed rows or because they are overdue, keeps the
\* bindings' type.
LEMMA BindingsType ==
  ASSUME bindings \in [OAuthStates -> Conns \cup {NoConn}], NEW D
  PROVE  /\ BindingsWithout(D) \in [OAuthStates -> Conns \cup {NoConn}]
         /\ LiveBindings(D) \in [OAuthStates -> Conns \cup {NoConn}]
BY DEF BindingsWithout, LiveBindings

LEMMA AuditType ==
  ASSUME audit \in [Conns -> AuditEvents], NEW D
  PROVE  AuditWithout(D) \in [Conns -> AuditEvents]
BY DEF AuditWithout, AuditEvents

LEMMA PurgeEffectsType ==
  ASSUME TypeOK, NEW rw, NEW sk \in [Conns -> SockStates], PurgeEffects(rw, sk)
  PROVE  /\ sock' \in [Conns -> SockStates]
         /\ bindings' \in [OAuthStates -> Conns \cup {NoConn}]
         /\ overdue' \subseteq OAuthStates
         /\ audit' \in [Conns -> AuditEvents]
         /\ pinged' \subseteq Conns
<1>1. sock' \in StaleClosed(PurgedRows(rw, sk), sk)
  BY DEF PurgeEffects
<1>2. sock' \in [Conns -> SockStates]
  BY <1>1, StaleClosedType
<1> QED
  BY <1>2, BindingsType, AuditType DEF PurgeEffects, TypeOK

LEMMA AskedRow ==
  ASSUME TypeOK, NEW c \in Conns
  PROVE  RowFor(c) \in Row
BY DEF TypeOK, RowFor, Row, Ask, Ages

\* A returning join keeps the types of its locals.
LEMMA ReturnType ==
  ASSUME TypeOK, NEW c \in Conns, NEW o \in Phases, Return(c, o)
  PROVE  /\ phase' \in [Conns -> Phases]
         /\ ask' \in [Conns -> Ask]
         /\ seen' \in [Conns -> Seen]
<1>1. NoAsk \in Ask
  BY DEF NoAsk, Ask
<1>2. [NoSeen EXCEPT !.id = seen[c].id] \in Seen
  BY DEF NoSeen, Seen, TypeOK
<1> QED
  BY <1>1, <1>2 DEF Return, TypeOK

-----------------------------------------------------------------------------
(* Type correctness *)

LEMMA InitType == Init => TypeOK
<1>1. NoRow \in Row /\ NoAsk \in Ask /\ NoSeen \in Seen
  BY DEF NoRow, Row, Ages, NoAsk, Ask, NoSeen, Seen
<1>2. "new" \in Phases /\ "none" \in SockStates /\ "none" \in AuditEvents
  BY DEF Phases, SockStates, AuditEvents
<1> SUFFICES ASSUME Init PROVE TypeOK
  OBVIOUS
<1>3. /\ rows \in [Conns -> Row] /\ phase \in [Conns -> Phases]
      /\ ask \in [Conns -> Ask] /\ seen \in [Conns -> Seen]
  BY <1>1, <1>2 DEF Init
<1>4. /\ sock \in [Conns -> SockStates] /\ audit \in [Conns -> AuditEvents]
      /\ bindings \in [OAuthStates -> Conns \cup {NoConn}]
  BY <1>2 DEF Init
<1> QED
  BY <1>3, <1>4 DEF Init, TypeOK

LEMMA JoinType ==
  ASSUME TypeOK, NEW c \in Conns, Join(c)
  PROVE  TypeOK'
<1>1. ASSUME NEW tr \in {"public", "tunnel"}, NEW e \in Envs \cup {NoEnv},
             NEW p \in Issued \cup {NoConn}, BeginJoin(c, tr, e, p)
      PROVE  TypeOK'
  <2>1. PurgeEffects(rows, sock) /\ rows' = PurgedRows(rows, sock)
    BY <1>1 DEF BeginJoin, PurgeExpired
  <2>2. rows' \in [Conns -> Row]
    BY <2>1, PurgedRowsType DEF TypeOK
  <2>3. ask' \in [Conns -> Ask]
    BY <1>1 DEF BeginJoin, TypeOK, Ask, Issued
  <2>4. \A s \in Conns : Snapshot(rows', s) \in Seen
    BY <2>2 DEF Snapshot, Seen, Row
  <2>5. seen' \in [Conns -> Seen]
    BY <1>1, <2>4 DEF BeginJoin, TypeOK, LookupByEnvironment, RowOfEnv
  <2> QED
    BY <1>1, <2>1, <2>2, <2>3, <2>5, PurgeEffectsType
    DEF BeginJoin, TypeOK, Phases, InFlight, InCrypto
<1>2. JoinAlarm(c) => alarm' \in BOOLEAN
  BY DEF JoinAlarm, CleanupAlarm, TypeOK
<1>3. ASSUME ReclaimRow(c)
      PROVE  TypeOK'
  <2>1. rows' \in [Conns -> Row]
    BY <1>3, AskedRow DEF ReclaimRow, TypeOK
  <2>2. sock' \in [Conns -> SockStates]
    BY <1>3 DEF ReclaimRow, ClosedSockets, TypeOK, SockStates
  <2>3. pinged' \subseteq Conns /\ ignored' \subseteq Conns
    BY <1>3 DEF ReclaimRow, MarkedIgnored, Listed, TypeOK
  <2>4. audit' \in [Conns -> AuditEvents]
    BY <1>3 DEF ReclaimRow, TypeOK, AuditEvents
  <2>5. phase' \in [Conns -> Phases]
    BY <1>3 DEF ReclaimRow, TypeOK, Phases, InFlight
  <2> QED
    BY <1>2, <1>3, <2>1, <2>2, <2>3, <2>4, <2>5 DEF ReclaimRow, TypeOK
<1>4. CASE CreateRow(c)
  BY <1>2, <1>4, AskedRow
  DEF CreateRow, TypeOK, AuditEvents, Phases, InFlight
<1>5. CASE CreateConflicts(c)
  BY <1>5, ReturnType DEF CreateConflicts, TypeOK, Phases
<1>6. CASE ReclaimParked(c)
  BY <1>3, <1>6 DEF ReclaimParked
<1>7. CASE DemandProof(c)
  BY <1>7 DEF DemandProof, TypeOK, Phases, InFlight, InCrypto
<1>8. CASE ReclaimProved(c)
  BY <1>3, <1>8 DEF ReclaimProved
<1>9. CASE RejectJoin(c)
  BY <1>9, ReturnType DEF RejectJoin, TypeOK, Phases
<1>10. CASE FinishJoin(c)
  BY <1>10, ReturnType DEF FinishJoin, TypeOK, Phases, SockStates
<1>11. CASE FailJoin(c)
  BY <1>11, ReturnType DEF FailJoin, TypeOK, Phases
<1> QED
  BY <1>1, <1>4, <1>5, <1>6, <1>7, <1>8, <1>9, <1>10, <1>11 DEF Join

LEMMA HeartbeatType ==
  ASSUME TypeOK, NEW s \in Conns, Heartbeat(s)
  PROVE  TypeOK'
<1>1. rows' \in [Conns -> Row]
  BY PurgedRowsType, ExtendedType DEF Heartbeat, TypeOK
<1>2. alarm' \in BOOLEAN
  BY DEF Heartbeat, CleanupAlarm, TypeOK
<1> QED
  BY <1>1, <1>2, PurgeEffectsType DEF Heartbeat, TypeOK

LEMMA DeregisterType ==
  ASSUME TypeOK, NEW s \in Conns, Deregister(s)
  PROVE  TypeOK'
<1> DEFINE left == [rows EXCEPT ![s] = NoRow]
<1> DEFINE sk == ClosedSockets(s)
<1> DEFINE gone == Purged(left, sk) \cup {r \in {s} : Present(rows, r)}
<1>1. left \in [Conns -> Row]
  BY DEF TypeOK, Row, NoRow, Ages
<1>2. sk \in [Conns -> SockStates]
  BY DEF TypeOK, ClosedSockets, SockStates
<1>3. rows' \in [Conns -> Row]
  BY <1>1, <1>2, PurgedRowsType DEF Deregister
<1>4. sock' \in [Conns -> SockStates]
  BY <1>2, StaleClosedType DEF Deregister
<1>5. /\ bindings' \in [OAuthStates -> Conns \cup {NoConn}]
      /\ audit' \in [Conns -> AuditEvents]
  <2>1. bindings' = LiveBindings(gone) /\ audit' = AuditWithout(gone)
    BY DEF Deregister
  <2>2. /\ LiveBindings(gone) \in [OAuthStates -> Conns \cup {NoConn}]
        /\ AuditWithout(gone) \in [Conns -> AuditEvents]
    BY BindingsType, AuditType DEF TypeOK
  <2> QED
    BY <2>1, <2>2
<1>6. /\ ignored' \subseteq Conns /\ pinged' \subseteq Conns
      /\ overdue' \subseteq OAuthStates /\ alarm' \in BOOLEAN
  BY DEF Deregister, MarkedIgnored, Listed, CleanupAlarm, TypeOK
<1> QED
  BY <1>3, <1>4, <1>5, <1>6 DEF Deregister, TypeOK

LEMMA BindType ==
  ASSUME TypeOK, NEW s \in Conns, NEW st \in OAuthStates, BindOAuthState(s, st)
  PROVE  TypeOK'
<1> DEFINE gone == Purged(rows, sock)
<1>1. rows' \in [Conns -> Row]
  BY PurgedRowsType DEF BindOAuthState, TypeOK
<1>2. sock' \in [Conns -> SockStates]
  BY StaleClosedType DEF BindOAuthState, TypeOK
<1>3. bindings' \in [OAuthStates -> Conns \cup {NoConn}]
  <2>1. LiveBindings(gone) \in [OAuthStates -> Conns \cup {NoConn}]
    BY BindingsType DEF TypeOK
  <2> QED
    BY <2>1 DEF BindOAuthState
<1>4. audit' \in [Conns -> AuditEvents]
  BY AuditType DEF BindOAuthState, TypeOK
<1>5. pinged' \subseteq Conns /\ overdue' \subseteq OAuthStates
  BY DEF BindOAuthState, TypeOK
<1> QED
  BY <1>1, <1>2, <1>3, <1>4, <1>5 DEF BindOAuthState, TypeOK

LEMMA IngressType ==
  ASSUME TypeOK, NEW S \in SUBSET Conns, Ingress(S)
  PROVE  TypeOK'
<1>1. rows' \in [Conns -> Row]
  BY PurgedRowsType, ExtendedType DEF Ingress, TypeOK
<1> QED
  BY <1>1, PurgeEffectsType DEF Ingress, TypeOK

LEMMA AlarmType ==
  ASSUME TypeOK, Alarm
  PROVE  TypeOK'
<1>1. rows' \in [Conns -> Row]
  BY PurgedRowsType DEF Alarm, PurgeExpired, TypeOK
<1>2. alarm' \in BOOLEAN
  BY DEF Alarm, CleanupAlarm
<1> QED
  BY <1>1, <1>2, PurgeEffectsType DEF Alarm, PurgeExpired, TypeOK

LEMMA DetachType ==
  ASSUME TypeOK, NEW c \in Conns, DetachSocket(c)
  PROVE  TypeOK'
<1>1. rows' \in [Conns -> Row]
  <2>1. NoRow \in Row
    BY DEF NoRow, Row, Ages
  <2> QED
    BY <2>1, ExtendedType DEF DetachSocket, TypeOK
<1>2. bindings' \in [OAuthStates -> Conns \cup {NoConn}]
  BY BindingsType DEF DetachSocket, TypeOK
<1>3. audit' \in [Conns -> AuditEvents]
  BY AuditType DEF DetachSocket, TypeOK
<1>4. alarm' \in BOOLEAN
  BY DEF DetachSocket, CleanupAlarm, TypeOK
<1>5. sock' \in [Conns -> SockStates]
  BY DEF DetachSocket, TypeOK, SockStates
<1>6. pinged' \subseteq Conns /\ ignored' \subseteq Conns
  BY DEF DetachSocket, TypeOK
<1> QED
  BY <1>1, <1>2, <1>3, <1>4, <1>5, <1>6 DEF DetachSocket, TypeOK

LEMMA SocketType ==
  ASSUME TypeOK, NEW c \in Conns, Socket(c)
  PROVE  TypeOK'
<1>1. CASE SocketHeartbeat(c)
  BY <1>1, ExtendedType DEF SocketHeartbeat, TypeOK
<1>2. CASE DetachSocket(c)
  BY <1>2, DetachType
<1>3. CASE Ping(c)
  BY <1>3 DEF Ping, TypeOK
<1>4. CASE FallSilent(c)
  BY <1>4 DEF FallSilent, TypeOK
<1> QED
  BY <1>1, <1>2, <1>3, <1>4 DEF Socket

LEMMA RequestType ==
  ASSUME TypeOK, Request
  PROVE  TypeOK'
<1>1. ASSUME NEW c \in PublicClients, Heartbeat(SubOf(c))
      PROVE  TypeOK'
  <2>1. SubOf(c) \in Conns
    BY <1>1 DEF PublicClients, SubOf, TypeOK, Seen
  <2> QED
    BY <1>1, <2>1, HeartbeatType
<1>2. ASSUME NEW s \in Known, Deregister(s)
      PROVE  TypeOK'
  BY <1>2, DeregisterType DEF Known
<1>3. ASSUME NEW s \in Known, NEW st \in OAuthStates, BindOAuthState(s, st)
      PROVE  TypeOK'
  BY <1>3, BindType DEF Known
<1> QED
  BY <1>1, <1>2, <1>3, IngressType DEF Request

LEMMA EnvironmentType ==
  ASSUME TypeOK, Time \/ Hibernate \/ Restart
  PROVE  TypeOK'
<1>1. ASSUME NEW s \in Conns, RowAges(s)
      PROVE  TypeOK'
  <2>1. \A a \in Ages : [rows[s] EXCEPT !.age = a] \in Row
    BY DEF TypeOK, Row
  <2>2. rows' \in [Conns -> Row]
    BY <1>1, <2>1 DEF RowAges, TypeOK, Ages
  <2> QED
    BY <1>1, <2>2 DEF RowAges, TypeOK
<1>2. ASSUME NEW st \in OAuthStates, BindingLapses(st)
      PROVE  TypeOK'
  BY <1>2 DEF BindingLapses, TypeOK
<1>3. CASE Hibernate
  BY <1>3 DEF Hibernate, TypeOK
<1>4. CASE Restart
  <2>1. NoAsk \in Ask
    BY DEF NoAsk, Ask
  <2>2. \A c \in Conns : [NoSeen EXCEPT !.id = seen[c].id] \in Seen
    BY DEF NoSeen, Seen, TypeOK
  <2>3. phase' \in [Conns -> Phases] /\ sock' \in [Conns -> SockStates]
    BY <1>4 DEF Restart, TypeOK, Phases, SockStates
  <2> QED
    BY <1>4, <2>1, <2>2, <2>3 DEF Restart, TypeOK
<1> QED
  BY <1>1, <1>2, <1>3, <1>4 DEF Time

LEMMA NextType == TypeOK /\ [Next]_vars => TypeOK'
<1> SUFFICES ASSUME TypeOK, [Next]_vars PROVE TypeOK'
  OBVIOUS
<1>1. CASE UNCHANGED vars
  BY <1>1 DEF vars, TypeOK
<1> QED
  BY <1>1, JoinType, SocketType, RequestType, AlarmType, EnvironmentType DEF Next

\* Every variable keeps its type.
THEOREM TypeCorrect == Spec => []TypeOK
BY InitType, NextType, PTL DEF Spec

-----------------------------------------------------------------------------
(* The inductive invariant *)

\* A running join asked for a transport.
AskedTransport ==
  \A c \in Conns : phase[c] \in InFlight => ask[c].transport # "none"

\* A subscriber exists, and is captured by joins, only once its own join has
\* inserted it: no join reuses a subscriber id.
CreatedOnce ==
  \A s \in Conns :
    (Present(rows, s) \/ \E c \in Conns : seen[c].id = s)
    => seen[s].id = NoConn /\ phase[s] \in {"attaching", "done", "failed"}

\* A running join that captured a row asked for that row's environment.
CapturedEnvironment ==
  \A c \in Conns :
    (phase[c] \in InCrypto /\ seen[c].id # NoConn)
    => /\ ask[c].env # NoEnv
       /\ Present(rows, seen[c].id) => rows[seen[c].id].env = ask[c].env

\* A row another attempt captured has an environment.
CapturedIsNamed ==
  \A c \in Conns :
    (seen[c].id # NoConn /\ Present(rows, seen[c].id))
    => rows[seen[c].id].env # NoEnv

\* Only a join that returned "done" has a socket.
SocketsAreDone ==
  \A c \in Conns : sock[c] # "none" => phase[c] = "done"

\* A join captures nothing before it begins, and must have captured a row
\* before it asks for proof.
CaptureOrder ==
  \A c \in Conns : /\ phase[c] = "new" => seen[c].id = NoConn
                   /\ phase[c] = "proving" => seen[c].id # NoConn

IInv ==
  /\ TypeOK
  /\ CaptureOrder
  /\ AskedTransport
  /\ CreatedOnce
  /\ CapturedEnvironment
  /\ CapturedIsNamed
  /\ SocketsAreDone
  /\ OneRowPerEnvironment
  /\ BindingsHaveSubscriber
  /\ PublicRowHasAlarm

-----------------------------------------------------------------------------
(* Handlers that only remove or refresh rows *)

\* No row appears, and the rows that stay keep all but their age.
RowsShrink ==
  \A s \in Conns : Present(rows', s) =>
    /\ Present(rows, s)
    /\ rows'[s].env = rows[s].env
    /\ rows'[s].transport = rows[s].transport
    /\ rows'[s].token = rows[s].token

\* A handler that starts none and finishes none of the joins.
LeavesJoins ==
  /\ UNCHANGED <<phase, ask, seen>>
  /\ \A c \in Conns : sock'[c] # "none" => sock[c] # "none"

\* What a purge does to each row.
LEMMA PurgeOfRow ==
  ASSUME NEW rw \in [Conns -> Row], NEW sk, NEW s \in Conns
  PROVE  /\ s \in Purged(rw, sk) => ~Present(PurgedRows(rw, sk), s)
         /\ s \notin Purged(rw, sk) =>
              /\ Present(PurgedRows(rw, sk), s) <=> Present(rw, s)
              /\ PurgedRows(rw, sk)[s].env = rw[s].env
              /\ PurgedRows(rw, sk)[s].transport = rw[s].transport
              /\ PurgedRows(rw, sk)[s].token = rw[s].token
BY DEF PurgedRows, Purged, Present, NoRow, Row

\* Extending rows changes nothing but their age.
LEMMA ExtendedRow ==
  ASSUME NEW rw \in [Conns -> Row], NEW S, NEW s \in Conns
  PROVE  /\ Present(Extended(rw, S), s) <=> Present(rw, s)
         /\ Extended(rw, S)[s].env = rw[s].env
         /\ Extended(rw, S)[s].transport = rw[s].transport
         /\ Extended(rw, S)[s].token = rw[s].token
BY DEF Extended, Present, Row

LEMMA ClosingKeepsNone ==
  ASSUME NEW rw, NEW sk \in [Conns -> SockStates], NEW sk2 \in StaleClosed(rw, sk),
         NEW c \in Conns, sk2[c] # "none"
  PROVE  sk[c] # "none"
BY DEF StaleClosed, Silent

LEMMA PurgeShrinks ==
  ASSUME TypeOK, PurgeEffects(rows, sock),
         \/ rows' = PurgedRows(rows, sock)
         \/ \E S : rows' = Extended(PurgedRows(rows, sock), S)
  PROVE  /\ RowsShrink
         /\ \A c \in Conns : sock'[c] # "none" => sock[c] # "none"
<1>1. RowsShrink
  BY PurgeOfRow, PurgedRowsType, ExtendedRow DEF RowsShrink, TypeOK
<1>2. sock' \in StaleClosed(PurgedRows(rows, sock), sock)
  BY DEF PurgeEffects
<1> QED
  BY <1>1, <1>2, ClosingKeepsNone DEF TypeOK

\* Such a handler keeps what the invariant says of joins, environments and the
\* alarm.
LEMMA ShrinkKeeps ==
  ASSUME IInv, RowsShrink, LeavesJoins, TypeOK',
         alarm' = alarm \/ alarm' = CleanupAlarm(rows')
  PROVE  /\ CaptureOrder' /\ AskedTransport' /\ CreatedOnce' /\ CapturedEnvironment'
         /\ CapturedIsNamed' /\ SocketsAreDone' /\ OneRowPerEnvironment'
         /\ PublicRowHasAlarm'
<1>1. AskedTransport' /\ CaptureOrder'
  BY DEF IInv, AskedTransport, CaptureOrder, LeavesJoins
<1>2. CreatedOnce'
  BY DEF IInv, CreatedOnce, LeavesJoins, RowsShrink
<1>3. CapturedEnvironment'
  <2>1. \A c \in Conns : seen[c].id # NoConn => seen[c].id \in Conns
    BY DEF IInv, TypeOK, Seen
  <2> QED
    BY <2>1 DEF IInv, CapturedEnvironment, LeavesJoins, RowsShrink
<1>4. CapturedIsNamed'
  <2>1. \A c \in Conns : seen[c].id # NoConn => seen[c].id \in Conns
    BY DEF IInv, TypeOK, Seen
  <2> QED
    BY <2>1 DEF IInv, CapturedIsNamed, LeavesJoins, RowsShrink
<1>5. SocketsAreDone'
  BY DEF IInv, SocketsAreDone, LeavesJoins
<1>6. OneRowPerEnvironment'
  BY DEF IInv, OneRowPerEnvironment, RowsShrink
<1>7. PublicRowHasAlarm'
  BY DEF IInv, PublicRowHasAlarm, RowsShrink, CleanupAlarm, Present
<1> QED
  BY <1>1, <1>2, <1>3, <1>4, <1>5, <1>6, <1>7

\* The bindings left when the rows D go point at rows that stay.
LEMMA BindingsAfter ==
  ASSUME IInv, NEW D, NEW st \in OAuthStates, NEW B,
         B = BindingsWithout(D) \/ B = LiveBindings(D), B[st] # NoConn
  PROVE  B[st] \in Conns /\ B[st] \notin D /\ Present(rows, B[st])
<1>1. bindings[st] # NoConn => bindings[st] \in Conns /\ Present(rows, bindings[st])
  BY DEF IInv, TypeOK, BindingsHaveSubscriber
<1> QED
  BY <1>1 DEF BindingsWithout, LiveBindings

\* A purge, with or without the refresh of some rows, leaves no binding behind.
LEMMA PurgeBindings ==
  ASSUME IInv, PurgeEffects(rows, sock),
         \/ rows' = PurgedRows(rows, sock)
         \/ \E S : rows' = Extended(PurgedRows(rows, sock), S)
  PROVE  BindingsHaveSubscriber'
<1> SUFFICES ASSUME NEW t \in OAuthStates, bindings'[t] # NoConn
             PROVE  Present(rows', bindings'[t])
  BY DEF BindingsHaveSubscriber
<1> DEFINE b == bindings'[t]
           kept == PurgedRows(rows, sock)
<1>1. bindings' = LiveBindings(Purged(rows, sock))
  BY DEF PurgeEffects
<1>2. b \in Conns /\ b \notin Purged(rows, sock) /\ Present(rows, b)
  BY <1>1, BindingsAfter
<1>3. rows \in [Conns -> Row] /\ kept \in [Conns -> Row]
  BY PurgedRowsType DEF IInv, TypeOK
<1>4. Present(kept, b)
  BY <1>2, <1>3, PurgeOfRow
<1> HIDE DEF b, kept
<1>5. ASSUME NEW S, rows' = Extended(kept, S)
      PROVE  Present(rows', b)
  BY <1>2, <1>3, <1>4, <1>5, ExtendedRow
<1> QED
  BY <1>4, <1>5 DEF b, kept

LEMMA HeartbeatInv ==
  ASSUME IInv, NEW s \in Conns, Heartbeat(s)
  PROVE  IInv'
<1>1. TypeOK'
  BY HeartbeatType DEF IInv
<1>2. PurgeEffects(rows, sock) /\ rows' = Extended(PurgedRows(rows, sock), {s})
  BY DEF Heartbeat
<1>3. RowsShrink /\ LeavesJoins
  BY <1>2, PurgeShrinks DEF Heartbeat, LeavesJoins, IInv
<1>4. alarm' = alarm \/ alarm' = CleanupAlarm(rows')
  BY DEF Heartbeat
<1>5. BindingsHaveSubscriber'
  BY <1>2, PurgeBindings
<1> QED
  BY <1>1, <1>3, <1>4, <1>5, ShrinkKeeps DEF IInv

LEMMA IngressInv ==
  ASSUME IInv, NEW S \in SUBSET Conns, Ingress(S)
  PROVE  IInv'
<1>1. TypeOK'
  BY IngressType DEF IInv
<1>2. PurgeEffects(rows, sock) /\ rows' = Extended(PurgedRows(rows, sock), S)
  BY DEF Ingress
<1>3. RowsShrink /\ LeavesJoins
  BY <1>2, PurgeShrinks DEF Ingress, LeavesJoins, IInv
<1>4. BindingsHaveSubscriber'
  BY <1>2, PurgeBindings
<1>5. alarm' = alarm
  BY DEF Ingress
<1> QED
  BY <1>1, <1>3, <1>4, <1>5, ShrinkKeeps DEF IInv

LEMMA AlarmInv ==
  ASSUME IInv, Alarm
  PROVE  IInv'
<1>1. TypeOK'
  BY AlarmType DEF IInv
<1>2. PurgeEffects(rows, sock) /\ rows' = PurgedRows(rows, sock)
  BY DEF Alarm, PurgeExpired
<1>3. RowsShrink /\ LeavesJoins
  BY <1>2, PurgeShrinks DEF Alarm, LeavesJoins, IInv
<1>4. BindingsHaveSubscriber'
  BY <1>2, PurgeBindings
<1>5. alarm' = CleanupAlarm(rows')
  BY DEF Alarm
<1> QED
  BY <1>1, <1>3, <1>4, <1>5, ShrinkKeeps DEF IInv

LEMMA BindInv ==
  ASSUME IInv, NEW s \in Conns, NEW st \in OAuthStates, BindOAuthState(s, st)
  PROVE  IInv'
<1> DEFINE kept == PurgedRows(rows, sock)
           gone == Purged(rows, sock)
<1>1. TypeOK'
  BY BindType DEF IInv
<1>2. RowsShrink
  BY PurgeOfRow DEF BindOAuthState, RowsShrink, IInv, TypeOK
<1>3. LeavesJoins
  BY ClosingKeepsNone DEF BindOAuthState, LeavesJoins, IInv, TypeOK
<1>4. BindingsHaveSubscriber'
  <2>1. rows' = kept
    BY DEF BindOAuthState
  <2>2. \A t \in OAuthStates : LiveBindings(gone)[t] # NoConn
                                 => Present(kept, LiveBindings(gone)[t])
    <3> SUFFICES ASSUME NEW t \in OAuthStates, LiveBindings(gone)[t] # NoConn
                 PROVE  Present(kept, LiveBindings(gone)[t])
      OBVIOUS
    <3>1. /\ LiveBindings(gone)[t] \in Conns /\ LiveBindings(gone)[t] \notin gone
          /\ Present(rows, LiveBindings(gone)[t])
      BY BindingsAfter
    <3> QED
      BY <3>1, PurgeOfRow DEF IInv, TypeOK
  <2>3. CASE MayBind(kept, s)
    <3>1. bindings' = [LiveBindings(gone) EXCEPT ![st] = s]
      BY <2>3 DEF BindOAuthState
    <3>2. \A t \in OAuthStates :
            bindings'[t] = s \/ bindings'[t] = LiveBindings(gone)[t]
      BY <3>1 DEF LiveBindings
    <3> QED
      BY <2>1, <2>2, <2>3, <3>2 DEF BindingsHaveSubscriber, MayBind
  <2>4. CASE ~MayBind(kept, s)
    BY <2>1, <2>2, <2>4 DEF BindOAuthState, BindingsHaveSubscriber
  <2> QED
    BY <2>3, <2>4
<1>5. alarm' = alarm
  BY DEF BindOAuthState
<1> QED
  BY <1>1, <1>2, <1>3, <1>4, <1>5, ShrinkKeeps DEF IInv

LEMMA DeregisterInv ==
  ASSUME IInv, NEW s \in Conns, Deregister(s)
  PROVE  IInv'
<1> DEFINE left == [rows EXCEPT ![s] = NoRow]
           sk == ClosedSockets(s)
           kept == PurgedRows(left, sk)
           gone == Purged(left, sk) \cup {r \in {s} : Present(rows, r)}
<1>1. TypeOK'
  BY DeregisterType DEF IInv
<1>2. left \in [Conns -> Row] /\ rows \in [Conns -> Row]
  BY DEF IInv, TypeOK, Row, NoRow, Ages
<1>3. sk \in [Conns -> SockStates]
  BY DEF IInv, TypeOK, ClosedSockets, SockStates
<1>4. rows' = kept /\ sock' \in StaleClosed(kept, sk) /\ bindings' = LiveBindings(gone)
  BY DEF Deregister
<1>5. \A r \in Conns : r # s => left[r] = rows[r]
  BY <1>2
<1>6. ~Present(left, s)
  BY <1>2 DEF Present, NoRow
<1>7. RowsShrink
  <2> HIDE DEF left, sk
  <2>1. \A r \in Conns : Present(kept, r) => r \notin Purged(left, sk) /\ Present(left, r)
    BY <1>2, PurgeOfRow
  <2>2. \A r \in Conns : Present(left, r) => r # s /\ Present(rows, r)
    BY <1>5, <1>6 DEF Present
  <2> QED
    BY <1>2, <1>4, <1>5, <2>1, <2>2, PurgeOfRow DEF RowsShrink
<1>8. LeavesJoins
  <2>1. \A c \in Conns : sk[c] # "none" => sock[c] # "none"
    BY DEF ClosedSockets, Listed
  <2> HIDE DEF sk, kept
  <2> QED
    BY <1>3, <1>4, <2>1, ClosingKeepsNone DEF Deregister, LeavesJoins
<1>9. BindingsHaveSubscriber'
  <2> SUFFICES ASSUME NEW t \in OAuthStates, bindings'[t] # NoConn
               PROVE  Present(rows', bindings'[t])
    BY DEF BindingsHaveSubscriber
  <2> DEFINE b == bindings'[t]
  <2>1. b \in Conns /\ b \notin gone /\ Present(rows, b)
    BY <1>4, BindingsAfter
  <2>2. b # s /\ b \notin Purged(left, sk)
    BY <2>1
  <2>3. Present(left, b)
    BY <1>5, <2>1, <2>2 DEF Present
  <2> HIDE DEF left, sk
  <2> QED
    BY <1>2, <1>4, <2>1, <2>2, <2>3, PurgeOfRow
<1>10. alarm' = CleanupAlarm(rows')
  BY DEF Deregister
<1> QED
  BY <1>1, <1>7, <1>8, <1>9, <1>10, ShrinkKeeps DEF IInv

LEMMA DetachInv ==
  ASSUME IInv, NEW c \in Conns, DetachSocket(c)
  PROVE  IInv'
<1> DEFINE s == SubOf(c)
<1>1. TypeOK'
  BY DetachType DEF IInv
<1>2. s \in Conns
  BY DEF IInv, TypeOK, Seen, SubOf
<1>3. rows \in [Conns -> Row]
  BY DEF IInv, TypeOK
<1>4. LeavesJoins
  BY DEF DetachSocket, LeavesJoins, IInv, TypeOK
<1>5. alarm' = alarm \/ alarm' = CleanupAlarm(rows')
  BY DEF DetachSocket
<1>6. CASE UNCHANGED <<rows, bindings>>
  <2>1. RowsShrink
    BY <1>6 DEF RowsShrink
  <2>2. BindingsHaveSubscriber'
    BY <1>6 DEF IInv, BindingsHaveSubscriber
  <2> QED
    BY <1>1, <1>4, <1>5, <2>1, <2>2, ShrinkKeeps DEF IInv
<1>7. CASE rows' = Extended(rows, {s}) /\ UNCHANGED bindings
  <2>1. RowsShrink
    BY <1>3, <1>7, ExtendedRow DEF RowsShrink
  <2>2. BindingsHaveSubscriber'
    BY <1>3, <1>7, ExtendedRow DEF IInv, TypeOK, BindingsHaveSubscriber
  <2> QED
    BY <1>1, <1>4, <1>5, <2>1, <2>2, ShrinkKeeps DEF IInv
<1>8. CASE /\ rows' = [rows EXCEPT ![s] = NoRow]
           /\ bindings' = BindingsWithout({r \in {s} : Present(rows, r)})
  <2>1. RowsShrink
    BY <1>2, <1>3, <1>8 DEF RowsShrink, Present, NoRow
  <2>2. BindingsHaveSubscriber'
    BY <1>2, <1>3, <1>8, BindingsAfter DEF BindingsHaveSubscriber, Present
  <2> QED
    BY <1>1, <1>4, <1>5, <2>1, <2>2, ShrinkKeeps DEF IInv
<1> QED
  BY <1>6, <1>7, <1>8 DEF DetachSocket

LEMMA SocketInv ==
  ASSUME IInv, NEW c \in Conns, Socket(c)
  PROVE  IInv'
<1>1. TypeOK'
  BY SocketType DEF IInv
<1>2. CASE SocketHeartbeat(c)
  <2>1. rows \in [Conns -> Row]
    BY DEF IInv, TypeOK
  <2>2. rows' = Extended(rows, {SubOf(c)})
    BY <1>2 DEF SocketHeartbeat
  <2>3. RowsShrink
    BY <2>1, <2>2, ExtendedRow DEF RowsShrink
  <2>4. LeavesJoins /\ alarm' = alarm /\ bindings' = bindings
    BY <1>2 DEF SocketHeartbeat, LeavesJoins
  <2>5. BindingsHaveSubscriber'
    BY <2>1, <2>2, <2>4, ExtendedRow DEF IInv, TypeOK, BindingsHaveSubscriber
  <2> QED
    BY <1>1, <2>3, <2>4, <2>5, ShrinkKeeps DEF IInv
<1>3. CASE DetachSocket(c)
  BY <1>3, DetachInv
<1>4. CASE Ping(c) \/ FallSilent(c)
  <2>1. RowsShrink /\ LeavesJoins /\ UNCHANGED <<alarm, rows, bindings>>
    BY <1>4 DEF Ping, FallSilent, RowsShrink, LeavesJoins
  <2>2. BindingsHaveSubscriber'
    BY <2>1 DEF IInv, BindingsHaveSubscriber
  <2> QED
    BY <1>1, <2>1, <2>2, ShrinkKeeps DEF IInv
<1> QED
  BY <1>2, <1>3, <1>4 DEF Socket

LEMMA RequestInv ==
  ASSUME IInv, Request
  PROVE  IInv'
<1>1. ASSUME NEW c \in PublicClients, Heartbeat(SubOf(c))
      PROVE  IInv'
  <2>1. SubOf(c) \in Conns
    BY <1>1 DEF PublicClients, SubOf, IInv, TypeOK, Seen
  <2> QED
    BY <1>1, <2>1, HeartbeatInv
<1>2. ASSUME NEW s \in Known, Deregister(s)
      PROVE  IInv'
  BY <1>2, DeregisterInv DEF Known
<1>3. ASSUME NEW s \in Known, NEW st \in OAuthStates, BindOAuthState(s, st)
      PROVE  IInv'
  BY <1>3, BindInv DEF Known
<1> QED
  BY <1>1, <1>2, <1>3, IngressInv DEF Request

LEMMA TimeInv ==
  ASSUME IInv, Time \/ Hibernate
  PROVE  IInv'
<1>1. TypeOK'
  BY EnvironmentType DEF IInv
<1>2. ASSUME NEW s \in Conns, RowAges(s)
      PROVE  IInv'
  <2>1. rows \in [Conns -> Row]
    BY DEF IInv, TypeOK
  <2>2. \E a : rows' = [rows EXCEPT ![s] = [rows[s] EXCEPT !.age = a]]
    BY <1>2, <2>1 DEF RowAges
  <2>3. \A r \in Conns : /\ Present(rows', r) <=> Present(rows, r)
                         /\ rows'[r].env = rows[r].env
                         /\ rows'[r].transport = rows[r].transport
                         /\ rows'[r].token = rows[r].token
    BY <2>1, <2>2 DEF Present, Row
  <2>4. LeavesJoins /\ alarm' = alarm /\ bindings' = bindings
    BY <1>2 DEF RowAges, LeavesJoins
  <2>5. RowsShrink
    BY <2>3 DEF RowsShrink
  <2>6. BindingsHaveSubscriber'
    BY <2>3, <2>4 DEF IInv, TypeOK, BindingsHaveSubscriber
  <2> QED
    BY <1>1, <2>4, <2>5, <2>6, ShrinkKeeps DEF IInv
<1>3. ASSUME UNCHANGED <<rows, phase, ask, seen, sock, bindings, alarm>>
      PROVE  IInv'
  <2>1. RowsShrink /\ LeavesJoins
    BY <1>3 DEF RowsShrink, LeavesJoins
  <2>2. BindingsHaveSubscriber'
    BY <1>3 DEF IInv, BindingsHaveSubscriber
  <2> QED
    BY <1>1, <1>3, <2>1, <2>2, ShrinkKeeps DEF IInv
<1>4. ASSUME NEW st \in OAuthStates, BindingLapses(st)
      PROVE  IInv'
  BY <1>3, <1>4 DEF BindingLapses
<1>5. CASE Hibernate
  BY <1>3, <1>5 DEF Hibernate
<1> QED
  BY <1>2, <1>4, <1>5 DEF Time

LEMMA RestartInv ==
  ASSUME IInv, Restart
  PROVE  IInv'
<1>1. TypeOK'
  BY EnvironmentType DEF IInv
<1>2. \A c \in Conns : seen'[c].id = seen[c].id
  BY DEF Restart, NoSeen
<1>3. \A c \in Conns : phase'[c] \notin InFlight
  BY DEF Restart, InFlight, InCrypto
<1>4. UNCHANGED <<rows, bindings, alarm>>
  BY DEF Restart
<1>5. AskedTransport' /\ CapturedEnvironment' /\ CaptureOrder'
  BY <1>2, <1>3
  DEF AskedTransport, CapturedEnvironment, CaptureOrder, InFlight, IInv, Restart
<1>6. CreatedOnce'
  <2>1. \A s \in Conns : phase[s] \in {"attaching", "done", "failed"}
                           => phase'[s] \in {"done", "failed"}
    BY DEF Restart, IInv, TypeOK, InFlight, InCrypto
  <2> QED
    BY <1>2, <1>4, <2>1 DEF IInv, CreatedOnce
<1>7. CapturedIsNamed'
  BY <1>2, <1>4 DEF IInv, CapturedIsNamed
<1>8. SocketsAreDone'
  BY DEF Restart, IInv, TypeOK, SocketsAreDone, InFlight, InCrypto
<1>9. OneRowPerEnvironment' /\ BindingsHaveSubscriber' /\ PublicRowHasAlarm'
  BY <1>4 DEF IInv, OneRowPerEnvironment, BindingsHaveSubscriber, PublicRowHasAlarm
<1> QED
  BY <1>1, <1>5, <1>6, <1>7, <1>8, <1>9 DEF IInv

-----------------------------------------------------------------------------
(* The steps of a join *)

LEMMA BeginJoinInv ==
  ASSUME IInv, NEW c \in Conns, TypeOK',
         NEW tr \in {"public", "tunnel"}, NEW e \in Envs \cup {NoEnv},
         NEW p \in Issued \cup {NoConn}, BeginJoin(c, tr, e, p)
  PROVE  IInv'
<1>1. PurgeEffects(rows, sock) /\ rows' = PurgedRows(rows, sock)
  BY DEF BeginJoin, PurgeExpired
<1>2. RowsShrink /\ \A d \in Conns : sock'[d] # "none" => sock[d] # "none"
  BY <1>1, PurgeShrinks DEF IInv
<1>3. BindingsHaveSubscriber'
  BY <1>1, PurgeBindings
<1>4. phase[c] = "new" /\ alarm' = alarm
  BY DEF BeginJoin
<1>5. \A d \in Conns : /\ d # c => phase'[d] = phase[d] /\ ask'[d] = ask[d]
                                   /\ seen'[d] = seen[d]
                       /\ d = c => phase'[d] = "hashing"
  BY DEF BeginJoin, IInv, TypeOK
<1>6. /\ ask'[c].transport = tr
      /\ ask'[c].env = e
  BY DEF BeginJoin, IInv, TypeOK
<1>7. seen'[c].id # seen[c].id =>
        /\ seen'[c].id \in Conns /\ e # NoEnv
        /\ Present(rows', seen'[c].id) /\ rows'[seen'[c].id].env = e
  BY DEF BeginJoin, LookupByEnvironment, RowOfEnv, Snapshot, IInv, TypeOK
<1>8. \A d \in Conns : seen[d].id # c /\ ~Present(rows, c)
  BY <1>4 DEF IInv, CreatedOnce
<1>9. seen[c].id = NoConn
  BY <1>4 DEF IInv, CaptureOrder
<1>10. CaptureOrder' /\ AskedTransport'
  BY <1>5, <1>6 DEF IInv, CaptureOrder, AskedTransport
<1>11. SocketsAreDone'
  BY <1>2, <1>4, <1>5 DEF IInv, SocketsAreDone
<1>12. OneRowPerEnvironment'
  BY <1>2 DEF RowsShrink, IInv, OneRowPerEnvironment
<1>13. PublicRowHasAlarm'
  BY <1>2, <1>4 DEF RowsShrink, IInv, PublicRowHasAlarm, Present
<1>14. \A d \in Conns : seen'[d].id = seen[d].id \/ (d = c /\ seen'[d].id # seen[d].id)
  BY <1>5
<1>15. CreatedOnce'
  <2> SUFFICES ASSUME NEW s \in Conns,
                      Present(rows', s) \/ \E d \in Conns : seen'[d].id = s
               PROVE  /\ seen'[s].id = NoConn
                      /\ phase'[s] \in {"attaching", "done", "failed"}
    BY DEF CreatedOnce
  <2>1. Present(rows, s) \/ \E d \in Conns : seen[d].id = s
    BY <1>2, <1>7, <1>14 DEF RowsShrink
  <2>2. s # c
    BY <1>8, <2>1
  <2> QED
    BY <1>5, <2>1, <2>2 DEF IInv, CreatedOnce
<1>16. CapturedEnvironment'
  <2> SUFFICES ASSUME NEW d \in Conns, phase'[d] \in InCrypto, seen'[d].id # NoConn
               PROVE  /\ ask'[d].env # NoEnv
                      /\ Present(rows', seen'[d].id)
                           => rows'[seen'[d].id].env = ask'[d].env
    BY DEF CapturedEnvironment
  <2>1. CASE d = c
    BY <1>6, <1>7, <1>9, <2>1
  <2>2. CASE d # c
    <3>1. seen[d].id \in Conns
      BY <1>5, <2>2 DEF IInv, TypeOK, Seen
    <3> QED
      BY <1>2, <1>5, <2>2, <3>1 DEF RowsShrink, IInv, CapturedEnvironment
  <2> QED
    BY <2>1, <2>2
<1>17. CapturedIsNamed'
  <2> SUFFICES ASSUME NEW d \in Conns, seen'[d].id # NoConn, Present(rows', seen'[d].id)
               PROVE  rows'[seen'[d].id].env # NoEnv
    BY DEF CapturedIsNamed
  <2>1. CASE seen'[d].id = seen[d].id
    <3>1. seen[d].id \in Conns
      BY <2>1 DEF IInv, TypeOK, Seen
    <3> QED
      BY <1>2, <2>1, <3>1 DEF RowsShrink, IInv, CapturedIsNamed
  <2>2. CASE seen'[d].id # seen[d].id
    BY <1>7, <1>14, <2>2
  <2> QED
    BY <2>1, <2>2
<1> QED
  BY <1>3, <1>10, <1>11, <1>12, <1>13, <1>15, <1>16, <1>17 DEF IInv

LEMMA CreateRowInv ==
  ASSUME IInv, NEW c \in Conns, TypeOK', CreateRow(c)
  PROVE  IInv'
<1>1. /\ phase[c] = "hashing" /\ seen[c].id = NoConn /\ ~Conflicts(c)
      /\ rows' = [rows EXCEPT ![c] = RowFor(c)]
      /\ UNCHANGED <<ask, seen, sock, bindings>>
  BY DEF CreateRow
<1>2. \A d \in Conns : phase'[d] = IF d = c THEN "attaching" ELSE phase[d]
  BY DEF CreateRow, IInv, TypeOK
<1>3. \A d \in Conns : seen[d].id # c /\ ~Present(rows, c)
  BY <1>1 DEF IInv, CreatedOnce
<1>4. rows \in [Conns -> Row]
  BY DEF IInv, TypeOK
<1>5. \A s \in Conns : rows'[s] = IF s = c THEN RowFor(c) ELSE rows[s]
  BY <1>1, <1>4
<1>6. RowFor(c).transport # "none"
  BY <1>1 DEF IInv, AskedTransport, RowFor, InFlight, InCrypto
<1>7. CaptureOrder' /\ AskedTransport'
  BY <1>1, <1>2 DEF IInv, CaptureOrder, AskedTransport, InFlight, InCrypto
<1>8. CreatedOnce'
  BY <1>1, <1>2, <1>5 DEF IInv, CreatedOnce, Present
<1>9. CapturedEnvironment'
  <2>1. \A d \in Conns : phase'[d] \in InCrypto => phase[d] \in InCrypto
    BY <1>2 DEF InCrypto
  <2>2. \A d \in Conns : seen[d].id # NoConn => seen[d].id \in Conns
    BY DEF IInv, TypeOK, Seen
  <2> QED
    BY <1>1, <1>3, <1>5, <2>1, <2>2 DEF IInv, CapturedEnvironment, Present
<1>10. CapturedIsNamed'
  <2>1. \A d \in Conns : seen[d].id # NoConn => seen[d].id \in Conns
    BY DEF IInv, TypeOK, Seen
  <2> QED
    BY <1>1, <1>3, <1>5, <2>1 DEF IInv, CapturedIsNamed, Present
<1>11. SocketsAreDone'
  BY <1>1, <1>2 DEF IInv, SocketsAreDone
<1>12. OneRowPerEnvironment'
  BY <1>1, <1>5
  DEF IInv, OneRowPerEnvironment, Conflicts, RowOfEnv, Present, RowFor
<1>13. BindingsHaveSubscriber'
  BY <1>1, <1>5, <1>6 DEF IInv, BindingsHaveSubscriber, TypeOK, Present
<1>14. PublicRowHasAlarm'
  <2>1. Present(rows', c)
    BY <1>5, <1>6 DEF Present
  <2>2. ask[c].transport = "public" => alarm'
    BY <2>1 DEF CreateRow, JoinAlarm, CleanupAlarm
  <2>3. ask[c].transport # "public" => alarm' = alarm
    BY DEF CreateRow, JoinAlarm
  <2>4. alarm => alarm'
    BY <2>2, <2>3
  <2>5. ASSUME NEW s \in Conns, rows'[s].transport = "public"
        PROVE  alarm'
    <3>1. CASE s = c
      BY <1>5, <2>2, <2>5, <3>1 DEF RowFor
    <3>2. CASE s # c
      BY <1>5, <2>4, <2>5, <3>2 DEF IInv, PublicRowHasAlarm
    <3> QED
      BY <3>1, <3>2
  <2> QED
    BY <2>5 DEF PublicRowHasAlarm
<1> QED
  BY <1>7, <1>8, <1>9, <1>10, <1>11, <1>12, <1>13, <1>14 DEF IInv

LEMMA ReclaimRowInv ==
  ASSUME IInv, NEW c \in Conns, TypeOK', phase[c] \in InCrypto, ReclaimRow(c),
         seen[c].id # NoConn
  PROVE  IInv'
<1> DEFINE s == seen[c].id
<1>1. s \in Conns
  BY DEF IInv, TypeOK, Seen
<1>2. /\ UNCHANGED <<ask, seen, bindings>>
      /\ rows' = IF Present(rows, s) THEN [rows EXCEPT ![s] = RowFor(c)] ELSE rows
  BY DEF ReclaimRow
<1>3. \A d \in Conns : phase'[d] = IF d = c THEN "attaching" ELSE phase[d]
  BY DEF ReclaimRow, IInv, TypeOK
<1>4. rows \in [Conns -> Row]
  BY DEF IInv, TypeOK
<1>5. \A r \in Conns : \/ rows'[r] = rows[r]
                       \/ r = s /\ Present(rows, s) /\ rows'[r] = RowFor(c)
  BY <1>1, <1>2, <1>4
<1>6. RowFor(c).transport # "none"
  BY DEF IInv, AskedTransport, RowFor, InFlight
<1>7. ask[c].env # NoEnv /\ (Present(rows, s) => RowFor(c).env = rows[s].env)
  BY DEF IInv, CapturedEnvironment, RowFor
<1> HIDE DEF s
<1>8. \A r \in Conns : /\ Present(rows', r) <=> Present(rows, r)
                       /\ rows'[r].env = rows[r].env
  BY <1>5, <1>6, <1>7 DEF Present
<1>9. phase[c] # "new"
  BY DEF InCrypto
<1>10. CaptureOrder' /\ AskedTransport'
  BY <1>2, <1>3 DEF IInv, CaptureOrder, AskedTransport, InFlight
<1>11. CreatedOnce'
  BY <1>2, <1>3, <1>8 DEF IInv, CreatedOnce
<1>12. CapturedEnvironment'
  <2>1. \A d \in Conns : phase'[d] \in InCrypto => phase[d] \in InCrypto
    BY <1>3 DEF InCrypto
  <2>2. \A d \in Conns : seen[d].id # NoConn => seen[d].id \in Conns
    BY DEF IInv, TypeOK, Seen
  <2> QED
    BY <1>2, <1>8, <2>1, <2>2 DEF IInv, CapturedEnvironment
<1>13. CapturedIsNamed'
  <2>1. \A d \in Conns : seen[d].id # NoConn => seen[d].id \in Conns
    BY DEF IInv, TypeOK, Seen
  <2> QED
    BY <1>2, <1>8, <2>1 DEF IInv, CapturedIsNamed
<1>14. SocketsAreDone'
  <2>1. \A d \in Conns : sock'[d] # "none" => sock[d] # "none"
    BY DEF ReclaimRow, ClosedSockets, Listed
  <2>2. \A d \in Conns : phase[d] = "done" => phase'[d] = "done"
    BY <1>3 DEF InCrypto
  <2> QED
    BY <2>1, <2>2 DEF IInv, SocketsAreDone
<1>15. OneRowPerEnvironment'
  BY <1>8 DEF IInv, OneRowPerEnvironment
<1>16. BindingsHaveSubscriber'
  BY <1>2, <1>8 DEF IInv, BindingsHaveSubscriber, TypeOK
<1>17. PublicRowHasAlarm'
  <2>1. \/ alarm' = alarm /\ ask[c].transport # "public"
        \/ alarm' = CleanupAlarm(rows')
    BY DEF ReclaimRow, JoinAlarm
  <2>2. ASSUME NEW r \in Conns, rows'[r].transport = "public"
        PROVE  alarm'
    <3>1. CASE alarm' = CleanupAlarm(rows')
      BY <2>2, <3>1 DEF CleanupAlarm, Present
    <3>2. CASE alarm' = alarm /\ ask[c].transport # "public"
      BY <1>5, <2>2, <3>2 DEF IInv, PublicRowHasAlarm, RowFor
    <3> QED
      BY <2>1, <3>1, <3>2
  <2> QED
    BY <2>2 DEF PublicRowHasAlarm
<1> QED
  BY <1>10, <1>11, <1>12, <1>13, <1>14, <1>15, <1>16, <1>17 DEF IInv

\* A join that returns: done or failed while it is attaching, or rejected or
\* failed before it has written a row.
LEMMA ReturnInv ==
  ASSUME IInv, NEW c \in Conns, TypeOK',
         NEW o \in {"done", "rejected", "failed"}, Return(c, o),
         \/ phase[c] = "attaching" /\ o # "rejected"
         \/ phase[c] \in InCrypto,
         UNCHANGED <<rows, bindings, alarm>>,
         \A d \in Conns : sock'[d] # "none" =>
           sock[d] # "none" \/ (d = c /\ phase[c] = "attaching" /\ o = "done")
  PROVE  IInv'
<1>1. \A d \in Conns : /\ phase'[d] = IF d = c THEN o ELSE phase[d]
                       /\ seen'[d].id = seen[d].id
                       /\ d # c => ask'[d] = ask[d]
  BY DEF Return, IInv, TypeOK, NoSeen
<1>2. o \notin InFlight
  BY DEF InFlight, InCrypto
<1>3. AskedTransport'
  BY <1>1, <1>2 DEF IInv, AskedTransport
<1>4. CaptureOrder'
  BY <1>1 DEF IInv, CaptureOrder
<1>5. CreatedOnce'
  <2>1. \A s \in Conns : phase[s] \in {"attaching", "done", "failed"}
                           => phase'[s] \in {"attaching", "done", "failed"}
    BY <1>1 DEF InCrypto
  <2> QED
    BY <1>1, <2>1 DEF IInv, CreatedOnce
<1>6. CapturedEnvironment'
  <2>1. \A d \in Conns : phase'[d] \in InCrypto => d # c /\ phase[d] \in InCrypto
    BY <1>1, <1>2 DEF InFlight
  <2> QED
    BY <1>1, <2>1 DEF IInv, CapturedEnvironment
<1>7. CapturedIsNamed'
  BY <1>1 DEF IInv, CapturedIsNamed
<1>8. SocketsAreDone'
  BY <1>1 DEF IInv, SocketsAreDone, InCrypto
<1>9. OneRowPerEnvironment' /\ BindingsHaveSubscriber' /\ PublicRowHasAlarm'
  BY DEF IInv, OneRowPerEnvironment, BindingsHaveSubscriber, PublicRowHasAlarm
<1> QED
  BY <1>3, <1>4, <1>5, <1>6, <1>7, <1>8, <1>9 DEF IInv

LEMMA DemandProofInv ==
  ASSUME IInv, NEW c \in Conns, TypeOK', DemandProof(c)
  PROVE  IInv'
<1>1. \A d \in Conns : phase'[d] = IF d = c THEN "proving" ELSE phase[d]
  BY DEF DemandProof, IInv, TypeOK
<1>2. /\ phase[c] = "hashing" /\ seen[c].id # NoConn
      /\ UNCHANGED <<rows, ask, seen, sock, bindings, alarm>>
  BY DEF DemandProof
<1>3. AskedTransport' /\ CaptureOrder'
  BY <1>1, <1>2 DEF IInv, AskedTransport, CaptureOrder, InFlight, InCrypto
<1>4. CreatedOnce'
  BY <1>1, <1>2 DEF IInv, CreatedOnce
<1>5. CapturedEnvironment'
  BY <1>1, <1>2 DEF IInv, CapturedEnvironment, InCrypto
<1>6. CapturedIsNamed' /\ SocketsAreDone'
  BY <1>1, <1>2 DEF IInv, CapturedIsNamed, SocketsAreDone
<1>7. OneRowPerEnvironment' /\ BindingsHaveSubscriber' /\ PublicRowHasAlarm'
  BY <1>2 DEF IInv, OneRowPerEnvironment, BindingsHaveSubscriber, PublicRowHasAlarm
<1> QED
  BY <1>3, <1>4, <1>5, <1>6, <1>7 DEF IInv

LEMMA JoinInv ==
  ASSUME IInv, NEW c \in Conns, Join(c)
  PROVE  IInv'
<1>1. TypeOK'
  BY JoinType DEF IInv
<1>2. ASSUME NEW tr \in {"public", "tunnel"}, NEW e \in Envs \cup {NoEnv},
             NEW p \in Issued \cup {NoConn}, BeginJoin(c, tr, e, p)
      PROVE  IInv'
  BY <1>1, <1>2, BeginJoinInv
<1>3. CASE CreateRow(c)
  BY <1>1, <1>3, CreateRowInv
<1>4. CASE CreateConflicts(c)
  BY <1>1, <1>4, ReturnInv DEF CreateConflicts, InCrypto
<1>5. CASE ReclaimParked(c)
  BY <1>1, <1>5, ReclaimRowInv DEF ReclaimParked, InCrypto
<1>6. CASE DemandProof(c)
  BY <1>1, <1>6, DemandProofInv
<1>7. CASE ReclaimProved(c)
  <2>1. seen[c].id # NoConn
    BY <1>7 DEF ReclaimProved, IInv, CaptureOrder
  <2> QED
    BY <1>1, <1>7, <2>1, ReclaimRowInv DEF ReclaimProved, InCrypto
<1>8. CASE RejectJoin(c)
  BY <1>1, <1>8, ReturnInv DEF RejectJoin, InCrypto
<1>9. CASE FinishJoin(c)
  <2>1. \A d \in Conns : sock'[d] # "none" => sock[d] # "none" \/ d = c
    BY <1>9 DEF FinishJoin, IInv, TypeOK
  <2> QED
    BY <1>1, <1>9, <2>1, ReturnInv DEF FinishJoin
<1>10. CASE FailJoin(c)
  BY <1>1, <1>10, ReturnInv DEF FailJoin
<1> QED
  BY <1>2, <1>3, <1>4, <1>5, <1>6, <1>7, <1>8, <1>9, <1>10 DEF Join

-----------------------------------------------------------------------------
(* Theorems *)

LEMMA InitInv == Init => IInv
<1> SUFFICES ASSUME Init PROVE IInv
  OBVIOUS
<1>1. TypeOK
  BY InitType
<1>2. \A s \in Conns : /\ ~Present(rows, s) /\ rows[s].transport = "none"
                       /\ phase[s] = "new" /\ seen[s].id = NoConn
                       /\ sock[s] = "none"
  BY DEF Init, Present, NoRow, NoSeen
<1>3. AskedTransport /\ CaptureOrder /\ CapturedEnvironment
  BY <1>2 DEF AskedTransport, CaptureOrder, CapturedEnvironment, InFlight, InCrypto
<1>4. CreatedOnce
  BY <1>2, ConnsAssumption DEF CreatedOnce
<1>5. CapturedIsNamed /\ SocketsAreDone
  BY <1>2 DEF CapturedIsNamed, SocketsAreDone
<1>6. OneRowPerEnvironment /\ PublicRowHasAlarm
  BY <1>2 DEF OneRowPerEnvironment, PublicRowHasAlarm
<1>7. BindingsHaveSubscriber
  BY DEF Init, BindingsHaveSubscriber
<1> QED
  BY <1>1, <1>3, <1>4, <1>5, <1>6, <1>7 DEF IInv

LEMMA NextInv == IInv /\ [Next]_vars => IInv'
<1> SUFFICES ASSUME IInv, [Next]_vars PROVE IInv'
  OBVIOUS
<1>1. CASE UNCHANGED vars
  <2>1. TypeOK'
    BY <1>1 DEF IInv, TypeOK, vars
  <2> QED
    BY <1>1, <2>1
    DEF vars, IInv, AskedTransport, CaptureOrder, CreatedOnce,
        CapturedEnvironment, CapturedIsNamed, SocketsAreDone,
        OneRowPerEnvironment, BindingsHaveSubscriber, PublicRowHasAlarm,
        Present
<1> QED
  BY <1>1, JoinInv, SocketInv, RequestInv, AlarmInv, TimeInv, RestartInv DEF Next

\* The inductive invariant holds of every execution.
LEMMA Inductive == Spec => []IInv
BY InitInv, NextInv, PTL DEF Spec

\* No two rows share an environment id, whether or not digests yield.
THEOREM EnvironmentsAreUnique == Spec => []OneRowPerEnvironment
<1>1. IInv => OneRowPerEnvironment
  BY DEF IInv
<1> QED
  BY <1>1, Inductive, PTL

\* A bound OAuth state always points at a subscriber that has a row.
THEOREM BindingsAreLive == Spec => []BindingsHaveSubscriber
<1>1. IInv => BindingsHaveSubscriber
  BY DEF IInv
<1> QED
  BY <1>1, Inductive, PTL

\* A public subscriber always has the alarm that can expire it.
THEOREM PublicRowsCanExpire == Spec => []PublicRowHasAlarm
<1>1. IInv => PublicRowHasAlarm
  BY DEF IInv
<1> QED
  BY <1>1, Inductive, PTL

-----------------------------------------------------------------------------
(* A serving tunnel is kept *)

\* Its row, and every other attempt's snapshot, left alone in all but age.
LEMMA KeptByRow ==
  ASSUME NEW c \in Conns, Serving(c), sock'[c] = "open",
         seen'[c].id = seen[c].id,
         rows'[SubOf(c)].transport = rows[SubOf(c)].transport,
         rows'[SubOf(c)].token = rows[SubOf(c)].token
  PROVE  Serving(c)'
<1>1. SubOf(c)' = SubOf(c)
  BY DEF SubOf
<1> QED
  BY <1>1 DEF Serving

\* No purge removes the row of a listed socket that is a tunnel's.
LEMMA PurgeSparesListed ==
  ASSUME NEW rw \in [Conns -> Row], NEW sk, NEW c \in Conns,
         SubOf(c) \in Conns, sk[c] = "open", rw[SubOf(c)].transport = "tunnel"
  PROVE  /\ PurgedRows(rw, sk)[SubOf(c)].transport = rw[SubOf(c)].transport
         /\ PurgedRows(rw, sk)[SubOf(c)].token = rw[SubOf(c)].token
<1>1. c \in Listed(sk, SubOf(c))
  BY DEF Listed
<1>2. SubOf(c) \notin Purged(rw, sk)
  BY <1>1 DEF Purged, IsPurged
<1> QED
  BY <1>2, PurgeOfRow

LEMMA ClosingNeverOpens ==
  ASSUME NEW rw, NEW sk \in [Conns -> SockStates], NEW sk2 \in StaleClosed(rw, sk),
         NEW c \in Conns, sk2[c] = "open"
  PROVE  sk[c] = "open"
BY DEF StaleClosed

LEMMA KeptStep ==
  ASSUME IInv, Next, NEW c \in Conns, Serving(c), sock'[c] = "open"
  PROVE  Serving(c)'
<1> DEFINE s == SubOf(c)
<1>1. s \in Conns /\ rows \in [Conns -> Row] /\ sock \in [Conns -> SockStates]
  BY DEF IInv, TypeOK, Seen, SubOf
<1>2. sock[c] = "open" /\ rows[s].transport = "tunnel" /\ phase[c] = "done"
  BY DEF Serving, IInv, SocketsAreDone
<1>3. /\ PurgedRows(rows, sock)[s].transport = rows[s].transport
      /\ PurgedRows(rows, sock)[s].token = rows[s].token
  BY <1>1, <1>2, PurgeSparesListed
<1>4. PurgedRows(rows, sock) \in [Conns -> Row]
  BY <1>1, PurgedRowsType
<1>5. ASSUME NEW S, seen' = seen,
             \/ rows' = PurgedRows(rows, sock)
             \/ rows' = Extended(PurgedRows(rows, sock), S)
             \/ rows' = Extended(rows, S)
             \/ rows' = rows
      PROVE  Serving(c)'
  BY <1>1, <1>3, <1>4, <1>5, ExtendedRow, KeptByRow
<1>6. ASSUME NEW d \in Conns, Join(d)
      PROVE  Serving(c)'
  <2>1. ASSUME NEW tr \in {"public", "tunnel"}, NEW e \in Envs \cup {NoEnv},
               NEW p \in Issued \cup {NoConn}, BeginJoin(d, tr, e, p)
        PROVE  Serving(c)'
    <3>1. seen'[c].id = seen[c].id
      BY <1>2, <2>1 DEF BeginJoin, IInv, TypeOK
    <3>2. rows' = PurgedRows(rows, sock)
      BY <2>1 DEF BeginJoin, PurgeExpired
    <3> QED
      BY <1>3, <3>1, <3>2, KeptByRow
  <2>2. CASE CreateRow(d)
    <3>1. Present(rows, s)
      BY <1>2 DEF Present
    <3>2. s # d
      BY <1>1, <2>2, <3>1 DEF CreateRow, IInv, CreatedOnce
    <3> QED
      BY <1>1, <2>2, <3>2, KeptByRow DEF CreateRow
  <2>3. ASSUME ReclaimRow(d)
        PROVE  Serving(c)'
    <3>1. s # seen[d].id
      <4>1. c \notin Listed(sock, seen[d].id)
        BY <2>3 DEF ReclaimRow, ClosedSockets
      <4> QED
        BY <1>2, <4>1 DEF Listed
    <3> QED
      BY <1>1, <2>3, <3>1, KeptByRow DEF ReclaimRow
  <2>4. ASSUME NEW o, Return(d, o), rows' = rows
        PROVE  Serving(c)'
    <3>1. seen'[c].id = seen[c].id
      BY <2>4 DEF Return, NoSeen, IInv, TypeOK
    <3> QED
      BY <2>4, <3>1, KeptByRow
  <2>5. CASE DemandProof(d)
    BY <1>5, <2>5 DEF DemandProof
  <2> QED
    BY <1>6, <2>1, <2>2, <2>3, <2>4, <2>5
    DEF Join, CreateConflicts, ReclaimParked, ReclaimProved, RejectJoin,
        FinishJoin, FailJoin
<1>7. ASSUME NEW r \in Conns, Deregister(r)
      PROVE  Serving(c)'
  <2> DEFINE left == [rows EXCEPT ![r] = NoRow]
             sk == ClosedSockets(r)
  <2>1. left \in [Conns -> Row] /\ sk \in [Conns -> SockStates]
    BY <1>1 DEF Row, NoRow, Ages, ClosedSockets, SockStates
  <2>2. rows' = PurgedRows(left, sk) /\ sock' \in StaleClosed(rows', sk)
        /\ seen' = seen
    BY <1>7 DEF Deregister
  <2>3. sk[c] = "open"
    BY <2>1, <2>2, ClosingNeverOpens
  <2>4. s # r
    BY <1>2, <2>3 DEF ClosedSockets, Listed
  <2>5. left[s] = rows[s]
    BY <1>1, <2>4
  <2> HIDE DEF left, sk
  <2>6. /\ PurgedRows(left, sk)[s].transport = left[s].transport
        /\ PurgedRows(left, sk)[s].token = left[s].token
    BY <1>1, <1>2, <2>1, <2>3, <2>5, PurgeSparesListed
  <2> QED
    BY <2>2, <2>5, <2>6, KeptByRow
<1>8. ASSUME NEW d \in Conns, DetachSocket(d)
      PROVE  Serving(c)'
  <2>1. d # c
    BY <1>1, <1>8 DEF DetachSocket
  <2>2. ASSUME SubOf(d) = s, ~Parks(s)
        PROVE  FALSE
    <3>1. Present(rows, s) /\ rows[s].env = NoEnv
      BY <1>2, <2>2 DEF Parks, Present
    <3>2. seen[d].id = NoConn /\ seen[c].id = NoConn
      BY <2>2, <3>1 DEF SubOf, IInv, CapturedIsNamed
    <3> QED
      BY <2>1, <2>2, <3>2 DEF SubOf
  <2>3. seen' = seen
    BY <1>8 DEF DetachSocket
  <2>4. \/ rows' = rows
        \/ rows' = Extended(rows, {SubOf(d)})
        \/ rows' = [rows EXCEPT ![SubOf(d)] = NoRow] /\ ~Parks(SubOf(d))
    BY <1>8 DEF DetachSocket
  <2>5. CASE rows' = [rows EXCEPT ![SubOf(d)] = NoRow] /\ ~Parks(SubOf(d))
    BY <1>1, <2>2, <2>3, <2>5, KeptByRow
  <2> QED
    BY <1>5, <2>3, <2>4, <2>5
<1>9. ASSUME NEW r \in Conns, RowAges(r)
      PROVE  Serving(c)'
  <2>1. \E a : rows' = [rows EXCEPT ![r] = [rows[r] EXCEPT !.age = a]]
    BY <1>1, <1>9 DEF RowAges
  <2>2. /\ rows'[s].transport = rows[s].transport
        /\ rows'[s].token = rows[s].token
    BY <1>1, <2>1 DEF Row
  <2> QED
    BY <1>9, <2>2, KeptByRow DEF RowAges
<1>10. CASE Restart
  BY <1>2, <1>10 DEF Restart, IInv, TypeOK
<1>11. CASE Request
  <2>1. ASSUME NEW d \in PublicClients, Heartbeat(SubOf(d))
        PROVE  Serving(c)'
    BY <1>5, <2>1 DEF Heartbeat
  <2>2. ASSUME NEW r \in Known, NEW st \in OAuthStates, BindOAuthState(r, st)
        PROVE  Serving(c)'
    BY <1>5, <2>2 DEF BindOAuthState
  <2>3. ASSUME NEW S \in SUBSET Conns, Ingress(S)
        PROVE  Serving(c)'
    BY <1>5, <2>3 DEF Ingress
  <2> QED
    BY <1>7, <1>11, <2>1, <2>2, <2>3 DEF Request, Known
<1>12. CASE Alarm \/ Hibernate
  BY <1>5, <1>12 DEF Alarm, PurgeExpired, Hibernate
<1>13. ASSUME NEW d \in Conns, Socket(d)
       PROVE  Serving(c)'
  BY <1>5, <1>8, <1>13 DEF Socket, SocketHeartbeat, Ping, FallSilent
<1>14. CASE Time
  BY <1>5, <1>9, <1>14 DEF Time, BindingLapses
<1> QED
  BY <1>6, <1>10, <1>11, <1>12, <1>13, <1>14 DEF Next

\* A serving tunnel stops serving only by its socket being closed: whatever
\* interleaves, no step leaves it open and unregistered.
THEOREM ServingTunnelsAreKept == Spec => AttachedTunnelIsKept
<1>1. IInv /\ [Next]_vars
      => [\A c \in Conns : (Serving(c) /\ ~Serving(c)') => sock'[c] # "open"]_vars
  BY KeptStep
<1> QED
  BY <1>1, Inductive, PTL DEF Spec, AttachedTunnelIsKept

-----------------------------------------------------------------------------
(* Every tunnel row is held by the attempt whose token it has *)

\* Attempt c wrote the row s last, and still has to finish, has its socket, lost
\* it, or was logged as disconnected; an anonymous row never is parked.
HeldBy(c, s) ==
  /\ c \in Conns /\ SubOf(c) = s
  /\ phase[c] \in {"attaching", "done", "failed"}
  /\ \/ phase[c] = "attaching" /\ ask[c].transport = "tunnel"
     \/ phase[c] = "failed"
     \/ sock[c] = "lost"
     \/ sock[c] \in {"open", "closing"} /\ c \notin ignored
     \/ audit[s] = "disconnected"
  /\ rows[s].env = NoEnv => c = s /\ audit[s] # "disconnected"

TunnelsAreHeld ==
  \A s \in Conns : rows[s].transport = "tunnel" => HeldBy(rows[s].token, s)

IgnoredAreListed == \A c \in ignored : sock[c] \in {"open", "closing"}

HeldInv == IInv /\ TunnelsAreHeld /\ IgnoredAreListed

\* The row s stays but for its age, and so does what its attempt c has.
Undisturbed(c, s) ==
  /\ rows'[s].env = rows[s].env
  /\ seen'[c].id = seen[c].id
  /\ phase'[c] = phase[c]
  /\ ask'[c] = ask[c]
  /\ sock'[c] = sock[c] \/ (sock[c] = "open" /\ sock'[c] = "closing")
  /\ c \in ignored' => c \in ignored
  /\ audit'[s] = audit[s]

LEMMA UndisturbedIsHeld ==
  ASSUME NEW c, NEW s, HeldBy(c, s), Undisturbed(c, s)
  PROVE  HeldBy(c, s)'
BY DEF HeldBy, Undisturbed, SubOf

\* A purge, or the closing of silent sockets, moves sockets from open to closing.
LEMMA StaleClosedMoves ==
  ASSUME NEW rw, NEW sk \in [Conns -> SockStates], NEW sk2 \in StaleClosed(rw, sk),
         NEW c \in Conns
  PROVE  sk2[c] = sk[c] \/ (sk[c] = "open" /\ sk2[c] = "closing")
BY DEF StaleClosed, Silent

LEMMA PurgeMoves ==
  ASSUME TypeOK, PurgeEffects(rows, sock)
  PROVE  \A c \in Conns : sock'[c] = sock[c] \/ (sock[c] = "open" /\ sock'[c] = "closing")
<1>1. sock' \in StaleClosed(PurgedRows(rows, sock), sock)
  BY DEF PurgeEffects
<1> QED
  BY <1>1, StaleClosedMoves DEF TypeOK

\* The handlers that purge and touch no join.
LEMMA PurgeHeld ==
  ASSUME HeldInv,
         \A c \in Conns : sock'[c] = sock[c] \/ (sock[c] = "open" /\ sock'[c] = "closing"),
         audit' = AuditWithout(Purged(rows, sock)),
         \/ rows' = PurgedRows(rows, sock)
         \/ \E S : rows' = Extended(PurgedRows(rows, sock), S),
         UNCHANGED ignored,
         \A c \in Conns : phase[c] # "new" =>
           phase'[c] = phase[c] /\ ask'[c] = ask[c] /\ seen'[c] = seen[c]
  PROVE  TunnelsAreHeld' /\ IgnoredAreListed'
<1>1. IgnoredAreListed'
  BY DEF HeldInv, IgnoredAreListed, IInv, TypeOK
<1>2. rows \in [Conns -> Row] /\ PurgedRows(rows, sock) \in [Conns -> Row]
  BY PurgedRowsType DEF HeldInv, IInv, TypeOK
<1>3. ASSUME NEW s \in Conns, rows'[s].transport = "tunnel"
      PROVE  HeldBy(rows[s].token, s)'
  <2>1. /\ PurgedRows(rows, sock)[s].transport = "tunnel"
        /\ PurgedRows(rows, sock)[s].token = rows'[s].token
        /\ PurgedRows(rows, sock)[s].env = rows'[s].env
    BY <1>2, <1>3, ExtendedRow
  <2>2. s \notin Purged(rows, sock)
    BY <1>2, <2>1, PurgeOfRow DEF Present
  <2>3. /\ rows[s].transport = "tunnel" /\ rows[s].token = rows'[s].token
        /\ rows[s].env = rows'[s].env
    BY <1>2, <2>1, <2>2, PurgeOfRow
  <2>4. PICK c : c = rows[s].token
    OBVIOUS
  <2>5. HeldBy(c, s)
    BY <2>3, <2>4 DEF HeldInv, TunnelsAreHeld
  <2>6. audit'[s] = audit[s]
    BY <2>2 DEF AuditWithout
  <2>7. Undisturbed(c, s)
    BY <2>3, <2>5, <2>6 DEF Undisturbed, HeldBy
  <2>8. HeldBy(c, s)'
    BY <2>5, <2>7, UndisturbedIsHeld
  <2> QED
    BY <2>3, <2>4, <2>8
<1> QED
  BY <1>1, <1>3 DEF TunnelsAreHeld

\* A tunnel row that was held and is undisturbed is held.
LEMMA KeptIsHeld ==
  ASSUME HeldInv, NEW s \in Conns, NEW c,
         rows[s].transport = "tunnel", rows[s].token = c, rows'[s].token = c,
         HeldBy(c, s) => Undisturbed(c, s)
  PROVE  HeldBy(rows[s].token, s)'
<1>1. HeldBy(c, s)
  BY DEF HeldInv, TunnelsAreHeld
<1>2. HeldBy(c, s)'
  BY <1>1, UndisturbedIsHeld
<1> QED
  BY <1>2

LEMMA DeregisterHeld ==
  ASSUME HeldInv, NEW s \in Conns, Deregister(s)
  PROVE  TunnelsAreHeld' /\ IgnoredAreListed'
<1> DEFINE left == [rows EXCEPT ![s] = NoRow]
           sk == ClosedSockets(s)
           gone == Purged(left, sk) \cup {r \in {s} : Present(rows, r)}
<1>1. left \in [Conns -> Row] /\ sk \in [Conns -> SockStates]
  BY DEF HeldInv, IInv, TypeOK, Row, NoRow, Ages, ClosedSockets, SockStates
<1>2. /\ rows' = PurgedRows(left, sk) /\ sock' \in StaleClosed(rows', sk)
      /\ ignored' = MarkedIgnored(s) /\ audit' = AuditWithout(gone)
      /\ UNCHANGED <<phase, ask, seen>>
  BY DEF Deregister
<1>3. \A r \in Conns : left[r].transport = "tunnel" => r # s /\ left[r] = rows[r]
  BY DEF NoRow, HeldInv, IInv, TypeOK
<1>4. \A c \in Conns : \/ sk[c] = sock[c] \/ (sock[c] = "open" /\ sk[c] = "closing")
  BY DEF ClosedSockets, Listed
<1> HIDE DEF left, sk
<1>5. \A c \in Conns : sock'[c] = sk[c] \/ (sk[c] = "open" /\ sock'[c] = "closing")
  BY <1>1, <1>2, StaleClosedMoves
<1>6. \A c \in Conns : sock'[c] = sock[c] \/ (sock[c] = "open" /\ sock'[c] = "closing")
  BY <1>4, <1>5
<1>7. IgnoredAreListed'
  BY <1>2, <1>6 DEF MarkedIgnored, Listed, HeldInv, IgnoredAreListed, IInv, TypeOK
<1>8. ASSUME NEW r \in Conns, rows'[r].transport = "tunnel"
      PROVE  HeldBy(rows[r].token, r)'
  <2>1. r \notin Purged(left, sk)
    BY <1>1, <1>2, <1>8, PurgeOfRow DEF Present
  <2>2. /\ left[r].transport = "tunnel" /\ left[r].token = rows'[r].token
        /\ left[r].env = rows'[r].env
    BY <1>1, <1>2, <1>8, <2>1, PurgeOfRow
  <2>3. /\ r # s /\ rows[r].transport = "tunnel" /\ rows[r].token = rows'[r].token
        /\ rows[r].env = rows'[r].env
    BY <1>3, <2>2
  <2>4. audit'[r] = audit[r]
    BY <1>2, <2>1, <2>3 DEF AuditWithout
  <2>5. PICK c : c = rows[r].token
    OBVIOUS
  <2>6. ASSUME HeldBy(c, r) PROVE Undisturbed(c, r)
    <3>1. c \notin Listed(sock, s)
      BY <2>3, <2>6 DEF HeldBy, Listed
    <3> QED
      BY <1>2, <1>6, <2>3, <2>4, <2>6, <3>1 DEF Undisturbed, HeldBy, MarkedIgnored
  <2> QED
    BY <2>3, <2>5, <2>6, KeptIsHeld
<1> QED
  BY <1>7, <1>8 DEF TunnelsAreHeld

LEMMA DetachHeld ==
  ASSUME HeldInv, NEW c \in Conns, DetachSocket(c)
  PROVE  TunnelsAreHeld' /\ IgnoredAreListed'
<1> DEFINE s == SubOf(c)
<1>1. s \in Conns /\ rows \in [Conns -> Row]
  BY DEF HeldInv, IInv, TypeOK, Seen, SubOf
<1>2. /\ sock[c] \in {"open", "closing"} /\ UNCHANGED <<phase, ask, seen>>
      /\ \A d \in Conns : sock'[d] = IF d = c THEN "gone" ELSE sock[d]
      /\ ignored' = ignored \ {c}
  BY DEF DetachSocket, HeldInv, IInv, TypeOK
<1>3. IgnoredAreListed'
  BY <1>2 DEF HeldInv, IgnoredAreListed, IInv, TypeOK
<1>4. ASSUME NEW r \in Conns, rows'[r].transport = "tunnel"
      PROVE  HeldBy(rows[r].token, r)'
  <2>1. \/ WasIgnored(c) /\ UNCHANGED <<rows, audit>>
        \/ Parks(s) /\ rows' = Extended(rows, {s}) /\ audit' = AuditWithout({s})
        \/ /\ rows' = [rows EXCEPT ![s] = NoRow]
           /\ audit' = AuditWithout({q \in {s} : Present(rows, q)})
    BY DEF DetachSocket
  <2>2. /\ rows[r].transport = "tunnel" /\ rows'[r].token = rows[r].token
        /\ rows'[r].env = rows[r].env
    BY <1>1, <1>4, <2>1, ExtendedRow DEF NoRow
  <2>3. PICK d : d = rows[r].token
    OBVIOUS
  <2>4. HeldBy(d, r)
    BY <2>2, <2>3 DEF HeldInv, TunnelsAreHeld
  <2>5. CASE r # s
    <3>1. d # c
      BY <2>4, <2>5 DEF HeldBy
    <3>2. audit'[r] = audit[r]
      BY <2>1, <2>5 DEF AuditWithout
    <3>3. Undisturbed(d, r)
      BY <1>2, <2>2, <2>4, <3>1, <3>2 DEF Undisturbed, HeldBy
    <3> QED
      BY <2>2, <2>3, <3>3, KeptIsHeld
  <2>6. CASE r = s /\ WasIgnored(c) /\ UNCHANGED <<rows, audit>>
    <3>1. CASE d # c
      <4>1. Undisturbed(d, r)
        BY <1>2, <2>2, <2>4, <2>6, <3>1 DEF Undisturbed, HeldBy
      <4> QED
        BY <2>2, <2>3, <4>1, KeptIsHeld
    <3>2. CASE d = c
      <4>1. phase[c] = "done"
        BY <1>2 DEF HeldInv, IInv, SocketsAreDone
      <4>2. audit[r] = "disconnected"
        BY <1>2, <2>4, <2>6, <3>2, <4>1 DEF HeldBy, WasIgnored
      <4> QED
        BY <1>2, <2>2, <2>3, <2>4, <2>6, <4>2 DEF HeldBy, SubOf
    <3> QED
      BY <3>1, <3>2
  <2>7. CASE r = s /\ Parks(s) /\ rows' = Extended(rows, {s}) /\ audit' = AuditWithout({s})
    <3>1. audit'[r] = "disconnected" /\ rows'[r].env # NoEnv
      BY <2>2, <2>7 DEF AuditWithout, Parks
    <3> QED
      BY <1>2, <2>2, <2>3, <2>4, <3>1 DEF HeldBy, SubOf
  <2>8. CASE r = s /\ rows' = [rows EXCEPT ![s] = NoRow]
    BY <1>1, <1>4, <2>8 DEF NoRow
  <2> QED
    BY <2>1, <2>5, <2>6, <2>7, <2>8
<1> QED
  BY <1>3, <1>4 DEF TunnelsAreHeld

\* Steps that leave rows, but for their age, joins and the log alone, and ignore
\* no further socket.
LEMMA QuietHeld ==
  ASSUME HeldInv, UNCHANGED <<phase, ask, seen, sock, audit>>,
         ignored' = ignored \/ ignored' = {},
         \A s \in Conns : /\ rows'[s].transport = rows[s].transport
                          /\ rows'[s].token = rows[s].token
                          /\ rows'[s].env = rows[s].env
  PROVE  TunnelsAreHeld' /\ IgnoredAreListed'
<1>1. IgnoredAreListed'
  BY DEF HeldInv, IgnoredAreListed
<1>2. ASSUME NEW s \in Conns, rows'[s].transport = "tunnel"
      PROVE  HeldBy(rows[s].token, s)'
  <2>1. PICK c : c = rows[s].token
    OBVIOUS
  <2>2. Undisturbed(c, s)
    BY DEF Undisturbed
  <2> QED
    BY <1>2, <2>1, <2>2, KeptIsHeld
<1> QED
  BY <1>1, <1>2 DEF TunnelsAreHeld

LEMMA CreateRowHeld ==
  ASSUME HeldInv, NEW c \in Conns, CreateRow(c)
  PROVE  TunnelsAreHeld' /\ IgnoredAreListed'
<1>1. /\ phase[c] = "hashing" /\ seen[c].id = NoConn
      /\ UNCHANGED <<ask, seen, sock, ignored>>
      /\ \A s \in Conns : /\ rows'[s] = IF s = c THEN RowFor(c) ELSE rows[s]
                          /\ audit'[s] = IF s = c THEN "connected" ELSE audit[s]
                          /\ phase'[s] = IF s = c THEN "attaching" ELSE phase[s]
  BY DEF CreateRow, HeldInv, IInv, TypeOK
<1>2. IgnoredAreListed'
  BY <1>1 DEF HeldInv, IgnoredAreListed
<1>3. ASSUME NEW s \in Conns, rows'[s].transport = "tunnel"
      PROVE  HeldBy(rows[s].token, s)'
  <2>1. PICK d : d = rows'[s].token
    OBVIOUS
  <2>2. CASE s = c
    <3>1. d = c /\ ask'[c].transport = "tunnel"
      BY <1>1, <1>3, <2>1, <2>2 DEF RowFor
    <3>2. phase'[c] = "attaching" /\ seen'[c].id = NoConn /\ audit'[s] # "disconnected"
      BY <1>1, <2>2
    <3> QED
      BY <2>1, <2>2, <3>1, <3>2 DEF HeldBy, SubOf
  <2>3. CASE s # c
    <3>1. /\ rows[s].transport = "tunnel" /\ rows[s].token = d
          /\ rows'[s].env = rows[s].env /\ audit'[s] = audit[s]
      BY <1>1, <1>3, <2>1, <2>3
    <3>2. HeldBy(d, s) => d # c
      BY <1>1 DEF HeldBy
    <3>3. HeldBy(d, s) => Undisturbed(d, s)
      BY <1>1, <3>1, <3>2 DEF Undisturbed, HeldBy
    <3> QED
      BY <2>1, <3>1, <3>3, KeptIsHeld
  <2> QED
    BY <2>2, <2>3
<1> QED
  BY <1>2, <1>3 DEF TunnelsAreHeld

LEMMA ReclaimRowHeld ==
  ASSUME HeldInv, NEW c \in Conns, ReclaimRow(c), phase[c] \in InCrypto,
         seen[c].id # NoConn
  PROVE  TunnelsAreHeld' /\ IgnoredAreListed'
<1> DEFINE q == seen[c].id
<1>1. q \in Conns /\ rows \in [Conns -> Row] /\ SubOf(c) = q
  BY DEF HeldInv, IInv, TypeOK, Seen, SubOf
<1>2. /\ UNCHANGED <<ask, seen>>
      /\ ignored' = MarkedIgnored(q)
      /\ rows' = IF Present(rows, q) THEN [rows EXCEPT ![q] = RowFor(c)] ELSE rows
      /\ \A s \in Conns : /\ audit'[s] = IF s = q THEN "connected" ELSE audit[s]
                          /\ phase'[s] = IF s = c THEN "attaching" ELSE phase[s]
                          /\ sock'[s] = IF s \in Listed(sock, q) THEN "closing" ELSE sock[s]
  BY <1>1 DEF ReclaimRow, ClosedSockets, HeldInv, IInv, TypeOK
<1>3. IgnoredAreListed'
  BY <1>2 DEF HeldInv, IgnoredAreListed, MarkedIgnored, Listed, IInv, TypeOK
<1>4. ASSUME NEW s \in Conns, rows'[s].transport = "tunnel"
      PROVE  HeldBy(rows[s].token, s)'
  <2>1. PICK d : d = rows'[s].token
    OBVIOUS
  <2>2. CASE s = q
    <3>1. Present(rows, q)
      BY <1>1, <1>2, <1>4, <2>2 DEF Present
    <3>2. rows'[q] = RowFor(c)
      BY <1>1, <1>2, <3>1
    <3>3. d = c /\ ask'[c].transport = "tunnel" /\ rows'[s].env # NoEnv
      BY <1>2, <1>4, <2>1, <2>2, <3>2 DEF RowFor, HeldInv, IInv, CapturedEnvironment
    <3>4. phase'[c] = "attaching" /\ SubOf(c)' = s
      BY <1>1, <1>2, <2>2 DEF SubOf
    <3> QED
      BY <2>1, <3>3, <3>4 DEF HeldBy
  <2>3. CASE s # q
    <3>1. rows'[s] = rows[s] /\ audit'[s] = audit[s]
      BY <1>1, <1>2, <2>3
    <3>2. HeldBy(d, s) => d # c /\ d \notin Listed(sock, q)
      BY <1>1, <2>3 DEF HeldBy, Listed
    <3>3. HeldBy(d, s) => Undisturbed(d, s)
      BY <1>2, <3>1, <3>2 DEF Undisturbed, HeldBy, MarkedIgnored
    <3> QED
      BY <1>4, <2>1, <3>1, <3>3, KeptIsHeld
  <2> QED
    BY <2>2, <2>3
<1> QED
  BY <1>3, <1>4 DEF TunnelsAreHeld

LEMMA ReturnHeld ==
  ASSUME HeldInv, NEW c \in Conns,
         NEW o \in {"done", "rejected", "failed"}, Return(c, o),
         UNCHANGED <<rows, ignored, audit>>,
         \/ phase[c] \in InCrypto /\ sock' = sock
         \/ phase[c] = "attaching" /\ o = "failed" /\ sock' = sock
         \/ FinishJoin(c) /\ o = "done"
  PROVE  TunnelsAreHeld' /\ IgnoredAreListed'
<1>1. \A d \in Conns : /\ phase'[d] = IF d = c THEN o ELSE phase[d]
                       /\ seen'[d].id = seen[d].id
                       /\ d # c => ask'[d] = ask[d] /\ sock'[d] = sock[d]
  BY DEF Return, FinishJoin, HeldInv, IInv, TypeOK, NoSeen
<1>2. sock[c] = "none"
  BY DEF HeldInv, IInv, SocketsAreDone, InCrypto, FinishJoin
<1>3. c \notin ignored
  BY <1>2 DEF HeldInv, IgnoredAreListed
<1>4. IgnoredAreListed'
  BY <1>1, <1>3 DEF HeldInv, IgnoredAreListed, IInv, TypeOK
<1>5. ASSUME NEW s \in Conns, rows'[s].transport = "tunnel"
      PROVE  HeldBy(rows[s].token, s)'
  <2>1. PICK d : d = rows[s].token
    OBVIOUS
  <2>2. HeldBy(d, s)
    BY <1>5, <2>1 DEF HeldInv, TunnelsAreHeld
  <2>3. CASE d # c
    <3>1. Undisturbed(d, s)
      BY <1>1, <2>2, <2>3 DEF Undisturbed, HeldBy
    <3> QED
      BY <1>5, <2>1, <3>1, KeptIsHeld
  <2>4. CASE d = c
    <3>1. phase[c] = "attaching"
      BY <1>2, <2>2, <2>4 DEF HeldBy, InCrypto, FinishJoin
    <3>2. SubOf(c)' = s
      BY <1>1, <2>2, <2>4 DEF HeldBy, SubOf
    <3>3. CASE o = "failed"
      BY <1>1, <2>1, <2>2, <2>4, <3>2, <3>3 DEF HeldBy
    <3>4. CASE o = "done" /\ FinishJoin(c)
      <4>1. ask[c].transport = "tunnel" => sock'[c] = "open"
        BY <3>4 DEF FinishJoin, HeldInv, IInv, TypeOK
      <4>2. ask[c].transport = "tunnel" \/ audit[s] = "disconnected"
        BY <1>2, <2>2, <2>4, <3>1 DEF HeldBy
      <4> QED
        BY <1>1, <1>3, <2>1, <2>2, <2>4, <3>2, <3>4, <4>1, <4>2 DEF HeldBy
    <3> QED
      BY <3>1, <3>3, <3>4 DEF InCrypto
  <2> QED
    BY <2>3, <2>4
<1> QED
  BY <1>4, <1>5 DEF TunnelsAreHeld

LEMMA JoinHeld ==
  ASSUME HeldInv, NEW c \in Conns, Join(c)
  PROVE  TunnelsAreHeld' /\ IgnoredAreListed'
<1>1. ASSUME NEW tr \in {"public", "tunnel"}, NEW e \in Envs \cup {NoEnv},
             NEW p \in Issued \cup {NoConn}, BeginJoin(c, tr, e, p)
      PROVE  TunnelsAreHeld' /\ IgnoredAreListed'
  <2>1. PurgeEffects(rows, sock) /\ rows' = PurgedRows(rows, sock) /\ UNCHANGED ignored
    BY <1>1 DEF BeginJoin, PurgeExpired
  <2>2. audit' = AuditWithout(Purged(rows, sock))
    BY <2>1 DEF PurgeEffects
  <2>3. \A d \in Conns : phase[d] # "new" =>
          phase'[d] = phase[d] /\ ask'[d] = ask[d] /\ seen'[d] = seen[d]
    BY <1>1 DEF BeginJoin, HeldInv, IInv, TypeOK
  <2> QED
    BY <2>1, <2>2, <2>3, PurgeMoves, PurgeHeld DEF HeldInv, IInv
<1>2. CASE DemandProof(c)
  <2>1. /\ UNCHANGED <<rows, ask, seen, sock, ignored, audit>>
        /\ \A d \in Conns : phase'[d] = IF d = c THEN "proving" ELSE phase[d]
        /\ phase[c] = "hashing"
    BY <1>2 DEF DemandProof, HeldInv, IInv, TypeOK
  <2>2. IgnoredAreListed'
    BY <2>1 DEF HeldInv, IgnoredAreListed
  <2>3. ASSUME NEW s \in Conns, rows'[s].transport = "tunnel"
        PROVE  HeldBy(rows[s].token, s)'
    <3>1. PICK d : d = rows[s].token
      OBVIOUS
    <3>2. HeldBy(d, s) => Undisturbed(d, s)
      BY <2>1 DEF HeldBy, Undisturbed
    <3> QED
      BY <2>1, <2>3, <3>1, <3>2, KeptIsHeld
  <2> QED
    BY <2>2, <2>3 DEF TunnelsAreHeld
<1>3. CASE ReclaimParked(c) \/ ReclaimProved(c)
  <2>1. ReclaimRow(c) /\ phase[c] \in InCrypto /\ seen[c].id # NoConn
    BY <1>3 DEF ReclaimParked, ReclaimProved, InCrypto, HeldInv, IInv, CaptureOrder
  <2> QED
    BY <2>1, ReclaimRowHeld
<1>4. CASE CreateConflicts(c) \/ RejectJoin(c)
  BY <1>4, ReturnHeld DEF CreateConflicts, RejectJoin, InCrypto
<1>5. CASE FinishJoin(c) \/ FailJoin(c)
  BY <1>5, ReturnHeld DEF FinishJoin, FailJoin
<1> QED
  BY <1>1, <1>2, <1>3, <1>4, <1>5, CreateRowHeld DEF Join

LEMMA RequestHeld ==
  ASSUME HeldInv, Request \/ Alarm
  PROVE  TunnelsAreHeld' /\ IgnoredAreListed'
<1>1. ASSUME UNCHANGED <<phase, ask, seen, ignored>>, PurgeEffects(rows, sock),
             \/ rows' = PurgedRows(rows, sock)
             \/ \E S : rows' = Extended(PurgedRows(rows, sock), S)
      PROVE  TunnelsAreHeld' /\ IgnoredAreListed'
  <2>1. audit' = AuditWithout(Purged(rows, sock))
    BY <1>1 DEF PurgeEffects
  <2> QED
    BY <1>1, <2>1, PurgeMoves, PurgeHeld DEF HeldInv, IInv
<1>2. ASSUME NEW c \in PublicClients, Heartbeat(SubOf(c))
      PROVE  TunnelsAreHeld' /\ IgnoredAreListed'
  BY <1>1, <1>2 DEF Heartbeat
<1>3. ASSUME NEW S \in SUBSET Conns, Ingress(S)
      PROVE  TunnelsAreHeld' /\ IgnoredAreListed'
  BY <1>1, <1>3 DEF Ingress
<1>4. ASSUME NEW s \in Known, NEW st \in OAuthStates, BindOAuthState(s, st)
      PROVE  TunnelsAreHeld' /\ IgnoredAreListed'
  <2>1. /\ rows' = PurgedRows(rows, sock)
        /\ sock' \in StaleClosed(PurgedRows(rows, sock), sock)
        /\ audit' = AuditWithout(Purged(rows, sock))
        /\ UNCHANGED <<phase, ask, seen, ignored>>
    BY <1>4 DEF BindOAuthState
  <2>2. \A c \in Conns : sock'[c] = sock[c] \/ (sock[c] = "open" /\ sock'[c] = "closing")
    BY <2>1, StaleClosedMoves DEF HeldInv, IInv, TypeOK
  <2> QED
    BY <2>1, <2>2, PurgeHeld
<1>5. CASE Alarm
  BY <1>1, <1>5 DEF Alarm, PurgeExpired
<1> QED
  BY <1>2, <1>3, <1>4, <1>5, DeregisterHeld DEF Request, Known

LEMMA RestHeld ==
  ASSUME HeldInv, (\E c \in Conns : Socket(c)) \/ Time \/ Hibernate \/ Restart
  PROVE  TunnelsAreHeld' /\ IgnoredAreListed'
<1>1. rows \in [Conns -> Row]
  BY DEF HeldInv, IInv, TypeOK
<1>2. ASSUME NEW c \in Conns, Socket(c) PROVE TunnelsAreHeld' /\ IgnoredAreListed'
  <2>1. CASE SocketHeartbeat(c)
    <3>1. /\ UNCHANGED <<phase, ask, seen, sock, ignored, audit>>
          /\ rows' = Extended(rows, {SubOf(c)})
      BY <2>1 DEF SocketHeartbeat
    <3> QED
      BY <1>1, <3>1, ExtendedRow, QuietHeld
  <2>2. CASE Ping(c) \/ FallSilent(c)
    BY <2>2, QuietHeld DEF Ping, FallSilent
  <2> QED
    BY <1>2, <2>1, <2>2, DetachHeld DEF Socket
<1>3. ASSUME NEW s \in Conns, RowAges(s) PROVE TunnelsAreHeld' /\ IgnoredAreListed'
  <2>1. \E a : rows' = [rows EXCEPT ![s] = [rows[s] EXCEPT !.age = a]]
    BY <1>1, <1>3 DEF RowAges
  <2>2. \A r \in Conns : /\ rows'[r].env = rows[r].env
                         /\ rows'[r].transport = rows[r].transport
                         /\ rows'[r].token = rows[r].token
    BY <1>1, <2>1 DEF Row
  <2> QED
    BY <1>3, <2>2, QuietHeld DEF RowAges
<1>4. CASE Hibernate \/ \E st \in OAuthStates : BindingLapses(st)
  BY <1>4, QuietHeld DEF Hibernate, BindingLapses
<1>5. CASE Restart
  <2>1. /\ UNCHANGED <<rows, audit>> /\ ignored' = {}
        /\ \A c \in Conns :
             /\ sock'[c] = IF sock[c] \in {"open", "closing"} THEN "lost" ELSE sock[c]
             /\ phase'[c] = IF phase[c] \in InFlight THEN "failed" ELSE phase[c]
             /\ seen'[c].id = seen[c].id
    BY <1>5 DEF Restart, NoSeen
  <2>2. IgnoredAreListed'
    BY <2>1 DEF IgnoredAreListed
  <2>3. ASSUME NEW s \in Conns, rows'[s].transport = "tunnel"
        PROVE  HeldBy(rows[s].token, s)'
    <3>1. PICK d : d = rows[s].token
      OBVIOUS
    <3>2. HeldBy(d, s)
      BY <2>1, <2>3, <3>1 DEF HeldInv, TunnelsAreHeld
    <3>3. d \in Conns /\ SubOf(d)' = s
      BY <2>1, <3>2 DEF HeldBy, SubOf
    <3> QED
      BY <2>1, <3>1, <3>2, <3>3 DEF HeldBy, InFlight, InCrypto
  <2> QED
    BY <2>2, <2>3 DEF TunnelsAreHeld
<1> QED
  BY <1>2, <1>3, <1>4, <1>5 DEF Time

LEMMA HeldInductive == Spec => []HeldInv
<1>1. Init => HeldInv
  <2>1. Init => TunnelsAreHeld /\ IgnoredAreListed
    BY DEF Init, TunnelsAreHeld, IgnoredAreListed, NoRow
  <2> QED
    BY <2>1, InitInv DEF HeldInv
<1>2. HeldInv /\ [Next]_vars => HeldInv'
  <2> SUFFICES ASSUME HeldInv, [Next]_vars PROVE TunnelsAreHeld' /\ IgnoredAreListed'
    BY NextInv DEF HeldInv
  <2>1. CASE UNCHANGED vars
    BY <2>1, QuietHeld DEF vars
  <2> QED
    BY <2>1, JoinHeld, RequestHeld, RestHeld DEF Next
<1> QED
  BY <1>1, <1>2, PTL DEF Spec

\* An anonymous tunnel row without a socket is one whose join waits for the index
\* or failed there, or one that a restart left (webSocketClose, purgeDisconnectedTunnels).
THEOREM NoTunnelRowLeaks == Spec => []NoLeakedTunnelRow
<1>1. HeldInv => NoLeakedTunnelRow
  <2> SUFFICES ASSUME HeldInv, NEW s \in Conns, rows[s].transport = "tunnel",
                      rows[s].env = NoEnv, Listed(sock, s) = {}
               PROVE  phase[s] \in {"attaching", "failed"} \/ sock[s] = "lost"
    BY DEF NoLeakedTunnelRow
  <2>1. HeldBy(s, s)
    BY DEF HeldInv, TunnelsAreHeld, HeldBy
  <2>2. sock[s] \notin {"open", "closing"}
    BY <2>1 DEF HeldBy, Listed
  <2> QED
    BY <2>1, <2>2 DEF HeldBy
<1> QED
  BY <1>1, HeldInductive, PTL

\* A tunnel row all of whose sockets ended with a close event was last logged as
\* disconnected (detachSocket).
THEOREM ParkingIsAudited == Spec => []ParkedIsAudited
<1>1. HeldInv => ParkedIsAudited
  <2> SUFFICES ASSUME HeldInv, NEW s \in Conns, rows[s].transport = "tunnel",
                      Listed(sock, s) = {},
                      \A c \in Conns : SubOf(c) = s =>
                        phase[c] \in {"new", "done", "rejected"} /\ sock[c] # "lost"
               PROVE  audit[s] = "disconnected"
    BY DEF ParkedIsAudited
  <2>1. HeldBy(rows[s].token, s)
    BY DEF HeldInv, TunnelsAreHeld
  <2> QED
    BY <2>1 DEF HeldBy, Listed
<1> QED
  BY <1>1, HeldInductive, PTL
=============================================================================
