----------------------- MODULE EnvironmentHolderProofs -----------------------
(***************************************************************************)
(* When a join runs through its digests, the subscribers of a route        *)
(* implement EnvironmentHolder, for every set of attempts and environments.*)
(***************************************************************************)
EXTENDS RouteSubscribersProofs

\* What a join looked up is still so: no row of its environment, or the row it
\* captured with the token it captured.
Captured(c) ==
  IF seen[c].id = NoConn
  THEN ~Conflicts(c)
  ELSE /\ Present(rows, seen[c].id)
       /\ rows[seen[c].id].token = seen[c].token
       /\ rows[seen[c].id].transport = seen[c].transport

CryptoInv ==
  /\ \A c, d \in Conns : phase[c] \in InCrypto /\ phase[d] \in InCrypto => c = d
  /\ \A c \in Conns : phase[c] \in InCrypto => Captured(c)

InvC == IInv /\ CryptoInv

NoneInCrypto == \A c \in Conns : phase[c] \notin InCrypto

\* No join starts or gets to write its row, and rows only go or age.
Passes ==
  /\ RowsShrink
  /\ \A c \in Conns : phase'[c] \in {"new"} \cup InCrypto => phase'[c] = phase[c]

-----------------------------------------------------------------------------
(* Steps that take no environment *)

LEMMA ShrinksByPurge ==
  ASSUME IInv, PurgeEffects(rows, sock),
         \/ rows' = PurgedRows(rows, sock)
         \/ \E S : rows' = Extended(PurgedRows(rows, sock), S)
  PROVE  RowsShrink
BY PurgeShrinks DEF IInv

LEMMA ShrinksByExtension ==
  ASSUME IInv, \E S : rows' = Extended(rows, S)
  PROVE  RowsShrink
BY ExtendedRow DEF IInv, TypeOK, RowsShrink

LEMMA ShrinksByNothing ==
  ASSUME UNCHANGED rows
  PROVE  RowsShrink
BY DEF RowsShrink

LEMMA DeregisterPasses ==
  ASSUME IInv, NEW s \in Conns, Deregister(s)
  PROVE  Passes
<1> DEFINE left == [rows EXCEPT ![s] = NoRow]
           sk == ClosedSockets(s)
<1>1. left \in [Conns -> Row]
  BY DEF IInv, TypeOK, Row, NoRow, Ages
<1>2. rows' = PurgedRows(left, sk) /\ UNCHANGED phase
  BY DEF Deregister
<1>3. \A r \in Conns : Present(left, r) => r # s /\ left[r] = rows[r]
  BY DEF Present, NoRow, IInv, TypeOK
<1> HIDE DEF left, sk
<1>4. RowsShrink
  BY <1>1, <1>2, <1>3, PurgeOfRow DEF RowsShrink, Present
<1> QED
  BY <1>2, <1>4 DEF Passes

LEMMA DetachPasses ==
  ASSUME IInv, NEW c \in Conns, DetachSocket(c)
  PROVE  Passes
<1>1. \/ rows' = rows
      \/ rows' = Extended(rows, {SubOf(c)})
      \/ rows' = [rows EXCEPT ![SubOf(c)] = NoRow]
  BY DEF DetachSocket
<1>2. ASSUME rows' = [rows EXCEPT ![SubOf(c)] = NoRow] PROVE RowsShrink
  BY <1>2 DEF RowsShrink, IInv, TypeOK, Present, NoRow
<1> QED
  BY <1>1, <1>2, ShrinksByExtension, ShrinksByNothing DEF Passes, DetachSocket

LEMMA SocketPasses ==
  ASSUME IInv, NEW c \in Conns, Socket(c)
  PROVE  Passes
BY DetachPasses, ShrinksByExtension, ShrinksByNothing
   DEF Socket, SocketHeartbeat, Ping, FallSilent, Passes

LEMMA RequestPasses ==
  ASSUME IInv, Request
  PROVE  Passes
<1>1. ASSUME NEW c \in PublicClients, Heartbeat(SubOf(c)) PROVE Passes
  BY <1>1, ShrinksByPurge DEF Heartbeat, Passes
<1>2. ASSUME NEW s \in Known, NEW st \in OAuthStates, BindOAuthState(s, st) PROVE Passes
  <2>1. /\ sock' \in StaleClosed(PurgedRows(rows, sock), sock)
        /\ rows' = PurgedRows(rows, sock) /\ UNCHANGED phase
    BY <1>2 DEF BindOAuthState
  <2>2. RowsShrink
    BY <2>1, PurgeOfRow DEF RowsShrink, IInv, TypeOK
  <2> QED
    BY <2>1, <2>2 DEF Passes
<1>3. ASSUME NEW S \in SUBSET Conns, Ingress(S) PROVE Passes
  BY <1>3, ShrinksByPurge DEF Ingress, Passes
<1> QED
  BY <1>1, <1>2, <1>3, DeregisterPasses DEF Request, Known

LEMMA RowAgesPasses ==
  ASSUME IInv, NEW s \in Conns, RowAges(s)
  PROVE  /\ Passes
         /\ UNCHANGED <<phase, ask, seen>>
         /\ \A r \in Conns : /\ Present(rows', r) <=> Present(rows, r)
                             /\ rows'[r].env = rows[r].env
                             /\ rows'[r].transport = rows[r].transport
                             /\ rows'[r].token = rows[r].token
<1>1. \E a : rows' = [rows EXCEPT ![s] = [rows[s] EXCEPT !.age = a]]
  BY DEF RowAges, IInv, TypeOK
<1>2. \A r \in Conns : /\ rows'[r].env = rows[r].env
                       /\ rows'[r].transport = rows[r].transport
                       /\ rows'[r].token = rows[r].token
  BY <1>1 DEF IInv, TypeOK, Row
<1> QED
  BY <1>2 DEF RowAges, Passes, RowsShrink, Present

LEMMA BeginJoinPasses ==
  ASSUME IInv, NEW c \in Conns, NEW tr, NEW e, NEW p, BeginJoin(c, tr, e, p)
  PROVE  RowsShrink /\ \A d \in Conns : phase'[d] = IF d = c THEN "hashing" ELSE phase[d]
<1>1. RowsShrink
  BY ShrinksByPurge DEF BeginJoin, PurgeExpired
<1> QED
  BY <1>1 DEF BeginJoin, IInv, TypeOK

\* A join that ends without a row, or with its row written before.
LEMMA ReturnPasses ==
  ASSUME IInv, NEW c \in Conns, NEW o \in {"done", "failed", "rejected"},
         Return(c, o), UNCHANGED rows
  PROVE  Passes
BY ShrinksByNothing DEF Return, Passes, IInv, TypeOK, InCrypto

-----------------------------------------------------------------------------
(* What a join looked up stays so *)

LEMMA NoneLeft ==
  ASSUME NoneInCrypto'
  PROVE  CryptoInv'
BY DEF NoneInCrypto, CryptoInv

LEMMA OthersNotInCrypto ==
  ASSUME InvC, NEW c \in Conns, phase[c] \in InCrypto,
         \A d \in Conns : phase'[d] = IF d = c THEN phase'[c] ELSE phase[d],
         phase'[c] \notin InCrypto
  PROVE  NoneInCrypto'
BY DEF InvC, CryptoInv, NoneInCrypto

LEMMA JoinCrypto ==
  ASSUME InvC, ~CryptoYields, NEW c \in Conns, Join(c)
  PROVE  CryptoInv'
<1>1. ASSUME NEW tr \in {"public", "tunnel"}, NEW e \in Envs \cup {NoEnv},
             NEW p \in Issued \cup {NoConn}, BeginJoin(c, tr, e, p)
      PROVE  CryptoInv'
  <2>1. NoneInCrypto /\ phase[c] = "new" /\ IInv
    BY <1>1 DEF BeginJoin, Uninterrupted, NoneInCrypto, InvC
  <2>2. \A d \in Conns : phase'[d] = IF d = c THEN "hashing" ELSE phase[d]
    BY <1>1, <2>1, BeginJoinPasses
  <2>3. seen[c].id = NoConn
    BY <2>1 DEF IInv, CaptureOrder
  <2>4. ask'[c].env = e
    BY <1>1, <2>1 DEF BeginJoin, IInv, TypeOK
  <2>5. Captured(c)'
    <3>1. CASE (e = NoEnv \/ RowOfEnv(rows', e) = {}) /\ seen' = seen
      BY <2>3, <2>4, <3>1 DEF Captured, Conflicts
    <3>2. CASE \E s \in RowOfEnv(rows', e) :
                 e # NoEnv /\ seen' = [seen EXCEPT ![c] = Snapshot(rows', s)]
      <4>1. PICK s \in RowOfEnv(rows', e) :
                 e # NoEnv /\ seen' = [seen EXCEPT ![c] = Snapshot(rows', s)]
        BY <3>2
      <4>2. seen'[c] = Snapshot(rows', s) /\ s \in Conns /\ Present(rows', s)
        BY <2>1, <4>1 DEF IInv, TypeOK, RowOfEnv
      <4>3. s # NoConn
        BY <4>2, ConnsAssumption
      <4> QED
        BY <4>2, <4>3 DEF Captured, Snapshot
    <3> QED
      BY <1>1, <3>1, <3>2 DEF BeginJoin, LookupByEnvironment
  <2> QED
    BY <2>1, <2>2, <2>5 DEF CryptoInv, NoneInCrypto
<1>2. ASSUME phase[c] \in InCrypto, NEW o, o \notin InCrypto, phase' = [phase EXCEPT ![c] = o]
      PROVE  CryptoInv'
  <2>1. \A d \in Conns : phase'[d] = IF d = c THEN o ELSE phase[d]
    BY <1>2 DEF InvC, IInv, TypeOK
  <2> QED
    BY <1>2, <2>1, OthersNotInCrypto, NoneLeft
<1>3. CASE DemandProof(c)
  <2>1. \A d \in Conns : phase'[d] = IF d = c THEN "proving" ELSE phase[d]
    BY <1>3 DEF DemandProof, InvC, IInv, TypeOK
  <2>2. phase[c] \in InCrypto /\ UNCHANGED <<rows, seen, ask>>
    BY <1>3 DEF DemandProof, InCrypto
  <2>3. \A d \in Conns : phase'[d] \in InCrypto => d = c
    BY <2>1, <2>2 DEF InvC, CryptoInv
  <2>4. Captured(c)'
    BY <2>2 DEF InvC, CryptoInv, Captured, Conflicts
  <2> QED
    BY <2>3, <2>4 DEF CryptoInv
<1>4. CASE CreateRow(c) \/ ReclaimParked(c) \/ ReclaimProved(c)
  BY <1>2, <1>4 DEF CreateRow, ReclaimParked, ReclaimProved, ReclaimRow, InCrypto
<1>5. CASE CreateConflicts(c) \/ RejectJoin(c)
  BY <1>2, <1>5 DEF CreateConflicts, RejectJoin, Return, InCrypto
<1>6. CASE FinishJoin(c) \/ FailJoin(c)
  <2>1. NoneInCrypto
    BY <1>6 DEF FinishJoin, FailJoin, Uninterrupted, NoneInCrypto
  <2>2. NoneInCrypto'
    BY <1>6, <2>1 DEF FinishJoin, FailJoin, Return, NoneInCrypto, InCrypto, InvC, IInv, TypeOK
  <2> QED
    BY <2>2, NoneLeft
<1> QED
  BY <1>1, <1>3, <1>4, <1>5, <1>6 DEF Join

\* Every other step waits for the join in its digests, or leaves the rows and
\* joins to themselves.
LEMMA RestCrypto ==
  ASSUME InvC, ~CryptoYields,
         (\E c \in Conns : Socket(c)) \/ Request \/ Alarm \/ Time \/ Hibernate \/ Restart
  PROVE  CryptoInv'
<1>1. ASSUME NoneInCrypto, UNCHANGED phase PROVE CryptoInv'
  BY <1>1, NoneLeft DEF NoneInCrypto
<1>2. ASSUME UNCHANGED <<rows, phase, ask, seen>> PROVE CryptoInv'
  BY <1>2 DEF InvC, CryptoInv, Captured, Conflicts, RowOfEnv, Present
<1>3. ASSUME NEW c \in Conns, Socket(c) PROVE CryptoInv'
  BY <1>1, <1>2, <1>3
  DEF Socket, SocketHeartbeat, DetachSocket, Ping, FallSilent, Uninterrupted, NoneInCrypto
<1>4. CASE Request \/ Alarm
  BY <1>1, <1>4
  DEF Request, Alarm, Heartbeat, Deregister, BindOAuthState, Ingress, Uninterrupted, NoneInCrypto
<1>5. ASSUME NEW s \in Conns, RowAges(s) PROVE CryptoInv'
  <2>1. /\ UNCHANGED <<phase, ask, seen>>
        /\ \A r \in Conns : /\ Present(rows', r) <=> Present(rows, r)
                            /\ rows'[r].env = rows[r].env
                            /\ rows'[r].transport = rows[r].transport
                            /\ rows'[r].token = rows[r].token
    BY <1>5, RowAgesPasses DEF InvC
  <2>2. \A e : RowOfEnv(rows', e) = RowOfEnv(rows, e)
    BY <2>1 DEF RowOfEnv
  <2>3. ASSUME NEW c \in Conns, Captured(c) PROVE Captured(c)'
    <3>1. seen[c].id # NoConn => seen[c].id \in Conns
      BY DEF InvC, IInv, TypeOK, Seen
    <3> QED
      BY <2>1, <2>2, <2>3, <3>1 DEF Captured, Conflicts
  <2> QED
    BY <2>1, <2>3 DEF InvC, CryptoInv
<1>6. CASE Restart
  <2>1. NoneInCrypto'
    BY <1>6 DEF Restart, NoneInCrypto, InFlight, InCrypto
  <2> QED
    BY <2>1, NoneLeft
<1> QED
  BY <1>2, <1>3, <1>4, <1>5, <1>6 DEF Time, BindingLapses, Hibernate

LEMMA NextC == ASSUME ~CryptoYields PROVE InvC /\ [Next]_vars => InvC'
<1> SUFFICES ASSUME InvC, [Next]_vars PROVE CryptoInv'
  BY NextInv DEF InvC
<1>1. CASE UNCHANGED vars
  BY <1>1 DEF vars, InvC, CryptoInv, Captured, Conflicts, RowOfEnv, Present
<1> QED
  BY <1>1, JoinCrypto, RestCrypto DEF Next

LEMMA InitC == Init => InvC
<1>1. Init => CryptoInv
  BY DEF Init, CryptoInv, InCrypto
<1> QED
  BY <1>1, InitInv DEF InvC

-----------------------------------------------------------------------------
(* The subscribers implement EnvironmentHolder *)

Unused == {c \in Conns : phase[c] \in {"new"} \cup InCrypto}

LEMMA OneRow ==
  ASSUME IInv, NEW e \in Envs, NEW s \in RowOfEnv(rows, e)
  PROVE  RowOfEnv(rows, e) = {s}
BY EnvsAssumption DEF IInv, OneRowPerEnvironment, RowOfEnv

\* Rows that only go or age pass.
LEMMA PassStep ==
  ASSUME IInv, RowsShrink, Unused' \subseteq Unused
  PROVE  Holder!Pass
<1>1. ASSUME NEW e \in Envs
      PROVE  \/ RowOfEnv(rows', e) = {}
             \/ \E s \in Conns : /\ RowOfEnv(rows', e) = {s} /\ RowOfEnv(rows, e) = {s}
                                 /\ rows'[s].token = rows[s].token
  <2>1. RowOfEnv(rows', e) \subseteq RowOfEnv(rows, e)
    BY DEF RowsShrink, RowOfEnv
  <2>2. ASSUME NEW s \in RowOfEnv(rows', e)
        PROVE  /\ s \in Conns /\ RowOfEnv(rows', e) = {s} /\ RowOfEnv(rows, e) = {s}
               /\ rows'[s].token = rows[s].token
    <3>1. s \in Conns /\ Present(rows', s)
      BY <2>2 DEF RowOfEnv
    <3>2. RowOfEnv(rows, e) = {s}
      BY <2>1, <2>2, OneRow
    <3> QED
      BY <2>1, <2>2, <3>1, <3>2 DEF RowsShrink
  <2> QED
    BY <2>2
<1>2. \A e \in Envs :
        {rows'[s].token : s \in RowOfEnv(rows', e)}
          \in {{rows[s].token : s \in RowOfEnv(rows, e)}, {}}
  <2> TAKE e \in Envs
  <2>1. CASE RowOfEnv(rows', e) = {}
    BY <2>1
  <2>2. CASE \E s \in Conns : /\ RowOfEnv(rows', e) = {s} /\ RowOfEnv(rows, e) = {s}
                              /\ rows'[s].token = rows[s].token
    BY <2>2
  <2> QED
    BY <1>1, <2>1, <2>2
<1>3. \A e \in Envs : RowOfEnv(rows', e) # {} => {rows'[s].token : s \in RowOfEnv(rows', e)} # {}
  OBVIOUS
<1> QED
  BY <1>2, <1>3 DEF Holder!Pass, Unused

\* A row written for attempt c, over the only row of its environment if any.
LEMMA TakeStep ==
  ASSUME IInv, NEW c \in Conns, NEW e \in Envs, NEW s \in Conns,
         RowOfEnv(rows, e) \subseteq {s},
         Present(rows, s) => rows[s].env = e,
         \/ RowOfEnv(rows, e) = {}
         \/ ~Live(s)
         \/ rows[s].token = ask[c].proof /\ s \in RowOfEnv(rows, e),
         rows' = [rows EXCEPT ![s] = RowFor(c)],
         ask[c].env = e, ask[c].transport # "none",
         \A r \in Conns : Listed(sock, r)' = Listed(sock, r),
         c \in Unused, Unused' = Unused \ {c}
  PROVE  Holder!Take(e, c)
<1>1. /\ rows'[s] = RowFor(c)
      /\ \A r \in Conns \ {s} : rows'[r] = rows[r]
  BY DEF IInv, TypeOK
<1>2. RowOfEnv(rows', e) = {s}
  BY <1>1 DEF RowOfEnv, Present, RowFor
<1>3. \A d \in Envs \ {e} : /\ RowOfEnv(rows', d) = RowOfEnv(rows, d)
                            /\ s \notin RowOfEnv(rows, d)
  BY <1>1 DEF RowOfEnv, Present, RowFor
<1>4. \A r \in Conns \ {s} : Live(r)' <=> Live(r)
  BY <1>1 DEF Live, Present
<1>5. {rows'[r].token : r \in RowOfEnv(rows', e)} = {c}
  <2>1. rows'[s].token = c
    BY <1>1 DEF RowFor
  <2>2. \A R : R = {s} => {rows'[r].token : r \in R} = {rows'[s].token}
    OBVIOUS
  <2> QED
    BY <1>2, <2>1, <2>2
<1>6. ASSUME NEW d \in Envs \ {e}
      PROVE  /\ {rows'[r].token : r \in RowOfEnv(rows', d)}
                  = {rows[r].token : r \in RowOfEnv(rows, d)}
             /\ (\E r \in RowOfEnv(rows', d) : Live(r)')
                  <=> (\E r \in RowOfEnv(rows, d) : Live(r))
  <2>1. \A r \in RowOfEnv(rows, d) : /\ rows'[r].token = rows[r].token
                                     /\ Live(r)' <=> Live(r)
    BY <1>1, <1>3, <1>4 DEF RowOfEnv
  <2>2. RowOfEnv(rows', d) = RowOfEnv(rows, d)
    BY <1>3
  <2>3. \A R : (\A r \in R : rows'[r].token = rows[r].token)
              => {rows'[r].token : r \in R} = {rows[r].token : r \in R}
    OBVIOUS
  <2>4. \A R : (\A r \in R : Live(r)' <=> Live(r))
              => ((\E r \in R : Live(r)') <=> (\E r \in R : Live(r)))
    OBVIOUS
  <2> QED
    BY <2>1, <2>2, <2>3, <2>4
<1>7. \/ {rows[r].token : r \in RowOfEnv(rows, e)} = {}
      \/ e \notin {d \in Envs : \E r \in RowOfEnv(rows, d) : Live(r)}
      \/ {rows[r].token : r \in RowOfEnv(rows, e)} = {ask[c].proof}
  <2>1. CASE RowOfEnv(rows, e) = {}
    BY <2>1
  <2>2. CASE RowOfEnv(rows, e) = {s} /\ ~Live(s)
    BY <2>2
  <2>3. CASE RowOfEnv(rows, e) = {s} /\ rows[s].token = ask[c].proof
    BY <2>3
  <2> QED
    BY <2>1, <2>2, <2>3
<1>8. [d \in Envs |-> {rows'[r].token : r \in RowOfEnv(rows', d)}]
      = [[d \in Envs |-> {rows[r].token : r \in RowOfEnv(rows, d)}] EXCEPT ![e] = {c}]
  BY <1>5, <1>6
<1>9. {d \in Envs : \E r \in RowOfEnv(rows', d) : Live(r)'} \ {e}
      = {d \in Envs : \E r \in RowOfEnv(rows, d) : Live(r)} \ {e}
  BY <1>6
<1> QED
  BY <1>7, <1>8, <1>9 DEF Holder!Take, Holder!Free, Unused

\* The sockets that a takeover closes stay listed until their close events.
LEMMA ClosingStaysListed ==
  ASSUME IInv, NEW s \in Conns, sock' = ClosedSockets(s), UNCHANGED seen
  PROVE  \A r \in Conns : Listed(sock, r)' = Listed(sock, r)
BY DEF ClosedSockets, Listed, SubOf, IInv, TypeOK

LEMMA ReclaimTakes ==
  ASSUME InvC, NEW c \in Conns, ReclaimParked(c) \/ ReclaimProved(c)
  PROVE  Holder!Take(ask[c].env, c)
<1> DEFINE s == seen[c].id
           e == ask[c].env
<1>1. /\ phase[c] \in InCrypto /\ s # NoConn /\ s \in Conns /\ ReclaimRow(c)
      /\ ~SubscriberIsLive(c) \/ ask[c].proof = seen[c].token
  BY DEF ReclaimParked, ReclaimProved, ProofMatches, InCrypto, InvC, IInv, TypeOK, Seen, CaptureOrder
<1>2. Captured(c)
  BY <1>1 DEF InvC, CryptoInv
<1>3. /\ Present(rows, s) /\ rows[s].token = seen[c].token
      /\ rows[s].transport = seen[c].transport
  BY <1>1, <1>2 DEF Captured
<1>4. e \in Envs /\ rows[s].env = e
  BY <1>1, <1>3 DEF InvC, IInv, TypeOK, Ask, CapturedEnvironment
<1>5. s \in RowOfEnv(rows, e) /\ RowOfEnv(rows, e) = {s}
  BY <1>1, <1>3, <1>4, OneRow DEF RowOfEnv, InvC
<1>6. ~Live(s) \/ rows[s].token = ask[c].proof
  BY <1>1, <1>3 DEF SubscriberIsLive, Live
<1>7. rows' = [rows EXCEPT ![s] = RowFor(c)]
  BY <1>1, <1>3 DEF ReclaimRow
<1>8. \A r \in Conns : Listed(sock, r)' = Listed(sock, r)
  BY <1>1, ClosingStaysListed DEF ReclaimRow, InvC
<1>9. c \in Unused /\ Unused' = Unused \ {c}
  BY <1>1 DEF ReclaimRow, Unused, InvC, IInv, TypeOK, InCrypto
<1>10. ask[c].transport # "none"
  BY <1>1 DEF InvC, IInv, AskedTransport, InFlight
<1> HIDE DEF s, e
<1> QED
  BY <1>1, <1>4, <1>5, <1>6, <1>7, <1>8, <1>9, <1>10, TakeStep DEF InvC, e

LEMMA CreateTakes ==
  ASSUME InvC, NEW c \in Conns, CreateRow(c)
  PROVE  Holder!HNext
<1> DEFINE e == ask[c].env
<1>1. /\ c \in Unused /\ Unused' = Unused \ {c}
      /\ ~Present(rows, c)
  BY DEF CreateRow, Unused, InvC, IInv, TypeOK, InCrypto, CreatedOnce
<1>2. CASE e \in Envs
  <2>1. RowOfEnv(rows, e) = {}
    BY <1>2, EnvsAssumption DEF CreateRow, Conflicts
  <2>2. \A r \in Conns : Listed(sock, r)' = Listed(sock, r)
    BY DEF CreateRow, Listed, SubOf
  <2>3. ask[c].transport # "none"
    BY DEF CreateRow, InvC, IInv, AskedTransport, InFlight, InCrypto
  <2>4. Holder!Take(e, c)
    BY <1>1, <1>2, <2>1, <2>2, <2>3, TakeStep DEF CreateRow, InvC
  <2> QED
    BY <1>2, <2>4 DEF Holder!HNext
<1>3. CASE e = NoEnv
  <2>1. \A d \in Envs : RowOfEnv(rows', d) = RowOfEnv(rows, d) /\ c \notin RowOfEnv(rows, d)
    BY <1>1, <1>3, EnvsAssumption DEF CreateRow, RowOfEnv, Present, RowFor, InvC, IInv, TypeOK
  <2>2. \A r \in Conns \ {c} : rows'[r] = rows[r]
    BY DEF CreateRow, InvC, IInv, TypeOK
  <2>3. \A d \in Envs : {rows'[r].token : r \in RowOfEnv(rows', d)}
                          = {rows[r].token : r \in RowOfEnv(rows, d)}
    BY <2>1, <2>2 DEF RowOfEnv
  <2>4. \A d \in Envs : RowOfEnv(rows', d) # {} => {rows'[r].token : r \in RowOfEnv(rows', d)} # {}
    OBVIOUS
  <2>5. Holder!Pass
    BY <1>1, <2>3, <2>4 DEF Holder!Pass, Unused
  <2> QED
    BY <2>5 DEF Holder!HNext
<1> QED
  BY <1>2, <1>3 DEF InvC, IInv, TypeOK, Ask

LEMMA HolderStep ==
  ASSUME InvC, [Next]_vars
  PROVE  Holder!HNext
<1>1. ASSUME RowsShrink, Unused' \subseteq Unused PROVE Holder!HNext
  BY <1>1, PassStep DEF InvC, Holder!HNext
<1>2. ASSUME Passes PROVE Holder!HNext
  BY <1>1, <1>2 DEF Passes, Unused
<1>3. ASSUME UNCHANGED rows, Unused' \subseteq Unused PROVE Holder!HNext
  BY <1>1, <1>3, ShrinksByNothing
<1>4. CASE UNCHANGED vars
  BY <1>3, <1>4 DEF vars, Unused
<1>5. ASSUME NEW c \in Conns, Join(c) PROVE Holder!HNext
  <2>1. ASSUME NEW tr \in {"public", "tunnel"}, NEW e \in Envs \cup {NoEnv},
               NEW p \in Issued \cup {NoConn}, BeginJoin(c, tr, e, p)
        PROVE  Holder!HNext
    <3>1. RowsShrink /\ \A d \in Conns : phase'[d] = IF d = c THEN "hashing" ELSE phase[d]
      BY <2>1, BeginJoinPasses DEF InvC
    <3>2. phase[c] = "new"
      BY <2>1 DEF BeginJoin
    <3> QED
      BY <1>1, <3>1, <3>2 DEF Unused
  <2>2. CASE CreateRow(c)
    BY <2>2, CreateTakes
  <2>3. CASE ReclaimParked(c) \/ ReclaimProved(c)
    <3>1. ask[c].env \in Envs
      BY <2>3 DEF ReclaimParked, ReclaimProved, InvC, IInv, TypeOK, Ask,
                  CapturedEnvironment, InCrypto, CaptureOrder
    <3> QED
      BY <2>3, <3>1, ReclaimTakes DEF Holder!HNext
  <2>4. CASE DemandProof(c)
    BY <1>3, <2>4 DEF DemandProof, Unused, InvC, IInv, TypeOK, InCrypto
  <2>5. CASE CreateConflicts(c) \/ RejectJoin(c) \/ FinishJoin(c) \/ FailJoin(c)
    <3>1. UNCHANGED rows /\ \E o \in {"done", "failed", "rejected"} : Return(c, o)
      BY <2>5 DEF CreateConflicts, RejectJoin, FinishJoin, FailJoin
    <3> QED
      BY <1>2, <3>1, ReturnPasses DEF InvC
  <2> QED
    BY <1>5, <2>1, <2>2, <2>3, <2>4, <2>5 DEF Join
<1>6. ASSUME NEW c \in Conns, Socket(c) PROVE Holder!HNext
  BY <1>2, <1>6, SocketPasses DEF InvC
<1>7. CASE Request
  BY <1>2, <1>7, RequestPasses DEF InvC
<1>8. CASE Alarm
  <2>1. RowsShrink /\ UNCHANGED phase
    BY <1>8, ShrinksByPurge DEF Alarm, PurgeExpired, InvC
  <2> QED
    BY <1>2, <2>1 DEF Passes
<1>9. CASE Time
  <2>1. ASSUME NEW s \in Conns, RowAges(s) PROVE Holder!HNext
    BY <1>2, <2>1, RowAgesPasses DEF InvC
  <2>2. ASSUME NEW st \in OAuthStates, BindingLapses(st) PROVE Holder!HNext
    BY <1>3, <2>2 DEF BindingLapses, Unused
  <2> QED
    BY <1>9, <2>1, <2>2 DEF Time
<1>10. CASE Hibernate
  BY <1>3, <1>10 DEF Hibernate, Unused
<1>11. CASE Restart
  <2>1. UNCHANGED rows /\ Unused' \subseteq Unused
    BY <1>11 DEF Restart, Unused, InvC, IInv, TypeOK, InFlight, InCrypto
  <2> QED
    BY <1>3, <2>1
<1> QED
  BY <1>4, <1>5, <1>6, <1>7, <1>8, <1>9, <1>10, <1>11 DEF Next

\* An environment has one holder, a live one gives way only to a join that
\* presents its token, and an earlier holder's token never comes back: the
\* subscribers implement EnvironmentHolder (reclaimOrCreate).
THEOREM EnvironmentsAreHeld ==
  ASSUME ~CryptoYields PROVE Spec => EnvironmentIsHeld
<1>1. Init => Holder!HInit
  BY DEF Init, Holder!HInit, RowOfEnv, Present, NoRow
<1>2. InvC /\ [Next]_vars => [Holder!HNext]_Holder!hvars
  BY HolderStep
<1> QED
  BY <1>1, <1>2, InitC, NextC, PTL DEF Spec, EnvironmentIsHeld, Holder!HSpec

-----------------------------------------------------------------------------
(* The connection log knows of every departure *)

\* A row that goes is logged in the same step.
LEMMA AuditKept ==
  ASSUME DeparturesAudited,
         \A s \in Conns : \/ audit'[s] # "connected"
                          \/ audit'[s] = audit[s] /\ (Present(rows, s) => Present(rows', s))
  PROVE  DeparturesAudited'
BY DEF DeparturesAudited

LEMMA PurgeAudited ==
  ASSUME InvC, DeparturesAudited,
         audit' = AuditWithout(Purged(rows, sock)),
         \/ rows' = PurgedRows(rows, sock)
         \/ \E S : rows' = Extended(PurgedRows(rows, sock), S)
  PROVE  DeparturesAudited'
<1>1. rows \in [Conns -> Row] /\ PurgedRows(rows, sock) \in [Conns -> Row]
  BY PurgedRowsType DEF InvC, IInv, TypeOK
<1>2. ASSUME NEW s \in Conns
      PROVE  \/ audit'[s] # "connected"
             \/ audit'[s] = audit[s] /\ (Present(rows, s) => Present(rows', s))
  <2>1. CASE s \in Purged(rows, sock)
    BY <2>1 DEF AuditWithout
  <2>2. CASE s \notin Purged(rows, sock)
    <3>1. Present(rows, s) => Present(PurgedRows(rows, sock), s)
      BY <1>1, <2>2, PurgeOfRow
    <3>2. Present(rows, s) => Present(rows', s)
      BY <1>1, <3>1, ExtendedRow
    <3> QED
      BY <2>2, <3>2 DEF AuditWithout
  <2> QED
    BY <2>1, <2>2
<1> QED
  BY <1>2, AuditKept

LEMMA DeregisterAudited ==
  ASSUME InvC, DeparturesAudited, NEW s \in Conns, Deregister(s)
  PROVE  DeparturesAudited'
<1> DEFINE left == [rows EXCEPT ![s] = NoRow]
           sk == ClosedSockets(s)
           gone == Purged(left, sk) \cup {r \in {s} : Present(rows, r)}
<1>1. left \in [Conns -> Row] /\ \A r \in Conns \ {s} : left[r] = rows[r]
  BY DEF InvC, IInv, TypeOK, Row, NoRow, Ages
<1>2. rows' = PurgedRows(left, sk) /\ audit' = AuditWithout(gone)
  BY DEF Deregister
<1> HIDE DEF left, sk
<1>3. ASSUME NEW r \in Conns
      PROVE  \/ audit'[r] # "connected"
             \/ audit'[r] = audit[r] /\ (Present(rows, r) => Present(rows', r))
  <2>1. CASE r \in gone
    BY <1>2, <2>1 DEF AuditWithout
  <2>2. CASE r \notin gone
    <3>1. audit'[r] = audit[r] /\ r \notin Purged(left, sk)
      BY <1>2, <2>2 DEF AuditWithout
    <3>2. Present(rows, r) => r # s
      BY <2>2
    <3>3. Present(rows, r) => Present(left, r)
      BY <1>1, <3>2 DEF Present
    <3> QED
      BY <1>1, <1>2, <3>1, <3>3, PurgeOfRow
  <2> QED
    BY <2>1, <2>2
<1> QED
  BY <1>3, AuditKept

LEMMA DetachAudited ==
  ASSUME InvC, DeparturesAudited, NEW c \in Conns, DetachSocket(c)
  PROVE  DeparturesAudited'
<1> DEFINE s == SubOf(c)
<1>1. rows \in [Conns -> Row]
  BY DEF InvC, IInv, TypeOK
<1>2. \/ UNCHANGED <<rows, audit>>
      \/ rows' = Extended(rows, {s}) /\ audit' = AuditWithout({s})
      \/ /\ rows' = [rows EXCEPT ![s] = NoRow]
         /\ audit' = AuditWithout({r \in {s} : Present(rows, r)})
  BY DEF DetachSocket
<1>3. CASE UNCHANGED <<rows, audit>>
  BY <1>3 DEF DeparturesAudited
<1>4. CASE rows' = Extended(rows, {s}) /\ audit' = AuditWithout({s})
  BY <1>1, <1>4, ExtendedRow, AuditKept DEF AuditWithout
<1>5. CASE /\ rows' = [rows EXCEPT ![s] = NoRow]
           /\ audit' = AuditWithout({r \in {s} : Present(rows, r)})
  <2>1. ASSUME NEW r \in Conns
        PROVE  \/ audit'[r] # "connected"
               \/ audit'[r] = audit[r] /\ (Present(rows, r) => Present(rows', r))
    BY <1>1, <1>5 DEF AuditWithout, Present
  <2> QED
    BY <2>1, AuditKept
<1> QED
  BY <1>2, <1>3, <1>4, <1>5

\* What a join writes, it writes over a row that is there.
LEMMA JoinAudited ==
  ASSUME InvC, DeparturesAudited, NEW c \in Conns, Join(c)
  PROVE  DeparturesAudited'
<1>1. rows \in [Conns -> Row] /\ audit \in [Conns -> AuditEvents]
  BY DEF InvC, IInv, TypeOK
<1>2. ASSUME NEW tr \in {"public", "tunnel"}, NEW e \in Envs \cup {NoEnv},
             NEW p \in Issued \cup {NoConn}, BeginJoin(c, tr, e, p)
      PROVE  DeparturesAudited'
  BY <1>2, PurgeAudited DEF BeginJoin, PurgeExpired, PurgeEffects
<1>3. ASSUME NEW s \in Conns, phase[c] \in InCrypto, rows' = [rows EXCEPT ![s] = RowFor(c)],
             audit' = [audit EXCEPT ![s] = "connected"]
      PROVE  DeparturesAudited'
  <2>1. RowFor(c).transport # "none"
    BY <1>3 DEF InvC, IInv, AskedTransport, RowFor, InFlight
  <2>2. Present(rows', s)
    BY <1>1, <1>3, <2>1 DEF Present
  <2>3. \A r \in Conns \ {s} : rows'[r] = rows[r] /\ audit'[r] = audit[r]
    BY <1>1, <1>3
  <2> QED
    BY <2>2, <2>3 DEF DeparturesAudited, Present
<1>4. CASE CreateRow(c)
  BY <1>3, <1>4 DEF CreateRow, InCrypto
<1>5. CASE ReclaimParked(c) \/ ReclaimProved(c)
  <2>1. ReclaimRow(c) /\ phase[c] \in InCrypto /\ seen[c].id # NoConn
    BY <1>5 DEF ReclaimParked, ReclaimProved, InCrypto, InvC, IInv, CaptureOrder
  <2>2. seen[c].id \in Conns /\ Present(rows, seen[c].id)
    BY <2>1 DEF InvC, CryptoInv, Captured, IInv, TypeOK, Seen
  <2> QED
    BY <1>3, <2>1, <2>2 DEF ReclaimRow
<1>6. CASE CreateConflicts(c) \/ DemandProof(c) \/ RejectJoin(c) \/ FinishJoin(c) \/ FailJoin(c)
  <2>1. UNCHANGED <<rows, audit>>
    BY <1>6 DEF CreateConflicts, DemandProof, RejectJoin, FinishJoin, FailJoin
  <2> QED
    BY <2>1 DEF DeparturesAudited
<1> QED
  BY <1>2, <1>4, <1>5, <1>6 DEF Join

LEMMA RestAudited ==
  ASSUME InvC, DeparturesAudited,
         (\E c \in Conns : Socket(c)) \/ Request \/ Alarm \/ Time \/ Hibernate \/ Restart
  PROVE  DeparturesAudited'
<1>2. ASSUME NEW c \in Conns, Socket(c) PROVE DeparturesAudited'
  <2>1. CASE SocketHeartbeat(c)
    <3>1. \A s \in Conns : Present(rows, s) => Present(rows', s)
      BY <2>1, ExtendedRow DEF SocketHeartbeat, InvC, IInv, TypeOK
    <3> QED
      BY <2>1, <3>1, AuditKept DEF SocketHeartbeat
  <2>2. CASE Ping(c) \/ FallSilent(c)
    BY <2>2 DEF Ping, FallSilent, DeparturesAudited
  <2> QED
    BY <1>2, <2>1, <2>2, DetachAudited DEF Socket
<1>3. ASSUME NEW c \in PublicClients, Heartbeat(SubOf(c)) PROVE DeparturesAudited'
  BY <1>3, PurgeAudited DEF Heartbeat, PurgeEffects
<1>4. ASSUME NEW S \in SUBSET Conns, Ingress(S) PROVE DeparturesAudited'
  BY <1>4, PurgeAudited DEF Ingress, PurgeEffects
<1>5. ASSUME NEW s \in Known, NEW st \in OAuthStates, BindOAuthState(s, st)
      PROVE  DeparturesAudited'
  BY <1>5, PurgeAudited DEF BindOAuthState
<1>6. CASE Alarm
  BY <1>6, PurgeAudited DEF Alarm, PurgeExpired, PurgeEffects
<1>7. ASSUME NEW s \in Conns, RowAges(s) PROVE DeparturesAudited'
  <2>1. \A r \in Conns : Present(rows, r) => Present(rows', r)
    BY <1>7, RowAgesPasses DEF InvC
  <2> QED
    BY <1>7, <2>1, AuditKept DEF RowAges
<1>8. CASE Hibernate \/ Restart \/ \E st \in OAuthStates : BindingLapses(st)
  BY <1>8 DEF Hibernate, Restart, BindingLapses, DeparturesAudited
<1> QED
  BY <1>2, <1>3, <1>4, <1>5, <1>6, <1>7, <1>8, DeregisterAudited DEF Request, Known, Time

\* Every subscriber that was removed was last logged as disconnected: no purge,
\* takeover, deregistration or close removes a row unlogged, and no join logs the
\* arrival of a row that is gone (removeSubscriberRow, reclaimOrCreate).
THEOREM DeparturesAreAudited ==
  ASSUME ~CryptoYields PROVE Spec => []DeparturesAudited
<1>1. Init => DeparturesAudited
  BY DEF Init, DeparturesAudited
<1>2. InvC /\ DeparturesAudited /\ [Next]_vars => DeparturesAudited'
  <2> SUFFICES ASSUME InvC, DeparturesAudited, [Next]_vars PROVE DeparturesAudited'
    OBVIOUS
  <2>1. CASE UNCHANGED vars
    BY <2>1 DEF vars, DeparturesAudited, Present
  <2> QED
    BY <2>1, JoinAudited, RestAudited DEF Next
<1> QED
  BY <1>1, <1>2, InitC, NextC, PTL DEF Spec
=============================================================================
