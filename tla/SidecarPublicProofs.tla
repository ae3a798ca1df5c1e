------------------------ MODULE SidecarPublicProofs ------------------------
(***************************************************************************)
(* That "disconnected" is the last thing a public-target sidecar says of   *)
(* itself, and that nobody takes a running one's row before its time: for  *)
(* any number of ids, failures and restarts.                               *)
(***************************************************************************)
EXTENDS SidecarPublic, TLAPS

(* Before it is registered a sidecar has no subscriber, so a disconnect    *)
(* ends its loop at once: no first registration is answered after it.      *)
SaidInv ==
  /\ DisconnectIsSaid
  /\ loop \in {"new", "registering", "backoff"} => sub = None /\ disc = "no"

(* Until disconnect(), a DELETE is an earlier process's, and names neither *)
(* the subscriber nor one that is on its way to the sidecar.               *)
DeleteInv ==
  /\ call["loop"] # None => call["loop"].op # "delete"
  /\ disc = "no" =>
       /\ call["bye"] = None
       /\ \A c \in strays : c.op = "delete" /\ c.sub # None =>
            c.sub # sub /\ \A s \in Slots : answer[s] = None \/ answer[s].sub # c.sub

IInv == TypeOK /\ SaidInv /\ DeleteInv

(* The rows of a route object. *)
IsRows(r) == DOMAIN r \subseteq Ids /\ r = [i \in DOMAIN r |-> r[i]] /\ \A i \in DOMAIN r : r[i] \in BOOLEAN

LEMMA RowsType == ASSUME NEW r PROVE r \in UNION {[S -> BOOLEAN] : S \in SUBSET Ids} <=> IsRows(r)
<1>1. ASSUME r \in UNION {[S -> BOOLEAN] : S \in SUBSET Ids} PROVE IsRows(r)
  BY <1>1 DEF IsRows
<1>2. ASSUME IsRows(r) PROVE r \in UNION {[S -> BOOLEAN] : S \in SUBSET Ids}
  <2>1. r \in [DOMAIN r -> BOOLEAN]
    BY <1>2 DEF IsRows
  <2> QED
    BY <1>2, <2>1 DEF IsRows
<1> QED
  BY <1>1, <1>2

(* Keeping rows, and adding a new one, leaves rows. *)
LEMMA KeepRowsType ==
  ASSUME IsRows(rows), NEW S PROVE IsRows(KeepRows(S))
  BY DEF IsRows, KeepRows

LEMMA InitInv == ASSUME Init PROVE IInv
<1>1. failures \in 0..MaxFailures /\ crashes \in 0..MaxCrashes
  BY PublicAssumption DEF Init
<1>2. rows \in UNION {[S -> BOOLEAN] : S \in SUBSET Ids}
  BY RowsType DEF Init, IsRows
<1>3. TypeOK
  BY <1>1, <1>2 DEF Init, TypeOK, Slots
<1>4. SaidInv /\ DeleteInv
  BY DEF Init, SaidInv, DisconnectIsSaid, DeleteInv, Slots
<1> QED
  BY <1>3, <1>4 DEF IInv

-----------------------------------------------------------------------------
(* The sidecar. *)

LEMMA RequestType == ASSUME TypeOK, NEW op \in {"register", "heartbeat", "delete"} PROVE Request(op) \in Call
  BY DEF TypeOK, Request, Call

(* A new request takes the place of the last one and its answer. *)
LEMMA SendType ==
  ASSUME TypeOK, NEW slot \in Slots, NEW c \in Call, Send(slot, c)
  PROVE  call' \in [Slots -> Call \cup {None}] /\ answer' \in [Slots -> Answer \cup {None}]
  BY DEF Send, TypeOK

LEMMA LoopType == ASSUME TypeOK, Begin \/ Loop PROVE TypeOK'
<1> USE DEF TypeOK
<1>1. CASE Begin \/ Retry \/ Heartbeat \/ Reregister
  <2>1. \E op \in {"register", "heartbeat", "delete"} : Send("loop", Request(op))
    BY <1>1 DEF Begin, Retry, Heartbeat, Reregister
  <2>2. call' \in [Slots -> Call \cup {None}] /\ answer' \in [Slots -> Answer \cup {None}]
    BY <2>1, RequestType, SendType DEF Slots
  <2> QED
    BY <1>1, <2>2 DEF Begin, Retry, Heartbeat, Reregister
<1>2. CASE Registered \/ Reregistered
  <2>1. answer["loop"] \in Answer \cup {None} /\ answer["loop"] # None
    BY <1>2 DEF Registered, Reregistered, Heard, Slots
  <2>2. answer["loop"].sub \in Ids \cup {None}
    BY <2>1 DEF Answer
  <2> QED
    BY <1>2, <2>2 DEF Registered, Reregistered, Settle, Reschedule, Failure, Slots
<1>3. CASE RegisterFailed \/ HeartbeatAnswered
  BY <1>3 DEF RegisterFailed, HeartbeatAnswered, Reschedule, Failure, Slots
<1> QED
  BY <1>1, <1>2, <1>3 DEF Loop

LEMMA LoopSaid == ASSUME IInv, Begin \/ Loop PROVE SaidInv'
<1>1. SaidInv
  BY DEF IInv
<1>2. ASSUME NEW status PROVE Failure(status) = "disconnected" <=> state = "disconnected"
  <2>1. state = "disconnected" => Failure(status) = state
    BY DEF Failure
  <2>2. state # "disconnected" => Failure(status) \in {"unauthorized", "network_error"}
    BY DEF Failure
  <2> QED
    BY <2>1, <2>2
<1>3. CASE Begin \/ Retry \/ Heartbeat \/ Reregister \/ HeartbeatAnswered
  BY <1>1, <1>3 DEF SaidInv, DisconnectIsSaid, Begin, Retry, Heartbeat, Reregister,
       HeartbeatAnswered, Reschedule
<1>4. CASE Registered
  BY <1>1, <1>4 DEF SaidInv, DisconnectIsSaid, Registered, Heard
<1>5. CASE RegisterFailed
  BY <1>1, <1>2, <1>5 DEF SaidInv, DisconnectIsSaid, RegisterFailed, Heard
<1>6. CASE Reregistered
  <2>1. state' = state \/ \E status : state' = Failure(status)
    BY <1>6 DEF Reregistered
  <2> QED
    BY <1>1, <1>2, <1>6, <2>1 DEF SaidInv, DisconnectIsSaid, Reregistered, Reschedule
<1> QED
  BY <1>3, <1>4, <1>5, <1>6 DEF Loop

LEMMA LoopDelete == ASSUME IInv, Begin \/ Loop PROVE DeleteInv'
<1> USE DEF IInv, DeleteInv, TypeOK, Slots
<1>1. CASE Begin \/ Retry \/ Heartbeat \/ Reregister
  BY <1>1 DEF Begin, Retry, Heartbeat, Reregister, Send, Request
<1>2. CASE Registered \/ Reregistered
  BY <1>2 DEF Registered, Reregistered, Heard
<1>3. CASE RegisterFailed \/ HeartbeatAnswered
  BY <1>3 DEF RegisterFailed, HeartbeatAnswered
<1> QED
  BY <1>1, <1>2, <1>3 DEF Loop

LEMMA AbandonedType == ASSUME TypeOK, NEW S \in SUBSET Slots PROVE Abandoned(S) \subseteq Call
  BY DEF TypeOK, Abandoned

LEMMA DisconnectInv == ASSUME IInv, Disconnect \/ Disconnected PROVE IInv'
<1> USE DEF IInv
<1>1. disc' # "no" /\ state' = "disconnected" /\ loop' \notin {"new", "registering", "backoff"}
  BY DEF Disconnect, Disconnected, Abort, SaidInv, DisconnectIsSaid
<1>2. SaidInv'
  BY <1>1 DEF SaidInv, DisconnectIsSaid
<1>3. call' \in [Slots -> Call \cup {None}] /\ answer' \in [Slots -> Answer \cup {None}]
  BY RequestType, SendType DEF Disconnect, Disconnected, Abort, Slots
<1>4. strays' \subseteq Call
  BY AbandonedType DEF Disconnect, Disconnected, Abort, TypeOK
<1>5. TypeOK'
  BY <1>3, <1>4 DEF Disconnect, Disconnected, Abort, Settle, TypeOK
<1>6. DeleteInv'
  BY <1>1 DEF Disconnect, Disconnected, Abort, Send, DeleteInv, TypeOK, Slots
<1> QED
  BY <1>2, <1>5, <1>6

-----------------------------------------------------------------------------
(* The Worker and the route object. *)

LEMMA RespondType ==
  ASSUME TypeOK, NEW slot \in Slots \cup {"stray"}, NEW c \in Call, NEW a \in Answer, Respond(c, slot, a)
  PROVE  /\ call' \in [Slots -> Call \cup {None}] /\ answer' \in [Slots -> Answer \cup {None}]
         /\ strays' \subseteq Call
  BY DEF TypeOK, Respond

LEMMA ToldType ==
  ASSUME NEW status \in {"ok", "unauthorized", "not_found", "in_use", "error"} PROVE Told(status) \in Answer
  BY DEF Told, Answer

(* What a request that is handled becomes, and what it does to the rows.   *)
LEMMA HandleType ==
  ASSUME TypeOK, NEW slot \in Slots \cup {"stray"}, NEW c \in Call, Handle(c, slot)
  PROVE  TypeOK'
<1>1. IsRows(rows)
  BY RowsType DEF TypeOK
<1>2. CASE HandleRegister(c, slot) /\ InUse
  <2>1. IsRows(rows') /\ Respond(c, slot, Told("in_use"))
    BY <1>1, <1>2, KeepRowsType DEF HandleRegister
  <2> QED
    BY <1>2, <2>1, RowsType, RespondType, ToldType DEF Handle, client, TypeOK
<1>3. CASE HandleRegister(c, slot) /\ ~InUse
  <2>1. FreshId \in Ids
    BY <1>3 DEF HandleRegister, FreshId, Unused
  <2>2. IsRows(rows')
    BY <1>1, <1>3, <2>1 DEF HandleRegister, IsRows, Unexpired
  <2>3. [status |-> "ok", sub |-> FreshId] \in Answer
    BY <2>1 DEF Answer
  <2>4. Respond(c, slot, [status |-> "ok", sub |-> FreshId])
    BY <1>3 DEF HandleRegister
  <2> QED
    BY <2>2, <2>3, <2>4, RowsType, RespondType DEF Handle, client, TypeOK
<1>4. CASE Verify(c, slot)
  <2>1. [c EXCEPT !.verified = TRUE] \in Call
    BY DEF Call
  <2>2. /\ call' \in [Slots -> Call \cup {None}] /\ answer' \in [Slots -> Answer \cup {None}]
        /\ strays' \subseteq Call
    BY <1>4, <2>1, RespondType, ToldType DEF Verify, TypeOK
  <2> QED
    BY <1>4, <2>2 DEF Verify, Handle, client, TypeOK
<1>5. CASE HandleHeartbeat(c, slot) \/ HandleDelete(c, slot)
  <2>1. IsRows(rows')
    BY <1>1, <1>5, KeepRowsType DEF HandleHeartbeat, HandleDelete
  <2>2. \E status \in {"ok", "not_found"} : Respond(c, slot, Told(status))
    BY <1>5 DEF HandleHeartbeat, HandleDelete
  <2> QED
    BY <2>1, <2>2, RowsType, RespondType, ToldType DEF Handle, client, TypeOK
<1> QED
  BY <1>2, <1>3, <1>4, <1>5 DEF Handle

(* A new subscriber is named by nothing that was said before. *)
LEMMA FreshIsUnspoken ==
  ASSUME Unused # {} PROVE FreshId # None => \A c \in strays : c.sub # FreshId
  BY DEF FreshId, Unused, Spoken

(* A response ends a request, and brings at most a new subscriber's name.  *)
LEMMA RespondInv ==
  ASSUME TypeOK, DeleteInv, NEW slot \in Slots \cup {"stray"}, NEW c, NEW a, Respond(c, slot, a),
         UNCHANGED client, a.sub = None \/ \A d \in strays : d.sub # a.sub
  PROVE  DeleteInv'
  BY DEF TypeOK, Respond, DeleteInv, client, Slots

LEMMA HandleDeleteInv ==
  ASSUME TypeOK, DeleteInv, NEW slot \in Slots \cup {"stray"}, NEW c \in Call, Handle(c, slot),
         slot # "stray" => c # None
  PROVE  DeleteInv'
<1>1. UNCHANGED client
  BY DEF Handle
<1>2. ASSUME NEW status, Respond(c, slot, Told(status)) PROVE DeleteInv'
  <2>1. Told(status).sub = None
    BY DEF Told
  <2> QED
    BY <1>1, <1>2, <2>1, RespondInv
<1>3. CASE HandleRegister(c, slot) /\ InUse
  BY <1>2, <1>3 DEF HandleRegister
<1>4. CASE HandleRegister(c, slot) /\ ~InUse
  <2> DEFINE a == [status |-> "ok", sub |-> FreshId]
  <2>1. Respond(c, slot, a) /\ Unused # {}
    BY <1>4 DEF HandleRegister
  <2>2. a.sub = None \/ \A d \in strays : d.sub # a.sub
    BY <2>1, FreshIsUnspoken
  <2> QED
    BY <1>1, <2>1, <2>2, RespondInv
<1>5. CASE Verify(c, slot) /\ ~TokenMatches(c)
  BY <1>2, <1>5 DEF Verify
<1>6. CASE Verify(c, slot) /\ TokenMatches(c)
  <2> DEFINE d == [c EXCEPT !.verified = TRUE]
  <2>1. d.op = c.op /\ d.sub = c.sub
    BY DEF Call
  <2>2. /\ UNCHANGED answer
        /\ IF slot = "stray"
             THEN strays' = (strays \ {c}) \cup {d} /\ UNCHANGED call
             ELSE call' = [call EXCEPT ![slot] = d] /\ UNCHANGED strays
    BY <1>6 DEF Verify
  <2>3. Asks(c, slot)
    BY DEF Handle
  <2> HIDE DEF d
  <2> QED
    BY <1>1, <2>1, <2>2, <2>3 DEF TypeOK, DeleteInv, Asks, client, Slots
<1>7. CASE HandleHeartbeat(c, slot) \/ HandleDelete(c, slot)
  BY <1>2, <1>7 DEF HandleHeartbeat, HandleDelete
<1> QED
  BY <1>3, <1>4, <1>5, <1>6, <1>7 DEF Handle

(* Some request is handled. *)
LEMMA HandledIsCall ==
  ASSUME TypeOK, HandleStray \/ \E s \in Slots : HandleSlot(s)
  PROVE  \E slot \in Slots \cup {"stray"}, c \in Call : Handle(c, slot) /\ (slot # "stray" => c # None)
<1>1. CASE HandleStray
  BY <1>1 DEF TypeOK, HandleStray
<1>2. ASSUME NEW s \in Slots, HandleSlot(s)
      PROVE  \E slot \in Slots \cup {"stray"}, c \in Call : Handle(c, slot) /\ (slot # "stray" => c # None)
  <2>1. call[s] \in Call /\ call[s] # None /\ Handle(call[s], s)
    BY <1>2 DEF TypeOK, HandleSlot
  <2> QED
    BY <2>1
<1> QED
  BY <1>1, <1>2

LEMMA HandleInv ==
  ASSUME IInv, HandleStray \/ \E s \in Slots : HandleSlot(s) PROVE IInv'
<1>1. PICK slot \in Slots \cup {"stray"}, c \in Call : Handle(c, slot) /\ (slot # "stray" => c # None)
  BY HandledIsCall DEF IInv
<1>2. SaidInv'
  BY <1>1 DEF IInv, Handle, client, SaidInv, DisconnectIsSaid
<1> QED
  BY <1>1, <1>2, HandleType, HandleDeleteInv DEF IInv

-----------------------------------------------------------------------------
(* The world. *)

LEMMA WorldInv ==
  ASSUME IInv, Alarm \/ \E i \in Ids : Lapse(i) PROVE IInv'
<1>1. IsRows(rows)
  BY RowsType DEF IInv, TypeOK
<1>2. IsRows(rows')
  BY <1>1, KeepRowsType DEF Alarm, Purge, Lapse, IsRows, Has
<1>3. TypeOK'
  BY <1>2, RowsType DEF Alarm, Lapse, IInv, TypeOK, client
<1>4. SaidInv' /\ DeleteInv'
  BY DEF Alarm, Lapse, IInv, SaidInv, DisconnectIsSaid, DeleteInv, client
<1> QED
  BY <1>3, <1>4 DEF IInv

LEMMA FailureInv ==
  ASSUME IInv, CredentialRefused \/ \E s \in Slots : CallFails(s) PROVE IInv'
<1> USE DEF IInv, client
<1>1. failures' \in 0..MaxFailures
  <2>1. failures < MaxFailures /\ failures' = failures + 1
    BY DEF CredentialRefused, CallFails
  <2> QED
    BY <2>1, PublicAssumption DEF TypeOK
<1>2. call' \in [Slots -> Call \cup {None}] /\ answer' \in [Slots -> Answer \cup {None}]
  BY ToldType DEF CredentialRefused, CallFails, TypeOK
<1>3. strays' \subseteq Call
  <2>1. strays' = strays \/ \E S \in SUBSET Slots : strays' = Abandoned(S)
    BY DEF CredentialRefused, CallFails
  <2> QED
    BY <2>1, AbandonedType DEF TypeOK
<1>4. TypeOK'
  BY <1>1, <1>2, <1>3 DEF CredentialRefused, CallFails, TypeOK
<1>5. SaidInv'
  BY DEF CredentialRefused, CallFails, SaidInv, DisconnectIsSaid
<1>6. CASE CredentialRefused
  BY <1>4, <1>5, <1>6 DEF CredentialRefused, DeleteInv, TypeOK, Told, Slots
<1>7. ASSUME NEW s \in Slots, CallFails(s) PROVE DeleteInv'
  BY <1>7 DEF CallFails, DeleteInv, TypeOK, Told, Abandoned, Slots
<1> QED
  BY <1>4, <1>5, <1>6, <1>7

LEMMA RestartInv == ASSUME IInv, Restart PROVE IInv'
<1> USE DEF IInv, Restart
<1>1. crashes' \in 0..MaxCrashes
  BY PublicAssumption DEF TypeOK
<1>2. strays' \subseteq Call
  BY AbandonedType
<1>3. TypeOK'
  BY <1>1, <1>2 DEF TypeOK
<1>4. SaidInv' /\ DeleteInv'
  BY DEF SaidInv, DisconnectIsSaid, DeleteInv, Slots
<1> QED
  BY <1>3, <1>4

LEMMA StepInv == ASSUME IInv, [Next]_vars PROVE IInv'
<1>1. CASE Begin \/ Loop
  BY <1>1, LoopType, LoopSaid, LoopDelete DEF IInv
<1>2. CASE UNCHANGED vars
  BY <1>2 DEF vars, client, IInv, TypeOK, SaidInv, DisconnectIsSaid, DeleteInv
<1> QED
  BY <1>1, <1>2, DisconnectInv, HandleInv, WorldInv, FailureInv, RestartInv DEF Next

-----------------------------------------------------------------------------

(* Every run keeps the invariant. *)
THEOREM Inductive == Spec => []IInv
  BY InitInv, StepInv, PTL DEF Spec

(* Every variable keeps its type: requests, answers and rows as well. *)
THEOREM TypeCorrect == Spec => []TypeOK
<1>1. IInv => TypeOK
  BY DEF IInv
<1> QED
  BY <1>1, Inductive, PTL

(* From disconnect() on a sidecar says "disconnected", whatever is         *)
(* answered later.                                                         *)
THEOREM DisconnectsAreSaid == Spec => []DisconnectIsSaid
<1>1. IInv => DisconnectIsSaid
  BY DEF IInv, SaidInv
<1> QED
  BY <1>1, Inductive, PTL

(* The row a running sidecar beats for is not taken away before its TTL is *)
(* over: not by a purge, nor by an earlier process's late DELETE.          *)
THEOREM LiveRowsAreKept == Spec => LiveRowIsKept
<1>1. ASSUME IInv, [Next]_vars
      PROVE  \A i \in Ids : Beats(i) /\ disc = "no" /\ Has(i) /\ ~rows[i] => i \in DOMAIN rows'
  <2> SUFFICES ASSUME NEW i \in Ids, Beats(i), disc = "no", Has(i), ~rows[i]
               PROVE  i \in DOMAIN rows'
    OBVIOUS
  <2>1. i \in Unexpired /\ i = sub /\ i # None
    BY PublicAssumption DEF Unexpired, Has, Beats
  <2>2. i \in DOMAIN KeepRows(Unexpired)
    BY <2>1 DEF KeepRows, Unexpired
  <2>3. ASSUME NEW slot \in Slots \cup {"stray"}, NEW c \in Call, Handle(c, slot),
               slot # "stray" => c # None
        PROVE  i \in DOMAIN rows'
    <3>1. CASE HandleDelete(c, slot)
      <4>1. Asks(c, slot) /\ c.op = "delete"
        BY <2>3, <3>1 DEF Handle, HandleDelete
      <4>2. c \in strays
        BY <1>1, <2>3, <4>1 DEF IInv, DeleteInv, Asks, Slots
      <4>3. c.sub # i
        BY <1>1, <2>1, <4>1, <4>2 DEF IInv, DeleteInv
      <4> QED
        BY <2>1, <3>1, <4>3 DEF HandleDelete, KeepRows, Unexpired
    <3>2. CASE HandleRegister(c, slot)
      BY <2>1, <2>2, <3>2 DEF HandleRegister
    <3>3. CASE Verify(c, slot) \/ HandleHeartbeat(c, slot)
      BY <2>2, <3>3 DEF Verify, HandleHeartbeat, Has
    <3> QED
      BY <2>3, <3>1, <3>2, <3>3 DEF Handle
  <2>4. CASE HandleStray \/ \E s \in Slots : HandleSlot(s)
    BY <1>1, <2>3, <2>4, HandledIsCall DEF IInv
  <2>5. CASE Alarm
    BY <2>2, <2>5 DEF Alarm, Purge
  <2>6. CASE \E j \in Ids : Lapse(j)
    BY <2>6 DEF Lapse, Has
  <2>7. CASE UNCHANGED rows
    BY <2>7 DEF Has
  <2> QED
    BY <1>1, <2>4, <2>5, <2>6, <2>7
    DEF Next, Begin, Loop, Registered, RegisterFailed, Retry, Heartbeat, HeartbeatAnswered,
        Reregister, Reregistered, Disconnect, Disconnected, CallFails, CredentialRefused, Restart, vars
<1> QED
  BY <1>1, Inductive, PTL DEF Spec, LiveRowIsKept


-----------------------------------------------------------------------------
(* What StaleRowsGo and StartsInTheEnd rely on. *)

(* The UNIQUE index on environment_id: a sidecar with an environment id    *)
(* has one row, whatever registrations were retried, or are handled after  *)
(* the sidecar has given them up or its process was killed.                *)
OneRow == Identified => \A i, j \in DOMAIN rows : i = j

(* A new row is inserted only when the purge has left none. *)
LEMMA HandleOneRow ==
  ASSUME OneRow, NEW slot, NEW c, Handle(c, slot) PROVE OneRow'
<1>1. CASE HandleRegister(c, slot) /\ ~InUse
  BY <1>1 DEF HandleRegister, InUse, OneRow
<1>2. ASSUME rows' = rows \/ \E S : rows' = KeepRows(S) PROVE OneRow'
  BY <1>2 DEF KeepRows, OneRow
<1> QED
  BY <1>1, <1>2 DEF Handle, HandleRegister, Verify, HandleHeartbeat, HandleDelete

(* Rows left behind never stand beside a newer one of the environment.     *)
THEOREM OneRowPerEnvironment == Spec => []OneRow
<1>1. Init => OneRow
  BY DEF Init, OneRow
<1>2. ASSUME OneRow, [Next]_vars PROVE OneRow'
  <2>1. CASE HandleStray \/ \E s \in Slots : HandleSlot(s)
    BY <1>2, <2>1, HandleOneRow DEF HandleStray, HandleSlot
  <2>2. CASE Alarm \/ \E i \in Ids : Lapse(i)
    BY <1>2, <2>2 DEF Alarm, Purge, KeepRows, Lapse, Has, OneRow
  <2>3. CASE UNCHANGED rows
    BY <1>2, <2>3 DEF OneRow
  <2> QED
    BY <1>2, <2>1, <2>2, <2>3
    DEF Next, Begin, Loop, Registered, RegisterFailed, Retry, Heartbeat, HeartbeatAnswered,
        Reregister, Reregistered, Disconnect, Disconnected, CallFails, CredentialRefused, Restart, vars
<1> QED
  BY <1>1, <1>2, PTL DEF Spec

(* The loop waits exactly while a request of its own is under way or is    *)
(* answered, and never for an answer that cannot come: it is not stuck.    *)
(* Each request is of the kind the phase sent.                             *)
LoopIsServed ==
  /\ loop \in {"registering", "beating", "reregistering"}
       <=> call["loop"] # None \/ answer["loop"] # None
  /\ call["loop"] = None \/ answer["loop"] = None
  /\ call["loop"] # None => call["loop"].op = IF loop = "beating" THEN "heartbeat" ELSE "register"

(* When disconnect() is done the ready promise is settled, the loop has    *)
(* ended, and no answer can reach the sidecar any more.                    *)
DoneIsFinal ==
  disc = "done" =>
    /\ loop = "ended" /\ ready # "pending"
    /\ \A s \in Slots : call[s] = None /\ answer[s] = None

WaitInv == LoopIsServed /\ DoneIsFinal

LEMMA SendOp ==
  ASSUME TypeOK, NEW op \in {"register", "heartbeat", "delete"}, Send("loop", Request(op))
  PROVE  call'["loop"] # None /\ call'["loop"].op = op /\ answer'["loop"] = None
<1>1. Request(op) # None /\ Request(op).op = op
  BY RequestType, NoneAssumption DEF Request
<1> QED
  BY <1>1 DEF Send, TypeOK, Slots

LEMMA LoopWaits == ASSUME IInv, WaitInv, Begin \/ Loop PROVE WaitInv'
<1> USE DEF IInv, WaitInv
<1>1. disc # "done" /\ UNCHANGED disc
  BY DEF DoneIsFinal, Slots, Loop, Begin, Registered, RegisterFailed, Retry, Heartbeat,
         HeartbeatAnswered, Reregister, Reregistered, Heard
<1>2. DoneIsFinal'
  BY <1>1 DEF DoneIsFinal
<1>3. CASE Begin \/ Retry \/ Heartbeat \/ Reregister
  BY <1>2, <1>3, SendOp DEF LoopIsServed, Begin, Retry, Heartbeat, Reregister
<1>4. CASE Registered \/ RegisterFailed \/ HeartbeatAnswered \/ Reregistered
  <2>1. /\ answer["loop"] # None /\ UNCHANGED call
        /\ answer' = [answer EXCEPT !["loop"] = None]
        /\ loop' \in {"waiting", "backoff", "ended"}
    BY <1>4 DEF Registered, RegisterFailed, HeartbeatAnswered, Reregistered, Heard, Reschedule
  <2> QED
    BY <1>2, <2>1 DEF LoopIsServed, TypeOK, Slots
<1> QED
  BY <1>2, <1>3, <1>4 DEF Loop

LEMMA DisconnectWaits == ASSUME IInv, WaitInv, Disconnect \/ Disconnected PROVE WaitInv'
<1> USE DEF IInv, WaitInv
<1>1. CASE Abort
  BY <1>1 DEF Abort, Settle, TypeOK, LoopIsServed, DoneIsFinal, Slots
<1>2. CASE Disconnect /\ sub # None
  BY <1>2 DEF Disconnect, Send, TypeOK, LoopIsServed, DoneIsFinal, Slots
<1> QED
  BY <1>1, <1>2 DEF Disconnect, Disconnected

(* A request that is handled is answered or stays; a stray changes neither. *)
LEMMA HandleWaits ==
  ASSUME IInv, WaitInv, NEW slot \in Slots \cup {"stray"}, NEW c \in Call, Handle(c, slot)
  PROVE  WaitInv'
<1> USE DEF IInv, WaitInv
<1>1. UNCHANGED client /\ Asks(c, slot) /\ c # None
  BY NoneAssumption DEF Handle
<1>2. \/ UNCHANGED <<call, answer>>
      \/ /\ slot # "stray" /\ call' = [call EXCEPT ![slot] = None]
         /\ \E a \in Answer : answer' = [answer EXCEPT ![slot] = a]
      \/ /\ slot # "stray" /\ UNCHANGED answer
         /\ call' = [call EXCEPT ![slot] = [c EXCEPT !.verified = TRUE]]
  <2>1. ASSUME NEW status \in {"ok", "unauthorized", "not_found", "in_use", "error"}, NEW i \in Ids \cup {None}
        PROVE  [status |-> status, sub |-> i] \in Answer
    BY DEF Answer
  <2>2. ASSUME NEW a \in Answer, Respond(c, slot, a)
        PROVE  \/ UNCHANGED <<call, answer>>
               \/ /\ slot # "stray" /\ call' = [call EXCEPT ![slot] = None]
                  /\ answer' = [answer EXCEPT ![slot] = a]
    BY <2>2 DEF Respond
  <2>3. CASE Verify(c, slot) /\ TokenMatches(c)
    BY <2>3 DEF Verify
  <2>4. CASE \E a \in Answer : Respond(c, slot, a)
    BY <2>2, <2>4
  <2>5. ASSUME HandleRegister(c, slot), ~InUse PROVE [status |-> "ok", sub |-> FreshId] \in Answer
    <3>1. FreshId \in Ids
      BY <2>5 DEF HandleRegister, FreshId, Unused
    <3> QED
      BY <2>1, <3>1
  <2>6. ~(Verify(c, slot) /\ TokenMatches(c)) => \E a \in Answer : Respond(c, slot, a)
    BY <2>5, ToldType DEF Handle, HandleRegister, Verify, HandleHeartbeat, HandleDelete
  <2> QED
    BY <2>3, <2>4, <2>6
<1>3. UNCHANGED <<loop, disc, ready>>
  BY <1>1 DEF client
<1>4. CASE UNCHANGED <<call, answer>>
  BY <1>3, <1>4 DEF LoopIsServed, DoneIsFinal
<1>5. ASSUME NEW a \in Answer, slot # "stray", call' = [call EXCEPT ![slot] = None],
             answer' = [answer EXCEPT ![slot] = a]
      PROVE  WaitInv'
  <2>1. a # None /\ call[slot] = c
    BY <1>1, <1>5, NoneAssumption DEF Asks
  <2> QED
    BY <1>1, <1>3, <1>5, <2>1 DEF LoopIsServed, DoneIsFinal, TypeOK, Slots
<1>6. ASSUME slot # "stray", UNCHANGED answer, call' = [call EXCEPT ![slot] = [c EXCEPT !.verified = TRUE]]
      PROVE  WaitInv'
  <2> DEFINE d == [c EXCEPT !.verified = TRUE]
  <2>1. d \in Call /\ d.op = c.op
    BY DEF Call
  <2>2. d # None /\ call[slot] = c
    BY <1>1, <1>6, <2>1, NoneAssumption DEF Asks
  <2>3. call' = [call EXCEPT ![slot] = d]
    BY <1>6
  <2> HIDE DEF d
  <2> QED
    BY <1>1, <1>3, <1>6, <2>1, <2>2, <2>3 DEF LoopIsServed, DoneIsFinal, TypeOK, Slots
<1> QED
  BY <1>2, <1>4, <1>5, <1>6

LEMMA WorldWaits ==
  ASSUME IInv, WaitInv, \/ CredentialRefused \/ \E s \in Slots : CallFails(s)
                        \/ Alarm \/ \E i \in Ids : Lapse(i)
                        \/ Restart \/ UNCHANGED vars
  PROVE  WaitInv'
<1> USE DEF IInv, WaitInv
<1>1. ASSUME NEW s \in Slots, NEW status \in {"unauthorized", "error"}, call[s] # None,
             call' = [call EXCEPT ![s] = None], answer' = [answer EXCEPT ![s] = Told(status)],
             UNCHANGED client
      PROVE  WaitInv'
  <2>1. Told(status) # None
    BY ToldType, NoneAssumption
  <2> QED
    BY <1>1, <2>1 DEF client, LoopIsServed, DoneIsFinal, TypeOK, Slots
<1>2. CASE CredentialRefused \/ \E s \in Slots : CallFails(s)
  BY <1>1, <1>2 DEF CredentialRefused, CallFails, Slots
<1>3. CASE UNCHANGED <<client, call, answer>>
  BY <1>3 DEF client, LoopIsServed, DoneIsFinal
<1>4. CASE Restart
  BY <1>4 DEF Restart, LoopIsServed, DoneIsFinal, Slots
<1> QED
  BY <1>2, <1>3, <1>4 DEF Alarm, Lapse, vars

LEMMA Waiting == Spec => []WaitInv
<1>1. Init => WaitInv
  BY DEF Init, WaitInv, LoopIsServed, DoneIsFinal, Slots
<1>2. ASSUME IInv, WaitInv, [Next]_vars PROVE WaitInv'
  <2>1. CASE HandleStray \/ \E s \in Slots : HandleSlot(s)
    BY <1>2, <2>1, HandledIsCall, HandleWaits DEF IInv
  <2> QED
    BY <1>2, <2>1, LoopWaits, DisconnectWaits, WorldWaits DEF Next
<1> QED
  BY <1>1, <1>2, Inductive, PTL DEF Spec

(* A loop that waits is owed an answer: retries, failures, aborts and      *)
(* restarts leave none that waits for nothing.                             *)
THEOREM LoopsAreServed == Spec => []LoopIsServed
<1>1. WaitInv => LoopIsServed
  BY DEF WaitInv
<1> QED
  BY <1>1, Waiting, PTL

(* What disconnect() leaves behind changes the sidecar no more.            *)
THEOREM DisconnectsAreFinal == Spec => []DoneIsFinal
<1>1. WaitInv => DoneIsFinal
  BY DEF WaitInv
<1> QED
  BY <1>1, Waiting, PTL
=============================================================================
