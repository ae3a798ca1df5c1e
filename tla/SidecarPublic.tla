--------------------------- MODULE SidecarPublic ---------------------------
(***************************************************************************)
(* A public-target sidecar (src/src/client.ts, PublicConnection) and what  *)
(* its route object keeps for it.  The sidecar registers, retrying until   *)
(* it succeeds, then posts a heartbeat every minute; a heartbeat answered  *)
(* 404 makes it register again.  A disconnect sends a DELETE and aborts    *)
(* what is left.                                                           *)
(*                                                                         *)
(* A heartbeat or a DELETE takes two calls of the Worker to the route      *)
(* object: one compares the token, one acts.  The network may lose a       *)
(* request or its response; a request the sidecar no longer waits for may  *)
(* still be handled (a stray).  The process may be killed and started      *)
(* again.  The join credential is assumed good unless the Worker refuses   *)
(* it (one of the failures).                                               *)
(***************************************************************************)
EXTENDS Naturals, FiniteSets

CONSTANTS
  Identified,    \* the sidecar has an environment id
  Ids,           \* subscriber ids, each with the token of the same name
  None,          \* the empty id, no request, no answer
  MaxFailures,   \* bound: calls that fail, refusals of the credential
  MaxCrashes     \* bound: restarts of the process

ASSUME PublicAssumption ==
  /\ Identified \in BOOLEAN
  /\ IsFiniteSet(Ids) /\ None \notin Ids
  /\ MaxFailures \in Nat /\ MaxCrashes \in Nat

Slots == {"loop", "bye"}

VARIABLES
  loop,      \* where runStart and the heartbeat timer are
  disc,      \* where disconnect() is: "no", "deleting", "done"
  ready,     \* the ready promise: "pending", "resolved", "failed"
  state,     \* connectionState
  sub,       \* subscriberId, which also names the connection token
  call,      \* per slot, the request the sidecar waits for
  answer,    \* per slot, the status and subscriber of its response
  strays,    \* requests nobody waits for any more
  rows,      \* the sidecar's rows: id -> is its TTL over?
  failures, crashes

client == <<loop, disc, ready, state, sub>>
vars == <<client, call, answer, strays, rows, failures, crashes>>

Call == [op : {"register", "heartbeat", "delete"}, sub : Ids \cup {None}, verified : BOOLEAN]
Answer == [status : {"ok", "unauthorized", "not_found", "in_use", "error"}, sub : Ids \cup {None}]

(* None, for no request or answer yet, is not itself a request or an answer. *)
ASSUME NoneAssumption == None \notin Call \cup Answer

Told(status) == [status |-> status, sub |-> None]

(* A row's value is TRUE once expires_at has passed. *)
Has(i) == i \in DOMAIN rows
KeepRows(S) == [i \in DOMAIN rows \cap S |-> rows[i]]
Unexpired == {i \in DOMAIN rows : ~rows[i]}

Request(op) == [op |-> op, sub |-> sub, verified |-> FALSE]
Send(slot, c) ==
  /\ call' = [call EXCEPT ![slot] = c]
  /\ answer' = [answer EXCEPT ![slot] = None]

(* Mutant: connectionState takes the status as it is. *)
RawFailure(status) == status

(* nextConnectionFailure: "disconnected" and "unauthorized" are sticky. *)
Failure(status) ==
  IF state = "disconnected" THEN state
  ELSE IF "unauthorized" \in {status, state} THEN "unauthorized"
  ELSE "network_error"

Settle(outcome) == ready' = IF ready = "pending" THEN outcome ELSE ready

(***************************************************************************)
(* The sidecar's loop.                                                     *)
(***************************************************************************)
Begin ==
  /\ loop = "new"
  /\ loop' = "registering"
  /\ Send("loop", Request("register"))
  /\ UNCHANGED <<disc, ready, state, sub, strays, rows, failures, crashes>>

Heard(where) == loop = where /\ answer["loop"] # None

Registered ==
  /\ Heard("registering") /\ answer["loop"].status = "ok"
  /\ loop' = "waiting" /\ state' = "connected" /\ sub' = answer["loop"].sub
  /\ Settle("resolved")
  /\ answer' = [answer EXCEPT !["loop"] = None]
  /\ UNCHANGED <<disc, call, strays, rows, failures, crashes>>

(* Mutant: only a network error is retried. *)
GivesUpWhenInUse ==
  /\ Heard("registering") /\ answer["loop"].status # "ok"
  /\ loop' = IF answer["loop"].status = "in_use" THEN "ended" ELSE "backoff"
  /\ state' = Failure(answer["loop"].status)
  /\ answer' = [answer EXCEPT !["loop"] = None]
  /\ UNCHANGED <<disc, ready, sub, call, strays, rows, failures, crashes>>

RegisterFailed ==
  /\ Heard("registering") /\ answer["loop"].status # "ok"
  /\ loop' = "backoff" /\ state' = Failure(answer["loop"].status)
  /\ answer' = [answer EXCEPT !["loop"] = None]
  /\ UNCHANGED <<disc, ready, sub, call, strays, rows, failures, crashes>>

Retry ==
  /\ loop = "backoff"
  /\ loop' = "registering"
  /\ Send("loop", Request("register"))
  /\ UNCHANGED <<disc, ready, state, sub, strays, rows, failures, crashes>>

Heartbeat ==
  /\ loop = "waiting"
  /\ loop' = "beating"
  /\ Send("loop", Request("heartbeat"))
  /\ UNCHANGED <<disc, ready, state, sub, strays, rows, failures, crashes>>

Reschedule == IF disc = "no" THEN "waiting" ELSE "ended"

HeartbeatAnswered ==
  /\ Heard("beating") /\ answer["loop"].status # "not_found"
  /\ loop' = Reschedule
  /\ answer' = [answer EXCEPT !["loop"] = None]
  /\ UNCHANGED <<disc, ready, state, sub, call, strays, rows, failures, crashes>>

Reregister ==
  /\ Heard("beating") /\ answer["loop"].status = "not_found"
  /\ loop' = "reregistering"
  /\ Send("loop", Request("register"))
  /\ UNCHANGED <<disc, ready, state, sub, strays, rows, failures, crashes>>

Reregistered ==
  /\ Heard("reregistering")
  /\ IF answer["loop"].status = "ok"
       THEN sub' = answer["loop"].sub /\ UNCHANGED state
       ELSE state' = Failure(answer["loop"].status) /\ UNCHANGED sub
  /\ loop' = Reschedule
  /\ answer' = [answer EXCEPT !["loop"] = None]
  /\ UNCHANGED <<disc, ready, call, strays, rows, failures, crashes>>

(***************************************************************************)
(* Disconnecting: the DELETE, if there is a subscriber, then the abort of  *)
(* whatever the loop waits for.                                            *)
(***************************************************************************)
Abandoned(slots) == strays \cup ({call[s] : s \in slots} \ {None})

Abort ==
  /\ disc' = "done" /\ loop' = "ended"
  /\ Settle("failed")
  /\ strays' = Abandoned(Slots)
  /\ call' = [s \in Slots |-> None]
  /\ answer' = [s \in Slots |-> None]

(* Mutant: disconnect() aborts only after a DELETE. *)
AbortsOnlyAfterDelete ==
  /\ loop # "new" /\ disc = "no"
  /\ state' = "disconnected"
  /\ IF sub = None
       THEN disc' = "done" /\ UNCHANGED <<loop, ready, call, answer, strays>>
       ELSE /\ disc' = "deleting"
            /\ loop' = IF loop = "waiting" THEN "ended" ELSE loop
            /\ Send("bye", Request("delete"))
            /\ UNCHANGED <<ready, strays>>
  /\ UNCHANGED <<sub, rows, failures, crashes>>

Disconnect ==
  /\ loop # "new" /\ disc = "no"
  /\ state' = "disconnected"
  /\ IF sub = None
       THEN Abort
       ELSE /\ disc' = "deleting"
            /\ loop' = IF loop = "waiting" THEN "ended" ELSE loop
            /\ Send("bye", Request("delete"))
            /\ UNCHANGED <<ready, strays>>
  /\ UNCHANGED <<sub, rows, failures, crashes>>

(* The DELETE is answered, or given up after DEREGISTER_TIMEOUT_MS. *)
Disconnected ==
  /\ disc = "deleting"
  /\ Abort
  /\ UNCHANGED <<state, sub, rows, failures, crashes>>

(***************************************************************************)
(* The Worker and the route object handle a request.                       *)
(***************************************************************************)
Spoken == {call[s].sub : s \in {t \in Slots : call[t] # None}}
            \cup {answer[s].sub : s \in {t \in Slots : answer[t] # None}}
            \cup {c.sub : c \in strays} \cup {sub}
Unused == Ids \ (DOMAIN rows \cup Spoken)
FreshId == CHOOSE i \in Unused : TRUE

(* Answer c: a stray's answer is heard by nobody. *)
Respond(c, slot, a) ==
  IF slot = "stray"
    THEN strays' = strays \ {c} /\ UNCHANGED <<call, answer>>
    ELSE /\ call' = [call EXCEPT ![slot] = None]
         /\ answer' = [answer EXCEPT ![slot] = a]
         /\ UNCHANGED strays

Asks(c, slot) == IF slot = "stray" THEN c \in strays ELSE call[slot] = c

(* Mutant: a registration takes the environment's row over, without proof. *)
TakesOver(c, slot) ==
  /\ c.op = "register"
  /\ Unused # {}
  /\ rows' = [i \in (IF Identified THEN {} ELSE Unexpired) \cup {FreshId} |-> FALSE]
  /\ Respond(c, slot, [status |-> "ok", sub |-> FreshId])

(* register: purge, then a new row unless the environment's row is live.   *)
(* A reclaim by proof cannot arise: the sidecar only presents the token of *)
(* a row that is gone.                                                     *)
InUse == Identified /\ Unexpired # {}

HandleRegister(c, slot) ==
  /\ c.op = "register"
  /\ IF InUse
       THEN rows' = KeepRows(Unexpired) /\ Respond(c, slot, Told("in_use"))
       ELSE /\ Unused # {}
            /\ rows' = [i \in Unexpired \cup {FreshId} |-> FALSE]
            /\ Respond(c, slot, [status |-> "ok", sub |-> FreshId])

(* authorizeSubscriber: the lookup does not purge, so a lapsed row passes. *)
TokenMatches(c) == Has(c.sub)

Verify(c, slot) ==
  /\ c.op # "register" /\ ~c.verified
  /\ IF ~TokenMatches(c)
       THEN Respond(c, slot, Told("unauthorized"))
       ELSE LET d == [c EXCEPT !.verified = TRUE] IN
            /\ UNCHANGED answer
            /\ IF slot = "stray"
                 THEN strays' = (strays \ {c}) \cup {d} /\ UNCHANGED call
                 ELSE call' = [call EXCEPT ![slot] = d] /\ UNCHANGED strays
  /\ UNCHANGED rows

HandleHeartbeat(c, slot) ==
  /\ c.op = "heartbeat" /\ c.verified
  /\ rows' = KeepRows(Unexpired)
  /\ Respond(c, slot, Told(IF c.sub \in Unexpired THEN "ok" ELSE "not_found"))

HandleDelete(c, slot) ==
  /\ c.op = "delete" /\ c.verified
  /\ rows' = KeepRows(Unexpired \ {c.sub})
  /\ Respond(c, slot, Told("ok"))

Handle(c, slot) ==
  /\ Asks(c, slot)
  /\ HandleRegister(c, slot) \/ Verify(c, slot) \/ HandleHeartbeat(c, slot) \/ HandleDelete(c, slot)
  /\ UNCHANGED <<client, failures, crashes>>

HandleSlot(slot) == call[slot] # None /\ Handle(call[slot], slot)
HandleStray == \E c \in strays : Handle(c, "stray")

(* Mutant: the alarm deletes nothing. *)
PurgesNothing == rows' = rows

(* alarm: scheduleCleanup keeps it set while a public row is left. *)
Purge == rows' = KeepRows(Unexpired)

Alarm ==
  /\ \E i \in DOMAIN rows : rows[i]
  /\ Purge
  /\ UNCHANGED <<client, call, answer, strays, failures, crashes>>

(***************************************************************************)
(* The world: time, the network, the process.                              *)
(***************************************************************************)
Lapse(i) ==
  /\ Has(i) /\ ~rows[i]
  /\ rows' = [rows EXCEPT ![i] = TRUE]
  /\ UNCHANGED <<client, call, answer, strays, failures, crashes>>

(* A request or its response is lost. *)
CallFails(slot) ==
  /\ failures < MaxFailures /\ call[slot] # None
  /\ failures' = failures + 1
  /\ strays' \in {strays, Abandoned({slot})}
  /\ call' = [call EXCEPT ![slot] = None]
  /\ answer' = [answer EXCEPT ![slot] = Told("error")]
  /\ UNCHANGED <<client, rows, crashes>>

CredentialRefused ==
  /\ failures < MaxFailures
  /\ call["loop"] # None /\ call["loop"].op = "register"
  /\ failures' = failures + 1
  /\ call' = [call EXCEPT !["loop"] = None]
  /\ answer' = [answer EXCEPT !["loop"] = Told("unauthorized")]
  /\ UNCHANGED <<client, strays, rows, crashes>>

(* A new process: it knows neither subscriber nor token. *)
Restart ==
  /\ crashes < MaxCrashes /\ loop # "new"
  /\ crashes' = crashes + 1
  /\ loop' = "new" /\ disc' = "no" /\ ready' = "pending"
  /\ state' = "connecting" /\ sub' = None
  /\ strays' = Abandoned(Slots)
  /\ call' = [s \in Slots |-> None] /\ answer' = [s \in Slots |-> None]
  /\ UNCHANGED <<rows, failures>>

Init ==
  /\ loop = "new" /\ disc = "no" /\ ready = "pending" /\ state = "connecting" /\ sub = None
  /\ call = [s \in Slots |-> None] /\ answer = [s \in Slots |-> None]
  /\ strays = {} /\ rows = [i \in {} |-> FALSE]
  /\ failures = 0 /\ crashes = 0

Loop == Registered \/ RegisterFailed \/ Retry \/ Heartbeat \/ HeartbeatAnswered
          \/ Reregister \/ Reregistered

Next ==
  \/ Begin \/ Loop \/ Disconnect \/ Disconnected
  \/ \E s \in Slots : HandleSlot(s) \/ CallFails(s)
  \/ HandleStray \/ Alarm \/ CredentialRefused \/ Restart
  \/ \E i \in Ids : Lapse(i)

Spec == Init /\ [][Next]_vars


(* A row the sidecar posts heartbeats for: time does not run out on it by  *)
(* itself.                                                                 *)
Beats(i) == i = sub /\ loop # "ended"

(* The event loop, the network once it has stopped failing, the alarm and  *)
(* the clock all make progress.                                            *)
Fairness ==
  /\ WF_vars(Begin \/ Loop)
  /\ WF_vars(Disconnected)
  /\ \A s \in Slots : WF_vars(HandleSlot(s))
  /\ WF_vars(Alarm)
  /\ \A i \in Ids : WF_vars(Lapse(i) /\ ~Beats(i))

FairSpec == Spec /\ Fairness

(***************************************************************************)
(* Properties.                                                             *)
(***************************************************************************)
TypeOK ==
  /\ loop \in {"new", "registering", "backoff", "waiting", "beating", "reregistering", "ended"}
  /\ disc \in {"no", "deleting", "done"}
  /\ ready \in {"pending", "resolved", "failed"}
  /\ state \in {"connecting", "connected", "unauthorized", "network_error", "disconnected"}
  /\ sub \in Ids \cup {None}
  /\ call \in [Slots -> Call \cup {None}]
  /\ answer \in [Slots -> Answer \cup {None}]
  /\ strays \subseteq Call
  /\ rows \in UNION {[S -> BOOLEAN] : S \in SUBSET Ids}
  /\ failures \in 0..MaxFailures /\ crashes \in 0..MaxCrashes

(* connectionState says "disconnected" from the moment of disconnect() on: *)
(* no answer that arrives later, to the first registration or to a second  *)
(* one, overwrites it.                                                     *)
DisconnectIsSaid == disc # "no" <=> state = "disconnected"

(* The row a running sidecar beats for is taken away only when its TTL is  *)
(* over: no purge, alarm or DELETE on behalf of an earlier process touches *)
(* it.                                                                     *)
LiveRowIsKept ==
  [][\A i \in Ids : Beats(i) /\ disc = "no" /\ Has(i) /\ ~rows[i] => i \in DOMAIN rows']_vars

(* A row nobody beats for, left by a lost response, a killed process, or a *)
(* registration in flight at the disconnect, is gone in the end.           *)
StaleRowsGo ==
  \A i \in Ids : (Has(i) /\ ~Beats(i)) ~> (~Has(i) \/ Beats(i))

(* A sidecar that starts is registered in the end, also when its           *)
(* environment's row is still held for a process that is gone.             *)
StartsInTheEnd == loop = "registering" ~> (ready = "resolved" \/ disc # "no" \/ loop = "new")

(* A running sidecar whose row is gone registers again.                    *)
GoneIsReplaced ==
  (disc = "no" /\ ready = "resolved" /\ ~Has(sub)) ~> (disc # "no" \/ loop = "new" \/ Has(sub))

=============================================================================
