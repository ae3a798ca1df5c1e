----------------------------- MODULE Deliveries -----------------------------
(***************************************************************************)
(* What a route object promises of the requests it forwards: a delivery of *)
(* one ingress request to one subscriber is begun at most once, is then    *)
(* settled once and for all, with an answer or a failure, or is lost with  *)
(* the object; and unless the object is lost it is settled.                *)
(***************************************************************************)

CONSTANTS
  Requests,     \* ingress requests
  Subs          \* subscribers of the route

VARIABLE
  outcome       \* [Requests \X Subs -> how the delivery stands]

Outcomes == {"none", "waiting", "answered", "failed", "lost"}

Init == outcome = [d \in Requests \X Subs |-> "none"]

\* One request goes out to several subscribers at once; some sends fail.
Begin(S, F) ==
  /\ S # {} /\ F \subseteq S
  /\ \A d \in S : outcome[d] = "none"
  /\ outcome' = [d \in Requests \X Subs |->
                   IF d \in F THEN "failed"
                   ELSE IF d \in S THEN "waiting" ELSE outcome[d]]

Answer(d) ==
  /\ outcome[d] = "waiting"
  /\ outcome' = [outcome EXCEPT ![d] = "answered"]

\* A failure, or the departure of a subscriber, fails several at once.
Fail(S) ==
  /\ S # {} /\ \A d \in S : outcome[d] = "waiting"
  /\ outcome' = [d \in Requests \X Subs |->
                   IF d \in S THEN "failed" ELSE outcome[d]]

Lose ==
  outcome' = [d \in Requests \X Subs |->
                IF outcome[d] = "waiting" THEN "lost" ELSE outcome[d]]

Next ==
  \/ \E S, F \in SUBSET (Requests \X Subs) : Begin(S, F)
  \/ \E d \in Requests \X Subs : Answer(d)
  \/ \E S \in SUBSET (Requests \X Subs) : Fail(S)
  \/ Lose

Spec == Init /\ [][Next]_outcome

\* No caller waits forever (while the object lives: Lose settles too).
Settled == \A d \in Requests \X Subs : outcome[d] = "waiting" ~> outcome[d] # "waiting"
=============================================================================
