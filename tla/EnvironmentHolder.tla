------------------------- MODULE EnvironmentHolder -------------------------
(***************************************************************************)
(* What a route promises whoever joins under an environment id             *)
(* (src/README.md:90-92): the id is held by one connection token at a      *)
(* time; while its holder is live, only a join that presents the holder's  *)
(* token takes it over; and a token that was replaced or has left never    *)
(* holds again.  A holder is live while it has a public target or a        *)
(* listed socket, so not between its row and its socket, nor parked.       *)
(***************************************************************************)
EXTENDS FiniteSets

CONSTANTS
  Conns,      \* connection attempts, and the token made for each
  Envs        \* environment ids

VARIABLES
  holder,     \* [environment -> the tokens that hold it]
  live,       \* environments whose holder is live
  shown,      \* [attempt -> the token it presented]
  unused      \* attempts that have not taken anything

hvars == <<holder, live, shown, unused>>

Free(e) == holder[e] = {}

\* Attempt c becomes the holder of e.
Take(e, c) ==
  /\ c \in unused
  /\ Free(e) \/ e \notin live \/ holder[e] = {shown[c]}
  /\ holder' = [holder EXCEPT ![e] = {c}]
  /\ live' \ {e} = live \ {e}
  /\ unused' = unused \ {c}

\* Time, sockets and removals: holders attach, park and leave.
Pass ==
  /\ \A e \in Envs : holder'[e] \in {holder[e], {}}
  /\ DOMAIN holder' = Envs
  /\ \A e \in live' : holder'[e] # {}
  /\ unused' \subseteq unused

HInit ==
  /\ holder = [e \in Envs |-> {}]
  /\ live = {}
  /\ unused = Conns

HNext == Pass \/ \E e \in Envs, c \in Conns : Take(e, c)

HSpec == HInit /\ [][HNext]_hvars
=============================================================================
