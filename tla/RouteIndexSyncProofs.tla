------------------------ MODULE RouteIndexSyncProofs ------------------------
(***************************************************************************)
(* Concurrent runs of syncIndex leave the index right, for any numbers of  *)
(* subscribers and of runs, unless a call failed or overtook another or a  *)
(* prune from outside came too late since the rows were last counted.      *)
(***************************************************************************)
EXTENDS RouteIndexSync, SequenceTheorems, TLAPS

\* calls holds each run that waits for the index once.
CallsAreOfRuns ==
  /\ \A p \in AllRuns : run[p].pc \in {"adding", "removing"}
                        => \E i \in 1..Len(calls) : calls[i] = p
  /\ \A i \in 1..Len(calls) : run[calls[i]].pc \in {"adding", "removing"}
  /\ \A i, j \in 1..Len(calls) : calls[i] = calls[j] => i = j

\* What the index will hold once the calls under way have arrived.
Destined == IF calls = <<>> THEN indexed
            ELSE run[calls[Len(calls)]].pc = "adding"

\* The index is, or is about to be, right, or a run has yet to count.
RightOrCounting ==
  rows # {} => Destined \/ \E p \in AllRuns : run[p].pc = "flushing"

Types ==
  /\ run \in [AllRuns -> [pc : Pcs, next : Nexts]]
  /\ indexed \in BOOLEAN

\* Holds whatever fails or overtakes.
Wired == Types /\ calls \in Seq(AllRuns) /\ CallsAreOfRuns

Orderly == ~upset

IInv == Wired /\ (Orderly => RightOrCounting)

LEMMA InitInv == Init => IInv
<1> SUFFICES ASSUME Init PROVE IInv
  OBVIOUS
<1>1. calls \in Seq(AllRuns) /\ Len(calls) = 0
  BY EmptySeq DEF Init
<1>2. run \in [AllRuns -> [pc : Pcs, next : Nexts]]
      /\ \A p \in AllRuns : run[p] = Idle
  BY DEF Init, Idle, Pcs, Nexts
<1>3. CallsAreOfRuns
  BY <1>1, <1>2 DEF CallsAreOfRuns, Idle
<1>4. RightOrCounting
  BY DEF Init, RightOrCounting
<1> QED
  BY <1>1, <1>2, <1>3, <1>4 DEF Init, IInv, Wired, Types

\* A run sends its count of the rows there are now: whatever upset the index
\* before is made good.
LEMMA CountInv ==
  ASSUME Wired, NEW p \in AllRuns, NEW next \in Nexts,
         run[p].pc \in {"idle", "flushing"}, Count(p, rows', next),
         UNCHANGED indexed
  PROVE  IInv'
<1> DEFINE me == [pc |-> CallFor(rows'), next |-> next]
<1>1. /\ run' = [run EXCEPT ![p] = me] /\ calls' = Append(calls, p)
      /\ calls \in Seq(AllRuns) /\ me.pc \in {"adding", "removing"}
      /\ me.next = next /\ me \in [pc : Pcs, next : Nexts]
      /\ rows' # {} => me.pc = "adding"
  BY DEF Count, Wired, CallFor, Pcs
<1> HIDE DEF me
<1>2. /\ calls' \in Seq(AllRuns) /\ Len(calls') = Len(calls) + 1
      /\ calls'[Len(calls) + 1] = p /\ Len(calls) \in Nat
      /\ \A i \in 1..Len(calls) : calls'[i] = calls[i] /\ calls[i] \in AllRuns
  BY <1>1, AppendProperties, ElementOfSeq, LenProperties
<1>3. \A i \in 1..Len(calls) : calls[i] # p
  BY DEF Wired, CallsAreOfRuns
<1>4. /\ run' \in [AllRuns -> [pc : Pcs, next : Nexts]]
      /\ run'[p] = me
      /\ \A q \in AllRuns \ {p} : run'[q] = run[q]
  BY <1>1 DEF Wired, Types
<1>5. Types'
  BY <1>4 DEF Wired, Types
<1>6. CallsAreOfRuns'
  <2>1. ASSUME NEW q \in AllRuns, run'[q].pc \in {"adding", "removing"}
        PROVE  \E i \in 1..Len(calls') : calls'[i] = q
    <3>1. CASE q = p
      BY <1>2, <3>1
    <3>2. CASE q # p
      <4>1. PICK i \in 1..Len(calls) : calls[i] = q
        BY <1>4, <2>1, <3>2 DEF Wired, CallsAreOfRuns
      <4>2. i \in 1..Len(calls') /\ calls'[i] = q
        BY <1>2, <4>1
      <4> QED
        BY <4>2
    <3> QED
      BY <3>1, <3>2
  <2>2. ASSUME NEW i \in 1..Len(calls')
        PROVE  run'[calls'[i]].pc \in {"adding", "removing"}
    <3>1. CASE i = Len(calls) + 1
      BY <1>1, <1>2, <1>4, <3>1
    <3>2. CASE i \in 1..Len(calls)
      <4>1. calls'[i] = calls[i] /\ calls[i] \in AllRuns /\ calls[i] # p
        BY <1>2, <1>3, <3>2
      <4>2. run'[calls'[i]] = run[calls[i]]
        BY <1>4, <4>1
      <4> QED
        BY <3>2, <4>2 DEF Wired, CallsAreOfRuns
    <3> QED
      BY <1>2, <2>2, <3>1, <3>2
  <2>3. ASSUME NEW i \in 1..Len(calls'), NEW j \in 1..Len(calls'),
               calls'[i] = calls'[j]
        PROVE  i = j
    BY <1>2, <1>3, <2>3 DEF Wired, CallsAreOfRuns
  <2> QED
    BY <2>1, <2>2, <2>3 DEF CallsAreOfRuns
<1>7. RightOrCounting'
  <2>1. rows' # {} => Destined'
    <3>1. calls' # <<>>
      BY <1>2, EmptySeq
    <3>2. calls'[Len(calls')] = p
      BY <1>2
    <3> QED
      BY <1>1, <1>4, <3>1, <3>2 DEF Destined
  <2> QED
    BY <2>1 DEF RightOrCounting
<1> QED
  BY <1>2, <1>4, <1>5, <1>6, <1>7 DEF IInv, Wired

\* A run moves on that waits for no answer of the index, to a state in which it
\* waits for none; and unless the step upsets the index, no subscriber appears
\* that the run will not count.
LEMMA QuietStepInv ==
  ASSUME IInv, NEW p \in AllRuns,
         NEW me \in [pc : Pcs \ {"adding", "removing"}, next : Nexts],
         run' = [run EXCEPT ![p] = me],
         run[p].pc \notin {"adding", "removing"},
         UNCHANGED calls, indexed' \in BOOLEAN,
         Orderly' => /\ Orderly
                     /\ run[p].pc = "flushing" => me.pc = "flushing"
                     /\ indexed => indexed' \/ rows' = {}
                     /\ rows' # {} => rows # {} \/ me.pc = "flushing"
  PROVE  IInv'
<1>1. /\ run' \in [AllRuns -> [pc : Pcs, next : Nexts]]
      /\ run'[p] = me
      /\ \A q \in AllRuns \ {p} : run'[q] = run[q]
  BY DEF IInv, Wired, Types, Pcs
<1>2. Types'
  BY <1>1 DEF Types
<1>3. \A i \in 1..Len(calls) : calls[i] # p /\ calls[i] \in AllRuns
  BY ElementOfSeq DEF IInv, Wired, CallsAreOfRuns
<1>4. CallsAreOfRuns'
  BY <1>1, <1>3 DEF IInv, Wired, CallsAreOfRuns
<1>5. ASSUME Orderly' PROVE RightOrCounting'
  <2> SUFFICES ASSUME rows' # {}
               PROVE  Destined' \/ \E q \in AllRuns : run'[q].pc = "flushing"
    BY DEF RightOrCounting
  <2>0. /\ Orderly
        /\ run[p].pc = "flushing" => me.pc = "flushing"
        /\ indexed => indexed'
        /\ rows # {} \/ me.pc = "flushing"
    BY <1>5
  <2>1. CASE me.pc = "flushing"
    BY <1>1, <2>1
  <2>2. CASE me.pc # "flushing"
    <3>1. Destined \/ \E q \in AllRuns : run[q].pc = "flushing"
      BY <2>0, <2>2 DEF IInv, RightOrCounting
    <3>2. Destined => Destined'
      <4>0. indexed => indexed'
        BY <2>0
      <4>1. CASE calls = <<>>
        BY <4>0, <4>1 DEF Destined
      <4>2. CASE calls # <<>>
        <5>1. Len(calls) \in 1..Len(calls)
          BY <4>2, LenProperties, EmptySeq DEF IInv, Wired
        <5> QED
          BY <1>1, <1>3, <4>2, <5>1 DEF Destined
      <4> QED
        BY <4>1, <4>2
    <3> QED
      BY <1>1, <2>0, <2>2, <3>1, <3>2
  <2> QED
    BY <2>1, <2>2
<1> QED
  BY <1>1, <1>2, <1>4, <1>5 DEF IInv, Wired

LEMMA SyncInv ==
  ASSUME IInv, NEW p \in AllRuns, NEW queued \in BOOLEAN,
         NEW next \in Nexts, run[p].pc = "idle",
         SyncIndex(p, queued, next), UNCHANGED indexed
  PROVE  IInv'
<1>1. CASE queued
  <2>1. /\ run' = [run EXCEPT ![p] = [pc |-> "flushing", next |-> next]]
        /\ UNCHANGED <<calls, upset>>
    BY <1>1 DEF SyncIndex
  <2> QED
    <3> DEFINE me == [pc |-> "flushing", next |-> next]
    <3>1. me \in [pc : Pcs \ {"adding", "removing"}, next : Nexts]
      BY DEF Pcs
    <3>2. me.pc = "flushing" /\ run' = [run EXCEPT ![p] = me]
      BY <2>1
    <3>3. indexed' \in BOOLEAN
      BY DEF IInv, Wired, Types
    <3>4. Orderly' => Orderly
      BY <2>1 DEF Orderly
    <3> HIDE DEF me
    <3> QED
      BY <2>1, <3>1, <3>2, <3>3, <3>4, QuietStepInv
<1>2. CASE ~queued
  <2>1. Count(p, rows', next)
    BY <1>2 DEF SyncIndex
  <2> QED
    BY <2>1, CountInv DEF IInv
<1> QED
  BY <1>1, <1>2

LEMMA RemovedProperties ==
  ASSUME NEW S, NEW s \in Seq(S), NEW i \in 1..Len(s)
  PROVE  /\ RemoveAt(s, i) \in Seq(S)
         /\ Len(RemoveAt(s, i)) = Len(s) - 1
         /\ \A j \in 1..(Len(s) - 1) :
              RemoveAt(s, i)[j] = IF j < i THEN s[j] ELSE s[j + 1]
<1> DEFINE n == Len(s)  before == SubSeq(s, 1, i - 1)  after == SubSeq(s, i + 1, Len(s))
<1>1. n \in Nat /\ i \in Nat /\ 1 <= i /\ i <= n
  BY LenProperties
<1>2. \A j \in 1..n : s[j] \in S
  BY ElementOfSeq
<1>3. /\ before \in Seq(S)
      /\ Len(before) = IF 1 <= i - 1 THEN (i - 1) - 1 + 1 ELSE 0
      /\ \A j \in 1..((i - 1) - 1 + 1) : before[j] = s[1 + j - 1]
  <2>1. \A j \in 1..(i - 1) : s[j] \in S
    BY <1>1, <1>2
  <2> QED
    BY <1>1, <2>1, SubSeqProperties
<1>4. /\ after \in Seq(S)
      /\ Len(after) = IF i + 1 <= n THEN n - (i + 1) + 1 ELSE 0
      /\ \A j \in 1..(n - (i + 1) + 1) : after[j] = s[(i + 1) + j - 1]
  <2>1. \A j \in (i + 1)..n : s[j] \in S
    BY <1>1, <1>2
  <2> QED
    BY <1>1, <2>1, SubSeqProperties
<1>5. /\ RemoveAt(s, i) = before \o after
      /\ before \o after \in Seq(S)
      /\ Len(before \o after) = Len(before) + Len(after)
      /\ \A j \in 1..(Len(before) + Len(after)) :
           (before \o after)[j] = IF j <= Len(before) THEN before[j]
                                  ELSE after[j - Len(before)]
  BY <1>3, <1>4, ConcatProperties DEF RemoveAt
<1> HIDE DEF n, before, after
<1>6. Len(before) = i - 1 /\ Len(after) = n - i
  BY <1>1, <1>3, <1>4
<1>7. ASSUME NEW j \in 1..(n - 1)
      PROVE  (before \o after)[j] = IF j < i THEN s[j] ELSE s[j + 1]
  <2>1. j \in 1..(Len(before) + Len(after)) /\ j \in Nat
    BY <1>1, <1>6
  <2>2. CASE j < i
    BY <1>1, <1>3, <1>5, <1>6, <2>1, <2>2
  <2>3. CASE ~(j < i)
    <3>1. j - (i - 1) \in 1..(n - (i + 1) + 1) /\ (i + 1) + (j - (i - 1)) - 1 = j + 1
      BY <1>1, <2>3
    <3>2. after[j - (i - 1)] = s[j + 1]
      BY <1>4, <3>1
    <3>3. (before \o after)[j] = after[j - (i - 1)]
      BY <1>1, <1>5, <1>6, <2>1, <2>3
    <3> QED
      BY <2>3, <3>2, <3>3
  <2> QED
    BY <2>2, <2>3
<1>8. Len(before \o after) = n - 1
  BY <1>1, <1>5, <1>6
<1> QED
  BY <1>5, <1>7, <1>8 DEF n

\* A call of the run p ends, wherever it stood among the calls under way.
LEMMA EndedCallIsWired ==
  ASSUME Wired, NEW p \in AllRuns, NEW i \in 1..Len(calls),
         calls[i] = p, calls' = RemoveAt(calls, i),
         NEW me \in [pc : Pcs \ {"adding", "removing"}, next : Nexts],
         run' = [run EXCEPT ![p] = me], indexed' \in BOOLEAN
  PROVE  Wired'
<1>1. /\ calls \in Seq(AllRuns) /\ Len(calls) \in Nat
      /\ \A j \in 1..Len(calls) : calls[j] \in AllRuns
  BY LenProperties, ElementOfSeq DEF Wired
<1>2. /\ calls' \in Seq(AllRuns) /\ Len(calls') = Len(calls) - 1
      /\ \A j \in 1..(Len(calls) - 1) :
           calls'[j] = IF j < i THEN calls[j] ELSE calls[j + 1]
  BY <1>1, RemovedProperties
<1>3. /\ run' \in [AllRuns -> [pc : Pcs, next : Nexts]]
      /\ run'[p] = me
      /\ \A q \in AllRuns \ {p} : run'[q] = run[q]
  BY DEF Wired, Types, Pcs
\* An entry of calls' stood in calls, one place later from i on.
<1>4. ASSUME NEW j \in 1..Len(calls')
      PROVE  \E k \in 1..Len(calls) : /\ k # i /\ calls'[j] = calls[k]
                                       /\ k = IF j < i THEN j ELSE j + 1
  BY <1>1, <1>2
<1>5. \A k \in 1..Len(calls) : k # i => calls[k] # p
  BY DEF Wired, CallsAreOfRuns
<1>6. CallsAreOfRuns'
  <2>1. ASSUME NEW q \in AllRuns, run'[q].pc \in {"adding", "removing"}
        PROVE  \E j \in 1..Len(calls') : calls'[j] = q
    <3>1. q # p /\ run'[q] = run[q]
      BY <1>3, <2>1
    <3>2. PICK k \in 1..Len(calls) : calls[k] = q
      BY <2>1, <3>1 DEF Wired, CallsAreOfRuns
    <3>3. CASE k < i
      <4>1. k \in 1..Len(calls') /\ calls'[k] = q
        BY <1>1, <1>2, <3>2, <3>3
      <4> QED
        BY <4>1
    <3>4. CASE k > i
      <4>1. k - 1 \in 1..Len(calls') /\ calls'[k - 1] = q
        BY <1>1, <1>2, <3>2, <3>4
      <4> QED
        BY <4>1
    <3>5. k # i
      BY <3>1, <3>2
    <3> QED
      BY <1>1, <3>3, <3>4, <3>5
  <2>2. ASSUME NEW j \in 1..Len(calls')
        PROVE  run'[calls'[j]].pc \in {"adding", "removing"}
    <3>1. PICK k \in 1..Len(calls) : k # i /\ calls'[j] = calls[k]
      BY <1>4
    <3>2. run'[calls[k]] = run[calls[k]]
      BY <1>1, <1>3, <1>5, <3>1
    <3> QED
      BY <3>1, <3>2 DEF Wired, CallsAreOfRuns
  <2>3. ASSUME NEW j \in 1..Len(calls'), NEW k \in 1..Len(calls'),
               calls'[j] = calls'[k]
        PROVE  j = k
    <3>1. PICK j1 \in 1..Len(calls) : /\ calls'[j] = calls[j1]
                                      /\ j1 # i /\ j1 = IF j < i THEN j ELSE j + 1
      BY <1>4
    <3>2. PICK k1 \in 1..Len(calls) : /\ calls'[k] = calls[k1]
                                      /\ k1 # i /\ k1 = IF k < i THEN k ELSE k + 1
      BY <1>4
    <3>3. j1 = k1
      <4>1. \A a, b \in 1..Len(calls) : calls[a] = calls[b] => a = b
        BY DEF Wired, CallsAreOfRuns
      <4>2. calls[j1] = calls[k1]
        BY <2>3, <3>1, <3>2
      <4> QED
        BY <4>1, <4>2
    <3>4. j \in Nat /\ k \in Nat
      BY <1>1, <1>2
    <3> QED
      BY <1>1, <3>1, <3>2, <3>3, <3>4
  <2> QED
    BY <2>1, <2>2, <2>3 DEF CallsAreOfRuns
<1> QED
  BY <1>2, <1>3, <1>6 DEF Wired, Types

\* The oldest call arrives: what the index will hold in the end stays.
LEMMA OldestCallIsDestined ==
  ASSUME Wired, NEW p \in AllRuns, run[p].pc \in {"adding", "removing"},
         1 \in 1..Len(calls), calls[1] = p, calls' = RemoveAt(calls, 1),
         \A q \in AllRuns \ {p} : run'[q] = run[q],
         indexed' = (run[p].pc = "adding")
  PROVE  Destined' = Destined
<1>1. /\ calls \in Seq(AllRuns) /\ Len(calls) \in Nat
      /\ \A j \in 1..Len(calls) : calls[j] \in AllRuns
  BY LenProperties, ElementOfSeq DEF Wired
<1>n. PICK n \in Nat : n = Len(calls) /\ n # 0
  BY <1>1
<1>2. /\ calls' \in Seq(AllRuns) /\ Len(calls') = n - 1
      /\ \A j \in 1..(n - 1) : calls'[j] = calls[j + 1]
  <2>1. \A j \in 1..(n - 1) : ~(j < 1)
    BY <1>n
  <2> QED
    BY <1>1, <1>n, <2>1, RemovedProperties
<1>m. /\ Len(<<>>) = 0
      /\ \A seq \in Seq(AllRuns) : seq # <<>> => Len(seq) # 0
  BY EmptySeq
<1>3. calls # <<>>
  BY <1>n, <1>m
<1>4. CASE n = 1
  <2>1. Len(calls') = 0
    BY <1>2, <1>4
  <2>2. calls' = <<>>
    BY <1>2, <1>m, <2>1
  <2> QED
    BY <1>n, <1>3, <1>4, <2>2 DEF Destined
<1>5. CASE n > 1
  <2>1. Len(calls') # 0
    BY <1>2, <1>5
  <2>2. calls' # <<>>
    BY <1>m, <2>1
  <2>3. calls'[Len(calls')] = calls[n] /\ n \in 1..Len(calls)
    BY <1>n, <1>2, <1>5
  <2>4. calls[n] \in AllRuns \ {p}
    BY <1>1, <1>n, <1>5, <2>3 DEF Wired, CallsAreOfRuns
  <2> QED
    BY <1>n, <1>3, <2>2, <2>3, <2>4 DEF Destined
<1> QED
  BY <1>n, <1>4, <1>5

LEMMA AnswerInv ==
  ASSUME IInv, NEW p \in AllRuns, IndexAnswers(p)
  PROVE  IInv'
<1> DEFINE me == [pc |-> IF run[p].next = "nothing" THEN "idle" ELSE run[p].next,
                  next |-> "nothing"]
<1>1. me \in [pc : Pcs \ {"adding", "removing"}, next : Nexts] /\ me.pc # "flushing"
  BY DEF IInv, Wired, Types, Nexts, Pcs
<1>2. /\ run[p].pc \in {"adding", "removing"} /\ run' = [run EXCEPT ![p] = me]
      /\ indexed' = (run[p].pc = "adding") /\ indexed' \in BOOLEAN
      /\ UNCHANGED rows
  BY DEF IndexAnswers
<1>3. PICK i \in 1..Len(calls) : /\ calls[i] = p
                                 /\ calls' = RemoveAt(calls, i)
                                 /\ upset' = (upset \/ i # 1)
  BY DEF IndexAnswers
<1> HIDE DEF me
<1>4. Wired'
  BY <1>1, <1>2, <1>3, EndedCallIsWired DEF IInv
<1>5. /\ run'[p] = me
      /\ \A q \in AllRuns \ {p} : run'[q] = run[q]
  BY <1>1, <1>2 DEF IInv, Wired, Types, Pcs
<1>6. ASSUME Orderly' PROVE RightOrCounting'
  <2>1. i = 1 /\ Orderly
    BY <1>3, <1>6 DEF Orderly
  <2>2. Destined' = Destined
    BY <1>2, <1>3, <1>5, <2>1, OldestCallIsDestined DEF IInv
  <2>3. ASSUME NEW q \in AllRuns, run[q].pc = "flushing" PROVE run'[q].pc = "flushing"
    BY <1>2, <1>5, <2>3
  <2> QED
    BY <1>2, <2>1, <2>2, <2>3 DEF IInv, RightOrCounting
<1> QED
  BY <1>4, <1>6 DEF IInv

\* A call that fails upsets the index; the calls under way stay wired.
LEMMA FailureInv ==
  ASSUME IInv, NEW p \in AllRuns, CallFails(p)
  PROVE  IInv'
<1>1. /\ run' = [run EXCEPT ![p] = Idle] /\ upset' = TRUE
      /\ Idle \in [pc : Pcs \ {"adding", "removing"}, next : Nexts]
  BY DEF CallFails, Idle, Pcs, Nexts
<1>2. indexed' \in BOOLEAN
  <2>1. Effect(p) \in BOOLEAN
    BY DEF Effect, IInv, Wired, Types
  <2> QED
    BY <2>1 DEF CallFails, IInv, Wired, Types
<1>3. CASE run[p].pc \in {"adding", "removing"}
  <2>1. PICK i \in 1..Len(calls) : calls[i] = p /\ calls' = RemoveAt(calls, i)
    BY <1>3 DEF CallFails
  <2>2. Wired'
    BY <1>1, <1>2, <2>1, EndedCallIsWired DEF IInv
  <2> QED
    BY <1>1, <2>2 DEF IInv, Orderly
<1>4. CASE run[p].pc \notin {"adding", "removing"}
  <2>1. UNCHANGED calls
    BY <1>4 DEF CallFails
  <2>2. ~Orderly'
    BY <1>1 DEF Orderly
  <2> QED
    BY <1>1, <1>2, <1>4, <2>1, <2>2, QuietStepInv
<1> QED
  BY <1>3, <1>4

-----------------------------------------------------------------------------
(* Every step *)

\* Rows only go; nothing else that the invariant is about changes.
LEMMA PurgeInv ==
  ASSUME IInv, rows' \subseteq rows, UNCHANGED <<run, calls, indexed, upset>>
  PROVE  IInv'
BY DEF IInv, Wired, Types, Orderly, CallsAreOfRuns, RightOrCounting, Destined

LEMMA NextInv == IInv /\ [Next]_vars => IInv'
<1> SUFFICES ASSUME IInv, [Next]_vars PROVE IInv'
  OBVIOUS
<1>1. CASE UNCHANGED vars
  BY <1>1, PurgeInv DEF vars
<1>2. ASSUME NEW p \in AllRuns, Flushed(p) PROVE IInv'
  <2>1. run[p].next \in Nexts /\ run[p].pc = "flushing"
    BY <1>2 DEF Flushed, IInv, Wired, Types
  <2>2. Count(p, rows', run[p].next) /\ UNCHANGED indexed
    BY <1>2 DEF Flushed, Count
  <2> QED
    BY <2>1, <2>2, CountInv DEF IInv
<1>3. ASSUME NEW p \in Runs, NEW gone \in SUBSET rows,
             \/ \E s \in Tunnels : JoinTunnel(p, s, gone)
             \/ \E s \in Publics : Register(p, s, gone)
             \/ \E s \in Subs : Deregister(p, s, gone)
      PROVE  IInv'
  <2>1. PICK queued \in BOOLEAN, next \in Nexts :
          /\ run[p].pc = "idle" /\ SyncIndex(p, queued, next)
          /\ UNCHANGED indexed
    BY <1>3 DEF JoinTunnel, Register, Deregister, Nexts
  <2> QED
    BY <2>1, SyncInv DEF AllRuns
<1>4. ASSUME NEW p \in Runs, NEW s \in Tunnels, DetachAnonymous(p, s) \/ Park(p, s)
      PROVE  IInv'
  <2>1. PICK queued \in BOOLEAN :
          /\ run[p].pc = "idle" /\ SyncIndex(p, queued, "nothing")
          /\ UNCHANGED indexed
    BY <1>4 DEF DetachAnonymous, Park
  <2> QED
    BY <2>1, SyncInv DEF AllRuns, Nexts
<1>5. ASSUME NEW p \in Runs,
             ReAdd(p) \/ Prune(p) \/ LoadDashboard(p) \/ \E gone \in SUBSET rows : Check(p, gone)
      PROVE  IInv'
  <2>1. PICK me \in [pc : {"idle", "checking", "pruning"}, next : Nexts] :
          run' = [run EXCEPT ![p] = me]
    BY <1>5 DEF ReAdd, Prune, LoadDashboard, Check, Idle, Nexts
  <2>2. run[p].pc \notin {"adding", "removing", "flushing"} /\ UNCHANGED calls
    BY <1>5 DEF ReAdd, Prune, LoadDashboard, Check
  <2>3. indexed' \in BOOLEAN
    BY <1>5 DEF ReAdd, Prune, LoadDashboard, Check, IInv, Wired, Types
  <2>4. Orderly' => Orderly /\ (indexed => indexed' \/ rows' = {})
    BY <1>5 DEF ReAdd, Prune, LoadDashboard, Check, Orderly
  <2>5. rows' # {} => rows # {}
    BY <1>5 DEF ReAdd, Prune, LoadDashboard, Check
  <2>6. me \in [pc : Pcs \ {"adding", "removing"}, next : Nexts]
    BY DEF Pcs
  <2> QED
    BY <2>1, <2>2, <2>3, <2>4, <2>5, <2>6, QuietStepInv DEF AllRuns
<1>6. ASSUME NEW gone \in SUBSET rows, Alarm(gone) PROVE IInv'
  <2>1. PICK queued \in BOOLEAN :
          /\ run[AlarmRun].pc = "idle" /\ SyncIndex(AlarmRun, queued, "nothing")
          /\ UNCHANGED indexed
    BY <1>6 DEF Alarm
  <2> QED
    BY <2>1, SyncInv DEF AllRuns, Nexts
<1>7. ASSUME NEW gone \in SUBSET rows, Heartbeat(gone) \/ Purge(gone) PROVE IInv'
  BY <1>7, PurgeInv DEF Heartbeat, Purge
<1>8. CASE AlarmAges
  BY <1>8, PurgeInv DEF AlarmAges
<1> QED
  BY <1>1, <1>2, <1>3, <1>4, <1>5, <1>6, <1>7, <1>8, AnswerInv, FailureInv DEF Next

-----------------------------------------------------------------------------

\* Whenever all runs have ended, a route that has subscribers is indexed, however
\* many joins, departures and alarms interleaved, unless since the rows were last
\* counted a call failed or overtook another or a prune came too late.
THEOREM QuietRoutesAreIndexed == Spec => []QuietRouteIsIndexed
<1>1. IInv => QuietRouteIsIndexed
  <2> SUFFICES ASSUME IInv, \A p \in AllRuns : run[p].pc = "idle",
                      Orderly, rows # {}
               PROVE  indexed
    BY DEF QuietRouteIsIndexed, Orderly
  <2>1. calls = <<>>
    <3> SUFFICES ASSUME calls # <<>> PROVE FALSE
      OBVIOUS
    <3>1. Len(calls) \in 1..Len(calls)
      BY EmptySeq, LenProperties DEF IInv, Wired
    <3>2. calls[Len(calls)] \in AllRuns
      BY <3>1, ElementOfSeq DEF IInv, Wired
    <3> QED
      BY <3>1, <3>2 DEF IInv, Wired, CallsAreOfRuns
  <2> QED
    BY <2>1 DEF IInv, RightOrCounting, Destined
<1> QED
  BY <1>1, InitInv, NextInv, PTL DEF Spec

-----------------------------------------------------------------------------
(* Types *)

\* scheduleCleanup's outcome.
LEMMA ScheduledType == \A R : Scheduled(R) \in {"off", "set", "old"}
BY DEF Scheduled

LEMMA RestIsTyped ==
  ASSUME TypeOK, Next
  PROVE  /\ rows' \subseteq Subs /\ alarm' \in {"off", "set", "old"}
         /\ upset' \in BOOLEAN /\ failures' \in 0..MaxFailures
<1> USE DEF TypeOK, Subs
<1>1. ASSUME NEW p \in AllRuns, Flushed(p) \/ IndexAnswers(p)
      PROVE  UNCHANGED <<rows, alarm, failures>> /\ upset' \in BOOLEAN
  BY <1>1 DEF Flushed, IndexAnswers, Count
<1>2. ASSUME NEW p \in AllRuns, CallFails(p)
      PROVE  UNCHANGED <<rows, alarm>> /\ upset' \in BOOLEAN /\ failures' \in 0..MaxFailures
  BY <1>2, FailuresAssumption DEF CallFails
<1>3. ASSUME NEW p, NEW queued, NEW next, SyncIndex(p, queued, next)
      PROVE  upset' \in BOOLEAN
  BY <1>3 DEF SyncIndex, Count
<1>4. ASSUME NEW p \in Runs, NEW gone \in SUBSET rows,
             \/ \E s \in Tunnels : JoinTunnel(p, s, gone)
             \/ \E s \in Publics : Register(p, s, gone)
             \/ \E s \in Subs : Deregister(p, s, gone)
             \/ \E s \in Tunnels : DetachAnonymous(p, s) \/ Park(p, s)
      PROVE  /\ rows' \subseteq Subs /\ alarm' \in {"off", "set", "old"}
             /\ upset' \in BOOLEAN /\ UNCHANGED failures
  <2>1. \E queued, next : SyncIndex(p, queued, next)
    BY <1>4 DEF JoinTunnel, Register, Deregister, DetachAnonymous, Park
  <2>2. upset' \in BOOLEAN
    BY <1>3, <2>1
  <2> QED
    BY <1>4, <2>2, ScheduledType DEF JoinTunnel, Register, Deregister, DetachAnonymous, Park
<1>5. ASSUME NEW p \in Runs, NEW gone \in SUBSET rows, Check(p, gone)
      PROVE  rows' \subseteq Subs /\ UNCHANGED <<alarm, upset, failures>>
  BY <1>5 DEF Check
<1>6. ASSUME NEW p \in Runs, ReAdd(p) \/ Prune(p) \/ LoadDashboard(p)
      PROVE  UNCHANGED <<rows, alarm, failures>> /\ upset' \in BOOLEAN
  BY <1>6 DEF ReAdd, Prune, LoadDashboard
<1>7. ASSUME NEW gone \in SUBSET rows, Alarm(gone)
      PROVE  /\ rows' \subseteq Subs /\ alarm' \in {"off", "set", "old"}
             /\ upset' \in BOOLEAN /\ UNCHANGED failures
  BY <1>3, <1>7, ScheduledType DEF Alarm
<1>8. ASSUME NEW gone \in SUBSET rows, Heartbeat(gone) \/ Purge(gone)
      PROVE  /\ rows' \subseteq Subs /\ alarm' \in {"off", "set", "old"}
             /\ UNCHANGED <<upset, failures>>
  BY <1>8, ScheduledType DEF Heartbeat, Purge
<1>9. CASE AlarmAges
  BY <1>9 DEF AlarmAges
<1> QED
  BY <1>1, <1>2, <1>4, <1>5, <1>6, <1>7, <1>8, <1>9 DEF Next

\* Every variable keeps its type, whatever fails or overtakes.
THEOREM TypeCorrect == Spec => []TypeOK
<1>1. Init => TypeOK
  <2> SUFFICES ASSUME Init PROVE TypeOK
    OBVIOUS
  <2>1. Types /\ calls \in Seq(AllRuns)
    BY InitInv DEF IInv, Wired
  <2>2. failures \in 0..MaxFailures
    BY FailuresAssumption DEF Init
  <2>3. rows \subseteq Subs /\ alarm \in {"off", "set", "old"} /\ upset \in BOOLEAN
    BY DEF Init
  <2> QED
    BY <2>1, <2>2, <2>3 DEF TypeOK, Types
<1>2. IInv' /\ TypeOK /\ [Next]_vars => TypeOK'
  <2> SUFFICES ASSUME IInv', TypeOK, [Next]_vars PROVE TypeOK'
    OBVIOUS
  <2>1. CASE UNCHANGED vars
    BY <2>1 DEF vars, TypeOK
  <2>2. CASE Next
    BY <2>2, RestIsTyped DEF IInv, Wired, Types, TypeOK
  <2> QED
    BY <2>1, <2>2
<1> QED
  BY <1>1, <1>2, InitInv, NextInv, PTL DEF Spec
=============================================================================
