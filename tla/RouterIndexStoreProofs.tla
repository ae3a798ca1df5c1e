----------------------- MODULE RouterIndexStoreProofs -----------------------
(***************************************************************************)
(* The tables of the router index.                                         *)
(*                                                                         *)
(* The log: it shows what an unbounded log would show, for every cap and   *)
(* retention, and no event is lost in the queue or written twice.          *)
(*                                                                         *)
(* The settings: no sequence of edits passes the rule limit; the prefixes  *)
(* that the code compares select what the policy says of segments; and     *)
(* every edit does what the policy lets its request do.  The argument is   *)
(* that a path is determined by its segments once the slashes at its end   *)
(* are gone (CutDetermines), that normalization keeps them (NormalizeKeeps *)
(* and KeptSegs), and that the tables hold normalized paths only           *)
(* (StoredInv).                                                            *)
(***************************************************************************)
EXTENDS EventLog, OperatorSettings, FiniteSetTheorems, SequenceTheorems,
        WellFoundedInduction, TLAPS

-----------------------------------------------------------------------------
(* Rows by age *)

LEMMA NewerIsTransitive ==
  ASSUME NEW p \in Rows, NEW q \in Rows, NEW r \in Rows, Newer(p, q), Newer(q, r)
  PROVE  Newer(p, r)
<1>1. /\ p.id \in Nat /\ q.id \in Nat /\ r.id \in Nat
      /\ p.at \in Nat /\ q.at \in Nat /\ r.at \in Nat
  BY EventsAssumption DEF Rows
<1> QED
  BY <1>1 DEF Newer

LEMMA NewerIsTotal ==
  ASSUME NEW p \in Rows, NEW q \in Rows
  PROVE  /\ ~Newer(p, p)
         /\ Newer(p, q) => ~Newer(q, p)
         /\ p = q \/ Newer(p, q) \/ Newer(q, p)
<1>1. p.id \in Nat /\ q.id \in Nat /\ p.at \in Nat /\ q.at \in Nat
  BY EventsAssumption DEF Rows
<1>2. p.id = q.id /\ p.at = q.at => p = q
  BY DEF Rows
<1> QED
  BY <1>1, <1>2 DEF Newer

LEMMA MinimalSubset ==
  ASSUME NEW S, IsFiniteSet(S), NEW F, F \subseteq SUBSET S, F # {}
  PROVE  \E A \in F : \A B \in F : B \subseteq A => B = A
<1>1. IsWellFoundedOn(StrictSubsetOrdering(S), SUBSET S)
  BY FS_StrictSubsetOrderingWellFounded, FS_FiniteSubsetsOfFinite
<1>2. PICK A \in F : \A B \in F : ~(<<B, A>> \in StrictSubsetOrdering(S))
  BY <1>1, WFMin
<1> QED
  BY <1>2 DEF StrictSubsetOrdering

LEMMA NewestExists ==
  ASSUME NEW T, T \subseteq Rows, IsFiniteSet(T), T # {}
  PROVE  \E x \in T : \A y \in T : y = x \/ Newer(x, y)
<1>1. PICK A \in {NewerIn(T, x) : x \in T} :
        \A B \in {NewerIn(T, x) : x \in T} : B \subseteq A => B = A
  <2> DEFINE F == {NewerIn(T, x) : x \in T}
  <2>1. F \subseteq SUBSET T /\ F # {}
    BY DEF NewerIn
  <2> HIDE DEF F
  <2>2. \E A \in F : \A B \in F : B \subseteq A => B = A
    BY <2>1, MinimalSubset
  <2> QED
    BY <2>2 DEF F
<1>2. PICK x \in T : A = NewerIn(T, x)
  OBVIOUS
<1>3. ASSUME NEW y \in T, Newer(y, x) PROVE FALSE
  <2>1. NewerIn(T, y) \subseteq NewerIn(T, x) /\ y \notin NewerIn(T, y) /\ y \in NewerIn(T, x)
    BY <1>3, NewerIsTransitive, NewerIsTotal DEF NewerIn
  <2> QED
    BY <2>1, <1>1, <1>2
<1> QED
  BY <1>3, NewerIsTotal

LEMMA OldestExists ==
  ASSUME NEW T, T \subseteq Rows, IsFiniteSet(T), T # {}
  PROVE  \E x \in T : \A y \in T : y = x \/ Newer(y, x)
<1> DEFINE Older(x) == {y \in T : Newer(x, y)}
<1>1. PICK A \in {Older(x) : x \in T} : \A B \in {Older(x) : x \in T} : B \subseteq A => B = A
  <2> DEFINE F == {Older(x) : x \in T}
  <2>1. F \subseteq SUBSET T /\ F # {}
    OBVIOUS
  <2> HIDE DEF F
  <2>2. \E A \in F : \A B \in F : B \subseteq A => B = A
    BY <2>1, MinimalSubset
  <2> QED
    BY <2>2 DEF F
<1>2. PICK x \in T : A = Older(x)
  OBVIOUS
<1>3. ASSUME NEW y \in T, Newer(x, y) PROVE FALSE
  <2>1. Older(y) \subseteq Older(x) /\ y \notin Older(y) /\ y \in Older(x)
    BY <1>3, NewerIsTransitive, NewerIsTotal
  <2> QED
    BY <2>1, <1>1, <1>2
<1> QED
  BY <1>3, NewerIsTotal

-----------------------------------------------------------------------------
(* Cutting a table to its newest rows *)

\* The newest n rows of T are enough to outnumber what n rows of T are newer than.
LEMMA NewestOutnumber ==
  ASSUME NEW T, T \subseteq Rows, IsFiniteSet(T), NEW n \in Nat, NEW q \in Rows,
         Cardinality(NewerIn(T, q)) >= n
  PROVE  Cardinality(NewerIn(Newest(T, n), q)) >= n
<1> DEFINE Top == Newest(T, n)
<1>1. IsFiniteSet(NewerIn(Top, q))
  BY FS_Subset DEF NewerIn, Newest
<1>2. CASE NewerIn(T, q) \subseteq Top
  <2>1. NewerIn(Top, q) = NewerIn(T, q)
    BY <1>2 DEF NewerIn, Newest
  <2> QED
    BY <2>1
<1>3. CASE ~(NewerIn(T, q) \subseteq Top)
  <2>1. PICK x \in T \ Top : Newer(x, q)
    BY <1>3 DEF NewerIn
  <2>2. PICK first \in T \ Top : \A y \in T \ Top : y = first \/ Newer(first, y)
    <3>1. T \ Top \subseteq Rows /\ IsFiniteSet(T \ Top) /\ T \ Top # {}
      BY <2>1, FS_Subset
    <3> HIDE DEF Top
    <3> QED
      BY <3>1, NewestExists
  <2>3. Newer(first, q)
    BY <2>1, <2>2, NewerIsTransitive
  <2>4. NewerIn(T, first) \subseteq NewerIn(Top, q)
    BY <2>2, <2>3, NewerIsTransitive, NewerIsTotal DEF NewerIn
  <2>5. Cardinality(NewerIn(T, first)) <= Cardinality(NewerIn(Top, q))
    BY <2>4, <1>1, FS_Subset
  <2>6. IsFiniteSet(NewerIn(T, first)) /\ ~(Cardinality(NewerIn(T, first)) < n)
    BY <2>2, FS_Subset DEF Newest, NewerIn
  <2> QED
    BY <2>5, <2>6, <1>1, FS_CardinalityType
<1> QED
  BY <1>2, <1>3

LEMMA NewestAreFew ==
  ASSUME NEW T, T \subseteq Rows, IsFiniteSet(T), NEW n \in Nat
  PROVE  IsFiniteSet(Newest(T, n)) /\ Cardinality(Newest(T, n)) <= n
<1> DEFINE Top == Newest(T, n)
<1>1. IsFiniteSet(Top) /\ Top \subseteq Rows
  BY FS_Subset DEF Newest
<1>2. CASE Top = {}
  BY <1>2, FS_EmptySet
<1>3. CASE Top # {}
  <2>1. PICK oldest \in Top : \A y \in Top : y = oldest \/ Newer(y, oldest)
    <3> HIDE DEF Top
    <3> QED
      BY <1>1, <1>3, OldestExists
  <2>2. Top \subseteq NewerIn(T, oldest) \cup {oldest}
    BY <2>1 DEF Newest, NewerIn
  <2>3. IsFiniteSet(NewerIn(T, oldest)) /\ oldest \notin NewerIn(T, oldest)
    BY <2>1, <1>1, NewerIsTotal, FS_Subset DEF NewerIn
  <2>4. Cardinality(NewerIn(T, oldest)) \in Nat /\ Cardinality(NewerIn(T, oldest)) < n
    BY <2>1, <2>3, FS_CardinalityType DEF Newest
  <2>5. Cardinality(Top) <= Cardinality(NewerIn(T, oldest)) + 1
    <3> DEFINE All == NewerIn(T, oldest) \cup {oldest}
    <3>1. IsFiniteSet(All) /\ Cardinality(All) = Cardinality(NewerIn(T, oldest)) + 1
      BY <2>3, FS_AddElement
    <3> HIDE DEF All, Top
    <3>2. Cardinality(Top) <= Cardinality(All)
      BY <3>1, <2>2, FS_Subset DEF All
    <3> QED
      BY <3>1, <3>2
  <2>6. Cardinality(Top) \in Nat
    BY <1>1, FS_CardinalityType
  <2> QED
    BY <2>4, <2>5, <2>6, <1>1
<1> QED
  BY <1>2, <1>3

-----------------------------------------------------------------------------
(* The log is a window on all there ever was *)

\* A row that arrived and is not in the table is too old, or the table alone
\* holds Cap newer ones.
Outnumbered ==
  \A q \in arrived \ table :
    ~Fresh(q, clock) \/ Cardinality(NewerIn(table, q)) >= Cap

WindowInv ==
  /\ LogTypeOK
  /\ IsFiniteSet(arrived) /\ table \subseteq arrived
  /\ Cardinality(table) <= Cap
  /\ Outnumbered

LEMMA InitWindow == LogInit => WindowInv
BY CapAssumption, TimeAssumption, FS_EmptySet
   DEF LogInit, WindowInv, LogTypeOK, Outnumbered

LEMMA StampedRows ==
  ASSUME LogTypeOK, NEW batch \in SUBSET Events
  PROVE  IsFiniteSet(Stamped(batch)) /\ Stamped(batch) \subseteq Rows
<1> DEFINE f == [e \in batch |-> [id |-> e, at |-> clock]]
<1>1. clock \in Nat
  BY TimeAssumption DEF LogTypeOK
<1>2. f \in Surjection(batch, Stamped(batch))
  <2>1. f \in [batch -> Stamped(batch)]
    BY DEF Stamped
  <2>2. ASSUME NEW r \in Stamped(batch) PROVE \E e \in batch : f[e] = r
    <3>1. r.id \in batch /\ r = [id |-> r.id, at |-> clock]
      BY DEF Stamped
    <3> QED
      BY <3>1
  <2> QED
    BY <2>1, <2>2 DEF Surjection
<1>3. IsFiniteSet(batch)
  BY EventsAssumption, FS_Subset
<1>4. IsFiniteSet(Stamped(batch))
  <2> HIDE DEF f
  <2> QED
    BY <1>2, <1>3, FS_Surjection
<1> QED
  BY <1>1, <1>4 DEF Stamped, Rows

\* A purge after rows B came in: what an insert and a listing (B = {}) do.
LEMMA PurgeKeepsWindow ==
  ASSUME WindowInv, NEW B, B \subseteq Rows, IsFiniteSet(B),
         table' = PurgeEvents(table \cup B, clock), arrived' = arrived \cup B,
         clock' = clock
  PROVE  /\ table' \subseteq Rows /\ arrived' \subseteq Rows
         /\ IsFiniteSet(arrived') /\ table' \subseteq arrived'
         /\ Cardinality(table') <= Cap
         /\ Outnumbered'
<1> DEFINE All == table \cup B
           Live == Unexpired(All, clock)
<1>1. clock \in Nat /\ Cap \in Nat /\ Retention \in Nat
  BY CapAssumption, TimeAssumption DEF WindowInv, LogTypeOK
<1>2. IsFiniteSet(arrived') /\ arrived' \subseteq Rows
  BY FS_Union DEF WindowInv, LogTypeOK
<1>3. Live \subseteq arrived' /\ Live \subseteq Rows /\ IsFiniteSet(Live)
  BY <1>2, FS_Subset DEF WindowInv, Unexpired
<1>4. table' = Newest(Live, Cap)
  BY DEF PurgeEvents
<1>5. table' \subseteq Live /\ Cardinality(table') <= Cap
  <2>1. Cardinality(Newest(Live, Cap)) <= Cap
    BY <1>1, <1>3, NewestAreFew
  <2> QED
    BY <1>4, <2>1 DEF Newest
<1>6. ASSUME NEW q \in arrived' \ table', Fresh(q, clock)
      PROVE  Cardinality(NewerIn(table', q)) >= Cap
  <2>1. q \in Rows
    BY <1>2
  <2>2. Cardinality(NewerIn(Live, q)) >= Cap
    <3>1. CASE q \in All
      <4>1. q \in Live
        BY <3>1, <1>6 DEF Unexpired
      <4>2. ~(Cardinality(NewerIn(Live, q)) < Cap)
        BY <4>1, <1>4, <1>6 DEF Newest
      <4>3. Cardinality(NewerIn(Live, q)) \in Nat
        BY <1>3, FS_Subset, FS_CardinalityType DEF NewerIn
      <4> QED
        BY <4>2, <4>3, <1>1
    <3>2. CASE q \notin All
      <4>1. q \in arrived \ table
        BY <3>2
      <4>2. Cardinality(NewerIn(table, q)) >= Cap
        BY <4>1, <1>6 DEF WindowInv, Outnumbered
      <4>3. NewerIn(table, q) \subseteq NewerIn(Live, q)
        <5> SUFFICES ASSUME NEW x \in table, Newer(x, q) PROVE Fresh(x, clock)
          BY DEF NewerIn, Unexpired
        <5>1. x.at \in Nat /\ q.at \in Nat /\ x.at >= q.at
          <6>1. x \in Rows
            BY DEF WindowInv, LogTypeOK
          <6> QED
            BY <2>1, <6>1 DEF Rows, Newer
        <5> QED
          BY <5>1, <1>1, <1>6 DEF Fresh
      <4>4. Cardinality(NewerIn(table, q)) <= Cardinality(NewerIn(Live, q))
        <5>1. IsFiniteSet(NewerIn(Live, q))
          BY <1>3, FS_Subset DEF NewerIn
        <5> QED
          BY <5>1, <4>3, FS_Subset
      <4>5. Cardinality(NewerIn(table, q)) \in Nat /\ Cardinality(NewerIn(Live, q)) \in Nat
        <5>1. IsFiniteSet(NewerIn(Live, q)) /\ IsFiniteSet(NewerIn(table, q))
          BY <1>3, <4>3, FS_Subset DEF NewerIn
        <5> QED
          BY <5>1, FS_CardinalityType
      <4> QED
        BY <4>2, <4>4, <4>5, <1>1
    <3> QED
      BY <3>1, <3>2
  <2>3. Cardinality(NewerIn(Newest(Live, Cap), q)) >= Cap
    BY <2>1, <2>2, <1>1, <1>3, NewestOutnumber
  <2> QED
    BY <2>3, <1>4
<1>7. Outnumbered'
  <2> SUFFICES ASSUME NEW q \in arrived' \ table', Fresh(q, clock')
               PROVE  Cardinality(NewerIn(table', q)) >= Cap
    BY DEF Outnumbered
  <2> QED
    BY <1>6
<1> QED
  BY <1>2, <1>3, <1>5, <1>7

LEMMA NextWindow == WindowInv /\ [LogNext]_logVars => WindowInv'
<1> SUFFICES ASSUME WindowInv, [LogNext]_logVars PROVE WindowInv'
  OBVIOUS
<1>1. ASSUME UNCHANGED <<table, arrived, clock>>,
             queue' \subseteq Events, logged' \subseteq Events, lost' \subseteq Events,
             calls' \subseteq SUBSET Events
      PROVE  WindowInv'
  BY <1>1 DEF WindowInv, LogTypeOK, Outnumbered
<1>2. ASSUME NEW e \in Events, QueueEvent(e) \/ RecordDirectly(e) PROVE WindowInv'
  BY <1>1, <1>2 DEF QueueEvent, RecordDirectly, WindowInv, LogTypeOK
<1>3. CASE Flush \/ Evict
  BY <1>1, <1>3 DEF Flush, Evict, WindowInv, LogTypeOK
<1>4. ASSUME NEW batch \in calls, RecordFails(batch) PROVE WindowInv'
  BY <1>1, <1>4 DEF RecordFails, WindowInv, LogTypeOK
<1>5. ASSUME NEW batch \in calls, RecordEvents(batch) PROVE WindowInv'
  <2>1. batch \in SUBSET Events /\ LogTypeOK
    BY DEF WindowInv, LogTypeOK
  <2>2. IsFiniteSet(Stamped(batch)) /\ Stamped(batch) \subseteq Rows
    BY <2>1, StampedRows
  <2>3. /\ table' \subseteq Rows /\ arrived' \subseteq Rows
        /\ IsFiniteSet(arrived') /\ table' \subseteq arrived'
        /\ Cardinality(table') <= Cap
        /\ Outnumbered'
    BY <2>2, <1>5, PurgeKeepsWindow DEF RecordEvents, Insert
  <2> QED
    BY <2>1, <2>3, <1>5 DEF RecordEvents, WindowInv, LogTypeOK
<1>6. CASE ListEvents
  <2>1. table' = PurgeEvents(table \cup {}, clock) /\ arrived' = arrived \cup {}
        /\ clock' = clock
    <3>1. table \cup {} = table
      OBVIOUS
    <3> QED
      BY <1>6, <3>1 DEF ListEvents
  <2>2. /\ table' \subseteq Rows /\ arrived' \subseteq Rows
        /\ IsFiniteSet(arrived') /\ table' \subseteq arrived'
        /\ Cardinality(table') <= Cap
        /\ Outnumbered'
    <3>1. {} \subseteq Rows /\ IsFiniteSet({})
      BY FS_EmptySet
    <3> QED
      BY <2>1, <3>1, PurgeKeepsWindow
  <2> QED
    BY <2>2, <1>6 DEF ListEvents, WindowInv, LogTypeOK
<1>7. CASE Tick
  <2>1. /\ clock' = clock + 1 /\ clock \in Nat /\ clock' \in 0..MaxTime
        /\ table' = table /\ arrived' = arrived
    BY <1>7, TimeAssumption DEF Tick, WindowInv, LogTypeOK
  <2>2. ASSUME NEW q \in arrived, Fresh(q, clock') PROVE Fresh(q, clock)
    <3>1. q.at \in Nat
      BY DEF WindowInv, LogTypeOK, Rows
    <3> QED
      BY <3>1, <2>1, <2>2, TimeAssumption DEF Fresh
  <2>3. Outnumbered'
    BY <2>1, <2>2 DEF WindowInv, Outnumbered
  <2> QED
    BY <2>1, <2>3, <1>7 DEF Tick, WindowInv, LogTypeOK
<1>8. CASE UNCHANGED logVars
  BY <1>8 DEF logVars, WindowInv, LogTypeOK, Outnumbered
<1> QED
  BY <1>2, <1>3, <1>4, <1>5, <1>6, <1>7, <1>8 DEF LogNext

LEMMA WindowShowsNewest == WindowInv => ListsTheNewest
<1> SUFFICES ASSUME WindowInv, NEW limit \in 0..(Cap + 1)
             PROVE  Page(table, limit) = Page(arrived, limit)
  BY DEF ListsTheNewest, WindowInv
<1> DEFINE n == PageSize(limit)
           Shown == Unexpired(table, clock)
           Ever == Unexpired(arrived, clock)
<1>1. n \in Nat /\ n <= Cap /\ clock \in Nat /\ Retention \in Nat /\ Cap \in Nat
  BY CapAssumption, TimeAssumption DEF PageSize, WindowInv, LogTypeOK
<1>2. Shown \subseteq Ever /\ IsFiniteSet(Ever) /\ IsFiniteSet(Shown) /\ Ever \subseteq Rows
  BY FS_Subset DEF WindowInv, LogTypeOK, Unexpired
<1>3. ASSUME NEW y \in Ever \ Shown, NEW r \in Rows, y = r \/ Newer(y, r)
      PROVE  Cardinality(NewerIn(Shown, r)) >= n
  <2>1. y \in arrived \ table /\ Fresh(y, clock) /\ y \in Rows
    BY <1>2 DEF Unexpired
  <2>2. Cardinality(NewerIn(table, y)) >= Cap
    BY <2>1 DEF WindowInv, Outnumbered
  <2>3. NewerIn(table, y) \subseteq NewerIn(Shown, r)
    <3> SUFFICES ASSUME NEW x \in table, Newer(x, y) PROVE Fresh(x, clock) /\ Newer(x, r)
      BY DEF NewerIn, Unexpired
    <3>1. x \in Rows
      BY DEF WindowInv, LogTypeOK
    <3>2. x.at \in Nat /\ y.at \in Nat /\ x.at >= y.at
      BY <2>1, <3>1 DEF Rows, Newer
    <3> QED
      BY <3>1, <3>2, <2>1, <1>1, <1>3, NewerIsTransitive DEF Fresh
  <2>4. IsFiniteSet(NewerIn(Shown, r))
    BY <1>2, FS_Subset DEF NewerIn
  <2>5. Cardinality(NewerIn(table, y)) <= Cardinality(NewerIn(Shown, r))
        /\ IsFiniteSet(NewerIn(table, y))
    BY <2>3, <2>4, FS_Subset
  <2> QED
    BY <2>2, <2>4, <2>5, <1>1, FS_CardinalityType
<1>4. ASSUME NEW r \in Page(table, limit) PROVE r \in Page(arrived, limit)
  <2>1. r \in Shown /\ r \in Ever /\ Cardinality(NewerIn(Shown, r)) < n
    BY <1>2, <1>4 DEF Page, Newest
  <2>2. Cardinality(NewerIn(Shown, r)) \in Nat
    BY <1>2, FS_Subset, FS_CardinalityType DEF NewerIn
  <2>3. NewerIn(Ever, r) = NewerIn(Shown, r)
    BY <1>1, <1>2, <1>3, <2>1, <2>2 DEF NewerIn
  <2> QED
    BY <2>1, <2>3 DEF Page, Newest
<1>5. ASSUME NEW r \in Page(arrived, limit) PROVE r \in Page(table, limit)
  <2>1. r \in Ever /\ r \in Rows /\ Cardinality(NewerIn(Ever, r)) < n
    BY <1>2, <1>5 DEF Page, Newest
  <2>2. IsFiniteSet(NewerIn(Ever, r)) /\ NewerIn(Shown, r) \subseteq NewerIn(Ever, r)
    BY <1>2, FS_Subset DEF NewerIn
  <2>3. /\ Cardinality(NewerIn(Shown, r)) <= Cardinality(NewerIn(Ever, r))
        /\ Cardinality(NewerIn(Shown, r)) \in Nat /\ Cardinality(NewerIn(Ever, r)) \in Nat
    BY <2>2, FS_Subset, FS_CardinalityType
  <2>4. r \in Shown
    BY <1>1, <1>3, <2>1, <2>3
  <2> QED
    BY <1>1, <2>1, <2>3, <2>4 DEF Page, Newest
<1> QED
  BY <1>4, <1>5

\* What the dashboard lists is what it would list had nothing ever been
\* purged, for every cap and retention, and the table keeps to its cap
\* (purgeConnectionLogEvents, purgeInboundLogEvents).
THEOREM LogIsAWindow == LogSpec => []ListsTheNewest
<1>1. LogSpec => []WindowInv
  BY InitWindow, NextWindow, PTL DEF LogSpec
<1> QED
  BY <1>1, WindowShowsNewest, PTL

\* The variables of the log have their types.
THEOREM LogTypes == LogSpec => []LogTypeOK
<1>1. LogSpec => []WindowInv
  BY InitWindow, NextWindow, PTL DEF LogSpec
<1> QED
  BY <1>1, PTL DEF WindowInv

-----------------------------------------------------------------------------
(* No event is dropped by the queue or written twice *)

OnceInv == LogTypeOK /\ EachEventOnce

LEMMA InitOnce == LogInit => OnceInv
BY TimeAssumption DEF LogInit, OnceInv, LogTypeOK, EachEventOnce, Arrived, UnderWay

LEMMA NextOnce == OnceInv /\ [LogNext]_logVars /\ LogTypeOK' => OnceInv'
<1> SUFFICES ASSUME OnceInv, [LogNext]_logVars PROVE EachEventOnce'
  BY DEF OnceInv
<1> USE DEF OnceInv, EachEventOnce
<1>1. ASSUME NEW e \in Events, QueueEvent(e) PROVE EachEventOnce'
  BY <1>1 DEF QueueEvent, Unused, Arrived, UnderWay
<1>2. ASSUME NEW e \in Events, RecordDirectly(e) PROVE EachEventOnce'
  <2>1. UnderWay' = UnderWay \cup {e}
    <3>1. \A S : UNION (calls \cup {S}) = (UNION calls) \cup S
      OBVIOUS
    <3>2. calls' = calls \cup {{e}}
      BY <1>2 DEF RecordDirectly
    <3> QED
      BY <3>1, <3>2 DEF UnderWay
  <2>2. e \notin queue /\ e \notin UnderWay /\ e \notin Arrived /\ e \notin lost
    BY <1>2 DEF RecordDirectly, Unused
  <2>3. \A b \in calls : e \notin b
    BY <2>2 DEF UnderWay
  <2>4. \A b, c \in calls' : b # c => b \cap c = {}
    BY <1>2, <2>3 DEF RecordDirectly
  <2> QED
    BY <1>2, <2>1, <2>2, <2>4 DEF RecordDirectly, Arrived
<1>3. CASE Flush
  <2>1. UnderWay' = UnderWay \cup queue
    BY <1>3 DEF Flush, UnderWay
  <2>2. \A b \in calls : b \cap queue = {}
    BY DEF UnderWay
  <2>3. \A b, c \in calls' : b # c => b \cap c = {}
    BY <1>3, <2>2 DEF Flush
  <2> QED
    BY <1>3, <2>1, <2>3 DEF Flush, Arrived
<1>4. ASSUME NEW batch \in calls
      PROVE  /\ (UNION (calls \ {batch})) = UnderWay \ batch
             /\ batch \subseteq UnderWay
  BY DEF UnderWay
<1>5. ASSUME NEW batch \in calls, RecordEvents(batch) PROVE EachEventOnce'
  <2>1. Arrived' = Arrived \cup batch
    <3>1. \A r \in Stamped(batch) : r.id \in batch
      BY DEF Stamped
    <3>2. \A e \in batch : [id |-> e, at |-> clock] \in Stamped(batch)
      BY DEF Stamped
    <3>3. arrived' = arrived \cup Stamped(batch)
      BY <1>5 DEF RecordEvents, Insert
    <3>4. ASSUME NEW i PROVE i \in Arrived' <=> i \in Arrived \cup batch
      <4>1. CASE i \in batch
        <5>1. [id |-> i, at |-> clock] \in arrived'
          BY <3>2, <3>3, <4>1
        <5> QED
          BY <4>1, <5>1 DEF Arrived
      <4>2. CASE i \notin batch
        BY <3>1, <3>3, <4>2 DEF Arrived
      <4> QED
        BY <4>1, <4>2
    <3> QED
      BY <3>4
  <2>2. UnderWay' = UnderWay \ batch
    BY <1>4, <1>5 DEF RecordEvents, UnderWay
  <2>3. ASSUME NEW r \in arrived', NEW q \in arrived', r.id = q.id PROVE r = q
    <3>1. \A x \in arrived : x.id \notin batch
      BY <1>4 DEF Arrived
    <3>2. \A x \in Stamped(batch) : x.id \in batch /\ x = [id |-> x.id, at |-> clock]
      BY DEF Stamped
    <3>3. arrived' = arrived \cup Stamped(batch)
      BY <1>5 DEF RecordEvents, Insert
    <3>4. CASE r \in arrived /\ q \in arrived
      BY <3>4, <2>3
    <3>5. CASE r \in Stamped(batch) /\ q \in Stamped(batch)
      BY <3>5, <3>2, <2>3
    <3> QED
      BY <3>1, <3>2, <3>3, <3>4, <3>5, <2>3
  <2>4. \A b, c \in calls' : b # c => b \cap c = {}
    BY <1>5 DEF RecordEvents
  <2>5. queue' = queue /\ logged' = logged /\ lost' = lost
    BY <1>5 DEF RecordEvents
  <2> QED
    BY <1>4, <2>1, <2>2, <2>3, <2>4, <2>5
<1>6. ASSUME NEW batch \in calls, RecordFails(batch) PROVE EachEventOnce'
  <2>1. UnderWay' = UnderWay \ batch
    BY <1>4, <1>6 DEF RecordFails, UnderWay
  <2>2. Arrived' = Arrived /\ lost' = lost \cup batch /\ queue' = queue
        /\ logged' = logged /\ arrived' = arrived
    BY <1>6 DEF RecordFails, Arrived
  <2>3. \A b, c \in calls' : b # c => b \cap c = {}
    BY <1>6 DEF RecordFails
  <2> QED
    BY <1>4, <2>1, <2>2, <2>3
<1>7. CASE ListEvents
  BY <1>7 DEF ListEvents, Arrived, UnderWay
<1>8. CASE Evict
  BY <1>8 DEF Evict, Arrived, UnderWay
<1>9. CASE Tick \/ UNCHANGED logVars
  BY <1>9 DEF Tick, logVars, Arrived, UnderWay
<1> QED
  BY <1>1, <1>2, <1>3, <1>5, <1>6, <1>7, <1>8, <1>9 DEF LogNext

\* No interleaving of queueing, flushing, failing calls and evictions drops an
\* event otherwise or writes one twice (queueConnectionLog, flushConnectionLog,
\* recordConnectionEvents).
THEOREM EveryEventIsOnce == LogSpec => []EachEventOnce
<1>1. LogSpec => []OnceInv
  BY InitOnce, NextOnce, LogTypes, PTL DEF LogSpec
<1> QED
  BY <1>1, PTL DEF OnceInv

-----------------------------------------------------------------------------
(* Rules *)

LimitInv == DOMAIN rules = Routes /\ rules = [r \in Routes |-> rules[r]] /\ RulesWithinLimit

LEMMA InitLimit == SettingsInit => LimitInv
BY LimitAssumption, FS_EmptySet DEF SettingsInit, LimitInv, RulesWithinLimit

LEMMA NextLimit == LimitInv /\ [SettingsNext]_settingsVars => LimitInv'
<1> SUFFICES ASSUME LimitInv, [SettingsNext]_settingsVars PROVE LimitInv'
  OBVIOUS
<1>1. ASSUME UNCHANGED rules PROVE LimitInv'
  BY <1>1 DEF LimitInv, RulesWithinLimit
<1>2. ASSUME NEW route \in Routes, NEW S,
             IsFiniteSet(S), Cardinality(S) <= Limit, \A x \in S : x.path \notin {Root, NoPath},
             rules' = [rules EXCEPT ![route] = S]
      PROVE  LimitInv'
  BY <1>2 DEF LimitInv, RulesWithinLimit
<1>3. ASSUME NEW route \in Routes, NEW x \in RuleInputs, NEW side \in Sides,
             UpsertRule(route, x, side)
      PROVE  LimitInv'
  <2> DEFINE path == FilterPath(Submitted(side, x.path))
             rule == Stored(x, path)
  <2>1. CASE UNCHANGED rules
    BY <2>1, <1>1
  <2>2. CASE /\ path # NoPath /\ ~Full(route, rule)
             /\ rules' = [rules EXCEPT ![route] = @ \cup {rule}]
    <3>1. path # Root /\ rule.path = path
      BY <2>2 DEF FilterPath, Stored, NoPath, Root
    <3> HIDE DEF path
    <3>2. IsFiniteSet(rules[route]) /\ Cardinality(rules[route]) <= Limit
      BY DEF LimitInv, RulesWithinLimit
    <3>3. Cardinality(rules[route]) \in Nat
      BY <3>2, FS_CardinalityType
    <3> HIDE DEF rule
    <3>4. /\ IsFiniteSet(rules[route] \cup {rule})
          /\ Cardinality(rules[route] \cup {rule})
               = IF rule \in rules[route] THEN Cardinality(rules[route])
                                          ELSE Cardinality(rules[route]) + 1
      BY <3>2, FS_AddElement
    <3>5. Cardinality(rules[route] \cup {rule}) <= Limit
      BY <2>2, <3>2, <3>3, <3>4, LimitAssumption DEF Full
    <3>6. \A y \in rules[route] \cup {rule} : y.path \notin {Root, NoPath}
      BY <2>2, <3>1 DEF LimitInv, RulesWithinLimit
    <3>7. rules' = [rules EXCEPT ![route] = rules[route] \cup {rule}]
      BY <2>2
    <3> QED
      BY <1>2, <3>4, <3>5, <3>6, <3>7
  <2> QED
    BY <1>3, <2>1, <2>2 DEF UpsertRule
<1>4. ASSUME NEW route \in Routes, NEW x \in RuleInputs, NEW side \in Sides,
             DeleteRule(route, x, side)
      PROVE  LimitInv'
  <2> DEFINE rule == Stored(x, FilterPath(Submitted(side, x.path)))
  <2>1. rules' = [rules EXCEPT ![route] = rules[route] \ {rule}]
    BY <1>4 DEF DeleteRule
  <2> HIDE DEF rule
  <2>2. IsFiniteSet(rules[route]) /\ Cardinality(rules[route]) <= Limit
    BY DEF LimitInv, RulesWithinLimit
  <2>3. /\ IsFiniteSet(rules[route] \ {rule})
        /\ Cardinality(rules[route] \ {rule}) <= Cardinality(rules[route])
    BY <2>2, FS_Subset
  <2>4. Cardinality(rules[route] \ {rule}) <= Limit
    BY <2>2, <2>3, FS_CardinalityType, LimitAssumption
  <2>5. \A y \in rules[route] \ {rule} : y.path \notin {Root, NoPath}
    BY DEF LimitInv, RulesWithinLimit
  <2> QED
    BY <1>2, <2>1, <2>3, <2>4, <2>5
<1>5. ASSUME NEW route \in Routes, NEW p \in CallbackInputs, NEW side \in Sides,
             AddCallbackPath(route, p, side) \/ RemoveCallbackPath(route, p, side)
      PROVE  LimitInv'
  BY <1>1, <1>5 DEF AddCallbackPath, RemoveCallbackPath
<1>6. ASSUME NEW route \in Routes, NEW on \in BOOLEAN, SetDenyAll(route, on) PROVE LimitInv'
  BY <1>1, <1>6 DEF SetDenyAll
<1>7. CASE ClearFanout
  BY <1>7, FS_EmptySet, LimitAssumption DEF ClearFanout, LimitInv, RulesWithinLimit
<1>8. CASE UNCHANGED settingsVars
  BY <1>1, <1>8 DEF settingsVars
<1> QED
  BY <1>3, <1>4, <1>5, <1>6, <1>7, <1>8 DEF SettingsNext

\* No sequence of edits passes the limit, for every limit and every spelling
\* (upsertWebhookFilterRule, validateWebhookFilterPath).
THEOREM LimitHolds == SettingsSpec => []RulesWithinLimit
<1>1. SettingsSpec => []LimitInv
  BY InitLimit, NextLimit, PTL DEF SettingsSpec
<1> QED
  BY <1>1, PTL DEF LimitInv

-----------------------------------------------------------------------------
(* Least and greatest numbers, last and first elements *)

LEMMA SmallestExists ==
  ASSUME NEW S, S \subseteq Nat, S # {}
  PROVE  \E m \in S : \A n \in S : m <= n
<1> DEFINE R == OpToRel(<, Nat)
<1>1. IsWellFoundedOn(R, Nat)
  BY NatLessThanWellFounded
<1>2. \A m, n \in Nat : <<n, m>> \in R <=> n < m
  BY DEF OpToRel
<1> HIDE DEF R
<1>3. PICK m \in S : \A n \in S : ~(<<n, m>> \in R)
  BY <1>1, WFMin
<1>4. \A n \in S : m \in Nat /\ n \in Nat /\ ~(n < m)
  BY <1>2, <1>3
<1> QED
  BY <1>3, <1>4

LEMMA LargestExists ==
  ASSUME NEW S, S \subseteq Nat, S # {}, NEW b \in Nat, \A n \in S : n <= b
  PROVE  \E m \in S : \A n \in S : n <= m
<1> DEFINE T == {b - n : n \in S}
<1>1. T \subseteq Nat /\ T # {}
  <2>1. \A n \in S : b - n \in Nat
    OBVIOUS
  <2> QED
    BY <2>1
<1>2. PICK x \in T : \A y \in T : x <= y
  <2> HIDE DEF T
  <2> QED
    BY <1>1, SmallestExists
<1>3. PICK m \in S : x = b - m
  BY <1>2
<1>4. \A n \in S : b - m <= b - n
  BY <1>2, <1>3
<1> QED
  BY <1>3, <1>4

\* The last and the first element of s other than c, 0 when there is none.
LastNot(s, c) == SelectLastInSeq(s, LAMBDA t : t # c)
FirstNot(s, c) == SelectInSeq(s, LAMBDA t : t # c)

LEMMA LastNotIs ==
  ASSUME NEW D, NEW s \in Seq(D), NEW c, NEW n, n = LastNot(s, c)
  PROVE  /\ n \in 0..Len(s)
         /\ n > 0 => s[n] # c
         /\ \A i \in (n + 1)..Len(s) : s[i] = c
<1> DEFINE I == {i \in 1..Len(s) : s[i] # c}
<1>1. n = IF I # {} THEN Max(I) ELSE 0
  BY DEF LastNot, SelectLastInSeq
<1>2. CASE I = {}
  BY <1>1, <1>2
<1>3. CASE I # {}
  <2>1. \E m \in I : \A i \in I : i <= m
    <3>1. I \subseteq Nat /\ Len(s) \in Nat /\ \A i \in I : i <= Len(s)
      OBVIOUS
    <3> HIDE DEF I
    <3> QED
      BY <3>1, <1>3, LargestExists
  <2>2. n \in I /\ \A i \in I : i <= n
    <3> HIDE DEF I
    <3>1. n = CHOOSE m \in I : \A i \in I : m >= i
      BY <1>1, <1>3 DEF Max
    <3>2. \E m \in I : \A i \in I : m >= i
      <4> USE DEF I
      <4> QED
        BY <2>1
    <3>3. n \in I /\ \A i \in I : n >= i
      BY <3>1, <3>2
    <3> QED
      BY <3>3 DEF I
  <2> QED
    BY <2>2
<1> QED
  BY <1>2, <1>3

LEMMA FirstNotIs ==
  ASSUME NEW D, NEW s \in Seq(D), NEW c, NEW n, n = FirstNot(s, c)
  PROVE  /\ n \in 0..Len(s)
         /\ n > 0 => s[n] # c
         /\ n > 0 => \A i \in 1..(n - 1) : s[i] = c
         /\ n = 0 => \A i \in 1..Len(s) : s[i] = c
<1> DEFINE I == {i \in 1..Len(s) : s[i] # c}
<1>1. n = IF I # {} THEN Min(I) ELSE 0
  BY DEF FirstNot, SelectInSeq
<1>2. CASE I = {}
  BY <1>1, <1>2
<1>3. CASE I # {}
  <2>1. \E m \in I : \A i \in I : m <= i
    <3>1. I \subseteq Nat
      OBVIOUS
    <3> HIDE DEF I
    <3> QED
      BY <3>1, <1>3, SmallestExists
  <2>2. n \in I /\ \A i \in I : n <= i
    <3> HIDE DEF I
    <3>1. n = CHOOSE m \in I : \A i \in I : m =< i
      BY <1>1, <1>3 DEF Min
    <3> QED
      BY <2>1, <3>1
  <2> QED
    BY <2>2
<1> QED
  BY <1>2, <1>3

-----------------------------------------------------------------------------
(* The k-th number of a finite set *)

Below(S, i) == {j \in S : j <= i}

LEMMA RankGrows ==
  ASSUME NEW S, S \subseteq Nat, IsFiniteSet(S), NEW i \in Nat
  PROVE  /\ IsFiniteSet(Below(S, i))
         /\ Cardinality(Below(S, i)) \in 0..Cardinality(S)
         /\ i \in S => Cardinality(Below(S, i)) >= 1
         /\ \A j \in S : i < j => Cardinality(Below(S, i)) < Cardinality(Below(S, j))
<1>1. \A x \in Nat : /\ Below(S, x) \subseteq S
                     /\ IsFiniteSet(Below(S, x))
                     /\ Cardinality(Below(S, x)) \in Nat
                     /\ Cardinality(Below(S, x)) <= Cardinality(S)
  BY FS_Subset, FS_CardinalityType DEF Below
<1>2. i \in S => Cardinality(Below(S, i)) # 0
  <2>1. i \in S => i \in Below(S, i)
    BY DEF Below
  <2> QED
    BY <1>1, <2>1, FS_EmptySet
<1>3. ASSUME NEW j \in S, i < j
      PROVE  Cardinality(Below(S, i)) < Cardinality(Below(S, j))
  <2>1. j \in Nat /\ Below(S, i) \subseteq Below(S, j)
    <3>1. \A y \in S : y \in Nat /\ (y <= i => y <= j)
      BY <1>3
    <3> QED
      BY <3>1 DEF Below
  <2>2. j \in Below(S, j) /\ j \notin Below(S, i)
    BY <2>1, <1>3 DEF Below
  <2>3. /\ Cardinality(Below(S, i)) <= Cardinality(Below(S, j))
        /\ Cardinality(Below(S, i)) # Cardinality(Below(S, j))
    BY <1>1, <2>1, <2>2, FS_Subset
  <2> QED
    BY <1>1, <2>1, <2>3
<1>4. Cardinality(S) \in Nat
  BY FS_CardinalityType
<1> QED
  BY <1>1, <1>2, <1>3, <1>4

LEMMA NthIs ==
  ASSUME NEW S, S \subseteq Nat, IsFiniteSet(S), NEW k \in 1..Cardinality(S)
  PROVE  Nth(S, k) \in S /\ Cardinality(Below(S, Nth(S, k))) = k
<1> DEFINE n == Cardinality(S)
           f == [i \in S |-> Cardinality(Below(S, i))]
<1>1. n \in Nat
  BY FS_CardinalityType
<1>2. f \in Injection(S, 1..n)
  <2>1. f \in [S -> 1..n]
    <3>1. ASSUME NEW i \in S PROVE Cardinality(Below(S, i)) \in 1..n
      <4>1. i \in Nat
        OBVIOUS
      <4>2. Cardinality(Below(S, i)) \in 0..n /\ Cardinality(Below(S, i)) >= 1
        BY <4>1, RankGrows
      <4> QED
        BY <4>2, <1>1
    <3> QED
      BY <3>1
  <2>2. ASSUME NEW i \in S, NEW j \in S, f[i] = f[j] PROVE i = j
    <3>1. i \in Nat /\ j \in Nat
      OBVIOUS
    <3>2. \A x, y \in S : x < y => Cardinality(Below(S, x)) < Cardinality(Below(S, y))
      BY RankGrows
    <3>3. Cardinality(Below(S, i)) \in Nat /\ Cardinality(Below(S, i)) = Cardinality(Below(S, j))
      <4>1. Cardinality(Below(S, i)) = Cardinality(Below(S, j))
        BY <2>2
      <4>2. Cardinality(Below(S, i)) \in 0..n
        BY <3>1, RankGrows
      <4> QED
        BY <4>1, <4>2, <1>1
    <3>4. ~(i < j) /\ ~(j < i)
      BY <3>2, <3>3
    <3> QED
      BY <3>1, <3>4
  <2> HIDE DEF f
  <2> QED
    BY <2>1, <2>2 DEF Injection, IsInjective
<1>3. f \in Surjection(S, 1..n)
  <2>1. IsFiniteSet(1..n) /\ Cardinality(1..n) = n
    BY <1>1, FS_Interval
  <2> HIDE DEF f
  <2> QED
    BY <1>2, <2>1, FS_Injection
<1>4. \E i \in S : Cardinality(Below(S, i)) = k
  <2>1. \E i \in S : f[i] = k
    <3> HIDE DEF f
    <3> QED
      BY <1>3 DEF Surjection
  <2> QED
    BY <2>1
<1>5. Nth(S, k) = CHOOSE i \in S : Cardinality(Below(S, i)) = k
  BY DEF Nth, Below
<1> QED
  BY <1>4, <1>5

LEMMA NthUnique ==
  ASSUME NEW S, S \subseteq Nat, IsFiniteSet(S), NEW i \in S
  PROVE  /\ Cardinality(Below(S, i)) \in 1..Cardinality(S)
         /\ i = Nth(S, Cardinality(Below(S, i)))
<1> DEFINE k == Cardinality(Below(S, i))
<1>1. k \in 1..Cardinality(S)
  <2>1. i \in Nat /\ Cardinality(S) \in Nat
    BY FS_CardinalityType
  <2>2. k \in 0..Cardinality(S) /\ k >= 1
    BY <2>1, RankGrows
  <2> QED
    BY <2>1, <2>2
<1>2. PICK x \in S : x = Nth(S, k) /\ Cardinality(Below(S, x)) = k
  <2> HIDE DEF k
  <2> QED
    BY <1>1, NthIs
<1>3. ~(x < i) /\ ~(i < x)
  <2>1. \A y, z \in S : y < z => Cardinality(Below(S, y)) < Cardinality(Below(S, z))
    BY RankGrows
  <2> QED
    BY <2>1, <1>1, <1>2
<1>4. x \in Nat /\ i \in Nat
  OBVIOUS
<1> QED
  BY <1>1, <1>2, <1>3, <1>4

\* Where a number lies among the numbers of S.
LEMMA NthAround ==
  ASSUME NEW S, S \subseteq Nat, IsFiniteSet(S), NEW i \in Nat,
         NEW k, k = Cardinality(Below(S, i))
  PROVE  /\ k \in 0..Cardinality(S)
         /\ k >= 1 => Nth(S, k) <= i
         /\ k < Cardinality(S) => i < Nth(S, k + 1)
<1>1. k \in 0..Cardinality(S) /\ Cardinality(S) \in Nat
  BY RankGrows, FS_CardinalityType
<1>2. ASSUME k >= 1 PROVE Nth(S, k) <= i
  <2>1. PICK x \in S : x = Nth(S, k) /\ Cardinality(Below(S, x)) = k
    <3>1. k \in 1..Cardinality(S)
      BY <1>1, <1>2
    <3> QED
      BY <3>1, NthIs
  <2>2. i < x => k < Cardinality(Below(S, x))
    BY <2>1, RankGrows
  <2> QED
    BY <1>1, <2>1, <2>2
<1>3. ASSUME k < Cardinality(S) PROVE i < Nth(S, k + 1)
  <2>1. PICK y \in S : y = Nth(S, k + 1) /\ Cardinality(Below(S, y)) = k + 1
    <3>1. k + 1 \in 1..Cardinality(S)
      BY <1>1, <1>3
    <3> QED
      BY <3>1, NthIs
  <2>2. ASSUME y <= i PROVE FALSE
    <3>1. Below(S, y) \subseteq Below(S, i)
      <4>1. \A z \in S : z \in Nat /\ y \in Nat /\ (z <= y => z <= i)
        BY <2>2
      <4> QED
        BY <4>1 DEF Below
    <3>2. IsFiniteSet(Below(S, i))
      BY RankGrows
    <3>3. Cardinality(Below(S, y)) <= Cardinality(Below(S, i))
      BY <3>1, <3>2, FS_Subset
    <3> QED
      BY <3>3, <2>1, <1>1
  <2> QED
    BY <2>1, <2>2
<1> QED
  BY <1>1, <1>2, <1>3

LEMMA NthOrder ==
  ASSUME NEW S, S \subseteq Nat, IsFiniteSet(S),
         NEW k \in 1..Cardinality(S), NEW l \in 1..Cardinality(S), k < l
  PROVE  Nth(S, k) < Nth(S, l)
<1>1. PICK x \in S : x = Nth(S, k) /\ Cardinality(Below(S, x)) = k
  BY NthIs
<1>2. PICK y \in S : y = Nth(S, l) /\ Cardinality(Below(S, y)) = l
  BY NthIs
<1>3. x \in Nat /\ y \in Nat
  OBVIOUS
<1>4. y < x => l < k
  BY <1>1, <1>2, <1>3, RankGrows
<1>5. Cardinality(S) \in Nat
  BY FS_CardinalityType
<1> QED
  BY <1>1, <1>2, <1>3, <1>4, <1>5

\* The first numbers of S are numbered as in S.
LEMMA NthBelow ==
  ASSUME NEW S, S \subseteq Nat, IsFiniteSet(S), NEW m \in S,
         NEW k \in 1..Cardinality(Below(S, m))
  PROVE  k \in 1..Cardinality(S) /\ Nth(Below(S, m), k) = Nth(S, k)
<1> DEFINE B == Below(S, m)
<1>1. m \in Nat /\ B \subseteq Nat /\ IsFiniteSet(B) /\ B \subseteq S
  BY RankGrows DEF Below
<1>2. PICK x \in B : x = Nth(B, k) /\ Cardinality(Below(B, x)) = k
  <2> HIDE DEF B
  <2> QED
    BY <1>1, NthIs DEF B
<1>3. Below(B, x) = Below(S, x)
  <2>1. \A z \in S : z \in Nat /\ x \in Nat /\ x <= m /\ (z <= x => z <= m)
    BY <1>1, <1>2 DEF Below
  <2> QED
    BY <2>1 DEF Below
<1>4. x \in S /\ x = Nth(S, Cardinality(Below(S, x)))
  BY <1>1, NthUnique
<1>5. k \in 1..Cardinality(S)
  BY <1>2, <1>3, <1>4, NthUnique
<1> QED
  BY <1>2, <1>3, <1>4, <1>5

-----------------------------------------------------------------------------
(* Cutting a path *)

End(u, k) == Nth(Ends(u), k)
Pieces(u) == Cardinality(Ends(u)) - 1

LEMMA EndsAre ==
  ASSUME NEW D, NEW u \in Seq(D)
  PROVE  /\ Ends(u) \subseteq Nat /\ Ends(u) \subseteq 1..(Len(u) + 1)
         /\ IsFiniteSet(Ends(u))
         /\ Len(u) + 1 \in Ends(u)
         /\ Pieces(u) \in Nat /\ Cardinality(Ends(u)) = Pieces(u) + 1
         /\ End(u, Pieces(u) + 1) = Len(u) + 1
         /\ \A i \in 1..Len(u) : i \in Ends(u) <=> u[i] = "/"
<1> DEFINE S == Ends(u)
<1>1. Len(u) \in Nat /\ S \subseteq 1..(Len(u) + 1) /\ Len(u) + 1 \in S
      /\ \A i \in 1..Len(u) : i \in S <=> u[i] = "/"
  BY DEF Ends
<1>2. S \subseteq Nat /\ IsFiniteSet(S)
  <2>1. Len(u) + 1 \in Int /\ 1 \in Int
    BY <1>1
  <2>2. IsFiniteSet(1..(Len(u) + 1))
    BY <2>1, FS_Interval
  <2> HIDE DEF S
  <2>3. IsFiniteSet(S)
    BY <1>1, <2>2, FS_Subset
  <2> QED
    BY <1>1, <2>3
<1> HIDE DEF S
<1>3. Cardinality(S) \in Nat /\ Cardinality(S) # 0
  BY <1>1, <1>2, FS_CardinalityType, FS_EmptySet
<1>4. Below(S, Len(u) + 1) = S
  <2>1. \A j \in S : j <= Len(u) + 1
    BY <1>1
  <2> QED
    BY <2>1 DEF Below
<1>5. Len(u) + 1 = Nth(S, Cardinality(S))
  BY <1>1, <1>2, <1>4, NthUnique
<1>6. Pieces(u) = Cardinality(S) - 1
  BY DEF Pieces, S
<1>7. Cardinality(S) = Pieces(u) + 1 /\ Pieces(u) \in Nat
  BY <1>3, <1>6
<1>8. End(u, Pieces(u) + 1) = Len(u) + 1
  BY <1>5, <1>7 DEF End, S
<1> QED
  BY <1>1, <1>2, <1>7, <1>8 DEF S

LEMMA EndIs ==
  ASSUME NEW D, NEW u \in Seq(D), NEW k \in 1..(Pieces(u) + 1)
  PROVE  End(u, k) \in Ends(u) /\ End(u, k) \in 1..(Len(u) + 1)
<1>1. /\ Ends(u) \subseteq Nat /\ IsFiniteSet(Ends(u)) /\ Cardinality(Ends(u)) = Pieces(u) + 1
      /\ Ends(u) \subseteq 1..(Len(u) + 1)
  BY EndsAre
<1>2. Nth(Ends(u), k) \in Ends(u)
  BY <1>1, NthIs
<1> QED
  BY <1>1, <1>2 DEF End

LEMMA CutIs ==
  ASSUME NEW D, NEW u \in Seq(D)
  PROVE  /\ Cut(u) \in Seq(Seq(D)) /\ Len(Cut(u)) = Pieces(u) /\ Pieces(u) \in Nat
         /\ \A k \in 1..Pieces(u) :
              /\ End(u, k) \in 1..Len(u) /\ u[End(u, k)] = "/"
              /\ End(u, k + 1) \in (End(u, k) + 1)..(Len(u) + 1)
              /\ Cut(u)[k] \in Seq(D)
              /\ Len(Cut(u)[k]) = End(u, k + 1) - End(u, k) - 1
              /\ \A i \in 1..(End(u, k + 1) - End(u, k) - 1) : Cut(u)[k][i] = u[End(u, k) + i]
              /\ Cut(u)[k] = SubSeq(u, End(u, k) + 1, End(u, k + 1) - 1)
<1>1. /\ Len(u) \in Nat /\ Pieces(u) \in Nat /\ Cardinality(Ends(u)) = Pieces(u) + 1
      /\ Ends(u) \subseteq Nat /\ IsFiniteSet(Ends(u))
      /\ \A i \in 1..Len(u) : i \in Ends(u) <=> u[i] = "/"
  BY EndsAre
<1>2. Cut(u) = [k \in 1..Pieces(u) |-> SubSeq(u, End(u, k) + 1, End(u, k + 1) - 1)]
  BY DEF Cut, End, Pieces
<1>3. ASSUME NEW k \in 1..Pieces(u)
      PROVE  /\ End(u, k) \in 1..Len(u) /\ u[End(u, k)] = "/"
             /\ End(u, k + 1) \in (End(u, k) + 1)..(Len(u) + 1)
             /\ Cut(u)[k] \in Seq(D)
             /\ Len(Cut(u)[k]) = End(u, k + 1) - End(u, k) - 1
             /\ \A i \in 1..(End(u, k + 1) - End(u, k) - 1) : Cut(u)[k][i] = u[End(u, k) + i]
             /\ Cut(u)[k] = SubSeq(u, End(u, k) + 1, End(u, k + 1) - 1)
  <2>1. PICK a \in Ends(u), b \in Ends(u) :
          a = End(u, k) /\ b = End(u, k + 1) /\ a \in 1..(Len(u) + 1) /\ b \in 1..(Len(u) + 1)
    <3>1. k \in 1..(Pieces(u) + 1) /\ k + 1 \in 1..(Pieces(u) + 1)
      BY <1>1
    <3> QED
      BY <3>1, EndIs
  <2>2. a < b
    <3>1. k \in 1..Cardinality(Ends(u)) /\ k + 1 \in 1..Cardinality(Ends(u)) /\ k < k + 1
      BY <1>1
    <3>2. Nth(Ends(u), k) < Nth(Ends(u), k + 1)
      BY <3>1, <1>1, NthOrder
    <3> QED
      BY <3>2, <2>1 DEF End
  <2>3. a \in 1..Len(u) /\ u[a] = "/" /\ b \in (a + 1)..(Len(u) + 1)
    BY <1>1, <2>1, <2>2
  <2>4. \A i \in (a + 1)..(b - 1) : u[i] \in D
    BY <1>1, <2>3
  <2>5. /\ SubSeq(u, a + 1, b - 1) \in Seq(D)
        /\ Len(SubSeq(u, a + 1, b - 1)) = IF a + 1 <= b - 1 THEN (b - 1) - (a + 1) + 1 ELSE 0
        /\ \A i \in 1..((b - 1) - (a + 1) + 1) : SubSeq(u, a + 1, b - 1)[i] = u[(a + 1) + i - 1]
    <3>1. a + 1 \in Int /\ b - 1 \in Int
      BY <2>3
    <3> QED
      BY <3>1, <2>4, SubSeqProperties
  <2>6. /\ Len(SubSeq(u, a + 1, b - 1)) = b - a - 1
        /\ \A i \in 1..(b - a - 1) : SubSeq(u, a + 1, b - 1)[i] = u[a + i]
    BY <2>3, <2>5
  <2>7. Cut(u)[k] = SubSeq(u, a + 1, b - 1)
    BY <1>2, <2>1
  <2> QED
    BY <2>1, <2>3, <2>5, <2>6, <2>7
<1>4. Cut(u) \in Seq(Seq(D)) /\ Len(Cut(u)) = Pieces(u)
  <2>1. Cut(u) \in [1..Pieces(u) -> Seq(D)]
    BY <1>2, <1>3
  <2> QED
    BY <2>1, <1>1
<1> QED
  BY <1>1, <1>3, <1>4

LEMMA FirstPieces ==
  ASSUME NEW D, NEW u \in Seq(D), NEW m \in 0..Len(u)
  PROVE  /\ SubSeq(u, 1, m) \in Seq(D) /\ Len(SubSeq(u, 1, m)) = m
         /\ \A i \in 1..m : SubSeq(u, 1, m)[i] = u[i]
<1>1. \A i \in 1..m : u[i] \in D
  OBVIOUS
<1>2. /\ SubSeq(u, 1, m) \in Seq(D)
      /\ Len(SubSeq(u, 1, m)) = IF 1 <= m THEN m - 1 + 1 ELSE 0
      /\ \A i \in 1..(m - 1 + 1) : SubSeq(u, 1, m)[i] = u[1 + i - 1]
  <2>1. 1 \in Int /\ m \in Int
    OBVIOUS
  <2> QED
    BY <1>1, <2>1, SubSeqProperties
<1> QED
  BY <1>2

\* The segments of a path up to one of its slashes are its first ones.
LEMMA CutOfPart ==
  ASSUME NEW D, NEW u \in Seq(D), NEW v \in Seq(D), Len(v) <= Len(u),
         Len(v) = Len(u) \/ u[Len(v) + 1] = "/", \A i \in 1..Len(v) : v[i] = u[i]
  PROVE  /\ Pieces(v) <= Pieces(u)
         /\ \A k \in 1..(Pieces(v) + 1) : End(v, k) = End(u, k)
         /\ \A k \in 1..Pieces(v) : Cut(v)[k] = Cut(u)[k]
<1> DEFINE m == Len(v)
<1>1. v \in Seq(D) /\ Len(v) = m /\ m \in 0..Len(u) /\ \A i \in 1..m : v[i] = u[i]
  OBVIOUS
<1>2. /\ Ends(u) \subseteq Nat /\ IsFiniteSet(Ends(u)) /\ Ends(u) \subseteq 1..(Len(u) + 1)
      /\ Cardinality(Ends(u)) = Pieces(u) + 1 /\ Pieces(u) \in Nat
      /\ Len(u) + 1 \in Ends(u)
      /\ \A i \in 1..Len(u) : i \in Ends(u) <=> u[i] = "/"
  BY EndsAre
<1>3. /\ Ends(v) \subseteq 1..(m + 1) /\ Cardinality(Ends(v)) = Pieces(v) + 1
      /\ Pieces(v) \in Nat /\ m + 1 \in Ends(v)
      /\ \A i \in 1..m : i \in Ends(v) <=> v[i] = "/"
  BY <1>1, EndsAre
<1>4. m + 1 \in Ends(u)
  BY <1>2
<1>5. Ends(v) = Below(Ends(u), m + 1)
  <2>1. \A i \in 1..(m + 1) : i \in Ends(v) <=> i \in Ends(u)
    <3> SUFFICES ASSUME NEW i \in 1..(m + 1), i # m + 1 PROVE i \in Ends(v) <=> i \in Ends(u)
      BY <1>3, <1>4
    <3>1. i \in 1..m /\ i \in 1..Len(u)
      OBVIOUS
    <3> QED
      BY <3>1, <1>1, <1>2, <1>3
  <2>2. \A i \in Ends(u) : i <= m + 1 => i \in 1..(m + 1)
    BY <1>2
  <2>3. \A i \in Ends(v) : i <= m + 1
    BY <1>3
  <2> QED
    BY <2>1, <2>2, <2>3, <1>3 DEF Below
<1>6. ASSUME NEW k \in 1..(Pieces(v) + 1) PROVE End(v, k) = End(u, k) /\ k \in 1..(Pieces(u) + 1)
  <2>1. k \in 1..Cardinality(Below(Ends(u), m + 1))
    BY <1>3, <1>5
  <2>2. Nth(Below(Ends(u), m + 1), k) = Nth(Ends(u), k) /\ k \in 1..Cardinality(Ends(u))
    BY <2>1, <1>2, <1>4, NthBelow
  <2> QED
    BY <2>2, <1>2, <1>5 DEF End
<1>7. Pieces(v) <= Pieces(u)
  BY <1>2, <1>3, <1>6
<1>8. ASSUME NEW k \in 1..Pieces(v) PROVE Cut(v)[k] = Cut(u)[k]
  <2>1. k \in 1..Pieces(u) /\ k + 1 \in 1..(Pieces(v) + 1) /\ k \in 1..(Pieces(v) + 1)
    BY <1>2, <1>3, <1>7
  <2>2. End(v, k) = End(u, k) /\ End(v, k + 1) = End(u, k + 1)
    BY <1>6, <2>1
  <2>3. PICK a \in Nat, b \in Nat :
          a = End(u, k) /\ b = End(u, k + 1) /\ a = End(v, k) /\ b = End(v, k + 1)
          /\ a \in 1..Len(v) /\ b \in (a + 1)..(Len(v) + 1)
    <3>1. End(v, k) \in 1..Len(v) /\ End(v, k + 1) \in (End(v, k) + 1)..(Len(v) + 1)
      BY CutIs
    <3> QED
      BY <2>2, <3>1
  <2>4. /\ Cut(v)[k] \in Seq(D) /\ Len(Cut(v)[k]) = b - a - 1
        /\ \A i \in 1..(b - a - 1) : Cut(v)[k][i] = v[a + i]
    <3>1. /\ Cut(v)[k] \in Seq(D) /\ Len(Cut(v)[k]) = End(v, k + 1) - End(v, k) - 1
          /\ \A i \in 1..(End(v, k + 1) - End(v, k) - 1) : Cut(v)[k][i] = v[End(v, k) + i]
      BY CutIs
    <3> QED
      BY <3>1, <2>3
  <2>5. /\ Cut(u)[k] \in Seq(D) /\ Len(Cut(u)[k]) = b - a - 1
        /\ \A i \in 1..(b - a - 1) : Cut(u)[k][i] = u[a + i]
    <3>1. /\ Cut(u)[k] \in Seq(D) /\ Len(Cut(u)[k]) = End(u, k + 1) - End(u, k) - 1
          /\ \A i \in 1..(End(u, k + 1) - End(u, k) - 1) : Cut(u)[k][i] = u[End(u, k) + i]
      BY <2>1, CutIs
    <3> QED
      BY <3>1, <2>3
  <2>6. \A i \in 1..(b - a - 1) : Cut(v)[k][i] = Cut(u)[k][i]
    <3>1. ASSUME NEW i \in 1..(b - a - 1) PROVE a + i \in 1..Len(v)
      <4>1. Len(v) \in Nat /\ b <= Len(v) + 1
        BY <2>3
      <4> QED
        BY <4>1
    <3> QED
      BY <2>4, <2>5, <3>1
  <2> QED
    BY <2>4, <2>5, <2>6, SeqEqual
<1> QED
  BY <1>6, <1>7, <1>8

\* A remaining path: empty, or with a slash first.
Rooted(u) == u = <<>> \/ u[1] = "/"

LEMMA FirstEnd ==
  ASSUME NEW D, NEW u \in Seq(D), Rooted(u)
  PROVE  End(u, 1) = 1 /\ 1 \in Ends(u)
<1>1. /\ Ends(u) \subseteq Nat /\ IsFiniteSet(Ends(u)) /\ Ends(u) \subseteq 1..(Len(u) + 1)
      /\ Len(u) + 1 \in Ends(u)
      /\ \A i \in 1..Len(u) : i \in Ends(u) <=> u[i] = "/"
  BY EndsAre
<1>2. 1 \in Ends(u)
  BY <1>1 DEF Rooted
<1>3. Below(Ends(u), 1) = {1}
  <2>1. \A j \in Ends(u) : j <= 1 <=> j = 1
    BY <1>1
  <2> QED
    BY <2>1, <1>2 DEF Below
<1>4. 1 = Nth(Ends(u), 1)
  <2>1. 1 = Nth(Ends(u), Cardinality(Below(Ends(u), 1)))
    BY <1>1, <1>2, NthUnique
  <2> QED
    BY <2>1, <1>3, FS_Singleton
<1> QED
  BY <1>2, <1>4 DEF End

\* Every piece of a path is a slash or in a segment.
LEMMA PieceIsInSegment ==
  ASSUME NEW D, NEW u \in Seq(D), Rooted(u), NEW i \in 1..Len(u), u[i] # "/"
  PROVE  \E k \in 1..Pieces(u) : i \in (End(u, k) + 1)..(End(u, k + 1) - 1)
<1>1. /\ Ends(u) \subseteq Nat /\ IsFiniteSet(Ends(u)) /\ Ends(u) \subseteq 1..(Len(u) + 1)
      /\ Cardinality(Ends(u)) = Pieces(u) + 1 /\ Pieces(u) \in Nat
      /\ Len(u) + 1 \in Ends(u) /\ End(u, Pieces(u) + 1) = Len(u) + 1
      /\ \A j \in 1..Len(u) : j \in Ends(u) <=> u[j] = "/"
  BY EndsAre
<1>2. PICK k : k = Cardinality(Below(Ends(u), i))
  OBVIOUS
<1>3. /\ k \in 0..(Pieces(u) + 1)
      /\ k >= 1 => Nth(Ends(u), k) <= i
      /\ k < Pieces(u) + 1 => i < Nth(Ends(u), k + 1)
  <2>1. i \in Nat
    OBVIOUS
  <2>2. /\ k \in 0..Cardinality(Ends(u))
        /\ k >= 1 => Nth(Ends(u), k) <= i
        /\ k < Cardinality(Ends(u)) => i < Nth(Ends(u), k + 1)
    BY <1>1, <1>2, <2>1, NthAround
  <2> QED
    BY <1>1, <2>2
<1>4. k >= 1
  <2>1. 1 \in Below(Ends(u), i)
    BY FirstEnd DEF Below
  <2>2. IsFiniteSet(Below(Ends(u), i)) /\ k \in Nat
    BY <1>1, <1>2, <1>3, RankGrows
  <2> QED
    BY <1>2, <2>1, <2>2, FS_EmptySet
<1>5. k # Pieces(u) + 1
  <2>1. i \in Nat /\ i < Len(u) + 1
    OBVIOUS
  <2>2. k < Cardinality(Below(Ends(u), Len(u) + 1))
    BY <1>1, <1>2, <2>1, RankGrows
  <2>3. Cardinality(Below(Ends(u), Len(u) + 1)) \in 0..(Pieces(u) + 1)
    BY <1>1, RankGrows
  <2> QED
    BY <1>1, <1>3, <2>2, <2>3
<1>6. k \in 1..Pieces(u) /\ k \in 1..(Pieces(u) + 1)
  BY <1>1, <1>3, <1>4, <1>5
<1>7. End(u, k) <= i /\ i < End(u, k + 1) /\ End(u, k) # i /\ End(u, k) \in Nat
      /\ End(u, k + 1) \in Nat
  <2>1. End(u, k) \in Ends(u) /\ i \notin Ends(u)
    BY <1>1, <1>6, EndIs
  <2>2. k + 1 \in 1..(Pieces(u) + 1)
    BY <1>6, <1>1
  <2>3. End(u, k + 1) \in Ends(u)
    BY <2>2, EndIs
  <2> QED
    BY <1>1, <1>3, <1>6, <2>1, <2>3 DEF End
<1> QED
  BY <1>6, <1>7

\* The segments of v are the first of u: then v is where u begins, up to the
\* end of one of its segments.
LEMMA CutDetermines ==
  ASSUME NEW D, NEW u \in Seq(D), NEW v \in Seq(D), Rooted(u), Rooted(v),
         Pieces(v) <= Pieces(u), \A k \in 1..Pieces(v) : Cut(v)[k] = Cut(u)[k]
  PROVE  /\ Len(v) <= Len(u) /\ Len(v) + 1 \in Ends(u)
         /\ \A i \in 1..Len(v) : v[i] = u[i]
         /\ Pieces(v) = Pieces(u) => Len(v) = Len(u)
<1> DEFINE n == Pieces(v)
<1>1. /\ n \in Nat /\ End(v, n + 1) = Len(v) + 1 /\ Len(v) \in Nat
      /\ \A i \in 1..Len(v) : i \in Ends(v) <=> v[i] = "/"
  BY EndsAre
<1>2. /\ Pieces(u) \in Nat /\ End(u, Pieces(u) + 1) = Len(u) + 1 /\ Len(u) \in Nat
      /\ Ends(u) \subseteq 1..(Len(u) + 1)
      /\ \A i \in 1..Len(u) : i \in Ends(u) <=> u[i] = "/"
  BY EndsAre
<1>3. ASSUME NEW k \in 1..n, End(v, k) = End(u, k) PROVE End(v, k + 1) = End(u, k + 1)
  <2>1. k \in 1..Pieces(u)
    BY <1>1, <1>2
  <2>2. Len(Cut(v)[k]) = End(v, k + 1) - End(v, k) - 1 /\ End(v, k) \in 1..Len(v)
        /\ End(v, k + 1) \in (End(v, k) + 1)..(Len(v) + 1)
    BY CutIs
  <2>3. Len(Cut(u)[k]) = End(u, k + 1) - End(u, k) - 1 /\ End(u, k) \in 1..Len(u)
        /\ End(u, k + 1) \in (End(u, k) + 1)..(Len(u) + 1)
    BY <2>1, CutIs
  <2>4. Cut(v)[k] = Cut(u)[k]
    OBVIOUS
  <2> QED
    BY <1>3, <2>2, <2>3, <2>4
<1>4. \A k \in 1..(n + 1) : End(v, k) = End(u, k)
  <2> DEFINE Bad == {k \in 1..(n + 1) : End(v, k) # End(u, k)}
  <2>1. SUFFICES ASSUME Bad # {} PROVE FALSE
    OBVIOUS
  <2>2. PICK k \in Bad : \A l \in Bad : k <= l
    <3>1. Bad \subseteq Nat
      BY <1>1
    <3> HIDE DEF Bad
    <3> QED
      BY <2>1, <3>1, SmallestExists
  <2>3. k # 1
    BY FirstEnd
  <2>4. k - 1 \in 1..n /\ k - 1 \in 1..(n + 1) /\ k = (k - 1) + 1
    BY <1>1, <2>2, <2>3
  <2>5. End(v, k - 1) = End(u, k - 1)
    BY <1>1, <2>2, <2>4
  <2> QED
    BY <1>3, <2>2, <2>4, <2>5
<1>5. End(u, n + 1) = Len(v) + 1 /\ Len(v) + 1 \in Ends(u) /\ Len(v) <= Len(u)
  <2>1. n + 1 \in 1..(n + 1) /\ n + 1 \in 1..(Pieces(u) + 1)
    BY <1>1, <1>2
  <2>2. End(u, n + 1) \in Ends(u)
    BY <2>1, EndIs
  <2> QED
    BY <1>1, <1>2, <1>4, <2>1, <2>2
<1>6. ASSUME NEW i \in 1..Len(v) PROVE v[i] = u[i]
  <2>1. i \in 1..Len(u)
    BY <1>5, <1>1, <1>2
  <2>2. ASSUME NEW k \in 1..n, i \in (End(v, k) + 1)..(End(v, k + 1) - 1) PROVE v[i] = u[i]
    <3>1. k \in 1..Pieces(u) /\ k \in 1..(n + 1) /\ k + 1 \in 1..(n + 1)
      BY <1>1, <1>2
    <3>2. /\ End(v, k) \in Nat /\ End(v, k + 1) \in Nat
          /\ \A j \in 1..(End(v, k + 1) - End(v, k) - 1) : Cut(v)[k][j] = v[End(v, k) + j]
      <4>1. End(v, k) \in 1..Len(v) /\ End(v, k + 1) \in (End(v, k) + 1)..(Len(v) + 1)
            /\ \A j \in 1..(End(v, k + 1) - End(v, k) - 1) : Cut(v)[k][j] = v[End(v, k) + j]
        BY CutIs
      <4> QED
        BY <4>1
    <3>3. \A j \in 1..(End(u, k + 1) - End(u, k) - 1) : Cut(u)[k][j] = u[End(u, k) + j]
      BY <3>1, CutIs
    <3>4. PICK a \in Nat, b \in Nat :
            a = End(v, k) /\ b = End(v, k + 1) /\ a = End(u, k) /\ b = End(u, k + 1)
      BY <3>1, <3>2, <1>4
    <3>5. i - a \in 1..(b - a - 1) /\ a + (i - a) = i
      BY <2>2, <3>4
    <3>6. Cut(v)[k][i - a] = v[i] /\ Cut(u)[k][i - a] = u[i]
      BY <3>2, <3>3, <3>4, <3>5
    <3>7. Cut(v)[k] = Cut(u)[k]
      OBVIOUS
    <3> QED
      BY <3>6, <3>7
  <2>3. CASE v[i] # "/"
    BY <2>2, <2>3, PieceIsInSegment
  <2>4. CASE v[i] = "/"
    <3>1. i \in Ends(v)
      BY <1>1, <2>4
    <3>2. PICK k \in 1..(n + 1) : i = End(v, k)
      <4>1. Ends(v) \subseteq Nat /\ IsFiniteSet(Ends(v)) /\ Cardinality(Ends(v)) = n + 1
        BY EndsAre
      <4>2. /\ Cardinality(Below(Ends(v), i)) \in 1..Cardinality(Ends(v))
            /\ i = Nth(Ends(v), Cardinality(Below(Ends(v), i)))
        BY <3>1, <4>1, NthUnique
      <4> QED
        BY <4>1, <4>2 DEF End
    <3>3. k \in 1..(Pieces(u) + 1) /\ i = End(u, k)
      BY <1>1, <1>2, <1>4, <3>2
    <3>4. i \in Ends(u)
      BY <3>3, EndIs
    <3> QED
      BY <1>2, <2>1, <2>4, <3>4
  <2> QED
    BY <2>3, <2>4
<1>7. n = Pieces(u) => Len(v) = Len(u)
  BY <1>1, <1>2, <1>5
<1> QED
  BY <1>5, <1>6, <1>7

LEMMA SegmentHasNoSlash ==
  ASSUME NEW D, NEW u \in Seq(D), NEW k \in 1..Pieces(u),
         NEW i \in (End(u, k) + 1)..(End(u, k + 1) - 1)
  PROVE  i \in 1..Len(u) /\ u[i] # "/"
<1>1. /\ Ends(u) \subseteq Nat /\ IsFiniteSet(Ends(u))
      /\ Cardinality(Ends(u)) = Pieces(u) + 1 /\ Pieces(u) \in Nat
      /\ \A j \in 1..Len(u) : j \in Ends(u) <=> u[j] = "/"
  BY EndsAre
<1>2. End(u, k) \in 1..Len(u) /\ End(u, k + 1) \in (End(u, k) + 1)..(Len(u) + 1)
  BY CutIs
<1>3. i \in 1..Len(u)
  BY <1>2
<1>4. ASSUME i \in Ends(u) PROVE FALSE
  <2>1. PICK x \in Ends(u) : x = End(u, k) /\ Cardinality(Below(Ends(u), x)) = k
    <3>1. k \in 1..Cardinality(Ends(u))
      BY <1>1
    <3> QED
      BY <3>1, <1>1, NthIs DEF End
  <2>2. PICK y \in Ends(u) : y = End(u, k + 1) /\ Cardinality(Below(Ends(u), y)) = k + 1
    <3>1. k + 1 \in 1..Cardinality(Ends(u))
      BY <1>1
    <3> QED
      BY <3>1, <1>1, NthIs DEF End
  <2>3. \A z, w \in Ends(u) : z < w => Cardinality(Below(Ends(u), z)) < Cardinality(Below(Ends(u), w))
    BY <1>1, RankGrows
  <2>4. x < i /\ i < y
    BY <1>2, <2>1, <2>2
  <2>5. Cardinality(Below(Ends(u), i)) \in 0..(Pieces(u) + 1)
    BY <1>1, <1>4, RankGrows
  <2> QED
    BY <1>4, <2>1, <2>2, <2>3, <2>4, <2>5
<1> QED
  BY <1>1, <1>3, <1>4

\* Without the slashes at its end.
Bare(t) == SubSeq(t, 1, LastNot(t, "/"))

LEMMA BareIs ==
  ASSUME NEW D, NEW t \in Seq(D), Rooted(t)
  PROVE  /\ Bare(t) \in Seq(D) /\ Rooted(Bare(t)) /\ Len(Bare(t)) = LastNot(t, "/")
         /\ Bare(t) = <<>> \/ (Len(Bare(t)) \in Nat \ {0} /\ Bare(t)[Len(Bare(t))] # "/")
         /\ LastNot(t, "/") \in 0..Len(t)
         /\ \A i \in 1..LastNot(t, "/") : Bare(t)[i] = t[i]
         /\ \A i \in (LastNot(t, "/") + 1)..Len(t) : t[i] = "/"
<1> DEFINE e == LastNot(t, "/")
<1>1. e \in 0..Len(t) /\ (e > 0 => t[e] # "/") /\ \A i \in (e + 1)..Len(t) : t[i] = "/"
  BY LastNotIs
<1> HIDE DEF e
<1>2. e = Len(t) \/ t[e + 1] = "/"
  BY <1>1
<1>3. Bare(t) = SubSeq(t, 1, e)
  BY DEF Bare, e
<1>4. Bare(t) \in Seq(D) /\ Len(Bare(t)) = e /\ \A i \in 1..e : Bare(t)[i] = t[i]
  BY <1>1, <1>3, FirstPieces
<1>5. Bare(t) = <<>> \/ (Len(Bare(t)) \in Nat \ {0} /\ Bare(t)[Len(Bare(t))] # "/")
  <2>1. CASE e = 0
    BY <2>1, <1>4
  <2>2. CASE e # 0
    <3>1. e \in 1..e /\ e > 0 /\ e \in Nat \ {0}
      BY <2>2, <1>1
    <3> QED
      BY <3>1, <1>1, <1>4
  <2> QED
    BY <2>1, <2>2
<1>6. Rooted(Bare(t))
  <2>1. CASE e = 0
    BY <2>1, <1>4 DEF Rooted
  <2>2. CASE e # 0
    <3>1. 1 \in 1..e /\ t # <<>>
      BY <2>2, <1>1
    <3> QED
      BY <3>1, <1>4 DEF Rooted
  <2> QED
    BY <2>1, <2>2
<1> QED
  BY <1>1, <1>4, <1>5, <1>6 DEF e

\* The segments without the empty ones at the end are those of the bare path.
LEMMA BareSegments ==
  ASSUME NEW D, NEW t \in Seq(D), Rooted(t)
  PROVE  /\ LastNot(Cut(t), <<>>) = Pieces(Bare(t))
         /\ SubSeq(Cut(t), 1, LastNot(Cut(t), <<>>)) = Cut(Bare(t))
         /\ Pieces(Bare(t)) <= Pieces(t)
         /\ \A k \in 1..(Pieces(Bare(t)) + 1) : End(Bare(t), k) = End(t, k)
<1> DEFINE e == LastNot(t, "/")
           v == Bare(t)
           n == Pieces(v)
           l == LastNot(Cut(t), <<>>)
<1>1. /\ v \in Seq(D) /\ Rooted(v) /\ Len(v) = e /\ e \in 0..Len(t)
      /\ v = <<>> \/ (Len(v) \in Nat \ {0} /\ v[Len(v)] # "/")
      /\ \A i \in 1..e : v[i] = t[i]
      /\ \A i \in (e + 1)..Len(t) : t[i] = "/"
  BY BareIs
<1> HIDE DEF e, v
<1>3. /\ Pieces(v) <= Pieces(t)
      /\ \A k \in 1..(Pieces(v) + 1) : End(v, k) = End(t, k)
      /\ \A k \in 1..Pieces(v) : Cut(v)[k] = Cut(t)[k]
  <2>1. Len(v) <= Len(t) /\ (Len(v) = Len(t) \/ t[Len(v) + 1] = "/")
    BY <1>1
  <2>2. \A i \in 1..Len(v) : v[i] = t[i]
    BY <1>1
  <2> QED
    BY <1>1, <2>1, <2>2, CutOfPart
<1>4. /\ Cut(t) \in Seq(Seq(D)) /\ Len(Cut(t)) = Pieces(t) /\ Pieces(t) \in Nat
      /\ Cut(v) \in Seq(Seq(D)) /\ Len(Cut(v)) = n /\ n \in Nat
  BY <1>1, CutIs
<1>5. ASSUME n # 0 PROVE Cut(t)[n] # <<>>
  <2>1. n \in 1..n
    BY <1>4, <1>5
  <2>2. End(v, n) \in 1..Len(v) /\ v[End(v, n)] = "/" /\ Len(Cut(v)[n]) = End(v, n + 1) - End(v, n) - 1
        /\ Cut(v)[n] \in Seq(D)
    <3>1. v \in Seq(D)
      BY <1>1
    <3> QED
      BY <2>1, <3>1, CutIs
  <2>3. End(v, n + 1) = Len(v) + 1
    BY <1>1, EndsAre
  <2>4. End(v, n) # Len(v) /\ Len(v) \in Nat
    BY <1>1, <2>2
  <2>5. Len(Cut(v)[n]) > 0
    BY <2>2, <2>3, <2>4
  <2>6. Cut(v)[n] # <<>>
    BY <2>2, <2>5
  <2> QED
    BY <1>3, <2>1, <2>6
<1>6. ASSUME NEW k \in (n + 1)..Pieces(t) PROVE Cut(t)[k] = <<>>
  <2>1. k \in 1..Pieces(t)
    BY <1>4
  <2>2. /\ End(t, k) \in 1..Len(t) /\ End(t, k + 1) \in (End(t, k) + 1)..(Len(t) + 1)
        /\ Cut(t)[k] \in Seq(D) /\ Len(Cut(t)[k]) = End(t, k + 1) - End(t, k) - 1
    BY <2>1, CutIs
  <2>3. End(t, k) >= e + 1
    <3>1. End(t, n + 1) = e + 1
      <4>1. End(v, n + 1) = Len(v) + 1
        BY <1>1, EndsAre
      <4>2. n + 1 \in 1..(n + 1)
        BY <1>4
      <4> QED
        BY <1>1, <1>3, <4>1, <4>2
    <3>2. k = n + 1 \/ n + 1 < k
      BY <1>4
    <3>3. ASSUME n + 1 < k PROVE End(t, n + 1) < End(t, k)
      <4>1. /\ Ends(t) \subseteq Nat /\ IsFiniteSet(Ends(t)) /\ Cardinality(Ends(t)) = Pieces(t) + 1
        BY EndsAre
      <4>2. n + 1 \in 1..Cardinality(Ends(t)) /\ k \in 1..Cardinality(Ends(t))
        BY <1>4, <2>1, <3>3, <4>1
      <4> QED
        BY <3>3, <4>1, <4>2, NthOrder DEF End
    <3> QED
      BY <3>1, <3>2, <3>3, <2>2, <1>1
  <2>4. ASSUME End(t, k) + 1 <= End(t, k + 1) - 1 PROVE FALSE
    <3>1. PICK i : i = End(t, k) + 1
      OBVIOUS
    <3>2. i \in (End(t, k) + 1)..(End(t, k + 1) - 1)
      BY <2>2, <2>4, <3>1
    <3>3. i \in 1..Len(t) /\ t[i] # "/"
      BY <2>1, <3>2, SegmentHasNoSlash
    <3>4. i \in (e + 1)..Len(t)
      BY <2>2, <2>3, <3>1, <3>3, <1>1
    <3> QED
      BY <1>1, <3>3, <3>4
  <2> QED
    BY <2>2, <2>4
<1>7. l = n
  <2>1. /\ l \in 0..Pieces(t)
        /\ l > 0 => Cut(t)[l] # <<>>
        /\ \A k \in (l + 1)..Pieces(t) : Cut(t)[k] = <<>>
    <3>1. /\ l \in 0..Len(Cut(t))
          /\ l > 0 => Cut(t)[l] # <<>>
          /\ \A k \in (l + 1)..Len(Cut(t)) : Cut(t)[k] = <<>>
      BY <1>4, LastNotIs
    <3> QED
      BY <3>1, <1>4
  <2> HIDE DEF l
  <2>2. ~(l > n)
    <3>1. l > n => l \in (n + 1)..Pieces(t) /\ l > 0
      BY <1>4, <2>1
    <3> QED
      BY <3>1, <1>6, <2>1
  <2>3. ~(l < n)
    <3>1. l < n => n \in (l + 1)..Pieces(t) /\ n # 0
      BY <1>4, <1>3, <2>1
    <3> QED
      BY <3>1, <1>5, <2>1
  <2> QED
    BY <1>4, <2>1, <2>2, <2>3
<1>8. SubSeq(Cut(t), 1, n) = Cut(v)
  <2>1. \A k \in 1..n : Cut(t)[k] \in Seq(D)
    BY <1>3, <1>4
  <2>2. SubSeq(Cut(t), 1, n) \in Seq(Seq(D)) /\ Len(SubSeq(Cut(t), 1, n)) = n
        /\ \A k \in 1..n : SubSeq(Cut(t), 1, n)[k] = Cut(t)[k]
    BY <1>3, <1>4
  <2> QED
    BY <1>3, <1>4, <2>2, SeqEqual
<1> QED
  BY <1>3, <1>7, <1>8 DEF v

-----------------------------------------------------------------------------
(* Subtrees *)

LEMMA PrefixIs ==
  ASSUME NEW D, NEW s \in Seq(D), NEW t \in Seq(D)
  PROVE  IsPrefix(s, t) <=> Len(s) <= Len(t) /\ \A i \in 1..Len(s) : s[i] = t[i]
<1>1. Len(s) \in Nat /\ Len(t) \in Nat
  OBVIOUS
<1> QED
  BY <1>1 DEF IsPrefix

\* The segments of v come first in u exactly when u is v or lies under it.
LEMMA SubtreeIsPrefix ==
  ASSUME NEW D, "/" \in D, NEW u \in Seq(D), NEW v \in Seq(D), Rooted(u), Rooted(v)
  PROVE  IsPrefix(Cut(v), Cut(u)) <=> u = v \/ IsPrefix(v \o Root, u)
<1>1. /\ Cut(u) \in Seq(Seq(D)) /\ Len(Cut(u)) = Pieces(u) /\ Pieces(u) \in Nat
      /\ Cut(v) \in Seq(Seq(D)) /\ Len(Cut(v)) = Pieces(v) /\ Pieces(v) \in Nat
      /\ Len(u) \in Nat /\ Len(v) \in Nat
  BY CutIs
<1>2. IsPrefix(Cut(v), Cut(u))
        <=> Pieces(v) <= Pieces(u) /\ \A k \in 1..Pieces(v) : Cut(v)[k] = Cut(u)[k]
  BY <1>1, PrefixIs
<1>3. v \o Root \in Seq(D) /\ Len(v \o Root) = Len(v) + 1
      /\ (\A i \in 1..Len(v) : (v \o Root)[i] = v[i]) /\ (v \o Root)[Len(v) + 1] = "/"
  <2>1. Root \in Seq(D) /\ Len(Root) = 1 /\ Root[1] = "/"
    BY DEF Root
  <2>2. /\ v \o Root \in Seq(D) /\ Len(v \o Root) = Len(v) + Len(Root)
        /\ \A i \in 1..(Len(v) + Len(Root)) :
             (v \o Root)[i] = IF i <= Len(v) THEN v[i] ELSE Root[i - Len(v)]
    BY <2>1, ConcatProperties
  <2>3. Len(v) + 1 \in 1..(Len(v) + Len(Root)) /\ ~(Len(v) + 1 <= Len(v)) /\ Len(v) + 1 - Len(v) = 1
    BY <1>1, <2>1
  <2> QED
    BY <1>1, <2>1, <2>2, <2>3
<1>4. IsPrefix(v \o Root, u)
        <=> Len(v) + 1 <= Len(u) /\ (\A i \in 1..Len(v) : v[i] = u[i]) /\ u[Len(v) + 1] = "/"
  <2>1. IsPrefix(v \o Root, u)
          <=> Len(v) + 1 <= Len(u) /\ \A i \in 1..(Len(v) + 1) : (v \o Root)[i] = u[i]
    <3>1. PICK w \in Seq(D) : w = v \o Root /\ Len(w) = Len(v) + 1
      BY <1>3
    <3>2. IsPrefix(w, u) <=> Len(w) <= Len(u) /\ \A i \in 1..Len(w) : w[i] = u[i]
      BY PrefixIs
    <3> QED
      BY <3>1, <3>2
  <2>2. \A i \in 1..(Len(v) + 1) : i \in 1..Len(v) \/ i = Len(v) + 1
    BY <1>1
  <2>3. 1..Len(v) \subseteq 1..(Len(v) + 1) /\ Len(v) + 1 \in 1..(Len(v) + 1)
    BY <1>1
  <2> QED
    BY <1>3, <2>1, <2>2, <2>3
<1>5. ASSUME IsPrefix(Cut(v), Cut(u)) PROVE u = v \/ IsPrefix(v \o Root, u)
  <2>1. Len(v) <= Len(u) /\ Len(v) + 1 \in Ends(u) /\ \A i \in 1..Len(v) : v[i] = u[i]
    BY <1>2, <1>5, CutDetermines
  <2>2. CASE Len(v) = Len(u)
    BY <2>1, <2>2, SeqEqual
  <2>3. CASE Len(v) # Len(u)
    <3>1. Len(v) + 1 \in 1..Len(u)
      BY <1>1, <2>1, <2>3
    <3>2. u[Len(v) + 1] = "/"
      BY <2>1, <3>1, EndsAre
    <3> QED
      BY <1>4, <2>1, <3>1, <3>2
  <2> QED
    BY <2>2, <2>3
<1>6. ASSUME u = v PROVE IsPrefix(Cut(v), Cut(u))
  BY <1>1, <1>2, <1>6
<1>7. ASSUME IsPrefix(v \o Root, u) PROVE IsPrefix(Cut(v), Cut(u))
  <2>1. Len(v) <= Len(u) /\ u[Len(v) + 1] = "/" /\ \A i \in 1..Len(v) : v[i] = u[i]
    BY <1>1, <1>4, <1>7
  <2>2. Pieces(v) <= Pieces(u) /\ \A k \in 1..Pieces(v) : Cut(v)[k] = Cut(u)[k]
    BY <2>1, CutOfPart
  <2> QED
    BY <1>2, <2>2
<1> QED
  BY <1>5, <1>6, <1>7

LEMMA CutIsInjective ==
  ASSUME NEW D, "/" \in D, NEW u \in Seq(D), NEW v \in Seq(D), Rooted(u), Rooted(v), Cut(u) = Cut(v)
  PROVE  u = v
<1>1. Len(Cut(u)) = Pieces(u) /\ Len(Cut(v)) = Pieces(v) /\ Pieces(u) \in Nat
  BY CutIs
<1>2. Pieces(v) = Pieces(u) /\ \A k \in 1..Pieces(v) : Cut(v)[k] = Cut(u)[k]
  BY <1>1
<1>3. Len(v) = Len(u) /\ \A i \in 1..Len(v) : v[i] = u[i]
  <2>1. Pieces(v) <= Pieces(u)
    BY <1>1, <1>2
  <2> QED
    BY <1>2, <2>1, CutDetermines
<1> QED
  BY <1>3, SeqEqual

-----------------------------------------------------------------------------
(* Spellings *)

\* The solver takes no space in a string.
Space == " "

LEMMA TrimParts ==
  ASSUME NEW p
  PROVE  Trim(p) = IF FirstNot(p, Space) = 0 THEN <<>>
                   ELSE SubSeq(p, FirstNot(p, Space), LastNot(p, Space))
BY Zenon DEF Trim, FirstNot, LastNot, Space

\* t is p from a to b, and all else is spaces.
IsTrim(p, t, a, b) ==
  /\ a \in 1..Len(p) /\ b \in a..Len(p)
  /\ Len(t) = b - a + 1
  /\ \A i \in 1..(b - a + 1) : t[i] = p[a + i - 1]
  /\ \A i \in 1..(a - 1) : p[i] = Space
  /\ \A i \in (b + 1)..Len(p) : p[i] = Space

LEMMA TrimIs ==
  ASSUME NEW D, NEW p \in Seq(D)
  PROVE  \E t \in Seq(D) :
           /\ t = Trim(p)
           /\ \/ t = <<>> /\ \A i \in 1..Len(p) : p[i] = Space
              \/ /\ t # <<>> /\ t[1] # Space /\ t[Len(t)] # Space
                 /\ \E a, b \in Nat : IsTrim(p, t, a, b)
<1>1. PICK a : a = FirstNot(p, Space)
  OBVIOUS
<1>2. PICK b : b = LastNot(p, Space)
  OBVIOUS
<1>3. Trim(p) = IF a = 0 THEN <<>> ELSE SubSeq(p, a, b)
  BY <1>1, <1>2, TrimParts
<1>4. /\ a \in 0..Len(p) /\ (a > 0 => p[a] # Space)
      /\ a > 0 => \A i \in 1..(a - 1) : p[i] = Space
      /\ a = 0 => \A i \in 1..Len(p) : p[i] = Space
  BY <1>1, FirstNotIs
<1>5. /\ b \in 0..Len(p) /\ (b > 0 => p[b] # Space)
      /\ \A i \in (b + 1)..Len(p) : p[i] = Space
  BY <1>2, LastNotIs
<1>6. CASE a = 0
  <2>1. <<>> \in Seq(D)
    OBVIOUS
  <2> QED
    BY <2>1, <1>3, <1>4, <1>6
<1>7. CASE a # 0
  <2>1. a \in 1..Len(p) /\ b \in a..Len(p) /\ p[a] # Space /\ p[b] # Space
    <3>1. a \in 1..Len(p) /\ a > 0 /\ p[a] # Space
      BY <1>4, <1>7
    <3>2. ~(b < a)
      <4>1. b < a => a \in (b + 1)..Len(p)
        BY <3>1, <1>5
      <4> QED
        BY <4>1, <3>1, <1>5
    <3>3. b \in a..Len(p) /\ b > 0
      BY <3>1, <3>2, <1>5
    <3> QED
      BY <3>1, <3>3, <1>5
  <2>2. PICK t : t = Trim(p)
    OBVIOUS
  <2>3. t \in Seq(D) /\ Len(t) = b - a + 1 /\ \A i \in 1..(b - a + 1) : t[i] = p[a + i - 1]
    <3>1. \A i \in a..b : p[i] \in D
      BY <2>1
    <3>2. a \in Int /\ b \in Int /\ a <= b
      BY <2>1
    <3>3. t = SubSeq(p, a, b)
      BY <2>2, <1>3, <1>7
    <3> QED
      BY <3>1, <3>2, <3>3, SubSeqProperties
  <2>4. 1 \in 1..(b - a + 1) /\ b - a + 1 \in 1..(b - a + 1)
        /\ a + 1 - 1 = a /\ a + (b - a + 1) - 1 = b
    BY <2>1
  <2>5. t[1] = p[a] /\ t[b - a + 1] = p[b]
    BY <2>3, <2>4
  <2>6. t # <<>>
    BY <2>3, <2>4
  <2>7. t[1] # Space /\ t[Len(t)] # Space
    BY <2>1, <2>3, <2>5
  <2>8. a \in Nat /\ b \in Nat /\ a > 0
    BY <2>1
  <2>9. IsTrim(p, t, a, b)
    BY <2>1, <2>3, <2>8, <1>4, <1>5 DEF IsTrim
  <2> QED
    BY <2>2, <2>3, <2>6, <2>7, <2>8, <2>9
<1> QED
  BY <1>6, <1>7

LEMMA TrimOfTrimmed ==
  ASSUME NEW D, NEW t \in Seq(D), t = <<>> \/ (t[1] # Space /\ t[Len(t)] # Space)
  PROVE  Trim(t) = t
<1>1. PICK u \in Seq(D) :
        /\ u = Trim(t)
        /\ \/ u = <<>> /\ \A i \in 1..Len(t) : t[i] = Space
           \/ u # <<>> /\ \E a, b \in Nat : IsTrim(t, u, a, b)
  BY TrimIs
<1>2. CASE u = <<>> /\ \A i \in 1..Len(t) : t[i] = Space
  <2>1. t # <<>> => 1 \in 1..Len(t)
    OBVIOUS
  <2> QED
    BY <1>1, <1>2, <2>1
<1>3. CASE u # <<>> /\ \E a, b \in Nat : IsTrim(t, u, a, b)
  <2>1. PICK a \in Nat, b \in Nat : IsTrim(t, u, a, b)
    BY <1>3
  <2>2. /\ a \in 1..Len(t) /\ b \in a..Len(t) /\ Len(u) = b - a + 1
        /\ \A i \in 1..(b - a + 1) : u[i] = t[a + i - 1]
        /\ \A i \in 1..(a - 1) : t[i] = Space
        /\ \A i \in (b + 1)..Len(t) : t[i] = Space
    BY <2>1 DEF IsTrim
  <2>3. Len(t) \in Nat \ {0} /\ t[1] # Space /\ t[Len(t)] # Space
    BY <2>2
  <2>4. a = 1
    <3>1. a # 1 => 1 \in 1..(a - 1)
      BY <2>2
    <3> QED
      BY <3>1, <2>2, <2>3
  <2>5. b = Len(t)
    <3>1. b # Len(t) => Len(t) \in (b + 1)..Len(t)
      BY <2>2, <2>3
    <3> QED
      BY <3>1, <2>2, <2>3
  <2>6. Len(u) = Len(t) /\ \A i \in 1..Len(u) : u[i] = t[i]
    BY <2>2, <2>3, <2>4, <2>5
  <2> QED
    BY <1>1, <2>6, SeqEqual
<1> QED
  BY <1>1, <1>2, <1>3

LEMMA SlashIsNoSpace == "/" # Space
BY Zenon DEF Space

LEMMA RootIs ==
  ASSUME NEW D, "/" \in D
  PROVE  /\ Root \in Seq(D) /\ Len(Root) = 1 /\ Root[1] = "/" /\ Root # <<>>
         /\ Rooted(Root) /\ Trim(Root) = Root /\ Bare(Root) = <<>>
<1>1. Root \in Seq(D) /\ Len(Root) = 1 /\ Root[1] = "/" /\ Root # <<>> /\ Rooted(Root)
  BY DEF Root, Rooted
<1>2. Trim(Root) = Root
  <2>1. Root[1] # Space /\ Root[Len(Root)] # Space
    BY <1>1, SlashIsNoSpace
  <2> QED
    BY <1>1, <2>1, TrimOfTrimmed
<1>3. Bare(Root) = <<>>
  <2>1. PICK u \in Seq(D) : u = Bare(Root) /\ Len(u) \in 0..1
          /\ (u = <<>> \/ (Len(u) \in Nat \ {0} /\ u[Len(u)] # "/"))
          /\ \A i \in 1..Len(u) : u[i] = Root[i]
    <3>1. /\ Bare(Root) \in Seq(D) /\ Len(Bare(Root)) = LastNot(Root, "/")
          /\ Bare(Root) = <<>> \/ (Len(Bare(Root)) \in Nat \ {0} /\ Bare(Root)[Len(Bare(Root))] # "/")
          /\ LastNot(Root, "/") \in 0..Len(Root)
          /\ \A i \in 1..LastNot(Root, "/") : Bare(Root)[i] = Root[i]
      BY <1>1, BareIs
    <3> QED
      BY <3>1, <1>1
  <2> QED
    BY <2>1, <1>1
<1> QED
  BY <1>1, <1>2, <1>3

LEMMA EmptyIs ==
  ASSUME NEW D, "/" \in D
  PROVE  Trim(<<>>) = <<>> /\ Bare(<<>>) = <<>> /\ Cut(<<>>) = <<>> /\ Pieces(<<>>) = 0
<1>1. <<>> \in Seq(D) /\ Rooted(<<>>) /\ Len(<<>>) = 0
  BY DEF Rooted
<1>2. Trim(<<>>) = <<>>
  BY <1>1, TrimOfTrimmed
<1>3. Bare(<<>>) = <<>>
  <2>1. Bare(<<>>) \in Seq(D) /\ Len(Bare(<<>>)) = LastNot(<<>>, "/") /\ LastNot(<<>>, "/") \in 0..Len(<<>>)
    BY <1>1, BareIs
  <2> QED
    BY <2>1, <1>1
<1>4. Pieces(<<>>) = 0
  <2>1. Ends(<<>>) = {1}
    BY <1>1 DEF Ends
  <2>2. Cardinality({1}) = 1
    BY FS_Singleton
  <2>3. Pieces(<<>>) = Cardinality({1}) - 1
    BY <2>1 DEF Pieces
  <2> QED
    BY <2>2, <2>3
<1>5. Cut(<<>>) = <<>>
  <2>1. Cut(<<>>) \in Seq(Seq(D)) /\ Len(Cut(<<>>)) = Pieces(<<>>)
    BY <1>1, CutIs
  <2> QED
    BY <2>1, <1>4
<1> QED
  BY <1>2, <1>3, <1>4, <1>5

LEMMA NormalizeIs ==
  ASSUME NEW D, "/" \in D, NEW p \in Seq(D), Rooted(Trim(p))
  PROVE  Normalize(p) = IF Bare(Trim(p)) = <<>> THEN Root ELSE Bare(Trim(p))
<1>1. PICK t \in Seq(D) : t = Trim(p) /\ Rooted(t)
  BY TrimIs
<1>2. PICK s : s = IF t # <<>> /\ t[1] = "/" THEN t ELSE Root \o t
  OBVIOUS
<1>3. Normalize(p) = IF Bare(s) = <<>> THEN Root ELSE Bare(s)
  BY Zenon, <1>1, <1>2 DEF Normalize, Bare, LastNot
<1>4. CASE t = <<>>
  <2>1. s = Root
    <3>1. Root \in Seq(D) /\ s = Root \o <<>>
      BY <1>2, <1>4, RootIs
    <3> QED
      BY <3>1
  <2>2. Bare(s) = <<>> /\ Bare(t) = <<>>
    BY <2>1, <1>4, RootIs, EmptyIs
  <2> QED
    BY <2>2, <1>1, <1>3
<1>5. CASE t # <<>>
  <2>1. s = t
    BY <1>1, <1>2, <1>5 DEF Rooted
  <2> QED
    BY <2>1, <1>1, <1>3
<1> QED
  BY <1>4, <1>5

\* A path as it is kept in a table.
Kept(D, u) ==
  /\ u \in Seq(D) /\ u # <<>> /\ u[1] = "/"
  /\ Trim(u) = u
  /\ u = Root \/ Bare(u) = u

LEMMA KeptIs ==
  ASSUME NEW D, "/" \in D, NEW u, Kept(D, u)
  PROVE  /\ Rooted(u) /\ Rooted(Trim(u)) /\ Normalize(u) = u
         /\ u # Root => Bare(Trim(u)) = u
         /\ u = Root => Bare(Trim(u)) = <<>>
<1>1. u \in Seq(D) /\ u # <<>> /\ Trim(u) = u /\ Rooted(u) /\ (u = Root \/ Bare(u) = u)
  BY DEF Kept, Rooted
<1>2. u = Root => Bare(u) = <<>>
  BY RootIs
<1>3. Normalize(u) = IF Bare(u) = <<>> THEN Root ELSE Bare(u)
  BY <1>1, NormalizeIs
<1> QED
  BY <1>1, <1>2, <1>3

\* A spelling that normalization settles is kept as the segments it had.
LEMMA NormalizeKeeps ==
  ASSUME NEW D, "/" \in D, NEW p \in Seq(D), Rooted(Trim(p)),
         Normalize(Normalize(p)) = Normalize(p)
  PROVE  /\ Kept(D, Normalize(p))
         /\ Normalize(p) # Root => Normalize(p) = Bare(Trim(p)) /\ Bare(Trim(p)) # <<>>
         /\ Normalize(p) = Root => Bare(Trim(p)) = <<>>
<1>1. PICK t \in Seq(D) : t = Trim(p) /\ Rooted(t)
  BY TrimIs
<1>2. PICK u : u = Normalize(p) /\ Normalize(u) = u
  OBVIOUS
<1>3. u = IF Bare(t) = <<>> THEN Root ELSE Bare(t)
  BY <1>1, <1>2, NormalizeIs
<1>4. Bare(t) \in Seq(D) /\ Rooted(Bare(t))
      /\ (Bare(t) = <<>> \/ (Len(Bare(t)) \in Nat \ {0} /\ Bare(t)[Len(Bare(t))] # "/"))
  BY <1>1, BareIs
<1>5. Bare(t) # Root
  <2>1. Len(Root) = 1 /\ Root[1] = "/" /\ Root # <<>>
    BY RootIs
  <2> QED
    BY <2>1, <1>4
<1>6. u \in Seq(D) /\ u # <<>> /\ u[1] = "/" /\ Rooted(u)
  BY <1>3, <1>4, RootIs DEF Rooted
<1>7. ASSUME u # Root PROVE Trim(u) = u /\ Bare(u) = u
  <2>1. PICK w \in Seq(D) :
          /\ w = Trim(u)
          /\ \/ w = <<>> /\ \A i \in 1..Len(u) : u[i] = Space
             \/ w # <<>> /\ \E a, b \in Nat : IsTrim(u, w, a, b)
    BY <1>6, TrimIs
  <2>2. Len(u) \in Nat \ {0} /\ 1 \in 1..Len(u) /\ u[1] # Space
    <3>1. u[1] # Space
      BY <1>6, SlashIsNoSpace
    <3> QED
      BY <3>1, <1>6
  <2>3. w # <<>>
    BY <2>1, <2>2
  <2>4. PICK a \in Nat, b \in Nat : IsTrim(u, w, a, b)
    BY <2>1, <2>3
  <2>5. /\ a \in 1..Len(u) /\ b \in a..Len(u) /\ Len(w) = b - a + 1
        /\ \A i \in 1..(b - a + 1) : w[i] = u[a + i - 1]
        /\ \A i \in 1..(a - 1) : u[i] = Space
    BY <2>4 DEF IsTrim
  <2>6. a = 1
    <3>1. a # 1 => 1 \in 1..(a - 1)
      BY <2>5
    <3> QED
      BY <3>1, <2>2, <2>5
  <2>7. Len(w) = b /\ b \in 1..Len(u) /\ \A i \in 1..b : w[i] = u[i]
    BY <2>5, <2>6
  <2>8. Rooted(w)
    BY <2>7, <1>6 DEF Rooted
  <2>9. u = Bare(w)
    <3>1. u = IF Bare(w) = <<>> THEN Root ELSE Bare(w)
      BY <1>2, <1>6, <2>1, <2>8, NormalizeIs
    <3> QED
      BY <3>1, <1>7
  <2>10. Len(u) <= Len(w)
    <3>1. Len(Bare(w)) = LastNot(w, "/") /\ LastNot(w, "/") \in 0..Len(w)
      BY <2>8, BareIs
    <3> QED
      BY <3>1, <2>9
  <2>11. w = u
    <3>1. Len(w) = Len(u) /\ \A i \in 1..Len(w) : w[i] = u[i]
      BY <2>7, <2>10, <2>2
    <3> QED
      BY <3>1, <1>6, SeqEqual
  <2> QED
    BY <2>1, <2>9, <2>11
<1>8. u = Root => Trim(u) = u
  BY RootIs
<1>9. Kept(D, u)
  BY <1>6, <1>7, <1>8 DEF Kept
<1> QED
  BY <1>1, <1>2, <1>3, <1>5, <1>9

-----------------------------------------------------------------------------
(* Paths and their segments *)

\* The segments of a path, for one that begins with a slash.
Segs(p) == Cut(Bare(Trim(p)))

LEMMA SegmentsAre ==
  ASSUME NEW D, NEW p \in Paths, p \in Seq(D), Rooted(Trim(p))
  PROVE  Segments[p] = Segs(p)
<1>1. Segments[p] = SubSeq(Cut(Trim(p)), 1, LastNot(Cut(Trim(p)), <<>>))
  BY Zenon DEF Segments, LastNot
<1>2. PICK t \in Seq(D) : t = Trim(p) /\ Rooted(t)
  BY TrimIs
<1>3. SubSeq(Cut(t), 1, LastNot(Cut(t), <<>>)) = Cut(Bare(t))
  BY <1>2, BareSegments
<1> QED
  BY <1>1, <1>2, <1>3 DEF Segs

LEMMA SegsSeparate ==
  ASSUME NEW D, "/" \in D, NEW p \in Seq(D), NEW q \in Seq(D),
         Rooted(Trim(p)), Rooted(Trim(q))
  PROVE  Segs(p) = Segs(q) <=> Normalize(p) = Normalize(q)
<1>1. PICK u \in Seq(D) : u = Bare(Trim(p)) /\ Rooted(u) /\ (u = <<>> \/ (Len(u) \in Nat \ {0} /\ u[Len(u)] # "/"))
  BY TrimIs, BareIs
<1>2. PICK v \in Seq(D) : v = Bare(Trim(q)) /\ Rooted(v) /\ (v = <<>> \/ (Len(v) \in Nat \ {0} /\ v[Len(v)] # "/"))
  BY TrimIs, BareIs
<1>3. Cut(u) = Cut(v) <=> u = v
  BY <1>1, <1>2, CutIsInjective
<1>4. Normalize(p) = (IF u = <<>> THEN Root ELSE u) /\ Normalize(q) = (IF v = <<>> THEN Root ELSE v)
  BY <1>1, <1>2, NormalizeIs
<1>5. u # Root /\ v # Root
  <2>1. Len(Root) = 1 /\ Root[1] = "/" /\ Root # <<>>
    BY RootIs
  <2> QED
    BY <2>1, <1>1, <1>2
<1> QED
  BY <1>1, <1>2, <1>3, <1>4, <1>5 DEF Segs

LEMMA NoSegments ==
  ASSUME NEW D, "/" \in D, NEW p \in Seq(D), Rooted(Trim(p))
  PROVE  Segs(p) = <<>> <=> Normalize(p) = Root
<1>1. Trim(Root) = Root /\ Bare(Root) = <<>> /\ Root \in Seq(D) /\ Rooted(Root)
  BY RootIs
<1>2. Segs(Root) = <<>>
  BY <1>1, EmptyIs DEF Segs
<1>3. Normalize(Root) = Root
  BY <1>1, NormalizeIs
<1> QED
  BY <1>1, <1>2, <1>3, SegsSeparate

LEMMA UnderIsPrefix ==
  ASSUME NEW D, "/" \in D, NEW p \in Seq(D), Rooted(Trim(p)),
         NEW q, Kept(D, q), q # Root
  PROVE  Under(p, q) <=> IsPrefix(Segs(q), Segs(p))
<1>1. q \in Seq(D) /\ q # <<>> /\ Rooted(q) /\ Normalize(q) = q /\ Bare(Trim(q)) = q
  BY KeptIs DEF Kept
<1>2. PICK u \in Seq(D) : u = Bare(Trim(p)) /\ Rooted(u) /\ (u = <<>> \/ (Len(u) \in Nat \ {0} /\ u[Len(u)] # "/"))
  BY TrimIs, BareIs
<1>3. Normalize(p) = IF u = <<>> THEN Root ELSE u
  BY <1>2, NormalizeIs
<1>4. IsPrefix(Cut(q), Cut(u)) <=> u = q \/ IsPrefix(q \o Root, u)
  BY <1>1, <1>2, SubtreeIsPrefix
<1>5. Under(p, q) <=> LET n == Normalize(p) IN n = q \/ IsPrefix(q \o Root, n)
  BY <1>1 DEF Under
<1>6. ~IsPrefix(q \o Root, Root) /\ ~IsPrefix(q \o Root, <<>>)
  <2>1. PICK w \in Seq(D) : w = q \o Root /\ Len(w) > 1
    <3>1. Root \in Seq(D) /\ Len(Root) = 1
      BY RootIs
    <3>2. Len(q) \in Nat \ {0}
      BY <1>1
    <3>3. q \o Root \in Seq(D) /\ Len(q \o Root) = Len(q) + Len(Root)
      BY <1>1, <3>1, ConcatProperties
    <3>4. PICK w : w = q \o Root
      OBVIOUS
    <3>5. w \in Seq(D) /\ Len(w) = Len(q) + 1
      BY <3>1, <3>3, <3>4
    <3>6. Len(w) > 1
      BY <3>2, <3>5
    <3> QED
      BY <3>4, <3>5, <3>6
  <2>2. Root \in Seq(D) /\ Len(Root) = 1 /\ <<>> \in Seq(D) /\ Len(<<>>) = 0
    BY RootIs
  <2>3. IsPrefix(w, Root) => Len(w) <= Len(Root)
    BY <2>2, PrefixIs
  <2>4. IsPrefix(w, <<>>) => Len(w) <= Len(<<>>)
    BY <2>2, PrefixIs
  <2> QED
    BY <2>1, <2>2, <2>3, <2>4
<1> QED
  BY <1>1, <1>2, <1>3, <1>4, <1>5, <1>6 DEF Segs

LEMMA KeptSegs ==
  ASSUME NEW D, "/" \in D, NEW p \in Seq(D), Rooted(Trim(p)),
         Normalize(Normalize(p)) = Normalize(p)
  PROVE  Segs(Normalize(p)) = Segs(p)
<1>1. PICK u : u = Normalize(p)
  OBVIOUS
<1>2. Kept(D, u) /\ (u # Root => u = Bare(Trim(p))) /\ (u = Root => Bare(Trim(p)) = <<>>)
  BY <1>1, NormalizeKeeps
<1>3. Bare(Trim(u)) = Bare(Trim(p))
  BY <1>2, KeptIs
<1> QED
  BY <1>1, <1>3 DEF Segs

\* No two slashes side by side: no empty segment before the last.
LEMMA NoEmptySegment ==
  ASSUME NEW D, "/" \in D, NEW t \in Seq(D), Rooted(t)
  PROVE  (\A i \in 1..(Len(t) - 1) : ~(t[i] = "/" /\ t[i + 1] = "/"))
           <=> \A k \in 1..(Len(Cut(t)) - 1) : Cut(t)[k] # <<>>
<1>1. /\ Len(Cut(t)) = Pieces(t) /\ Pieces(t) \in Nat /\ Len(t) \in Nat
      /\ Ends(t) \subseteq Nat /\ IsFiniteSet(Ends(t)) /\ Cardinality(Ends(t)) = Pieces(t) + 1
      /\ Ends(t) \subseteq 1..(Len(t) + 1) /\ End(t, Pieces(t) + 1) = Len(t) + 1
      /\ \A i \in 1..Len(t) : i \in Ends(t) <=> t[i] = "/"
  BY CutIs, EndsAre
<1>2. ASSUME NEW k \in 1..(Pieces(t) - 1), Cut(t)[k] = <<>>
      PROVE  \E i \in 1..(Len(t) - 1) : t[i] = "/" /\ t[i + 1] = "/"
  <2>1. k \in 1..Pieces(t) /\ k + 1 \in 1..Pieces(t)
    BY <1>1
  <2>2. End(t, k) \in 1..Len(t) /\ t[End(t, k)] = "/" /\ Len(Cut(t)[k]) = End(t, k + 1) - End(t, k) - 1
    BY <2>1, CutIs
  <2>3. End(t, k + 1) \in 1..Len(t) /\ t[End(t, k + 1)] = "/"
    BY <2>1, CutIs
  <2>4. End(t, k + 1) = End(t, k) + 1
    BY <1>2, <2>2, <2>3
  <2>5. PICK i \in 1..Len(t) : i = End(t, k)
    BY <2>2
  <2>6. i + 1 \in 1..Len(t) /\ t[i] = "/" /\ t[i + 1] = "/"
    BY <2>2, <2>3, <2>4, <2>5
  <2>7. i \in 1..(Len(t) - 1)
    BY <1>1, <2>6
  <2> QED
    BY <2>6, <2>7
<1>3. ASSUME NEW i \in 1..(Len(t) - 1), t[i] = "/", t[i + 1] = "/"
      PROVE  \E k \in 1..(Pieces(t) - 1) : Cut(t)[k] = <<>>
  <2>1. i \in Ends(t) /\ i + 1 \in Ends(t) /\ i \in Nat /\ i + 1 <= Len(t)
    BY <1>1, <1>3
  <2>2. PICK k : k = Cardinality(Below(Ends(t), i))
    OBVIOUS
  <2>3. k \in 1..(Pieces(t) + 1) /\ End(t, k) = i
    BY <1>1, <2>1, <2>2, NthUnique DEF End
  <2>4. k < Cardinality(Below(Ends(t), i + 1))
        /\ Cardinality(Below(Ends(t), i + 1)) \in 1..(Pieces(t) + 1)
    <3>1. k < Cardinality(Below(Ends(t), i + 1))
      BY <1>1, <2>1, <2>2, RankGrows
    <3>2. Cardinality(Below(Ends(t), i + 1)) \in 1..Cardinality(Ends(t))
      BY <1>1, <2>1, NthUnique
    <3> QED
      BY <3>1, <3>2, <1>1
  <2>5. k \in 1..Pieces(t) /\ k + 1 \in 1..(Pieces(t) + 1)
    BY <1>1, <2>3, <2>4
  <2>6. End(t, k + 1) = i + 1
    <3>1. PICK m : m = Cardinality(Below(Ends(t), i + 1))
      OBVIOUS
    <3>2. m \in 1..(Pieces(t) + 1) /\ k + 1 <= m /\ End(t, m) = i + 1
      <4>1. i + 1 = Nth(Ends(t), m)
        BY <1>1, <2>1, <3>1, NthUnique
      <4> QED
        BY <4>1, <3>1, <2>3, <2>4 DEF End
    <3>3. End(t, k + 1) <= End(t, m)
      <4>1. k + 1 # m => Nth(Ends(t), k + 1) < Nth(Ends(t), m)
        <5>1. k + 1 \in 1..Cardinality(Ends(t)) /\ m \in 1..Cardinality(Ends(t))
          BY <1>1, <2>5, <3>2
        <5>2. k + 1 # m => k + 1 < m
          BY <2>5, <3>2
        <5> QED
          BY <5>1, <5>2, <1>1, NthOrder
      <4>2. End(t, m) \in Nat
        BY <3>2, <2>1
      <4>3. End(t, k + 1) \in 1..(Len(t) + 1)
        BY <2>5, EndIs
      <4> QED
        BY <4>1, <4>2, <4>3 DEF End
    <3>4. End(t, k + 1) \in (End(t, k) + 1)..(Len(t) + 1)
      BY <2>5, CutIs
    <3> QED
      BY <3>2, <3>3, <3>4, <2>1, <2>3
  <2>7. k # Pieces(t)
    BY <1>1, <2>1, <2>6
  <2>8. Cut(t)[k] = <<>>
    <3>1. Cut(t)[k] \in Seq(D) /\ Len(Cut(t)[k]) = End(t, k + 1) - End(t, k) - 1
      BY <2>5, CutIs
    <3>2. Len(Cut(t)[k]) = 0
      BY <3>1, <2>1, <2>3, <2>6
    <3> QED
      BY <3>1, <3>2
  <2> QED
    BY <1>1, <2>5, <2>7, <2>8
<1> QED
  BY <1>1, <1>2, <1>3

-----------------------------------------------------------------------------
(* Validation *)

Piece == STRING \cup {"/"}

Refused == {"..", "*"}

LEMMA SpaceIsAllowed == Space \notin Refused
BY Zenon DEF Space, Refused

LEMMA PiecesAre ==
  /\ "/" \in Piece
  /\ \A p \in Seq(STRING) : p \in Seq(Piece)
<1>1. STRING \subseteq Piece
  BY DEF Piece
<1>2. Seq(STRING) \subseteq Seq(Piece)
  BY <1>1, SeqMonotonic
<1> QED
  BY <1>2 DEF Piece

\* Trimming changes neither what is kept nor what is refused.
LEMMA SubmittedIs ==
  ASSUME NEW D, NEW p \in Seq(D), NEW side \in Sides
  PROVE  \E q \in Seq(D) :
           /\ q = Submitted(side, p) /\ Trim(q) = Trim(p) /\ Normalize(q) = Normalize(p)
           /\ (\A i \in 1..Len(q) : q[i] \notin Refused) <=> Refused \cap Range(p) = {}
<1>1. \A i \in 1..Len(p) : p[i] \in Range(p)
  BY DEF Range
<1>2. \A c \in Range(p) : \E i \in 1..Len(p) : c = p[i]
  BY DEF Range
<1>3. CASE Submitted(side, p) = p
  BY <1>1, <1>2, <1>3
<1>4. CASE Submitted(side, p) # p
  <2>1. PICK q \in Seq(D) :
          /\ q = Trim(p)
          /\ q = <<>> \/ (q[1] # Space /\ q[Len(q)] # Space)
          /\ \/ q = <<>> /\ \A i \in 1..Len(p) : p[i] = Space
             \/ q # <<>> /\ \E a, b \in Nat : IsTrim(p, q, a, b)
    BY TrimIs
  <2>2. q = Submitted(side, p)
    BY <1>4, <2>1 DEF Submitted
  <2>3. Trim(q) = q
    BY <2>1, TrimOfTrimmed
  <2>4. Normalize(q) = Normalize(p)
    BY Zenon, <2>1, <2>3 DEF Normalize
  <2>5. (\A i \in 1..Len(q) : q[i] \notin Refused) <=> Refused \cap Range(p) = {}
    <3>1. CASE q = <<>> /\ \A i \in 1..Len(p) : p[i] = Space
      BY <3>1, <1>2, SpaceIsAllowed
    <3>2. CASE q # <<>> /\ \E a, b \in Nat : IsTrim(p, q, a, b)
      <4>1. PICK a \in Nat, b \in Nat : IsTrim(p, q, a, b)
        BY <3>2
      <4>2. /\ a \in 1..Len(p) /\ b \in a..Len(p) /\ Len(q) = b - a + 1
            /\ \A i \in 1..(b - a + 1) : q[i] = p[a + i - 1]
            /\ \A i \in 1..(a - 1) : p[i] = Space
            /\ \A i \in (b + 1)..Len(p) : p[i] = Space
        BY <4>1 DEF IsTrim
      <4>3. ASSUME NEW i \in 1..Len(q) PROVE q[i] \in Range(p)
        <5>1. i \in 1..(b - a + 1) /\ a + i - 1 \in 1..Len(p)
          BY <4>2
        <5> QED
          BY <5>1, <4>2, <1>1
      <4>4. ASSUME NEW c \in Range(p), c \in Refused PROVE \E i \in 1..Len(q) : q[i] = c
        <5>1. PICK j \in 1..Len(p) : c = p[j]
          BY <1>2
        <5>2. p[j] # Space
          BY <4>4, <5>1, SpaceIsAllowed
        <5>3. j \in a..b
          <6>1. ~(j < a) /\ ~(j > b)
            <7>1. j < a => j \in 1..(a - 1)
              BY <4>2
            <7>2. j > b => j \in (b + 1)..Len(p)
              BY <4>2
            <7> QED
              BY <7>1, <7>2, <5>2, <4>2
          <6> QED
            BY <6>1, <4>2
        <5>4. j - a + 1 \in 1..(b - a + 1) /\ a + (j - a + 1) - 1 = j
          BY <5>3, <4>2
        <5>5. q[j - a + 1] = c
          BY <5>4, <5>1, <4>2
        <5> QED
          BY <5>4, <5>5, <4>2
      <4> QED
        BY <4>3, <4>4
    <3> QED
      BY <2>1, <3>1, <3>2
  <2> QED
    BY <2>1, <2>2, <2>3, <2>4, <2>5
<1> QED
  BY <1>3, <1>4

\* Validation refuses what is no path, before it is cut into segments.
LEMMA ValidationIs ==
  ASSUME NEW D, "/" \in D, NEW p \in Seq(D), p \in Paths, NEW side \in Sides
  PROVE  /\ WellFormed(Submitted(side, p)) <=> p \in Proper[side]
         /\ p \in Proper[side] => Rooted(Trim(p))
         /\ Normalize(Submitted(side, p)) = Normalize(p)
<1>1. PICK q \in Seq(D) :
        /\ q = Submitted(side, p) /\ Trim(q) = Trim(p) /\ Normalize(q) = Normalize(p)
        /\ (\A i \in 1..Len(q) : q[i] \notin Refused) <=> Refused \cap Range(p) = {}
  BY SubmittedIs
<1>2. PICK t \in Seq(D) :
        /\ t = Trim(q)
        /\ \/ t = <<>> /\ \A i \in 1..Len(q) : q[i] = Space
           \/ t # <<>> /\ \E a, b \in Nat : IsTrim(q, t, a, b)
  BY TrimIs
<1>3. WellFormed(q) <=>
        /\ q # <<>> /\ q[1] = "/"
        /\ \A i \in 1..Len(q) : q[i] \notin Refused
        /\ \A i \in 1..(Len(q) - 1) : ~(q[i] = "/" /\ q[i + 1] = "/")
  BY Zenon DEF WellFormed, Refused
<1>4. p \in Proper[side] <=>
        /\ q # <<>> /\ Head(q) = "/"
        /\ \A k \in 1..(Len(Cut(t)) - 1) : Cut(t)[k] # <<>>
        /\ Refused \cap Range(p) = {}
  BY Zenon, <1>1, <1>2 DEF Proper, Refused
<1>5. q # <<>> => Head(q) = q[1]
  OBVIOUS
<1>6. ASSUME q # <<>>, q[1] = "/"
      PROVE  /\ Rooted(t)
             /\ (\A i \in 1..(Len(q) - 1) : ~(q[i] = "/" /\ q[i + 1] = "/"))
                  <=> \A i \in 1..(Len(t) - 1) : ~(t[i] = "/" /\ t[i + 1] = "/")
  <2>1. 1 \in 1..Len(q) /\ q[1] # Space
    BY <1>6, SlashIsNoSpace
  <2>2. PICK a \in Nat, b \in Nat : IsTrim(q, t, a, b)
    BY <1>2, <2>1
  <2>3. /\ a \in 1..Len(q) /\ b \in a..Len(q) /\ Len(t) = b - a + 1
        /\ \A i \in 1..(b - a + 1) : t[i] = q[a + i - 1]
        /\ \A i \in 1..(a - 1) : q[i] = Space
        /\ \A i \in (b + 1)..Len(q) : q[i] = Space
    BY <2>2 DEF IsTrim
  <2>4. a = 1
    <3>1. a # 1 => 1 \in 1..(a - 1)
      BY <2>3
    <3> QED
      BY <3>1, <2>1, <2>3
  <2>5. b \in 1..Len(q) /\ Len(t) = b /\ \A i \in 1..b : t[i] = q[i]
    BY <2>3, <2>4
  <2>6. Rooted(t)
    BY <2>5, <1>6 DEF Rooted
  <2>7. ASSUME NEW i \in 1..(Len(q) - 1), q[i] = "/", q[i + 1] = "/"
        PROVE  i \in 1..(Len(t) - 1) /\ t[i] = "/" /\ t[i + 1] = "/"
    <3>1. q[i + 1] # Space /\ i + 1 \in 1..Len(q)
      BY <2>7, SlashIsNoSpace
    <3>2. ~(i + 1 > b)
      <4>1. i + 1 > b => i + 1 \in (b + 1)..Len(q)
        BY <2>5, <3>1
      <4> QED
        BY <4>1, <3>1, <2>3
    <3>3. i \in 1..(b - 1) /\ i \in 1..b /\ i + 1 \in 1..b
      BY <3>2, <2>5
    <3> QED
      BY <3>3, <2>5, <2>7
  <2>8. ASSUME NEW i \in 1..(Len(t) - 1)
        PROVE  i \in 1..(Len(q) - 1) /\ t[i] = q[i] /\ t[i + 1] = q[i + 1]
    <3>1. i \in 1..b /\ i + 1 \in 1..b /\ i \in 1..(Len(q) - 1)
      BY <2>5
    <3> QED
      BY <3>1, <2>5
  <2> QED
    BY <2>6, <2>7, <2>8
<1>7. ASSUME q # <<>>, q[1] = "/"
      PROVE  (\A i \in 1..(Len(q) - 1) : ~(q[i] = "/" /\ q[i + 1] = "/"))
               <=> \A k \in 1..(Len(Cut(t)) - 1) : Cut(t)[k] # <<>>
  <2>1. Rooted(t)
    BY <1>6, <1>7
  <2>2. (\A i \in 1..(Len(t) - 1) : ~(t[i] = "/" /\ t[i + 1] = "/"))
          <=> \A k \in 1..(Len(Cut(t)) - 1) : Cut(t)[k] # <<>>
    BY <2>1, NoEmptySegment
  <2> QED
    BY Zenon, <1>6, <1>7, <2>2
<1>8. WellFormed(q) <=> p \in Proper[side]
  BY Zenon, <1>1, <1>3, <1>4, <1>5, <1>7
<1>9. p \in Proper[side] => Rooted(Trim(p))
  BY Zenon, <1>1, <1>2, <1>4, <1>5, <1>6
<1> QED
  BY Zenon, <1>1, <1>8, <1>9

-----------------------------------------------------------------------------
(* What the tables hold *)

\* What the tables may hold.
StoredRules ==
  {Stored(x, Normalize(x.path)) :
     x \in {y \in RuleInputs : Rooted(Trim(y.path)) /\ Normalize(y.path) # Root}}
StoredPaths == {Normalize(p) : p \in {q \in CallbackInputs : Rooted(Trim(q))}}

StoredInv ==
  /\ rules \in [Routes -> SUBSET StoredRules]
  /\ allowlist \in [Routes -> SUBSET StoredPaths]

LEMMA SpelledIs ==
  ASSUME NEW p, p \in {x.path : x \in RuleInputs} \cup CallbackInputs
  PROVE  /\ p \in Seq(Piece) /\ p \in Paths /\ Normalize(p) \in Paths
         /\ Normalize(Normalize(p)) = Normalize(p)
<1>1. p \in Seq(STRING)
  BY InputsAssumption, CallbackInputsAssumption
<1>2. p \in Paths /\ Normalize(p) \in Paths
  BY Zenon DEF Paths
<1>3. Normalize(Normalize(p)) = Normalize(p)
  BY SpellingAssumption
<1> QED
  BY <1>1, <1>2, <1>3, PiecesAre

LEMMA RequestedIs ==
  ASSUME NEW p \in Requested
  PROVE  /\ p \in Seq(Piece) /\ p \in Paths /\ Trim(p) = p /\ Rooted(Trim(p))
         /\ Segments[p] = Segs(p)
<1>1. p \in Seq(STRING) /\ Space \notin Range(p) /\ (p = <<>> \/ p[1] = "/")
  BY Zenon, RequestedAssumption DEF Space
<1>2. p \in Seq(Piece)
  BY <1>1, PiecesAre
<1>3. Trim(p) = p
  <2>1. ASSUME p # <<>> PROVE p[1] # Space /\ p[Len(p)] # Space
    <3>1. 1 \in 1..Len(p) /\ Len(p) \in 1..Len(p)
      BY <1>2, <2>1
    <3>2. \A i \in 1..Len(p) : p[i] \in Range(p)
      BY <1>2 DEF Range
    <3> QED
      BY <1>1, <3>1, <3>2
  <2> QED
    BY <1>2, <2>1, TrimOfTrimmed
<1>4. Rooted(p)
  BY <1>1 DEF Rooted
<1>5. p \in Paths
  BY Zenon DEF Paths
<1> QED
  BY <1>2, <1>3, <1>4, <1>5, SegmentsAre

\* What is stored has the segments of what was spelled.
LEMMA StoredPathIs ==
  ASSUME NEW p, p \in {x.path : x \in RuleInputs} \cup CallbackInputs, Rooted(Trim(p))
  PROVE  /\ Kept(Piece, Normalize(p)) /\ Normalize(p) # NoPath
         /\ Segments[p] = Segs(p)
         /\ Segments[Normalize(p)] = Segs(Normalize(p))
         /\ Segments[Normalize(p)] = Segments[p]
         /\ Segments[p] = <<>> <=> Normalize(p) = Root
<1>1. /\ p \in Seq(Piece) /\ p \in Paths /\ Normalize(p) \in Paths
      /\ Normalize(Normalize(p)) = Normalize(p) /\ "/" \in Piece
  BY SpelledIs, PiecesAre
<1>2. Kept(Piece, Normalize(p))
  BY <1>1, NormalizeKeeps
<1>3. Normalize(p) \in Seq(Piece) /\ Normalize(p) # NoPath
  BY <1>2 DEF Kept, NoPath
<1>4. Rooted(Trim(Normalize(p)))
  BY <1>1, <1>2, KeptIs
<1>5. Segments[p] = Segs(p)
  BY <1>1, SegmentsAre
<1>6. Segments[Normalize(p)] = Segs(Normalize(p))
  BY <1>1, <1>3, <1>4, SegmentsAre
<1>7. Segs(Normalize(p)) = Segs(p)
  BY <1>1, KeptSegs
<1>8. Segs(p) = <<>> <=> Normalize(p) = Root
  BY <1>1, NoSegments
<1> QED
  BY <1>2, <1>3, <1>5, <1>6, <1>7, <1>8

LEMMA RuleIs ==
  ASSUME NEW x \in StoredRules
  PROVE  /\ Kept(Piece, x.path) /\ x.path # Root /\ x.path # NoPath
         /\ x.path \in {Normalize(y.path) : y \in RuleInputs}
         /\ Segments[x.path] = Segs(x.path)
         /\ x = [mode |-> x.mode, path |-> x.path, env |-> x.env]
<1>1. PICK y \in RuleInputs :
        Rooted(Trim(y.path)) /\ Normalize(y.path) # Root /\ x = Stored(y, Normalize(y.path))
  BY DEF StoredRules
<1>2. x.path = Normalize(y.path) /\ x = [mode |-> x.mode, path |-> x.path, env |-> x.env]
  BY <1>1 DEF Stored
<1>3. y.path \in {z.path : z \in RuleInputs} \cup CallbackInputs
  OBVIOUS
<1>4. /\ Kept(Piece, Normalize(y.path)) /\ Normalize(y.path) # NoPath
      /\ Segments[Normalize(y.path)] = Segs(Normalize(y.path))
  BY <1>1, <1>3, StoredPathIs
<1> QED
  BY <1>1, <1>2, <1>4

LEMMA CallbackIs ==
  ASSUME NEW q \in StoredPaths
  PROVE  Kept(Piece, q) /\ q # NoPath /\ Segments[q] = Segs(q)
<1>1. PICK p \in CallbackInputs : Rooted(Trim(p)) /\ q = Normalize(p)
  BY DEF StoredPaths
<1>2. p \in {z.path : z \in RuleInputs} \cup CallbackInputs
  OBVIOUS
<1> QED
  BY <1>1, <1>2, StoredPathIs

\* Two stored paths of the same segments are one.
LEMMA KeptSeparate ==
  ASSUME NEW p, NEW q, Kept(Piece, p), Kept(Piece, q), Segs(p) = Segs(q)
  PROVE  p = q
<1>1. p \in Seq(Piece) /\ q \in Seq(Piece) /\ "/" \in Piece
  BY PiecesAre DEF Kept
<1>2. Rooted(Trim(p)) /\ Rooted(Trim(q)) /\ Normalize(p) = p /\ Normalize(q) = q
  BY <1>1, KeptIs
<1> QED
  BY <1>1, <1>2, SegsSeparate

-----------------------------------------------------------------------------
(* What the edits store *)

\* validateWebhookFilterPath and validateOAuthCallbackPath, in segments.
LEMMA FilterPathIs ==
  ASSUME NEW x \in RuleInputs, NEW side \in Sides
  PROVE  /\ x.path \in Proper[side] => Rooted(Trim(x.path))
         /\ x.path \in Proper[side] /\ Segments[x.path] # <<>>
              => /\ FilterPath(Submitted(side, x.path)) = Normalize(x.path)
                 /\ Normalize(x.path) # Root
                 /\ Normalize(x.path) # NoPath
         /\ x.path \notin Proper[side] \/ Segments[x.path] = <<>>
              => FilterPath(Submitted(side, x.path)) = NoPath
<1>1. PICK p : p = x.path
  OBVIOUS
<1>2. p \in {z.path : z \in RuleInputs} \cup CallbackInputs
  BY <1>1
<1>3. p \in Seq(Piece) /\ p \in Paths /\ "/" \in Piece
  BY <1>2, SpelledIs, PiecesAre
<1>4. /\ WellFormed(Submitted(side, p)) <=> p \in Proper[side]
      /\ p \in Proper[side] => Rooted(Trim(p))
      /\ Normalize(Submitted(side, p)) = Normalize(p)
  BY <1>3, ValidationIs
<1>5. Rooted(Trim(p)) => Normalize(p) # NoPath /\ (Segments[p] = <<>> <=> Normalize(p) = Root)
  BY <1>2, StoredPathIs
<1>6. FilterPath(Submitted(side, p)) =
        IF WellFormed(Submitted(side, p)) /\ Normalize(p) # Root THEN Normalize(p) ELSE NoPath
  BY Zenon, <1>4 DEF FilterPath
<1> QED
  BY Zenon, <1>1, <1>4, <1>5, <1>6

LEMMA CallbackPathIs ==
  ASSUME NEW p \in CallbackInputs, NEW side \in Sides
  PROVE  /\ p \in Proper[side]
              => /\ Rooted(Trim(p)) /\ Normalize(p) # NoPath
                 /\ CallbackPath(Submitted(side, p)) = Normalize(p)
         /\ p \notin Proper[side] => CallbackPath(Submitted(side, p)) = NoPath
<1>1. p \in {z.path : z \in RuleInputs} \cup CallbackInputs
  OBVIOUS
<1>2. p \in Seq(Piece) /\ p \in Paths /\ "/" \in Piece
  BY <1>1, SpelledIs, PiecesAre
<1>3. /\ WellFormed(Submitted(side, p)) <=> p \in Proper[side]
      /\ p \in Proper[side] => Rooted(Trim(p))
      /\ Normalize(Submitted(side, p)) = Normalize(p)
  BY <1>2, ValidationIs
<1>4. Rooted(Trim(p)) => Normalize(p) # NoPath
  BY <1>1, StoredPathIs
<1>5. CallbackPath(Submitted(side, p)) =
        IF WellFormed(Submitted(side, p)) THEN Normalize(p) ELSE NoPath
  BY Zenon, <1>3 DEF CallbackPath
<1> QED
  BY Zenon, <1>3, <1>4, <1>5

LEMMA InitStored == SettingsInit => StoredInv
BY DEF SettingsInit, StoredInv

LEMMA NextStored == StoredInv /\ [SettingsNext]_settingsVars => StoredInv'
<1> SUFFICES ASSUME StoredInv, [SettingsNext]_settingsVars PROVE StoredInv'
  OBVIOUS
<1>1. ASSUME NEW route \in Routes, NEW x \in RuleInputs, NEW side \in Sides,
             UpsertRule(route, x, side)
      PROVE  StoredInv'
  <2>1. PICK path : path = FilterPath(Submitted(side, x.path))
    OBVIOUS
  <2>2. CASE UNCHANGED rules /\ UNCHANGED allowlist
    BY <2>2 DEF StoredInv
  <2>3. CASE /\ path # NoPath /\ UNCHANGED allowlist
             /\ rules' = [rules EXCEPT ![route] = @ \cup {Stored(x, path)}]
    <3>1. /\ Rooted(Trim(x.path)) /\ path = Normalize(x.path) /\ path # Root
      BY <2>1, <2>3, FilterPathIs
    <3>2. Stored(x, path) \in StoredRules
      BY <3>1 DEF StoredRules
    <3> QED
      BY <2>3, <3>2 DEF StoredInv
  <2> QED
    BY <1>1, <2>1, <2>2, <2>3 DEF UpsertRule
<1>2. ASSUME NEW route \in Routes, NEW x \in RuleInputs, NEW side \in Sides,
             DeleteRule(route, x, side)
      PROVE  StoredInv'
  <2>1. PICK rule : rule = Stored(x, FilterPath(Submitted(side, x.path)))
    OBVIOUS
  <2>2. rules' = [rules EXCEPT ![route] = @ \ {rule}] /\ UNCHANGED allowlist
    BY <1>2, <2>1 DEF DeleteRule
  <2> QED
    BY <2>2 DEF StoredInv
<1>3. ASSUME NEW route \in Routes, NEW p \in CallbackInputs, NEW side \in Sides,
             AddCallbackPath(route, p, side)
      PROVE  StoredInv'
  <2>1. PICK path : path = CallbackPath(Submitted(side, p))
    OBVIOUS
  <2>2. CASE path = NoPath
    BY <1>3, <2>1, <2>2 DEF AddCallbackPath, StoredInv
  <2>3. CASE path # NoPath
    <3>1. Rooted(Trim(p)) /\ path = Normalize(p)
      BY <2>1, <2>3, CallbackPathIs
    <3>2. path \in StoredPaths
      BY <3>1 DEF StoredPaths
    <3>3. allowlist' = [allowlist EXCEPT ![route] = @ \cup {path}] /\ UNCHANGED rules
      BY <1>3, <2>1, <2>3 DEF AddCallbackPath
    <3> QED
      BY <3>2, <3>3 DEF StoredInv
  <2> QED
    BY <2>2, <2>3
<1>4. ASSUME NEW route \in Routes, NEW p \in CallbackInputs, NEW side \in Sides,
             RemoveCallbackPath(route, p, side)
      PROVE  StoredInv'
  <2>1. PICK path : path = CallbackPath(Submitted(side, p))
    OBVIOUS
  <2>2. allowlist' = [allowlist EXCEPT ![route] = @ \ {path}] /\ UNCHANGED rules
    BY <1>4, <2>1 DEF RemoveCallbackPath
  <2> QED
    BY <2>2 DEF StoredInv
<1>5. ASSUME NEW route \in Routes, NEW on \in BOOLEAN, SetDenyAll(route, on) PROVE StoredInv'
  BY <1>5 DEF SetDenyAll, StoredInv
<1>6. CASE ClearFanout
  BY <1>6 DEF ClearFanout, StoredInv
<1>7. CASE UNCHANGED settingsVars
  BY <1>7 DEF settingsVars, StoredInv
<1> QED
  BY <1>1, <1>2, <1>3, <1>4, <1>5, <1>6, <1>7 DEF SettingsNext

-----------------------------------------------------------------------------
(* Selection *)

\* The rules in force for a subscriber, as the policy has them.
LEMMA ApplicableIs ==
  ASSUME NEW r \in Routes, NEW env, NEW mode
  PROVE  Policy!Of(r, env, mode) = {AsPolicy(x, x.path) : x \in Applicable(r, env, mode)}
BY DEF Policy!Of, Policy!Applies, Applicable, AsPolicy

LEMMA MatchIs ==
  ASSUME NEW x \in StoredRules, NEW p \in Requested
  PROVE  p \in Subtree[x.path] <=> IsPrefix(AsPolicy(x, x.path).under, Segments[p])
<1>1. p \in Seq(Piece) /\ Rooted(Trim(p)) /\ Segments[p] = Segs(p) /\ "/" \in Piece
  BY RequestedIs, PiecesAre
<1>2. PICK q : q = x.path
  OBVIOUS
<1>3. /\ Kept(Piece, q) /\ q # Root /\ Segments[q] = Segs(q)
      /\ q \in {Normalize(y.path) : y \in RuleInputs}
  BY <1>2, RuleIs
<1>4. Under(p, q) <=> IsPrefix(Segs(q), Segs(p))
  BY <1>1, <1>3, UnderIsPrefix
<1>5. p \in Subtree[q] <=> Under(p, q)
  BY <1>3 DEF Subtree
<1>6. AsPolicy(x, x.path).under = Segs(q)
  BY <1>2, <1>3 DEF AsPolicy
<1> QED
  BY <1>1, <1>2, <1>4, <1>5, <1>6

LEMMA SelectedIs ==
  ASSUME StoredInv, NEW r \in Routes, NEW env, NEW p \in Requested
  PROVE  Selected(r, env, p) <=> Policy!Gets(r, env, Segments[p])
<1> DEFINE A(mode) == Applicable(r, env, mode)
           P(mode) == Policy!Of(r, env, mode)
<1>1. \A mode : A(mode) \subseteq StoredRules
  BY DEF Applicable, StoredInv
<1>2. \A mode : P(mode) = {AsPolicy(x, x.path) : x \in A(mode)}
  BY ApplicableIs
<1>3. \A x \in StoredRules :
        p \in Subtree[x.path] <=> IsPrefix(AsPolicy(x, x.path).under, Segments[p])
  BY MatchIs
<1>4. Selected(r, env, p) <=>
        /\ r \notin denyAll
        /\ A("allow") = {} \/ \E x \in A("allow") : p \in Subtree[x.path]
        /\ \A x \in A("deny") : p \notin Subtree[x.path]
  BY DEF Selected
<1>5. Policy!Gets(r, env, Segments[p]) <=>
        /\ r \notin denyAll
        /\ P("allow") = {} \/ \E z \in P("allow") : IsPrefix(z.under, Segments[p])
        /\ \A z \in P("deny") : ~IsPrefix(z.under, Segments[p])
  BY Zenon DEF Policy!Gets, Policy!IsPrefix, IsPrefix
<1> HIDE DEF A, P
<1>6. A("allow") = {} <=> P("allow") = {}
  BY <1>2
<1>7. (\E x \in A("allow") : p \in Subtree[x.path])
        <=> \E z \in P("allow") : IsPrefix(z.under, Segments[p])
  BY <1>1, <1>2, <1>3
<1>8. (\A x \in A("deny") : p \notin Subtree[x.path])
        <=> \A z \in P("deny") : ~IsPrefix(z.under, Segments[p])
  BY <1>1, <1>2, <1>3
<1> QED
  BY <1>4, <1>5, <1>6, <1>7, <1>8

LEMMA AllowlistedIs ==
  ASSUME StoredInv, NEW r \in Routes, NEW p \in Requested
  PROVE  Allowlisted(r, p) <=> Policy!TakesCallback(r, Segments[p])
<1>1. p \in Seq(Piece) /\ Rooted(Trim(p)) /\ Segments[p] = Segs(p) /\ "/" \in Piece
  BY RequestedIs, PiecesAre
<1>2. ASSUME NEW q \in allowlist[r]
      PROVE  Normalize(q) = Normalize(p) <=> Segments[q] = Segments[p]
  <2>1. q \in StoredPaths
    BY DEF StoredInv
  <2>2. Kept(Piece, q) /\ Segments[q] = Segs(q)
    BY <2>1, CallbackIs
  <2>3. q \in Seq(Piece) /\ Rooted(Trim(q))
    BY <1>1, <2>2, KeptIs DEF Kept
  <2> QED
    BY <1>1, <2>2, <2>3, SegsSeparate
<1>3. Policy!TakesCallback(r, Segments[p]) <=> \E q \in allowlist[r] : Segments[q] = Segments[p]
  BY DEF Policy!TakesCallback
<1> QED
  BY <1>2, <1>3 DEF Allowlisted

LEMMA StoredSelects == StoredInv => SelectionIsPolicy
<1> SUFFICES ASSUME StoredInv, NEW r \in Routes, NEW p \in Requested
             PROVE  /\ \A env \in Environments \cup {Everyone} :
                         Selected(r, env, p) = Policy!Gets(r, env, Segments[p])
                    /\ Allowlisted(r, p) = Policy!TakesCallback(r, Segments[p])
  BY DEF SelectionIsPolicy
<1>1. ASSUME NEW env PROVE Selected(r, env, p) = Policy!Gets(r, env, Segments[p])
  <2>1. Selected(r, env, p) <=> Policy!Gets(r, env, Segments[p])
    BY SelectedIs
  <2> QED
    BY <2>1 DEF Selected, Policy!Gets
<1>2. Allowlisted(r, p) = Policy!TakesCallback(r, Segments[p])
  <2>1. Allowlisted(r, p) <=> Policy!TakesCallback(r, Segments[p])
    BY AllowlistedIs
  <2>2. Allowlisted(r, p) \in BOOLEAN
    BY DEF Allowlisted
  <2>3. Policy!TakesCallback(r, Segments[p]) \in BOOLEAN
    BY DEF Policy!TakesCallback
  <2> QED
    BY <2>1, <2>2, <2>3
<1> QED
  BY <1>1, <1>2

LEMMA StoredHolds == SettingsSpec => []StoredInv
BY InitStored, NextStored, PTL DEF SettingsSpec

\* Whatever rules and callback paths were stored, of any spelling, a public
\* request selects the subscribers and callbacks that the policy names for its
\* segments (selectWebhookFanoutSubscribers, isAllowlistedOAuthCallbackPath).
THEOREM SelectionHolds == SettingsSpec => []SelectionIsPolicy
BY StoredHolds, StoredSelects, PTL

-----------------------------------------------------------------------------
(* Rules of the tables and rules of the policy *)

\* Rules and callback paths as the policy has them.
PolicyOf(S) == {AsPolicy(x, x.path) : x \in S}
SegmentsOf(S) == {Segments[p] : p \in S}

LEMMA RulesSeparate ==
  ASSUME NEW x \in StoredRules, NEW y \in StoredRules, AsPolicy(x, x.path) = AsPolicy(y, y.path)
  PROVE  x = y
<1>1. Kept(Piece, x.path) /\ Segments[x.path] = Segs(x.path)
      /\ x = [mode |-> x.mode, path |-> x.path, env |-> x.env]
  BY RuleIs
<1>2. Kept(Piece, y.path) /\ Segments[y.path] = Segs(y.path)
      /\ y = [mode |-> y.mode, path |-> y.path, env |-> y.env]
  BY RuleIs
<1>3. x.mode = y.mode /\ x.env = y.env /\ Segments[x.path] = Segments[y.path]
  BY DEF AsPolicy
<1>4. x.path = y.path
  BY <1>1, <1>2, <1>3, KeptSeparate
<1> QED
  BY <1>1, <1>2, <1>3, <1>4

LEMMA PathsSeparate ==
  ASSUME NEW p \in StoredPaths, NEW q \in StoredPaths, Segments[p] = Segments[q]
  PROVE  p = q
BY CallbackIs, KeptSeparate

\* A set of rules has as many rules in the policy.
LEMMA PolicyCounts ==
  ASSUME NEW S, S \subseteq StoredRules, IsFiniteSet(S)
  PROVE  Cardinality(PolicyOf(S)) = Cardinality(S)
<1> DEFINE f == [x \in S |-> AsPolicy(x, x.path)]
<1>1. f \in [S -> PolicyOf(S)]
  BY DEF PolicyOf
<1>2. \A z \in PolicyOf(S) : \E x \in S : f[x] = z
  BY DEF PolicyOf
<1>3. \A x, y \in S : f[x] = f[y] => x = y
  BY RulesSeparate
<1> HIDE DEF f
<1>4. f \in Bijection(S, PolicyOf(S))
  <2>1. f \in Injection(S, PolicyOf(S))
    BY <1>1, <1>3 DEF Injection, IsInjective
  <2>2. f \in Surjection(S, PolicyOf(S))
    BY <1>1, <1>2 DEF Surjection
  <2> QED
    BY <2>1, <2>2 DEF Bijection
<1> QED
  BY <1>4, FS_Bijection DEF ExistsBijection

LEMMA PolicyMembers ==
  ASSUME NEW S, S \subseteq StoredRules, NEW x \in StoredRules
  PROVE  /\ AsPolicy(x, x.path) \in PolicyOf(S) <=> x \in S
         /\ PolicyOf(S \cup {x}) = PolicyOf(S) \cup {AsPolicy(x, x.path)}
         /\ PolicyOf(S \ {x}) = PolicyOf(S) \ {AsPolicy(x, x.path)}
<1>1. \A y \in S : AsPolicy(x, x.path) = AsPolicy(y, y.path) => x = y
  BY RulesSeparate
<1> QED
  BY <1>1 DEF PolicyOf

LEMMA PathMembers ==
  ASSUME NEW S, S \subseteq StoredPaths, NEW q \in StoredPaths
  PROVE  /\ Segments[q] \in SegmentsOf(S) <=> q \in S
         /\ SegmentsOf(S \cup {q}) = SegmentsOf(S) \cup {Segments[q]}
         /\ SegmentsOf(S \ {q}) = SegmentsOf(S) \ {Segments[q]}
<1>1. \A p \in S : Segments[q] = Segments[p] => q = p
  BY PathsSeparate
<1> QED
  BY <1>1 DEF SegmentsOf

-----------------------------------------------------------------------------
(* Each edit is a request of the policy *)

Reply(side, told) == IF side = "dashboard" THEN "redirect" ELSE told

LEMMA RuleRequestIs ==
  ASSUME NEW op \in {"add", "remove"}, NEW route, NEW x, NEW side \in Sides,
         NEW told \in {"ok", "limit", "invalid", "not_found"},
         Answered(op, route, x, side, told)
  PROVE  AsRequest' = IF x.path \notin Proper[side] \/ Segments[x.path] = <<>>
                      THEN [op |-> "invalid", told |-> Reply(side, told)]
                      ELSE [op |-> op, route |-> route, told |-> Reply(side, told),
                            rule |-> AsPolicy(x, x.path)]
<1>1. /\ answer'.op = op /\ answer'.route = route /\ answer'.input = x
      /\ answer'.told = Reply(side, told)
  BY DEF Answered, Reply
<1>2. (IF answer'.told = "redirect" THEN "dashboard" ELSE "api") = side
  BY <1>1 DEF Reply, Sides
<1>3. op # "none"
  OBVIOUS
<1> QED
  BY <1>1, <1>2, <1>3 DEF AsRequest

LEMMA PathRequestIs ==
  ASSUME NEW op \in {"register", "unregister"}, NEW route, NEW p, NEW side \in Sides,
         NEW told \in {"ok", "limit", "invalid", "not_found"},
         Answered(op, route, p, side, told)
  PROVE  AsRequest' = IF p \notin Proper[side]
                      THEN [op |-> "invalid", told |-> Reply(side, told)]
                      ELSE [op |-> op, route |-> route, told |-> Reply(side, told),
                            path |-> Segments[p]]
<1>1. /\ answer'.op = op /\ answer'.route = route /\ answer'.input = p
      /\ answer'.told = Reply(side, told)
  BY DEF Answered, Reply
<1>2. (IF answer'.told = "redirect" THEN "dashboard" ELSE "api") = side
  BY <1>1 DEF Reply, Sides
<1>3. op # "none" /\ op \notin {"add", "remove"}
  OBVIOUS
<1> QED
  BY <1>1, <1>2, <1>3 DEF AsRequest

Pol == [r \in Routes |-> PolicyOf(rules[r])]
Call == [r \in Routes |-> SegmentsOf(allowlist[r])]

LEMMA PolicyCardinality == \A S : Policy!Cardinality(S) = Cardinality(S)
BY Zenon DEF Policy!Cardinality, Cardinality

\* The actions of the policy, on what the tables hold.
LEMMA PolicySteps ==
  /\ Policy!AddRule <=>
       /\ AsRequest'.op = "add" /\ AsRequest'.told \in {"ok", "redirect"}
       /\ AsRequest'.rule \in Pol[AsRequest'.route] \/ Cardinality(Pol[AsRequest'.route]) < Limit
       /\ Pol' = [Pol EXCEPT ![AsRequest'.route] = @ \cup {AsRequest'.rule}]
       /\ UNCHANGED <<denyAll, Call>>
  /\ Policy!RefuseRule <=>
       /\ AsRequest'.op = "add" /\ AsRequest'.told \in {"limit", "redirect"}
       /\ AsRequest'.rule \notin Pol[AsRequest'.route]
       /\ Cardinality(Pol[AsRequest'.route]) >= Limit
       /\ UNCHANGED <<Pol, denyAll, Call>>
  /\ Policy!RemoveRule <=>
       /\ AsRequest'.op = "remove"
       /\ AsRequest'.told \in {IF AsRequest'.rule \in Pol[AsRequest'.route]
                               THEN "ok" ELSE "not_found", "redirect"}
       /\ Pol' = [Pol EXCEPT ![AsRequest'.route] = @ \ {AsRequest'.rule}]
       /\ UNCHANGED <<denyAll, Call>>
  /\ Policy!Register <=>
       /\ AsRequest'.op = "register" /\ AsRequest'.told \in {"ok", "redirect"}
       /\ Call' = [Call EXCEPT ![AsRequest'.route] = @ \cup {AsRequest'.path}]
       /\ UNCHANGED <<Pol, denyAll>>
  /\ Policy!Unregister <=>
       /\ AsRequest'.op = "unregister"
       /\ AsRequest'.told \in {IF AsRequest'.path \in Call[AsRequest'.route]
                               THEN "ok" ELSE "not_found", "redirect"}
       /\ Call' = [Call EXCEPT ![AsRequest'.route] = @ \ {AsRequest'.path}]
       /\ UNCHANGED <<Pol, denyAll>>
  /\ Policy!Reject <=> AsRequest'.op = "invalid" /\ UNCHANGED <<Pol, denyAll, Call>>
<1> USE DEF Pol, Call, PolicyOf, SegmentsOf
<1> USE DEF Policy!Told
<1>1. Policy!AddRule <=>
        /\ AsRequest'.op = "add" /\ AsRequest'.told \in {"ok", "redirect"}
        /\ AsRequest'.rule \in Pol[AsRequest'.route] \/ Cardinality(Pol[AsRequest'.route]) < Limit
        /\ Pol' = [Pol EXCEPT ![AsRequest'.route] = @ \cup {AsRequest'.rule}]
        /\ UNCHANGED <<denyAll, Call>>
  BY PolicyCardinality DEF Policy!AddRule
<1>2. Policy!RefuseRule <=>
        /\ AsRequest'.op = "add" /\ AsRequest'.told \in {"limit", "redirect"}
        /\ AsRequest'.rule \notin Pol[AsRequest'.route]
        /\ Cardinality(Pol[AsRequest'.route]) >= Limit
        /\ UNCHANGED <<Pol, denyAll, Call>>
  BY PolicyCardinality DEF Policy!RefuseRule
<1>3. Policy!RemoveRule <=>
        /\ AsRequest'.op = "remove"
        /\ AsRequest'.told \in {IF AsRequest'.rule \in Pol[AsRequest'.route]
                                THEN "ok" ELSE "not_found", "redirect"}
        /\ Pol' = [Pol EXCEPT ![AsRequest'.route] = @ \ {AsRequest'.rule}]
        /\ UNCHANGED <<denyAll, Call>>
  BY DEF Policy!RemoveRule
<1>4. Policy!Register <=>
        /\ AsRequest'.op = "register" /\ AsRequest'.told \in {"ok", "redirect"}
        /\ Call' = [Call EXCEPT ![AsRequest'.route] = @ \cup {AsRequest'.path}]
        /\ UNCHANGED <<Pol, denyAll>>
  BY DEF Policy!Register
<1>5. Policy!Unregister <=>
        /\ AsRequest'.op = "unregister"
        /\ AsRequest'.told \in {IF AsRequest'.path \in Call[AsRequest'.route]
                                THEN "ok" ELSE "not_found", "redirect"}
        /\ Call' = [Call EXCEPT ![AsRequest'.route] = @ \ {AsRequest'.path}]
        /\ UNCHANGED <<Pol, denyAll>>
  BY DEF Policy!Unregister
<1>6. Policy!Reject <=> AsRequest'.op = "invalid" /\ UNCHANGED <<Pol, denyAll, Call>>
  BY DEF Policy!Reject
<1> QED
  BY Zenon, <1>1, <1>2, <1>3, <1>4, <1>5, <1>6

-----------------------------------------------------------------------------
(* Edits of the tables and requests of the policy *)

LEMMA PolicyShape ==
  ASSUME StoredInv, LimitInv, NEW r \in Routes
  PROVE  /\ rules[r] \subseteq StoredRules /\ allowlist[r] \subseteq StoredPaths
         /\ Pol[r] = PolicyOf(rules[r]) /\ Call[r] = SegmentsOf(allowlist[r])
         /\ Cardinality(Pol[r]) = Cardinality(rules[r]) /\ Cardinality(rules[r]) \in Nat
<1>1. rules[r] \subseteq StoredRules /\ allowlist[r] \subseteq StoredPaths
  BY DEF StoredInv
<1>2. IsFiniteSet(rules[r])
  BY DEF LimitInv, RulesWithinLimit
<1>3. Pol[r] = PolicyOf(rules[r]) /\ Call[r] = SegmentsOf(allowlist[r])
  BY DEF Pol, Call
<1> QED
  BY <1>1, <1>2, <1>3, PolicyCounts, FS_CardinalityType

\* What an edit of one route's rules or paths does to the policy.
LEMMA RulesChange ==
  ASSUME StoredInv, NEW r \in Routes, NEW S, rules' = [rules EXCEPT ![r] = S]
  PROVE  Pol' = [Pol EXCEPT ![r] = PolicyOf(S)]
BY DEF Pol, StoredInv

LEMMA PathsChange ==
  ASSUME StoredInv, NEW r \in Routes, NEW S, allowlist' = [allowlist EXCEPT ![r] = S]
  PROVE  Call' = [Call EXCEPT ![r] = SegmentsOf(S)]
BY DEF Call, StoredInv

LEMMA UpsertRuleIsRequest ==
  ASSUME StoredInv, LimitInv, NEW r \in Routes, NEW x \in RuleInputs, NEW side \in Sides,
         UpsertRule(r, x, side)
  PROVE  Policy!AddRule \/ Policy!RefuseRule \/ Policy!Reject
<1>1. PICK path, rule : /\ path = FilterPath(Submitted(side, x.path))
                        /\ rule = Stored(x, path)
  OBVIOUS
<1>2. /\ x.path \in Proper[side] /\ Segments[x.path] # <<>>
           => path = Normalize(x.path) /\ Rooted(Trim(x.path)) /\ path # Root /\ path # NoPath
      /\ x.path \notin Proper[side] \/ Segments[x.path] = <<>> => path = NoPath
  BY <1>1, FilterPathIs
<1>3. UNCHANGED denyAll /\ UNCHANGED Call
  BY DEF UpsertRule, Call
<1>4. CASE path = NoPath /\ UNCHANGED rules /\ Answered("add", r, x, side, "invalid")
  <2>1. x.path \notin Proper[side] \/ Segments[x.path] = <<>>
    BY <1>2, <1>4
  <2>2. AsRequest' = [op |-> "invalid", told |-> Reply(side, "invalid")]
    BY <1>4, <2>1, RuleRequestIs
  <2>3. UNCHANGED Pol
    BY <1>4 DEF Pol
  <2>4. AsRequest'.op = "invalid"
    BY <2>2
  <2> QED
    BY <1>3, <2>3, <2>4, PolicySteps
<1>5. ASSUME path # NoPath
      PROVE  /\ rule \in StoredRules /\ AsPolicy(rule, rule.path) = AsPolicy(x, x.path)
             /\ x.path \in Proper[side] /\ Segments[x.path] # <<>>
  <2>1. /\ x.path \in Proper[side] /\ Segments[x.path] # <<>>
        /\ path = Normalize(x.path) /\ Rooted(Trim(x.path)) /\ path # Root
    BY <1>2, <1>5
  <2>2. rule \in StoredRules
    BY <1>1, <2>1 DEF StoredRules
  <2>3. Segments[path] = Segments[x.path]
    <3>1. x.path \in {z.path : z \in RuleInputs} \cup CallbackInputs
      OBVIOUS
    <3> QED
      BY <2>1, <3>1, StoredPathIs
  <2>4. rule.mode = x.mode /\ rule.env = x.env /\ rule.path = path
    BY <1>1 DEF Stored
  <2> QED
    BY <2>1, <2>2, <2>3, <2>4 DEF AsPolicy
<1>6. /\ rules[r] \subseteq StoredRules /\ Pol[r] = PolicyOf(rules[r])
      /\ Cardinality(Pol[r]) = Cardinality(rules[r]) /\ Cardinality(rules[r]) \in Nat
  BY PolicyShape
<1>7. CASE path # NoPath /\ Full(r, rule) /\ UNCHANGED rules /\ Answered("add", r, x, side, "limit")
  <2>1. AsRequest' = [op |-> "add", route |-> r, told |-> Reply(side, "limit"),
                      rule |-> AsPolicy(x, x.path)]
    BY <1>5, <1>7, RuleRequestIs
  <2>2. /\ AsRequest'.op = "add" /\ AsRequest'.route = r /\ AsRequest'.told \in {"limit", "redirect"}
        /\ AsRequest'.rule = AsPolicy(x, x.path)
    BY <2>1 DEF Reply
  <2>3. AsPolicy(x, x.path) \notin Pol[r] /\ Cardinality(Pol[r]) >= Limit
    <3>1. rule \notin rules[r] /\ Cardinality(rules[r]) >= Limit
      BY <1>7 DEF Full
    <3>2. AsPolicy(rule, rule.path) \in PolicyOf(rules[r]) <=> rule \in rules[r]
      BY <1>5, <1>6, <1>7, PolicyMembers
    <3> QED
      BY <1>5, <1>6, <1>7, <3>1, <3>2
  <2>4. UNCHANGED Pol
    BY <1>7 DEF Pol
  <2>5. Policy!RefuseRule
    BY <1>3, <2>2, <2>3, <2>4, PolicySteps
  <2> QED
    BY <2>5
<1>8. CASE /\ path # NoPath /\ ~Full(r, rule)
           /\ rules' = [rules EXCEPT ![r] = @ \cup {rule}]
           /\ Answered("add", r, x, side, "ok")
  <2>1. AsRequest' = [op |-> "add", route |-> r, told |-> Reply(side, "ok"),
                      rule |-> AsPolicy(x, x.path)]
    BY <1>5, <1>8, RuleRequestIs
  <2>2. /\ AsRequest'.op = "add" /\ AsRequest'.route = r /\ AsRequest'.told \in {"ok", "redirect"}
        /\ AsRequest'.rule = AsPolicy(x, x.path)
    BY <2>1 DEF Reply
  <2>3. /\ AsPolicy(x, x.path) \in Pol[r] <=> rule \in rules[r]
        /\ PolicyOf(rules[r] \cup {rule}) = Pol[r] \cup {AsPolicy(x, x.path)}
    <3>1. /\ AsPolicy(rule, rule.path) \in PolicyOf(rules[r]) <=> rule \in rules[r]
          /\ PolicyOf(rules[r] \cup {rule}) = PolicyOf(rules[r]) \cup {AsPolicy(rule, rule.path)}
      BY <1>5, <1>6, <1>8, PolicyMembers
    <3> QED
      BY <1>5, <1>6, <1>8, <3>1
  <2>4. AsPolicy(x, x.path) \in Pol[r] \/ Cardinality(Pol[r]) < Limit
    <3>1. rule \in rules[r] \/ Cardinality(rules[r]) < Limit
      BY <1>6, <1>8, LimitAssumption DEF Full
    <3> QED
      BY <1>6, <2>3, <3>1
  <2>5. Pol' = [Pol EXCEPT ![r] = @ \cup {AsPolicy(x, x.path)}]
    <3>1. PICK S : S = rules[r] \cup {rule} /\ rules' = [rules EXCEPT ![r] = S]
      BY <1>8
    <3>2. Pol' = [Pol EXCEPT ![r] = PolicyOf(S)]
      BY <3>1, RulesChange
    <3> QED
      BY <2>3, <3>1, <3>2
  <2>6. Policy!AddRule
    BY <1>3, <2>2, <2>4, <2>5, PolicySteps
  <2> QED
    BY <2>6
<1> QED
  BY <1>1, <1>4, <1>7, <1>8 DEF UpsertRule

LEMMA DeleteRuleIsRequest ==
  ASSUME StoredInv, LimitInv, NEW r \in Routes, NEW x \in RuleInputs, NEW side \in Sides,
         DeleteRule(r, x, side)
  PROVE  Policy!RemoveRule \/ Policy!Reject
<1>1. PICK path, rule : /\ path = FilterPath(Submitted(side, x.path))
                        /\ rule = Stored(x, path)
  OBVIOUS
<1>2. /\ x.path \in Proper[side] /\ Segments[x.path] # <<>>
           => path = Normalize(x.path) /\ Rooted(Trim(x.path)) /\ path # Root /\ path # NoPath
      /\ x.path \notin Proper[side] \/ Segments[x.path] = <<>> => path = NoPath
  BY <1>1, FilterPathIs
<1>3. PICK told \in {"ok", "not_found"} :
        /\ told = IF rule \in rules[r] THEN "ok" ELSE "not_found"
        /\ Answered("remove", r, x, side, told)
  BY <1>1 DEF DeleteRule
<1>4. PICK S : S = rules[r] \ {rule} /\ rules' = [rules EXCEPT ![r] = S]
  BY <1>1 DEF DeleteRule
<1>5. UNCHANGED denyAll /\ UNCHANGED Call
  BY DEF DeleteRule, Call
<1>6. rules[r] \subseteq StoredRules /\ Pol[r] = PolicyOf(rules[r])
  BY PolicyShape
<1>7. Pol' = [Pol EXCEPT ![r] = PolicyOf(S)]
  BY <1>4, RulesChange
<1>8. rule.mode = x.mode /\ rule.env = x.env /\ rule.path = path
  BY <1>1 DEF Stored
<1>9. CASE x.path \notin Proper[side] \/ Segments[x.path] = <<>>
  <2>1. AsRequest' = [op |-> "invalid", told |-> Reply(side, told)]
    BY <1>3, <1>9, RuleRequestIs
  <2>2. AsRequest'.op = "invalid"
    BY <2>1
  <2>3. rule \notin rules[r]
    BY <1>2, <1>6, <1>8, <1>9, RuleIs
  <2>4. UNCHANGED Pol
    <3>1. S = rules[r]
      BY <1>4, <2>3
    <3> QED
      BY <1>6, <1>7, <3>1 DEF Pol
  <2> QED
    BY <1>5, <2>2, <2>4, PolicySteps
<1>10. CASE x.path \in Proper[side] /\ Segments[x.path] # <<>>
  <2>1. rule \in StoredRules
    BY <1>1, <1>2, <1>10 DEF StoredRules
  <2>2. AsPolicy(rule, rule.path) = AsPolicy(x, x.path)
    <3>1. x.path \in {z.path : z \in RuleInputs} \cup CallbackInputs
      OBVIOUS
    <3>2. Segments[path] = Segments[x.path]
      BY <1>2, <1>10, <3>1, StoredPathIs
    <3> QED
      BY <1>8, <3>2 DEF AsPolicy
  <2>3. AsRequest' = [op |-> "remove", route |-> r, told |-> Reply(side, told),
                      rule |-> AsPolicy(x, x.path)]
    BY <1>3, <1>10, RuleRequestIs
  <2>4. /\ AsPolicy(x, x.path) \in Pol[r] <=> rule \in rules[r]
        /\ PolicyOf(S) = Pol[r] \ {AsPolicy(x, x.path)}
    <3>1. /\ AsPolicy(rule, rule.path) \in PolicyOf(rules[r]) <=> rule \in rules[r]
          /\ PolicyOf(rules[r] \ {rule}) = PolicyOf(rules[r]) \ {AsPolicy(rule, rule.path)}
      BY <1>6, <2>1, PolicyMembers
    <3> QED
      BY <1>4, <1>6, <2>2, <3>1
  <2>5. /\ AsRequest'.op = "remove" /\ AsRequest'.route = r
        /\ AsRequest'.rule = AsPolicy(x, x.path) /\ AsRequest'.told \in {told, "redirect"}
    BY <2>3 DEF Reply
  <2>6. AsRequest'.told \in {IF AsPolicy(x, x.path) \in Pol[r] THEN "ok" ELSE "not_found", "redirect"}
    BY <1>3, <2>4, <2>5
  <2>7. Pol' = [Pol EXCEPT ![r] = @ \ {AsPolicy(x, x.path)}]
    BY <1>7, <2>4
  <2>8. Policy!RemoveRule
    BY <1>5, <2>5, <2>6, <2>7, PolicySteps
  <2> QED
    BY <2>8
<1> QED
  BY <1>9, <1>10

LEMMA CallbackEditIsRequest ==
  ASSUME StoredInv, LimitInv, NEW r \in Routes, NEW p \in CallbackInputs, NEW side \in Sides
  PROVE  /\ AddCallbackPath(r, p, side) => Policy!Register \/ Policy!Reject
         /\ RemoveCallbackPath(r, p, side) => Policy!Unregister \/ Policy!Reject
<1>1. PICK path : path = CallbackPath(Submitted(side, p))
  OBVIOUS
<1>2. /\ p \in Proper[side]
           => /\ path = Normalize(p) /\ path \in StoredPaths /\ path # NoPath
              /\ Segments[path] = Segments[p]
      /\ p \notin Proper[side] => path = NoPath
  <2>1. p \in {z.path : z \in RuleInputs} \cup CallbackInputs
    OBVIOUS
  <2>2. ASSUME p \in Proper[side]
        PROVE  path = Normalize(p) /\ path # NoPath /\ Rooted(Trim(p))
    BY <1>1, <2>2, CallbackPathIs
  <2>3. Rooted(Trim(p)) => Normalize(p) \in StoredPaths /\ Segments[Normalize(p)] = Segments[p]
    BY <2>1, StoredPathIs DEF StoredPaths
  <2>4. p \notin Proper[side] => path = NoPath
    BY <1>1, CallbackPathIs
  <2> QED
    BY <2>2, <2>3, <2>4
<1>3. allowlist[r] \subseteq StoredPaths /\ Call[r] = SegmentsOf(allowlist[r])
  BY PolicyShape
<1>4. p \in Proper[side] =>
        /\ Segments[p] \in Call[r] <=> path \in allowlist[r]
        /\ SegmentsOf(allowlist[r] \cup {path}) = Call[r] \cup {Segments[p]}
        /\ SegmentsOf(allowlist[r] \ {path}) = Call[r] \ {Segments[p]}
  BY <1>2, <1>3, PathMembers
<1>5. ASSUME AddCallbackPath(r, p, side) PROVE Policy!Register \/ Policy!Reject
  <2>1. UNCHANGED denyAll /\ UNCHANGED Pol
    BY <1>5 DEF AddCallbackPath, Pol
  <2>2. CASE p \in Proper[side]
    <3>1. PICK S : S = allowlist[r] \cup {path} /\ allowlist' = [allowlist EXCEPT ![r] = S]
      BY <1>1, <1>2, <1>5, <2>2 DEF AddCallbackPath
    <3>2. Answered("register", r, p, side, "ok")
      BY <1>1, <1>2, <1>5, <2>2 DEF AddCallbackPath
    <3>3. AsRequest' = [op |-> "register", route |-> r, told |-> Reply(side, "ok"),
                        path |-> Segments[p]]
      BY <2>2, <3>2, PathRequestIs
    <3>4. /\ AsRequest'.op = "register" /\ AsRequest'.route = r
          /\ AsRequest'.path = Segments[p] /\ AsRequest'.told \in {"ok", "redirect"}
      BY <3>3 DEF Reply
    <3>5. Call' = [Call EXCEPT ![r] = @ \cup {Segments[p]}]
      BY <1>4, <2>2, <3>1, PathsChange
    <3>6. Policy!Register
      BY <2>1, <3>4, <3>5, PolicySteps
    <3> QED
      BY <3>6
  <2>3. CASE p \notin Proper[side]
    <3>1. path = NoPath
      BY <1>2, <2>3
    <3>2. Answered("register", r, p, side, "invalid") /\ UNCHANGED allowlist
      BY <1>1, <1>5, <3>1 DEF AddCallbackPath
    <3>3. AsRequest' = [op |-> "invalid", told |-> Reply(side, "invalid")]
      BY <2>3, <3>2, PathRequestIs
    <3>4. AsRequest'.op = "invalid" /\ UNCHANGED Call
      BY <3>2, <3>3 DEF Call
    <3> QED
      BY <2>1, <3>4, PolicySteps
  <2> QED
    BY <2>2, <2>3
<1>6. ASSUME RemoveCallbackPath(r, p, side) PROVE Policy!Unregister \/ Policy!Reject
  <2>1. UNCHANGED denyAll /\ UNCHANGED Pol
    BY <1>6 DEF RemoveCallbackPath, Pol
  <2>2. PICK S : S = allowlist[r] \ {path} /\ allowlist' = [allowlist EXCEPT ![r] = S]
    BY <1>1, <1>6 DEF RemoveCallbackPath
  <2>3. Call' = [Call EXCEPT ![r] = SegmentsOf(S)]
    BY <2>2, PathsChange
  <2>4. CASE p \in Proper[side]
    <3>1. PICK told \in {"ok", "not_found"} :
            /\ told = IF path \in allowlist[r] THEN "ok" ELSE "not_found"
            /\ Answered("unregister", r, p, side, told)
      BY <1>1, <1>2, <1>6, <2>4 DEF RemoveCallbackPath
    <3>2. AsRequest' = [op |-> "unregister", route |-> r, told |-> Reply(side, told),
                        path |-> Segments[p]]
      BY <2>4, <3>1, PathRequestIs
    <3>3. /\ AsRequest'.op = "unregister" /\ AsRequest'.route = r
          /\ AsRequest'.path = Segments[p] /\ AsRequest'.told \in {told, "redirect"}
      BY <3>2 DEF Reply
    <3>4. AsRequest'.told \in {IF Segments[p] \in Call[r] THEN "ok" ELSE "not_found", "redirect"}
      BY <1>4, <2>4, <3>1, <3>3
    <3>5. Call' = [Call EXCEPT ![r] = @ \ {Segments[p]}]
      BY <1>4, <2>2, <2>3, <2>4
    <3>6. Policy!Unregister
      BY <2>1, <3>3, <3>4, <3>5, PolicySteps
    <3> QED
      BY <3>6
  <2>5. CASE p \notin Proper[side]
    <3>1. path = NoPath
      BY <1>2, <2>5
    <3>2. Answered("unregister", r, p, side, "invalid")
      BY <1>1, <1>6, <3>1 DEF RemoveCallbackPath
    <3>3. AsRequest' = [op |-> "invalid", told |-> Reply(side, "invalid")]
      BY <2>5, <3>2, PathRequestIs
    <3>4. AsRequest'.op = "invalid"
      BY <3>3
    <3>5. UNCHANGED Call
      <4>1. path \notin allowlist[r]
        BY <1>3, <3>1, CallbackIs
      <4>2. S = allowlist[r]
        BY <2>2, <4>1
      <4> QED
        BY <1>3, <2>3, <4>2 DEF Call
    <3> QED
      BY <2>1, <3>4, <3>5, PolicySteps
  <2> QED
    BY <2>4, <2>5
<1> QED
  BY <1>5, <1>6

LEMMA InitPolicy == SettingsInit => Policy!PInit
BY DEF SettingsInit, Policy!PInit, AsRequest

LEMMA NextPolicy ==
  StoredInv /\ LimitInv /\ [SettingsNext]_settingsVars => [Policy!PNext]_(Policy!pvars)
<1> SUFFICES ASSUME StoredInv, LimitInv, [SettingsNext]_settingsVars
             PROVE  Policy!PNext \/ UNCHANGED Policy!pvars
  OBVIOUS
<1>1. ASSUME NEW r \in Routes, NEW x \in RuleInputs, NEW side \in Sides,
             UpsertRule(r, x, side) \/ DeleteRule(r, x, side)
      PROVE  Policy!PNext
  BY <1>1, UpsertRuleIsRequest, DeleteRuleIsRequest DEF Policy!PNext
<1>2. ASSUME NEW r \in Routes, NEW p \in CallbackInputs, NEW side \in Sides,
             AddCallbackPath(r, p, side) \/ RemoveCallbackPath(r, p, side)
      PROVE  Policy!PNext
  BY <1>2, CallbackEditIsRequest DEF Policy!PNext
<1>3. ASSUME UNCHANGED answer PROVE UNCHANGED AsRequest
  BY <1>3 DEF AsRequest
<1>4. ASSUME NEW r \in Routes, NEW on \in BOOLEAN, SetDenyAll(r, on) PROVE Policy!PNext
  <2>1. Policy!Mute
    BY <1>3, <1>4 DEF SetDenyAll, Policy!Mute
  <2> QED
    BY <2>1 DEF Policy!PNext
<1>5. CASE ClearFanout
  <2>1. Policy!Reset
    BY <1>3, <1>5 DEF ClearFanout, Policy!Reset
  <2> QED
    BY <2>1 DEF Policy!PNext
<1>6. CASE UNCHANGED settingsVars
  BY <1>3, <1>6 DEF settingsVars, Policy!pvars
<1> QED
  BY <1>1, <1>2, <1>4, <1>5, <1>6 DEF SettingsNext

\* However paths are spelled and whichever side edits them, the tables are the
\* policy and each answer tells what was done to it: spellings of one rule are
\* one rule, counted once towards the limit and found by any of them on
\* removal (upsertWebhookFanoutRule, deleteWebhookFanoutRule, and the OAuth
\* callback paths).
THEOREM SettingsImplementPolicy == SettingsSpec => SettingsKeepPolicy
<1>1. SettingsSpec => []LimitInv
  BY InitLimit, NextLimit, PTL DEF SettingsSpec
<1> QED
  BY <1>1, StoredHolds, InitPolicy, NextPolicy, PTL DEF SettingsSpec, SettingsKeepPolicy, Policy!PSpec
=============================================================================
