---------------------------- MODULE AgentsProofs ----------------------------
(* Proofs about a fleet of agents, of any size, given any of the operations.     *)
(* First what the operators of Agents return, field by field; then rings of      *)
(* invariants, each resting on those before: the types with where a thread may   *)
(* go next; what a cell's stops struck; who is owed a notice; what a job at rest *)
(* may owe; and which debts a parent's queue still answers.                      *)
EXTENDS Agents, TLAPS, FiniteSetTheorems

-----------------------------------------------------------------------------
(* Types. *)

Kinds   == Posts \cup {"Gone", "none"}
Items   == [kind : Kinds, from : Agents \cup {Human}]
Pcs     == {"unborn", "top", "next", "settled", "taken", "work", "clear", "cleared", "joining",
            "posting", "down", "leaving", "unwound", "gone", "over"}
Threads == [pc : Pcs, after : Pcs \cup {"none"}, awaits : SUBSET Helpers, pending : BOOLEAN,
            item : Items, says : {"none", "Stopped", "Failed"}]
Cells   == [queue : Seq(Items), answering : BOOLEAN, job : Nat, stopped : BOOLEAN, cut : BOOLEAN]

TypeOK ==
  /\ thread \in [Agents -> Threads] /\ cell \in [Agents -> Cells]
  /\ owner \in [Helpers -> Agents \cup {0}] /\ line \in [Agents -> SUBSET (Agents \cup {Human})]
  /\ nursery \in [Agents -> SUBSET Helpers]
  /\ dead \subseteq Agents \cup {Human} /\ broken \subseteq Helpers /\ noticed \subseteq Helpers
  /\ posts \in Nat /\ jobs \in [Agents -> Nat] /\ struck \in [Agents -> SUBSET Nat]
  /\ asked \subseteq Helpers /\ sent \subseteq Helpers

\* A report and a join know where they lead, and whoever is born has a parent.
Leads == \A a \in Agents :
  /\ At(a, "posting") => a \in Helpers /\ thread[a].after \in {"top", "leaving", "gone"}
  /\ At(a, "joining") => thread[a].after \in {"cleared", "work", "gone", "unwound"}
  /\ a \in Helpers /\ Born(a) => owner[a] \in Agents

-----------------------------------------------------------------------------
(* A queue at some of its places. *)

\* How many of these places are not past this one.
Rank(places, i) == Cardinality({k \in places : k <= i})

\* A set of places is finite, and a place's rank lies between 1 and their
\* number; a later place's is the greater.
LEMMA RankFacts ==
  ASSUME NEW n \in Nat, NEW places \in SUBSET (1..n)
  PROVE  /\ IsFiniteSet(places) /\ Cardinality(places) \in Nat
         /\ \A i \in Int : /\ Rank(places, i) \in 0..Cardinality(places)
                           /\ i \in places => Rank(places, i) # 0
         /\ \A i, j \in places : i < j => Rank(places, i) < Rank(places, j)
<1>1. IsFiniteSet(1..n)
  BY FS_Interval
<1>2. IsFiniteSet(places)
  BY <1>1, FS_Subset
<1>3. Cardinality(places) \in Nat
  BY <1>2, FS_CardinalityType
<1>4. ASSUME NEW i \in Int
      PROVE  /\ Rank(places, i) \in 0..Cardinality(places)
             /\ i \in places => Rank(places, i) # 0
  <2> DEFINE P == {k \in places : k <= i}
  <2>1. P \in SUBSET places
    OBVIOUS
  <2>2. IsFiniteSet(P) /\ Cardinality(P) <= Cardinality(places)
    BY <2>1, <1>2, FS_Subset
  <2>3. Cardinality(P) \in Nat
    BY <2>2, FS_CardinalityType
  <2>4. i \in places => i \in P
    OBVIOUS
  <2>5. Cardinality(P) = 0 <=> P = {}
    BY <2>2, FS_EmptySet
  <2>6. Rank(places, i) = Cardinality(P)
    BY DEF Rank
  <2> HIDE DEF P
  <2> QED
    BY <2>2, <2>3, <2>4, <2>5, <2>6, <1>3
<1>5. ASSUME NEW i \in places, NEW j \in places, i < j
      PROVE  Rank(places, i) < Rank(places, j)
  <2> DEFINE P == {k \in places : k <= i}
             Q == {k \in places : k <= j}
  <2>1. P \in SUBSET Q /\ Q \in SUBSET places
    <3>1. \A k \in places : k \in Int
      OBVIOUS
    <3>2. \A k \in places : k <= i => k <= j
      BY <3>1, <1>5
    <3> QED
      BY <3>2
  <2>2. j \in Q /\ j \notin P
    BY <1>5
  <2>3. IsFiniteSet(Q)
    BY <2>1, <1>2, FS_Subset
  <2>4. IsFiniteSet(P) /\ Cardinality(P) <= Cardinality(Q) /\ (Cardinality(Q) = Cardinality(P) => Q = P)
    BY <2>1, <2>3, FS_Subset
  <2>5. Cardinality(P) \in Nat /\ Cardinality(Q) \in Nat
    BY <2>3, <2>4, FS_CardinalityType
  <2>6. Rank(places, i) = Cardinality(P) /\ Rank(places, j) = Cardinality(Q)
    BY DEF Rank
  <2> HIDE DEF P, Q
  <2> QED
    BY <2>2, <2>4, <2>5, <2>6
<1> QED
  BY <1>2, <1>3, <1>4, <1>5

\* Each number up to theirs is the rank of one place: of the least whose rank
\* is no less.
LEMMA RankFinds ==
  ASSUME NEW n \in Nat, NEW places \in SUBSET (1..n), NEW j \in 1..Cardinality(places)
  PROVE  \E i \in places : Rank(places, i) = j
<1> DEFINE T == {1..m : m \in {k \in 0..n : Rank(places, k) >= j}}
           R == StrictSubsetOrdering(1..n)
<1>0. Cardinality(places) \in Nat /\ \A i \in Int : Rank(places, i) \in Nat
  <2>1. Cardinality(places) \in Nat /\ \A i \in Int : Rank(places, i) \in 0..Cardinality(places)
    BY RankFacts
  <2> QED
    BY <2>1
<1>p. \A k \in places : k \in Nat /\ 0 < k /\ k <= n
  OBVIOUS
<1>1. Rank(places, n) = Cardinality(places)
  <2>1. {k \in places : k <= n} = places
    BY <1>p
  <2> QED
    BY <2>1 DEF Rank
<1>2. 1..n \in T
  BY <1>0, <1>1
<1>3. T \subseteq FiniteSubsetsOf(1..n)
  <2>1. ASSUME NEW m \in 0..n
        PROVE  IsFiniteSet(1..m) /\ 1..m \subseteq 1..n
    BY FS_Interval
  <2> QED
    BY <2>1 DEF FiniteSubsetsOf
<1>4. PICK x \in T : \A y \in T : <<y, x>> \notin R
  <2>1. IsWellFoundedOn(R, FiniteSubsetsOf(1..n))
    BY FS_StrictSubsetOrderingWellFounded
  <2> HIDE DEF T, R
  <2> QED
    BY <2>1, <1>2, <1>3, WFMin
<1>5. PICK m \in 0..n : x = 1..m /\ Rank(places, m) >= j
  OBVIOUS
<1>6. m # 0
  <2>1. \A k \in places : ~(k <= 0)
    BY <1>p
  <2>2. {k \in places : k <= 0} = {}
    BY <2>1
  <2>3. Rank(places, 0) = 0
    BY <2>2, FS_EmptySet DEF Rank
  <2>4. Rank(places, m) >= j /\ j > 0
    BY <1>0, <1>5
  <2> QED
    BY <2>3, <2>4
<1>7. m - 1 \in 0..n /\ m \in 1..n /\ m \in Int
  BY <1>6
<1>8. Rank(places, m - 1) < j
  <2>1. SUFFICES ASSUME ~(Rank(places, m - 1) < j)
                 PROVE  FALSE
    OBVIOUS
  <2>2. 1..(m - 1) \in T
    BY <2>1, <1>0, <1>7
  <2>3. 1..(m - 1) \subseteq 1..n /\ 1..m \subseteq 1..n /\ 1..(m - 1) \subseteq 1..m
    BY <1>7
  <2>4. 1..(m - 1) # 1..m
    BY <1>7
  <2>5. <<1..(m - 1), x>> \in R
    BY <2>3, <2>4, <1>5 DEF StrictSubsetOrdering
  <2> QED
    BY <2>2, <2>5, <1>4
<1> DEFINE P == {k \in places : k <= m - 1}
<1>9. {k \in places : k <= m} = IF m \in places THEN P \cup {m} ELSE P
  <2>1. \A k \in places : k <= m <=> k <= m - 1 \/ k = m
    BY <1>p, <1>7
  <2> QED
    BY <2>1
<1>10. IsFiniteSet(P)
  <2>1. P \in SUBSET places
    OBVIOUS
  <2> QED
    BY <2>1, RankFacts, FS_Subset
<1>11. m \notin P
  BY <1>7
<1>12. Rank(places, m) = IF m \in places THEN Rank(places, m - 1) + 1 ELSE Rank(places, m - 1)
  <2>1. Rank(places, m - 1) = Cardinality(P)
    BY DEF Rank
  <2>2. CASE m \in places
    <3>1. Rank(places, m) = Cardinality(P \cup {m})
      BY <1>9, <2>2 DEF Rank
    <3> HIDE DEF P
    <3>2. Cardinality(P \cup {m}) = Cardinality(P) + 1
      BY <1>10, <1>11, FS_AddElement
    <3> QED
      BY <2>1, <2>2, <3>1, <3>2
  <2>3. CASE m \notin places
    <3>1. Rank(places, m) = Cardinality(P)
      BY <1>9, <2>3 DEF Rank
    <3> QED
      BY <2>1, <2>3, <3>1
  <2> QED
    BY <2>2, <2>3
<1> QED
  <2>1. m \in Int /\ m - 1 \in Int
    BY <1>7
  <2>2. Rank(places, m) \in Nat /\ Rank(places, m - 1) \in Nat
    BY <1>0, <2>1
  <2>3. j \in Nat
    BY <1>0
  <2> QED
    BY <2>2, <2>3, <1>5, <1>8, <1>12

\* Of some places one is the first.
LEMMA LeastPlace ==
  ASSUME NEW n \in Nat, NEW places \in SUBSET (1..n), places # {}
  PROVE  \E i \in places : \A j \in places : i <= j
<1>1. Cardinality(places) \in Nat /\ Cardinality(places) # 0
  BY RankFacts, FS_EmptySet
<1>2. 1 \in 1..Cardinality(places)
  BY <1>1
<1>3. PICK i \in places : Rank(places, i) = 1
  BY <1>2, RankFinds
<1>4. \A j \in places : j \in Int
  OBVIOUS
<1>5. ASSUME NEW j \in places
      PROVE  ~(j < i)
  <2>1. Rank(places, j) \in 0..Cardinality(places) /\ Rank(places, j) # 0
    BY <1>4, RankFacts
  <2>2. j < i => Rank(places, j) < Rank(places, i)
    BY RankFacts
  <2> QED
    BY <1>1, <1>3, <2>1, <2>2
<1> QED
  BY <1>4, <1>5

\* What a queue keeps of itself: each item comes from one of its places, each
\* of these is kept, and no two change their order.
LEMMA KeepingFacts ==
  ASSUME NEW X, NEW queue \in Seq(X), NEW places \in SUBSET (DOMAIN queue)
  PROVE  LET kept == Keeping(queue, places) IN
         /\ kept \in Seq(X)
         /\ \A j \in DOMAIN kept : \E i \in places : kept[j] = queue[i]
         /\ \A i \in places : \E j \in DOMAIN kept : kept[j] = queue[i]
         /\ \A l, j \in DOMAIN kept : l <= j =>
              \E k, i \in places : k <= i /\ kept[l] = queue[k] /\ kept[j] = queue[i]
<1> DEFINE kept == Keeping(queue, places)
           N == Cardinality(places)
           Pl(j) == CHOOSE i \in places : Rank(places, i) = j
<1>1. Len(queue) \in Nat /\ DOMAIN queue = 1..Len(queue)
  OBVIOUS
<1>2. places \in SUBSET (1..Len(queue))
  BY <1>1
<1>3. N \in Nat
  BY <1>1, <1>2, RankFacts
<1>4. ASSUME NEW j \in 1..N
      PROVE  Pl(j) \in places /\ Rank(places, Pl(j)) = j
  BY <1>1, <1>2, RankFinds
<1>5. kept = [j \in 1..N |-> queue[Pl(j)]]
  BY DEF Keeping, Rank
<1>6. \A i \in places : Rank(places, i) \in 1..N
  <2>1. \A i \in places : i \in Int
    BY <1>2
  <2>2. \A i \in Int : Rank(places, i) \in 0..N /\ (i \in places => Rank(places, i) # 0)
    BY <1>1, <1>2, RankFacts
  <2> HIDE DEF N
  <2> QED
    BY <2>1, <2>2, <1>3
<1>7. \A k, i \in places : Rank(places, k) <= Rank(places, i) => k <= i
  <2>1. TAKE k, i \in places
  <2>2. k \in Int /\ i \in Int
    BY <1>2
  <2>3. Rank(places, k) \in Int /\ Rank(places, i) \in Int
    BY <1>6
  <2>4. i < k => Rank(places, i) < Rank(places, k)
    BY <1>1, <1>2, RankFacts
  <2> QED
    BY <2>2, <2>3, <2>4
<1>8. \A i \in places : Pl(Rank(places, i)) = i
  <2>1. TAKE i \in places
  <2>2. Pl(Rank(places, i)) \in places /\ Rank(places, Pl(Rank(places, i))) = Rank(places, i)
    BY <1>4, <1>6
  <2> HIDE DEF Pl
  <2>3. i \in Int /\ Pl(Rank(places, i)) \in Int /\ Rank(places, i) \in Int
    BY <2>2, <1>2, <1>6
  <2> QED
    BY <2>2, <2>3, <1>7
<1> HIDE DEF Pl
<1>9. DOMAIN kept = 1..N
  BY <1>5
<1>10. \A j \in 1..N : kept[j] = queue[Pl(j)]
  BY <1>5
<1>11. kept \in Seq(X)
  <2>1. \A j \in 1..N : queue[Pl(j)] \in X
    BY <1>1, <1>2, <1>4
  <2> QED
    BY <2>1, <1>3, <1>5
<1> HIDE DEF kept, N
<1>12. \A i \in places : \E j \in 1..N : kept[j] = queue[i]
  BY <1>6, <1>8, <1>10
<1>13. ASSUME NEW l \in 1..N, NEW j \in 1..N, l <= j
       PROVE  \E k, i \in places : k <= i /\ kept[l] = queue[k] /\ kept[j] = queue[i]
  <2>1. Pl(l) <= Pl(j)
    BY <1>4, <1>7, <1>13
  <2> QED
    BY <2>1, <1>4, <1>10
<1>14. \A j \in 1..N : \E i \in places : kept[j] = queue[i]
  BY <1>4, <1>10
<1>15. /\ kept \in Seq(X)
       /\ \A j \in DOMAIN kept : \E i \in places : kept[j] = queue[i]
       /\ \A i \in places : \E j \in DOMAIN kept : kept[j] = queue[i]
       /\ \A l, j \in DOMAIN kept : l <= j =>
            \E k, i \in places : k <= i /\ kept[l] = queue[k] /\ kept[j] = queue[i]
  <2> HIDE DEF N
  <2>1. \A l, j \in DOMAIN kept : l <= j =>
            \E k, i \in places : k <= i /\ kept[l] = queue[k] /\ kept[j] = queue[i]
    BY <1>9, <1>13
  <2> QED
    BY <2>1, <1>9, <1>11, <1>12, <1>14
<1> QED
  BY <1>15 DEF kept

\* The agents, the human's among them.
LEMMA AgentsFacts == 1 \in Agents /\ Agents \subseteq Nat /\ Human \notin Agents /\ Helpers \subseteq Agents
                     /\ 1 \notin Helpers
BY AgentsAssumption DEF Agents, Helpers, Human

\* A thread that goes elsewhere goes empty-handed; no other moves.
LEMMA GoFacts ==
  ASSUME TypeOK, NEW a \in Agents, NEW pc \in Pcs
  PROVE  /\ Go(a, pc) \in [Agents -> Threads]
         /\ LET t == Go(a, pc)[a] IN t.pc = pc /\ t.after = "none" /\ t.item = NoItem /\ t.says = "none"
         /\ \A b \in Agents : b # a => Go(a, pc)[b] = thread[b]
BY DEF TypeOK, Go, Idle, Threads, Items, Kinds, NoItem, Item

LEMMA HoldFacts ==
  ASSUME TypeOK, NEW a \in Agents, NEW item \in Items
  PROVE  /\ Hold(a, item) \in [Agents -> Threads]
         /\ LET t == Hold(a, item)[a] IN t.pc = "taken" /\ t.after = "none" /\ t.item = item /\ t.says = "none"
         /\ \A b \in Agents : b # a => Hold(a, item)[b] = thread[b]
BY DEF TypeOK, Hold, Idle, Threads, Pcs

LEMMA JoinFacts ==
  ASSUME TypeOK, NEW a \in Agents, NEW helpers \in SUBSET Helpers, NEW after \in Pcs
  PROVE  /\ Join(a, helpers, after) \in [Agents -> Threads]
         /\ LET t == Join(a, helpers, after)[a]
            IN  t.pc = "joining" /\ t.after = after /\ t.awaits = helpers /\ t.item = NoItem /\ t.says = "none"
         /\ \A b \in Agents : b # a => Join(a, helpers, after)[b] = thread[b]
BY DEF TypeOK, Join, Idle, Threads, Items, Kinds, NoItem, Item, Pcs

LEMMA ItemFacts ==
  /\ \A kind \in Kinds, from \in Agents \cup {Human} : Item(kind, from) \in Items
  /\ \A kind, from : Item(kind, from).kind = kind /\ Item(kind, from).from = from
  /\ NoItem \in Items /\ NoItem.kind = "none"
BY DEF Items, Item, NoItem, Kinds, Human

\* A post goes to the end of its queue, and changes nothing else.
LEMMA QueuedFacts ==
  ASSUME TypeOK, NEW a \in Agents, NEW item \in Items
  PROVE  /\ Queued(a, item) \in [Agents -> Cells]
         /\ LET c == Queued(a, item)[a]
            IN  /\ c.queue = Append(cell[a].queue, item) /\ c.answering = cell[a].answering
                /\ c.job = cell[a].job /\ c.stopped = cell[a].stopped
         /\ \A b \in Agents : b # a => Queued(a, item)[b] = cell[b]
<1>1. cell[a].queue \in Seq(Items) /\ cell[a] \in Cells
  BY DEF TypeOK, Cells
<1>2. Append(cell[a].queue, item) \in Seq(Items)
  BY <1>1
<1>3. Queued(a, item) = [cell EXCEPT ![a] = [cell[a] EXCEPT !.queue = Append(cell[a].queue, item)]]
  BY DEF Queued, TypeOK
<1> DEFINE q == Append(cell[a].queue, item)
<1> HIDE DEF q
<1> DEFINE new == [cell[a] EXCEPT !.queue = q]
<1>4. /\ new \in Cells /\ new.queue = q /\ new.answering = cell[a].answering
      /\ new.job = cell[a].job /\ new.stopped = cell[a].stopped
  BY <1>1, <1>2 DEF Cells, q
<1>5. Queued(a, item) = [cell EXCEPT ![a] = new]
  BY <1>3 DEF q
<1> HIDE DEF new
<1>6. /\ Queued(a, item) \in [Agents -> Cells] /\ Queued(a, item)[a] = new
      /\ \A b \in Agents : b # a => Queued(a, item)[b] = cell[b]
  BY <1>4, <1>5 DEF TypeOK
<1> QED
  BY <1>4, <1>6 DEF q

\* What a queue keeps is a queue: of it, and in its order.
Within(new, old) ==
  \A l, j \in DOMAIN new : l <= j => \E k, i \in DOMAIN old : k <= i /\ new[l] = old[k] /\ new[j] = old[i]

LEMMA LeavingFacts ==
  ASSUME TypeOK, NEW a \in Agents, NEW taken
  PROVE  LET queue == cell[a].queue
             kept  == Leaving(a, taken)
         IN  /\ kept \in Seq(Items) /\ Within(kept, queue)
             /\ \A j \in DOMAIN kept : \E i \in DOMAIN queue \ taken : kept[j] = queue[i]
             /\ \A i \in DOMAIN queue \ taken : \E j \in DOMAIN kept : kept[j] = queue[i]
<1> DEFINE queue  == cell[a].queue
           places == DOMAIN queue \ taken
<1>1. queue \in Seq(Items)
  BY DEF TypeOK, Cells
<1>2. Leaving(a, taken) = Keeping(queue, places)
  BY DEF Leaving
<1>3. places \in SUBSET (DOMAIN queue)
  OBVIOUS
<1> HIDE DEF queue, places
<1>4. LET kept == Keeping(queue, places) IN
         /\ kept \in Seq(Items)
         /\ \A j \in DOMAIN kept : \E i \in places : kept[j] = queue[i]
         /\ \A i \in places : \E j \in DOMAIN kept : kept[j] = queue[i]
         /\ \A l, j \in DOMAIN kept : l <= j =>
              \E k, i \in places : k <= i /\ kept[l] = queue[k] /\ kept[j] = queue[i]
  BY <1>1, <1>3, KeepingFacts
<1> DEFINE kept == Keeping(queue, places)
<1>5. /\ kept \in Seq(Items) /\ Within(kept, queue)
      /\ \A j \in DOMAIN kept : \E i \in places : kept[j] = queue[i]
      /\ \A i \in places : \E j \in DOMAIN kept : kept[j] = queue[i]
  BY <1>3, <1>4 DEF Within
<1> HIDE DEF kept
<1>6. kept = Leaving(a, taken)
  BY <1>2 DEF kept
<1> QED
  BY <1>5, <1>6 DEF queue, places

LEMMA WithoutFacts ==
  ASSUME TypeOK, NEW a \in Agents, NEW kinds
  PROVE  LET queue == cell[a].queue
             kept  == Without(a, kinds)
         IN  /\ kept \in Seq(Items) /\ Within(kept, queue)
             /\ \A j \in DOMAIN kept : kept[j].kind \notin kinds /\ \E i \in DOMAIN queue : kept[j] = queue[i]
             /\ \A i \in DOMAIN queue : queue[i].kind \notin kinds => \E j \in DOMAIN kept : kept[j] = queue[i]
<1> DEFINE taken == {i \in DOMAIN cell[a].queue : cell[a].queue[i].kind \in kinds}
<1>1. Without(a, kinds) = Leaving(a, taken)
  BY DEF Without
<1> HIDE DEF taken
<1>2. LET queue == cell[a].queue
          kept  == Leaving(a, taken)
      IN  /\ kept \in Seq(Items) /\ Within(kept, queue)
          /\ \A j \in DOMAIN kept : \E i \in DOMAIN queue \ taken : kept[j] = queue[i]
          /\ \A i \in DOMAIN queue \ taken : \E j \in DOMAIN kept : kept[j] = queue[i]
  BY LeavingFacts
<1> QED
  BY <1>1, <1>2 DEF taken

LEMMA TakenFacts ==
  ASSUME TypeOK, NEW a \in Agents, NEW taken \in SUBSET (DOMAIN cell[a].queue)
  PROVE  /\ Taken(a, taken) \in [Agents -> Cells]
         /\ Taken(a, taken)[a].queue = Leaving(a, taken)
         /\ Taken(a, taken)[a].answering <=>
              cell[a].answering \/ \E i \in taken : ByParent(a, cell[a].queue[i])
         /\ Taken(a, taken)[a].job = cell[a].job
         /\ Taken(a, taken)[a].stopped = cell[a].stopped
         /\ Taken(a, taken)[a].cut = cell[a].cut
         /\ \A b \in Agents : b # a => Taken(a, taken)[b] = cell[b]
<1> DEFINE q == Leaving(a, taken)
           owes == \E i \in taken : ByParent(a, cell[a].queue[i])
           new == [cell[a] EXCEPT !.queue = q, !.answering = cell[a].answering \/ owes]
<1>1. q \in Seq(Items)
  BY LeavingFacts
<1>2. cell[a] \in Cells
  BY DEF TypeOK
<1>3. Taken(a, taken) = [cell EXCEPT ![a] = new]
  BY DEF Taken, TypeOK
<1>4. (cell[a].answering \/ owes) \in BOOLEAN
  OBVIOUS
<1> HIDE DEF q, owes
<1>5. new \in Cells
  BY <1>1, <1>2, <1>4 DEF Cells
<1>6. /\ new.queue = q /\ new.job = cell[a].job /\ new.stopped = cell[a].stopped /\ new.cut = cell[a].cut
      /\ new.answering <=> (cell[a].answering \/ owes)
  BY <1>2 DEF Cells
<1> HIDE DEF new
<1>7. Taken(a, taken)[a] = new /\ Taken(a, taken) \in [Agents -> Cells]
  BY <1>3, <1>5 DEF TypeOK
<1>8. \A b \in Agents : b # a => Taken(a, taken)[b] = cell[b]
  BY <1>3 DEF TypeOK
<1> QED
  BY <1>6, <1>7, <1>8 DEF q, owes

LEMMA StopFacts ==
  ASSUME TypeOK, NEW a \in Agents, NEW job, NEW recalls \in BOOLEAN, Stop(a, job, recalls)
  PROVE  /\ cell' \in [Agents -> Cells] /\ struck' = [struck EXCEPT ![a] = struck[a] \cup {job}]
         /\ ~Locked(a) /\ cell[a].job # 0 /\ cell[a].job = job
         /\ cell'[a].queue = IF recalls THEN Without(a, {"Human"}) ELSE cell[a].queue
         /\ cell'[a].answering = cell[a].answering /\ cell'[a].job = cell[a].job
         /\ cell'[a].stopped = TRUE
         /\ \A b \in Agents : b # a => cell'[b] = cell[b]
<1> DEFINE q == IF recalls THEN Without(a, {"Human"}) ELSE cell[a].queue
           new == [cell[a] EXCEPT !.stopped = TRUE, !.cut = TRUE, !.queue = q]
<1>1. cell[a] \in Cells /\ cell[a].queue \in Seq(Items)
  BY DEF TypeOK, Cells
<1>2. q \in Seq(Items)
  BY <1>1, WithoutFacts
<1>3. cell' = [cell EXCEPT ![a] = new]
  BY DEF Stop, TypeOK
<1> HIDE DEF q
<1>4. new \in Cells
  BY <1>1, <1>2 DEF Cells
<1>5. new.queue = q /\ new.answering = cell[a].answering /\ new.job = cell[a].job /\ new.stopped = TRUE
  BY <1>1 DEF Cells
<1> HIDE DEF new
<1>6. cell'[a] = new /\ cell' \in [Agents -> Cells]
  BY <1>3, <1>4 DEF TypeOK
<1>7. \A b \in Agents : b # a => cell'[b] = cell[b]
  BY <1>3 DEF TypeOK
<1>8. ~Locked(a) /\ cell[a].job # 0 /\ cell[a].job = job /\ struck' = [struck EXCEPT ![a] = struck[a] \cup {job}]
  BY DEF Stop, TypeOK
<1> QED
  BY <1>5, <1>6, <1>7, <1>8 DEF q

\* What a report leaves of its helper's cell.
LEMMA SettlesFacts ==
  ASSUME TypeOK, NEW a \in Agents, Settles(a)
  PROVE  /\ cell' \in [Agents -> Cells]
         /\ cell'[a].job = cell[a].job /\ cell'[a].stopped = cell[a].stopped
         /\ Within(cell'[a].queue, cell[a].queue)
         /\ \/ cell' = cell /\ a \in broken
            \/ /\ ~cell'[a].answering
               /\ Live(a) => cell'[a].queue = cell[a].queue
               /\ ~Live(a) => \A j \in DOMAIN cell'[a].queue : cell'[a].queue[j].kind \notin Posts
         /\ \A b \in Agents : b # a => cell'[b] = cell[b]
<1>1. cell[a] \in Cells /\ cell[a].queue \in Seq(Items)
  BY DEF TypeOK, Cells
<1>2. Within(cell[a].queue, cell[a].queue)
  BY DEF Within
<1>3. CASE a \in broken /\ UNCHANGED cell
  BY <1>2, <1>3 DEF TypeOK
<1>4. CASE cell' = [cell EXCEPT ![a].answering = FALSE, ![a].queue = IF Live(a) THEN @ ELSE Without(a, Posts)]
  <2> DEFINE q == IF Live(a) THEN cell[a].queue ELSE Without(a, Posts)
             new == [cell[a] EXCEPT !.answering = FALSE, !.queue = q]
  <2>1. /\ q \in Seq(Items) /\ Within(q, cell[a].queue) /\ (Live(a) => q = cell[a].queue)
        /\ ~Live(a) => \A j \in DOMAIN q : q[j].kind \notin Posts
    BY <1>1, <1>2, WithoutFacts
  <2>2. cell' = [cell EXCEPT ![a] = new]
    BY <1>4 DEF TypeOK
  <2> HIDE DEF q
  <2>3. new \in Cells
    BY <1>1, <2>1 DEF Cells
  <2>4. new.queue = q /\ new.answering = FALSE /\ new.job = cell[a].job /\ new.stopped = cell[a].stopped
    BY <1>1 DEF Cells
  <2> HIDE DEF new
  <2>5. cell'[a] = new /\ cell' \in [Agents -> Cells]
    BY <2>2, <2>3 DEF TypeOK
  <2>6. \A b \in Agents : b # a => cell'[b] = cell[b]
    BY <2>2 DEF TypeOK
  <2> QED
    BY <2>1, <2>4, <2>5, <2>6
<1> QED
  BY <1>3, <1>4 DEF Settles

\* What a take leads to: a farewell joined, a rewrite, or an exchange.
LEMMA NextItemFacts ==
  ASSUME TypeOK, NEW a \in Agents, NextItem(a)
  PROVE  \E i \in DOMAIN cell[a].queue :
           LET item == cell[a].queue[i] IN
           /\ Admitted(a, item) /\ \A j \in DOMAIN cell[a].queue : Admitted(a, cell[a].queue[j]) => i <= j
           /\ At(a, "next") /\ Live(a) /\ item \in Items
           /\ \/ /\ item.kind = "Gone" /\ cell' = Taken(a, {i}) /\ thread' = Go(a, "top")
                 /\ nursery' = [nursery EXCEPT ![a] = nursery[a] \ {item.from}]
              \/ /\ item.kind = "Clear" /\ cell' = Taken(a, {i}) /\ thread' = Go(a, "clear")
                 /\ UNCHANGED nursery
              \/ /\ item.kind \notin {"Gone", "Clear"} /\ thread' = Hold(a, item) /\ UNCHANGED nursery
                 /\ cell' = [Taken(a, RunFrom(a, i)) EXCEPT ![a].cut = FALSE]
           /\ UNCHANGED <<kin, dead, broken, noticed, posts, books>>
<1>1. cell[a].queue \in Seq(Items)
  BY DEF TypeOK, Cells
<1>2. Admissible(a) # {}
  BY DEF NextItem
<1>3. \E m \in Admissible(a) : \A j \in Admissible(a) : m <= j
  <2>1. Len(cell[a].queue) \in Nat /\ DOMAIN cell[a].queue = 1..Len(cell[a].queue)
    BY <1>1
  <2>2. Admissible(a) \in SUBSET (1..Len(cell[a].queue))
    BY <2>1 DEF Admissible
  <2> QED
    BY <1>2, <2>1, <2>2, LeastPlace
<1> DEFINE i == CHOOSE i \in Admissible(a) : \A j \in Admissible(a) : i <= j
<1>4. i \in Admissible(a) /\ \A j \in Admissible(a) : i <= j
  BY <1>3
<1>5. i \in DOMAIN cell[a].queue /\ Admitted(a, cell[a].queue[i])
      /\ \A j \in DOMAIN cell[a].queue : Admitted(a, cell[a].queue[j]) => i <= j
  BY <1>4 DEF Admissible
<1>6. cell[a].queue[i] \in Items
  BY <1>1, <1>5
<1>7. LET item == cell[a].queue[i] IN
           /\ At(a, "next") /\ Live(a)
           /\ \/ /\ item.kind = "Gone" /\ cell' = Taken(a, {i}) /\ thread' = Go(a, "top")
                 /\ nursery' = [nursery EXCEPT ![a] = @ \ {item.from}]
              \/ /\ item.kind = "Clear" /\ cell' = Taken(a, {i}) /\ thread' = Go(a, "clear")
                 /\ UNCHANGED nursery
              \/ /\ item.kind \notin {"Gone", "Clear"} /\ thread' = Hold(a, item) /\ UNCHANGED nursery
                 /\ cell' = [Taken(a, RunFrom(a, i)) EXCEPT ![a].cut = FALSE]
           /\ UNCHANGED <<kin, dead, broken, noticed, posts, books>>
  BY DEF NextItem
<1> HIDE DEF i
<1>8. nursery[a] \in SUBSET Helpers
  BY DEF TypeOK
<1> QED
  BY <1>5, <1>6, <1>7

\* A report leads to the parent's post, or straight on.
LEMMA ReportFacts ==
  ASSUME TypeOK, NEW a \in Agents, NEW after \in Pcs, Report(a, after)
  PROVE  /\ thread' \in [Agents -> Threads]
         /\ Tells(a) => a \in Helpers /\ thread'[a].pc = "posting" /\ thread'[a].after = after
         /\ ~Tells(a) => thread'[a].pc = after /\ thread'[a].after = "none"
         /\ thread'[a].item = NoItem /\ thread'[a].says = "none"
         /\ \A b \in Agents : b # a => thread'[b] = thread[b]
         /\ noticed' = IF Tells(a) /\ a \in broken THEN noticed \cup {a} ELSE noticed
         /\ Settles(a) /\ UNCHANGED <<kin, nursery, broken, posts, books>>
<1>0. Tells(a) => a \in Helpers
  BY DEF Tells, Owes, Helpers
<1>1. CASE Tells(a)
  <2>1. thread' = [thread EXCEPT ![a] = [Idle EXCEPT !.pc = "posting", !.after = after]]
    BY <1>1 DEF Report
  <2>2. /\ thread' \in [Agents -> Threads]
        /\ thread'[a].pc = "posting" /\ thread'[a].after = after /\ thread'[a].item = NoItem
        /\ thread'[a].says = "none"
        /\ \A b \in Agents : b # a => thread'[b] = thread[b]
    BY <2>1, ItemFacts DEF TypeOK, Idle, Threads, Pcs
  <2> QED
    BY <1>0, <1>1, <2>2 DEF Report
<1>2. CASE ~Tells(a)
  <2>1. thread' = Go(a, after)
    BY <1>2 DEF Report
  <2>2. /\ thread' \in [Agents -> Threads]
        /\ thread'[a].pc = after /\ thread'[a].after = "none" /\ thread'[a].item = NoItem
        /\ thread'[a].says = "none"
        /\ \A b \in Agents : b # a => thread'[b] = thread[b]
    BY <2>1, GoFacts
  <2> QED
    BY <1>2, <2>2 DEF Report
<1> QED
  BY <1>1, <1>2

\* A run of posts is in the queue, from its first on.
LEMMA RunFromFacts ==
  ASSUME TypeOK, NEW a \in Agents, NEW i \in DOMAIN cell[a].queue
  PROVE  /\ RunFrom(a, i) \in SUBSET (DOMAIN cell[a].queue) /\ i \in RunFrom(a, i)
         /\ cell[a].queue[i].kind # "Human" => RunFrom(a, i) = {i}
         /\ \A j \in RunFrom(a, i) : j # i => cell[a].queue[j].kind = "Human"
<1>1. DOMAIN cell[a].queue = 1..Len(cell[a].queue) /\ Len(cell[a].queue) \in Nat
  BY DEF TypeOK, Cells
<1> QED
  BY <1>1 DEF RunFrom

\* A helper that is spawned was unborn.
LEMMA SpawnFacts ==
  ASSUME NEW a \in Agents, Spawn(a)
  PROVE  /\ At(a, "work")
         /\ \E h \in Unborn :
              /\ owner' = [owner EXCEPT ![h] = a] /\ line' = [line EXCEPT ![h] = Under(a, h)]
              /\ nursery' = [nursery EXCEPT ![a] = @ \cup {h}] /\ thread' = Go(h, "top")
              /\ cell' = IF Live(a) THEN Queued(h, Item("Task", a)) ELSE cell
              /\ asked' = IF Live(a) THEN asked \cup {h} ELSE asked
              /\ UNCHANGED <<dead, broken, noticed, posts, jobs, struck, sent>>
<1> DEFINE h == CHOOSE h \in Unborn : \A g \in Unborn : h <= g
<1>1. \E h1 \in Unborn : \A g \in Unborn : h1 <= g
  <2>1. MaxAgents \in Nat /\ Unborn \in SUBSET (1..MaxAgents)
    BY AgentsAssumption DEF Unborn, Helpers, Agents
  <2>2. Unborn # {}
    BY DEF Spawn
  <2> QED
    BY <2>1, <2>2, LeastPlace
<1>2. h \in Unborn
  BY <1>1
<1>3. /\ owner' = [owner EXCEPT ![h] = a] /\ line' = [line EXCEPT ![h] = Under(a, h)]
      /\ nursery' = [nursery EXCEPT ![a] = @ \cup {h}] /\ thread' = Go(h, "top")
      /\ cell' = IF Live(a) THEN Queued(h, Item("Task", a)) ELSE cell
      /\ asked' = IF Live(a) THEN asked \cup {h} ELSE asked
      /\ UNCHANGED <<dead, broken, noticed, posts, jobs, struck, sent>> /\ At(a, "work")
  BY DEF Spawn
<1> HIDE DEF h
<1> QED
  BY <1>2, <1>3

\* A drain takes what comes before a rewrite, with the farewells in it.
LEMMA DrainFacts ==
  ASSUME TypeOK, NEW a \in Agents, Drain(a)
  PROVE  \E prefix \in SUBSET (DOMAIN cell[a].queue) : \E gones :
           /\ prefix = {i \in DOMAIN cell[a].queue : \A k \in 1..i : cell[a].queue[k].kind # "Clear"}
           /\ gones = {cell[a].queue[i].from : i \in {j \in prefix : cell[a].queue[j].kind = "Gone"}}
           /\ cell' = Taken(a, prefix) /\ nursery' = [nursery EXCEPT ![a] = nursery[a] \ gones]
           /\ At(a, "work") /\ ~Cut(a)
<1>1. nursery \in [Agents -> SUBSET Helpers]
  BY DEF TypeOK
<1> QED
  BY <1>1 DEF Drain

\* What an agent's own thread does, its model asks for, and others do to it.
ActsOf(a) == Attends(a) \/ Works(a) \/ ExchangeEnds(a) \/ Outside(a)

\* A job that is opened is a new one, and unmarked.
LEMMA OpenedFacts ==
  ASSUME TypeOK, NEW a \in Agents
  PROVE  /\ Opened(a) \in [Agents -> Cells]
         /\ Opened(a)[a].job = jobs[a] + 1 /\ Opened(a)[a].stopped = FALSE
         /\ Opened(a)[a].queue = cell[a].queue /\ Opened(a)[a].answering = cell[a].answering
         /\ \A b \in Agents : b # a => Opened(a)[b] = cell[b]
<1> DEFINE n == jobs[a] + 1
           new == [cell[a] EXCEPT !.job = n, !.stopped = FALSE]
<1>1. n \in Nat /\ cell[a] \in Cells
  BY DEF TypeOK
<1>2. Opened(a) = [cell EXCEPT ![a] = new]
  BY DEF Opened, TypeOK
<1> HIDE DEF n
<1>3. new \in Cells
  BY <1>1 DEF Cells
<1>4. new.job = n /\ new.stopped = FALSE /\ new.queue = cell[a].queue /\ new.answering = cell[a].answering
  BY <1>1 DEF Cells
<1> HIDE DEF new
<1>5. /\ Opened(a) \in [Agents -> Cells] /\ Opened(a)[a] = new
      /\ \A b \in Agents : b # a => Opened(a)[b] = cell[b]
  BY <1>2, <1>3 DEF TypeOK
<1> QED
  BY <1>4, <1>5 DEF n

-----------------------------------------------------------------------------
(* Types are kept. *)

LEMMA TypeInit == Init => TypeOK /\ Leads
<1> SUFFICES ASSUME Init
             PROVE  TypeOK /\ Leads
  OBVIOUS
<1>1. ASSUME NEW a \in Agents
      PROVE  LET t == [Idle EXCEPT !.pc = IF a = 1 THEN "top" ELSE "unborn"]
             IN  t \in Threads /\ t.pc = IF a = 1 THEN "top" ELSE "unborn"
  BY ItemFacts DEF Idle, Threads, Pcs
<1>2. thread \in [Agents -> Threads] /\ \A a \in Agents : thread[a].pc = IF a = 1 THEN "top" ELSE "unborn"
  BY <1>1 DEF Init
<1>3. cell \in [Agents -> Cells]
  BY DEF Init, Cells
<1>4. Leads
  BY <1>2, AgentsFacts DEF Init, Leads, At, Born, Helpers
<1> QED
  BY <1>2, <1>3, <1>4, AgentsFacts DEF Init, TypeOK, Human

\* A thread's own move, to where no report or join is left open.
LEMMA MoveLeads ==
  ASSUME TypeOK, Leads, NEW a \in Agents, thread' \in [Agents -> Threads], Born(a), UNCHANGED owner,
         \A b \in Agents : b # a => thread'[b] = thread[b],
         thread'[a].pc = "posting" => a \in Helpers /\ thread'[a].after \in {"top", "leaving", "gone"},
         thread'[a].pc = "joining" => thread'[a].after \in {"cleared", "work", "gone", "unwound"}
  PROVE  Leads'
BY DEF Leads, At, Born

LEMMA StepTypes == TypeOK /\ Leads /\ [Next]_vars => TypeOK' /\ Leads'
<1> SUFFICES ASSUME TypeOK, Leads, NEW a \in Agents, ActsOf(a)
             PROVE  TypeOK' /\ Leads'
  <2>1. ASSUME NEW a \in Helpers \cup {Human}, Ends(a), TypeOK, Leads
        PROVE  TypeOK' /\ Leads'
    BY <2>1, AgentsFacts DEF Ends, TypeOK, Leads, At, Born, kin, books
  <2>2. ASSUME UNCHANGED vars, TypeOK, Leads
        PROVE  TypeOK' /\ Leads'
    BY <2>2 DEF vars, kin, TypeOK, Leads, At, Born
  <2> QED
    BY <2>1, <2>2 DEF Next, Finished, ActsOf
<1>g. \A s \in Pcs : /\ Go(a, s) \in [Agents -> Threads] /\ Go(a, s)[a].pc = s
                     /\ \A b \in Agents : b # a => Go(a, s)[b] = thread[b]
  BY GoFacts
<1>r. ASSUME NEW after \in {"top", "gone", "leaving"}, Report(a, after), Born(a), UNCHANGED owner
      PROVE  /\ thread' \in [Agents -> Threads] /\ cell' \in [Agents -> Cells] /\ noticed' \subseteq Helpers
             /\ UNCHANGED <<owner, line, nursery, broken, posts, jobs, struck, asked, sent>>
             /\ Leads'
  <2>0. after \in Pcs
    BY DEF Pcs
  <2>1. /\ thread' \in [Agents -> Threads]
        /\ Tells(a) => a \in Helpers /\ thread'[a].pc = "posting" /\ thread'[a].after = after
        /\ ~Tells(a) => thread'[a].pc = after
        /\ \A b \in Agents : b # a => thread'[b] = thread[b]
        /\ noticed' = IF Tells(a) /\ a \in broken THEN noticed \cup {a} ELSE noticed
        /\ Settles(a) /\ UNCHANGED <<kin, nursery, broken, posts, books>>
    BY <1>r, <2>0, ReportFacts
  <2>2. Leads'
    BY <1>r, <2>1, MoveLeads
  <2>3. noticed' \subseteq Helpers
    BY <2>1 DEF TypeOK
  <2>4. cell' \in [Agents -> Cells]
    BY <2>1, SettlesFacts
  <2> QED
    BY <2>1, <2>2, <2>3, <2>4 DEF kin, books
<1>1. ASSUME NextEnded(a)
      PROVE  TypeOK' /\ Leads'
  <2>0. Born(a) /\ UNCHANGED owner
    BY <1>1 DEF NextEnded, At, Born, kin, fleet
  <2>1. thread' \in [Agents -> Threads] /\ Leads'
    BY <1>1, <2>0, <1>g, MoveLeads DEF NextEnded, Pcs
  <2> QED
    BY <1>1, <2>1 DEF NextEnded, TypeOK, kin, fleet, books
<1>2. ASSUME Decline(a)
      PROVE  TypeOK' /\ Leads'
  <2>0. Born(a) /\ UNCHANGED owner
    BY <1>2 DEF Decline, At, Born, kin, fleet
  <2>1. thread' \in [Agents -> Threads] /\ Leads'
    BY <1>2, <2>0, <1>g, MoveLeads DEF Decline, Pcs
  <2> QED
    BY <1>2, <2>1 DEF Decline, TypeOK, kin, fleet, books
<1>3. ASSUME ExchangeEnds(a)
      PROVE  TypeOK' /\ Leads'
  <2>0. Born(a) /\ UNCHANGED owner
    BY <1>3 DEF ExchangeEnds, At, Born, kin, fleet
  <2>1. thread' \in [Agents -> Threads] /\ Leads'
    BY <1>3, <2>0, <1>g, MoveLeads DEF ExchangeEnds, Pcs
  <2> QED
    BY <1>3, <2>1 DEF ExchangeEnds, TypeOK, kin, fleet, books
<1>4. ASSUME NextIdles(a)
      PROVE  TypeOK' /\ Leads'
  <2>0. Born(a) /\ UNCHANGED owner
    BY <1>4 DEF NextIdles, At, Born, kin, fleet
  <2>1. thread' \in [Agents -> Threads] /\ Leads'
    BY <1>4, <2>0, <1>g, MoveLeads DEF NextIdles, Pcs
  <2> QED
    BY <1>4, <2>1 DEF NextIdles, TypeOK, kin, fleet, books
<1>5. ASSUME ReadRest(a)
      PROVE  TypeOK' /\ Leads'
  <2>0. Born(a) /\ UNCHANGED owner
    BY <1>5 DEF ReadRest, At, Born, kin, fleet
  <2>3. PICK pending \in BOOLEAN : thread' = [thread EXCEPT ![a] = [Idle EXCEPT !.pc = "next", !.pending = pending]]
    BY <1>5 DEF ReadRest
  <2>1. /\ thread' \in [Agents -> Threads] /\ thread'[a].pc = "next"
        /\ \A b \in Agents : b # a => thread'[b] = thread[b]
    BY <2>3, ItemFacts DEF TypeOK, Idle, Threads, Pcs
  <2>2. Leads'
    BY <2>0, <2>1, MoveLeads
  <2> QED
    BY <1>5, <2>1, <2>2 DEF ReadRest, TypeOK, kin, fleet, books
<1>6. ASSUME Joins(a)
      PROVE  TypeOK' /\ Leads'
  <2>0. Born(a) /\ UNCHANGED owner
    BY <1>6 DEF Joins, At, Born, kin, fleet
  <2>1. thread[a].after \in {"cleared", "work", "gone", "unwound"}
    BY <1>6 DEF Joins, Leads
  <2>2. thread' \in [Agents -> Threads] /\ Leads'
    BY <1>6, <2>0, <2>1, <1>g, MoveLeads DEF Joins, Pcs
  <2> QED
    BY <1>6, <2>2 DEF Joins, TypeOK, kin, fleet, books
<1>7. ASSUME NextItem(a)
      PROVE  TypeOK' /\ Leads'
  <2>0. Born(a) /\ UNCHANGED owner
    BY <1>7 DEF NextItem, At, Born, kin
  <2>1. PICK i \in DOMAIN cell[a].queue :
           LET item == cell[a].queue[i] IN
           /\ item \in Items
           /\ \/ /\ cell' = Taken(a, {i}) /\ thread' = Go(a, "top")
                 /\ nursery' = [nursery EXCEPT ![a] = nursery[a] \ {item.from}]
              \/ cell' = Taken(a, {i}) /\ thread' = Go(a, "clear") /\ UNCHANGED nursery
              \/ /\ thread' = Hold(a, item) /\ UNCHANGED nursery
                 /\ cell' = [Taken(a, RunFrom(a, i)) EXCEPT ![a].cut = FALSE]
           /\ UNCHANGED <<kin, dead, broken, noticed, posts, books>>
    BY <1>7, NextItemFacts
  <2>2. {i} \in SUBSET (DOMAIN cell[a].queue) /\ RunFrom(a, i) \in SUBSET (DOMAIN cell[a].queue)
    BY RunFromFacts
  <2>3. Taken(a, {i}) \in [Agents -> Cells] /\ Taken(a, RunFrom(a, i)) \in [Agents -> Cells]
    BY <2>2, TakenFacts
  <2>4. [Taken(a, RunFrom(a, i)) EXCEPT ![a].cut = FALSE] \in [Agents -> Cells]
    BY <2>3 DEF Cells
  <2>5. cell' \in [Agents -> Cells]
    BY <2>1, <2>3, <2>4
  <2>6. thread' \in [Agents -> Threads] /\ thread'[a].pc \in {"top", "clear", "taken"}
        /\ \A b \in Agents : b # a => thread'[b] = thread[b]
    BY <2>1, <1>g, HoldFacts DEF Pcs
  <2>7. Leads'
    BY <2>0, <2>6, MoveLeads
  <2>8. nursery' \in [Agents -> SUBSET Helpers]
    BY <2>1 DEF TypeOK
  <2> QED
    BY <2>1, <2>5, <2>6, <2>7, <2>8 DEF TypeOK, kin, books
<1>8. ASSUME NextSettled(a)
      PROVE  TypeOK' /\ Leads'
  <2>0. Born(a) /\ UNCHANGED owner
    BY <1>8 DEF NextSettled, At, Born, kin, fleet
  <2>1. cell' \in [Agents -> Cells]
    BY <1>8 DEF NextSettled, TypeOK, Cells
  <2>2. /\ thread' \in [Agents -> Threads] /\ thread'[a].pc \in {"settled", "top"}
        /\ \A b \in Agents : b # a => thread'[b] = thread[b]
    <3>1. CASE Owes(a)
      BY <1>8, <3>1, ItemFacts DEF NextSettled, TypeOK, Idle, Threads, Pcs
    <3>2. CASE ~Owes(a)
      BY <1>8, <3>2, <1>g DEF NextSettled, Pcs
    <3> QED
      BY <3>1, <3>2
  <2>3. Leads'
    BY <2>0, <2>2, MoveLeads
  <2> QED
    BY <1>8, <2>1, <2>2, <2>3 DEF NextSettled, TypeOK, kin, fleet, books
<1>9. ASSUME Begin(a)
      PROVE  TypeOK' /\ Leads'
  <2>0. Born(a) /\ UNCHANGED owner
    BY <1>9 DEF Begin, At, Born, kin, fleet
  <2>1. thread' \in [Agents -> Threads] /\ Leads'
    BY <1>9, <2>0, <1>g, MoveLeads DEF Begin, Pcs
  <2>2. cell' \in [Agents -> Cells] /\ jobs' \in [Agents -> Nat]
    <3>1. \/ UNCHANGED <<cell, jobs>>
          \/ cell' = Opened(a) /\ jobs' = [jobs EXCEPT ![a] = jobs[a] + 1]
      BY <1>9 DEF Begin, TypeOK
    <3>2. Opened(a) \in [Agents -> Cells]
      BY OpenedFacts
    <3> QED
      BY <3>1, <3>2 DEF TypeOK
  <2> QED
    BY <1>9, <2>1, <2>2 DEF Begin, TypeOK, kin, fleet
<1>10. ASSUME ClearEnds(a)
      PROVE  TypeOK' /\ Leads'
  <2>0. Born(a) /\ UNCHANGED owner
    BY <1>10 DEF ClearEnds, At, Born, kin, fleet
  <2>1. nursery[a] \in SUBSET Helpers
    BY DEF TypeOK
  <2>2. thread' \in [Agents -> Threads] /\ thread'[a].after = "cleared" /\ thread'[a].pc = "joining"
        /\ \A b \in Agents : b # a => thread'[b] = thread[b]
    BY <1>10, <2>1, JoinFacts DEF ClearEnds, Pcs
  <2>3. Leads'
    BY <2>0, <2>2, MoveLeads
  <2> QED
    BY <1>10, <2>1, <2>2, <2>3, AgentsFacts DEF ClearEnds, TypeOK, kin, fleet, books
<1>11. ASSUME Leave(a)
      PROVE  TypeOK' /\ Leads'
  <2>0. Born(a) /\ UNCHANGED owner
    BY <1>11 DEF Leave, At, Born, kin, fleet
  <2>1. nursery[a] \in SUBSET Helpers
    BY DEF TypeOK
  <2>2. thread' \in [Agents -> Threads] /\ thread'[a].after = "gone" /\ thread'[a].pc = "joining"
        /\ \A b \in Agents : b # a => thread'[b] = thread[b]
    BY <1>11, <2>1, JoinFacts DEF Leave, Pcs
  <2>3. Leads'
    BY <2>0, <2>2, MoveLeads
  <2> QED
    BY <1>11, <2>1, <2>2, <2>3, AgentsFacts DEF Leave, TypeOK, kin, fleet, books
<1>12. ASSUME Panics(a)
      PROVE  TypeOK' /\ Leads'
  <2>0. Born(a) /\ UNCHANGED owner
    BY <1>12 DEF Panics, Exposed, At, Born, kin, fleet
  <2>1. nursery[a] \in SUBSET Helpers
    BY DEF TypeOK
  <2>2. thread' \in [Agents -> Threads] /\ thread'[a].after = "unwound" /\ thread'[a].pc = "joining"
        /\ \A b \in Agents : b # a => thread'[b] = thread[b]
    BY <1>12, <2>1, JoinFacts DEF Panics, Pcs
  <2>3. Leads'
    BY <2>0, <2>2, MoveLeads
  <2> QED
    BY <1>12, <2>1, <2>2, <2>3, AgentsFacts DEF Panics, TypeOK, kin, fleet, books
<1>13. ASSUME Dismiss(a)
      PROVE  TypeOK' /\ Leads'
  <2>0. Born(a) /\ UNCHANGED owner
    BY <1>13 DEF Dismiss, At, Born, kin
  <2>1. PICK h \in nursery[a] :
           /\ dead' = dead \cup {h} /\ nursery' = [nursery EXCEPT ![a] = @ \ {h}]
           /\ thread' = Join(a, {h}, "work") /\ sent' = sent \cup {h}
           /\ UNCHANGED <<cell, kin, broken, noticed, posts, jobs, struck, asked>>
    BY <1>13 DEF Dismiss
  <2>2. h \in Helpers /\ {h} \in SUBSET Helpers
    BY DEF TypeOK
  <2>3. thread' \in [Agents -> Threads] /\ thread'[a].after = "work" /\ thread'[a].pc = "joining"
        /\ \A b \in Agents : b # a => thread'[b] = thread[b]
    BY <2>1, <2>2, JoinFacts DEF Pcs
  <2>4. Leads'
    BY <2>0, <2>3, MoveLeads
  <2> QED
    BY <2>1, <2>2, <2>3, <2>4, AgentsFacts DEF TypeOK, kin
<1>14. ASSUME Cleared(a)
      PROVE  TypeOK' /\ Leads'
  <2>0. Born(a) /\ UNCHANGED owner
    BY <1>14 DEF Cleared, At, Born, kin, fleet
  <2>1. thread' \in [Agents -> Threads] /\ Leads'
    BY <1>14, <2>0, <1>g, MoveLeads DEF Cleared, Pcs
  <2> DEFINE q == Without(a, {"Child", "Surface", "Gone"})
  <2>2. q \in Seq(Items)
    BY WithoutFacts
  <2>3. cell' = IF a \in broken THEN cell ELSE [cell EXCEPT ![a].queue = q]
    BY <1>14 DEF Cleared
  <2> HIDE DEF q
  <2>4. cell' \in [Agents -> Cells]
    BY <2>2, <2>3 DEF TypeOK, Cells
  <2> QED
    BY <1>14, <2>1, <2>4 DEF Cleared, TypeOK, kin, fleet, books
<1>15. ASSUME Deliver(a)
      PROVE  TypeOK' /\ Leads'
  <2>0. Born(a) /\ UNCHANGED owner
    BY <1>15 DEF Deliver, At, Born, kin, fleet
  <2>1. thread[a].after \in {"top", "leaving", "gone"} /\ a \in Helpers /\ owner[a] \in Agents
    BY <1>15, <2>0 DEF Deliver, Leads
  <2>2. thread' \in [Agents -> Threads] /\ Leads'
    BY <1>15, <2>0, <2>1, <1>g, MoveLeads DEF Deliver, Pcs
  <2>3. Queued(owner[a], Item("Child", a)) \in [Agents -> Cells]
    BY <2>1, ItemFacts, QueuedFacts DEF Kinds, Posts
  <2>4. cell' \in [Agents -> Cells]
    BY <1>15, <2>3 DEF Deliver, TypeOK
  <2> QED
    BY <1>15, <2>2, <2>4 DEF Deliver, TypeOK, kin, fleet
<1>16. ASSUME Gone(a)
      PROVE  TypeOK' /\ Leads'
  <2>0. Born(a) /\ UNCHANGED owner
    BY <1>16 DEF Gone, At, Born, kin, fleet
  <2>1. thread' \in [Agents -> Threads] /\ Leads'
    BY <1>16, <2>0, <1>g, MoveLeads DEF Gone, Pcs
  <2>2. a # 1 => owner[a] \in Agents
    BY <2>0 DEF Leads, Helpers
  <2>3. a # 1 => Queued(owner[a], Item("Gone", a)) \in [Agents -> Cells]
    BY <2>2, ItemFacts, QueuedFacts DEF Kinds
  <2>4. cell' \in [Agents -> Cells]
    BY <1>16, <2>3 DEF Gone, TypeOK
  <2> QED
    BY <1>16, <2>1, <2>4 DEF Gone, TypeOK, kin, fleet, books
<1>17. ASSUME Settled(a)
      PROVE  TypeOK' /\ Leads'
  <2>0. Born(a) /\ UNCHANGED owner
    BY <1>17 DEF Settled, At, Born, Report, kin
  <2>1. Report(a, "top") /\ UNCHANGED dead
    BY <1>17 DEF Settled
  <2> QED
    BY <2>0, <2>1, <1>r DEF TypeOK, Pcs
<1>18. ASSUME Unwound(a)
      PROVE  TypeOK' /\ Leads'
  <2>0. Born(a) /\ UNCHANGED owner
    BY <1>18 DEF Unwound, At, Born, Report, kin
  <2>1. Report(a, "gone") /\ UNCHANGED dead
    BY <1>18 DEF Unwound
  <2> QED
    BY <2>0, <2>1, <1>r DEF TypeOK, Pcs
<1>19. ASSUME Replies(a)
      PROVE  TypeOK' /\ Leads'
  <2>0. Born(a) /\ UNCHANGED owner
    BY <1>19 DEF Replies, At, Born, Report, kin
  <2>1. Report(a, "top") /\ UNCHANGED dead
    BY <1>19 DEF Replies
  <2> QED
    BY <2>0, <2>1, <1>r DEF TypeOK, Pcs
<1>20. ASSUME Down(a)
      PROVE  TypeOK' /\ Leads'
  <2>0. Born(a) /\ UNCHANGED owner
    BY <1>20 DEF Down, At, Born, Report, kin
  <2>1. dead' = dead \cup {a}
    BY <1>20 DEF Down
  <2>2. CASE Owes(a)
    <3>1. Report(a, "leaving")
      BY <1>20, <2>2 DEF Down
    <3> QED
      BY <2>0, <2>1, <3>1, <1>r DEF TypeOK, Pcs
  <2>3. CASE ~Owes(a)
    <3>1. thread' \in [Agents -> Threads] /\ Leads'
      BY <1>20, <2>0, <2>3, <1>g, MoveLeads DEF Down, Pcs
    <3> QED
      BY <1>20, <2>1, <2>3, <3>1 DEF Down, TypeOK, kin, books
  <2> QED
    BY <2>2, <2>3
<1>21. ASSUME Spawn(a)
      PROVE  TypeOK' /\ Leads'
  <2>1. PICK h \in Unborn :
           /\ owner' = [owner EXCEPT ![h] = a] /\ line' = [line EXCEPT ![h] = Under(a, h)]
           /\ nursery' = [nursery EXCEPT ![a] = @ \cup {h}] /\ thread' = Go(h, "top")
           /\ cell' = IF Live(a) THEN Queued(h, Item("Task", a)) ELSE cell
           /\ asked' = IF Live(a) THEN asked \cup {h} ELSE asked
           /\ UNCHANGED <<dead, broken, noticed, posts, jobs, struck, sent>>
    BY <1>21, SpawnFacts
  <2>2. h \in Helpers /\ h \in Agents
    BY AgentsFacts DEF Unborn
  <2>3. thread' \in [Agents -> Threads] /\ thread'[h].pc = "top"
        /\ \A b \in Agents : b # h => thread'[b] = thread[b]
    BY <2>1, <2>2, GoFacts DEF Pcs
  <2>4. /\ owner' \in [Helpers -> Agents \cup {0}] /\ nursery' \in [Agents -> SUBSET Helpers]
        /\ line' \in [Agents -> SUBSET (Agents \cup {Human})]
    BY <2>1, <2>2 DEF TypeOK, Under
  <2>5. Queued(h, Item("Task", a)) \in [Agents -> Cells]
    BY <2>2, ItemFacts, QueuedFacts DEF Kinds, Posts
  <2>6. cell' \in [Agents -> Cells]
    BY <2>1, <2>5 DEF TypeOK
  <2>7. owner'[h] = a /\ \A g \in Helpers : g # h => owner'[g] = owner[g]
    BY <2>1, <2>2 DEF TypeOK
  <2>8. Leads'
    BY <2>3, <2>7 DEF Leads, At, Born
  <2> QED
    BY <2>1, <2>2, <2>3, <2>4, <2>6, <2>8 DEF TypeOK
<1>22. ASSUME Drain(a)
      PROVE  TypeOK' /\ Leads'
  <2>1. PICK taken \in SUBSET (DOMAIN cell[a].queue) : \E gones :
           cell' = Taken(a, taken) /\ nursery' = [nursery EXCEPT ![a] = nursery[a] \ gones]
    BY <1>22, DrainFacts
  <2>2. cell' \in [Agents -> Cells] /\ nursery' \in [Agents -> SUBSET Helpers]
    BY <2>1, TakenFacts DEF TypeOK
  <2>3. UNCHANGED <<thread, kin, dead, broken, noticed, posts, books>>
    BY <1>22 DEF Drain
  <2> QED
    BY <2>2, <2>3 DEF TypeOK, Leads, At, Born, kin, books
<1>23. ASSUME Steer(a)
      PROVE  TypeOK' /\ Leads'
  <2>1. PICK b \in Agents, item \in Items : Post(b, item)
    BY <1>23, ItemFacts DEF Steer, Kinds, Posts
  <2>2. cell' \in [Agents -> Cells] /\ posts' \in Nat
    <3>1. cell' = Queued(b, item) /\ posts' = posts + 1
      BY <2>1 DEF Post
    <3>2. Queued(b, item) \in [Agents -> Cells]
      BY QueuedFacts
    <3> QED
      BY <3>1, <3>2 DEF TypeOK
  <2>3. asked' \subseteq Helpers
    BY <2>1 DEF Post, ByParent, Helpers, TypeOK
  <2>4. UNCHANGED <<thread, kin, nursery, dead, broken, noticed, jobs, struck, sent>>
    BY <1>23 DEF Steer
  <2> QED
    BY <2>2, <2>3, <2>4 DEF TypeOK, Leads, At, Born, kin
<1>24. ASSUME Tell(a)
      PROVE  TypeOK' /\ Leads'
  <2>1. PICK b \in Agents, item \in Items : Post(b, item)
    BY <1>24, ItemFacts DEF Tell, Kinds, Posts
  <2>2. cell' \in [Agents -> Cells] /\ posts' \in Nat
    <3>1. cell' = Queued(b, item) /\ posts' = posts + 1
      BY <2>1 DEF Post
    <3>2. Queued(b, item) \in [Agents -> Cells]
      BY QueuedFacts
    <3> QED
      BY <3>1, <3>2 DEF TypeOK
  <2>3. asked' \subseteq Helpers
    BY <2>1 DEF Post, ByParent, Helpers, TypeOK
  <2>4. UNCHANGED <<thread, kin, nursery, dead, broken, noticed, jobs, struck, sent>>
    BY <1>24 DEF Tell
  <2> QED
    BY <2>2, <2>3, <2>4 DEF TypeOK, Leads, At, Born, kin
<1>25. ASSUME HumanStops(a)
      PROVE  TypeOK' /\ Leads'
  <2>1. PICK b \in Agents, recalls \in BOOLEAN : \E job : Stop(b, job, recalls)
    BY <1>25, AgentsFacts DEF HumanStops
  <2>2. PICK job : Stop(b, job, recalls)
    BY <2>1
  <2>5. job \in Nat
    BY <2>2 DEF Stop, TypeOK, Cells
  <2>3. cell' \in [Agents -> Cells] /\ struck' \in [Agents -> SUBSET Nat]
    <3>1. cell' \in [Agents -> Cells] /\ struck' = [struck EXCEPT ![b] = struck[b] \cup {job}]
      BY <2>2, StopFacts
    <3> QED
      BY <2>5, <3>1 DEF TypeOK
  <2>4. UNCHANGED <<thread, kin, nursery, dead, broken, noticed, posts, jobs, asked, sent>>
    BY <1>25 DEF HumanStops, fleet
  <2> QED
    BY <2>3, <2>4 DEF TypeOK, Leads, At, Born, kin
<1>26. ASSUME AgentStops(a)
      PROVE  TypeOK' /\ Leads'
  <2>1. PICK b \in Agents, recalls \in BOOLEAN : \E job : Stop(b, job, recalls)
    BY <1>26, AgentsFacts DEF AgentStops
  <2>2. PICK job : Stop(b, job, recalls)
    BY <2>1
  <2>5. job \in Nat
    BY <2>2 DEF Stop, TypeOK, Cells
  <2>3. cell' \in [Agents -> Cells] /\ struck' \in [Agents -> SUBSET Nat]
    <3>1. cell' \in [Agents -> Cells] /\ struck' = [struck EXCEPT ![b] = struck[b] \cup {job}]
      BY <2>2, StopFacts
    <3> QED
      BY <2>5, <3>1 DEF TypeOK
  <2>4. UNCHANGED <<thread, kin, nursery, dead, broken, noticed, posts, jobs, asked, sent>>
    BY <1>26 DEF AgentStops, fleet
  <2> QED
    BY <2>3, <2>4 DEF TypeOK, Leads, At, Born, kin
<1>27. ASSUME Breaks(a)
      PROVE  TypeOK' /\ Leads'
  BY <1>27, AgentsFacts DEF Breaks, TypeOK, Leads, At, Born, kin, books
<1> QED
  BY <1>1, <1>2, <1>3, <1>4, <1>5, <1>6, <1>7, <1>8, <1>9, <1>10, <1>11, <1>12, <1>13, <1>14, <1>15, <1>16, <1>17, <1>18, <1>19, <1>20, <1>21, <1>22, <1>23, <1>24, <1>25, <1>26, <1>27
  DEF ActsOf, Attends, Works, Outside

-----------------------------------------------------------------------------
(* What a step may do, variable by variable. *)

\* A thread's next place, and where a report or a join leaves from.
Path(s, t) ==
  /\ t.pc # "taken" => t.item = NoItem
  /\ \/ s.pc = "unborn"  /\ t.pc = "top"
     \/ s.pc \in Exposed /\ t.pc = "joining" /\ t.after = "unwound"
     \/ s.pc = "top"     /\ t.pc = "next"
     \/ s.pc = "next"    /\ t.pc \in {"down", "top", "clear", "taken", "settled"}
     \/ s.pc = "settled" /\ (t.pc = "top" \/ (t.pc = "posting" /\ t.after = "top"))
     \/ s.pc = "taken"   /\ t.pc \in {"top", "down", "work"}
     \/ s.pc = "work"    /\ \/ t.pc = "top" \/ (t.pc = "joining" /\ t.after = "work")
                            \/ (t.pc = "posting" /\ t.after = "top")
     \/ s.pc = "clear"   /\ t.pc = "joining" /\ t.after = "cleared"
     \/ s.pc = "cleared" /\ t.pc = "top"
     \/ s.pc \in {"joining", "posting"} /\ t.pc = s.after
     \/ s.pc = "down"    /\ (t.pc = "leaving" \/ (t.pc = "posting" /\ t.after = "leaving"))
     \/ s.pc = "leaving" /\ t.pc = "joining" /\ t.after = "gone"
     \/ s.pc = "unwound" /\ (t.pc = "gone" \/ (t.pc = "posting" /\ t.after = "gone"))
     \/ s.pc = "gone"    /\ t.pc = "over"

\* No step moves two threads, and none off its path.
Moved(a) == /\ Path(thread[a], thread'[a])
            /\ \A b \in Agents : b # a => thread'[b] = thread[b]
Unmoved  == thread' = thread

LEMMA OneMoves ==
  ASSUME TypeOK, Leads, NEW a \in Agents, ActsOf(a)
  PROVE  \/ Unmoved \/ Moved(a)
         \/ Spawn(a) /\ \E h \in Unborn : Moved(h)
<1>g. \A s \in Pcs : /\ Go(a, s)[a].pc = s /\ Go(a, s)[a].item = NoItem
                     /\ \A b \in Agents : b # a => Go(a, s)[b] = thread[b]
  BY GoFacts
<1>1. ASSUME NextEnded(a)
      PROVE  Moved(a)
  BY <1>1, <1>g DEF NextEnded, Moved, Path, Exposed, At, Pcs
<1>2. ASSUME Decline(a)
      PROVE  Moved(a)
  BY <1>2, <1>g DEF Decline, Moved, Path, Exposed, At, Pcs
<1>3. ASSUME ExchangeEnds(a)
      PROVE  Moved(a)
  BY <1>3, <1>g DEF ExchangeEnds, Moved, Path, Exposed, At, Pcs
<1>4. ASSUME NextIdles(a)
      PROVE  Moved(a)
  BY <1>4, <1>g DEF NextIdles, Moved, Path, Exposed, At, Pcs
<1>5. ASSUME Begin(a)
      PROVE  Moved(a)
  BY <1>5, <1>g DEF Begin, Moved, Path, Exposed, At, Pcs
<1>6. ASSUME Cleared(a)
      PROVE  Moved(a)
  BY <1>6, <1>g DEF Cleared, Moved, Path, Exposed, At, Pcs
<1>7. ASSUME Gone(a)
      PROVE  Moved(a)
  BY <1>7, <1>g DEF Gone, Moved, Path, Exposed, At, Pcs
<1>8. ASSUME Joins(a)
      PROVE  Moved(a)
  <2>1. thread[a].after \in Pcs
    BY <1>8 DEF Joins, Leads, At, Pcs
  <2> QED
    BY <1>8, <2>1, <1>g DEF Joins, Moved, Path, Exposed, At
<1>9. ASSUME Deliver(a)
      PROVE  Moved(a)
  <2>1. thread[a].after \in Pcs
    BY <1>9 DEF Deliver, Leads, At, Pcs
  <2> QED
    BY <1>9, <2>1, <1>g DEF Deliver, Moved, Path, Exposed, At
<1>10. ASSUME ReadRest(a)
      PROVE  Moved(a)
  <2>1. PICK pending \in BOOLEAN : thread' = [thread EXCEPT ![a] = [Idle EXCEPT !.pc = "next", !.pending = pending]]
    BY <1>10 DEF ReadRest
  <2>2. /\ thread'[a].pc = "next" /\ thread'[a].item = NoItem
        /\ \A b \in Agents : b # a => thread'[b] = thread[b]
    BY <2>1 DEF TypeOK, Idle
  <2> QED
    BY <1>10, <2>2 DEF ReadRest, Moved, Path, Exposed, At
<1>11. ASSUME NextItem(a)
      PROVE  Moved(a)
  <2>1. PICK i \in DOMAIN cell[a].queue : 
           LET item == cell[a].queue[i] IN
           /\ item \in Items /\ At(a, "next")
           /\ thread' = Go(a, "top") \/ thread' = Go(a, "clear") \/ thread' = Hold(a, item)
    BY <1>11, NextItemFacts
  <2>2. LET item == cell[a].queue[i] IN
        Hold(a, item)[a].pc = "taken" /\ \A b \in Agents : b # a => Hold(a, item)[b] = thread[b]
    BY <2>1, HoldFacts
  <2> QED
    BY <2>1, <2>2, <1>g DEF Moved, Path, Exposed, At, Pcs
<1>12. ASSUME NextSettled(a)
      PROVE  Moved(a)
  <2>1. CASE Owes(a)
    <3>1. /\ thread'[a].pc = "settled" /\ thread'[a].item = NoItem
          /\ \A b \in Agents : b # a => thread'[b] = thread[b]
      BY <1>12, <2>1 DEF NextSettled, TypeOK, Idle
    <3> QED
      BY <3>1, <1>12 DEF NextSettled, Moved, Path, Exposed, At
  <2>2. CASE ~Owes(a)
    BY <1>12, <2>2, <1>g DEF NextSettled, Moved, Path, Exposed, At, Pcs
  <2> QED
    BY <2>1, <2>2
<1>13. ASSUME ClearEnds(a)
      PROVE  Moved(a)
  <2>1. nursery[a] \in SUBSET Helpers
    BY DEF TypeOK
  <2>2. /\ thread'[a].after = "cleared" /\ thread'[a].pc = "joining" /\ thread'[a].item = NoItem
        /\ \A b \in Agents : b # a => thread'[b] = thread[b]
    BY <1>13, <2>1, JoinFacts DEF ClearEnds, Pcs
  <2> QED
    BY <1>13, <2>2 DEF ClearEnds, Moved, Path, Exposed, At
<1>14. ASSUME Leave(a)
      PROVE  Moved(a)
  <2>1. nursery[a] \in SUBSET Helpers
    BY DEF TypeOK
  <2>2. /\ thread'[a].after = "gone" /\ thread'[a].pc = "joining" /\ thread'[a].item = NoItem
        /\ \A b \in Agents : b # a => thread'[b] = thread[b]
    BY <1>14, <2>1, JoinFacts DEF Leave, Pcs
  <2> QED
    BY <1>14, <2>2 DEF Leave, Moved, Path, Exposed, At
<1>15. ASSUME Panics(a)
      PROVE  Moved(a)
  <2>1. nursery[a] \in SUBSET Helpers
    BY DEF TypeOK
  <2>2. /\ thread'[a].after = "unwound" /\ thread'[a].pc = "joining" /\ thread'[a].item = NoItem
        /\ \A b \in Agents : b # a => thread'[b] = thread[b]
    BY <1>15, <2>1, JoinFacts DEF Panics, Pcs
  <2> QED
    BY <1>15, <2>2 DEF Panics, Moved, Path, Exposed, At
<1>16. ASSUME Dismiss(a)
      PROVE  Moved(a)
  <2>1. PICK h \in nursery[a] : thread' = Join(a, {h}, "work")
    BY <1>16 DEF Dismiss
  <2>2. {h} \in SUBSET Helpers
    BY DEF TypeOK
  <2>3. /\ thread'[a].after = "work" /\ thread'[a].pc = "joining" /\ thread'[a].item = NoItem
        /\ \A b \in Agents : b # a => thread'[b] = thread[b]
    BY <2>1, <2>2, JoinFacts DEF Pcs
  <2> QED
    BY <1>16, <2>3 DEF Dismiss, Moved, Path, Exposed, At
<1>17. ASSUME Settled(a)
      PROVE  Moved(a)
  <2>1. Report(a, "top") /\ "top" \in Pcs
    BY <1>17 DEF Settled, Pcs
  <2>2. /\ \/ thread'[a].pc = "posting" /\ thread'[a].after = "top"
           \/ thread'[a].pc = "top"
        /\ thread'[a].item = NoItem /\ \A b \in Agents : b # a => thread'[b] = thread[b]
    BY <2>1, ReportFacts
  <2> QED
    BY <1>17, <2>2 DEF Settled, Moved, Path, Exposed, At
<1>18. ASSUME Unwound(a)
      PROVE  Moved(a)
  <2>1. Report(a, "gone") /\ "gone" \in Pcs
    BY <1>18 DEF Unwound, Pcs
  <2>2. /\ \/ thread'[a].pc = "posting" /\ thread'[a].after = "gone"
           \/ thread'[a].pc = "gone"
        /\ thread'[a].item = NoItem /\ \A b \in Agents : b # a => thread'[b] = thread[b]
    BY <2>1, ReportFacts
  <2> QED
    BY <1>18, <2>2 DEF Unwound, Moved, Path, Exposed, At
<1>19. ASSUME Replies(a)
      PROVE  Moved(a)
  <2>1. Report(a, "top") /\ "top" \in Pcs
    BY <1>19 DEF Replies, Pcs
  <2>2. /\ \/ thread'[a].pc = "posting" /\ thread'[a].after = "top"
           \/ thread'[a].pc = "top"
        /\ thread'[a].item = NoItem /\ \A b \in Agents : b # a => thread'[b] = thread[b]
    BY <2>1, ReportFacts
  <2> QED
    BY <1>19, <2>2 DEF Replies, Moved, Path, Exposed, At
<1>20. ASSUME Down(a)
      PROVE  Moved(a)
  <2>1. CASE Owes(a)
    <3>1. Report(a, "leaving") /\ "leaving" \in Pcs
      BY <1>20, <2>1 DEF Down, Pcs
    <3>2. /\ \/ thread'[a].pc = "posting" /\ thread'[a].after = "leaving"
             \/ thread'[a].pc = "leaving"
          /\ thread'[a].item = NoItem /\ \A b \in Agents : b # a => thread'[b] = thread[b]
      BY <3>1, ReportFacts
    <3> QED
      BY <1>20, <3>2 DEF Down, Moved, Path, Exposed, At
  <2>2. CASE ~Owes(a)
    BY <1>20, <2>2, <1>g DEF Down, Moved, Path, Exposed, At, Pcs
  <2> QED
    BY <2>1, <2>2
<1>21. ASSUME Spawn(a)
      PROVE  Spawn(a) /\ \E h \in Unborn : Moved(h)
  <2>1. PICK h \in Unborn : thread' = Go(h, "top")
    BY <1>21, SpawnFacts
  <2>2. h \in Agents /\ At(h, "unborn")
    BY AgentsFacts DEF Unborn
  <2>3. Go(h, "top")[h].pc = "top" /\ Go(h, "top")[h].item = NoItem
        /\ \A b \in Agents : b # h => Go(h, "top")[b] = thread[b]
    BY <2>2, GoFacts DEF Pcs
  <2>4. Moved(h)
    BY <2>1, <2>2, <2>3 DEF Moved, Path, Exposed, At
  <2> QED
    BY <2>4, <1>21
<1>22. ASSUME Tell(a)
      PROVE  Unmoved
  BY <1>22 DEF Tell, Unmoved
<1>23. ASSUME AgentStops(a)
      PROVE  Unmoved
  BY <1>23 DEF AgentStops, Unmoved
<1>24. ASSUME Drain(a)
      PROVE  Unmoved
  BY <1>24 DEF Drain, Unmoved
<1>25. ASSUME Steer(a)
      PROVE  Unmoved
  BY <1>25 DEF Steer, Unmoved
<1>26. ASSUME HumanStops(a)
      PROVE  Unmoved
  BY <1>26 DEF HumanStops, Unmoved
<1>27. ASSUME Breaks(a)
      PROVE  Unmoved
  BY <1>27 DEF Breaks, Unmoved
<1> QED
  BY <1>1, <1>2, <1>3, <1>4, <1>5, <1>6, <1>7, <1>8, <1>9, <1>10, <1>11, <1>12, <1>13, <1>14, <1>15, <1>16, <1>17, <1>18, <1>19, <1>20, <1>21, <1>22, <1>23, <1>24, <1>25, <1>26, <1>27
  DEF ActsOf, Attends, Works, Outside

\* Who may post what: the human and workers anything of theirs, a working agent
\* its task to a newborn and its messages, and a helper its notice and its
\* farewell to its parent, as it lets its cell go and as it ends.
Sends(b, item) ==
  \/ item.kind \in {"Human", "Clear", "Surface"}
  \/ item.kind = "Message" /\ item.from \in Agents /\ At(item.from, "work")
  \/ item.kind = "Task" /\ item.from \in Agents /\ At(item.from, "work") /\ At(b, "unborn")
                        /\ owner'[b] = item.from
  \/ item.kind = "Child" /\ item.from \in Helpers /\ owner[item.from] = b /\ Locked(item.from) /\ Live(b)
                         /\ thread'[item.from].pc = thread[item.from].after
  \/ item.kind = "Gone" /\ item.from \in Helpers /\ owner[item.from] = b /\ At(item.from, "gone")
                        /\ thread'[item.from].pc = "over"

\* A queue is added to at its end, or kept in part; and what is being answered
\* was asked.
CellStep(b) ==
  /\ \/ Within(cell'[b].queue, cell[b].queue)
     \/ \E item \in Items : cell'[b].queue = Append(cell[b].queue, item) /\ Sends(b, item)
  /\ cell'[b].answering => cell[b].answering \/ Asks(b)

\* A cell that keeps its queue and its debt takes such a step, and so does one
\* that is posted to.
LEMMA StillCell ==
  ASSUME TypeOK, NEW b \in Agents, cell'[b].queue = cell[b].queue, cell'[b].answering = cell[b].answering
  PROVE  CellStep(b)
BY DEF CellStep, Within

LEMMA PostedCell ==
  ASSUME TypeOK, NEW b \in Agents, NEW item \in Items, cell' = Queued(b, item), Sends(b, item)
  PROVE  \A c \in Agents : CellStep(c)
<1>1. \A c \in Agents : c # b => cell'[c] = cell[c]
  BY QueuedFacts
<1>2. cell'[b].queue = Append(cell[b].queue, item) /\ cell'[b].answering = cell[b].answering
  BY QueuedFacts
<1>3. CellStep(b)
  BY <1>2 DEF CellStep
<1>4. \A c \in Agents : c # b => CellStep(c)
  BY <1>1, StillCell
<1> QED
  BY <1>3, <1>4

\* What a take leaves, of its own cell and of the others.
LEMMA TakenCell ==
  ASSUME TypeOK, NEW a \in Agents, NEW taken \in SUBSET (DOMAIN cell[a].queue),
         \A b \in Agents : /\ cell'[b].queue = Taken(a, taken)[b].queue
                           /\ cell'[b].answering = Taken(a, taken)[b].answering
  PROVE  \A b \in Agents : CellStep(b)
<1>1. /\ Taken(a, taken)[a].queue = Leaving(a, taken)
      /\ Taken(a, taken)[a].answering <=>
           cell[a].answering \/ \E i \in taken : ByParent(a, cell[a].queue[i])
      /\ \A b \in Agents : b # a => Taken(a, taken)[b] = cell[b]
  BY TakenFacts
<1>2. Within(Leaving(a, taken), cell[a].queue)
  BY LeavingFacts
<1>3. cell'[a].queue = Leaving(a, taken)
      /\ (cell'[a].answering <=> cell[a].answering \/ \E i \in taken : ByParent(a, cell[a].queue[i]))
  BY <1>1
<1>4. cell'[a].answering => cell[a].answering \/ Asks(a)
  BY <1>3 DEF Asks
<1>5. CellStep(a)
  BY <1>2, <1>3, <1>4 DEF CellStep
<1>6. \A b \in Agents : b # a => CellStep(b)
  BY <1>1, StillCell
<1> QED
  BY <1>5, <1>6

LEMMA CellSteps ==
  ASSUME TypeOK, Leads, NEW a \in Agents, ActsOf(a)
  PROVE  \A b \in Agents : CellStep(b)
<1>s. ASSUME UNCHANGED cell
      PROVE  \A b \in Agents : CellStep(b)
  BY <1>s, StillCell
<1>r. ASSUME Settles(a)
      PROVE  \A b \in Agents : CellStep(b)
  <2>1. /\ Within(cell'[a].queue, cell[a].queue)
        /\ cell' = cell \/ ~cell'[a].answering
        /\ \A b \in Agents : b # a => cell'[b] = cell[b]
    BY <1>r, SettlesFacts
  <2>2. CellStep(a)
    BY <2>1 DEF CellStep
  <2> QED
    BY <2>1, <2>2, StillCell
<1>p. ASSUME NEW b \in Agents, NEW recalls \in BOOLEAN, \E job : Stop(b, job, recalls)
      PROVE  \A c \in Agents : CellStep(c)
  <2>1. PICK job : Stop(b, job, recalls)
    BY <1>p
  <2>2. /\ cell'[b].queue = IF recalls THEN Without(b, {"Human"}) ELSE cell[b].queue
        /\ cell'[b].answering = cell[b].answering
        /\ \A c \in Agents : c # b => cell'[c] = cell[c]
    BY <2>1, StopFacts
  <2>3. Within(Without(b, {"Human"}), cell[b].queue)
    BY WithoutFacts
  <2>4. Within(cell'[b].queue, cell[b].queue)
    <3>1. Within(cell[b].queue, cell[b].queue)
      BY DEF Within
    <3> QED
      BY <2>2, <2>3, <3>1
  <2>5. CellStep(b)
    BY <2>2, <2>4 DEF CellStep
  <2> QED
    BY <2>2, <2>5, StillCell
<1>1. ASSUME NextEnded(a)
      PROVE  \A b \in Agents : CellStep(b)
  BY <1>1, <1>s DEF NextEnded
<1>2. ASSUME Decline(a)
      PROVE  \A b \in Agents : CellStep(b)
  BY <1>2, <1>s DEF Decline
<1>3. ASSUME ExchangeEnds(a)
      PROVE  \A b \in Agents : CellStep(b)
  BY <1>3, <1>s DEF ExchangeEnds
<1>4. ASSUME NextIdles(a)
      PROVE  \A b \in Agents : CellStep(b)
  BY <1>4, <1>s DEF NextIdles
<1>5. ASSUME ReadRest(a)
      PROVE  \A b \in Agents : CellStep(b)
  BY <1>5, <1>s DEF ReadRest
<1>6. ASSUME Joins(a)
      PROVE  \A b \in Agents : CellStep(b)
  BY <1>6, <1>s DEF Joins
<1>7. ASSUME ClearEnds(a)
      PROVE  \A b \in Agents : CellStep(b)
  BY <1>7, <1>s DEF ClearEnds
<1>8. ASSUME Leave(a)
      PROVE  \A b \in Agents : CellStep(b)
  BY <1>8, <1>s DEF Leave
<1>9. ASSUME Panics(a)
      PROVE  \A b \in Agents : CellStep(b)
  BY <1>9, <1>s DEF Panics
<1>10. ASSUME Dismiss(a)
      PROVE  \A b \in Agents : CellStep(b)
  BY <1>10, <1>s DEF Dismiss
<1>11. ASSUME Breaks(a)
      PROVE  \A b \in Agents : CellStep(b)
  BY <1>11, <1>s DEF Breaks
<1>12. ASSUME NextItem(a)
      PROVE  \A b \in Agents : CellStep(b)
  <2>1. PICK i \in DOMAIN cell[a].queue : 
           \/ cell' = Taken(a, {i})
           \/ cell' = [Taken(a, RunFrom(a, i)) EXCEPT ![a].cut = FALSE]
    BY <1>12, NextItemFacts
  <2>2. {i} \in SUBSET (DOMAIN cell[a].queue) /\ RunFrom(a, i) \in SUBSET (DOMAIN cell[a].queue)
    BY RunFromFacts
  <2>3. CASE cell' = Taken(a, {i})
    BY <2>2, <2>3, TakenCell
  <2>4. CASE cell' = [Taken(a, RunFrom(a, i)) EXCEPT ![a].cut = FALSE]
    <3>1. Taken(a, RunFrom(a, i)) \in [Agents -> Cells]
      BY <2>2, TakenFacts
    <3>2. \A b \in Agents : /\ cell'[b].queue = Taken(a, RunFrom(a, i))[b].queue
                           /\ cell'[b].answering = Taken(a, RunFrom(a, i))[b].answering
      BY <2>4, <3>1 DEF Cells
    <3> QED
      BY <2>2, <3>2, TakenCell
  <2> QED
    BY <2>1, <2>3, <2>4
<1>13. ASSUME NextSettled(a)
      PROVE  \A b \in Agents : CellStep(b)
  <2>1. cell' = [cell EXCEPT ![a].job = 0]
    BY <1>13 DEF NextSettled
  <2>2. \A b \in Agents : cell'[b].queue = cell[b].queue /\ cell'[b].answering = cell[b].answering
    BY <2>1 DEF TypeOK, Cells
  <2> QED
    BY <2>2, StillCell
<1>14. ASSUME Begin(a)
      PROVE  \A b \in Agents : CellStep(b)
  <2>1. cell' = cell \/ cell' = Opened(a)
    BY <1>14 DEF Begin
  <2>2. \A b \in Agents : cell'[b].queue = cell[b].queue /\ cell'[b].answering = cell[b].answering
    BY <2>1, OpenedFacts
  <2> QED
    BY <2>2, StillCell
<1>15. ASSUME Cleared(a)
      PROVE  \A b \in Agents : CellStep(b)
  <2> DEFINE q == Without(a, {"Child", "Surface", "Gone"})
  <2>1. Within(q, cell[a].queue)
    BY WithoutFacts
  <2>2. cell' = IF a \in broken THEN cell ELSE [cell EXCEPT ![a].queue = q]
    BY <1>15 DEF Cleared
  <2> HIDE DEF q
  <2>3. CASE a \notin broken
    <3>1. /\ cell'[a].queue = q /\ cell'[a].answering = cell[a].answering
          /\ \A b \in Agents : b # a => cell'[b] = cell[b]
      BY <2>2, <2>3 DEF TypeOK, Cells
    <3>2. CellStep(a)
      BY <2>1, <3>1 DEF CellStep
    <3> QED
      BY <3>1, <3>2, StillCell
  <2> QED
    BY <2>2, <2>3, <1>s
<1>16. ASSUME Deliver(a)
      PROVE  \A b \in Agents : CellStep(b)
  <2>1. a \in Helpers /\ owner[a] \in Agents
    BY <1>16 DEF Deliver, Leads, At, Born
  <2>2. CASE ~Live(owner[a])
    BY <1>16, <2>2, <1>s DEF Deliver
  <2>3. CASE Live(owner[a])
    <3>1. thread' = Go(a, thread[a].after) /\ cell' = Queued(owner[a], Item("Child", a)) /\ At(a, "posting")
      BY <1>16, <2>3 DEF Deliver
    <3>2. thread[a].after \in Pcs
      BY <3>1 DEF Leads, Pcs
    <3>3. thread'[a].pc = thread[a].after
      BY <3>1, <3>2, GoFacts
    <3>4. Item("Child", a) \in Items /\ Item("Child", a).kind = "Child" /\ Item("Child", a).from = a
      BY ItemFacts DEF Kinds, Posts
    <3>5. Sends(owner[a], Item("Child", a))
      BY <2>1, <2>3, <3>1, <3>3, <3>4 DEF Sends, Locked
    <3> QED
      BY <2>1, <3>1, <3>4, <3>5, PostedCell
  <2> QED
    BY <2>2, <2>3
<1>17. ASSUME Gone(a)
      PROVE  \A b \in Agents : CellStep(b)
  <2>1. CASE ~(a # 1 /\ Live(owner[a]))
    BY <1>17, <2>1, <1>s DEF Gone
  <2>2. CASE a # 1 /\ Live(owner[a])
    <3>1. a \in Helpers /\ owner[a] \in Agents
      BY <1>17, <2>2 DEF Gone, Leads, At, Born, Helpers
    <3>2. thread' = Go(a, "over") /\ cell' = Queued(owner[a], Item("Gone", a)) /\ At(a, "gone")
      BY <1>17, <2>2 DEF Gone
    <3>3. thread'[a].pc = "over"
      BY <3>2, GoFacts DEF Pcs
    <3>4. Item("Gone", a) \in Items /\ Item("Gone", a).kind = "Gone" /\ Item("Gone", a).from = a
      BY ItemFacts DEF Kinds
    <3>5. Sends(owner[a], Item("Gone", a))
      BY <3>1, <3>2, <3>3, <3>4 DEF Sends
    <3> QED
      BY <3>1, <3>2, <3>4, <3>5, PostedCell
  <2> QED
    BY <2>1, <2>2
<1>18. ASSUME Settled(a)
      PROVE  \A b \in Agents : CellStep(b)
  <2>1. Settles(a)
    BY <1>18 DEF Settled, Report
  <2> QED
    BY <2>1, <1>r
<1>19. ASSUME Unwound(a)
      PROVE  \A b \in Agents : CellStep(b)
  <2>1. Settles(a)
    BY <1>19 DEF Unwound, Report
  <2> QED
    BY <2>1, <1>r
<1>20. ASSUME Replies(a)
      PROVE  \A b \in Agents : CellStep(b)
  <2>1. Settles(a)
    BY <1>20 DEF Replies, Report
  <2> QED
    BY <2>1, <1>r
<1>21. ASSUME Down(a)
      PROVE  \A b \in Agents : CellStep(b)
  <2>1. Settles(a) \/ UNCHANGED cell
    BY <1>21 DEF Down, Report
  <2> QED
    BY <2>1, <1>r, <1>s
<1>22. ASSUME Spawn(a)
      PROVE  \A b \in Agents : CellStep(b)
  <2>1. PICK h \in Unborn : /\ owner' = [owner EXCEPT ![h] = a]
                            /\ cell' = IF Live(a) THEN Queued(h, Item("Task", a)) ELSE cell
    BY <1>22, SpawnFacts
  <2>2. At(a, "work") /\ h \in Agents /\ h \in Helpers /\ At(h, "unborn")
    BY <1>22, AgentsFacts DEF Spawn, Unborn
  <2>3. owner'[h] = a
    BY <2>1, <2>2 DEF TypeOK
  <2>4. Item("Task", a) \in Items /\ Item("Task", a).kind = "Task" /\ Item("Task", a).from = a
    BY ItemFacts DEF Kinds, Posts
  <2>5. Sends(h, Item("Task", a))
    BY <2>2, <2>3, <2>4 DEF Sends
  <2> QED
    BY <2>1, <2>2, <2>4, <2>5, <1>s, PostedCell
<1>23. ASSUME Drain(a)
      PROVE  \A b \in Agents : CellStep(b)
  <2>1. PICK taken \in SUBSET (DOMAIN cell[a].queue) : cell' = Taken(a, taken)
    BY <1>23, DrainFacts
  <2> QED
    BY <2>1, TakenCell
<1>24. ASSUME Steer(a)
      PROVE  \A b \in Agents : CellStep(b)
  <2>1. PICK b \in Agents, kind \in {"Human", "Clear", "Surface"} : Post(b, Item(kind, Human))
    BY <1>24 DEF Steer
  <2>2. Item(kind, Human) \in Items /\ Item(kind, Human).kind = kind
    BY ItemFacts DEF Kinds, Posts
  <2>3. cell' = Queued(b, Item(kind, Human))
    BY <2>1 DEF Post
  <2>4. Sends(b, Item(kind, Human))
    BY <2>2 DEF Sends
  <2> QED
    BY <2>2, <2>3, <2>4, PostedCell
<1>25. ASSUME Tell(a)
      PROVE  \A b \in Agents : CellStep(b)
  <2>1. PICK b \in Agents : Post(b, Item("Message", a))
    BY <1>25 DEF Tell
  <2>2. Item("Message", a) \in Items /\ Item("Message", a).kind = "Message" /\ Item("Message", a).from = a
    BY ItemFacts DEF Kinds, Posts
  <2>3. cell' = Queued(b, Item("Message", a))
    BY <2>1 DEF Post
  <2>4. Sends(b, Item("Message", a))
    BY <1>25, <2>2 DEF Sends, Tell
  <2> QED
    BY <2>2, <2>3, <2>4, PostedCell
<1>26. ASSUME HumanStops(a)
      PROVE  \A b \in Agents : CellStep(b)
  <2>1. PICK b \in Agents, recalls \in BOOLEAN : \E job : Stop(b, job, recalls)
    BY <1>26, AgentsFacts DEF HumanStops
  <2> QED
    BY <2>1, <1>p
<1>27. ASSUME AgentStops(a)
      PROVE  \A b \in Agents : CellStep(b)
  <2>1. PICK b \in Agents, recalls \in BOOLEAN : \E job : Stop(b, job, recalls)
    BY <1>27, AgentsFacts DEF AgentStops
  <2> QED
    BY <2>1, <1>p
<1> QED
  BY <1>1, <1>2, <1>3, <1>4, <1>5, <1>6, <1>7, <1>8, <1>9, <1>10, <1>11, <1>12, <1>13, <1>14, <1>15, <1>16, <1>17, <1>18, <1>19, <1>20, <1>21, <1>22, <1>23, <1>24, <1>25, <1>26, <1>27
  DEF ActsOf, Attends, Works, Outside

-----------------------------------------------------------------------------
(* Jobs and their marks. *)

\* In an exchange, or joining a helper within one.
AtWork(a) == At(a, "work") \/ (At(a, "joining") /\ thread[a].after = "work")

\* No job is marked before it is opened; an open one is its agent's newest, and
\* marked as it was struck; a settled one is reported as it was marked; and an
\* exchange has its job open.
JobFits(a) ==
  /\ \A job \in struck[a] : job <= jobs[a]
  /\ cell[a].job # 0 => cell[a].job = jobs[a] /\ (cell[a].stopped <=> jobs[a] \in struck[a])
  /\ At(a, "settled") => cell[a].job = 0 /\ (thread[a].says = "Stopped" <=> jobs[a] \in struck[a])
  /\ AtWork(a) => cell[a].job # 0
JobsFit == \A a \in Agents : JobFits(a)

\* What keeps them so: no change to job or mark, and a thread that neither
\* settles nor begins.
SameJob(a) == /\ cell'[a].job = cell[a].job /\ cell'[a].stopped = cell[a].stopped
              /\ jobs'[a] = jobs[a] /\ struck'[a] = struck[a]
Busies(a)  == \/ thread'[a] = thread[a]
              \/ /\ thread'[a].pc # "settled"
                 /\ AtWork(a)' => AtWork(a)

LEMMA SameJobFits ==
  ASSUME NEW a \in Agents, JobFits(a), SameJob(a), Busies(a)
  PROVE  JobFits(a)'
<1>1. CASE thread'[a] = thread[a]
  BY <1>1 DEF JobFits, SameJob, At, AtWork
<1>2. CASE thread'[a].pc # "settled" /\ (AtWork(a)' => AtWork(a))
  BY <1>2 DEF JobFits, SameJob, At
<1> QED
  BY <1>1, <1>2 DEF Busies

LEMMA JobsInit == Init => JobsFit
<1> SUFFICES ASSUME Init, NEW a \in Agents
             PROVE  JobFits(a)
  BY DEF JobsFit
<1>1. thread[a].pc = IF a = 1 THEN "top" ELSE "unborn"
  BY DEF Init, Idle
<1>2. struck[a] = {} /\ cell[a].job = 0
  BY DEF Init
<1> QED
  BY <1>1, <1>2 DEF JobFits, At, AtWork

LEMMA JobsStep ==
  ASSUME TypeOK, Leads, JobsFit, NEW a \in Agents, ActsOf(a)
  PROVE  JobsFit'
<1> SUFFICES ASSUME NEW b \in Agents
             PROVE  JobFits(b)'
  BY DEF JobsFit
<1>j. JobFits(b)
  BY DEF JobsFit
<1>o. \/ Unmoved \/ Moved(a)
      \/ Spawn(a) /\ \E h \in Unborn : Moved(h)
  BY OneMoves
<1>h. Unborn \subseteq Agents /\ \A h \in Unborn : At(h, "unborn")
  BY AgentsFacts DEF Unborn
<1>f. ASSUME SameJob(b), Busies(b)
      PROVE  JobFits(b)'
  BY <1>j, <1>f, SameJobFits
<1>s. ASSUME UNCHANGED <<cell, jobs, struck>>
      PROVE  SameJob(b)
  BY <1>s DEF SameJob
\* From anywhere but a wait and an item in hand, no exchange begins and none settles.
<1>b. ASSUME ~At(a, "next"), ~At(a, "taken")
      PROVE  Busies(b)
  <2>1. ASSUME NEW c \in Agents, Moved(c), ~At(c, "next"), ~At(c, "taken")
        PROVE  Busies(b)
    <3>1. CASE c = b
      <4>1. /\ thread[b].pc = "posting" => thread[b].after \in {"top", "leaving", "gone"}
            /\ thread[b].pc = "joining" => thread[b].after \in {"cleared", "work", "gone", "unwound"}
        BY DEF Leads, At
      <4> QED
        BY <2>1, <3>1, <4>1 DEF Moved, Path, Exposed, Busies, AtWork, At
    <3>2. CASE c # b
      BY <2>1, <3>2 DEF Moved, Busies
    <3> QED
      BY <3>1, <3>2
  <2>2. CASE Unmoved
    BY <2>2 DEF Unmoved, Busies
  <2> QED
    BY <1>b, <1>o, <1>h, <2>1, <2>2 DEF At
<1>g. ASSUME NEW s \in {"top", "down", "clear"}, thread' = Go(a, s)
      PROVE  Busies(b)
  <2>1. Go(a, s)[a].pc = s /\ \A c \in Agents : c # a => Go(a, s)[c] = thread[c]
    BY GoFacts DEF Pcs
  <2> QED
    BY <1>g, <2>1 DEF Busies, AtWork, At
<1>r. ASSUME NEW after, Report(a, after)
      PROVE  SameJob(b)
  <2>1. Settles(a) /\ UNCHANGED <<jobs, struck>>
    BY <1>r DEF Report, books
  <2>2. /\ cell'[a].job = cell[a].job /\ cell'[a].stopped = cell[a].stopped
        /\ \A c \in Agents : c # a => cell'[c] = cell[c]
    BY <2>1, SettlesFacts
  <2> QED
    BY <2>1, <2>2 DEF SameJob
<1>q. ASSUME NEW c \in Agents, NEW item \in Items, cell' = Queued(c, item), UNCHANGED <<jobs, struck>>
      PROVE  SameJob(b)
  <2>1. /\ cell'[c].job = cell[c].job /\ cell'[c].stopped = cell[c].stopped
        /\ \A d \in Agents : d # c => cell'[d] = cell[d]
    BY <1>q, QueuedFacts
  <2> QED
    BY <1>q, <2>1 DEF SameJob
<1>p. ASSUME NEW c \in Agents, NEW recalls \in BOOLEAN, NEW job, Stop(c, job, recalls), UNCHANGED <<thread, jobs>>
      PROVE  JobFits(b)'
  <2>6. struck' = [struck EXCEPT ![c] = struck[c] \cup {job}] /\ cell[c].job # 0 /\ cell[c].job = job
    BY <1>p DEF Stop, TypeOK
  <2>7. cell'[c].job = cell[c].job /\ \A d \in Agents : d # c => cell'[d] = cell[d]
    BY <1>p, StopFacts
  <2>1. /\ struck' = [struck EXCEPT ![c] = struck[c] \cup {job}]
        /\ cell[c].job # 0 /\ cell[c].job = job
        /\ cell'[c].job = cell[c].job
        /\ \A d \in Agents : d # c => cell'[d] = cell[d]
    BY <2>6, <2>7
  <2>5. cell'[c].stopped
    BY <1>p, StopFacts
  <2>2. \A d \in Agents : d # c => struck'[d] = struck[d]
    BY <2>1 DEF TypeOK
  <2>3. CASE b = c
    <3>1. struck'[b] = struck[b] \cup {jobs[b]} /\ cell[b].job = jobs[b] /\ jobs[b] \in Nat
      BY <1>j, <2>1, <2>3 DEF JobFits, TypeOK
    <3> QED
      BY <1>j, <1>p, <2>1, <2>3, <2>5, <3>1 DEF JobFits, At, AtWork
  <2>4. CASE b # c
    BY <1>f, <1>p, <2>1, <2>2, <2>4 DEF SameJob, Busies
  <2> QED
    BY <2>3, <2>4
<1>1. ASSUME ExchangeEnds(a)
      PROVE  JobFits(b)'
  <2>1. Busies(b)
    BY <1>1, <1>b DEF ExchangeEnds, At
  <2> QED
    BY <1>1, <2>1, <1>s, <1>f DEF ExchangeEnds, books
<1>2. ASSUME ReadRest(a)
      PROVE  JobFits(b)'
  <2>1. Busies(b)
    BY <1>2, <1>b DEF ReadRest, At
  <2> QED
    BY <1>2, <2>1, <1>s, <1>f DEF ReadRest, books
<1>3. ASSUME Joins(a)
      PROVE  JobFits(b)'
  <2>1. Busies(b)
    BY <1>3, <1>b DEF Joins, At
  <2> QED
    BY <1>3, <2>1, <1>s, <1>f DEF Joins, books
<1>4. ASSUME ClearEnds(a)
      PROVE  JobFits(b)'
  <2>1. Busies(b)
    BY <1>4, <1>b DEF ClearEnds, At
  <2> QED
    BY <1>4, <2>1, <1>s, <1>f DEF ClearEnds, books
<1>5. ASSUME Leave(a)
      PROVE  JobFits(b)'
  <2>1. Busies(b)
    BY <1>5, <1>b DEF Leave, At
  <2> QED
    BY <1>5, <2>1, <1>s, <1>f DEF Leave, books
<1>6. ASSUME Dismiss(a)
      PROVE  JobFits(b)'
  <2>1. Busies(b)
    BY <1>6, <1>b DEF Dismiss, At
  <2> QED
    BY <1>6, <2>1, <1>s, <1>f DEF Dismiss, books
<1>7. ASSUME Breaks(a)
      PROVE  JobFits(b)'
  BY <1>7, <1>s, <1>f DEF Breaks, books, Busies
<1>8. ASSUME NextEnded(a)
      PROVE  JobFits(b)'
  <2>1. Busies(b)
    BY <1>8, <1>g DEF NextEnded
  <2> QED
    BY <1>8, <2>1, <1>s, <1>f DEF NextEnded, books
<1>9. ASSUME NextIdles(a)
      PROVE  JobFits(b)'
  <2>1. Busies(b)
    BY <1>9, <1>g DEF NextIdles
  <2> QED
    BY <1>9, <2>1, <1>s, <1>f DEF NextIdles, books
<1>10. ASSUME Decline(a)
      PROVE  JobFits(b)'
  <2>1. Busies(b)
    BY <1>10, <1>g DEF Decline
  <2> QED
    BY <1>10, <2>1, <1>s, <1>f DEF Decline, books
<1>11. ASSUME Panics(a)
      PROVE  JobFits(b)'
  <2>1. nursery[a] \in SUBSET Helpers
    BY DEF TypeOK
  <2>2. /\ thread'[a].after = "unwound" /\ thread'[a].pc = "joining"
        /\ \A c \in Agents : c # a => thread'[c] = thread[c]
    BY <1>11, <2>1, JoinFacts DEF Panics, Pcs
  <2>3. Busies(b)
    BY <2>2 DEF Busies, AtWork, At
  <2> QED
    BY <1>11, <2>3, <1>s, <1>f DEF Panics, books
<1>12. ASSUME NextItem(a)
      PROVE  JobFits(b)'
  <2>1. PICK i \in DOMAIN cell[a].queue : LET item == cell[a].queue[i] IN
           /\ \/ cell' = Taken(a, {i})
              \/ cell' = [Taken(a, RunFrom(a, i)) EXCEPT ![a].cut = FALSE]
           /\ \/ thread' = Go(a, "top") \/ thread' = Go(a, "clear") \/ thread' = Hold(a, item)
           /\ item \in Items /\ UNCHANGED <<jobs, struck>>
    BY <1>12, NextItemFacts DEF books
  <2>2. {i} \in SUBSET (DOMAIN cell[a].queue) /\ RunFrom(a, i) \in SUBSET (DOMAIN cell[a].queue)
    BY RunFromFacts
  <2>3. ASSUME NEW taken \in SUBSET (DOMAIN cell[a].queue)
        PROVE  /\ Taken(a, taken) \in [Agents -> Cells]
               /\ Taken(a, taken)[b].job = cell[b].job /\ Taken(a, taken)[b].stopped = cell[b].stopped
    BY TakenFacts
  <2>4. SameJob(b)
    <3>1. CASE cell' = Taken(a, {i})
      BY <2>1, <2>2, <2>3, <3>1 DEF SameJob
    <3>2. CASE cell' = [Taken(a, RunFrom(a, i)) EXCEPT ![a].cut = FALSE]
      <4>1. cell'[b].job = Taken(a, RunFrom(a, i))[b].job /\ cell'[b].stopped = Taken(a, RunFrom(a, i))[b].stopped
        BY <2>2, <2>3, <3>2 DEF Cells
      <4> QED
        BY <2>1, <2>2, <2>3, <4>1 DEF SameJob
    <3> QED
      BY <2>1, <3>1, <3>2
  <2>5. Busies(b)
    <3>1. CASE thread' = Hold(a, cell[a].queue[i])
      <4>1. thread'[a].pc = "taken" /\ \A c \in Agents : c # a => thread'[c] = thread[c]
        BY <2>1, <3>1, HoldFacts
      <4> QED
        BY <4>1 DEF Busies, AtWork, At
    <3> QED
      BY <2>1, <3>1, <1>g
  <2> QED
    BY <2>4, <2>5, <1>f
<1>13. ASSUME NextSettled(a)
      PROVE  JobFits(b)'
  <2>1. /\ At(a, "next") /\ cell[a].job # 0 /\ cell' = [cell EXCEPT ![a].job = 0]
        /\ UNCHANGED <<jobs, struck>>
    BY <1>13 DEF NextSettled, books
  <2>2. /\ cell'[a].job = 0 /\ \A c \in Agents : c # a => cell'[c] = cell[c]
    BY <2>1 DEF TypeOK, Cells
  <2>3. /\ \A c \in Agents : c # a => thread'[c] = thread[c]
        /\ \/ thread'[a].pc = "top"
           \/ /\ thread'[a].pc = "settled"
              /\ thread'[a].says = IF cell[a].stopped THEN "Stopped" ELSE "Failed"
    <3>1. CASE Owes(a)
      BY <1>13, <3>1 DEF NextSettled, TypeOK, Idle
    <3>2. CASE ~Owes(a)
      BY <1>13, <3>2, GoFacts DEF NextSettled, Pcs
    <3> QED
      BY <3>1, <3>2
  <2>4. CASE b # a
    BY <2>1, <2>2, <2>3, <2>4, <1>f DEF SameJob, Busies
  <2>5. CASE b = a
    <3>1. cell[a].stopped <=> jobs[a] \in struck[a]
      BY <1>j, <2>1, <2>5 DEF JobFits
    <3>2. /\ \A job \in struck'[a] : job <= jobs'[a]
          /\ cell'[a].job = 0 /\ ~AtWork(a)'
      BY <1>j, <2>1, <2>2, <2>3, <2>5 DEF JobFits, AtWork, At
    <3>3. At(a, "settled")' => (thread'[a].says = "Stopped" <=> jobs'[a] \in struck'[a])
      BY <2>1, <2>3, <3>1 DEF At
    <3> QED
      BY <2>5, <3>2, <3>3 DEF JobFits
  <2> QED
    BY <2>4, <2>5
<1>14. ASSUME Begin(a)
      PROVE  JobFits(b)'
  <2>0. UNCHANGED struck
    BY <1>14 DEF Begin
  <2>1. CASE ~Live(a)
    <3>1. Busies(b)
      BY <1>14, <2>1, <1>g DEF Begin
    <3> QED
      BY <1>14, <2>0, <2>1, <3>1, <1>s, <1>f DEF Begin
  <2>2. CASE Live(a)
    <3>1. thread' = Go(a, "work") /\ Go(a, "work")[a].pc = "work"
          /\ \A c \in Agents : c # a => Go(a, "work")[c] = thread[c]
      BY <1>14, <2>2, GoFacts DEF Begin, Pcs
    <3>2. CASE cell[a].job # 0
      <4>1. SameJob(b)
        BY <1>14, <2>0, <2>2, <3>2, <1>s DEF Begin
      <4>2. CASE b = a
        BY <1>j, <3>1, <3>2, <4>1, <4>2 DEF JobFits, SameJob, At
      <4>3. CASE b # a
        BY <3>1, <4>1, <4>3, <1>f DEF Busies
      <4> QED
        BY <4>2, <4>3
    <3>3. CASE cell[a].job = 0
      <4>1. cell' = Opened(a) /\ jobs' = [jobs EXCEPT ![a] = jobs[a] + 1]
        BY <1>14, <2>2, <3>3 DEF Begin, TypeOK
      <4>2. CASE b = a
        <5>1. /\ cell'[a].job = jobs[a] + 1 /\ cell'[a].stopped = FALSE /\ jobs'[a] = jobs[a] + 1
              /\ jobs[a] \in Nat /\ struck[a] \subseteq Nat
          BY <4>1, OpenedFacts DEF TypeOK
        <5>2. \A job \in struck[a] : job <= jobs[a]
          BY <1>j, <4>2 DEF JobFits
        <5>3. jobs'[a] \notin struck'[a] /\ \A job \in struck'[a] : job <= jobs'[a]
          BY <2>0, <5>1, <5>2
        <5> QED
          BY <3>1, <4>2, <5>1, <5>3 DEF JobFits, At
      <4>3. CASE b # a
        BY <2>0, <3>1, <4>1, <4>3, <1>f, OpenedFacts DEF SameJob, Busies, TypeOK
      <4> QED
        BY <4>2, <4>3
    <3> QED
      BY <3>2, <3>3
  <2> QED
    BY <2>1, <2>2
<1>15. ASSUME Cleared(a)
      PROVE  JobFits(b)'
  <2>0. Busies(b)
    BY <1>15, <1>b DEF Cleared, At
  <2> DEFINE q == Without(a, {"Child", "Surface", "Gone"})
  <2>2. cell' = (IF a \in broken THEN cell ELSE [cell EXCEPT ![a].queue = q]) /\ UNCHANGED <<jobs, struck>>
    BY <1>15 DEF Cleared, books
  <2> HIDE DEF q
  <2>3. SameJob(b)
    BY <2>2 DEF SameJob, TypeOK, Cells
  <2> QED
    BY <2>0, <2>3, <1>f
<1>16. ASSUME Deliver(a)
      PROVE  JobFits(b)'
  <2>0. Busies(b)
    BY <1>16, <1>b DEF Deliver, At
  <2>1. owner[a] \in Agents
    BY <1>16 DEF Deliver, Leads, At, Born
  <2>2. Item("Child", a) \in Items
    BY ItemFacts DEF Kinds, Posts
  <2>3. UNCHANGED <<jobs, struck>> /\ (cell' = cell \/ cell' = Queued(owner[a], Item("Child", a)))
    BY <1>16 DEF Deliver
  <2>4. SameJob(b)
    BY <2>1, <2>2, <2>3, <1>s, <1>q
  <2> QED
    BY <2>0, <2>4, <1>f
<1>17. ASSUME Gone(a)
      PROVE  JobFits(b)'
  <2>0. Busies(b)
    BY <1>17, <1>b DEF Gone, At
  <2>1. a # 1 => owner[a] \in Agents
    BY <1>17 DEF Gone, Leads, At, Born, Helpers
  <2>2. Item("Gone", a) \in Items
    BY ItemFacts DEF Kinds
  <2>3. UNCHANGED <<jobs, struck>> /\ (cell' = cell \/ (a # 1 /\ cell' = Queued(owner[a], Item("Gone", a))))
    BY <1>17 DEF Gone, books
  <2>4. SameJob(b)
    BY <2>1, <2>2, <2>3, <1>s, <1>q
  <2> QED
    BY <2>0, <2>4, <1>f
<1>18. ASSUME Settled(a)
      PROVE  JobFits(b)'
  <2>0. Busies(b)
    BY <1>18, <1>b DEF Settled, At
  <2>1. SameJob(b)
    BY <1>18, <1>r DEF Settled
  <2> QED
    BY <2>0, <2>1, <1>f
<1>19. ASSUME Unwound(a)
      PROVE  JobFits(b)'
  <2>0. Busies(b)
    BY <1>19, <1>b DEF Unwound, At
  <2>1. SameJob(b)
    BY <1>19, <1>r DEF Unwound
  <2> QED
    BY <2>0, <2>1, <1>f
<1>20. ASSUME Replies(a)
      PROVE  JobFits(b)'
  <2>0. Busies(b)
    BY <1>20, <1>b DEF Replies, At
  <2>1. SameJob(b)
    BY <1>20, <1>r DEF Replies
  <2> QED
    BY <2>0, <2>1, <1>f
<1>21. ASSUME Down(a)
      PROVE  JobFits(b)'
  <2>0. Busies(b)
    BY <1>21, <1>b DEF Down, At
  <2>1. SameJob(b)
    BY <1>21, <1>r, <1>s DEF Down, books
  <2> QED
    BY <2>0, <2>1, <1>f
<1>22. ASSUME Spawn(a)
      PROVE  JobFits(b)'
  <2>0. Busies(b)
    BY <1>22, <1>b DEF Spawn, At
  <2>1. PICK h \in Unborn : /\ cell' = IF Live(a) THEN Queued(h, Item("Task", a)) ELSE cell
                            /\ UNCHANGED <<jobs, struck>>
    BY <1>22, SpawnFacts
  <2>2. Item("Task", a) \in Items
    BY ItemFacts DEF Kinds, Posts
  <2>3. SameJob(b)
    BY <2>1, <2>2, <1>h, <1>s, <1>q
  <2> QED
    BY <2>0, <2>3, <1>f
<1>23. ASSUME Drain(a)
      PROVE  JobFits(b)'
  <2>1. PICK taken \in SUBSET (DOMAIN cell[a].queue) : cell' = Taken(a, taken)
    BY <1>23, DrainFacts
  <2>2. Taken(a, taken)[b].job = cell[b].job /\ Taken(a, taken)[b].stopped = cell[b].stopped
    BY TakenFacts
  <2>3. UNCHANGED <<thread, jobs, struck>>
    BY <1>23 DEF Drain, books
  <2> QED
    BY <2>1, <2>2, <2>3, <1>f DEF SameJob, Busies
<1>24. ASSUME Steer(a)
      PROVE  JobFits(b)'
  <2>1. PICK c \in Agents, item \in Items : Post(c, item)
    BY <1>24, ItemFacts DEF Steer, Kinds, Posts
  <2>2. UNCHANGED <<thread, jobs, struck>>
    BY <1>24 DEF Steer
  <2>3. cell' = Queued(c, item)
    BY <2>1 DEF Post
  <2> QED
    BY <2>2, <2>3, <1>q, <1>f DEF Busies
<1>25. ASSUME Tell(a)
      PROVE  JobFits(b)'
  <2>1. PICK c \in Agents, item \in Items : Post(c, item)
    BY <1>25, ItemFacts DEF Tell, Kinds, Posts
  <2>2. UNCHANGED <<thread, jobs, struck>>
    BY <1>25 DEF Tell
  <2>3. cell' = Queued(c, item)
    BY <2>1 DEF Post
  <2> QED
    BY <2>2, <2>3, <1>q, <1>f DEF Busies
<1>26. ASSUME HumanStops(a)
      PROVE  JobFits(b)'
  <2>1. PICK c \in Agents, recalls \in BOOLEAN : \E job : Stop(c, job, recalls)
    BY <1>26, AgentsFacts DEF HumanStops
  <2>2. UNCHANGED <<thread, jobs>>
    BY <1>26 DEF HumanStops
  <2> QED
    BY <2>1, <2>2, <1>p
<1>27. ASSUME AgentStops(a)
      PROVE  JobFits(b)'
  <2>1. PICK c \in Agents, recalls \in BOOLEAN : \E job : Stop(c, job, recalls)
    BY <1>27, AgentsFacts DEF AgentStops
  <2>2. UNCHANGED <<thread, jobs>>
    BY <1>27 DEF AgentStops
  <2> QED
    BY <2>1, <2>2, <1>p
<1> QED
  BY <1>1, <1>2, <1>3, <1>4, <1>5, <1>6, <1>7, <1>8, <1>9, <1>10, <1>11, <1>12, <1>13, <1>14, <1>15, <1>16, <1>17, <1>18, <1>19, <1>20, <1>21, <1>22, <1>23, <1>24, <1>25, <1>26, <1>27
  DEF ActsOf, Attends, Works, Outside

\* A step that is no agent's own ends a life, or is none.
LEMMA NextSplits ==
  ASSUME [Next]_vars
  PROVE  \/ \E a \in Agents : ActsOf(a)
         \/ \E a \in Helpers \cup {Human} : Ends(a)
         \/ UNCHANGED vars
BY DEF Next, Finished, ActsOf

\* The invariant of all that follows: types, and where threads are led.
LEMMA TypesHold == Spec => [](TypeOK /\ Leads)
<1>1. Init => TypeOK /\ Leads
  BY TypeInit
<1>2. (TypeOK /\ Leads) /\ [Next]_vars => (TypeOK /\ Leads)'
  BY StepTypes
<1> QED
  BY <1>1, <1>2, PTL DEF Spec

\* What the marks of stops and jobs say, at every moment.
LEMMA JobsHold == Spec => []JobsFit
<1>1. Init => JobsFit
  BY JobsInit
<1>2. (TypeOK /\ Leads) /\ JobsFit /\ [Next]_vars => JobsFit'
  <2> SUFFICES ASSUME TypeOK, Leads, JobsFit, [Next]_vars
               PROVE  JobsFit'
    OBVIOUS
  <2>1. ASSUME UNCHANGED <<thread, cell, jobs, struck>>
        PROVE  JobsFit'
    BY <2>1 DEF JobsFit, JobFits, At, AtWork
  <2>2. ASSUME NEW a \in Helpers \cup {Human}, Ends(a)
        PROVE  JobsFit'
    BY <2>1, <2>2 DEF Ends, books
  <2>3. ASSUME UNCHANGED vars
        PROVE  JobsFit'
    BY <2>1, <2>3 DEF vars
  <2> QED
    BY <2>2, <2>3, NextSplits, JobsStep
<1> QED
  BY <1>1, <1>2, TypesHold, PTL DEF Spec

\* A stop strikes the job it names and no other: a settled job is reported as
\* stopped exactly when it was stopped while it was open (agent/attend.rs
\* settled, bus/mailbox.rs Txn::stop).
THEOREM StopsStrikeTheirJob == Spec => []StopIsTheJobs
<1>1. JobsFit => StopIsTheJobs
  BY DEF JobsFit, JobFits, StopIsTheJobs
<1> QED
  BY <1>1, JobsHold, PTL

-----------------------------------------------------------------------------
(* Notices and those who wait for them. *)

\* An end that is under way was begun by ending the life.
Parting(a) == \/ thread[a].pc \in {"leaving", "unwound", "gone", "over"}
              \/ thread[a].pc = "posting" /\ thread[a].after \in {"leaving", "gone"}
              \/ thread[a].pc = "joining" /\ thread[a].after \in {"gone", "unwound"}
\* A parent joins its own, and its life ends no later than its end begins.
Kinship ==
  /\ \A a \in Agents : a \in line[a] /\ (Parting(a) => a \in dead)
  /\ \A a \in Agents : \A h \in nursery[a] : owner[h] = a /\ Born(h)
  /\ \A a \in Agents : ~At(a, "taken") => thread[a].item = NoItem
\* A farewell is of one that is over, a notice of a helper of one's own.
Farewells == \A a \in Agents : \A i \in DOMAIN cell[a].queue :
  LET item == cell[a].queue[i] IN
  /\ item.kind = "Gone" => item.from \in Helpers /\ Over(item.from) /\ owner[item.from] = a
  /\ item.kind = "Child" => item.from \in Helpers /\ Born(item.from) /\ owner[item.from] = a
\* While a life lasts nobody of its own is lost track of before the end.
HeldBack == \A a \in Agents, h \in Helpers :
  owner[h] = a => h \in nursery[a] \cup sent \/ Over(h) \/ a \in dead
\* NoticesReachTheirHolder, for lives not ended on their own account.
NoticeKept(a, h) ==
  /\ \A i \in DOMAIN cell[a].queue : cell[a].queue[i] = Item("Child", h) =>
       Holds(a, h) /\ \A j \in 1..i : cell[a].queue[j] # Item("Gone", h)
  /\ thread[a].item = Item("Child", h) => Holds(a, h)
NoticesKept == \A a \in Agents, h \in Helpers : a \notin dead => NoticeKept(a, h)

Kept == Kinship /\ Farewells /\ HeldBack /\ NoticesKept

\* What lasts: an ended life, a departure, a birth, a parent, a thread's end.
LEMMA Lasting ==
  ASSUME TypeOK, Leads, NEW a \in Agents, ActsOf(a)
  PROVE  /\ dead \subseteq dead' /\ sent \subseteq sent' /\ broken \subseteq broken'
         /\ \A b \in Agents : Born(b) => Born(b)'
         /\ \A b \in Agents : Over(b) => Over(b)'
         /\ \A h \in Helpers : Born(h) => owner'[h] = owner[h]
         /\ \A b \in Agents : Born(b) => line'[b] = line[b]
<1>1. dead \subseteq dead' /\ sent \subseteq sent' /\ broken \subseteq broken'
  BY DEF ActsOf, Attends, Works, Outside, ReadRest, NextEnded, NextItem, NextSettled, NextIdles, Settled, Decline, Begin,
         ClearEnds, Cleared, Joins, Deliver, Down, Leave, Unwound, Gone, Spawn, Tell, AgentStops, Dismiss, Replies,
         Drain, ExchangeEnds, Steer, HumanStops, Breaks, Panics, Report, fleet, books
<1>2. \/ UNCHANGED kin
      \/ \E h \in Unborn : owner' = [owner EXCEPT ![h] = a] /\ line' = [line EXCEPT ![h] = Under(a, h)]
  <2>1. CASE Spawn(a)
    BY <2>1, SpawnFacts
  <2>2. CASE ~Spawn(a)
    BY <2>2 DEF ActsOf, Attends, Works, Outside, ReadRest, NextEnded, NextItem, NextSettled, NextIdles, Settled, Decline,
         Begin, ClearEnds, Cleared, Joins, Deliver, Down, Leave, Unwound, Gone, Tell, AgentStops, Dismiss, Replies,
         Drain, ExchangeEnds, Steer, HumanStops, Breaks, Panics, Report, fleet
  <2> QED
    BY <2>1, <2>2
<1>3. (\A h \in Helpers : Born(h) => owner'[h] = owner[h]) /\ (\A b \in Agents : Born(b) => line'[b] = line[b])
  <2>1. CASE UNCHANGED kin
    BY <2>1 DEF kin
  <2>2. ASSUME NEW h \in Unborn, owner' = [owner EXCEPT ![h] = a], line' = [line EXCEPT ![h] = Under(a, h)]
        PROVE  (\A g \in Helpers : Born(g) => owner'[g] = owner[g]) /\ (\A b \in Agents : Born(b) => line'[b] = line[b])
    BY <2>2 DEF Unborn, Born, TypeOK
  <2> QED
    BY <1>2, <2>1, <2>2
<1>4. ASSUME NEW b \in Agents
      PROVE  (Born(b) => Born(b)') /\ (Over(b) => Over(b)')
  <2>1. CASE Unmoved
    BY <2>1 DEF Unmoved, Born, Over, At
  <2>2. ASSUME NEW c \in Agents, Moved(c)
        PROVE  (Born(b) => Born(b)') /\ (Over(b) => Over(b)')
    <3>1. /\ thread[b].pc = "posting" => thread[b].after \in {"top", "leaving", "gone"}
          /\ thread[b].pc = "joining" => thread[b].after \in {"cleared", "work", "gone", "unwound"}
      BY DEF Leads, At
    <3>2. CASE c = b
      BY <2>2, <3>1, <3>2 DEF Moved, Path, Exposed, Born, Over, At
    <3>3. CASE c # b
      BY <2>2, <3>3 DEF Moved, Born, Over, At
    <3> QED
      BY <3>2, <3>3
  <2>3. Unborn \subseteq Agents
    BY AgentsFacts DEF Unborn
  <2> QED
    BY <2>1, <2>2, <2>3, OneMoves
<1> QED
  BY <1>1, <1>3, <1>4

\* Nobody joins a nursery but by being spawned.
LEMMA NurseryShrinks ==
  ASSUME TypeOK, NEW a \in Agents, ActsOf(a), ~Spawn(a)
  PROVE  \A b \in Agents : nursery'[b] \subseteq nursery[b]
<1>1. CASE UNCHANGED nursery
  BY <1>1
<1>2. ASSUME NEW gones, nursery' = [nursery EXCEPT ![a] = nursery[a] \ gones]
      PROVE  \A b \in Agents : nursery'[b] \subseteq nursery[b]
  BY <1>2 DEF TypeOK
<1>3. CASE nursery' = [nursery EXCEPT ![a] = {}]
  BY <1>3 DEF TypeOK
<1>4. CASE NextItem(a)
  <2>1. \/ UNCHANGED nursery
        \/ \E gones : nursery' = [nursery EXCEPT ![a] = nursery[a] \ gones]
    BY <1>4, NextItemFacts
  <2> QED
    BY <2>1, <1>1, <1>2
<1>5. CASE Drain(a)
  BY <1>5, <1>2, DrainFacts
<1>6. CASE Dismiss(a)
  <2>1. \E h \in nursery[a] : nursery' = [nursery EXCEPT ![a] = nursery[a] \ {h}]
    BY <1>6 DEF Dismiss, TypeOK
  <2> QED
    BY <2>1, <1>2
<1>7. CASE ClearEnds(a) \/ Leave(a) \/ Panics(a)
  BY <1>3, <1>7 DEF ClearEnds, Leave, Panics
<1>8. CASE ~(NextItem(a) \/ Drain(a) \/ Dismiss(a) \/ ClearEnds(a) \/ Leave(a) \/ Panics(a))
  <2>1. UNCHANGED nursery
    BY <1>8 DEF ActsOf, Attends, Works, Outside, ReadRest, NextEnded, NextSettled, NextIdles, Settled, Decline, Begin,
         Cleared, Joins, Deliver, Down, Unwound, Gone, Tell, AgentStops, Replies, ExchangeEnds, Steer, HumanStops, Breaks,
         Report, fleet
  <2> QED
    BY <2>1, <1>1
<1> QED
  BY <1>4, <1>5, <1>6, <1>7, <1>8

\* Nothing but a panic unwinds a thread.
LEMMA OnlyPanicsUnwind ==
  ASSUME TypeOK, Leads, NEW a \in Agents, ActsOf(a), thread[a].pc \in Exposed,
         thread'[a].pc = "joining", thread'[a].after = "unwound"
  PROVE  Panics(a)
<1>1. nursery[a] \in SUBSET Helpers /\ thread' # thread
  BY DEF TypeOK, Exposed
<1>2. ~At(a, "next") /\ ~At(a, "work") /\ ~At(a, "joining") /\ ~At(a, "posting") /\ ~At(a, "gone") /\ ~At(a, "unwound")
  BY DEF Exposed, At
<1>3. ~ReadRest(a)
  BY DEF ReadRest, TypeOK, Idle
<1>4. ~(ClearEnds(a) \/ Leave(a))
  BY <1>1, JoinFacts DEF ClearEnds, Leave, Pcs
<1>5. \A pc \in {"top", "down", "work", "leaving"} : thread' # Go(a, pc)
  BY GoFacts DEF Pcs
<1>6. \A pc \in {"top", "leaving"} : ~Report(a, pc)
  <2>1. ASSUME NEW pc \in {"top", "leaving"}, Report(a, pc)
        PROVE  FALSE
    <3>1. pc \in Pcs
      BY DEF Pcs
    <3> QED
      BY <2>1, <3>1, ReportFacts
  <2> QED
    BY <2>1
<1>7. ~(Decline(a) \/ Begin(a) \/ Cleared(a) \/ Settled(a) \/ Down(a))
  BY <1>5, <1>6 DEF Decline, Begin, Cleared, Settled, Down
<1> QED
  BY <1>1, <1>2, <1>3, <1>4, <1>7 DEF ActsOf, Attends, Works, Outside, NextEnded, NextItem, NextSettled, NextIdles,
     Joins, Deliver, Unwound, Gone, Spawn, Tell, AgentStops, Dismiss, Replies, Drain, ExchangeEnds, Steer, HumanStops, Breaks

\* A thread's end begins once its life is ended.
LEMMA PartingEnds ==
  ASSUME TypeOK, Leads, NEW a \in Agents, ActsOf(a), NEW b \in Agents, Parting(b)'
  PROVE  Parting(b) \/ b \in dead'
<1>1. CASE Unmoved
  BY <1>1 DEF Unmoved, Parting
<1>2. ASSUME NEW h \in Unborn, Spawn(a), Moved(h)
      PROVE  Parting(b) \/ b \in dead'
  <2>1. h \in Agents /\ At(h, "unborn")
    BY AgentsFacts DEF Unborn
  <2> QED
    BY <1>2, <2>1 DEF Moved, Path, Exposed, Parting, At
<1>3. CASE Moved(a) /\ b # a
  BY <1>3 DEF Moved, Parting
<1>4. CASE Moved(a) /\ b = a
  <2>1. CASE At(a, "down")
    <3>1. Down(a) \/ Panics(a) \/ Unmoved
      BY <2>1 DEF At, Unmoved, ActsOf, Attends, Works, Outside, ReadRest, NextEnded, NextItem, NextSettled, NextIdles,
         Settled, Decline, Begin, ClearEnds, Cleared, Joins, Deliver, Leave, Unwound, Gone, Spawn, Tell, AgentStops,
         Dismiss, Replies, Drain, ExchangeEnds, Steer, HumanStops, Breaks
    <3> QED
      BY <3>1, <1>1, <1>4 DEF Down, Panics
  <2>2. CASE Panics(a)
    BY <1>4, <2>2 DEF Panics
  <2>3. CASE ~At(a, "down") /\ ~Panics(a)
    <3>1. /\ thread[a].pc = "posting" => thread[a].after \in {"top", "leaving", "gone"}
          /\ thread[a].pc = "joining" => thread[a].after \in {"cleared", "work", "gone", "unwound"}
      BY DEF Leads, At
    <3>2. ~(thread[a].pc \in Exposed /\ thread'[a].pc = "joining" /\ thread'[a].after = "unwound")
      BY <2>3, OnlyPanicsUnwind
    <3> QED
      BY <1>4, <2>3, <3>1, <3>2 DEF Moved, Path, Parting, At
  <2> QED
    BY <2>1, <2>2, <2>3
<1> QED
  BY <1>1, <1>2, <1>3, <1>4, OneMoves

LEMMA KinshipInit == Init => Kinship /\ Farewells /\ HeldBack /\ NoticesKept
<1> SUFFICES ASSUME Init
             PROVE  Kinship /\ Farewells /\ HeldBack /\ NoticesKept
  OBVIOUS
<1>1. \A a \in Agents : /\ thread[a].pc = IF a = 1 THEN "top" ELSE "unborn"
                        /\ thread[a].item = NoItem /\ thread[a].after = "none"
  BY DEF Init, Idle
<1>2. \A a \in Agents : cell[a].queue = <<>> /\ nursery[a] = {} /\ a \in line[a]
  BY DEF Init
<1>3. Kinship
  BY <1>1, <1>2 DEF Kinship, Parting
<1>4. Farewells
  BY <1>2 DEF Farewells
<1>5. HeldBack
  BY AgentsFacts DEF Init, HeldBack, Agents
<1>6. NoticesKept
  BY <1>1, <1>2 DEF NoticesKept, NoticeKept, NoItem, Item
<1> QED
  BY <1>3, <1>4, <1>5, <1>6

LEMMA KinshipStep ==
  ASSUME TypeOK, Leads, Kinship, NEW a \in Agents, ActsOf(a)
  PROVE  Kinship'
<1>l. /\ dead \subseteq dead' /\ \A b \in Agents : Born(b) => Born(b)'
      /\ \A h \in Helpers : Born(h) => owner'[h] = owner[h]
      /\ \A b \in Agents : Born(b) => line'[b] = line[b]
  BY Lasting
<1>h. Unborn \subseteq Helpers /\ Helpers \subseteq Agents /\ \A h \in Unborn : At(h, "unborn")
  BY AgentsFacts DEF Unborn
<1>1. ASSUME NEW b \in Agents
      PROVE  b \in line'[b]
  <2>1. CASE Spawn(a)
    <3>1. PICK g \in Unborn : line' = [line EXCEPT ![g] = Under(a, g)]
      BY <2>1, SpawnFacts
    <3>2. line'[b] = IF b = g THEN {g} \cup line[a] ELSE line[b]
      BY <3>1, <1>h DEF TypeOK, Under
    <3> QED
      BY <3>2 DEF Kinship
  <2>2. CASE ~Spawn(a)
    <3>1. UNCHANGED line
      BY <2>2 DEF ActsOf, Attends, Works, Outside, ReadRest, NextEnded, NextItem, NextSettled, NextIdles, Settled, Decline,
         Begin, ClearEnds, Cleared, Joins, Deliver, Down, Leave, Unwound, Gone, Tell, AgentStops, Dismiss, Replies,
         Drain, ExchangeEnds, Steer, HumanStops, Breaks, Panics, Report, fleet, kin
    <3> QED
      BY <3>1 DEF Kinship
  <2> QED
    BY <2>1, <2>2
<1>2. ASSUME NEW b \in Agents, Parting(b)'
      PROVE  b \in dead'
  BY <1>2, <1>l, PartingEnds DEF Kinship
<1>3. ASSUME NEW b \in Agents, NEW h \in nursery'[b]
      PROVE  owner'[h] = b /\ Born(h)'
  <2>1. CASE Spawn(a)
    <3>1. PICK g \in Unborn : /\ owner' = [owner EXCEPT ![g] = a] /\ nursery' = [nursery EXCEPT ![a] = @ \cup {g}]
                              /\ thread' = Go(g, "top")
      BY <2>1, SpawnFacts
    <3>2. g \in Agents /\ g \in Helpers /\ At(g, "unborn")
      BY <1>h
    <3>3. thread'[g].pc = "top"
      BY <3>1, <3>2, GoFacts DEF Pcs
    <3>4. h \in nursery[b] \/ (b = a /\ h = g)
      BY <1>3, <3>1 DEF TypeOK
    <3>5. CASE h \in nursery[b]
      <4>1. owner[h] = b /\ Born(h) /\ h \in Helpers /\ h \in Agents
        BY <3>5, <1>h DEF Kinship, TypeOK
      <4> QED
        BY <4>1, <1>l
    <3>6. CASE b = a /\ h = g
      BY <3>1, <3>2, <3>3, <3>6 DEF TypeOK, Born, At
    <3> QED
      BY <3>4, <3>5, <3>6
  <2>2. CASE ~Spawn(a)
    <3>1. h \in nursery[b]
      BY <1>3, <2>2, NurseryShrinks
    <3>2. owner[h] = b /\ Born(h) /\ h \in Helpers /\ h \in Agents
      BY <3>1, <1>h DEF Kinship, TypeOK
    <3> QED
      BY <3>2, <1>l
  <2> QED
    BY <2>1, <2>2
<1>4. ASSUME NEW b \in Agents, ~At(b, "taken")'
      PROVE  thread'[b].item = NoItem
  <2>1. CASE Unmoved
    BY <1>4, <2>1 DEF Unmoved, Kinship, At
  <2>2. ASSUME NEW c \in Agents, Moved(c)
        PROVE  thread'[b].item = NoItem
    BY <1>4, <2>2 DEF Moved, Path, Exposed, Kinship, At
  <2> QED
    BY <1>h, <2>1, <2>2, OneMoves
<1> QED
  BY <1>1, <1>2, <1>3, <1>4 DEF Kinship

\* Queues stay queues.
LEMMA CellTypes ==
  ASSUME TypeOK, Leads, NEW a \in Agents, ActsOf(a), NEW b \in Agents
  PROVE  cell'[b].queue \in Seq(Items) /\ DOMAIN cell'[b].queue \subseteq Nat
<1>1. TypeOK'
  BY StepTypes DEF Next, ActsOf
<1> QED
  BY <1>1 DEF TypeOK, Cells

LEMMA FarewellsStep ==
  ASSUME TypeOK, Leads, Farewells, NEW a \in Agents, ActsOf(a)
  PROVE  Farewells'
<1> SUFFICES ASSUME NEW b \in Agents, NEW j \in DOMAIN cell'[b].queue
             PROVE  LET item == cell'[b].queue[j] IN
                    /\ item.kind = "Gone" => item.from \in Helpers /\ thread'[item.from].pc = "over" /\ owner'[item.from] = b
                    /\ item.kind = "Child" => item.from \in Helpers /\ thread'[item.from].pc # "unborn" /\ owner'[item.from] = b
  BY DEF Farewells, Over, Born, At
<1> DEFINE item == cell'[b].queue[j]
<1>j. j \in Nat
  BY CellTypes
<1>l. /\ \A c \in Agents : (Born(c) => Born(c)') /\ (Over(c) => Over(c)')
      /\ \A h \in Helpers : Born(h) => owner'[h] = owner[h]
      /\ Helpers \subseteq Agents
  BY Lasting, AgentsFacts
<1>o. \A c \in Agents : /\ Over(c) => Born(c)
                        /\ Born(c) => thread'[c].pc # "unborn"
                        /\ Over(c) => thread'[c].pc = "over"
  BY <1>l DEF Over, Born, At
<1>1. ASSUME NEW i \in DOMAIN cell[b].queue, item = cell[b].queue[i]
      PROVE  /\ item.kind = "Gone" => item.from \in Helpers /\ thread'[item.from].pc = "over" /\ owner'[item.from] = b
             /\ item.kind = "Child" => item.from \in Helpers /\ thread'[item.from].pc # "unborn" /\ owner'[item.from] = b
  <2>1. /\ item.kind = "Gone" => item.from \in Helpers /\ Over(item.from) /\ owner[item.from] = b
        /\ item.kind = "Child" => item.from \in Helpers /\ Born(item.from) /\ owner[item.from] = b
    BY <1>1 DEF Farewells
  <2> HIDE DEF item
  <2> QED
    BY <2>1, <1>l, <1>o
<1>2. CASE Within(cell'[b].queue, cell[b].queue)
  <2>1. PICK i \in DOMAIN cell[b].queue : item = cell[b].queue[i]
    <3>1. j <= j
      BY <1>j
    <3> QED
      BY <1>2, <3>1 DEF Within
  <2> QED
    BY <2>1, <1>1
<1>3. ASSUME NEW new \in Items, cell'[b].queue = Append(cell[b].queue, new), Sends(b, new)
      PROVE  /\ item.kind = "Gone" => item.from \in Helpers /\ thread'[item.from].pc = "over" /\ owner'[item.from] = b
             /\ item.kind = "Child" => item.from \in Helpers /\ thread'[item.from].pc # "unborn" /\ owner'[item.from] = b
  <2>1. cell[b].queue \in Seq(Items)
    BY DEF TypeOK, Cells
  <2>2. (j \in DOMAIN cell[b].queue /\ item = cell[b].queue[j]) \/ item = new
    BY <1>3, <2>1
  <2>3. CASE item = new
    <3> HIDE DEF item
    <3>1. item.kind = "Gone" => /\ item.from \in Helpers /\ owner[item.from] = b /\ At(item.from, "gone")
                                /\ thread'[item.from].pc = "over"
      BY <1>3, <2>3 DEF Sends
    <3>2. item.kind = "Child" => item.from \in Helpers /\ owner[item.from] = b /\ Locked(item.from)
      BY <1>3, <2>3 DEF Sends
    <3>3. \A c \in Agents : Locked(c) \/ At(c, "gone") => Born(c)
      BY DEF Locked, At, Born
    <3> QED
      BY <3>1, <3>2, <3>3, <1>l, <1>o
  <2> QED
    BY <2>2, <2>3, <1>1
<1> QED
  <2>1. CellStep(b)
    BY CellSteps
  <2> QED
    BY <2>1, <1>2, <1>3 DEF CellStep

\* Who leaves a nursery has been joined, is joined now and was sent away, or is
\* joined as its parent's life ends; and no notice of a joined one is left.
NurseryStep(b) == \A h \in nursery[b] :
  \/ h \in nursery'[b] \/ h \in sent' \/ b \in dead'
  \/ /\ Over(h) /\ thread'[b].item = NoItem
     /\ \A i \in DOMAIN cell'[b].queue : cell'[b].queue[i] # Item("Child", h)

LEMMA NurserySteps ==
  ASSUME TypeOK, Leads, Kept, NEW a \in Agents, ActsOf(a)
  PROVE  \A b \in Agents : NurseryStep(b)
<1>t. cell[a].queue \in Seq(Items) /\ nursery \in [Agents -> SUBSET Helpers]
      /\ DOMAIN cell[a].queue \subseteq Nat
  BY DEF TypeOK, Cells
<1>1. CASE \A b \in Agents : nursery[b] \subseteq nursery'[b]
  BY <1>1 DEF NurseryStep
<1>2. CASE UNCHANGED nursery
  BY <1>2 DEF NurseryStep
\* The farewells among what is taken are joined: what is left of their notices
\* would have come behind them.
<1>3. ASSUME NEW taken \in SUBSET (DOMAIN cell[a].queue), NEW gones,
             nursery' = [nursery EXCEPT ![a] = nursery[a] \ gones],
             gones \subseteq {cell[a].queue[i].from : i \in {k \in taken : cell[a].queue[k].kind = "Gone"}},
             \A i \in taken, k \in DOMAIN cell[a].queue \ taken :
               cell[a].queue[i].kind = "Gone" /\ cell[a].queue[k].kind = "Child" => i <= k,
             cell'[a].queue = Leaving(a, taken), thread'[a].item = NoItem, a \notin dead
      PROVE  \A b \in Agents : NurseryStep(b)
  <2>1. ASSUME NEW b \in Agents, NEW h \in nursery[b], h \notin nursery'[b]
        PROVE  /\ b = a /\ Over(h)
               /\ \A j \in DOMAIN cell'[b].queue : cell'[b].queue[j] # Item("Child", h)
    <3>1. b = a /\ h \in gones
      BY <1>t, <1>3, <2>1
    <3>2. PICK i \in taken : cell[a].queue[i].kind = "Gone" /\ cell[a].queue[i].from = h
      BY <1>3, <3>1
    <3>3. Over(h) /\ h \in Helpers
      BY <3>2 DEF Kept, Farewells
    <3>4. cell[a].queue[i] = Item("Gone", h)
      <4>1. cell[a].queue[i] \in Items
        BY <1>t
      <4> QED
        BY <3>2, <4>1 DEF Items, Item
    <3>5. ASSUME NEW j \in DOMAIN cell'[a].queue, cell'[a].queue[j] = Item("Child", h)
          PROVE  FALSE
      <4>1. PICK k \in DOMAIN cell[a].queue \ taken : cell'[a].queue[j] = cell[a].queue[k]
        BY <1>3, LeavingFacts
      <4>2. cell[a].queue[k] = Item("Child", h) /\ cell[a].queue[k].kind = "Child"
        BY <3>5, <4>1, ItemFacts
      <4>3. i <= k
        BY <1>3, <3>2, <4>2
      <4>4. i \in 1..k
        BY <1>t, <4>3
      <4>5. NoticeKept(a, h)
        BY <1>3, <3>3 DEF Kept, NoticesKept
      <4> QED
        BY <3>4, <4>2, <4>4, <4>5 DEF NoticeKept
    <3> QED
      BY <3>1, <3>3, <3>5
  <2> QED
    BY <2>1, <1>3 DEF NurseryStep
<1>4. CASE NextItem(a)
  <2>1. PICK i \in DOMAIN cell[a].queue :
           LET item == cell[a].queue[i] IN
           /\ \A j \in DOMAIN cell[a].queue : Admitted(a, cell[a].queue[j]) => i <= j
           /\ Live(a)
           /\ \/ /\ item.kind = "Gone" /\ cell' = Taken(a, {i}) /\ thread' = Go(a, "top")
                 /\ nursery' = [nursery EXCEPT ![a] = nursery[a] \ {item.from}]
              \/ UNCHANGED nursery
    BY <1>4, NextItemFacts
  <2>2. CASE /\ cell[a].queue[i].kind = "Gone" /\ cell' = Taken(a, {i}) /\ thread' = Go(a, "top")
             /\ nursery' = [nursery EXCEPT ![a] = nursery[a] \ {cell[a].queue[i].from}]
    <3>1. {i} \in SUBSET (DOMAIN cell[a].queue)
      OBVIOUS
    <3>2. cell'[a].queue = Leaving(a, {i})
      BY <2>2, <3>1, TakenFacts
    <3>3. thread'[a].item = NoItem
      BY <2>2, GoFacts DEF Pcs
    <3>4. \A k \in DOMAIN cell[a].queue : cell[a].queue[k].kind = "Child" => i <= k
      BY <2>1 DEF Admitted
    <3>5. a \notin dead
      BY <2>1 DEF Live, Kept, Kinship
    <3> DEFINE taken == {i}
               gones == {cell[a].queue[i].from}
    <3>6. gones \subseteq {cell[a].queue[m].from : m \in {k \in taken : cell[a].queue[k].kind = "Gone"}}
      BY <2>2
    <3>7. \A m \in taken, k \in DOMAIN cell[a].queue \ taken :
            cell[a].queue[m].kind = "Gone" /\ cell[a].queue[k].kind = "Child" => m <= k
      BY <3>4
    <3>8. nursery' = [nursery EXCEPT ![a] = nursery[a] \ gones]
      BY <2>2
    <3> HIDE DEF taken, gones
    <3> QED
      BY <3>1, <3>2, <3>3, <3>5, <3>6, <3>7, <3>8, <1>3 DEF taken
  <2> QED
    BY <2>1, <2>2, <1>2
<1>5. CASE Drain(a)
  <2>1. PICK prefix \in SUBSET (DOMAIN cell[a].queue) : \E gones :
           /\ prefix = {i \in DOMAIN cell[a].queue : \A k \in 1..i : cell[a].queue[k].kind # "Clear"}
           /\ gones = {cell[a].queue[i].from : i \in {j \in prefix : cell[a].queue[j].kind = "Gone"}}
           /\ cell' = Taken(a, prefix) /\ nursery' = [nursery EXCEPT ![a] = nursery[a] \ gones]
           /\ At(a, "work") /\ ~Cut(a)
    BY <1>5, DrainFacts
  <2>2. PICK gones :
           /\ gones = {cell[a].queue[i].from : i \in {j \in prefix : cell[a].queue[j].kind = "Gone"}}
           /\ nursery' = [nursery EXCEPT ![a] = nursery[a] \ gones]
    BY <2>1
  <2>3. cell'[a].queue = Leaving(a, prefix)
    BY <2>1, TakenFacts
  <2>4. thread'[a].item = NoItem
    BY <1>5, <2>1 DEF Drain, Kept, Kinship, At
  <2>5. a \notin dead
    BY <2>1 DEF Cut, Live, Kept, Kinship
  <2>6. ASSUME NEW i \in prefix, NEW k \in DOMAIN cell[a].queue \ prefix
        PROVE  i <= k
    <3>1. i \in Nat /\ k \in Nat
      BY <1>t
    <3>2. PICK m \in 1..k : cell[a].queue[m].kind = "Clear"
      BY <2>1
    <3>3. ~(m <= i)
      BY <2>1, <3>1, <3>2
    <3> QED
      BY <3>1, <3>3
  <2>7. gones \subseteq {cell[a].queue[i].from : i \in {k \in prefix : cell[a].queue[k].kind = "Gone"}}
    BY <2>2
  <2> QED
    BY <2>2, <2>3, <2>4, <2>5, <2>6, <2>7, <1>3
<1>6. CASE Dismiss(a)
  <2>1. PICK h \in nursery[a] : nursery' = [nursery EXCEPT ![a] = nursery[a] \ {h}] /\ sent' = sent \cup {h}
    BY <1>6 DEF Dismiss, TypeOK
  <2> QED
    BY <1>t, <2>1 DEF NurseryStep
<1>7. CASE ClearEnds(a)
  BY <1>t, <1>7 DEF ClearEnds, NurseryStep
<1>8. CASE Panics(a)
  BY <1>t, <1>8 DEF Panics, NurseryStep
<1>9. CASE Leave(a)
  <2>1. a \in dead
    BY <1>9 DEF Leave, Kept, Kinship, Parting, At
  <2> QED
    BY <1>t, <1>9, <2>1 DEF Leave, NurseryStep
<1>10. CASE Spawn(a)
  <2>1. \E h \in Unborn : nursery' = [nursery EXCEPT ![a] = @ \cup {h}]
    BY <1>10, SpawnFacts
  <2> QED
    BY <1>t, <2>1, <1>1
<1>11. CASE ~(NextItem(a) \/ Drain(a) \/ Dismiss(a) \/ ClearEnds(a) \/ Leave(a) \/ Panics(a) \/ Spawn(a))
  <2>1. UNCHANGED nursery
    BY <1>11 DEF ActsOf, Attends, Works, Outside, ReadRest, NextEnded, NextSettled, NextIdles, Settled, Decline, Begin,
         Cleared, Joins, Deliver, Down, Unwound, Gone, Tell, AgentStops, Replies, ExchangeEnds, Steer, HumanStops, Breaks,
         Report, fleet
  <2> QED
    BY <2>1, <1>2
<1> QED
  BY <1>4, <1>5, <1>6, <1>7, <1>8, <1>9, <1>10, <1>11

LEMMA HeldBackStep ==
  ASSUME TypeOK, Leads, Kept, NEW a \in Agents, ActsOf(a)
  PROVE  HeldBack'
<1> SUFFICES ASSUME NEW b \in Agents, NEW h \in Helpers, owner'[h] = b
             PROVE  h \in nursery'[b] \cup sent' \/ Over(h)' \/ b \in dead'
  BY DEF HeldBack
<1>1. CASE owner[h] = b
  <2>1. h \in nursery[b] \cup sent \/ Over(h) \/ b \in dead
    BY <1>1 DEF Kept, HeldBack
  <2>2. dead \subseteq dead' /\ sent \subseteq sent' /\ (Over(h) => Over(h)')
    BY Lasting, AgentsFacts
  <2>3. NurseryStep(b)
    BY NurserySteps
  <2> QED
    BY <2>1, <2>2, <2>3 DEF NurseryStep
<1>2. CASE owner[h] # b
  <2>1. Spawn(a)
    <3>1. owner' # owner
      BY <1>2
    <3> QED
      BY <3>1 DEF ActsOf, Attends, Works, Outside, ReadRest, NextEnded, NextItem, NextSettled, NextIdles, Settled, Decline,
         Begin, ClearEnds, Cleared, Joins, Deliver, Down, Leave, Unwound, Gone, Tell, AgentStops, Dismiss, Replies,
         Drain, ExchangeEnds, Steer, HumanStops, Breaks, Panics, Report, fleet, kin
  <2>2. PICK g \in Unborn : owner' = [owner EXCEPT ![g] = a] /\ nursery' = [nursery EXCEPT ![a] = @ \cup {g}]
    BY <2>1, SpawnFacts
  <2>3. h = g /\ b = a
    BY <1>2, <2>2 DEF TypeOK
  <2> QED
    BY <2>2, <2>3 DEF TypeOK
<1> QED
  BY <1>1, <1>2

\* An item in hand came from the queue, or was in hand already.
LEMMA HandSteps ==
  ASSUME TypeOK, Leads, NEW a \in Agents, ActsOf(a), NEW b \in Agents
  PROVE  \/ thread'[b].item = thread[b].item \/ thread'[b].item = NoItem
         \/ At(b, "next") /\ Live(b) /\ \E i \in DOMAIN cell[b].queue : thread'[b].item = cell[b].queue[i]
<1>h. Unborn \subseteq Agents /\ \A h \in Unborn : At(h, "unborn")
  BY AgentsFacts DEF Unborn
<1>1. CASE NextItem(a)
  <2>1. PICK i \in DOMAIN cell[a].queue : LET item == cell[a].queue[i] IN
           /\ item \in Items /\ At(a, "next") /\ Live(a)
           /\ thread' = Go(a, "top") \/ thread' = Go(a, "clear") \/ thread' = Hold(a, item)
    BY <1>1, NextItemFacts
  <2>2. CASE thread' = Hold(a, cell[a].queue[i])
    <3>1. thread'[a].item = cell[a].queue[i] /\ \A c \in Agents : c # a => thread'[c] = thread[c]
      BY <2>1, <2>2, HoldFacts
    <3> QED
      BY <2>1, <3>1
  <2>3. CASE thread' = Go(a, "clear") \/ thread' = Go(a, "top")
    <3>1. thread'[a].item = NoItem /\ \A c \in Agents : c # a => thread'[c] = thread[c]
      BY <2>3, GoFacts DEF Pcs
    <3> QED
      BY <3>1
  <2> QED
    BY <2>1, <2>2, <2>3
<1>2. ASSUME NEW c \in Agents, Moved(c), c # b \/ thread'[c].pc # "taken"
      PROVE  thread'[b].item = thread[b].item \/ thread'[b].item = NoItem
  BY <1>2 DEF Moved, Path, Exposed
<1>3. CASE ~NextItem(a)
  <2>1. CASE Unmoved
    BY <2>1 DEF Unmoved
  <2>2. ASSUME NEW h \in Unborn, Moved(h)
        PROVE  thread'[b].item = thread[b].item \/ thread'[b].item = NoItem
    <3>1. thread'[h].pc # "taken"
      BY <1>h, <2>2 DEF Moved, Path, Exposed, At
    <3> QED
      BY <1>2, <1>h, <2>2, <3>1
  <2>3. CASE Moved(a)
    <3>1. CASE At(a, "next")
      <4>1. NextEnded(a) \/ NextSettled(a) \/ NextIdles(a) \/ Unmoved
        BY <1>3, <3>1 DEF At, Unmoved, ActsOf, Attends, Works, Outside, ReadRest, Settled, Decline, Begin, ClearEnds,
         Cleared, Joins, Deliver, Down, Leave, Unwound, Gone, Spawn, Tell, AgentStops, Dismiss, Replies, Drain,
         ExchangeEnds, Steer, HumanStops, Breaks, Panics, Exposed
      <4>2. thread'[a].pc # "taken"
        <5>1. CASE NextEnded(a) \/ NextIdles(a)
          BY <5>1, GoFacts DEF NextEnded, NextIdles, Pcs
        <5>2. CASE NextSettled(a)
          BY <5>2, GoFacts DEF NextSettled, Pcs, TypeOK, Idle
        <5>3. CASE Unmoved
          BY <3>1, <5>3 DEF Unmoved, At
        <5> QED
          BY <4>1, <5>1, <5>2, <5>3
      <4> QED
        BY <1>2, <2>3, <4>2
    <3>2. CASE ~At(a, "next")
      <4>1. /\ thread[a].pc = "posting" => thread[a].after \in {"top", "leaving", "gone"}
            /\ thread[a].pc = "joining" => thread[a].after \in {"cleared", "work", "gone", "unwound"}
        BY DEF Leads, At
      <4>2. thread'[a].pc # "taken"
        BY <2>3, <3>2, <4>1 DEF Moved, Path, Exposed, At
      <4> QED
        BY <1>2, <2>3, <4>2
    <3> QED
      BY <3>1, <3>2
  <2> QED
    BY <2>1, <2>2, <2>3, OneMoves
<1> QED
  BY <1>1, <1>3

LEMMA NoticesStep ==
  ASSUME TypeOK, Leads, Kept, NEW a \in Agents, ActsOf(a)
  PROVE  NoticesKept'
<1> SUFFICES ASSUME NEW b \in Agents, NEW h \in Helpers, b \notin dead'
             PROVE  NoticeKept(b, h)'
  BY DEF NoticesKept
<1>l. dead \subseteq dead' /\ sent \subseteq sent' /\ (Over(h) => Over(h)')
  BY Lasting, AgentsFacts
<1>k. NoticeKept(b, h)
  BY <1>l DEF Kept, NoticesKept
<1>t. cell[b].queue \in Seq(Items) /\ cell'[b].queue \in Seq(Items)
      /\ DOMAIN cell[b].queue \subseteq Nat /\ DOMAIN cell'[b].queue \subseteq Nat
  BY CellTypes DEF TypeOK, Cells
<1>i. Item("Child", h).kind = "Child" /\ Item("Gone", h).kind = "Gone"
      /\ Item("Child", h).from = h /\ Item("Gone", h).from = h
      /\ Item("Child", h) # NoItem
  BY ItemFacts
\* Whoever held it holds it still, if it is still there.
<1>n. ASSUME Holds(b, h), \/ \E j \in DOMAIN cell'[b].queue : cell'[b].queue[j] = Item("Child", h)
                          \/ thread'[b].item = Item("Child", h)
      PROVE  Holds(b, h)'
  <2>1. NurseryStep(b)
    BY NurserySteps
  <2> QED
    BY <1>l, <1>i, <1>n, <2>1 DEF NurseryStep, Holds
<1>1. ASSUME NEW i \in DOMAIN cell'[b].queue, cell'[b].queue[i] = Item("Child", h)
      PROVE  Holds(b, h)' /\ \A j \in 1..i : cell'[b].queue[j] # Item("Gone", h)
  <2>1. \A j \in 1..i : j \in DOMAIN cell'[b].queue /\ j <= i
    BY <1>t
  <2>2. CASE Within(cell'[b].queue, cell[b].queue)
    <3>1. ASSUME NEW j \in 1..i
          PROVE  cell'[b].queue[j] # Item("Gone", h) /\ Holds(b, h)
      <4>1. PICK k, m \in DOMAIN cell[b].queue :
               k <= m /\ cell'[b].queue[j] = cell[b].queue[k] /\ cell'[b].queue[i] = cell[b].queue[m]
        BY <2>1, <2>2 DEF Within
      <4>2. k \in 1..m
        BY <1>t, <4>1
      <4> QED
        BY <1>1, <1>k, <4>1, <4>2 DEF NoticeKept
    <3>2. i \in 1..i
      BY <1>t
    <3> QED
      BY <1>1, <1>n, <3>1, <3>2
  <2>3. ASSUME NEW new \in Items, cell'[b].queue = Append(cell[b].queue, new), Sends(b, new)
        PROVE  Holds(b, h)' /\ \A j \in 1..i : cell'[b].queue[j] # Item("Gone", h)
    <3>1. CASE i \in DOMAIN cell[b].queue
      <4>1. cell[b].queue[i] = Item("Child", h) /\ \A j \in 1..i : cell'[b].queue[j] = cell[b].queue[j]
        BY <1>1, <1>t, <2>3, <3>1
      <4> QED
        BY <1>1, <1>k, <1>n, <3>1, <4>1 DEF NoticeKept
    <3>2. CASE i \notin DOMAIN cell[b].queue
      <4>1. new = Item("Child", h) /\ i = Len(cell[b].queue) + 1
        BY <1>1, <1>t, <2>3, <3>2
      <4>2. owner[h] = b /\ Locked(h)
        BY <1>i, <2>3, <4>1 DEF Sends
      <4>3. ~Over(h)
        BY <4>2 DEF Over, Locked, At
      <4>4. Holds(b, h)
        BY <1>l, <4>2, <4>3 DEF Kept, HeldBack, Holds
      <4>5. \A j \in 1..i : j \in DOMAIN cell[b].queue => cell[b].queue[j] # Item("Gone", h)
        BY <1>i, <4>3 DEF Kept, Farewells
      <4>6. \A j \in 1..i : cell'[b].queue[j] = IF j \in DOMAIN cell[b].queue THEN cell[b].queue[j] ELSE new
        BY <1>t, <2>3, <4>1
      <4> QED
        BY <1>1, <1>i, <1>n, <4>1, <4>4, <4>5, <4>6
    <3> QED
      BY <3>1, <3>2
  <2>4. CellStep(b)
    BY CellSteps
  <2> QED
    BY <2>2, <2>3, <2>4 DEF CellStep
<1>2. ASSUME thread'[b].item = Item("Child", h)
      PROVE  Holds(b, h)'
  <2>1. CASE thread'[b].item = thread[b].item
    BY <1>2, <1>k, <1>n, <2>1 DEF NoticeKept
  <2>2. CASE \E i \in DOMAIN cell[b].queue : thread'[b].item = cell[b].queue[i]
    BY <1>2, <1>k, <1>n, <2>2 DEF NoticeKept
  <2> QED
    BY <1>2, <1>i, <2>1, <2>2, HandSteps
<1> QED
  BY <1>1, <1>2 DEF NoticeKept

LEMMA KeptStep == (TypeOK /\ Leads) /\ Kept /\ [Next]_vars => Kept'
<1> SUFFICES ASSUME TypeOK, Leads, Kept, [Next]_vars
             PROVE  Kept'
  OBVIOUS
<1>1. ASSUME NEW a \in Agents, ActsOf(a)
      PROVE  Kept'
  BY <1>1, KinshipStep, FarewellsStep, HeldBackStep, NoticesStep DEF Kept
<1>2. ASSUME dead \subseteq dead', UNCHANGED <<thread, cell, kin, nursery, sent>>
      PROVE  Kept'
  <2>1. Kinship' /\ Farewells' /\ HeldBack' /\ NoticesKept'
    BY <1>2 DEF Kept, Kinship, Farewells, HeldBack, NoticesKept, NoticeKept, Holds, Parting, Over, Born, At, kin
  <2> QED
    BY <2>1 DEF Kept
<1>3. ASSUME NEW a \in Helpers \cup {Human}, Ends(a)
      PROVE  Kept'
  BY <1>2, <1>3 DEF Ends, books
<1>4. ASSUME UNCHANGED vars
      PROVE  Kept'
  BY <1>2, <1>4 DEF vars
<1> QED
  BY <1>1, <1>3, <1>4, NextSplits

LEMMA KeptHolds == Spec => []Kept
<1>1. Init => Kept
  BY KinshipInit DEF Kept
<1> QED
  BY <1>1, KeptStep, TypesHold, PTL DEF Spec

\* A helper's notice finds its holder: queued or in hand it precedes the Gone
\* that joins its helper, so that only one sent away, by a dismissal or a clear,
\* is ever dropped unread (bus/mailbox.rs Txn::report, agent/arrival.rs admit,
\* agent/nursery.rs).
THEOREM NoticesAreHeld == Spec => []NoticesReachTheirHolder
<1>1. Kept => NoticesReachTheirHolder
  <2> SUFFICES ASSUME Kept, NEW a \in Agents, NEW h \in Helpers, Live(a)
               PROVE  NoticeKept(a, h)
    BY DEF NoticesReachTheirHolder, NoticeKept
  <2>1. a \notin dead
    BY DEF Kept, Kinship, Live
  <2> QED
    BY <2>1 DEF Kept, NoticesKept
<1> QED
  BY <1>1, KeptHolds, PTL

-----------------------------------------------------------------------------
(* Jobs at rest. *)

\* A helper that owes nothing and is not at its report.
Debtless(h) == ~Owes(h) /\ ~Locked(h)

\* A parent is given with the birth.  A helper that is not over is in its
\* parent's nursery, or is being joined.
Awaited(a, h) == At(a, "joining") /\ h \in thread[a].awaits
Unjoined == \A a \in Agents, h \in Helpers :
  owner[h] = a => Born(h) /\ (h \in nursery[a] \/ Over(h) \/ Awaited(a, h))
\* What a thread read of its helpers stays so while it waits for an item.
Rested == \A a \in Agents : At(a, "next") /\ ~thread[a].pending => \A h \in nursery[a] : Debtless(h)
\* RestOwesNothing, for an agent without a job wherever its thread is.
Eased(a) ==
  /\ \A h \in Helpers : owner[h] = a /\ (h \in nursery[a] \/ ~Over(h)) => Debtless(h)
  /\ \A i \in DOMAIN cell[a].queue : cell[a].queue[i].kind # "Child"
  /\ thread[a].item.kind # "Child"
AtEase == \A a \in Agents : cell[a].job = 0 => Eased(a)

Ease == Unjoined /\ Rested /\ AtEase

LEMMA EaseInit == Init => Ease
<1> SUFFICES ASSUME Init
             PROVE  Ease
  OBVIOUS
<1>1. \A h \in Helpers : owner[h] = 0
  BY DEF Init
<1>2. \A a \in Agents : a # 0
  BY DEF Agents
<1>3. \A a \in Agents : thread[a].item = NoItem /\ thread[a].pc # "next"
  BY DEF Init, Idle
<1>4. \A a \in Agents : cell[a].queue = <<>>
  BY DEF Init
<1>5. Unjoined
  BY <1>1, <1>2 DEF Unjoined
<1>6. Rested
  BY <1>3 DEF Rested, At
<1>7. AtEase
  BY <1>1, <1>2, <1>3, <1>4, ItemFacts DEF AtEase, Eased
<1> QED
  BY <1>5, <1>6, <1>7 DEF Ease

\* A report begins in one of these ways.
Reports(h) == Settled(h) \/ Replies(h) \/ (Down(h) /\ Owes(h)) \/ Unwound(h)

LEMMA ReportsLock ==
  ASSUME TypeOK, Leads, NEW a \in Agents, ActsOf(a), NEW h \in Agents, ~Locked(h), Locked(h)'
  PROVE  Reports(h) /\ Owes(h)
<1>1. ASSUME NEW after \in Pcs, after # "posting", Report(a, after)
      PROVE  h = a /\ Owes(h)
  <2>1. CASE h = a
    BY <1>1, <2>1, ReportFacts DEF Tells, Locked, At
  <2>2. CASE h # a
    BY <1>1, <2>2, ReportFacts DEF Locked, At
  <2> QED
    BY <2>1, <2>2
<1>2. CASE \/ At(a, "settled") \/ At(a, "work") \/ At(a, "down") \/ At(a, "unwound")
  <2>1. CASE Reports(a)
    <3>1. \E after \in {"top", "leaving", "gone"} : Report(a, after)
      BY <2>1 DEF Reports, Settled, Replies, Down, Unwound
    <3> QED
      BY <2>1, <3>1, <1>1 DEF Pcs
  <2>2. CASE ~Reports(a)
    <3>1. \/ Unmoved \/ thread' = Go(a, "top") \/ thread' = Go(a, "leaving")
          \/ \E g \in Helpers : thread' = Join(a, {g}, "work")
          \/ thread' = Join(a, nursery[a], "unwound")
          \/ \E g \in Unborn : thread' = Go(g, "top")
      <4>1. CASE Spawn(a)
        BY <4>1, SpawnFacts
      <4>2. CASE Dismiss(a)
        <5>1. nursery[a] \subseteq Helpers
          BY DEF TypeOK
        <5> QED
          BY <4>2, <5>1 DEF Dismiss
      <4>3. CASE Down(a)
        BY <2>2, <4>3 DEF Reports, Down
      <4>4. CASE ExchangeEnds(a)
        BY <4>4 DEF ExchangeEnds
      <4>5. ~At(a, "top") /\ ~At(a, "next") /\ ~At(a, "taken") /\ ~At(a, "clear") /\ ~At(a, "cleared")
            /\ ~At(a, "joining") /\ ~At(a, "posting") /\ ~At(a, "leaving") /\ ~At(a, "gone")
        BY <1>2 DEF At
      <4>6. CASE Tell(a) \/ AgentStops(a) \/ Drain(a) \/ Steer(a) \/ HumanStops(a) \/ Breaks(a)
        BY <4>6 DEF Tell, AgentStops, Drain, Steer, HumanStops, Breaks, Unmoved
      <4>7. ~(\/ ReadRest(a) \/ NextEnded(a) \/ NextItem(a) \/ NextSettled(a) \/ NextIdles(a) \/ Decline(a)
              \/ Begin(a) \/ ClearEnds(a) \/ Cleared(a) \/ Joins(a) \/ Deliver(a) \/ Leave(a) \/ Gone(a))
        BY <4>5 DEF ReadRest, NextEnded, NextItem, NextSettled, NextIdles, Decline, Begin, ClearEnds, Cleared, Joins,
         Deliver, Leave, Gone
      <4>8. CASE Panics(a)
        BY <4>8 DEF Panics
      <4> QED
        BY <2>2, <4>1, <4>2, <4>3, <4>4, <4>6, <4>7, <4>8 DEF Reports, ActsOf, Attends, Works, Outside
    <3>2. ASSUME NEW g \in Agents, NEW pc \in {"top", "leaving"}, thread' = Go(g, pc)
          PROVE  Locked(h)' => Locked(h)
      <4>1. pc \in Pcs
        BY DEF Pcs
      <4> QED
        BY <3>2, <4>1, GoFacts DEF Locked, At
    <3>3. ASSUME NEW g \in Helpers, thread' = Join(a, {g}, "work")
          PROVE  Locked(h)' => Locked(h)
      BY <3>3, JoinFacts DEF Locked, At, Pcs
    <3>4. ASSUME thread' = Join(a, nursery[a], "unwound")
          PROVE  Locked(h)' => Locked(h)
      <4>1. nursery[a] \in SUBSET Helpers
        BY DEF TypeOK
      <4> QED
        BY <3>4, <4>1, JoinFacts DEF Locked, At, Pcs
    <3>5. Unborn \subseteq Agents
      BY AgentsFacts DEF Unborn
    <3> QED
      BY <3>1, <3>2, <3>3, <3>4, <3>5 DEF Unmoved, Locked, At
  <2> QED
    BY <2>1, <2>2
<1>3. CASE ~(\/ At(a, "settled") \/ At(a, "work") \/ At(a, "down") \/ At(a, "unwound"))
  <2>1. ASSUME NEW c \in Agents, Moved(c), ~(thread[c].pc \in {"settled", "work", "down", "unwound"})
        PROVE  FALSE
    <3>1. /\ thread[c].pc = "posting" => thread[c].after \in {"top", "leaving", "gone"}
          /\ thread[c].pc = "joining" => thread[c].after \in {"cleared", "work", "gone", "unwound"}
      BY DEF Leads, At
    <3>2. thread'[c].pc # "posting"
      BY <2>1, <3>1 DEF Moved, Path, Exposed
    <3> QED
      BY <2>1, <3>2 DEF Moved, Locked, At
  <2>2. \A g \in Unborn : g \in Agents /\ thread[g].pc = "unborn"
    BY AgentsFacts DEF Unborn, At
  <2>3. ~Unmoved
    BY DEF Unmoved, Locked, At
  <2> QED
    BY <1>3, <2>1, <2>2, <2>3, OneMoves DEF At
<1> QED
  BY <1>2, <1>3

\* Only its parent at work puts a helper in debt.
LEMMA DebtsFromWork ==
  ASSUME TypeOK, Leads, NEW a \in Agents, ActsOf(a), NEW h \in Helpers, Born(h), Debtless(h),
         ~At(owner[h], "work")
  PROVE  Debtless(h)'
<1>a. h \in Agents /\ h # 1
  BY AgentsFacts
<1>o. owner'[h] = owner[h]
  BY Lasting
<1>1. ~Locked(h)'
  BY <1>a, ReportsLock DEF Debtless
<1>2. CellStep(h)
  BY <1>a, CellSteps
<1>3. ~cell[h].answering /\ ~Asks(h)
  BY <1>a DEF Debtless, Owes
<1>t. /\ cell[h].queue \in Seq(Items) /\ cell'[h].queue \in Seq(Items)
      /\ DOMAIN cell'[h].queue \subseteq Nat
  BY <1>a, CellTypes DEF TypeOK, Cells
<1>4. ~cell'[h].answering
  BY <1>2, <1>3 DEF CellStep
<1>5. ~Asks(h)'
  <2> SUFFICES ASSUME NEW i \in DOMAIN cell'[h].queue,
                      cell'[h].queue[i].from = owner[h], cell'[h].queue[i].kind \in {"Task", "Message"}
               PROVE  FALSE
    BY <1>o DEF Asks, ByParent
  <2>0. \A k \in DOMAIN cell[h].queue : ~(/\ cell[h].queue[k].from = owner[h]
                                          /\ cell[h].queue[k].kind \in {"Task", "Message"})
    BY <1>a, <1>3 DEF Asks, ByParent
  <2>1. CASE Within(cell'[h].queue, cell[h].queue)
    <3>1. \E k \in DOMAIN cell[h].queue : cell'[h].queue[i] = cell[h].queue[k]
      BY <1>t, <2>1 DEF Within
    <3> QED
      BY <2>0, <3>1
  <2>2. ASSUME NEW item \in Items, cell'[h].queue = Append(cell[h].queue, item), Sends(h, item)
        PROVE  FALSE
    <3>1. CASE i \in DOMAIN cell[h].queue
      <4>1. cell'[h].queue[i] = cell[h].queue[i]
        BY <1>t, <2>2, <3>1
      <4> QED
        BY <2>0, <3>1, <4>1
    <3>2. CASE i \notin DOMAIN cell[h].queue
      <4>1. cell'[h].queue[i] = item
        BY <1>t, <2>2, <3>2
      <4>2. item.from = owner[h] /\ item.kind \in {"Task", "Message"}
        BY <4>1
      <4> QED
        BY <2>2, <4>2 DEF Sends
    <3> QED
      BY <3>1, <3>2
  <2> QED
    BY <1>2, <2>1, <2>2 DEF CellStep
<1> QED
  BY <1>1, <1>4, <1>5 DEF Debtless, Owes

\* A job ends by its agent's settling it, and in no other way.
LEMMA JobsSettle ==
  ASSUME TypeOK, Leads, NEW a \in Agents, ActsOf(a), NEW b \in Agents, cell[b].job # 0, cell'[b].job = 0
  PROVE  a = b /\ NextSettled(b)
<1>s. cell' # cell
  OBVIOUS
<1>r. ASSUME NEW after, Report(a, after)
      PROVE  FALSE
  <2>1. Settles(a)
    BY <1>r DEF Report
  <2>2. cell'[a].job = cell[a].job /\ \A c \in Agents : c # a => cell'[c] = cell[c]
    BY <2>1, SettlesFacts
  <2> QED
    BY <2>2
<1>q. ASSUME NEW c \in Agents, NEW item \in Items, cell' = Queued(c, item)
      PROVE  FALSE
  <2>1. cell'[c].job = cell[c].job /\ \A d \in Agents : d # c => cell'[d] = cell[d]
    BY <1>q, QueuedFacts
  <2> QED
    BY <2>1
<1>p. ASSUME NEW c \in Agents, NEW recalls \in BOOLEAN, NEW job, Stop(c, job, recalls)
      PROVE  FALSE
  <2>1. cell'[c].job = cell[c].job /\ \A d \in Agents : d # c => cell'[d] = cell[d]
    BY <1>p, StopFacts
  <2> QED
    BY <2>1
<1>t. ASSUME NEW taken \in SUBSET (DOMAIN cell[a].queue)
      PROVE  /\ Taken(a, taken) \in [Agents -> Cells]
             /\ Taken(a, taken)[b].job = cell[b].job
  BY TakenFacts
<1>1. CASE NextItem(a)
  <2>1. PICK i \in DOMAIN cell[a].queue :
           \/ cell' = Taken(a, {i})
           \/ cell' = [Taken(a, RunFrom(a, i)) EXCEPT ![a].cut = FALSE]
    BY <1>1, NextItemFacts
  <2>2. {i} \in SUBSET (DOMAIN cell[a].queue) /\ RunFrom(a, i) \in SUBSET (DOMAIN cell[a].queue)
    BY RunFromFacts
  <2>3. cell' # Taken(a, {i})
    BY <1>t, <2>2
  <2>4. cell' = [Taken(a, RunFrom(a, i)) EXCEPT ![a].cut = FALSE]
    BY <2>1, <2>3
  <2>5. cell'[b].job = Taken(a, RunFrom(a, i))[b].job
    BY <1>t, <2>2, <2>4 DEF Cells
  <2> QED
    BY <1>t, <2>2, <2>5
<1>2. CASE Drain(a)
  <2>1. PICK taken \in SUBSET (DOMAIN cell[a].queue) : cell' = Taken(a, taken)
    BY <1>2, DrainFacts
  <2> QED
    BY <1>t, <2>1
<1>3. CASE NextSettled(a)
  <2>1. \A c \in Agents : c # a => cell'[c] = cell[c]
    BY <1>3 DEF NextSettled, TypeOK
  <2> QED
    BY <1>3, <2>1
<1>4. CASE Begin(a)
  <2>1. cell' = Opened(a)
    BY <1>4, <1>s DEF Begin
  <2>2. jobs[a] + 1 # 0
    BY DEF TypeOK
  <2> QED
    BY <2>1, <2>2, OpenedFacts
<1>5. CASE Cleared(a)
  <2> DEFINE q == Without(a, {"Child", "Surface", "Gone"})
  <2>1. cell' = cell \/ cell' = [cell EXCEPT ![a].queue = q]
    BY <1>5 DEF Cleared
  <2> HIDE DEF q
  <2> DEFINE new == [cell[a] EXCEPT !.queue = q]
  <2>3. new.job = cell[a].job
    BY DEF TypeOK, Cells
  <2>4. cell' = cell \/ cell' = [cell EXCEPT ![a] = new]
    BY <2>1 DEF TypeOK
  <2> HIDE DEF new
  <2>2. cell'[b].job = cell[b].job
    BY <2>3, <2>4 DEF TypeOK
  <2> QED
    BY <2>2
<1>6. CASE Deliver(a)
  <2>1. owner[a] \in Agents
    BY <1>6 DEF Deliver, Leads, At, Born
  <2>2. Item("Child", a) \in Items
    BY ItemFacts DEF Kinds, Posts
  <2> QED
    BY <2>1, <2>2, <1>6, <1>s, <1>q DEF Deliver
<1>7. CASE Gone(a)
  <2>1. a # 1 => owner[a] \in Agents
    BY <1>7 DEF Gone, Leads, At, Born, Helpers
  <2>2. Item("Gone", a) \in Items
    BY ItemFacts DEF Kinds
  <2> QED
    BY <2>1, <2>2, <1>7, <1>s, <1>q DEF Gone
<1>8. CASE Settled(a) \/ Unwound(a) \/ Replies(a) \/ Down(a)
  BY <1>8, <1>r, <1>s DEF Settled, Unwound, Replies, Down
<1>9. CASE Spawn(a)
  <2>1. PICK h \in Unborn : cell' = IF Live(a) THEN Queued(h, Item("Task", a)) ELSE cell
    BY <1>9, SpawnFacts
  <2>2. Item("Task", a) \in Items /\ h \in Agents
    BY ItemFacts, AgentsFacts DEF Kinds, Posts, Unborn
  <2> QED
    BY <2>1, <2>2, <1>q, <1>s
<1>10. CASE Steer(a) \/ Tell(a)
  <2>1. PICK c \in Agents, item \in Items : Post(c, item)
    BY <1>10, ItemFacts DEF Steer, Tell, Kinds, Posts
  <2> QED
    BY <2>1, <1>q DEF Post
<1>11. CASE HumanStops(a) \/ AgentStops(a)
  <2>1. PICK c \in Agents, recalls \in BOOLEAN : \E job : Stop(c, job, recalls)
    BY <1>11, AgentsFacts DEF HumanStops, AgentStops
  <2> QED
    BY <2>1, <1>p
<1>12. ~(\/ ExchangeEnds(a) \/ ReadRest(a) \/ Joins(a) \/ ClearEnds(a) \/ Leave(a) \/ Dismiss(a) \/ Breaks(a)
         \/ NextEnded(a) \/ NextIdles(a) \/ Decline(a) \/ Panics(a))
  BY <1>s DEF ExchangeEnds, ReadRest, Joins, ClearEnds, Leave, Dismiss, Breaks, NextEnded, NextIdles, Decline, Panics
<1> QED
  BY <1>1, <1>2, <1>3, <1>4, <1>5, <1>6, <1>7, <1>8, <1>9, <1>10, <1>11, <1>12
  DEF ActsOf, Attends, Works, Outside

\* Who leaves a nursery is over, or is joined now.
LEMMA LeaversJoined ==
  ASSUME TypeOK, Leads, Farewells, NEW a \in Agents, ActsOf(a), NEW b \in Agents, NEW h \in nursery[b],
         h \notin nursery'[b]
  PROVE  Over(h) \/ (thread'[b].pc = "joining" /\ h \in thread'[b].awaits)
<1>t. nursery \in [Agents -> SUBSET Helpers]
  BY DEF TypeOK
<1>n. nursery' # nursery
  OBVIOUS
<1>f. \A i \in DOMAIN cell[a].queue : cell[a].queue[i].kind = "Gone" => Over(cell[a].queue[i].from)
  BY DEF Farewells
<1>j. ASSUME NEW after \in Pcs, NEW helpers \in SUBSET Helpers, thread' = Join(a, helpers, after), h \in helpers, a = b
      PROVE  thread'[b].pc = "joining" /\ h \in thread'[b].awaits
  BY <1>j, JoinFacts
<1>1. CASE NextItem(a)
  <2>1. PICK i \in DOMAIN cell[a].queue : LET item == cell[a].queue[i] IN
           item.kind = "Gone" /\ nursery' = [nursery EXCEPT ![a] = nursery[a] \ {item.from}]
    BY <1>1, <1>n, NextItemFacts
  <2> QED
    BY <1>t, <1>f, <2>1
<1>2. CASE Drain(a)
  <2>1. PICK prefix \in SUBSET (DOMAIN cell[a].queue) :
           nursery' = [nursery EXCEPT ![a] = nursery[a] \ {cell[a].queue[i].from :
                                                i \in {j \in prefix : cell[a].queue[j].kind = "Gone"}}]
    BY <1>2, DrainFacts
  <2> QED
    BY <1>t, <1>f, <2>1
<1>3. CASE Dismiss(a)
  <2>1. PICK g \in nursery[a] : nursery' = [nursery EXCEPT ![a] = nursery[a] \ {g}] /\ thread' = Join(a, {g}, "work")
    BY <1>3 DEF Dismiss, TypeOK
  <2>2. h = g /\ b = a
    BY <1>t, <2>1
  <2> QED
    BY <1>t, <1>j, <2>1, <2>2 DEF Pcs
<1>4. CASE ClearEnds(a) \/ Leave(a) \/ Panics(a)
  <2>1. nursery' = [nursery EXCEPT ![a] = {}] /\ \E after \in Pcs : thread' = Join(a, nursery[a], after)
    BY <1>4 DEF ClearEnds, Leave, Panics, Pcs
  <2>2. b = a
    BY <1>t, <2>1
  <2> QED
    BY <1>t, <1>j, <2>1, <2>2
<1>5. CASE Spawn(a)
  <2>1. \E g \in Unborn : nursery' = [nursery EXCEPT ![a] = @ \cup {g}]
    BY <1>5, SpawnFacts
  <2> QED
    BY <1>t, <2>1
<1>6. CASE ~(NextItem(a) \/ Drain(a) \/ Dismiss(a) \/ ClearEnds(a) \/ Leave(a) \/ Panics(a) \/ Spawn(a))
  BY <1>6, <1>n DEF ActsOf, Attends, Works, Outside, ReadRest, NextEnded, NextSettled, NextIdles, Settled, Decline, Begin,
         Cleared, Joins, Deliver, Down, Unwound, Gone, Tell, AgentStops, Replies, ExchangeEnds, Steer, HumanStops, Breaks,
         Report, fleet
<1> QED
  BY <1>1, <1>2, <1>3, <1>4, <1>5, <1>6

\* Who is being joined is so until it is over.
LEMMA AwaitedStay ==
  ASSUME TypeOK, Leads, NEW a \in Agents, ActsOf(a), NEW b \in Agents, NEW h \in Helpers, Awaited(b, h)
  PROVE  Over(h) \/ (thread'[b].pc = "joining" /\ h \in thread'[b].awaits)
<1>1. CASE thread'[b] = thread[b]
  BY <1>1 DEF Awaited, At
<1>2. CASE thread'[b] # thread[b]
  <2>1. a = b
    <3>1. ASSUME NEW g \in Unborn, Moved(g)
          PROVE  FALSE
      BY <1>2, <3>1 DEF Unborn, Moved, Awaited, At
    <3> QED
      BY <1>2, <3>1, OneMoves DEF Unmoved, Moved
  <2>2. ~At(a, "top") /\ ~At(a, "next") /\ ~At(a, "taken") /\ ~At(a, "clear") /\ ~At(a, "cleared")
        /\ ~At(a, "settled") /\ ~At(a, "posting") /\ ~At(a, "leaving") /\ ~At(a, "gone") /\ ~At(a, "work")
        /\ ~At(a, "down") /\ ~At(a, "unwound")
    BY <2>1 DEF Awaited, At
  <2>3. Joins(a)
    BY <1>2, <2>1, <2>2 DEF ActsOf, Attends, Works, Outside, ReadRest, NextEnded, NextItem, NextSettled, NextIdles, Settled,
         Decline, Begin, ClearEnds, Cleared, Deliver, Down, Leave, Unwound, Gone, Spawn, Tell, AgentStops, Dismiss, Replies,
         Drain, ExchangeEnds, Steer, HumanStops, Breaks, Panics, Exposed, At
  <2> QED
    BY <2>1, <2>3 DEF Joins, Awaited
<1> QED
  BY <1>1, <1>2

\* A thread waits for an item from having read what its helpers owe.
LEMMA RestIsRead ==
  ASSUME TypeOK, Leads, NEW a \in Agents, ActsOf(a), NEW b \in Agents, thread'[b].pc = "next"
  PROVE  \/ thread'[b] = thread[b]
         \/ a = b /\ ReadRest(b) /\ (~thread'[b].pending => \A h \in nursery[b] : Debtless(h))
<1>1. CASE thread'[b] # thread[b]
  <2>1. ASSUME NEW c \in Agents, Moved(c), c # b \/ thread[b].pc # "top"
        PROVE  FALSE
    <3>1. /\ thread[b].pc = "posting" => thread[b].after \in {"top", "leaving", "gone"}
          /\ thread[b].pc = "joining" => thread[b].after \in {"cleared", "work", "gone", "unwound"}
      BY DEF Leads, At
    <3> QED
      BY <1>1, <2>1, <3>1 DEF Moved, Path, Exposed
  <2>2. \A g \in Unborn : g \in Agents /\ thread[g].pc = "unborn"
    BY AgentsFacts DEF Unborn, At
  <2>3. a = b /\ thread[b].pc = "top"
    BY <1>1, <2>1, <2>2, OneMoves DEF Unmoved
  <2>4. ~Panics(a)
    <3>1. nursery[a] \in SUBSET Helpers
      BY DEF TypeOK
    <3>2. Panics(a) => thread'[a].pc = "joining"
      BY <3>1, JoinFacts DEF Panics, Pcs
    <3> QED
      BY <2>3, <3>2
  <2>5. ReadRest(a)
    BY <1>1, <2>3, <2>4 DEF ActsOf, Attends, Works, Outside, NextEnded, NextItem, NextSettled, NextIdles, Settled,
         Decline, Begin, ClearEnds, Cleared, Joins, Deliver, Down, Leave, Unwound, Gone, Spawn, Tell, AgentStops, Dismiss,
         Replies, Drain, ExchangeEnds, Steer, HumanStops, Breaks, At
  <2>6. PICK pending \in BOOLEAN :
          /\ ~pending => \A h \in nursery[a] : ~Owes(h) /\ ~Locked(h)
          /\ thread' = [thread EXCEPT ![a] = [Idle EXCEPT !.pc = "next", !.pending = pending]]
    BY <2>5 DEF ReadRest
  <2>7. thread'[a].pending = pending
    BY <2>6 DEF TypeOK, Idle
  <2> QED
    BY <2>3, <2>5, <2>6, <2>7 DEF Debtless
<1> QED
  BY <1>1

LEMMA UnjoinedStep ==
  ASSUME TypeOK, Leads, Kept, Unjoined, NEW a \in Agents, ActsOf(a)
  PROVE  Unjoined'
<1> SUFFICES ASSUME NEW b \in Agents, NEW h \in Helpers, owner'[h] = b
             PROVE  /\ thread'[h].pc # "unborn"
                    /\ h \in nursery'[b] \/ thread'[h].pc = "over"
                       \/ (thread'[b].pc = "joining" /\ h \in thread'[b].awaits)
  BY DEF Unjoined, Born, Over, Awaited, At
<1>h. h \in Agents
  BY AgentsFacts
<1>1. CASE owner[h] = b
  <2>1. Born(h) /\ (h \in nursery[b] \/ Over(h) \/ Awaited(b, h))
    BY <1>1 DEF Unjoined
  <2>2. thread'[h].pc # "unborn" /\ (Over(h) => thread'[h].pc = "over")
    BY <1>h, <2>1, Lasting DEF Born, Over, At
  <2>3. CASE h \in nursery[b] /\ h \notin nursery'[b]
    <3>1. Farewells
      BY DEF Kept
    <3> QED
      BY <2>2, <2>3, <3>1, LeaversJoined
  <2>4. CASE Awaited(b, h)
    BY <2>2, <2>4, AwaitedStay
  <2> QED
    BY <2>1, <2>2, <2>3, <2>4
<1>2. CASE owner[h] # b
  <2>1. Spawn(a)
    <3>1. owner' # owner
      BY <1>2
    <3> QED
      BY <3>1 DEF ActsOf, Attends, Works, Outside, ReadRest, NextEnded, NextItem, NextSettled, NextIdles, Settled, Decline,
         Begin, ClearEnds, Cleared, Joins, Deliver, Down, Leave, Unwound, Gone, Tell, AgentStops, Dismiss, Replies,
         Drain, ExchangeEnds, Steer, HumanStops, Breaks, Panics, Report, fleet, kin
  <2>2. PICK g \in Unborn : /\ owner' = [owner EXCEPT ![g] = a] /\ nursery' = [nursery EXCEPT ![a] = @ \cup {g}]
                            /\ thread' = Go(g, "top")
    BY <2>1, SpawnFacts
  <2>3. h = g /\ b = a
    BY <1>2, <2>2 DEF TypeOK
  <2>4. thread'[h].pc = "top"
    BY <1>h, <2>2, <2>3, GoFacts DEF Pcs
  <2>5. h \in nursery'[b]
    BY <2>2, <2>3 DEF TypeOK
  <2> QED
    BY <2>4, <2>5
<1> QED
  BY <1>1, <1>2

\* The helpers of an agent that is not at work were its helpers before.
LEMMA NoneNew ==
  ASSUME TypeOK, Leads, Kept, Unjoined, NEW a \in Agents, ActsOf(a), NEW b \in Agents, ~At(b, "work")
  PROVE  /\ nursery'[b] \subseteq nursery[b]
         /\ \A h \in Helpers : owner'[h] = b /\ (h \in nursery'[b] \/ thread'[h].pc # "over") =>
              owner[h] = b /\ Born(h) /\ (h \in nursery[b] \/ ~Over(h))
<1>1. nursery'[b] \subseteq nursery[b] /\ \A h \in Helpers : owner'[h] = b => owner[h] = b
  <2>1. CASE Spawn(a)
    <3>1. PICK g \in Unborn : owner' = [owner EXCEPT ![g] = a] /\ nursery' = [nursery EXCEPT ![a] = @ \cup {g}]
      BY <2>1, SpawnFacts
    <3>2. a # b
      BY <2>1 DEF Spawn
    <3> QED
      BY <3>1, <3>2 DEF TypeOK
  <2>2. CASE ~Spawn(a)
    <3>1. nursery'[b] \subseteq nursery[b]
      BY <2>2, NurseryShrinks
    <3>2. owner' = owner
      BY <2>2 DEF ActsOf, Attends, Works, Outside, ReadRest, NextEnded, NextItem, NextSettled, NextIdles, Settled, Decline,
         Begin, ClearEnds, Cleared, Joins, Deliver, Down, Leave, Unwound, Gone, Tell, AgentStops, Dismiss, Replies,
         Drain, ExchangeEnds, Steer, HumanStops, Breaks, Panics, Report, fleet, kin
    <3> QED
      BY <3>1, <3>2
  <2> QED
    BY <2>1, <2>2
<1>2. \A h \in Helpers : thread'[h].pc # "over" => ~Over(h)
  BY Lasting, AgentsFacts DEF Over, At
<1>3. \A h \in Helpers : owner[h] = b => Born(h)
  BY DEF Unjoined
<1> QED
  BY <1>1, <1>2, <1>3

LEMMA RestedStep ==
  ASSUME TypeOK, Leads, Kept, Unjoined, Rested, NEW a \in Agents, ActsOf(a)
  PROVE  Rested'
<1> SUFFICES ASSUME NEW b \in Agents, thread'[b].pc = "next", ~thread'[b].pending, NEW h \in nursery'[b]
             PROVE  Debtless(h)'
  BY DEF Rested, At
<1>1. \/ thread'[b] = thread[b]
      \/ ReadRest(b) /\ \A g \in nursery[b] : Debtless(g)
  BY RestIsRead
<1>2. ~At(b, "work")
  BY <1>1 DEF ReadRest, At
<1>3. h \in nursery[b]
  BY <1>2, NoneNew
<1>4. Debtless(h)
  BY <1>1, <1>3 DEF Rested, At
<1>5. h \in Helpers /\ owner[h] = b /\ Born(h)
  BY <1>3 DEF TypeOK, Kept, Kinship
<1> QED
  BY <1>2, <1>4, <1>5, DebtsFromWork

LEMMA AtEaseStep ==
  ASSUME TypeOK, Leads, JobsFit, Kept, Ease, NEW a \in Agents, ActsOf(a)
  PROVE  AtEase'
<1> SUFFICES ASSUME NEW b \in Agents, cell'[b].job = 0
             PROVE  Eased(b)'
  BY DEF AtEase
<1>e. Unjoined /\ Rested /\ AtEase
  BY DEF Ease
<1>i. NoItem.kind # "Child"
  BY ItemFacts
<1>h. \/ thread'[b].item = thread[b].item \/ thread'[b].item = NoItem
      \/ \E i \in DOMAIN cell[b].queue : thread'[b].item = cell[b].queue[i]
  BY HandSteps
\* What holds of the helpers, the queue and the hand before, at rest.
<1>1. ASSUME ~At(b, "work"),
             \A h \in Helpers : owner[h] = b /\ (h \in nursery[b] \/ ~Over(h)) => Debtless(h),
             \A i \in DOMAIN cell[b].queue : cell[b].queue[i].kind # "Child",
             thread[b].item.kind # "Child"
      PROVE  Eased(b)'
  <2>1. ASSUME NEW h \in Helpers, owner'[h] = b, h \in nursery'[b] \/ thread'[h].pc # "over"
        PROVE  Debtless(h)'
    <3>1. owner[h] = b /\ Born(h) /\ (h \in nursery[b] \/ ~Over(h))
      BY <1>1, <1>e, <2>1, NoneNew
    <3>2. Debtless(h)
      BY <1>1, <3>1
    <3> QED
      BY <1>1, <3>1, <3>2, DebtsFromWork
  <2>2. ASSUME NEW j \in DOMAIN cell'[b].queue, cell'[b].queue[j].kind = "Child"
        PROVE  FALSE
    <3>t. cell[b].queue \in Seq(Items) /\ cell'[b].queue \in Seq(Items) /\ j \in Nat
      BY CellTypes DEF TypeOK, Cells
    <3>1. CASE Within(cell'[b].queue, cell[b].queue)
      <4>1. \E i \in DOMAIN cell[b].queue : cell'[b].queue[j] = cell[b].queue[i]
        BY <3>t, <3>1 DEF Within
      <4> QED
        BY <1>1, <2>2, <4>1
    <3>2. ASSUME NEW item \in Items, cell'[b].queue = Append(cell[b].queue, item), Sends(b, item)
          PROVE  FALSE
      <4>1. item.kind = "Child"
        BY <1>1, <2>2, <3>t, <3>2
      <4>2. item.from \in Helpers /\ owner[item.from] = b /\ Locked(item.from)
        BY <3>2, <4>1 DEF Sends
      <4>3. ~Over(item.from)
        BY <4>2 DEF Over, Locked, At
      <4> QED
        BY <1>1, <4>2, <4>3 DEF Debtless
    <3>3. CellStep(b)
      BY CellSteps
    <3> QED
      BY <3>1, <3>2, <3>3 DEF CellStep
  <2>3. thread'[b].item.kind # "Child"
    BY <1>1, <1>h, <1>i
  <2> QED
    BY <2>1, <2>2, <2>3 DEF Eased, Over, At
<1>2. CASE cell[b].job = 0
  <2>1. Eased(b)
    BY <1>2, <1>e DEF AtEase
  <2>2. ~At(b, "work")
    BY <1>2 DEF JobsFit, JobFits, AtWork
  <2> QED
    BY <1>1, <2>1, <2>2 DEF Eased
\* A job settles on an empty queue, its helpers read to owe nothing.
<1>3. CASE cell[b].job # 0
  <2>1. NextSettled(b)
    BY <1>3, JobsSettle
  <2>2. At(b, "next") /\ ~thread[b].pending /\ Admissible(b) = {}
    BY <2>1 DEF NextSettled
  <2>3. ~At(b, "work") /\ ~At(b, "joining") /\ ~At(b, "taken")
    BY <2>2 DEF At
  <2>4. DOMAIN cell[b].queue = {}
    BY <1>3, <2>2 DEF Admissible, Admitted
  <2>5. thread[b].item = NoItem
    BY <2>3 DEF Kept, Kinship
  <2>6. ASSUME NEW h \in Helpers, owner[h] = b, h \in nursery[b] \/ ~Over(h)
        PROVE  Debtless(h)
    <3>1. h \in nursery[b]
      BY <1>e, <2>3, <2>6 DEF Unjoined, Awaited
    <3> QED
      BY <1>e, <2>2, <3>1 DEF Rested
  <2> QED
    BY <1>1, <1>i, <2>3, <2>4, <2>5, <2>6
<1> QED
  BY <1>2, <1>3

LEMMA EaseHolds == Spec => []Ease
<1>1. (TypeOK /\ Leads) /\ JobsFit /\ Kept /\ Ease /\ [Next]_vars => Ease'
  <2> SUFFICES ASSUME TypeOK, Leads, JobsFit, Kept, Ease, [Next]_vars
               PROVE  Ease'
    OBVIOUS
  <2>1. ASSUME NEW a \in Agents, ActsOf(a)
        PROVE  Ease'
    BY <2>1, UnjoinedStep, RestedStep, AtEaseStep DEF Ease
  <2>2. ASSUME UNCHANGED <<thread, cell, kin, nursery>>
        PROVE  Ease'
    <3>1. Unjoined' /\ Rested'
      BY <2>2 DEF Ease, Unjoined, Rested, Awaited, Debtless, Owes, Asks, ByParent, Locked, Born, Over, At, kin
    <3>2. AtEase'
      BY <2>2 DEF Ease, AtEase, Eased, Debtless, Owes, Asks, ByParent, Locked, Over, At, kin
    <3> QED
      BY <3>1, <3>2 DEF Ease
  <2>3. ASSUME NEW a \in Helpers \cup {Human}, Ends(a)
        PROVE  Ease'
    BY <2>2, <2>3 DEF Ends
  <2>4. ASSUME UNCHANGED vars
        PROVE  Ease'
    BY <2>2, <2>4 DEF vars
  <2> QED
    BY <2>1, <2>3, <2>4, NextSplits
<1> QED
  BY <1>1, EaseInit, JobsHold, TypesHold, KeptHolds, PTL DEF Spec

\* A job at rest owes nothing and is owed nothing: once an agent's job has
\* settled no helper of its still owes it a report, and no notice is left in
\* its queue to open a job of its own (bus/mailbox.rs AgentMailbox::next and
\* Txn::report, agent/nursery.rs owing).
THEOREM RestIsQuiet == Spec => []RestOwesNothing
<1>1. (TypeOK /\ Leads) /\ Kept /\ Ease => RestOwesNothing
  <2> SUFFICES ASSUME TypeOK, Kept, Ease, NEW a \in Agents, cell[a].job = 0
               PROVE  /\ \A h \in nursery[a] : ~Owes(h) /\ ~Locked(h)
                      /\ \A i \in DOMAIN cell[a].queue : cell[a].queue[i].kind # "Child"
    BY DEF RestOwesNothing, Resting
  <2>1. Eased(a)
    BY DEF Ease, AtEase
  <2>2. \A h \in nursery[a] : owner[h] = a /\ h \in Helpers
    BY DEF Kept, Kinship, TypeOK
  <2> QED
    BY <2>1, <2>2 DEF Eased, Debtless
<1> QED
  BY <1>1, TypesHold, KeptHolds, EaseHolds, PTL

-----------------------------------------------------------------------------
(* Debts. *)

\* The thread's end is past its last report.
Ending(h) == \/ thread[h].pc \in {"leaving", "gone", "over"}
             \/ At(h, "joining") /\ thread[h].after = "gone"
\* Nothing was asked of it, by anyone.
Unasked(h) == ~cell[h].answering /\ \A i \in DOMAIN cell[h].queue : cell[h].queue[i].kind \notin {"Task", "Message"}

\* A helper has been asked and not answered just when it owes and has not told
\* of its failure, but for a report under way, which answers what it owed.
DebtFits(h) ==
  /\ (h \in broken => h \in dead) /\ (h \in noticed => h \in broken)
  /\ At(h, "down") => ~Live(h)
  /\ ~Born(h) => Unasked(h) /\ h \notin asked \cup noticed
  /\ Locked(h) => h \in asked /\ (h \notin noticed => ~cell[h].answering)
  /\ Locked(h) /\ thread[h].after # "top" => h \in noticed \/ ~Asks(h)
  /\ ~Locked(h) => (h \in asked <=> Owes(h) /\ h \notin noticed)
  /\ Ending(h) => h \notin asked
DebtsFit == \A h \in Helpers : DebtFits(h)

LEMMA DebtsInit == Init => DebtsFit
<1> SUFFICES ASSUME Init, NEW h \in Helpers
             PROVE  DebtFits(h)
  BY DEF DebtsFit
<1>1. h \in Agents /\ h # 1
  BY AgentsFacts
<1>2. thread[h].pc = "unborn" /\ cell[h].queue = <<>> /\ ~cell[h].answering
  BY <1>1 DEF Init, Idle
<1>3. ~Owes(h) /\ Unasked(h)
  BY <1>2 DEF Owes, Asks, Unasked
<1> QED
  BY <1>2, <1>3 DEF Init, DebtFits, Born, Locked, Ending, At

\* What leaves a helper's debt as it was.
SameDebt(h) ==
  /\ Owes(h)' <=> Owes(h)
  /\ Asks(h)' => Asks(h)
  /\ Locked(h) /\ cell'[h].answering => cell[h].answering
  /\ ~Born(h) /\ Unasked(h) => Unasked(h)'
  /\ h \in asked' <=> h \in asked

LEMMA KeepsDebt ==
  ASSUME NEW h \in Helpers, owner'[h] = owner[h], h \in asked' <=> h \in asked,
         \A j \in DOMAIN cell'[h].queue :
           \/ \E i \in DOMAIN cell[h].queue : cell'[h].queue[j] = cell[h].queue[i]
           \/ /\ ~ByParent(h, cell'[h].queue[j])
              /\ Born(h) \/ cell'[h].queue[j].kind \notin {"Task", "Message"},
         \A i \in DOMAIN cell[h].queue : ByParent(h, cell[h].queue[i]) =>
           cell'[h].answering \/ \E j \in DOMAIN cell'[h].queue : cell'[h].queue[j] = cell[h].queue[i],
         cell[h].answering => cell'[h].answering,
         cell'[h].answering => cell[h].answering \/ (~Locked(h) /\ Asks(h))
  PROVE  SameDebt(h)
<1>2. h # 1
  BY AgentsFacts
<1>a. Asks(h)' <=> \E j \in DOMAIN cell'[h].queue : ByParent(h, cell'[h].queue[j])
  BY <1>2 DEF Asks, ByParent
<1>3. Asks(h)' => Asks(h)
  BY <1>a DEF Asks
<1>4. Asks(h) => cell'[h].answering \/ Asks(h)'
  BY <1>a DEF Asks
<1>5. Unasked(h) => ~Asks(h)
  BY DEF Unasked, Asks, ByParent
<1>6. ~Born(h) /\ Unasked(h) => Unasked(h)'
  BY <1>5 DEF Unasked
<1> QED
  BY <1>2, <1>3, <1>4, <1>6 DEF SameDebt, Owes

\* A cell untouched, or posted to by another than the parent.
LEMMA StillDebt ==
  ASSUME TypeOK, NEW h \in Helpers, owner'[h] = owner[h], h \in asked' <=> h \in asked,
         cell'[h].queue = cell[h].queue, cell'[h].answering = cell[h].answering
  PROVE  SameDebt(h)
BY KeepsDebt

LEMMA PostDebt ==
  ASSUME TypeOK, NEW h \in Helpers, owner'[h] = owner[h], h \in asked' <=> h \in asked,
         NEW c \in Agents, NEW item \in Items, cell' = Queued(c, item),
         c = h => ~ByParent(h, item) /\ (Born(h) \/ item.kind \notin {"Task", "Message"})
  PROVE  SameDebt(h)
<1>h. h \in Agents
  BY AgentsFacts
<1>1. CASE c # h
  BY <1>h, <1>1, QueuedFacts, StillDebt
<1>2. CASE c = h
  <2>1. cell'[h].queue = Append(cell[h].queue, item) /\ cell'[h].answering = cell[h].answering
    BY <1>2, QueuedFacts
  <2>2. cell[h].queue \in Seq(Items)
    BY <1>h DEF TypeOK, Cells
  <2>3. \A j \in DOMAIN cell'[h].queue :
          (j \in DOMAIN cell[h].queue /\ cell'[h].queue[j] = cell[h].queue[j]) \/ cell'[h].queue[j] = item
    BY <2>1, <2>2
  <2>4. \A i \in DOMAIN cell[h].queue : i \in DOMAIN cell'[h].queue /\ cell'[h].queue[i] = cell[h].queue[i]
    BY <2>1, <2>2
  <2>5. \A j \in DOMAIN cell'[h].queue :
           \/ \E i \in DOMAIN cell[h].queue : cell'[h].queue[j] = cell[h].queue[i]
           \/ /\ ~ByParent(h, cell'[h].queue[j])
              /\ Born(h) \/ cell'[h].queue[j].kind \notin {"Task", "Message"}
    BY <1>2, <2>3
  <2>6. \A i \in DOMAIN cell[h].queue : \E j \in DOMAIN cell'[h].queue : cell'[h].queue[j] = cell[h].queue[i]
    BY <2>4
  <2> QED
    BY <2>1, <2>5, <2>6, KeepsDebt
<1> QED
  BY <1>1, <1>2

\* What is withdrawn by kind, tasks and messages apart.
LEMMA WithoutDebt ==
  ASSUME TypeOK, NEW h \in Helpers, owner'[h] = owner[h], h \in asked' <=> h \in asked,
         NEW kinds, "Task" \notin kinds, "Message" \notin kinds,
         cell'[h].queue = Without(h, kinds), cell'[h].answering = cell[h].answering
  PROVE  SameDebt(h)
<1>h. h \in Agents
  BY AgentsFacts
<1>1. /\ \A j \in DOMAIN cell'[h].queue : \E i \in DOMAIN cell[h].queue : cell'[h].queue[j] = cell[h].queue[i]
      /\ \A i \in DOMAIN cell[h].queue : cell[h].queue[i].kind \notin kinds =>
           \E j \in DOMAIN cell'[h].queue : cell'[h].queue[j] = cell[h].queue[i]
  BY <1>h, WithoutFacts
<1>2. \A i \in DOMAIN cell[h].queue : ByParent(h, cell[h].queue[i]) => cell[h].queue[i].kind \notin kinds
  BY DEF ByParent
<1> QED
  BY <1>1, <1>2, KeepsDebt

\* What is taken up is answered now.
LEMMA TakenDebt ==
  ASSUME TypeOK, NEW h \in Helpers, owner'[h] = owner[h], h \in asked' <=> h \in asked,
         NEW a \in Agents, NEW taken \in SUBSET (DOMAIN cell[a].queue), a = h => ~Locked(h),
         cell'[h].queue = Taken(a, taken)[h].queue, cell'[h].answering <=> Taken(a, taken)[h].answering
  PROVE  SameDebt(h)
<1>h. h \in Agents
  BY AgentsFacts
<1>1. CASE a # h
  <2>1. Taken(a, taken)[h] = cell[h]
    BY <1>h, <1>1, TakenFacts
  <2>2. cell'[h].queue = cell[h].queue /\ (cell'[h].answering <=> cell[h].answering)
    BY <2>1
  <2> QED
    BY <2>2, KeepsDebt
<1>2. CASE a = h
  <2>1. /\ cell'[h].queue = Leaving(h, taken)
        /\ cell'[h].answering <=> cell[h].answering \/ \E i \in taken : ByParent(h, cell[h].queue[i])
    BY <1>2, TakenFacts
  <2>2. /\ \A j \in DOMAIN cell'[h].queue : \E i \in DOMAIN cell[h].queue : cell'[h].queue[j] = cell[h].queue[i]
        /\ \A i \in DOMAIN cell[h].queue \ taken : \E j \in DOMAIN cell'[h].queue : cell'[h].queue[j] = cell[h].queue[i]
    BY <1>h, <2>1, LeavingFacts
  <2>3. cell'[h].answering => cell[h].answering \/ Asks(h)
    BY <1>2, <2>1 DEF Asks
  <2> QED
    BY <1>2, <2>1, <2>2, <2>3, KeepsDebt
<1> QED
  BY <1>1, <1>2

\* A parent asks a helper that lives, or one just born.
AskedNow(h)   == Born(h) /\ Live(h) /\ ~Locked(h) /\ thread' = thread /\ h \in asked' /\ Owes(h)'
SpawnedNow(h) == ~Born(h) /\ thread'[h].pc = "top" /\ (Unasked(h) /\ h \notin asked => (h \in asked' <=> Owes(h)'))

LEMMA DebtSteps ==
  ASSUME TypeOK, Leads, NEW a \in Agents, ActsOf(a), NEW h \in Helpers
  PROVE  SameDebt(h) \/ AskedNow(h) \/ SpawnedNow(h) \/ Reports(h) \/ Deliver(h)
<1>h. h \in Agents /\ h # 1
  BY AgentsFacts
<1>t. cell[a] \in Cells /\ cell[h] \in Cells /\ cell[h].queue \in Seq(Items)
  BY <1>h DEF TypeOK, Cells
<1>s. ASSUME UNCHANGED <<cell, owner, asked>>
      PROVE  SameDebt(h)
  BY <1>s, StillDebt
<1>p. ASSUME NEW c \in Agents, NEW item \in Items, Post(c, item), UNCHANGED <<thread, kin>>
      PROVE  SameDebt(h) \/ AskedNow(h)
  <2>1. /\ cell' = Queued(c, item) /\ Born(c) /\ Live(c) /\ ~Locked(c)
        /\ asked' = IF ByParent(c, item) THEN asked \cup {c} ELSE asked
    BY <1>p DEF Post, Accepts
  <2>2. CASE c = h /\ ByParent(h, item)
    <3>1. cell'[h].queue = Append(cell[h].queue, item)
      BY <2>1, <2>2, QueuedFacts
    <3>2. Len(cell[h].queue) + 1 \in DOMAIN cell'[h].queue /\ cell'[h].queue[Len(cell[h].queue) + 1] = item
      BY <1>t, <3>1
    <3>3. owner' = owner
      BY <1>p DEF kin
    <3>4. Asks(h)'
      BY <2>2, <3>2, <3>3 DEF Asks, ByParent
    <3> QED
      BY <1>h, <1>p, <2>1, <2>2, <3>4 DEF AskedNow, Owes
  <2>3. CASE ~(c = h /\ ByParent(h, item))
    <3>1. h \in asked' <=> h \in asked
      BY <2>1, <2>3
    <3>2. owner'[h] = owner[h]
      BY <1>p DEF kin
    <3>3. c = h => ~ByParent(h, item) /\ Born(h)
      BY <2>1, <2>3
    <3> QED
      BY <2>1, <3>1, <3>2, <3>3, PostDebt
  <2> QED
    BY <2>2, <2>3
<1>w. ASSUME NEW c \in Agents, NEW job, NEW recalls \in BOOLEAN, Stop(c, job, recalls), UNCHANGED <<owner, asked>>
      PROVE  SameDebt(h)
  <2>1. /\ cell'[c].queue = IF recalls THEN Without(c, {"Human"}) ELSE cell[c].queue
        /\ cell'[c].answering = cell[c].answering
        /\ \A b \in Agents : b # c => cell'[b] = cell[b]
    BY <1>w, StopFacts
  <2>2. CASE c = h /\ recalls
    BY <1>w, <2>1, <2>2, WithoutDebt
  <2>3. CASE c = h /\ ~recalls
    BY <1>w, <2>1, <2>3, StillDebt
  <2>4. CASE c # h
    BY <1>h, <1>w, <2>1, <2>4, StillDebt
  <2> QED
    BY <2>2, <2>3, <2>4
<1>1. CASE Steer(a) \/ Tell(a)
  <2>1. PICK c \in Agents, item \in Items : Post(c, item)
    BY <1>1, ItemFacts DEF Steer, Tell, Kinds, Posts
  <2>2. UNCHANGED <<thread, kin>>
    BY <1>1 DEF Steer, Tell
  <2> QED
    BY <2>1, <2>2, <1>p
<1>2. CASE HumanStops(a) \/ AgentStops(a)
  <2>1. PICK c \in Agents, recalls \in BOOLEAN : \E job : Stop(c, job, recalls)
    BY <1>2, AgentsFacts DEF HumanStops, AgentStops
  <2>2. UNCHANGED <<owner, asked>>
    BY <1>2 DEF HumanStops, AgentStops, fleet, kin
  <2> QED
    BY <2>1, <2>2, <1>w
<1>3. CASE Settled(a) \/ Replies(a) \/ Down(a) \/ Unwound(a)
  <2>1. CASE a = h
    <3>1. CASE Down(h) /\ ~Owes(h)
      BY <3>1, <1>s DEF Down, kin, books
    <3> QED
      BY <1>3, <2>1, <3>1 DEF Reports
  <2>2. CASE a # h
    <3>1. UNCHANGED <<owner, asked>>
      BY <1>3 DEF Settled, Replies, Down, Unwound, Report, kin, books
    <3>2. cell' = cell \/ Settles(a)
      BY <1>3 DEF Settled, Replies, Down, Unwound, Report
    <3>3. cell'[h] = cell[h]
      BY <1>h, <2>2, <3>2, SettlesFacts
    <3> QED
      BY <3>1, <3>3, StillDebt
  <2> QED
    BY <2>1, <2>2
<1>4. CASE Deliver(a)
  <2>1. CASE a # h
    <3>1. owner[a] \in Agents
      BY <1>4 DEF Deliver, Leads, At, Born
    <3>2. Item("Child", a) \in Items /\ Item("Child", a).kind = "Child"
      BY ItemFacts DEF Kinds, Posts
    <3>3. UNCHANGED owner /\ (h \in asked' <=> h \in asked)
          /\ (cell' = cell \/ cell' = Queued(owner[a], Item("Child", a)))
      BY <1>4, <2>1 DEF Deliver, fleet, kin
    <3>4. ~ByParent(h, Item("Child", a))
      BY <3>2 DEF ByParent
    <3>5. CASE cell' = cell
      BY <3>3, <3>5, StillDebt
    <3>6. CASE cell' = Queued(owner[a], Item("Child", a))
      BY <3>1, <3>2, <3>3, <3>4, <3>6, PostDebt
    <3> QED
      BY <3>3, <3>5, <3>6
  <2> QED
    BY <1>4, <2>1
<1>5. CASE Gone(a)
  <2>1. a # 1 => owner[a] \in Agents
    BY <1>5 DEF Gone, Leads, At, Born, Helpers
  <2>2. Item("Gone", a) \in Items /\ Item("Gone", a).kind = "Gone"
    BY ItemFacts DEF Kinds
  <2>3. UNCHANGED <<owner, asked>> /\ (cell' = cell \/ (a # 1 /\ cell' = Queued(owner[a], Item("Gone", a))))
    BY <1>5 DEF Gone, books, fleet, kin
  <2>4. ~ByParent(h, Item("Gone", a))
    BY <2>2 DEF ByParent
  <2>5. CASE cell' # cell
    BY <2>1, <2>2, <2>3, <2>4, <2>5, PostDebt
  <2> QED
    BY <2>3, <2>5, <1>s
<1>6. CASE NextItem(a)
  <2>1. PICK i \in DOMAIN cell[a].queue :
           /\ \/ cell' = Taken(a, {i})
              \/ cell' = [Taken(a, RunFrom(a, i)) EXCEPT ![a].cut = FALSE]
           /\ At(a, "next") /\ UNCHANGED <<kin, books>>
    BY <1>6, NextItemFacts
  <2>2. {i} \in SUBSET (DOMAIN cell[a].queue) /\ RunFrom(a, i) \in SUBSET (DOMAIN cell[a].queue)
    BY RunFromFacts
  <2>3. ~Locked(a) /\ UNCHANGED <<owner, asked>>
    BY <2>1 DEF Locked, At, kin, books
  <2>4. CASE cell' = Taken(a, {i})
    BY <2>2, <2>3, <2>4, TakenDebt
  <2>5. CASE cell' = [Taken(a, RunFrom(a, i)) EXCEPT ![a].cut = FALSE]
    <3> DEFINE new == Taken(a, RunFrom(a, i))
    <3>1. new \in [Agents -> Cells]
      BY <2>2, TakenFacts
    <3> HIDE DEF new
    <3>2. cell' = [new EXCEPT ![a].cut = FALSE]
      BY <2>5 DEF new
    <3>3. cell'[h].queue = new[h].queue /\ cell'[h].answering = new[h].answering
      BY <1>h, <3>1, <3>2 DEF Cells
    <3> QED
      BY <2>2, <2>3, <3>3, TakenDebt DEF new
  <2> QED
    BY <2>1, <2>4, <2>5
<1>7. CASE Drain(a)
  <2>1. PICK taken \in SUBSET (DOMAIN cell[a].queue) : cell' = Taken(a, taken)
    BY <1>7, DrainFacts
  <2>2. ~Locked(a) /\ UNCHANGED <<owner, asked>>
    BY <1>7 DEF Drain, Locked, At, kin, books
  <2> QED
    BY <2>1, <2>2, TakenDebt
<1>8. CASE NextSettled(a)
  <2>1. cell' = [cell EXCEPT ![a].job = 0] /\ UNCHANGED <<owner, asked>>
    BY <1>8 DEF NextSettled, fleet, kin, books
  <2>2. cell'[h].queue = cell[h].queue /\ cell'[h].answering = cell[h].answering
    BY <1>h, <2>1 DEF TypeOK, Cells
  <2> QED
    BY <2>1, <2>2, StillDebt
<1>9. CASE Begin(a)
  <2>1. UNCHANGED <<owner, asked>> /\ (cell' = cell \/ cell' = Opened(a))
    BY <1>9 DEF Begin, fleet, kin
  <2>2. cell'[h].queue = cell[h].queue /\ cell'[h].answering = cell[h].answering
    BY <1>h, <2>1, OpenedFacts
  <2> QED
    BY <2>1, <2>2, StillDebt
<1>10. CASE Cleared(a)
  <2> DEFINE kinds == {"Child", "Surface", "Gone"}
             q == Without(a, kinds)
             new == [cell[a] EXCEPT !.queue = q]
  <2>1. UNCHANGED <<owner, asked>> /\ (cell' = cell \/ cell' = [cell EXCEPT ![a] = new])
    BY <1>10 DEF Cleared, fleet, kin, books, TypeOK
  <2>2. new.queue = q /\ new.answering = cell[a].answering
    BY <1>t DEF Cells
  <2> HIDE DEF new
  <2>3. cell'[h] = cell[h] \/ (a = h /\ cell'[h] = new)
    BY <1>h, <2>1 DEF TypeOK
  <2>4. CASE cell'[h] = cell[h]
    BY <2>1, <2>4, StillDebt
  <2>5. CASE a = h /\ cell'[h] = new
    BY <2>1, <2>2, <2>5, WithoutDebt
  <2> QED
    BY <2>3, <2>4, <2>5
<1>11. CASE Spawn(a)
  <2>1. PICK g \in Unborn :
           /\ owner' = [owner EXCEPT ![g] = a] /\ thread' = Go(g, "top")
           /\ cell' = IF Live(a) THEN Queued(g, Item("Task", a)) ELSE cell
           /\ asked' = IF Live(a) THEN asked \cup {g} ELSE asked
    BY <1>11, SpawnFacts
  <2>2. g \in Agents /\ g \in Helpers /\ At(g, "unborn")
    BY AgentsFacts DEF Unborn
  <2>3. Item("Task", a) \in Items /\ Item("Task", a).kind = "Task" /\ Item("Task", a).from = a
    BY ItemFacts DEF Kinds, Posts
  <2>4. CASE g # h
    <3>1. cell'[h] = cell[h]
      BY <1>h, <2>1, <2>2, <2>3, <2>4, QueuedFacts
    <3>2. owner'[h] = owner[h] /\ (h \in asked' <=> h \in asked)
      BY <2>1, <2>4 DEF TypeOK
    <3> QED
      BY <3>1, <3>2, StillDebt
  <2>5. CASE g = h
    <3>1. ~Born(h) /\ thread'[h].pc = "top" /\ owner'[h] = a
      BY <1>h, <2>1, <2>2, <2>5, GoFacts DEF Born, At, Pcs, TypeOK
    <3>2. CASE Live(a)
      <4>1. cell'[h].queue = Append(cell[h].queue, Item("Task", a)) /\ h \in asked'
        BY <2>1, <2>2, <2>3, <2>5, <3>2, QueuedFacts
      <4>2. Len(cell[h].queue) + 1 \in DOMAIN cell'[h].queue
            /\ cell'[h].queue[Len(cell[h].queue) + 1] = Item("Task", a)
        BY <1>t, <2>3, <4>1
      <4>3. Asks(h)'
        BY <1>h, <2>3, <3>1, <4>2 DEF Asks, ByParent
      <4> QED
        BY <1>h, <3>1, <4>1, <4>3 DEF SpawnedNow, Owes
    <3>3. CASE ~Live(a)
      <4>1. cell' = cell /\ asked' = asked
        BY <2>1, <3>3
      <4>2. Unasked(h) => ~Owes(h)'
        BY <4>1 DEF Unasked, Owes, Asks, ByParent
      <4> QED
        BY <3>1, <4>1, <4>2 DEF SpawnedNow
    <3> QED
      BY <3>2, <3>3
  <2> QED
    BY <2>4, <2>5
<1>12. CASE \/ ReadRest(a) \/ NextEnded(a) \/ NextIdles(a) \/ Decline(a) \/ ClearEnds(a) \/ Joins(a)
            \/ Leave(a) \/ Panics(a) \/ Dismiss(a) \/ ExchangeEnds(a) \/ Breaks(a)
  <2>1. UNCHANGED <<cell, owner, asked>>
    BY <1>12 DEF ReadRest, NextEnded, NextIdles, Decline, ClearEnds, Joins, Leave, Panics, Dismiss, ExchangeEnds, Breaks,
         fleet, kin, books
  <2> QED
    BY <2>1, <1>s
<1> QED
  BY <1>1, <1>2, <1>3, <1>4, <1>5, <1>6, <1>7, <1>8, <1>9, <1>10, <1>11, <1>12
  DEF ActsOf, Attends, Works, Outside

\* A thread at its report stays there until the parent's post.
LEMMA LocksHold ==
  ASSUME TypeOK, Leads, NEW a \in Agents, ActsOf(a), NEW h \in Helpers, Locked(h), ~Deliver(h)
  PROVE  thread'[h] = thread[h]
<1> SUFFICES ASSUME thread'[h] # thread[h]
             PROVE  FALSE
  OBVIOUS
<1>h. h \in Agents
  BY AgentsFacts
<1>1. a = h
  <2>1. ASSUME NEW g \in Unborn, Moved(g)
        PROVE  FALSE
    BY <1>h, <2>1 DEF Unborn, Moved, Locked, At
  <2> QED
    BY <1>h, <2>1, OneMoves DEF Unmoved, Moved
<1>2. ~At(a, "top") /\ ~At(a, "next") /\ ~At(a, "taken") /\ ~At(a, "clear") /\ ~At(a, "cleared")
      /\ ~At(a, "settled") /\ ~At(a, "joining") /\ ~At(a, "leaving") /\ ~At(a, "gone") /\ ~At(a, "work")
      /\ ~At(a, "down") /\ ~At(a, "unwound")
  BY <1>1 DEF Locked, At
<1> QED
  BY <1>1, <1>2 DEF ActsOf, Attends, Works, Outside, ReadRest, NextEnded, NextItem, NextSettled, NextIdles, Settled,
     Decline, Begin, ClearEnds, Cleared, Joins, Down, Leave, Unwound, Gone, Spawn, Tell, AgentStops, Dismiss, Replies,
     Drain, ExchangeEnds, Steer, HumanStops, Breaks, Panics, Exposed, At

\* The end past the last report is reached from the one or the other.
LEMMA EndSteps ==
  ASSUME TypeOK, Leads, NEW a \in Agents, ActsOf(a), NEW h \in Helpers, Ending(h)', ~Ending(h)
  PROVE  Down(h) \/ Unwound(h) \/ Locked(h)
<1> SUFFICES ASSUME ~Locked(h)
             PROVE  Down(h) \/ Unwound(h)
  OBVIOUS
<1>h. h \in Agents
  BY AgentsFacts
<1>l. /\ thread[h].pc = "posting" => thread[h].after \in {"top", "leaving", "gone"}
      /\ thread[h].pc = "joining" => thread[h].after \in {"cleared", "work", "gone", "unwound"}
  BY <1>h DEF Leads, At
<1>c. thread'[h] # thread[h]
  BY DEF Ending, At
<1>1. ASSUME NEW c \in Agents, Moved(c)
      PROVE  c = h /\ (At(h, "down") \/ At(h, "unwound"))
  <2>1. c = h
    BY <1>h, <1>c, <1>1 DEF Moved
  <2> QED
    BY <2>1, <1>1, <1>l DEF Moved, Path, Exposed, Ending, Locked, At
<1>2. \A g \in Unborn : g \in Agents /\ At(g, "unborn")
  BY AgentsFacts DEF Unborn
<1>3. a = h /\ (At(h, "down") \/ At(h, "unwound"))
  <2>1. ~Unmoved
    BY <1>c DEF Unmoved
  <2>2. ASSUME NEW g \in Unborn, Moved(g)
        PROVE  FALSE
    BY <1>1, <1>2, <2>2 DEF At
  <2> QED
    BY <1>1, <2>1, <2>2, OneMoves
<1>4. ~At(a, "top") /\ ~At(a, "next") /\ ~At(a, "taken") /\ ~At(a, "clear") /\ ~At(a, "cleared")
      /\ ~At(a, "settled") /\ ~At(a, "joining") /\ ~At(a, "leaving") /\ ~At(a, "gone") /\ ~At(a, "work")
      /\ ~At(a, "posting")
  BY <1>3 DEF At
<1>5. ~Panics(a)
  <2>1. ASSUME Panics(a)
        PROVE  thread'[a].pc = "joining" /\ thread'[a].after = "unwound"
    <3>1. nursery[a] \in SUBSET Helpers
      BY DEF TypeOK
    <3> QED
      BY <2>1, <3>1, JoinFacts DEF Panics, Pcs
  <2> QED
    BY <1>3, <2>1 DEF Ending, At
<1> QED
  BY <1>c, <1>3, <1>4, <1>5 DEF ActsOf, Attends, Works, Outside, ReadRest, NextEnded, NextItem, NextSettled, NextIdles, Settled,
     Decline, Begin, ClearEnds, Cleared, Joins, Deliver, Leave, Gone, Spawn, Tell, AgentStops, Dismiss, Replies,
     Drain, ExchangeEnds, Steer, HumanStops, Breaks, At

\* A teardown begins when its life has ended.
LEMMA DownEnds ==
  ASSUME TypeOK, Leads, NEW a \in Agents, ActsOf(a), NEW h \in Agents, thread'[h].pc = "down"
  PROVE  At(h, "down") \/ (Born(h) /\ ~Live(h)) \/ (Born(h) /\ h \in dead')
<1> SUFFICES ASSUME ~At(h, "down")
             PROVE  Born(h) /\ (~Live(h) \/ h \in dead')
  OBVIOUS
<1>l. /\ thread[h].pc = "posting" => thread[h].after \in {"top", "leaving", "gone"}
      /\ thread[h].pc = "joining" => thread[h].after \in {"cleared", "work", "gone", "unwound"}
  BY DEF Leads, At
<1>1. ASSUME NEW c \in Agents, Moved(c)
      PROVE  c = h /\ (At(h, "next") \/ At(h, "taken"))
  <2>1. c = h
    BY <1>1 DEF Moved, At
  <2> QED
    BY <2>1, <1>1, <1>l DEF Moved, Path, Exposed, At
<1>2. \A g \in Unborn : g \in Agents /\ At(g, "unborn")
  BY AgentsFacts DEF Unborn
<1>3. a = h /\ (At(h, "next") \/ At(h, "taken"))
  <2>1. ~Unmoved
    BY DEF Unmoved, At
  <2>2. ASSUME NEW g \in Unborn, Moved(g)
        PROVE  FALSE
    BY <1>1, <1>2, <2>2 DEF At
  <2> QED
    BY <1>1, <2>1, <2>2, OneMoves
<1>4. ~At(a, "top") /\ ~At(a, "clear") /\ ~At(a, "cleared")
      /\ ~At(a, "settled") /\ ~At(a, "joining") /\ ~At(a, "leaving") /\ ~At(a, "gone") /\ ~At(a, "work")
      /\ ~At(a, "posting") /\ ~At(a, "down") /\ ~At(a, "unwound") /\ Born(a)
  BY <1>3 DEF At, Born
<1>5. thread'[a].pc = "down" /\ thread' # thread
  BY <1>3 DEF At
<1>6. CASE NextEnded(a) \/ NextIdles(a)
  BY <1>3, <1>4, <1>6 DEF NextEnded, NextIdles
<1>7. CASE Begin(a)
  <2>1. Live(a) => thread'[a].pc = "work"
    BY <1>7, GoFacts DEF Begin, Pcs
  <2> QED
    BY <1>3, <1>4, <1>5, <2>1
<1>8. ~NextItem(a)
  <2>1. ASSUME NextItem(a)
        PROVE  thread'[a].pc # "down"
    <3>1. PICK item \in Items : thread' = Go(a, "top") \/ thread' = Go(a, "clear") \/ thread' = Hold(a, item)
      BY <2>1, NextItemFacts
    <3> QED
      BY <3>1, GoFacts, HoldFacts DEF Pcs
  <2> QED
    BY <1>5, <2>1
<1>9. ~NextSettled(a) /\ ~Decline(a)
  <2>1. NextSettled(a) => thread'[a].pc \in {"settled", "top"}
    BY GoFacts DEF NextSettled, Pcs, TypeOK, Idle
  <2>2. Decline(a) => thread'[a].pc = "top"
    BY GoFacts DEF Decline, Pcs
  <2> QED
    BY <1>5, <2>1, <2>2
<1>10. ~Panics(a)
  <2>1. Panics(a) => thread'[a].pc = "joining"
    BY JoinFacts DEF Panics, Pcs, TypeOK
  <2> QED
    BY <1>5, <2>1
<1>11. ~(\/ ReadRest(a) \/ Settled(a) \/ ClearEnds(a) \/ Cleared(a) \/ Joins(a) \/ Deliver(a) \/ Down(a) \/ Leave(a)
         \/ Unwound(a) \/ Gone(a) \/ Spawn(a) \/ Tell(a) \/ AgentStops(a) \/ Dismiss(a) \/ Replies(a) \/ Drain(a)
         \/ ExchangeEnds(a) \/ Steer(a) \/ HumanStops(a) \/ Breaks(a))
  BY <1>4, <1>5 DEF ReadRest, Settled, ClearEnds, Cleared, Joins, Deliver, Down, Leave, Unwound, Gone, Spawn, Tell, AgentStops,
     Dismiss, Replies, Drain, ExchangeEnds, Steer, HumanStops, Breaks
<1> QED
  BY <1>6, <1>7, <1>8, <1>9, <1>10, <1>11 DEF ActsOf, Attends, Works, Outside

\* Journals break with their lives; a failure is told of once broken, in a report.
LEMMA Breakages ==
  ASSUME TypeOK, NEW a \in Agents, ActsOf(a), NEW h \in Helpers
  PROVE  /\ h \in broken' => h \in broken \/ h \in dead'
         /\ h \in noticed => h \in noticed'
         /\ h \in noticed' => h \in noticed \/ h \in broken
         /\ ~Reports(h) => (h \in noticed' => h \in noticed)
<1>1. h \in broken' => h \in broken \/ h \in dead'
  BY DEF ActsOf, Attends, Works, Outside, ReadRest, NextEnded, NextItem, NextSettled, NextIdles, Settled, Decline, Begin,
         ClearEnds, Cleared, Joins, Deliver, Down, Leave, Unwound, Gone, Spawn, Tell, AgentStops, Dismiss, Replies,
         Drain, ExchangeEnds, Steer, HumanStops, Breaks, Panics, Report, fleet
<1>2. CASE Reports(a)
  <2>1. noticed' = IF Tells(a) /\ a \in broken THEN noticed \cup {a} ELSE noticed
    BY <1>2 DEF Reports, Settled, Replies, Down, Unwound, Report
  <2> QED
    BY <1>1, <1>2, <2>1
<1>3. CASE ~Reports(a)
  <2>1. noticed' = noticed
    BY <1>3 DEF Reports, ActsOf, Attends, Works, Outside, ReadRest, NextEnded, NextItem, NextSettled, NextIdles, Decline, Begin,
         ClearEnds, Cleared, Joins, Deliver, Down, Leave, Gone, Spawn, Tell, AgentStops, Dismiss,
         Drain, ExchangeEnds, Steer, HumanStops, Breaks, Panics, fleet
  <2> QED
    BY <1>1, <2>1
<1> QED
  BY <1>2, <1>3

\* What a report makes of the debt it answers.
LEMMA ReportDebts ==
  ASSUME TypeOK, Leads, Kept, NEW h \in Helpers, DebtFits(h), Reports(h)
  PROVE  /\ thread'[h].pc # "unborn" /\ thread'[h].pc # "down" /\ (h \in asked' <=> h \in asked)
         /\ Locked(h)' => /\ h \in asked /\ (h \notin noticed' => ~cell'[h].answering)
                          /\ thread'[h].after # "top" => h \in noticed' \/ ~Asks(h)'
         /\ ~Locked(h)' => (h \in asked <=> Owes(h)' /\ h \notin noticed')
         /\ Ending(h)' /\ ~Locked(h)' => h \notin asked
<1>h. h \in Agents /\ h # 1
  BY AgentsFacts
<1>1. PICK after \in {"top", "leaving", "gone"} :
        Report(h, after) /\ (after # "top" => At(h, "down") \/ At(h, "unwound")) /\ ~Locked(h)
  BY DEF Reports, Settled, Replies, Down, Unwound, Locked, At
<1>2. after \in Pcs
  BY DEF Pcs
<1>3. /\ Tells(h) => thread'[h].pc = "posting" /\ thread'[h].after = after
      /\ ~Tells(h) => thread'[h].pc = after /\ thread'[h].after = "none"
      /\ noticed' = IF Tells(h) /\ h \in broken THEN noticed \cup {h} ELSE noticed
      /\ Settles(h) /\ UNCHANGED <<kin, books>>
  BY <1>h, <1>1, <1>2, ReportFacts
<1>4. owner' = owner /\ asked' = asked
  BY <1>3 DEF kin, books
<1>5. Tells(h) <=> h \in asked
  BY <1>1 DEF Tells, DebtFits
<1>6. after # "top" => ~Live(h)
  <2>1. At(h, "down") => ~Live(h)
    BY DEF DebtFits
  <2>2. At(h, "unwound") => h \in dead /\ h \in line[h]
    BY <1>h DEF Kept, Kinship, Parting, At
  <2> QED
    BY <1>1, <2>1, <2>2 DEF Live
<1>t. cell[h].queue \in Seq(Items)
  BY <1>h DEF TypeOK, Cells
<1>7. /\ Within(cell'[h].queue, cell[h].queue) /\ cell' \in [Agents -> Cells]
      /\ \/ cell' = cell /\ h \in broken
         \/ /\ ~cell'[h].answering
            /\ ~Live(h) => \A j \in DOMAIN cell'[h].queue : cell'[h].queue[j].kind \notin Posts
  BY <1>h, <1>3, SettlesFacts
<1>8. DOMAIN cell'[h].queue \subseteq Nat
  BY <1>h, <1>7 DEF Cells
<1>9. Asks(h)' => Asks(h)
  <2>1. \A j \in DOMAIN cell'[h].queue : \E i \in DOMAIN cell[h].queue : cell'[h].queue[j] = cell[h].queue[i]
    BY <1>7, <1>8 DEF Within
  <2> QED
    BY <1>4, <2>1 DEF Asks, ByParent
<1>10. Owes(h)' => Owes(h)
  <2>1. cell'[h].answering => cell[h].answering
    BY <1>7
  <2> QED
    BY <1>9, <2>1 DEF Owes
<1>11. h \notin broken => ~cell'[h].answering /\ (~Live(h) => ~Asks(h)')
  <2>1. ASSUME h \notin broken, ~Live(h)
        PROVE  ~Asks(h)'
    <3>1. \A j \in DOMAIN cell'[h].queue : cell'[h].queue[j].kind \notin {"Task", "Message"}
      BY <1>7, <2>1 DEF Posts
    <3> QED
      BY <3>1 DEF Asks, ByParent
  <2> QED
    BY <1>7, <2>1
<1>12. CASE Tells(h)
  <2>1. thread'[h].pc = "posting" /\ thread'[h].after = after
    BY <1>3, <1>12
  <2>2. h \notin noticed' => h \notin broken
    BY <1>3, <1>12
  <2> QED
    BY <1>4, <1>5, <1>6, <1>11, <1>12, <2>1, <2>2 DEF Locked, At
<1>13. CASE ~Tells(h)
  <2>1. thread'[h].pc = after
    BY <1>3, <1>13
  <2>2. noticed' = noticed
    BY <1>3, <1>13
  <2>3. h \notin asked /\ (Owes(h)' => h \in noticed)
    BY <1>1, <1>5, <1>10, <1>13 DEF DebtFits
  <2> QED
    BY <1>4, <2>1, <2>2, <2>3 DEF Locked, At
<1> QED
  BY <1>12, <1>13

\* The parent's post answers, unless more was asked meanwhile.
LEMMA DeliverDebts ==
  ASSUME TypeOK, Leads, NEW h \in Helpers, DebtFits(h), Deliver(h)
  PROVE  /\ thread'[h].pc \in {"top", "leaving", "gone"} /\ (h \in noticed' <=> h \in noticed)
         /\ h \in asked' <=> Owes(h)' /\ h \notin noticed
         /\ Ending(h)' => h \notin asked'
<1>h. h \in Agents /\ h # 1
  BY AgentsFacts
<1>1. /\ At(h, "posting") /\ ~Locked(owner[h]) /\ UNCHANGED <<owner, noticed>>
      /\ thread' = Go(h, thread[h].after)
      /\ cell' = cell \/ cell' = Queued(owner[h], Item("Child", h))
      /\ asked' = IF Asks(h) /\ h \notin noticed THEN asked ELSE asked \ {h}
  BY DEF Deliver, fleet, kin
<1>2. thread[h].after \in {"top", "leaving", "gone"} /\ owner[h] \in Agents /\ owner[h] # h
  BY <1>h, <1>1 DEF Leads, At, Born, Locked
<1>3. thread'[h].pc = thread[h].after
  BY <1>h, <1>1, <1>2, GoFacts DEF Pcs
<1>4. cell'[h] = cell[h]
  <2>1. Item("Child", h) \in Items
    BY <1>h, ItemFacts DEF Kinds, Posts
  <2> QED
    BY <1>h, <1>1, <1>2, <2>1, QueuedFacts
<1>5. Asks(h)' <=> Asks(h)
  BY <1>1, <1>4 DEF Asks, ByParent
<1>6. Owes(h)' <=> cell[h].answering \/ Asks(h)
  BY <1>h, <1>4, <1>5 DEF Owes
<1>7. h \in asked /\ (h \notin noticed => ~cell[h].answering)
      /\ (thread[h].after # "top" => h \in noticed \/ ~Asks(h))
  BY <1>1 DEF DebtFits, Locked
<1>8. Ending(h)' => thread[h].after # "top"
  BY <1>2, <1>3 DEF Ending, At
<1> QED
  BY <1>1, <1>2, <1>3, <1>6, <1>7, <1>8

LEMMA DebtStep ==
  ASSUME TypeOK, Leads, Kept, DebtsFit, NEW a \in Agents, ActsOf(a)
  PROVE  DebtsFit'
<1> SUFFICES ASSUME NEW h \in Helpers
             PROVE  DebtFits(h)'
  BY DEF DebtsFit
<1>h. h \in Agents /\ h # 1
  BY AgentsFacts
<1>f. DebtFits(h)
  BY DEF DebtsFit
<1>l. /\ dead \subseteq dead' /\ broken \subseteq broken' /\ (Born(h) => Born(h)')
      /\ Born(h) => line'[h] = line[h]
  BY <1>h, Lasting
<1>k. h \in line[h] /\ h \in line'[h] /\ (Parting(h) => h \in dead)
  <2>1. Kinship /\ Kinship'
    BY KinshipStep DEF Kept
  <2> QED
    BY <1>h, <2>1 DEF Kinship
<1>1. /\ (h \in broken' => h \in dead') /\ (h \in noticed' => h \in broken')
  BY <1>f, <1>l, Breakages DEF DebtFits
<1>2. At(h, "down")' => ~Live(h)'
  <2>1. thread'[h].pc = "down" => Born(h) /\ (~Live(h) \/ h \in dead')
    BY <1>h, <1>f, DownEnds DEF DebtFits, Born, At
  <2>2. Born(h) /\ ~Live(h) => ~Live(h)'
    BY <1>l DEF Live
  <2>3. h \in dead' => ~Live(h)'
    BY <1>k DEF Live
  <2> QED
    BY <2>1, <2>2, <2>3 DEF At
<1>3. CASE Reports(h)
  <2>1. /\ thread'[h].pc # "unborn" /\ (h \in asked' <=> h \in asked)
        /\ Locked(h)' => /\ h \in asked /\ (h \notin noticed' => ~cell'[h].answering)
                         /\ thread'[h].after # "top" => h \in noticed' \/ ~Asks(h)'
        /\ ~Locked(h)' => (h \in asked <=> Owes(h)' /\ h \notin noticed')
        /\ Ending(h)' /\ ~Locked(h)' => h \notin asked
    BY <1>3, <1>f, ReportDebts
  <2>2. Ending(h)' => ~Locked(h)'
    BY DEF Ending, Locked, At
  <2> QED
    BY <1>1, <1>2, <2>1, <2>2 DEF DebtFits, Born, At
<1>n. ~Reports(h) => (h \in noticed' <=> h \in noticed)
  BY Breakages
<1>4. CASE Deliver(h) /\ ~Reports(h)
  <2>1. /\ thread'[h].pc \in {"top", "leaving", "gone"} /\ (h \in noticed' <=> h \in noticed)
        /\ h \in asked' <=> Owes(h)' /\ h \notin noticed
        /\ Ending(h)' => h \notin asked'
    BY <1>4, <1>f, DeliverDebts
  <2> QED
    BY <1>1, <1>2, <2>1 DEF DebtFits, Born, Locked, At
<1>5. CASE SpawnedNow(h) /\ ~Reports(h)
  <2>1. /\ thread'[h].pc = "top" /\ h \notin noticed'
        /\ h \in asked' <=> Owes(h)'
    BY <1>5, <1>f, <1>n DEF SpawnedNow, DebtFits
  <2> QED
    BY <1>1, <1>2, <2>1 DEF DebtFits, Born, Locked, Ending, At
<1>6. CASE AskedNow(h) /\ ~Reports(h)
  <2>1. Live(h) /\ Born(h) /\ ~Locked(h) /\ thread' = thread /\ h \in asked' /\ Owes(h)'
    BY <1>6 DEF AskedNow
  <2>2. h \notin dead
    BY <1>k, <2>1 DEF Live
  <2>3. h \notin noticed'
    BY <1>f, <1>n, <1>6, <2>2 DEF DebtFits
  <2>4. ~Ending(h)
    BY <1>k, <2>2 DEF Ending, Parting, At
  <2> QED
    BY <1>1, <1>2, <2>1, <2>3, <2>4 DEF DebtFits, Born, Locked, Ending, At
<1>7. CASE SameDebt(h) /\ ~Reports(h) /\ ~Deliver(h)
  <2>1. Locked(h)' <=> Locked(h)
    <3>1. Locked(h)' => Locked(h)
      BY <1>h, <1>7, ReportsLock
    <3>2. Locked(h) => Locked(h)'
      BY <1>7, LocksHold DEF Locked, At
    <3> QED
      BY <3>1, <3>2
  <2>2. Locked(h) => thread'[h] = thread[h]
    BY <1>7, LocksHold
  <2>3. (h \in noticed' <=> h \in noticed) /\ (h \in asked' <=> h \in asked)
    BY <1>7, <1>n DEF SameDebt
  <2>4. ~Born(h)' => Unasked(h)' /\ h \notin asked' \cup noticed'
    BY <1>f, <1>l, <1>7, <2>3 DEF DebtFits, SameDebt
  <2>5. Locked(h)' => h \in asked' /\ (h \notin noticed' => ~cell'[h].answering)
    BY <1>f, <1>7, <2>1, <2>3 DEF DebtFits, SameDebt
  <2>6. Locked(h)' /\ thread'[h].after # "top" => h \in noticed' \/ ~Asks(h)'
    BY <1>f, <1>7, <2>1, <2>2, <2>3 DEF DebtFits, SameDebt
  <2>7. ~Locked(h)' => (h \in asked' <=> Owes(h)' /\ h \notin noticed')
    BY <1>f, <1>7, <2>1, <2>3 DEF DebtFits, SameDebt
  <2>8. Ending(h)' => h \notin asked'
    <3>1. CASE Ending(h)
      BY <1>f, <2>3, <3>1 DEF DebtFits
    <3>2. CASE ~Ending(h) /\ Ending(h)'
      <4>1. ~Locked(h)
        BY <2>1, <3>2 DEF Ending, Locked, At
      <4>2. Down(h) /\ ~Owes(h)
        BY <1>7, <3>2, <4>1, EndSteps DEF Reports
      <4> QED
        BY <1>f, <2>3, <4>1, <4>2 DEF DebtFits
    <3> QED
      BY <3>1, <3>2
  <2> QED
    BY <1>1, <1>2, <2>4, <2>5, <2>6, <2>7, <2>8 DEF DebtFits
<1> QED
  BY <1>3, <1>4, <1>5, <1>6, <1>7, DebtSteps

LEMMA DebtsHold == Spec => []DebtsFit
<1>1. (TypeOK /\ Leads) /\ Kept /\ DebtsFit /\ [Next]_vars => DebtsFit'
  <2> SUFFICES ASSUME TypeOK, Leads, Kept, DebtsFit, [Next]_vars
               PROVE  DebtsFit'
    OBVIOUS
  <2>1. ASSUME NEW a \in Agents, ActsOf(a)
        PROVE  DebtsFit'
    BY <2>1, DebtStep
  <2>2. ASSUME dead \subseteq dead', UNCHANGED <<thread, cell, kin, broken, noticed, asked>>
        PROVE  DebtsFit'
    BY <2>2 DEF DebtsFit, DebtFits, Live, Born, Unasked, Locked, Owes, Asks, ByParent, Ending, At, kin
  <2>3. ASSUME NEW a \in Helpers \cup {Human}, Ends(a)
        PROVE  DebtsFit'
    BY <2>2, <2>3 DEF Ends, books
  <2>4. ASSUME UNCHANGED vars
        PROVE  DebtsFit'
    BY <2>2, <2>4 DEF vars
  <2> QED
    BY <2>1, <2>3, <2>4, NextSplits
<1> QED
  BY <1>1, DebtsInit, TypesHold, KeptHolds, PTL DEF Spec

\* A parent is answered once for what it asked: a notice is posted only by a
\* helper that was asked since its last one, and no helper's thread ends with a
\* question unanswered, whether it replied, was stopped, panicked, lost its
\* journal or was dismissed (bus/mailbox.rs Txn::report, Shared::report_failure;
\* agent/attend.rs settled, teardown; agent/spawn.rs).
THEOREM AnswersOnce == Spec => DebtsAreAnsweredOnce
<1> DEFINE Once == \A h \in Helpers : /\ Locked(h) /\ ~Locked(h)' => h \in asked
                                      /\ ~Over(h) /\ Over(h)' => h \notin asked
<1>1. (TypeOK /\ Leads) /\ DebtsFit /\ [Next]_vars => [Once]_vars
  <2> SUFFICES ASSUME TypeOK, Leads, DebtsFit, Next, NEW h \in Helpers
               PROVE  /\ Locked(h) => h \in asked
                      /\ ~Over(h) /\ Over(h)' => h \notin asked
    OBVIOUS
  <2>1. DebtFits(h)
    BY DEF DebtsFit
  <2>2. ASSUME ~Over(h), Over(h)'
        PROVE  At(h, "gone")
    <3>h. h \in Agents
      BY AgentsFacts
    <3>l. /\ thread[h].pc = "posting" => thread[h].after \in {"top", "leaving", "gone"}
          /\ thread[h].pc = "joining" => thread[h].after \in {"cleared", "work", "gone", "unwound"}
      BY <3>h DEF Leads, At
    <3>1. ASSUME NEW c \in Agents, Moved(c)
          PROVE  At(h, "gone")
      <4>1. c = h
        BY <2>2, <3>h, <3>1 DEF Moved, Over, At
      <4> QED
        BY <2>2, <3>1, <3>l, <4>1 DEF Moved, Path, Exposed, Over, At
    <3>2. ~Unmoved
      BY <2>2 DEF Unmoved, Over, At
    <3>3. PICK a \in Agents : ActsOf(a)
      <4>1. \A a \in Helpers \cup {Human} : Ends(a) => Unmoved
        BY DEF Ends, Unmoved
      <4> QED
        BY <3>2, <4>1 DEF Next, Finished, ActsOf, vars, Unmoved
    <3>4. Unborn \subseteq Agents
      BY AgentsFacts DEF Unborn
    <3> QED
      BY <3>1, <3>2, <3>3, <3>4, OneMoves
  <2> QED
    BY <2>1, <2>2 DEF DebtFits, Ending, At
<1> QED
  BY <1>1, TypesHold, DebtsHold, PTL DEF Spec, DebtsAreAnsweredOnce

=============================================================================
