---------------------------- MODULE ScopesProofs ----------------------------
(***************************************************************************)
(* Theorems about Scopes, for chains of any length and any set of causes.  *)
(* What a poll finds is a fold along the chain.  An argument about a fold  *)
(* goes by its least counterexample (LeastOf): a walk that meets the       *)
(* claim at every node before n, and not at n, contradicts one turn of     *)
(* the fold.                                                               *)
(***************************************************************************)
EXTENDS Scopes, WellFoundedInduction, TLAPS

\* A strike has set the instant before it raises the flag, and an instant,
\* once set, stays.
Instants ==
  /\ flag \in [Positions -> Nat]
  /\ cancelled \in [Positions -> Nat]
  /\ now \in Nat /\ now <= MaxTime
  /\ pending \subseteq [node : Positions, cause : Causes]
  /\ \A n \in Positions : flag[n] # 0 => cancelled[n] # Never
  /\ \A p \in pending : cancelled[p.node] # Never

LEMMA InitInstants == Init => Instants
  BY BoundsAssumption DEF Init, Instants, Never

LEMMA StrikeInstantKeeps ==
  ASSUME Instants, NEW n \in Positions, NEW c \in Causes, StrikeInstant(n, c)
  PROVE  Instants'
<1>1. now # Never /\ now \in Nat
  BY BoundsAssumption DEF Instants, Never
<1>2. /\ cancelled' = [cancelled EXCEPT ![n] = IF cancelled[n] = Never THEN now ELSE cancelled[n]]
      /\ pending' = pending \cup {[node |-> n, cause |-> c]}
      /\ UNCHANGED <<flag, now>>
  BY DEF StrikeInstant
<1>3. /\ cancelled' \in [Positions -> Nat]
      /\ cancelled'[n] # Never
      /\ \A m \in Positions : cancelled[m] # Never => cancelled'[m] # Never
  BY <1>1, <1>2 DEF Instants
<1>4. \A p \in pending' : p \in [node : Positions, cause : Causes] /\ cancelled'[p.node] # Never
  BY <1>2, <1>3 DEF Instants
<1> QED BY <1>2, <1>3, <1>4 DEF Instants, Never

LEMMA StrikeFlagKeeps ==
  ASSUME Instants, NEW p \in pending, StrikeFlag(p)
  PROVE  Instants'
<1>1. p.node \in Positions /\ p.cause \in Nat /\ cancelled[p.node] # Never
  <2>1. p \in [node : Positions, cause : Causes] /\ cancelled[p.node] # Never
    BY DEF Instants
  <2>2. p.node \in Positions /\ p.cause \in Causes
    BY <2>1
  <2>3. p.cause \in 1 .. Aborted
    BY <2>2, CausesAssumption
  <2>4. p.cause \in Nat
    BY <2>3
  <2> QED BY <2>1, <2>2, <2>4
<1>2. /\ flag' = [flag EXCEPT ![p.node] = IF flag[p.node] >= p.cause THEN flag[p.node] ELSE p.cause]
      /\ pending' = pending \ {p}
      /\ UNCHANGED <<cancelled, now>>
  BY DEF StrikeFlag
<1>3. flag' \in [Positions -> Nat] /\ \A n \in Positions : n # p.node => flag'[n] = flag[n]
  BY <1>1, <1>2 DEF Instants
<1> QED BY <1>1, <1>2, <1>3 DEF Instants, Never

LEMMA InstantsStep == Instants /\ [Next]_vars => Instants'
<1> SUFFICES ASSUME Instants, [Next]_vars PROVE Instants'
  OBVIOUS
<1>1. CASE \E n \in Positions, c \in Causes : StrikeInstant(n, c)
  BY <1>1, StrikeInstantKeeps
<1>2. CASE \E p \in pending : StrikeFlag(p)
  BY <1>2, StrikeFlagKeeps
<1>3. CASE Tick
  BY <1>3, BoundsAssumption DEF Tick, Instants, Never
<1>4. CASE \/ \E g \in Graces \cup {Open} : Mint(g)
           \/ \E d \in 1 .. depth : PollBegin(d)
           \/ PollNode \/ PollEnd \/ UNCHANGED vars
  BY <1>4 DEF Mint, PollBegin, PollNode, PollEnd, vars, Instants, Never
<1> QED BY <1>1, <1>2, <1>3, <1>4 DEF Next

\* Whatever strikes race on a node, a poll that finds its flag raised finds
\* its instant set: resolve's "a struck node has its instant" never panics.
THEOREM StruckNodesHaveInstants == Spec => []StruckHasInstant
<1>1. Instants => StruckHasInstant
  BY DEF Instants, StruckHasInstant
<1> QED BY InitInstants, InstantsStep, <1>1, PTL DEF Spec
-----------------------------------------------------------------------------
(* Walks: the fold, node by node. *)

\* The well-ordering of the naturals, which stands in for induction below.
LEMMA LeastOf ==
  ASSUME NEW S, S \subseteq Nat, S # {}
  PROVE  \E x \in S : \A y \in S : x <= y
<1>1. PICK x \in S : \A y \in S : ~(<<y, x>> \in OpToRel(<, Nat))
  BY NatLessThanWellFounded, WFMin, Zenon
<1>2. \A y, z \in Nat : y < z => <<y, z>> \in OpToRel(<, Nat)
  BY DEF OpToRel
<1>3. \A y \in S : ~(y < x)
  BY <1>1, <1>2
<1> QED BY <1>3

\* f is a walk that holds a at node i and goes on from there.
IsWalk(f, i, a) == f[i] = a /\ \A k \in (i + 1) .. MaxDepth : f[k] = Folded(k, f[k - 1])

LEMMA WalkExists ==
  \A i \in 0 .. MaxDepth : \A a : \E f : IsWalk(f, i, a)
<1> SUFFICES ASSUME NEW i \in 0 .. MaxDepth, NEW a PROVE \E f : IsWalk(f, i, a)
  OBVIOUS
<1>0. MaxDepth \in Nat
  BY BoundsAssumption
<1> DEFINE Upto(f, n) == f[i] = a /\ \A k \in (i + 1) .. n : f[k] = Folded(k, f[k - 1])
           Bad == {n \in i .. MaxDepth : ~ \E f : Upto(f, n)}
<1>1. Bad = {}
  <2> SUFFICES ASSUME Bad # {} PROVE FALSE
    OBVIOUS
  <2>1. PICK n \in Bad : \A m \in Bad : n <= m
    <3>1. Bad \subseteq Nat
      BY <1>0
    <3> HIDE DEF Bad
    <3> QED BY <3>1, LeastOf
  <2>2. n # i
    <3> SUFFICES ASSUME n = i PROVE FALSE
      OBVIOUS
    <3> DEFINE f == [k \in {i} |-> a]
    <3>1. f[i] = a /\ (i + 1) .. i = {}
      BY <1>0
    <3>2. Upto(f, i)
      BY <3>1
    <3> QED BY <3>2
  <2>3. n - 1 \in i .. MaxDepth /\ n - 1 \notin Bad /\ n \in Nat /\ i \in Nat /\ n <= MaxDepth /\ i < n
    BY <1>0, <2>1, <2>2
  <2>4. PICK f : Upto(f, n - 1)
    BY <2>3
  <2> DEFINE g == [k \in i .. n |-> IF k = n THEN Folded(n, f[n - 1]) ELSE f[k]]
  <2>5. \A k \in i .. n : g[k] = IF k = n THEN Folded(n, f[n - 1]) ELSE f[k]
    OBVIOUS
  <2> HIDE DEF g
  <2>6. g[i] = a
    BY <1>0, <2>3, <2>4, <2>5
  <2>7. ASSUME NEW k \in (i + 1) .. n PROVE g[k] = Folded(k, g[k - 1])
    <3>1. k \in i .. n /\ k - 1 \in i .. n /\ k - 1 # n
      BY <1>0, <2>3
    <3>2. CASE k = n
      <4>1. g[k - 1] = f[n - 1] /\ g[k] = Folded(n, f[n - 1])
        BY <2>5, <3>1, <3>2
      <4> QED BY <3>2, <4>1
    <3>3. CASE k # n
      <4>1. k \in (i + 1) .. (n - 1)
        BY <1>0, <2>3, <3>3
      <4>2. g[k] = f[k] /\ g[k - 1] = f[k - 1]
        BY <2>5, <3>1, <3>3
      <4> QED BY <2>4, <4>1, <4>2
    <3> QED BY <3>2, <3>3
  <2>8. Upto(g, n)
    BY <2>6, <2>7
  <2> QED BY <2>1, <2>8
<1>2. MaxDepth \in i .. MaxDepth
  BY <1>0
<1>3. \E f : Upto(f, MaxDepth)
  BY <1>1, <1>2
<1> QED BY <1>3 DEF IsWalk

LEMMA ResolveWalks ==
  \E f : IsWalk(f, 0, None) /\ \A d \in 0 .. MaxDepth : Resolve(d) = f[d]
<1>0. MaxDepth \in Nat
  BY BoundsAssumption
<1> DEFINE Turn(f, i) == IF i = 0 THEN None ELSE Folded(i, f[i - 1])
           fold == CHOOSE f : f = [i \in 0 .. MaxDepth |-> Turn(f, i)]
<1>1. \E f : f = [i \in 0 .. MaxDepth |-> Turn(f, i)]
  <2>1. PICK f : IsWalk(f, 0, None)
    BY <1>0, WalkExists
  <2> DEFINE g == [i \in 0 .. MaxDepth |-> f[i]]
  <2>2. \A i \in 0 .. MaxDepth : g[i] = f[i]
    OBVIOUS
  <2>3. ASSUME NEW i \in 0 .. MaxDepth PROVE f[i] = Turn(g, i)
    <3>1. CASE i = 0
      BY <2>1, <3>1 DEF IsWalk
    <3>2. CASE i # 0
      <4>1. i \in (0 + 1) .. MaxDepth /\ i - 1 \in 0 .. MaxDepth
        BY <1>0, <3>2
      <4>2. f[i] = Folded(i, f[i - 1]) /\ g[i - 1] = f[i - 1]
        BY <2>1, <2>2, <4>1 DEF IsWalk
      <4> QED BY <3>2, <4>2
    <3> QED BY <3>1, <3>2
  <2> HIDE DEF Turn
  <2>4. g = [i \in 0 .. MaxDepth |-> Turn(g, i)]
    BY <2>3
  <2> QED BY <2>4
<1>2. fold = [i \in 0 .. MaxDepth |-> Turn(fold, i)]
  <2> HIDE DEF Turn
  <2> QED BY <1>1
<1>3. \A d \in 0 .. MaxDepth : Resolve(d) = fold[d]
  BY DEF Resolve
<1> HIDE DEF fold
<1>4. fold[0] = None
  BY <1>0, <1>2
<1>5. ASSUME NEW k \in (0 + 1) .. MaxDepth PROVE fold[k] = Folded(k, fold[k - 1])
  <2>1. k \in 0 .. MaxDepth /\ k # 0
    BY <1>0
  <2> QED BY <1>2, <2>1
<1> QED BY <1>3, <1>4, <1>5 DEF IsWalk

-----------------------------------------------------------------------------
(* Chains.  Shields have no writers and never widen, and nodes are struck    *)
(* only once they are minted.                                                *)

Rooted ==
  /\ Instants
  /\ depth \in Positions
  /\ flag \in [Positions -> 0 .. Aborted] /\ cancelled \in [Positions -> 0 .. Never]
  /\ shield \in [Positions -> Nat]
  /\ \A p \in pending : p.node <= depth /\ shield[p.node] = Open
  /\ \A n \in Positions : shield[n] # Open => flag[n] = 0
  /\ \A n \in Positions : n > depth => flag[n] = 0 /\ shield[n] = Open
  /\ \A i, k \in 1 .. depth : i < k /\ shield[i] # Open /\ shield[k] # Open => shield[k] <= shield[i]

\* b is in force no less than a is, and since no later.
Weaker(a, b) == a.cause <= b.cause /\ b.since <= a.since

LEMMA Numbers ==
  /\ MaxDepth \in Nat /\ 1 \in Positions /\ Positions \subseteq Nat
  /\ Never \in Nat /\ Open \in Nat /\ Aborted = 6 /\ None \in InForces
  /\ None.cause = 0 /\ None.since = Never
BY BoundsAssumption DEF Positions, Never, Open, Aborted, None, InForces

LEMMA InForceFields ==
  ASSUME NEW a \in InForces
  PROVE  a.cause \in 0 .. Aborted /\ a.node \in Positions /\ a.since \in 0 .. Never
BY DEF InForces

\* What comes to a node goes through it, or is dropped.
Passes(n, a) == /\ a.cause # 0
                /\ shield[n] = Open \/ a.cause >= Aborted \/ now >= a.since + shield[n]

LEMMA AdmittedCases ==
  ASSUME NEW n, NEW a
  PROVE  /\ Passes(n, a) => Folded(n, a) = Joined(n, a)
         /\ ~Passes(n, a) => Folded(n, a) = Joined(n, None)
<1>1. CASE Passes(n, a)
  BY <1>1 DEF Passes, Folded, Admitted
<1>2. CASE ~Passes(n, a)
  BY <1>2 DEF Passes, Folded, Admitted
<1> QED BY <1>1, <1>2

LEMMA JoinedIs ==
  ASSUME Rooted, NEW n \in Positions, NEW a \in InForces
  PROVE  /\ Joined(n, a) \in InForces
         /\ Weaker(a, Joined(n, a))
         /\ flag[n] <= Joined(n, a).cause
         /\ flag[n] # 0 => Joined(n, a).since <= cancelled[n]
         /\ Joined(n, a).cause # 0 =>
              \/ Joined(n, a).cause = a.cause /\ Joined(n, a).node = a.node
              \/ Joined(n, a).cause = flag[n] /\ Joined(n, a).node = n
         /\ flag[n] = 0 => Joined(n, a) = a
         /\ Joined(n, a).cause = a.cause \/ Joined(n, a).cause = flag[n]
         /\ Joined(n, a).since = a.since \/ (flag[n] # 0 /\ Joined(n, a).since = cancelled[n])
<1>1. /\ flag[n] \in 0 .. Aborted /\ cancelled[n] \in 0 .. Never /\ Never \in Nat
      /\ a.cause \in 0 .. Aborted /\ a.node \in Positions /\ a.since \in 0 .. Never
  BY Numbers, InForceFields DEF Rooted
<1>2. CASE flag[n] = 0
  BY <1>1, <1>2, Numbers DEF Joined, Weaker
<1>3. CASE flag[n] # 0
  <2> DEFINE c == IF a.cause >= flag[n] THEN a.cause ELSE flag[n]
             m == IF a.cause >= flag[n] THEN a.node ELSE n
             s == Lower(a.since, cancelled[n])
  <2>1. Joined(n, a) = [cause |-> c, node |-> m, since |-> s]
    BY <1>3 DEF Joined
  <2>2. /\ c \in 0 .. Aborted /\ m \in Positions /\ s \in 0 .. Never
        /\ a.cause <= c /\ flag[n] <= c /\ s <= a.since /\ s <= cancelled[n]
        /\ (c = a.cause /\ m = a.node) \/ (c = flag[n] /\ m = n)
        /\ s = a.since \/ s = cancelled[n]
    BY <1>1, Numbers DEF Lower
  <2> HIDE DEF c, m, s
  <2>3. Joined(n, a).cause = c /\ Joined(n, a).node = m /\ Joined(n, a).since = s
    BY <2>1
  <2>4. Joined(n, a) \in InForces
    BY <2>1, <2>2 DEF InForces
  <2> QED BY <1>3, <2>2, <2>3, <2>4 DEF Weaker
<1> QED BY <1>2, <1>3

LEMMA FoldedTyped ==
  ASSUME Rooted, NEW n \in Positions, NEW a \in InForces
  PROVE  Folded(n, a) \in InForces
BY AdmittedCases, JoinedIs, Numbers

\* A walk that starts with a verdict meets verdicts only.
LEMMA WalkTyped ==
  ASSUME Rooted, NEW i \in 0 .. MaxDepth, NEW a \in InForces, NEW f, IsWalk(f, i, a)
  PROVE  \A k \in i .. MaxDepth : f[k] \in InForces
<1> DEFINE Bad == {k \in i .. MaxDepth : f[k] \notin InForces}
<1> SUFFICES ASSUME Bad # {} PROVE FALSE
  OBVIOUS
<1>1. PICK n \in Bad : \A m \in Bad : n <= m
  <2>1. Bad \subseteq Nat
    BY Numbers
  <2> HIDE DEF Bad
  <2> QED BY <2>1, LeastOf
<1>2. n # i
  BY DEF IsWalk
<1>3. n \in (i + 1) .. MaxDepth /\ n \in Positions /\ n - 1 \in i .. MaxDepth /\ ~(n <= n - 1)
  BY <1>2, Numbers DEF Positions
<1>4. f[n - 1] \in InForces
  <2>1. n - 1 \notin Bad
    BY <1>1, <1>3
  <2> QED BY <1>3, <2>1
<1>5. f[n] = Folded(n, f[n - 1])
  BY <1>3 DEF IsWalk
<1> QED BY <1>3, <1>4, <1>5, FoldedTyped

\* A cause in force is the flag of the node that is named for it.
LEMMA WalkNames ==
  ASSUME Rooted, NEW f, IsWalk(f, 0, None)
  PROVE  \A k \in 0 .. MaxDepth : f[k].cause # 0 => flag[f[k].node] = f[k].cause
<1> DEFINE Bad == {k \in 0 .. MaxDepth : f[k].cause # 0 /\ flag[f[k].node] # f[k].cause}
<1> SUFFICES ASSUME Bad # {} PROVE FALSE
  OBVIOUS
<1>1. PICK n \in Bad : \A m \in Bad : n <= m
  <2>1. Bad \subseteq Nat
    BY Numbers
  <2> HIDE DEF Bad
  <2> QED BY <2>1, LeastOf
<1>2. n # 0
  BY Numbers DEF IsWalk
<1>3. n \in (0 + 1) .. MaxDepth /\ n \in Positions /\ n - 1 \in 0 .. MaxDepth /\ ~(n <= n - 1)
  BY <1>2, Numbers DEF Positions
<1>4. f[n - 1].cause # 0 => flag[f[n - 1].node] = f[n - 1].cause
  <2>1. n - 1 \notin Bad
    BY <1>1, <1>3
  <2> QED BY <1>3, <2>1
<1>5. f[n] = Folded(n, f[n - 1]) /\ f[n - 1] \in InForces
  BY <1>3, Numbers, WalkTyped DEF IsWalk
<1>6. f[n].cause # 0 => flag[f[n].node] = f[n].cause
  <2>1. CASE f[n] = Joined(n, f[n - 1])
    BY <1>3, <1>4, <1>5, <2>1, JoinedIs
  <2>2. CASE f[n] = Joined(n, None)
    BY <1>3, <2>2, JoinedIs, Numbers
  <2> QED BY <1>5, <2>1, <2>2, AdmittedCases
<1> QED BY <1>6

\* What has reached a shield reaches every node below it.
LEMMA WalkPasses ==
  ASSUME Rooted, NEW f, IsWalk(f, 0, None), NEW i \in 1 .. depth, shield[i] # Open, f[i].cause # 0
  PROVE  \A k \in i .. depth : Weaker(f[i], f[k])
<1>0. depth \in Nat /\ depth <= MaxDepth /\ i \in Positions /\ i \in Nat /\ MaxDepth \in Nat
  BY Numbers DEF Rooted, Positions
<1>1. /\ i - 1 \in 0 .. MaxDepth /\ i \in (0 + 1) .. MaxDepth
      /\ f[i] = Folded(i, f[i - 1]) /\ f[i - 1] \in InForces /\ f[i] \in InForces
  BY <1>0, Numbers, WalkTyped DEF IsWalk
<1>2. flag[i] = 0
  BY <1>0 DEF Rooted
<1>3. f[i] = f[i - 1] /\ (f[i].cause >= Aborted \/ now >= f[i].since + shield[i])
  <2>1. Joined(i, None) = None /\ Joined(i, f[i - 1]) = f[i - 1]
    BY <1>0, <1>1, <1>2, JoinedIs, Numbers
  <2>2. Passes(i, f[i - 1])
    BY <1>1, <2>1, AdmittedCases, Numbers
  <2>3. f[i] = f[i - 1]
    BY <1>1, <2>1, <2>2, AdmittedCases
  <2> QED BY <2>2, <2>3 DEF Passes
<1> DEFINE Bad == {k \in i .. depth : ~Weaker(f[i], f[k])}
<1> SUFFICES ASSUME Bad # {} PROVE FALSE
  OBVIOUS
<1>4. PICK n \in Bad : \A m \in Bad : n <= m
  <2>1. Bad \subseteq Nat
    BY <1>0
  <2> HIDE DEF Bad
  <2> QED BY <2>1, LeastOf
<1>5. n # i
  BY <1>1, InForceFields, Numbers DEF Weaker
<1>6. /\ n \in (0 + 1) .. MaxDepth /\ n \in Positions /\ n - 1 \in 0 .. MaxDepth /\ ~(n <= n - 1)
      /\ n - 1 \in i .. depth /\ n \in 1 .. depth /\ i < n
  BY <1>0, <1>5 DEF Positions
<1>7. Weaker(f[i], f[n - 1])
  <2>1. n - 1 \notin Bad
    BY <1>4, <1>6
  <2> QED BY <1>6, <2>1
<1>8. f[n] = Folded(n, f[n - 1]) /\ f[n - 1] \in InForces
  BY <1>6, Numbers, WalkTyped DEF IsWalk
<1>9. Passes(n, f[n - 1])
  <2>1. /\ f[i].cause \in Nat /\ f[n - 1].cause \in Nat /\ f[i].since \in Nat /\ f[n - 1].since \in Nat
        /\ now \in Nat /\ shield[n] \in Nat /\ shield[i] \in Nat /\ Aborted = 6
    BY <1>0, <1>1, <1>6, <1>8, InForceFields, Numbers DEF Rooted, Instants
  <2>2. shield[n] # Open => shield[n] <= shield[i]
    BY <1>6 DEF Rooted
  <2> QED BY <1>3, <1>7, <2>1, <2>2 DEF Weaker, Passes
<1>10. Weaker(f[n - 1], f[n])
  BY <1>6, <1>8, <1>9, AdmittedCases, JoinedIs
<1>11. Weaker(f[i], f[n])
  <2>1. f[n] \in InForces
    BY <1>6, <1>8, FoldedTyped
  <2>2. /\ f[i].cause \in Nat /\ f[n - 1].cause \in Nat /\ f[i].since \in Nat /\ f[n - 1].since \in Nat
        /\ f[n].cause \in Nat /\ f[n].since \in Nat
    BY <1>1, <1>8, <2>1, InForceFields, Numbers
  <2> QED BY <1>7, <1>10, <2>2 DEF Weaker
<1> QED BY <1>11

LEMMA InitRooted == Init => Rooted
<1>1. Init => Instants
  BY InitInstants
<1> QED BY <1>1, Numbers DEF Init, Rooted, Positions

\* The grace granted is no longer than that of any shield that encloses it.
LEMMA GraceIsShortest ==
  ASSUME Rooted, NEW g \in Nat
  PROVE  /\ GraceOf(depth, g) \in Nat
         /\ \A k \in 1 .. depth : shield[k] # Open => GraceOf(depth, g) <= shield[k]
<1> DEFINE enclosing == {j \in 1 .. depth : shield[j] # Open}
           Above == {n \in Nat : \A k \in enclosing : k <= n}
<1>0. /\ depth \in Nat /\ enclosing \subseteq Positions
      /\ \A k \in enclosing : k \in Nat /\ shield[k] \in Nat
  BY Numbers DEF Rooted, Positions
<1>1. CASE enclosing = {}
  BY <1>1 DEF GraceOf
<1>2. CASE enclosing # {}
  <2> DEFINE inner == CHOOSE j \in enclosing : \A k \in enclosing : k <= j
  <2>1. PICK n \in Above : \A m \in Above : n <= m
    <3>1. Above \subseteq Nat /\ depth \in Above
      BY <1>0
    <3> HIDE DEF Above
    <3> QED BY <3>1, LeastOf
  <2>2. n \in enclosing
    <3> SUFFICES ASSUME n \notin enclosing PROVE FALSE
      OBVIOUS
    <3>1. PICK k \in enclosing : TRUE
      BY <1>2
    <3>2. n - 1 \in Nat
      BY <1>0, <2>1, <3>1
    <3>3. \A j \in enclosing : j <= n - 1
      BY <1>0, <2>1
    <3>4. n - 1 \in Above
      BY <3>2, <3>3
    <3> QED BY <2>1, <3>2, <3>4
  <2>3. \A k \in enclosing : k <= n
    BY <2>1
  <2>4. inner \in enclosing /\ \A k \in enclosing : k <= inner
    <3> HIDE DEF enclosing
    <3> QED BY <2>2, <2>3
  <2>5. GraceOf(depth, g) = Lower(g, shield[inner])
    BY <1>2 DEF GraceOf
  <2> HIDE DEF inner
  <2>6. /\ Lower(g, shield[inner]) \in Nat /\ Lower(g, shield[inner]) <= shield[inner]
        /\ shield[inner] \in Nat
    BY <1>0, <2>4 DEF Lower
  <2>7. ASSUME NEW k \in 1 .. depth, shield[k] # Open PROVE shield[inner] <= shield[k]
    <3>1. k \in enclosing /\ k <= inner /\ inner \in 1 .. depth /\ shield[inner] # Open /\ k \in Nat /\ inner \in Nat
      BY <1>0, <2>4, <2>7
    <3>2. CASE k = inner
      BY <2>6, <3>2
    <3>3. CASE k # inner
      BY <2>7, <3>1, <3>3 DEF Rooted
    <3> QED BY <3>2, <3>3
  <2>8. ASSUME NEW k \in 1 .. depth, shield[k] # Open PROVE GraceOf(depth, g) <= shield[k]
    <3>1. k \in enclosing
      BY <2>8
    <3> QED BY <1>0, <2>5, <2>6, <2>7, <2>8, <3>1
  <2> QED BY <2>5, <2>6, <2>8
<1> QED BY <1>1, <1>2

LEMMA MintKeepsRooted ==
  ASSUME Rooted, Instants', NEW g \in Graces \cup {Open}, Mint(g)
  PROVE  Rooted'
<1> DEFINE s == IF g = Open THEN Open ELSE GraceOf(depth, g)
<1>0. g \in Nat
  BY Numbers, BoundsAssumption
<1>1. /\ s \in Nat
      /\ s # Open => \A k \in 1 .. depth : shield[k] # Open => s <= shield[k]
  BY <1>0, Numbers, GraceIsShortest
<1>2. /\ depth < MaxDepth /\ depth' = depth + 1
      /\ shield' = [shield EXCEPT ![depth + 1] = s]
      /\ UNCHANGED <<flag, cancelled, pending>>
  BY DEF Mint
<1> HIDE DEF s
<1>3. /\ depth \in Nat /\ depth + 1 \in Positions /\ MaxDepth \in Nat /\ Positions \subseteq Nat
      /\ \A k \in Positions : k # depth + 1 => shield'[k] = shield[k]
      /\ shield'[depth + 1] = s
  BY <1>2, Numbers DEF Rooted, Positions
<1>4. depth' \in Positions /\ shield' \in [Positions -> Nat]
  BY <1>1, <1>2, <1>3 DEF Rooted
<1>5. /\ flag' \in [Positions -> 0 .. Aborted] /\ cancelled' \in [Positions -> 0 .. Never]
  BY <1>2 DEF Rooted
<1>6. ASSUME NEW p \in pending' PROVE p.node <= depth' /\ shield'[p.node] = Open
  <2>1. p \in pending /\ p.node \in Positions /\ p.node <= depth /\ shield[p.node] = Open
    BY <1>2 DEF Rooted, Instants
  <2>2. p.node # depth + 1 /\ p.node \in Nat
    <3>1. \A n \in Positions : n <= depth => n # depth + 1 /\ n \in Nat
      BY <1>3
    <3> QED BY <2>1, <3>1
  <2>3. shield'[p.node] = Open
    BY <1>3, <2>1, <2>2
  <2>4. p.node <= depth + 1
    BY <1>3, <2>1, <2>2
  <2> QED BY <1>2, <2>3, <2>4
<1>7. ASSUME NEW n \in Positions, shield'[n] # Open PROVE flag'[n] = 0
  <2>1. CASE n = depth + 1
    BY <1>2, <1>3, <2>1 DEF Rooted
  <2>2. CASE n # depth + 1
    BY <1>2, <1>3, <1>7, <2>2 DEF Rooted
  <2> QED BY <2>1, <2>2
<1>8. ASSUME NEW n \in Positions, n > depth' PROVE flag'[n] = 0 /\ shield'[n] = Open
  <2>1. n \in Nat /\ n # depth + 1 /\ n > depth
    BY <1>2, <1>3, <1>8
  <2> QED BY <1>2, <1>3, <2>1 DEF Rooted
<1>9. ASSUME NEW i \in 1 .. depth', NEW k \in 1 .. depth', i < k, shield'[i] # Open, shield'[k] # Open
      PROVE  shield'[k] <= shield'[i]
  <2>1. /\ i \in Nat /\ k \in Nat /\ i \in Positions /\ k \in Positions
        /\ i # depth + 1 /\ i \in 1 .. depth /\ shield'[i] = shield[i]
    BY <1>2, <1>3, <1>9 DEF Positions
  <2>2. CASE k = depth + 1
    BY <1>1, <1>3, <1>9, <2>1, <2>2
  <2>3. CASE k # depth + 1
    <3>1. k \in 1 .. depth /\ shield'[k] = shield[k]
      BY <1>2, <1>3, <2>1, <2>3
    <3> QED BY <1>9, <2>1, <3>1 DEF Rooted
  <2> QED BY <2>2, <2>3
<1>10. (/\ depth' \in Positions
        /\ \A p \in pending' : p.node <= depth' /\ shield'[p.node] = Open
        /\ \A n \in Positions : shield'[n] # Open => flag'[n] = 0
        /\ \A n \in Positions : n > depth' => flag'[n] = 0 /\ shield'[n] = Open
        /\ \A i, k \in 1 .. depth' : i < k /\ shield'[i] # Open /\ shield'[k] # Open => shield'[k] <= shield'[i])
  BY <1>4, <1>6, <1>7, <1>8, <1>9
<1> QED BY <1>4, <1>5, <1>10 DEF Rooted, Positions, Open, Never

LEMMA StrikeInstantKeepsRooted ==
  ASSUME Rooted, Instants', NEW n \in Positions, NEW c \in Causes, StrikeInstant(n, c)
  PROVE  Rooted'
<1>1. /\ n <= depth /\ shield[n] = Open
      /\ cancelled' = [cancelled EXCEPT ![n] = IF cancelled[n] = Never THEN now ELSE cancelled[n]]
      /\ pending' = pending \cup {[node |-> n, cause |-> c]}
      /\ UNCHANGED <<depth, shield, flag>>
  BY DEF StrikeInstant
<1>2. now \in 0 .. Never
  BY Numbers, BoundsAssumption DEF Rooted, Instants, Never
<1>3. cancelled' \in [Positions -> 0 .. Never]
  BY <1>1, <1>2 DEF Rooted
<1>4. \A p \in pending' : p.node <= depth /\ shield[p.node] = Open
  <2>1. \A p \in pending : p.node <= depth /\ shield[p.node] = Open
    BY DEF Rooted
  <2> QED BY <1>1, <2>1
<1> QED BY <1>1, <1>3, <1>4 DEF Rooted, Positions, Open, Never

LEMMA StrikeFlagKeepsRooted ==
  ASSUME Rooted, Instants', NEW p \in pending, StrikeFlag(p)
  PROVE  Rooted'
<1>1. /\ p.node \in Positions /\ p.cause \in 1 .. Aborted /\ p.node <= depth /\ shield[p.node] = Open
  <2>1. p \in [node : Positions, cause : Causes]
    BY DEF Rooted, Instants
  <2>2. p.node \in Positions /\ p.cause \in Causes
    BY <2>1
  <2> QED BY <2>2, CausesAssumption DEF Rooted
<1>2. /\ flag' = [flag EXCEPT ![p.node] = IF flag[p.node] >= p.cause THEN flag[p.node] ELSE p.cause]
      /\ pending' = pending \ {p}
      /\ UNCHANGED <<depth, shield, cancelled>>
  BY DEF StrikeFlag
<1>3. /\ flag' \in [Positions -> 0 .. Aborted]
      /\ \A n \in Positions : n # p.node => flag'[n] = flag[n]
  <2> DEFINE v == IF flag[p.node] >= p.cause THEN flag[p.node] ELSE p.cause
  <2>1. flag \in [Positions -> 0 .. Aborted] /\ v \in 0 .. Aborted
    <3>1. flag \in [Positions -> 0 .. Aborted]
      BY DEF Rooted
    <3>2. flag[p.node] \in 0 .. Aborted
      <4>1. \A n \in Positions : flag[n] \in 0 .. Aborted
        BY <3>1
      <4> QED BY <1>1, <4>1, Zenon
    <3>3. p.cause \in 0 .. Aborted
      <4>1. \A c \in 1 .. Aborted : c \in 0 .. Aborted
        BY Numbers
      <4> QED BY <1>1, <4>1, Zenon
    <3> QED BY <3>1, <3>2, <3>3
  <2>2. flag' = [flag EXCEPT ![p.node] = v]
    BY <1>2
  <2> HIDE DEF v
  <2> QED BY <1>1, <2>1, <2>2
<1>4. \A n \in Positions : n > depth => n # p.node
  BY <1>1, Numbers DEF Rooted
<1>5. \A n \in Positions : shield'[n] # Open => flag'[n] = 0
  BY <1>1, <1>2, <1>3 DEF Rooted
<1>6. \A n \in Positions : n > depth => flag'[n] = 0 /\ shield'[n] = Open
  BY <1>2, <1>3, <1>4 DEF Rooted
<1> QED BY <1>2, <1>3, <1>5, <1>6 DEF Rooted, Positions, Open, Never

LEMMA RootedStep == Rooted /\ [Next]_vars => Rooted'
<1> SUFFICES ASSUME Rooted, [Next]_vars PROVE Rooted'
  OBVIOUS
<1>0. Instants'
  BY InstantsStep DEF Rooted
<1>1. CASE \E n \in Positions, c \in Causes : StrikeInstant(n, c)
  BY <1>0, <1>1, StrikeInstantKeepsRooted
<1>2. CASE \E p \in pending : StrikeFlag(p)
  BY <1>0, <1>2, StrikeFlagKeepsRooted
<1>3. CASE \E g \in Graces \cup {Open} : Mint(g)
  BY <1>0, <1>3, MintKeepsRooted
<1>4. CASE \/ Tick \/ \E d \in 1 .. depth : PollBegin(d)
           \/ PollNode \/ PollEnd \/ UNCHANGED vars
  <2>1. UNCHANGED <<depth, shield, flag, cancelled, pending>>
    BY <1>4 DEF Tick, PollBegin, PollNode, PollEnd, vars
  <2> QED BY <1>0, <2>1 DEF Rooted, Positions, Open, Never
<1> QED BY <1>1, <1>2, <1>3, <1>4 DEF Next

LEMMA RootedAlways == Spec => []Rooted
BY InitRooted, RootedStep, PTL DEF Spec

LEMMA ShieldsNest == Rooted => NestedShieldNeverOutlasts
<1> SUFFICES ASSUME Rooted, NEW i \in 1 .. depth, NEW j \in 1 .. depth, i < j, shield[i] # Open
             PROVE  Resolve(i).cause <= Resolve(j).cause
  BY DEF NestedShieldNeverOutlasts
<1>1. PICK f : IsWalk(f, 0, None) /\ \A d \in 0 .. MaxDepth : Resolve(d) = f[d]
  BY ResolveWalks
<1>2. i \in 0 .. MaxDepth /\ j \in 0 .. MaxDepth /\ j \in i .. depth /\ 0 \in 0 .. MaxDepth
  BY Numbers DEF Rooted, Positions
<1>3. Resolve(i) = f[i] /\ Resolve(j) = f[j] /\ f[i] \in InForces /\ f[j] \in InForces
  BY <1>1, <1>2, WalkTyped, Numbers
<1>4. CASE f[i].cause = 0
  BY <1>3, <1>4, InForceFields, Numbers
<1>5. CASE f[i].cause # 0
  BY <1>1, <1>2, <1>3, <1>5, WalkPasses DEF Weaker
<1> QED BY <1>4, <1>5

\* A cleanup minted within a cleanup never outlasts it: no shield is granted a
\* longer grace than one that encloses it, so whatever has reached the outer
\* shield has reached every node below, for any graces and at any instant.
THEOREM NestedShieldsEnd == Spec => []NestedShieldNeverOutlasts
BY RootedAlways, ShieldsNest, PTL

-----------------------------------------------------------------------------
(* Polls.  Nothing a writer does takes from what is in force: flags rise, an *)
(* instant stays once its flag is raised, and time goes on.                  *)

Grown ==
  /\ depth \in Nat /\ depth' \in Nat /\ depth <= depth' /\ now <= now'
  /\ \A n \in Positions : flag[n] <= flag'[n] /\ (flag[n] # 0 => cancelled'[n] = cancelled[n])
  /\ \A n \in 1 .. depth : shield'[n] = shield[n]

LEMMA StepGrows == Rooted /\ [Next]_vars => Grown
<1> SUFFICES ASSUME Rooted, [Next]_vars PROVE Grown
  OBVIOUS
<1>0. /\ depth \in Nat /\ now \in Nat /\ Positions \subseteq Nat /\ \A n \in 1 .. depth : n \in Positions
      /\ \A n \in Positions : flag[n] \in Nat
  BY Numbers DEF Rooted, Positions, Instants
<1>1. ASSUME NEW n \in Positions, NEW c \in Causes, StrikeInstant(n, c) PROVE Grown
  <2>1. /\ cancelled' = [cancelled EXCEPT ![n] = IF cancelled[n] = Never THEN now ELSE cancelled[n]]
        /\ UNCHANGED <<depth, shield, flag, now>>
    BY <1>1 DEF StrikeInstant
  <2>2. \A m \in Positions : cancelled[m] # Never => cancelled'[m] = cancelled[m]
    BY <2>1 DEF Rooted
  <2>3. \A m \in Positions : flag[m] # 0 => cancelled[m] # Never
    BY DEF Rooted, Instants
  <2> QED BY <1>0, <2>1, <2>2, <2>3 DEF Grown
<1>2. ASSUME NEW p \in pending, StrikeFlag(p) PROVE Grown
  <2>1. p.node \in Positions /\ p.cause \in Nat
    <3>1. p \in [node : Positions, cause : Causes]
      BY DEF Rooted, Instants
    <3>2. p.node \in Positions /\ p.cause \in Causes
      BY <3>1
    <3>3. p.cause \in 1 .. Aborted
      BY <3>2, CausesAssumption
    <3> QED BY <3>2, <3>3
  <2> DEFINE v == IF flag[p.node] >= p.cause THEN flag[p.node] ELSE p.cause
  <2>2. flag' = [flag EXCEPT ![p.node] = v] /\ UNCHANGED <<depth, shield, cancelled, now>>
    BY <1>2 DEF StrikeFlag
  <2>3. flag[p.node] <= v
    <3>1. flag[p.node] \in Nat
      BY <1>0, <2>1, Zenon
    <3> QED BY <2>1, <3>1
  <2> HIDE DEF v
  <2>4. \A m \in Positions : flag[m] <= flag'[m]
    <3> SUFFICES ASSUME NEW m \in Positions PROVE flag[m] <= flag'[m]
      OBVIOUS
    <3>1. CASE m = p.node
      BY <2>1, <2>2, <2>3, <3>1 DEF Rooted
    <3>2. CASE m # p.node
      BY <1>0, <2>1, <2>2, <3>2 DEF Rooted
    <3> QED BY <3>1, <3>2
  <2> QED BY <1>0, <2>2, <2>4 DEF Grown
<1>3. ASSUME NEW g \in Graces \cup {Open}, Mint(g) PROVE Grown
  <2>1. /\ depth' = depth + 1 /\ UNCHANGED <<flag, cancelled, now>>
        /\ \E s : shield' = [shield EXCEPT ![depth + 1] = s]
    BY <1>3 DEF Mint
  <2>2. \A n \in 1 .. depth : shield'[n] = shield[n]
    BY <1>0, <2>1 DEF Rooted
  <2> QED BY <1>0, <2>1, <2>2 DEF Grown
<1>4. CASE Tick
  BY <1>0, <1>4 DEF Tick, Grown
<1>5. CASE \/ \E d \in 1 .. depth : PollBegin(d)
           \/ PollNode \/ PollEnd \/ UNCHANGED vars
  <2>1. UNCHANGED <<depth, shield, flag, cancelled, now>>
    BY <1>5 DEF PollBegin, PollNode, PollEnd, vars
  <2> QED BY <1>0, <2>1 DEF Grown
<1> QED BY <1>1, <1>2, <1>3, <1>4, <1>5 DEF Next

\* What the lemmas about one turn and one walk say of the state after a step.
JoinsWell ==
  \A n \in Positions, a \in InForces :
    /\ Joined(n, a) \in InForces
    /\ Weaker(a, Joined(n, a))
    /\ flag[n] <= Joined(n, a).cause
    /\ flag[n] # 0 => Joined(n, a).since <= cancelled[n]
    /\ Joined(n, a).cause = a.cause \/ Joined(n, a).cause = flag[n]
    /\ Joined(n, a).since = a.since \/ (flag[n] # 0 /\ Joined(n, a).since = cancelled[n])

FoldsWell ==
  \A n \in Positions, a \in InForces :
    /\ Folded(n, a) \in InForces
    /\ Passes(n, a) => Folded(n, a) = Joined(n, a)
    /\ ~Passes(n, a) => Folded(n, a) = Joined(n, None)

WalksWell ==
  \A i \in 0 .. MaxDepth, a \in InForces : \A f :
    IsWalk(f, i, a) => \A k \in i .. MaxDepth : f[k] \in InForces

Resolves == \E f : IsWalk(f, 0, None) /\ \A d \in 0 .. MaxDepth : Resolve(d) = f[d]

LEMMA Wells == Rooted => JoinsWell /\ FoldsWell /\ WalksWell /\ Resolves
<1> SUFFICES ASSUME Rooted PROVE JoinsWell /\ FoldsWell /\ WalksWell /\ Resolves
  OBVIOUS
<1>1. JoinsWell
  BY JoinedIs DEF JoinsWell
<1>2. FoldsWell
  BY FoldedTyped, AdmittedCases DEF FoldsWell
<1>3. WalksWell
  BY WalkTyped DEF WalksWell
<1>4. Resolves
  BY ResolveWalks DEF Resolves
<1> QED BY <1>1, <1>2, <1>3, <1>4

LEMMA WellsNext == Rooted' => JoinsWell' /\ FoldsWell' /\ WalksWell' /\ Resolves'
<1>1. (Rooted => JoinsWell /\ FoldsWell /\ WalksWell /\ Resolves)'
  BY Wells, PTL
<1> QED BY <1>1

LEMMA JoinedGrows ==
  ASSUME Rooted, Rooted', Grown, NEW n \in Positions,
         NEW a \in InForces, NEW b \in InForces, Weaker(a, b)
  PROVE  Weaker(Joined(n, a), Joined(n, b)')
<1> DEFINE x == Joined(n, a)
           y == Joined(n, b)'
<1>1. /\ x \in InForces
      /\ x.cause = a.cause \/ x.cause = flag[n]
      /\ x.since = a.since \/ (flag[n] # 0 /\ x.since = cancelled[n])
  BY Wells DEF JoinsWell
<1>2. /\ y \in InForces
      /\ b.cause <= y.cause /\ y.since <= b.since
      /\ flag'[n] <= y.cause /\ (flag'[n] # 0 => y.since <= cancelled'[n])
  <2>1. JoinsWell'
    BY WellsNext
  <2> QED BY <2>1 DEF JoinsWell, Weaker, InForces, Positions, Never
<1>3. flag[n] <= flag'[n] /\ (flag[n] # 0 => cancelled'[n] = cancelled[n])
  BY DEF Grown
<1>4. a.cause <= b.cause /\ b.since <= a.since
  BY DEF Weaker
<1>5. flag[n] \in Nat /\ flag'[n] \in Nat /\ cancelled[n] \in Nat
  <2>1. flag[n] \in 0 .. Aborted /\ cancelled[n] \in 0 .. Never
    BY DEF Rooted
  <2>2. flag'[n] \in 0 .. Aborted
    BY DEF Rooted, Positions
  <2> QED BY <2>1, <2>2
<1> HIDE DEF x, y
<1>6. /\ x.cause \in Nat /\ x.since \in Nat /\ y.cause \in Nat /\ y.since \in Nat
      /\ a.cause \in Nat /\ a.since \in Nat /\ b.cause \in Nat /\ b.since \in Nat
  BY <1>1, <1>2, InForceFields, Numbers
<1>7. x.cause <= y.cause
  BY <1>1, <1>2, <1>3, <1>4, <1>5, <1>6
<1>8. y.since <= x.since
  BY <1>1, <1>2, <1>3, <1>4, <1>5, <1>6
<1>9. Weaker(x, y)
  BY <1>7, <1>8 DEF Weaker
<1> QED BY <1>9 DEF x, y

LEMMA FoldedGrows ==
  ASSUME Rooted, Rooted', Grown, NEW n \in 1 .. depth, n \in Positions,
         NEW a \in InForces, NEW b \in InForces, Weaker(a, b)
  PROVE  Weaker(Folded(n, a), Folded(n, b)')
<1>1. FoldsWell /\ FoldsWell'
  BY Wells, WellsNext
<1>2. Weaker(None, b) /\ Weaker(None, None)
  BY InForceFields, Numbers DEF Weaker
<1>3. /\ Folded(n, b)' = Joined(n, b)' \/ Folded(n, b)' = Joined(n, None)'
      /\ Passes(n, b)' => Folded(n, b)' = Joined(n, b)'
  BY <1>1 DEF FoldsWell
<1>4. CASE Passes(n, a)
  <2>1. /\ a.cause \in Nat /\ a.since \in Nat /\ b.cause \in Nat /\ b.since \in Nat /\ Aborted = 6
        /\ now \in Nat /\ now' \in Nat /\ shield[n] \in Nat /\ shield'[n] = shield[n] /\ now <= now'
    <3>1. a.cause \in Nat /\ a.since \in Nat /\ b.cause \in Nat /\ b.since \in Nat /\ Aborted = 6
      BY InForceFields, Numbers
    <3>2. now \in Nat /\ now' \in Nat /\ shield[n] \in Nat
      BY DEF Rooted, Instants
    <3>3. shield'[n] = shield[n] /\ now <= now'
      BY DEF Grown
    <3> QED BY <3>1, <3>2, <3>3
  <2>2. /\ b.cause # 0
        /\ shield'[n] = Open \/ b.cause >= Aborted \/ now' >= b.since + shield'[n]
    BY <1>4, <2>1 DEF Weaker, Passes
  <2>3. Passes(n, b)'
    BY <2>2 DEF Passes, Open
  <2>4. Folded(n, a) = Joined(n, a)
    BY <1>1, <1>4 DEF FoldsWell
  <2> QED BY <1>3, <2>3, <2>4, JoinedGrows
<1>5. CASE ~Passes(n, a)
  <2>1. Folded(n, a) = Joined(n, None)
    BY <1>1, <1>5 DEF FoldsWell
  <2>2. Weaker(Joined(n, None), Joined(n, b)') /\ Weaker(Joined(n, None), Joined(n, None)')
    BY <1>2, JoinedGrows, Numbers
  <2> QED BY <1>3, <2>1, <2>2
<1> QED BY <1>4, <1>5

LEMMA WalksGrow ==
  ASSUME Rooted, Rooted', Grown, NEW i \in 0 .. MaxDepth,
         NEW a \in InForces, NEW b \in InForces, Weaker(a, b),
         NEW f, IsWalk(f, i, a), NEW g, IsWalk(g, i, b)'
  PROVE  \A k \in i .. depth : Weaker(f[k], g[k])
<1>0. /\ depth \in Nat /\ depth <= MaxDepth /\ MaxDepth \in Nat
      /\ 1 .. depth \subseteq Positions
  BY Numbers DEF Rooted, Positions
<1> DEFINE Bad == {k \in i .. depth : ~Weaker(f[k], g[k])}
<1> SUFFICES ASSUME Bad # {} PROVE FALSE
  OBVIOUS
<1>1. PICK n \in Bad : \A m \in Bad : n <= m
  <2>1. Bad \subseteq Nat
    BY Numbers
  <2> HIDE DEF Bad
  <2> QED BY <2>1, LeastOf
<1>2. f[i] = a /\ g[i] = b
  BY DEF IsWalk
<1>3. n # i
  BY <1>2
<1>4. /\ n \in (i + 1) .. MaxDepth /\ n - 1 \in i .. MaxDepth /\ n - 1 \in i .. depth
      /\ n \in 1 .. depth /\ n \in Positions /\ ~(n <= n - 1)
  BY <1>0, <1>3
<1>5. Weaker(f[n - 1], g[n - 1])
  <2>1. n - 1 \notin Bad
    BY <1>1, <1>4
  <2> QED BY <1>4, <2>1
<1>6. f[n] = Folded(n, f[n - 1])
  BY <1>4 DEF IsWalk
<1>7. g[n] = Folded(n, g[n - 1])'
  BY <1>4 DEF IsWalk
<1>8. f[n - 1] \in InForces
  BY <1>4, Wells DEF WalksWell
<1>9. g[n - 1] \in InForces
  <2>1. WalksWell'
    BY WellsNext
  <2>2. \A k \in i .. MaxDepth : g[k] \in InForces
    BY <2>1 DEF WalksWell, InForces, Positions, Never
  <2> QED BY <1>4, <2>2
<1>10. Weaker(f[n], g[n])
  BY <1>4, <1>5, <1>6, <1>7, <1>8, <1>9, FoldedGrows
<1> QED BY <1>10

LEMMA ResolveGrows ==
  ASSUME Rooted, Rooted', Grown, NEW d \in 0 .. depth
  PROVE  /\ Resolve(d) \in InForces /\ Resolve(d)' \in InForces
         /\ Weaker(Resolve(d), Resolve(d)')
<1>0. d \in 0 .. MaxDepth /\ 0 \in 0 .. MaxDepth /\ MaxDepth \in Nat /\ depth \in Nat
  BY Numbers DEF Rooted, Positions
<1>1. PICK f : IsWalk(f, 0, None) /\ \A k \in 0 .. MaxDepth : Resolve(k) = f[k]
  BY Wells DEF Resolves
<1>2. PICK g : IsWalk(g, 0, None)' /\ \A k \in 0 .. MaxDepth : Resolve(k)' = g[k]
  <2>1. Resolves'
    BY WellsNext
  <2> QED BY <2>1 DEF Resolves
<1>3. None \in InForces /\ Weaker(None, None)
  BY Numbers DEF Weaker
<1>4. Resolve(d) = f[d] /\ Resolve(d)' = g[d]
  BY <1>0, <1>1, <1>2
<1>5. f[d] \in InForces
  BY <1>0, <1>1, <1>3, Wells DEF WalksWell
<1>6. g[d] \in InForces
  <2>1. WalksWell'
    BY WellsNext
  <2>2. \A k \in 0 .. MaxDepth : g[k] \in InForces
    BY <1>0, <1>2, <1>3, <2>1 DEF WalksWell, InForces, Positions, Never
  <2> QED BY <1>0, <2>2
<1>7. Weaker(f[d], g[d])
  BY <1>0, <1>1, <1>2, <1>3, WalksGrow
<1> QED BY <1>4, <1>5, <1>6, <1>7

LEMMA ResolveStarts == Rooted => Resolve(0) = None
<1> SUFFICES ASSUME Rooted PROVE Resolve(0) = None
  OBVIOUS
<1> QED BY Wells, Numbers DEF Resolves, IsWalk

\* A poll in progress lies between: it is sure to find what was in force when
\* it began, whatever the rest of its way, and has found no more than is in
\* force by now as far as it has come.
Ahead  == \A f : IsWalk(f, reader.i, reader.acc) => reader.low <= f[reader.target].cause
Behind == Weaker(reader.acc, Resolve(reader.i))
Reading ==
  /\ Rooted
  /\ reader \in [target : 0 .. MaxDepth, i : 0 .. MaxDepth, acc : InForces, low : Nat]
  /\ reader.i <= reader.target /\ reader.target <= depth
  /\ reader.target # 0 => Ahead /\ Behind

LEMMA InitReading == Init => Reading
<1>1. Init => Rooted
  BY InitRooted
<1> QED BY <1>1, Numbers DEF Init, Reading, Idle

LEMMA ReaderFields ==
  ASSUME Reading
  PROVE  /\ reader.target \in 0 .. MaxDepth /\ reader.i \in 0 .. MaxDepth
         /\ reader.acc \in InForces /\ reader.low \in Nat
         /\ reader.target \in 0 .. depth /\ reader.i \in 0 .. depth
         /\ reader.target \in reader.i .. depth
         /\ depth \in Nat /\ depth <= MaxDepth /\ MaxDepth \in Nat
<1>1. /\ reader.target \in 0 .. MaxDepth /\ reader.i \in 0 .. MaxDepth
      /\ reader.acc \in InForces /\ reader.low \in Nat
      /\ reader.i <= reader.target /\ reader.target <= depth
  BY DEF Reading
<1>2. depth \in Nat /\ depth <= MaxDepth /\ MaxDepth \in Nat
  BY Numbers DEF Reading, Rooted, Positions
<1> QED BY <1>1, <1>2

\* What is sure of a walk stays sure.
LEMMA SureStays ==
  ASSUME Rooted, Rooted', Grown, NEW i \in 0 .. depth, NEW t \in i .. depth,
         NEW a \in InForces, NEW w \in Nat,
         \A f : IsWalk(f, i, a) => w <= f[t].cause
  PROVE  \A g : IsWalk(g, i, a)' => w <= g[t].cause
<1> SUFFICES ASSUME NEW g, IsWalk(g, i, a)' PROVE w <= g[t].cause
  OBVIOUS
<1>0. i \in 0 .. MaxDepth /\ t \in i .. MaxDepth /\ t \in 0 .. MaxDepth /\ depth <= MaxDepth /\ depth \in Nat
  BY Numbers DEF Rooted, Positions
<1>1. PICK f : IsWalk(f, i, a)
  BY <1>0, WalkExists
<1>2. Weaker(a, a)
  BY InForceFields, Numbers DEF Weaker
<1>3. f[t].cause <= g[t].cause
  BY <1>0, <1>1, <1>2, WalksGrow DEF Weaker
<1>4. w <= f[t].cause
  BY <1>1
<1>5. f[t] \in InForces
  BY <1>0, <1>1, Wells DEF WalksWell
<1>6. g[t] \in InForces
  <2>1. WalksWell'
    BY WellsNext
  <2>2. \A k \in i .. MaxDepth : g[k] \in InForces
    BY <1>0, <2>1 DEF WalksWell, InForces, Positions, Never
  <2> QED BY <1>0, <2>2
<1>7. f[t].cause \in Nat /\ g[t].cause \in Nat
  BY <1>5, <1>6, InForceFields, Numbers
<1> QED BY <1>3, <1>4, <1>7

LEMMA WeakerIsTransitive ==
  ASSUME NEW a \in InForces, NEW b \in InForces, NEW c \in InForces, Weaker(a, b), Weaker(b, c)
  PROVE  Weaker(a, c)
<1>1. /\ a.cause \in Nat /\ a.since \in Nat /\ b.cause \in Nat /\ b.since \in Nat
      /\ c.cause \in Nat /\ c.since \in Nat
  BY InForceFields, Numbers
<1> QED BY <1>1 DEF Weaker

\* The reading that a step leaves, put together from its parts.
LEMMA ReadingFrom ==
  ASSUME Rooted', NEW t \in 0 .. MaxDepth, NEW i \in 0 .. MaxDepth, NEW a \in InForces, NEW w \in Nat,
         reader' = [target |-> t, i |-> i, acc |-> a, low |-> w],
         i <= t, t <= depth',
         t # 0 => (\A g : IsWalk(g, i, a)' => w <= g[t].cause) /\ Weaker(a, Resolve(i)')
  PROVE  Reading'
<1>1. /\ reader'.target = t /\ reader'.i = i /\ reader'.acc = a /\ reader'.low = w
      /\ reader' \in [target : 0 .. MaxDepth, i : 0 .. MaxDepth, acc : InForces, low : Nat]
  OBVIOUS
<1>2. t # 0 => Ahead'
  <2> SUFFICES ASSUME t # 0, NEW g, IsWalk(g, reader.i, reader.acc)' PROVE w <= g[t].cause
    BY <1>1 DEF Ahead
  <2>1. IsWalk(g, i, a)'
    BY <1>1 DEF IsWalk
  <2> QED BY <2>1
<1>3. t # 0 => Behind'
  BY <1>1 DEF Behind
<1> QED BY <1>1, <1>2, <1>3 DEF Reading, InForces, Positions, Never

\* The poll in progress, its fields as values.
LEMMA ReaderIs ==
  ASSUME Reading
  PROVE  \E t \in 0 .. MaxDepth, i \in 0 .. MaxDepth, a \in InForces, w \in Nat :
           /\ reader = [target |-> t, i |-> i, acc |-> a, low |-> w]
           /\ i <= t /\ t <= depth
           /\ t # 0 => (\A f : IsWalk(f, i, a) => w <= f[t].cause) /\ Weaker(a, Resolve(i))
<1>1. reader \in [target : 0 .. MaxDepth, i : 0 .. MaxDepth, acc : InForces, low : Nat]
  BY DEF Reading
<1>2. reader = [target |-> reader.target, i |-> reader.i, acc |-> reader.acc, low |-> reader.low]
  BY <1>1
<1>3. reader.i <= reader.target /\ reader.target <= depth
  BY DEF Reading
<1>4. reader.target # 0 =>
        /\ \A f : IsWalk(f, reader.i, reader.acc) => reader.low <= f[reader.target].cause
        /\ Weaker(reader.acc, Resolve(reader.i))
  BY DEF Reading, Ahead, Behind
<1> QED BY <1>2, <1>3, <1>4, ReaderFields

LEMMA OthersKeepReading ==
  ASSUME Reading, Rooted', Grown, UNCHANGED reader
  PROVE  Reading'
<1>0. Rooted /\ depth \in Nat /\ depth' \in Nat /\ depth <= depth'
  BY DEF Reading, Grown
<1>1. PICK t \in 0 .. MaxDepth, i \in 0 .. MaxDepth, a \in InForces, w \in Nat :
        /\ reader = [target |-> t, i |-> i, acc |-> a, low |-> w]
        /\ i <= t /\ t <= depth
        /\ t # 0 => (\A f : IsWalk(f, i, a) => w <= f[t].cause) /\ Weaker(a, Resolve(i))
  BY ReaderIs
<1>2. t \in i .. depth /\ i \in 0 .. depth /\ t <= depth'
  BY <1>0, <1>1
<1>3. t # 0 => (\A g : IsWalk(g, i, a)' => w <= g[t].cause)
  BY <1>0, <1>1, <1>2, SureStays
<1>4. t # 0 => Weaker(a, Resolve(i)')
  BY <1>0, <1>1, <1>2, ResolveGrows, WeakerIsTransitive
<1>5. reader' = [target |-> t, i |-> i, acc |-> a, low |-> w]
  BY <1>1
<1> QED BY <1>1, <1>2, <1>3, <1>4, <1>5, ReadingFrom

LEMMA PollBeginKeepsReading ==
  ASSUME Reading, Rooted', Grown, NEW d \in 1 .. depth, PollBegin(d)
  PROVE  Reading'
<1>0. Rooted /\ depth \in Nat /\ depth' \in Nat /\ depth <= depth' /\ depth <= MaxDepth /\ MaxDepth \in Nat
  <2>1. Rooted /\ depth \in Nat /\ depth' \in Nat /\ depth <= depth'
    BY DEF Reading, Grown
  <2> QED BY <2>1, ReaderFields
<1>1. PICK f : IsWalk(f, 0, None) /\ \A k \in 0 .. MaxDepth : Resolve(k) = f[k]
  BY <1>0, Wells DEF Resolves
<1>2. d \in 0 .. MaxDepth /\ d \in 0 .. depth /\ 0 \in 0 .. MaxDepth /\ 0 \in 0 .. depth /\ 0 <= d /\ d <= depth'
  BY <1>0
<1> DEFINE w == f[d].cause
<1>3. Resolve(d) = f[d] /\ f[d] \in InForces /\ w \in Nat
  <2>1. Resolve(d) = f[d] /\ f[d] \in InForces
    BY <1>0, <1>1, <1>2, ResolveGrows
  <2> QED BY <2>1, InForceFields
<1>4. reader' = [target |-> d, i |-> 0, acc |-> None, low |-> w]
  BY <1>3 DEF PollBegin
<1>5. None \in InForces /\ Weaker(None, None)
  BY Numbers DEF Weaker
<1>6. ASSUME NEW g, IsWalk(g, 0, None)' PROVE w <= g[d].cause
  BY <1>0, <1>1, <1>2, <1>5, <1>6, WalksGrow DEF Weaker
<1>7. Weaker(None, Resolve(0)')
  <2>1. Resolve(0)' \in InForces /\ Resolve(0) = None /\ Weaker(Resolve(0), Resolve(0)')
    BY <1>0, <1>2, ResolveGrows, ResolveStarts
  <2> QED BY <2>1
<1> HIDE DEF w
<1> QED BY <1>2, <1>3, <1>4, <1>5, <1>6, <1>7, ReadingFrom

LEMMA PollNodeKeepsReading ==
  ASSUME Reading, Rooted', Grown, PollNode
  PROVE  Reading'
<1>0. Rooted /\ depth \in Nat /\ depth' \in Nat /\ depth <= depth' /\ depth <= MaxDepth /\ MaxDepth \in Nat
  <2>1. Rooted /\ depth \in Nat /\ depth' \in Nat /\ depth <= depth'
    BY DEF Reading, Grown
  <2> QED BY <2>1, ReaderFields
<1>1. PICK t \in 0 .. MaxDepth, i \in 0 .. MaxDepth, a \in InForces, w \in Nat :
        /\ reader = [target |-> t, i |-> i, acc |-> a, low |-> w]
        /\ i <= t /\ t <= depth
        /\ t # 0 => (\A f : IsWalk(f, i, a) => w <= f[t].cause) /\ Weaker(a, Resolve(i))
  BY ReaderIs
<1>2. i < t
  BY <1>1 DEF PollNode
<1>3. /\ t # 0 /\ i + 1 \in 0 .. MaxDepth /\ i + 1 \in 0 .. depth /\ t \in (i + 1) .. depth /\ i \in 0 .. depth
      /\ i + 1 \in Positions /\ i + 1 \in 1 .. depth /\ i + 1 <= t /\ t <= depth' /\ (i + 1) - 1 = i
      /\ (i + 1) \in (i + 1) .. MaxDepth
  BY <1>0, <1>1, <1>2 DEF Positions
<1> DEFINE b == Folded(i + 1, a)
<1>4. b \in InForces
  BY <1>0, <1>1, <1>3, Wells DEF FoldsWell
<1>5. PICK b1 \in InForces : b1 = b
  BY <1>4
<1>6. reader' = [target |-> t, i |-> i + 1, acc |-> b1, low |-> w]
  <2>1. reader' = [reader EXCEPT !.i = i + 1, !.acc = b]
    BY <1>1 DEF PollNode
  <2> HIDE DEF b
  <2> QED BY <1>1, <1>5, <2>1
<1>7. ASSUME NEW f, IsWalk(f, i + 1, b1) PROVE w <= f[t].cause
  <2> DEFINE h == [k \in i .. MaxDepth |-> IF k = i THEN a ELSE f[k]]
  <2>2. \A k \in i .. MaxDepth : h[k] = IF k = i THEN a ELSE f[k]
    OBVIOUS
  <2> HIDE DEF h
  <2>3. h[i] = a
    BY <1>1, <1>3, <2>2
  <2>4. ASSUME NEW k \in (i + 1) .. MaxDepth PROVE h[k] = Folded(k, h[k - 1])
    <3>1. k \in i .. MaxDepth /\ k - 1 \in i .. MaxDepth /\ k # i
      BY <1>0, <1>1, <1>3
    <3>2. CASE k = i + 1
      <4>1. k - 1 = i /\ h[k - 1] = a /\ h[k] = f[k]
        BY <1>1, <2>2, <2>3, <3>1, <3>2
      <4>2. f[k] = b1
        BY <1>7, <3>2 DEF IsWalk
      <4> QED BY <1>5, <3>2, <4>1, <4>2
    <3>3. CASE k # i + 1
      <4>1. k \in ((i + 1) + 1) .. MaxDepth /\ k - 1 # i
        BY <1>1, <1>3, <3>1, <3>3
      <4>2. f[k] = Folded(k, f[k - 1])
        BY <1>7, <4>1 DEF IsWalk
      <4>3. h[k] = f[k] /\ h[k - 1] = f[k - 1]
        BY <2>2, <3>1, <4>1
      <4> QED BY <4>2, <4>3
    <3> QED BY <3>2, <3>3
  <2>5. IsWalk(h, i, a)
    BY <2>3, <2>4 DEF IsWalk
  <2>6. h[t] = f[t]
    <3>1. t \in i .. MaxDepth /\ t # i
      BY <1>0, <1>1, <1>2
    <3> QED BY <2>2, <3>1
  <2> QED BY <1>1, <1>3, <2>5, <2>6
<1>8. \A g : IsWalk(g, i + 1, b1)' => w <= g[t].cause
  BY <1>0, <1>1, <1>3, <1>7, SureStays
<1>9. Weaker(b1, Resolve(i + 1)')
  <2>1. PICK r \in InForces : r = Resolve(i)' /\ Weaker(a, r)
    <3>1. /\ Resolve(i) \in InForces /\ Resolve(i)' \in InForces
          /\ Weaker(Resolve(i), Resolve(i)') /\ Weaker(a, Resolve(i))
      BY <1>0, <1>1, <1>3, ResolveGrows
    <3>2. Weaker(a, Resolve(i)')
      BY <3>1, WeakerIsTransitive
    <3> QED BY <3>1, <3>2
  <2>2. Weaker(Folded(i + 1, a), Folded(i + 1, r)')
    BY <1>0, <1>1, <1>3, <2>1, FoldedGrows
  <2>3. Resolve(i + 1)' = Folded(i + 1, r)'
    <3>1. PICK g : IsWalk(g, 0, None)' /\ \A k \in 0 .. MaxDepth : Resolve(k)' = g[k]
      <4>1. Resolves'
        BY WellsNext
      <4> QED BY <4>1 DEF Resolves
    <3>2. i + 1 \in (0 + 1) .. MaxDepth
      BY <1>1, <1>3
    <3>3. g[i + 1] = Folded(i + 1, g[i])'
      BY <1>3, <3>1, <3>2 DEF IsWalk
    <3>4. g[i] = r /\ g[i + 1] = Resolve(i + 1)'
      BY <1>1, <1>3, <2>1, <3>1
    <3> QED BY <3>3, <3>4
  <2> QED BY <1>5, <2>2, <2>3
<1> QED BY <1>1, <1>3, <1>6, <1>8, <1>9, ReadingFrom

LEMMA PollEndKeepsReading ==
  ASSUME Reading, Rooted', Grown, PollEnd
  PROVE  Reading'
<1>1. reader' = [target |-> 0, i |-> 0, acc |-> None, low |-> 0]
  BY DEF PollEnd, Idle
<1>2. 0 <= depth' /\ 0 \in 0 .. MaxDepth /\ None \in InForces
  BY Numbers DEF Grown
<1> QED BY <1>1, <1>2, ReadingFrom

LEMMA ReadingStep == Reading /\ [Next]_vars => Reading'
<1> SUFFICES ASSUME Reading, [Next]_vars PROVE Reading'
  OBVIOUS
<1>0. Rooted' /\ Grown
  BY RootedStep, StepGrows DEF Reading
<1>1. CASE \E d \in 1 .. depth : PollBegin(d)
  BY <1>0, <1>1, PollBeginKeepsReading
<1>2. CASE PollNode
  BY <1>0, <1>2, PollNodeKeepsReading
<1>3. CASE PollEnd
  BY <1>0, <1>3, PollEndKeepsReading
<1>4. CASE \/ \E g \in Graces \cup {Open} : Mint(g)
           \/ \E n \in Positions, c \in Causes : StrikeInstant(n, c)
           \/ \E p \in pending : StrikeFlag(p)
           \/ Tick \/ UNCHANGED vars
  <2>1. UNCHANGED reader
    BY <1>4 DEF Mint, StrikeInstant, StrikeFlag, Tick, vars
  <2> QED BY <1>0, <2>1, OthersKeepReading
<1> QED BY <1>1, <1>2, <1>3, <1>4 DEF Next

LEMMA ReadingSuffices == Reading => PollBetween
<1> SUFFICES ASSUME Reading PROVE PollBetween
  OBVIOUS
<1>0. Rooted
  BY DEF Reading
<1>1. ASSUME reader.target # 0, reader.i = reader.target
      PROVE  reader.low <= reader.acc.cause /\ reader.acc.cause <= Resolve(reader.target).cause
  <2>1. PICK f : IsWalk(f, reader.i, reader.acc)
    BY ReaderFields, WalkExists
  <2>2. f[reader.target] = reader.acc
    BY <1>1, <2>1 DEF IsWalk
  <2>3. reader.low <= f[reader.target].cause
    BY <1>1, <2>1 DEF Reading, Ahead
  <2>4. reader.acc.cause <= Resolve(reader.target).cause
    BY <1>1 DEF Reading, Behind, Weaker
  <2> QED BY <2>2, <2>3, <2>4
<1>2. ASSUME NEW d \in 1 .. depth, Resolve(d).cause # 0
      PROVE  flag[Resolve(d).node] = Resolve(d).cause
  <2>1. PICK f : IsWalk(f, 0, None) /\ \A k \in 0 .. MaxDepth : Resolve(k) = f[k]
    BY <1>0, Wells DEF Resolves
  <2>2. d \in 0 .. MaxDepth
    BY <1>0, Numbers DEF Rooted, Positions
  <2> QED BY <1>0, <1>2, <2>1, <2>2, WalkNames
<1> QED BY <1>1, <1>2 DEF PollBetween

\* A poll loads the nodes of a chain one by one while strikes, births and time
\* go on: what it finds is no less than was in force when it began and no more
\* than is in force when it ends, and the node it names has attained the cause.
THEOREM PollsLieBetween == Spec => []PollBetween
BY InitReading, ReadingStep, ReadingSuffices, PTL DEF Spec
=============================================================================
