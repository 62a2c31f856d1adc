----------------------------- MODULE TurnsProofs -----------------------------
(***************************************************************************)
(* Theorems about Turns, for replies of any size and records of any        *)
(* length: the fold admits what the session writes, the agent is in step   *)
(* with the automaton, a fork agrees with its parent, what was sent stays, *)
(* what is sent is a legal request, and nothing is sent twice or lost.     *)
(* The argument: a context is whole when cuts and withdrawals can have     *)
(* made it; each admitted record keeps it whole; and the log replays to    *)
(* it, so that any prefix a crash leaves replays to a whole context.  What *)
(* a context tells (its turns' records, in order) follows in the same way, *)
(* line by line of the replay.  A fold is reasoned about by its least      *)
(* counterexample (LeastOf).                                               *)
(***************************************************************************)
EXTENDS Turns, WellFoundedInduction, SequenceTheorems, FiniteSetTheorems, TLAPS

\* The well-ordering of the naturals, which stands in for induction below.
LEMMA LeastOf ==
  ASSUME NEW S, S \subseteq Nat, S # {}
  PROVE  \E x \in S : \A y \in S : x <= y
<1>1. PICK x \in S : \A y \in S : ~(<<y, x>> \in OpToRel(<, Nat))
  BY NatLessThanWellFounded, WFMin, Zenon
<1>2. \A y, z \in Nat : y < z => <<y, z>> \in OpToRel(<, Nat)
  BY DEF OpToRel
<1>3. \A y \in S : ~(y < x)
  BY <1>1, <1>2
<1> QED BY <1>3

LEMMA GreatestOf ==
  ASSUME NEW n \in Nat, NEW S, S \subseteq 0 .. n, S # {}
  PROVE  Max(S) \in S /\ \A y \in S : y <= Max(S)
<1> DEFINE Above == {m \in Nat : \A y \in S : y <= m}
<1>1. PICK m \in Above : \A k \in Above : m <= k
  <2>1. Above \subseteq Nat /\ n \in Above
    OBVIOUS
  <2> HIDE DEF Above
  <2> QED BY <2>1, LeastOf
<1>2. m \in S
  <2> SUFFICES ASSUME m \notin S PROVE FALSE
    OBVIOUS
  <2>1. PICK k \in S : TRUE
    OBVIOUS
  <2>2. m - 1 \in Nat
    BY <1>1, <2>1
  <2>3. \A y \in S : y <= m - 1
    BY <1>1
  <2>4. m - 1 \in Above
    BY <2>2, <2>3
  <2> QED BY <1>1, <2>2, <2>4
<1>3. \A y \in S : m >= y
  BY <1>1
<1>4. Max(S) \in S /\ \A y \in S : Max(S) >= y
  BY <1>2, <1>3 DEF Max
<1>5. \A x, y \in S : x >= y => y <= x
  OBVIOUS
<1> QED BY <1>4, <1>5

-----------------------------------------------------------------------------
(* The folds, record by record. *)

RestsBy(f, s, n) == f[0] = Ready /\ \A k \in 1 .. n : f[k] = Advance(f[k - 1], s[k])

LEMMA RestingFolds ==
  ASSUME NEW S, NEW s \in Seq(S)
  PROVE  \E f : RestsBy(f, s, Len(s)) /\ Resting(s) = f[Len(s)]
<1> DEFINE N == Len(s)
           Turn(f, k) == IF k = 0 THEN Ready ELSE Advance(f[k - 1], s[k])
           Bad == {n \in 0 .. N : ~ \E f : RestsBy(f, s, n)}
           at == CHOOSE f : f = [k \in 0 .. N |-> Turn(f, k)]
<1>0. N \in Nat
  OBVIOUS
<1> HIDE DEF N
<1>1. Bad = {}
  <2> SUFFICES ASSUME Bad # {} PROVE FALSE
    OBVIOUS
  <2>1. PICK n \in Bad : \A m \in Bad : n <= m
    <3>1. Bad \subseteq Nat
      BY <1>0
    <3> HIDE DEF Bad
    <3> QED BY <3>1, LeastOf
  <2>2. n # 0
    <3> SUFFICES ASSUME n = 0 PROVE FALSE
      OBVIOUS
    <3> DEFINE g == [k \in {0} |-> Ready]
    <3>1. g[0] = Ready /\ 1 .. 0 = {}
      OBVIOUS
    <3>2. RestsBy(g, s, 0)
      BY <3>1 DEF RestsBy
    <3> QED BY <3>2
  <2>3. n - 1 \in 0 .. N /\ n \in Nat /\ ~(n <= n - 1) /\ n \in 1 .. n /\ n - 1 \in Nat
    BY <1>0, <2>2
  <2>4. PICK f : RestsBy(f, s, n - 1)
    BY <2>1, <2>3
  <2> DEFINE g == [k \in 0 .. n |-> IF k = n THEN Advance(f[n - 1], s[n]) ELSE f[k]]
  <2>5. \A k \in 0 .. n : g[k] = IF k = n THEN Advance(f[n - 1], s[n]) ELSE f[k]
    OBVIOUS
  <2> HIDE DEF g
  <2>6. g[0] = Ready
    BY <2>2, <2>3, <2>4, <2>5 DEF RestsBy
  <2>7. ASSUME NEW k \in 1 .. n PROVE g[k] = Advance(g[k - 1], s[k])
    <3>1. k \in 0 .. n /\ k - 1 \in 0 .. n /\ k - 1 # n /\ (k # n => k \in 1 .. (n - 1))
      BY <2>3
    <3>2. g[k - 1] = f[k - 1]
      BY <2>5, <3>1
    <3>3. CASE k = n
      BY <2>5, <3>1, <3>2, <3>3
    <3>4. CASE k # n
      BY <2>4, <2>5, <3>1, <3>2, <3>4 DEF RestsBy
    <3> QED BY <3>3, <3>4
  <2>8. RestsBy(g, s, n)
    BY <2>6, <2>7 DEF RestsBy
  <2> QED BY <2>1, <2>8
<1>2. \E f : f = [k \in 0 .. N |-> Turn(f, k)]
  <2>1. PICK f : RestsBy(f, s, N)
    <3>1. N \in 0 .. N
      BY <1>0
    <3>2. N \notin Bad
      <4> HIDE DEF Bad
      <4> QED BY <1>1
    <3>3. \E f : RestsBy(f, s, N)
      BY <3>1, <3>2
    <3> QED BY <3>3
  <2> DEFINE g == [k \in 0 .. N |-> f[k]]
  <2>2. \A k \in 0 .. N : g[k] = f[k]
    OBVIOUS
  <2>3. ASSUME NEW k \in 0 .. N PROVE f[k] = Turn(g, k)
    <3>1. CASE k = 0
      BY <2>1, <3>1 DEF RestsBy
    <3>2. CASE k # 0
      <4>1. k \in 1 .. N /\ k - 1 \in 0 .. N
        BY <1>0, <3>2
      <4>2. f[k] = Advance(f[k - 1], s[k]) /\ g[k - 1] = f[k - 1]
        BY <2>1, <2>2, <4>1 DEF RestsBy
      <4> QED BY <3>2, <4>2
    <3> QED BY <3>1, <3>2
  <2> HIDE DEF Turn
  <2>4. g = [k \in 0 .. N |-> Turn(g, k)]
    BY <2>3
  <2> QED BY <2>4
<1>3. at = [k \in 0 .. N |-> Turn(at, k)]
  <2> HIDE DEF Turn
  <2> QED BY <1>2
<1>4. Resting(s) = at[N]
  BY DEF Resting, N
<1> HIDE DEF at
<1>5. at[0] = Ready
  BY <1>0, <1>3
<1>6. ASSUME NEW k \in 1 .. N PROVE at[k] = Advance(at[k - 1], s[k])
  <2>1. k \in 0 .. N /\ k # 0
    BY <1>0
  <2> QED BY <1>3, <2>1
<1>7. RestsBy(at, s, N)
  BY <1>5, <1>6 DEF RestsBy
<1> QED BY <1>4, <1>7 DEF N

LEMMA RestingLast ==
  ASSUME NEW S, NEW s \in Seq(S)
  PROVE  /\ s = <<>> => Resting(s) = Ready
         /\ s # <<>> => \E t : Resting(s) = Advance(t, s[Len(s)])
         /\ Len(s) = 1 => Resting(s) = Advance(Ready, s[1])
<1>1. PICK f : RestsBy(f, s, Len(s)) /\ Resting(s) = f[Len(s)]
  BY RestingFolds
<1>2. Len(s) \in Nat /\ (s = <<>> => Len(s) = 0) /\ (s # <<>> => Len(s) \in 1 .. Len(s))
  OBVIOUS
<1>3. ASSUME s # <<>> PROVE f[Len(s)] = Advance(f[Len(s) - 1], s[Len(s)])
  BY <1>1, <1>2, <1>3 DEF RestsBy
<1>4. f[0] = Ready
  BY <1>1 DEF RestsBy
<1>5. Len(s) = 1 => s # <<>> /\ Len(s) - 1 = 0
  OBVIOUS
<1> QED BY <1>1, <1>2, <1>3, <1>4, <1>5

EmitsBy(f, from, s, n) == f[0] = from /\ \A k \in 1 .. n : f[k] = Recording(f[k - 1], s[k])

LEMMA EmittedFolds ==
  ASSUME NEW S, NEW s \in Seq(S), NEW from
  PROVE  \E f : EmitsBy(f, from, s, Len(s)) /\ Emitted(from, s) = f[Len(s)]
<1> DEFINE N == Len(s)
           Turn(f, k) == IF k = 0 THEN from ELSE Recording(f[k - 1], s[k])
           Bad == {n \in 0 .. N : ~ \E f : EmitsBy(f, from, s, n)}
           after == CHOOSE f : f = [k \in 0 .. N |-> Turn(f, k)]
<1>0. N \in Nat
  OBVIOUS
<1> HIDE DEF N
<1>1. Bad = {}
  <2> SUFFICES ASSUME Bad # {} PROVE FALSE
    OBVIOUS
  <2>1. PICK n \in Bad : \A m \in Bad : n <= m
    <3>1. Bad \subseteq Nat
      BY <1>0
    <3> HIDE DEF Bad
    <3> QED BY <3>1, LeastOf
  <2>2. n # 0
    <3> SUFFICES ASSUME n = 0 PROVE FALSE
      OBVIOUS
    <3> DEFINE g == [k \in {0} |-> from]
    <3>1. g[0] = from /\ 1 .. 0 = {}
      OBVIOUS
    <3>2. EmitsBy(g, from, s, 0)
      BY <3>1 DEF EmitsBy
    <3> QED BY <3>2
  <2>3. n - 1 \in 0 .. N /\ n \in Nat /\ ~(n <= n - 1) /\ n \in 1 .. n /\ n - 1 \in Nat
    BY <1>0, <2>2
  <2>4. PICK f : EmitsBy(f, from, s, n - 1)
    BY <2>1, <2>3
  <2> DEFINE g == [k \in 0 .. n |-> IF k = n THEN Recording(f[n - 1], s[n]) ELSE f[k]]
  <2>5. \A k \in 0 .. n : g[k] = IF k = n THEN Recording(f[n - 1], s[n]) ELSE f[k]
    OBVIOUS
  <2> HIDE DEF g
  <2>6. g[0] = from
    BY <2>2, <2>3, <2>4, <2>5 DEF EmitsBy
  <2>7. ASSUME NEW k \in 1 .. n PROVE g[k] = Recording(g[k - 1], s[k])
    <3>1. k \in 0 .. n /\ k - 1 \in 0 .. n /\ k - 1 # n /\ (k # n => k \in 1 .. (n - 1))
      BY <2>3
    <3>2. g[k - 1] = f[k - 1]
      BY <2>5, <3>1
    <3>3. CASE k = n
      BY <2>5, <3>1, <3>2, <3>3
    <3>4. CASE k # n
      BY <2>4, <2>5, <3>1, <3>2, <3>4 DEF EmitsBy
    <3> QED BY <3>3, <3>4
  <2>8. EmitsBy(g, from, s, n)
    BY <2>6, <2>7 DEF EmitsBy
  <2> QED BY <2>1, <2>8
<1>2. \E f : f = [k \in 0 .. N |-> Turn(f, k)]
  <2>1. PICK f : EmitsBy(f, from, s, N)
    <3>1. N \in 0 .. N
      BY <1>0
    <3>2. N \notin Bad
      <4> HIDE DEF Bad
      <4> QED BY <1>1
    <3>3. \E f : EmitsBy(f, from, s, N)
      BY <3>1, <3>2
    <3> QED BY <3>3
  <2> DEFINE g == [k \in 0 .. N |-> f[k]]
  <2>2. \A k \in 0 .. N : g[k] = f[k]
    OBVIOUS
  <2>3. ASSUME NEW k \in 0 .. N PROVE f[k] = Turn(g, k)
    <3>1. CASE k = 0
      BY <2>1, <3>1 DEF EmitsBy
    <3>2. CASE k # 0
      <4>1. k \in 1 .. N /\ k - 1 \in 0 .. N
        BY <1>0, <3>2
      <4>2. f[k] = Recording(f[k - 1], s[k]) /\ g[k - 1] = f[k - 1]
        BY <2>1, <2>2, <4>1 DEF EmitsBy
      <4> QED BY <3>2, <4>2
    <3> QED BY <3>1, <3>2
  <2> HIDE DEF Turn
  <2>4. g = [k \in 0 .. N |-> Turn(g, k)]
    BY <2>3
  <2> QED BY <2>4
<1>3. after = [k \in 0 .. N |-> Turn(after, k)]
  <2> HIDE DEF Turn
  <2> QED BY <1>2
<1>4. Emitted(from, s) = after[N]
  BY DEF Emitted, N
<1> HIDE DEF after
<1>5. after[0] = from
  BY <1>0, <1>3
<1>6. ASSUME NEW k \in 1 .. N PROVE after[k] = Recording(after[k - 1], s[k])
  <2>1. k \in 0 .. N /\ k # 0
    BY <1>0
  <2> QED BY <1>3, <2>1
<1>7. EmitsBy(after, from, s, N)
  BY <1>5, <1>6 DEF EmitsBy
<1> QED BY <1>4, <1>7 DEF N

LEMMA EmittedFew ==
  ASSUME NEW S, NEW s \in Seq(S), NEW from
  PROVE  /\ s = <<>> => Emitted(from, s) = from
         /\ Len(s) = 1 => Emitted(from, s) = Recording(from, s[1])
<1>1. PICK f : EmitsBy(f, from, s, Len(s)) /\ Emitted(from, s) = f[Len(s)]
  BY EmittedFolds
<1>2. f[0] = from
  BY <1>1 DEF EmitsBy
<1>3. s = <<>> => Len(s) = 0
  OBVIOUS
<1>4. ASSUME Len(s) = 1 PROVE f[1] = Recording(f[0], s[1])
  <2>1. 1 \in 1 .. Len(s) /\ 1 - 1 = 0
    BY <1>4
  <2>2. f[1] = Recording(f[1 - 1], s[1])
    BY <1>1, <2>1 DEF EmitsBy
  <2> QED BY <2>1, <2>2
<1> QED BY <1>1, <1>2, <1>3, <1>4

-----------------------------------------------------------------------------
(* Contexts.  A context is whole when its turns and evictions are what cuts  *)
(* and withdrawals can make of them, one after the other.                    *)

Entry ==
  [kind : {"Steering"}] \cup [kind : {"UserPrompt", "Import"}, turn : Nat]
  \cup [kind : {"AssistantMessage"}, turn : Nat, pending : Seq(Nat)]
  \cup [kind : {"ToolResults"}, ids : Seq(Nat)]
Spans  == Nat \X Nat
Places == Spans \cup {Resident}
TurnRecord  == [id : Nat \ {0}, user : BOOLEAN, loc : Places, kept : BOOLEAN,
                at : Seq(Entry), records : Seq(Entry)]
CutRecord   == [span : Spans, loc : Places]
StateRecord == [at : {"ready", "afterUser", "afterResults", "awaiting"}, pending : Seq(Nat)]

Typed(c) == /\ c = [turns |-> c.turns, evictions |-> c.evictions, state |-> c.state]
            /\ c.turns \in Seq(TurnRecord) /\ c.evictions \in Seq(CutRecord) /\ c.state \in StateRecord

Sorted(c) == \A i, j \in DOMAIN c.turns : i < j => c.turns[i].id < c.turns[j].id

\* Nothing in the context owes a tool result but the turn being written.
Owing(t) == Resting(t.records).at = "awaiting"
Paid(c)  == \A i \in DOMAIN c.turns :
              c.turns[i].loc = Resident /\ Owing(c.turns[i]) => i = Len(c.turns) /\ c.state.at = "awaiting"
Asking(c) == c.state.at = "awaiting" => c.turns # <<>> /\ c.turns[Len(c.turns)].loc = Resident

\* An eviction lies from one turn to another, and both are withdrawn or none.
Lost(c, id) == \E i \in DOMAIN c.turns : c.turns[i].id = id /\ c.turns[i].loc = Withdrawn
Anchored(c) ==
  \A n \in DOMAIN c.evictions :
    LET s == c.evictions[n].span
    IN  /\ s[1] <= s[2] /\ s[1] \in Ids(c) /\ s[2] \in Ids(c)
        /\ Lost(c, s[1]) <=> Lost(c, s[2])

Apart(s, o) == s[2] < o[1] \/ o[2] < s[1]
Nested(c) ==
  \A m, n \in DOMAIN c.evictions :
    m < n => Within(c.evictions[m].span, c.evictions[n].span) \/ Apart(c.evictions[m].span, c.evictions[n].span)

\* What lies at `span` is in the context, or under the innermost of `later`.
HeldBy(span, later, loc) ==
  \/ loc = Resident /\ \A s \in later : ~Within(span, s)
  \/ loc \in later /\ Within(span, loc) /\ \A s \in later : Within(span, s) => Within(loc, s)
SpansFrom(c, n) == {c.evictions[m].span : m \in n .. Len(c.evictions)}
Placed(c) ==
  \A i \in DOMAIN c.turns :
    c.turns[i].loc = Withdrawn \/ HeldBy(Single(c.turns[i].id), SpansFrom(c, 1), c.turns[i].loc)
Lodged(c) ==
  \A n \in DOMAIN c.evictions :
    LET e == c.evictions[n]
    IN  IF Lost(c, e.span[1]) THEN e.loc = Withdrawn ELSE HeldBy(e.span, SpansFrom(c, n + 1), e.loc)

Whole(c) == /\ Typed(c) /\ Sorted(c) /\ Paid(c) /\ Asking(c)
            /\ Anchored(c) /\ Nested(c) /\ Placed(c) /\ Lodged(c)

LEMMA Elsewhere ==
  /\ Withdrawn \in Spans /\ Resident \in Places /\ Withdrawn \in Places
  /\ Resident # Withdrawn /\ \A s \in Spans : s # Resident
<1>1. \A a, b \in Nat : <<a, b>> # <<>>
  OBVIOUS
<1>2. \A s \in Spans : s = <<s[1], s[2]>> /\ s[1] \in Nat /\ s[2] \in Nat
  BY DEF Spans
<1>3. \A s \in Spans : s # Resident
  BY <1>1, <1>2 DEF Resident
<1>4. Withdrawn \in Spans
  BY DEF Withdrawn, Spans
<1> QED BY <1>3, <1>4 DEF Places

LEMMA IdsAre ==
  ASSUME NEW c
  PROVE  \A id : id \in Ids(c) <=> \E i \in DOMAIN c.turns : c.turns[i].id = id
BY DEF Ids, ToSet

LEMMA Fields ==
  ASSUME NEW c, Typed(c)
  PROVE  /\ Len(c.turns) \in Nat /\ DOMAIN c.turns = 1 .. Len(c.turns)
         /\ Len(c.evictions) \in Nat /\ DOMAIN c.evictions = 1 .. Len(c.evictions)
         /\ \A i \in DOMAIN c.turns :
              /\ c.turns[i] \in TurnRecord
              /\ c.turns[i].id \in Nat \ {0} /\ c.turns[i].loc \in Places /\ c.turns[i].kept \in BOOLEAN
              /\ c.turns[i].at \in Seq(Entry) /\ c.turns[i].records \in Seq(Entry)
         /\ \A n \in DOMAIN c.evictions :
              /\ c.evictions[n] \in CutRecord
              /\ c.evictions[n].span \in Spans /\ c.evictions[n].loc \in Places
              /\ c.evictions[n].span[1] \in Nat /\ c.evictions[n].span[2] \in Nat
         /\ c.state.at \in {"ready", "afterUser", "afterResults", "awaiting"} /\ c.state.pending \in Seq(Nat)
<1>1. c.turns \in Seq(TurnRecord) /\ c.evictions \in Seq(CutRecord) /\ c.state \in StateRecord
  BY DEF Typed
<1>2. \A i \in DOMAIN c.turns : c.turns[i] \in TurnRecord
  BY <1>1
<1>3. \A t \in TurnRecord : /\ t.id \in Nat \ {0} /\ t.loc \in Places /\ t.kept \in BOOLEAN
                            /\ t.at \in Seq(Entry) /\ t.records \in Seq(Entry)
  BY DEF TurnRecord
<1>4. \A n \in DOMAIN c.evictions : c.evictions[n] \in CutRecord
  BY <1>1
<1>5. \A e \in CutRecord : /\ e.span \in Spans /\ e.loc \in Places
                           /\ e.span[1] \in Nat /\ e.span[2] \in Nat
  BY DEF CutRecord, Spans
<1>6. c.state.at \in {"ready", "afterUser", "afterResults", "awaiting"} /\ c.state.pending \in Seq(Nat)
  BY <1>1 DEF StateRecord
<1>7. /\ Len(c.turns) \in Nat /\ DOMAIN c.turns = 1 .. Len(c.turns)
      /\ Len(c.evictions) \in Nat /\ DOMAIN c.evictions = 1 .. Len(c.evictions)
  BY <1>1
<1> QED BY <1>2, <1>3, <1>4, <1>5, <1>6, <1>7

\* What cuts and withdrawals made of a context, which a new record leaves alone.
Laid(c) == Sorted(c) /\ Anchored(c) /\ Nested(c) /\ Placed(c) /\ Lodged(c)

LEMMA NewTurnsLie ==
  ASSUME NEW c, NEW d, Typed(c), Laid(c), Typed(d), d.evictions = c.evictions,
         Len(d.turns) = Len(c.turns) \/ Len(d.turns) = Len(c.turns) + 1,
         \A i \in DOMAIN c.turns : d.turns[i].id = c.turns[i].id /\ d.turns[i].loc = c.turns[i].loc,
         \A i \in DOMAIN d.turns \ DOMAIN c.turns :
           d.turns[i].loc = Resident /\ \A j \in DOMAIN c.turns : c.turns[j].id < d.turns[i].id
  PROVE  Laid(d)
<1> DEFINE n == Len(c.turns)
<1>0. /\ n \in Nat /\ DOMAIN c.turns = 1 .. n /\ DOMAIN c.turns \subseteq DOMAIN d.turns
      /\ DOMAIN d.turns = 1 .. n \/ DOMAIN d.turns = 1 .. (n + 1)
      /\ \A i \in DOMAIN d.turns \ DOMAIN c.turns : i = n + 1
      /\ \A i \in DOMAIN d.turns : d.turns[i].id \in Nat /\ i \in Nat
      /\ \A i \in DOMAIN c.turns : c.turns[i].id \in Nat
  BY Fields
<1> HIDE DEF n
<1>1. \A id : Lost(d, id) <=> Lost(c, id)
  BY <1>0, Elsewhere DEF Lost
<1>2. \A id : id \in Ids(c) => id \in Ids(d)
  <2>1. \A id : id \in Ids(c) <=> \E i \in DOMAIN c.turns : c.turns[i].id = id
    BY IdsAre
  <2>2. \A id : id \in Ids(d) <=> \E i \in DOMAIN d.turns : d.turns[i].id = id
    BY IdsAre
  <2> QED BY <1>0, <2>1, <2>2
<1>3. \A k : SpansFrom(d, k) = SpansFrom(c, k)
  BY DEF SpansFrom
<1>4. Sorted(d)
  BY <1>0 DEF Laid, Sorted
<1>5. Anchored(d)
  BY <1>1, <1>2 DEF Laid, Anchored
<1>6. Nested(d)
  BY DEF Laid, Nested
<1>7. Lodged(d)
  BY <1>1, <1>3 DEF Laid, Lodged
<1>8. ASSUME NEW i \in DOMAIN d.turns
      PROVE  d.turns[i].loc = Withdrawn \/ HeldBy(Single(d.turns[i].id), SpansFrom(d, 1), d.turns[i].loc)
  <2>1. CASE i \in DOMAIN c.turns
    <3>1. d.turns[i].id = c.turns[i].id /\ d.turns[i].loc = c.turns[i].loc
      BY <2>1
    <3> QED BY <1>3, <2>1, <3>1 DEF Laid, Placed
  <2>2. CASE i \notin DOMAIN c.turns
    <3>1. ASSUME NEW s \in SpansFrom(c, 1) PROVE ~Within(Single(d.turns[i].id), s)
      <4>1. PICK m \in DOMAIN c.evictions : s = c.evictions[m].span
        BY Fields DEF SpansFrom
      <4>2. s[2] \in Ids(c)
        BY <4>1 DEF Laid, Anchored
      <4>3. PICK j \in DOMAIN c.turns : c.turns[j].id = s[2]
        BY <4>2, IdsAre
      <4>4. s[2] < d.turns[i].id /\ s[2] \in Nat
        BY <1>0, <2>2, <4>3
      <4>5. Single(d.turns[i].id)[2] = d.turns[i].id
        BY DEF Single
      <4> QED BY <1>0, <4>4, <4>5 DEF Within
    <3> QED BY <1>3, <2>2, <3>1 DEF HeldBy
  <2> QED BY <2>1, <2>2
<1> QED BY <1>4, <1>5, <1>6, <1>7, <1>8 DEF Laid, Placed

LEMMA EntryKinds ==
  ASSUME NEW r \in Entry
  PROVE  /\ r.kind \in {"Steering", "UserPrompt", "Import", "AssistantMessage", "ToolResults"}
         /\ r.kind \in {"UserPrompt", "Import", "AssistantMessage"} => r.turn \in Nat
         /\ r.kind = "AssistantMessage" => r.pending \in Seq(Nat)
         /\ r.kind = "ToolResults" => r.ids \in Seq(Nat)
BY DEF Entry

LEMMA AdvanceIs ==
  ASSUME NEW s \in StateRecord, NEW r \in Entry
  PROVE  /\ Advance(s, r) \in StateRecord
         /\ r.kind \in {"Steering", "UserPrompt"} => Advance(s, r).at = "afterUser"
         /\ r.kind = "ToolResults" => Advance(s, r).at = "afterResults"
         /\ r.kind = "Import" => Advance(s, r) = s
         /\ r.kind = "AssistantMessage" =>
              /\ r.pending = <<>> => Advance(s, r).at = "ready"
              /\ r.pending # <<>> => Advance(s, r).at = "awaiting"
              /\ Advance(s, r).pending = r.pending
<1>0. r.kind \in {"Steering", "UserPrompt", "Import", "AssistantMessage", "ToolResults"} /\ <<>> \in Seq(Nat)
  BY EntryKinds
<1>1. CASE r.kind \in {"Steering", "UserPrompt"}
  <2>1. Advance(s, r) = [at |-> "afterUser", pending |-> <<>>]
    BY <1>1 DEF Advance
  <2> QED BY <1>0, <1>1, <2>1 DEF StateRecord
<1>2. CASE r.kind = "ToolResults"
  <2>1. Advance(s, r) = [at |-> "afterResults", pending |-> <<>>]
    BY <1>2 DEF Advance
  <2> QED BY <1>0, <1>2, <2>1 DEF StateRecord
<1>3. CASE r.kind = "Import"
  BY <1>3 DEF Advance
<1>4. CASE r.kind = "AssistantMessage"
  <2>1. Advance(s, r) = [at |-> IF r.pending = <<>> THEN "ready" ELSE "awaiting", pending |-> r.pending]
    BY <1>4 DEF Advance
  <2>2. r.pending \in Seq(Nat)
    BY <1>4, EntryKinds
  <2> QED BY <1>4, <2>1, <2>2 DEF StateRecord
<1> QED BY <1>0, <1>1, <1>2, <1>3, <1>4

\* A record that opens a turn, its turn and its step.
Fresh(r, u) == [id |-> r.turn, user |-> u, loc |-> Resident, kept |-> FALSE,
                at |-> <<>>, records |-> <<r>>]
Opened(c, r, u) == [turns |-> Append(c.turns, Fresh(r, u)), evictions |-> c.evictions,
                    state |-> Advance(c.state, r)]

LEMMA OpeningIs ==
  ASSUME NEW c, Typed(c), NEW r \in Entry, r.kind \in {"UserPrompt", "Import", "AssistantMessage"}
  PROVE  Step(c, r) = Opened(c, r, r.kind # "AssistantMessage")
<1> DEFINE u == r.kind # "AssistantMessage"
           on == [c EXCEPT !.state = Advance(@, r)]
           bare == [id |-> r.turn, user |-> u, loc |-> Resident, kept |-> FALSE, at |-> <<>>, records |-> <<>>]
           d == Open(on, r.turn, u)
<1>1. Step(c, r) = Absorb(d, r)
  BY DEF Step
<1>2. on = [turns |-> c.turns, evictions |-> c.evictions, state |-> Advance(c.state, r)]
  BY DEF Typed
<1> HIDE DEF on
<1>3. d = [turns |-> Append(c.turns, bare), evictions |-> c.evictions, state |-> Advance(c.state, r)]
  <2>1. d = [on EXCEPT !.turns = Append(@, bare)]
    BY DEF Open
  <2> HIDE DEF bare, d
  <2> QED BY <1>2, <2>1
<1> HIDE DEF d, u
<1>4. Told(bare, r) = Fresh(r, u)
  <2>1. \A i, v, l, k, a, x, y :
          [[id |-> i, user |-> v, loc |-> l, kept |-> k, at |-> a, records |-> x] EXCEPT !.records = y]
            = [id |-> i, user |-> v, loc |-> l, kept |-> k, at |-> a, records |-> y]
    OBVIOUS
  <2>2. Append(<<>>, r) = <<r>> /\ bare.records = <<>>
    OBVIOUS
  <2>3. Told(bare, r) = [bare EXCEPT !.records = <<r>>]
    <3> HIDE DEF bare
    <3> QED BY <2>2 DEF Told
  <2> QED BY <2>1, <2>3, Zenon DEF Fresh
<1> DEFINE S == TurnRecord \cup {bare, Fresh(r, u)}
           ts == Append(c.turns, bare)
           gs == Append(c.turns, Fresh(r, u))
           n == Len(c.turns)
<1>5. c.turns \in Seq(S) /\ bare \in S /\ Fresh(r, u) \in S /\ n \in Nat
  <2>1. c.turns \in Seq(TurnRecord)
    BY DEF Typed
  <2> HIDE DEF bare
  <2> QED BY <2>1
<1> HIDE DEF bare, S
<1>6. /\ ts \in Seq(S) /\ Len(ts) = n + 1 /\ ts[n + 1] = bare
      /\ gs \in Seq(S) /\ Len(gs) = n + 1
      /\ \A i \in 1 .. (n + 1) : gs[i] = IF i = n + 1 THEN Fresh(r, u) ELSE ts[i]
  BY <1>5
<1> HIDE DEF ts, gs, n
<1>7. [ts EXCEPT ![n + 1] = Fresh(r, u)] = gs
  <2>1. ts \in [1 .. (n + 1) -> S] /\ gs \in [1 .. (n + 1) -> S]
    <3>1. ts \in [1 .. Len(ts) -> S] /\ gs \in [1 .. Len(gs) -> S]
      BY <1>6
    <3> QED BY <1>6, <3>1
  <2> DEFINE f == [ts EXCEPT ![n + 1] = Fresh(r, u)]
  <2>2. f \in [1 .. (n + 1) -> S] /\ \A i \in 1 .. (n + 1) : f[i] = IF i = n + 1 THEN Fresh(r, u) ELSE ts[i]
    BY <1>5, <2>1
  <2> HIDE DEF f
  <2>3. f = gs
    BY <1>6, <2>1, <2>2
  <2> QED BY <2>3 DEF f
<1>8. Absorb(d, r) = [turns |-> gs, evictions |-> c.evictions, state |-> Advance(c.state, r)]
  <2>1. d.turns = ts /\ d.turns[n + 1] = bare /\ Len(d.turns) = n + 1
    BY <1>3, <1>6 DEF ts
  <2>2. Absorb(d, r) = [d EXCEPT !.turns = [ts EXCEPT ![n + 1] = Fresh(r, u)]]
    BY <1>4, <2>1 DEF Absorb
  <2>3. Absorb(d, r) = [d EXCEPT !.turns = gs]
    BY <1>7, <2>2
  <2> QED BY <1>3, <2>3
<1> QED BY <1>1, <1>8 DEF Opened, u, gs

LEMMA FreshTyped ==
  ASSUME NEW r \in Entry, r.turn \in Nat \ {0}, NEW u \in BOOLEAN
  PROVE  Fresh(r, u) \in TurnRecord
<1>1. <<r>> \in Seq(Entry) /\ <<>> \in Seq(Entry)
  OBVIOUS
<1> QED BY <1>1, Elsewhere DEF Fresh, TurnRecord

LEMMA OpeningKeepsWhole ==
  ASSUME NEW c, Whole(c), NEW r \in Entry, r.kind \in {"UserPrompt", "Import", "AssistantMessage"},
         AdmitsNewTurn(c.state), r.turn > Reach(c), NEW u \in BOOLEAN
  PROVE  Whole(Opened(c, r, u))
<1> DEFINE d == Opened(c, r, u)
           n == Len(c.turns)
<1>0. Typed(c) /\ Laid(c) /\ Paid(c) /\ c.state \in StateRecord /\ c.turns \in Seq(TurnRecord) /\ n \in Nat
      /\ c.evictions \in Seq(CutRecord) /\ DOMAIN c.turns = 1 .. n /\ c.state.at # "awaiting"
  BY Fields DEF Whole, Laid, Typed, AdmitsNewTurn
<1>1. r.turn \in Nat \ {0} /\ \A j \in DOMAIN c.turns : c.turns[j].id < r.turn
  <2>0. r.turn \in Nat
    BY EntryKinds
  <2>1. CASE c.turns = <<>>
    BY <2>0, <2>1 DEF Reach
  <2>2. CASE c.turns # <<>>
    <3>1. n \in DOMAIN c.turns /\ c.turns[n].id < r.turn
      BY <1>0, <2>0, <2>2, Fields DEF Reach, Last
    <3>2. \A j \in DOMAIN c.turns : j < n => c.turns[j].id < c.turns[n].id
      BY <1>0, <3>1 DEF Laid, Sorted
    <3>3. \A j \in DOMAIN c.turns : c.turns[j].id \in Nat
      BY <1>0, Fields
    <3> QED BY <1>0, <2>0, <3>1, <3>2, <3>3
  <2> QED BY <2>1, <2>2
<1>2. Fresh(r, u) \in TurnRecord
  BY <1>1, FreshTyped
<1>3. d.turns = Append(c.turns, Fresh(r, u)) /\ d.evictions = c.evictions /\ d.state = Advance(c.state, r)
  BY DEF Opened
<1>4. /\ d.turns \in Seq(TurnRecord) /\ Len(d.turns) = n + 1 /\ DOMAIN d.turns = 1 .. (n + 1)
      /\ \A i \in 1 .. n : d.turns[i] = c.turns[i]
      /\ d.turns[n + 1] = Fresh(r, u)
  BY <1>0, <1>2, <1>3
<1>5. Typed(d)
  <2>1. Advance(c.state, r) \in StateRecord
    BY <1>0, AdvanceIs
  <2> QED BY <1>0, <1>3, <1>4, <2>1 DEF Typed, Opened
<1> HIDE DEF d
<1>6. Laid(d)
  <2>1. Fresh(r, u).loc = Resident /\ Fresh(r, u).id = r.turn
    BY DEF Fresh
  <2>2. \A i \in DOMAIN c.turns : d.turns[i].id = c.turns[i].id /\ d.turns[i].loc = c.turns[i].loc
    BY <1>0, <1>4
  <2>3. \A i \in DOMAIN d.turns \ DOMAIN c.turns :
          d.turns[i].loc = Resident /\ \A j \in DOMAIN c.turns : c.turns[j].id < d.turns[i].id
    <3>1. \A i \in DOMAIN d.turns \ DOMAIN c.turns : i = n + 1
      BY <1>0, <1>4
    <3> QED BY <1>1, <1>4, <2>1, <3>1
  <2>4. Len(d.turns) = Len(c.turns) + 1
    BY <1>4
  <2> QED BY <1>0, <1>3, <1>5, <2>2, <2>3, <2>4, NewTurnsLie
<1>7. Paid(d)
  <2> SUFFICES ASSUME NEW i \in DOMAIN d.turns, d.turns[i].loc = Resident, Owing(d.turns[i])
               PROVE  i = Len(d.turns) /\ d.state.at = "awaiting"
    BY DEF Paid
  <2>1. CASE i \in 1 .. n
    BY <1>0, <1>4, <2>1 DEF Paid
  <2>2. CASE i = n + 1
    <3>1. Fresh(r, u).records = <<r>>
      BY DEF Fresh
    <3>2. <<r>> \in Seq(Entry) /\ Len(<<r>>) = 1 /\ <<r>>[1] = r
      OBVIOUS
    <3>3. Resting(<<r>>) = Advance(Ready, r)
      BY <3>2, RestingLast
    <3>4. Advance(Ready, r).at = "awaiting"
      BY <1>4, <2>2, <3>1, <3>3 DEF Owing
    <3>5. Ready \in StateRecord /\ Ready.at # "awaiting"
      BY DEF Ready, StateRecord
    <3>6. Advance(c.state, r).at = "awaiting"
      BY <1>0, <3>4, <3>5, AdvanceIs
    <3> QED BY <1>3, <1>4, <2>2, <3>6
  <2> QED BY <1>0, <1>4, <2>1, <2>2
<1>8. Asking(d)
  <2>1. Fresh(r, u).loc = Resident
    BY DEF Fresh
  <2>2. d.turns # <<>>
    BY <1>0, <1>4
  <2> QED BY <1>4, <2>1, <2>2 DEF Asking
<1> QED BY <1>5, <1>6, <1>7, <1>8 DEF Whole, Laid, d

\* A record that joins the newest turn.
Extended(c, r) == [turns |-> [c.turns EXCEPT ![Len(c.turns)] = Told(c.turns[Len(c.turns)], r)],
                   evictions |-> c.evictions, state |-> Advance(c.state, r)]

LEMMA ExtendingIs ==
  ASSUME NEW c, Typed(c), NEW r \in Entry, r.kind \in {"Steering", "ToolResults"}
  PROVE  Step(c, r) = Extended(c, r)
<1> DEFINE on == [c EXCEPT !.state = Advance(@, r)]
           new == [c.turns EXCEPT ![Len(c.turns)] = Told(c.turns[Len(c.turns)], r)]
<1>1. Step(c, r) = Absorb(on, r)
  BY DEF Step
<1>2. on = [turns |-> c.turns, evictions |-> c.evictions, state |-> Advance(c.state, r)]
  BY DEF Typed
<1> HIDE DEF on
<1>3. on.turns = c.turns
  BY <1>2
<1>4. Absorb(on, r) = [on EXCEPT !.turns = new]
  BY <1>3 DEF Absorb
<1> HIDE DEF new
<1>5. [on EXCEPT !.turns = new] = [turns |-> new, evictions |-> c.evictions, state |-> Advance(c.state, r)]
  BY <1>2
<1> QED BY <1>1, <1>4, <1>5 DEF new, Extended

LEMMA ExtendingKeepsWhole ==
  ASSUME NEW c, Whole(c), NEW r \in Entry, r.kind \in {"Steering", "ToolResults"}, c.turns # <<>>
  PROVE  Whole(Extended(c, r))
<1> DEFINE d == Extended(c, r)
           n == Len(c.turns)
           t == c.turns[n]
           rs == Append(t.records, r)
<1>0. Typed(c) /\ Laid(c) /\ Paid(c) /\ c.state \in StateRecord /\ c.turns \in Seq(TurnRecord) /\ n \in Nat
      /\ c.evictions \in Seq(CutRecord) /\ DOMAIN c.turns = 1 .. n /\ n \in DOMAIN c.turns
  BY Fields DEF Whole, Laid, Typed
<1>1. t \in TurnRecord /\ t.records \in Seq(Entry)
  BY <1>0, Fields
<1>2. /\ rs \in Seq(Entry) /\ rs # <<>> /\ rs[Len(rs)] = r
  BY <1>1
<1>3. /\ Told(t, r) \in TurnRecord /\ Told(t, r).id = t.id /\ Told(t, r).loc = t.loc
      /\ Told(t, r).records = rs
  BY <1>1, <1>2 DEF Told, TurnRecord
<1>4. d.turns = [c.turns EXCEPT ![n] = Told(t, r)] /\ d.evictions = c.evictions /\ d.state = Advance(c.state, r)
  BY DEF Extended
<1> HIDE DEF t, rs
<1>5. /\ d.turns \in Seq(TurnRecord) /\ Len(d.turns) = n /\ DOMAIN d.turns = 1 .. n
      /\ \A i \in 1 .. n : i # n => d.turns[i] = c.turns[i]
      /\ d.turns[n] = Told(t, r)
  BY <1>0, <1>3, <1>4
<1>6. Advance(c.state, r) \in StateRecord /\ Advance(c.state, r).at # "awaiting"
  BY <1>0, AdvanceIs
<1>7. Typed(d)
  BY <1>0, <1>4, <1>5, <1>6 DEF Typed, Extended
<1> HIDE DEF d
<1>8. Laid(d)
  <2>1. \A i \in DOMAIN c.turns : d.turns[i].id = c.turns[i].id /\ d.turns[i].loc = c.turns[i].loc
    BY <1>0, <1>3, <1>5 DEF t
  <2> QED BY <1>0, <1>4, <1>5, <1>7, <2>1, NewTurnsLie
<1>9. ~Owing(Told(t, r))
  <2>1. PICK s : Resting(rs) = Advance(s, r)
    BY <1>2, RestingLast
  <2>2. Advance(s, r).at # "awaiting"
    BY DEF Advance
  <2> QED BY <1>3, <2>1, <2>2 DEF Owing
<1>10. Paid(d)
  <2>1. \A i \in 1 .. n : i # n => ~(c.turns[i].loc = Resident /\ Owing(c.turns[i]))
    BY <1>0 DEF Paid
  <2> QED BY <1>5, <1>9, <2>1 DEF Paid
<1>11. Asking(d)
  BY <1>4, <1>6 DEF Asking
<1> QED BY <1>7, <1>8, <1>10, <1>11 DEF Whole, Laid, d

-----------------------------------------------------------------------------
(* Evictions. *)

LEMMA HeldMore ==
  ASSUME NEW x \in Spans, x[1] <= x[2], NEW span \in Spans, NEW later, later \subseteq Spans,
         \A s \in later : Within(s, span) \/ Apart(s, span),
         NEW loc, HeldBy(x, later, loc)
  PROVE  HeldBy(x, later \cup {span}, IF Within(x, span) /\ loc = Resident THEN span ELSE loc)
<1>0. /\ x[1] \in Nat /\ x[2] \in Nat /\ span[1] \in Nat /\ span[2] \in Nat
      /\ \A s \in later : s[1] \in Nat /\ s[2] \in Nat
  BY DEF Spans
<1>1. CASE loc = Resident /\ \A s \in later : ~Within(x, s)
  <2>1. CASE Within(x, span)
    <3>1. Within(span, span)
      BY <1>0 DEF Within
    <3> QED BY <1>1, <2>1, <3>1 DEF HeldBy
  <2>2. CASE ~Within(x, span)
    BY <1>1, <2>2 DEF HeldBy
  <2> QED BY <2>1, <2>2
<1>2. CASE loc \in later /\ Within(x, loc) /\ \A s \in later : Within(x, s) => Within(loc, s)
  <2>1. loc # Resident
    BY <1>2, Elsewhere
  <2>2. Within(x, span) => Within(loc, span)
    BY <1>0, <1>2 DEF Within, Apart
  <2> QED BY <1>2, <2>1, <2>2 DEF HeldBy
<1> QED BY <1>1, <1>2 DEF HeldBy

LEMMA RowIs ==
  ASSUME NEW c, Typed(c), Sorted(c), NEW i \in DOMAIN c.turns
  PROVE  Row(c, c.turns[i].id) = c.turns[i]
<1>1. \A j \in DOMAIN c.turns : c.turns[j].id = c.turns[i].id => j = i
  BY Fields DEF Sorted
<1>2. \A t \in ToSet(c.turns) : t.id = c.turns[i].id => t = c.turns[i]
  BY <1>1 DEF ToSet
<1>3. c.turns[i] \in ToSet(c.turns)
  BY DEF ToSet
<1> QED BY <1>2, <1>3 DEF Row

LEMMA StraddledIs ==
  ASSUME NEW c, NEW id
  PROVE  Straddled(c, id) <=> \E n \in DOMAIN c.evictions : c.evictions[n].span[1] < id /\ id <= c.evictions[n].span[2]
BY DEF Straddled, ToSet

\* What a cut needs of the context it cuts.
Cuttable(c, span) ==
  /\ span \in Spans /\ span[1] <= span[2] /\ span # Withdrawn
  /\ span[1] \in Ids(c) /\ span[2] \in Ids(c) /\ ~Lost(c, span[1]) /\ ~Lost(c, span[2])
  /\ \A s \in SpansFrom(c, 1) : Within(s, span) \/ Apart(s, span)
  /\ c.state.at = "awaiting" => ~Within(Single(c.turns[Len(c.turns)].id), span)

LEMMA CutsHold ==
  ASSUME NEW c, Whole(c), NEW span \in Spans, span[1] <= span[2], CutHolds(c, span)
  PROVE  Cuttable(c, span)
<1>0. Typed(c) /\ Sorted(c) /\ Anchored(c)
  BY DEF Whole
<1>1. \A id : id \in Ids(c) <=> \E i \in DOMAIN c.turns : c.turns[i].id = id
  BY IdsAre
<1>2. span[1] \in Ids(c) /\ span[2] \in Ids(c)
  BY DEF CutHolds
<1>3. ASSUME NEW id \in {span[1], span[2]} PROVE ~Lost(c, id)
  <2>1. Row(c, id).loc # Withdrawn
    BY DEF CutHolds
  <2>2. \A i \in DOMAIN c.turns : c.turns[i].id = id => c.turns[i].loc # Withdrawn
    BY <1>0, <2>1, RowIs
  <2> QED BY <2>2 DEF Lost
<1>4. span # Withdrawn
  <2>1. PICK i \in DOMAIN c.turns : c.turns[i].id = span[1]
    BY <1>1, <1>2
  <2>2. span[1] # 0
    BY <1>0, <2>1, Fields
  <2> QED BY <2>2 DEF Withdrawn
<1>5. ASSUME NEW s \in SpansFrom(c, 1) PROVE Within(s, span) \/ Apart(s, span)
  <2>1. PICK n \in DOMAIN c.evictions : s = c.evictions[n].span
    BY <1>0, Fields DEF SpansFrom
  <2>2. s[1] \in Nat /\ s[2] \in Nat /\ span[1] \in Nat /\ span[2] \in Nat /\ s[1] <= s[2]
    BY <1>0, <2>1, Fields DEF Anchored, Spans
  <2>3. ~(s[1] < span[1] /\ span[1] <= s[2]) /\ ~(s[1] < span[2] + 1 /\ span[2] + 1 <= s[2])
    BY <2>1, StraddledIs DEF CutHolds
  <2> QED BY <2>2, <2>3 DEF Within, Apart
<1>6. ASSUME c.state.at = "awaiting" PROVE ~Within(Single(c.turns[Len(c.turns)].id), span)
  <2>1. c.turns # <<>> /\ c.turns[Len(c.turns)].loc = Resident
    BY <1>6 DEF Whole, Asking
  <2>2. UnclosedTurn(c) = c.turns[Len(c.turns)].id
    BY <1>6, <2>1 DEF UnclosedTurn, Last
  <2>3. c.turns[Len(c.turns)].id # 0
    BY <1>0, <2>1, Fields
  <2> QED BY <2>2, <2>3 DEF CutHolds
<1> QED BY <1>2, <1>3, <1>4, <1>5, <1>6 DEF Cuttable

\* The step of a cut, item by item.
CutTurn(t, span) == IF Within(Single(t.id), span) /\ t.loc = Resident THEN Left(t, span) ELSE t
CutCut(e, span)  == IF Within(e.span, span) /\ e.loc = Resident THEN [e EXCEPT !.loc = span] ELSE e
CutTo(c, span) ==
  [turns |-> [i \in DOMAIN c.turns |-> CutTurn(c.turns[i], span)],
   evictions |-> Append([n \in DOMAIN c.evictions |-> CutCut(c.evictions[n], span)],
                        [span |-> span, loc |-> Resident]),
   state |-> c.state]

LEMMA CuttingIs ==
  ASSUME NEW c, Typed(c), NEW r, r.kind = "Evicted", r.span # Withdrawn
  PROVE  Step(c, r) = CutTo(c, r.span)
<1> DEFINE on == [c EXCEPT !.state = Advance(@, r)]
           span == r.span
           ts == [i \in DOMAIN c.turns |-> CutTurn(c.turns[i], span)]
           es == [n \in DOMAIN c.evictions |-> CutCut(c.evictions[n], span)]
           d == Depart(c, LAMBDA s : Within(s, span), span)
<1>1. on = c
  <2>1. Advance(c.state, r) = c.state
    BY DEF Advance
  <2> QED BY <2>1 DEF Typed
<1>2. Step(c, r) = Evict(on, span)
  BY DEF Step
<1> HIDE DEF on
<1>3. d = [c EXCEPT !.turns = ts, !.evictions = es]
  BY DEF Depart, CutTurn, CutCut
<1>4. Evict(c, span) = [d EXCEPT !.evictions = Append(@, [span |-> span, loc |-> Resident])]
  BY DEF Evict
<1> HIDE DEF d, ts, es
<1>5. d = [turns |-> ts, evictions |-> es, state |-> c.state]
  BY <1>3 DEF Typed
<1>6. Evict(c, span) = [turns |-> ts, evictions |-> Append(es, [span |-> span, loc |-> Resident]), state |-> c.state]
  BY <1>4, <1>5
<1> QED BY <1>1, <1>2, <1>6 DEF CutTo, ts, es

LEMMA CutTurnIs ==
  ASSUME NEW t \in TurnRecord, NEW span \in Spans
  PROVE  /\ CutTurn(t, span) \in TurnRecord /\ CutTurn(t, span).id = t.id
         /\ CutTurn(t, span).loc = IF Within(Single(t.id), span) /\ t.loc = Resident THEN span ELSE t.loc
         /\ CutTurn(t, span).loc = Resident => CutTurn(t, span) = t
         /\ CutTurn(t, span).user = t.user /\ Address(CutTurn(t, span)) = Address(t)
<1>0. span # Resident /\ span \in Places /\ <<>> \in Seq(Entry)
  BY Elsewhere DEF Places
<1>1. CASE Within(Single(t.id), span) /\ t.loc = Resident
  <2>1. CutTurn(t, span) = Left(t, span)
    BY <1>1 DEF CutTurn
  <2>2. Address(t) \in Seq(Entry)
    BY DEF Address, TurnRecord
  <2>3. Left(t, span) \in TurnRecord /\ Left(t, span).id = t.id /\ Left(t, span).loc = span
        /\ Left(t, span).user = t.user /\ Left(t, span).kept = TRUE /\ Left(t, span).at = Address(t)
    BY <1>0, <2>2 DEF Left, TurnRecord
  <2>4. Address(Left(t, span)) = Address(t)
    BY <2>3 DEF Address
  <2> QED BY <1>0, <1>1, <2>1, <2>3, <2>4
<1>2. CASE ~(Within(Single(t.id), span) /\ t.loc = Resident)
  <2>1. CutTurn(t, span) = t
    BY <1>2 DEF CutTurn
  <2> QED BY <1>2, <2>1
<1> QED BY <1>1, <1>2

LEMMA CutCutIs ==
  ASSUME NEW e \in CutRecord, NEW span \in Spans
  PROVE  /\ CutCut(e, span) \in CutRecord /\ CutCut(e, span).span = e.span
         /\ CutCut(e, span).loc = IF Within(e.span, span) /\ e.loc = Resident THEN span ELSE e.loc
BY Elsewhere DEF CutCut, CutRecord, Places

LEMMA CuttingKeepsWhole ==
  ASSUME NEW c, Whole(c), NEW span, Cuttable(c, span)
  PROVE  Whole(CutTo(c, span))
<1> DEFINE d == CutTo(c, span)
           n == Len(c.turns)
           k == Len(c.evictions)
           new == [span |-> span, loc |-> Resident]
<1>0. /\ Typed(c) /\ n \in Nat /\ DOMAIN c.turns = 1 .. n /\ k \in Nat /\ DOMAIN c.evictions = 1 .. k
      /\ c.turns \in Seq(TurnRecord) /\ c.evictions \in Seq(CutRecord) /\ c.state \in StateRecord
      /\ \A i \in 1 .. n : c.turns[i] \in TurnRecord /\ c.turns[i].id \in Nat
      /\ \A m \in 1 .. k : c.evictions[m] \in CutRecord /\ c.evictions[m].span \in Spans
      /\ span \in Spans /\ span # Withdrawn /\ span[1] <= span[2]
  BY Fields DEF Whole, Typed, Cuttable
<1>1. new \in CutRecord
  BY <1>0, Elsewhere DEF CutRecord
<1> HIDE DEF n, k, new
<1>2. /\ d.turns \in Seq(TurnRecord) /\ Len(d.turns) = n /\ DOMAIN d.turns = 1 .. n
      /\ \A i \in 1 .. n : d.turns[i] = CutTurn(c.turns[i], span)
  <2>1. d.turns = [i \in 1 .. n |-> CutTurn(c.turns[i], span)]
    BY <1>0 DEF CutTo
  <2>2. \A i \in 1 .. n : CutTurn(c.turns[i], span) \in TurnRecord
    BY <1>0, CutTurnIs
  <2> HIDE DEF d
  <2> QED BY <1>0, <2>1, <2>2
<1>3. /\ d.evictions \in Seq(CutRecord) /\ Len(d.evictions) = k + 1 /\ DOMAIN d.evictions = 1 .. (k + 1)
      /\ \A m \in 1 .. k : d.evictions[m] = CutCut(c.evictions[m], span)
      /\ d.evictions[k + 1] = new
  <2> DEFINE es == [m \in 1 .. k |-> CutCut(c.evictions[m], span)]
  <2>1. d.evictions = Append(es, new)
    BY <1>0 DEF CutTo, new
  <2>2. \A m \in 1 .. k : CutCut(c.evictions[m], span) \in CutRecord
    BY <1>0, CutCutIs
  <2>3. es \in Seq(CutRecord) /\ Len(es) = k /\ \A m \in 1 .. k : es[m] = CutCut(c.evictions[m], span)
    BY <1>0, <2>2
  <2> HIDE DEF d, es
  <2> QED BY <1>0, <1>1, <2>1, <2>3
<1>4. d.state = c.state
  BY DEF CutTo
<1>5. Typed(d)
  BY <1>0, <1>2, <1>3, <1>4 DEF Typed, CutTo
<1> HIDE DEF d
<1>6. \A i \in 1 .. n :
        /\ d.turns[i].id = c.turns[i].id
        /\ d.turns[i].loc = IF Within(Single(c.turns[i].id), span) /\ c.turns[i].loc = Resident THEN span ELSE c.turns[i].loc
        /\ d.turns[i].loc = Resident => d.turns[i] = c.turns[i]
  BY <1>0, <1>2, CutTurnIs
<1>7. \A m \in 1 .. k :
        /\ d.evictions[m].span = c.evictions[m].span
        /\ d.evictions[m].loc = IF Within(c.evictions[m].span, span) /\ c.evictions[m].loc = Resident
                                THEN span ELSE c.evictions[m].loc
  <2> TAKE m \in 1 .. k
  <2>1. c.evictions[m] \in CutRecord /\ span \in Spans
    BY <1>0
  <2>2. d.evictions[m] = CutCut(c.evictions[m], span)
    BY <1>3
  <2> QED BY <2>1, <2>2, CutCutIs
<1>8. d.evictions[k + 1].span = span /\ d.evictions[k + 1].loc = Resident
  BY <1>3 DEF new
<1>9. \A id : Lost(d, id) <=> Lost(c, id)
  BY <1>0, <1>2, <1>6, Elsewhere DEF Lost
<1>10. \A id : id \in Ids(d) <=> id \in Ids(c)
  <2>1. \A id : id \in Ids(c) <=> \E i \in DOMAIN c.turns : c.turns[i].id = id
    BY IdsAre
  <2>2. \A id : id \in Ids(d) <=> \E i \in DOMAIN d.turns : d.turns[i].id = id
    BY IdsAre
  <2> QED BY <1>0, <1>2, <1>6, <2>1, <2>2
<1>11. \A m \in 1 .. (k + 1) : m \in 1 .. k \/ m = k + 1
  BY <1>0
<1>12. \A j \in 1 .. (k + 1) : SpansFrom(d, j) = SpansFrom(c, j) \cup {span}
  <2> TAKE j \in 1 .. (k + 1)
  <2>1. j .. (k + 1) = (j .. k) \cup {k + 1} /\ \A m \in j .. k : m \in 1 .. k
    BY <1>0
  <2>2. SpansFrom(d, j) = {d.evictions[m].span : m \in j .. (k + 1)}
    BY <1>3 DEF SpansFrom
  <2>3. SpansFrom(c, j) = {c.evictions[m].span : m \in j .. k}
    BY DEF SpansFrom, k
  <2> QED BY <1>7, <1>8, <2>1, <2>2, <2>3
<1>13. Sorted(d)
  BY <1>0, <1>2, <1>6 DEF Whole, Sorted
<1>14. Paid(d)
  <2>1. \A i \in 1 .. n : d.turns[i].loc = Resident => c.turns[i].loc = Resident
    BY <1>6
  <2> QED BY <1>0, <1>2, <1>4, <1>6, <2>1 DEF Whole, Paid, n
<1>15. Asking(d)
  <2> SUFFICES ASSUME c.state.at = "awaiting" PROVE d.turns # <<>> /\ d.turns[n].loc = Resident
    BY <1>2, <1>4 DEF Asking
  <2>1. c.turns # <<>> /\ c.turns[n].loc = Resident /\ ~Within(Single(c.turns[n].id), span)
    BY DEF Whole, Asking, Cuttable, n
  <2>2. n \in 1 .. n
    BY <1>0, <2>1 DEF n
  <2> QED BY <1>2, <1>6, <2>1, <2>2
<1>16. Anchored(d)
  <2> SUFFICES ASSUME NEW m \in 1 .. (k + 1)
               PROVE  LET s == d.evictions[m].span
                      IN  /\ s[1] <= s[2] /\ s[1] \in Ids(d) /\ s[2] \in Ids(d)
                          /\ Lost(d, s[1]) <=> Lost(d, s[2])
    BY <1>3 DEF Anchored
  <2>1. CASE m \in 1 .. k
    BY <1>0, <1>7, <1>9, <1>10, <2>1 DEF Whole, Anchored
  <2>2. CASE m = k + 1
    BY <1>0, <1>8, <1>9, <1>10, <2>2 DEF Cuttable
  <2> QED BY <1>11, <2>1, <2>2
<1>17. \A s \in SpansFrom(c, 1) : Within(s, span) \/ Apart(s, span)
  BY DEF Cuttable
<1>18. \A j \in 1 .. (k + 1) : SpansFrom(c, j) \subseteq SpansFrom(c, 1) /\ SpansFrom(c, j) \subseteq Spans
  BY <1>0 DEF SpansFrom, k
<1>19. Nested(d)
  <2> SUFFICES ASSUME NEW m \in 1 .. (k + 1), NEW o \in 1 .. (k + 1), m < o
               PROVE  Within(d.evictions[m].span, d.evictions[o].span) \/ Apart(d.evictions[m].span, d.evictions[o].span)
    BY <1>3 DEF Nested
  <2>1. m \in 1 .. k
    BY <1>0
  <2>2. CASE o \in 1 .. k
    BY <1>0, <1>7, <2>1, <2>2 DEF Whole, Nested
  <2>3. CASE o = k + 1
    <3>1. c.evictions[m].span \in SpansFrom(c, 1)
      BY <2>1 DEF SpansFrom, k
    <3> QED BY <1>7, <1>8, <1>17, <2>1, <2>3, <3>1
  <2> QED BY <1>11, <2>2, <2>3
<1>20. Placed(d)
  <2> SUFFICES ASSUME NEW i \in 1 .. n, d.turns[i].loc # Withdrawn
               PROVE  HeldBy(Single(d.turns[i].id), SpansFrom(d, 1), d.turns[i].loc)
    BY <1>2 DEF Placed
  <2> DEFINE x == Single(c.turns[i].id)
             loc == c.turns[i].loc
  <2>1. x \in Spans /\ x[1] <= x[2]
    BY <1>0 DEF Single, Spans
  <2>2. HeldBy(x, SpansFrom(c, 1), loc)
    <3>1. loc # Withdrawn
      BY <1>6, Elsewhere
    <3> QED BY <1>0, <3>1 DEF Whole, Placed
  <2>3. 1 \in 1 .. (k + 1)
    BY <1>0
  <2> HIDE DEF x, loc
  <2>4. HeldBy(x, SpansFrom(c, 1) \cup {span}, IF Within(x, span) /\ loc = Resident THEN span ELSE loc)
    BY <1>0, <1>17, <1>18, <2>1, <2>2, <2>3, HeldMore
  <2> QED BY <1>6, <1>12, <2>3, <2>4 DEF x, loc
<1>21. Lodged(d)
  <2> SUFFICES ASSUME NEW m \in 1 .. (k + 1)
               PROVE  LET e == d.evictions[m]
                      IN  IF Lost(d, e.span[1]) THEN e.loc = Withdrawn
                          ELSE HeldBy(e.span, SpansFrom(d, m + 1), e.loc)
    BY <1>3 DEF Lodged
  <2>1. CASE m \in 1 .. k
    <3> DEFINE x == c.evictions[m].span
               loc == c.evictions[m].loc
    <3>1. x \in Spans /\ x[1] <= x[2] /\ m + 1 \in 1 .. (k + 1)
      BY <1>0, <2>1 DEF Whole, Anchored
    <3>2. IF Lost(c, x[1]) THEN loc = Withdrawn ELSE HeldBy(x, SpansFrom(c, m + 1), loc)
      BY <1>0, <2>1 DEF Whole, Lodged
    <3>3. d.evictions[m].span = x
          /\ d.evictions[m].loc = IF Within(x, span) /\ loc = Resident THEN span ELSE loc
      BY <1>7, <2>1
    <3> HIDE DEF x, loc
    <3>4. CASE Lost(c, x[1])
      BY <1>9, <3>2, <3>3, <3>4, Elsewhere
    <3>5. CASE ~Lost(c, x[1])
      <4>1. HeldBy(x, SpansFrom(c, m + 1) \cup {span}, IF Within(x, span) /\ loc = Resident THEN span ELSE loc)
        BY <1>0, <1>17, <1>18, <3>1, <3>2, <3>5, HeldMore
      <4> QED BY <1>9, <1>12, <3>1, <3>3, <3>5, <4>1
    <3> QED BY <3>4, <3>5
  <2>2. CASE m = k + 1
    <3>1. ~Lost(d, span[1])
      BY <1>9 DEF Cuttable
    <3>2. SpansFrom(d, m + 1) = {}
      <4>1. (m + 1) .. Len(d.evictions) = {}
        BY <1>0, <1>3, <2>2
      <4> QED BY <4>1 DEF SpansFrom
    <3> QED BY <1>8, <2>2, <3>1, <3>2 DEF HeldBy
  <2> QED BY <1>11, <2>1, <2>2
<1> QED BY <1>5, <1>13, <1>14, <1>15, <1>16, <1>19, <1>20, <1>21 DEF Whole, d

-----------------------------------------------------------------------------
(* Withdrawals. *)

LEMMA RestingTyped ==
  ASSUME NEW s \in Seq(Entry)
  PROVE  Resting(s) \in StateRecord
<1>1. PICK f : RestsBy(f, s, Len(s)) /\ Resting(s) = f[Len(s)]
  BY RestingFolds
<1> DEFINE N == Len(s)
           Bad == {k \in 0 .. N : f[k] \notin StateRecord}
<1>2. N \in Nat /\ \A k \in 1 .. N : s[k] \in Entry
  OBVIOUS
<1> HIDE DEF N
<1>3. Bad = {}
  <2> SUFFICES ASSUME Bad # {} PROVE FALSE
    OBVIOUS
  <2>1. PICK k \in Bad : \A m \in Bad : k <= m
    <3>1. Bad \subseteq Nat
      BY <1>2
    <3> HIDE DEF Bad
    <3> QED BY <3>1, LeastOf
  <2>2. Ready \in StateRecord
    BY DEF Ready, StateRecord
  <2>3. k # 0
    BY <1>1, <2>1, <2>2 DEF RestsBy
  <2>4. k \in 1 .. N /\ k - 1 \in 0 .. N /\ ~(k <= k - 1)
    BY <1>2, <2>1, <2>3
  <2>5. f[k - 1] \in StateRecord
    BY <2>1, <2>4
  <2>6. f[k] = Advance(f[k - 1], s[k])
    BY <1>1, <2>4 DEF RestsBy, N
  <2>7. f[k] \in StateRecord
    BY <1>2, <2>4, <2>5, <2>6, AdvanceIs
  <2> QED BY <2>1, <2>7
<1>4. N \in 0 .. N
  BY <1>2
<1> QED BY <1>1, <1>3, <1>4 DEF N

\* The step of a withdrawal, item by item.
GoneTurn(t, from) == IF from <= t.id THEN Left(t, Withdrawn) ELSE t
GoneCut(e, from)  == IF from <= e.span[1] THEN [e EXCEPT !.loc = Withdrawn] ELSE e
GoneFrom(c, from) ==
  [turns |-> [i \in DOMAIN c.turns |-> GoneTurn(c.turns[i], from)],
   evictions |-> [n \in DOMAIN c.evictions |-> GoneCut(c.evictions[n], from)],
   state |-> RestingState([c EXCEPT !.turns = [i \in DOMAIN c.turns |-> GoneTurn(c.turns[i], from)]])]

LEMMA WithdrawingIs ==
  ASSUME NEW c, Typed(c), NEW r, NEW from,
         \/ r.kind = "Rewound" /\ r.anchor = from
         \/ r.kind = "Cleared" /\ from = 0
  PROVE  Step(c, r) = GoneFrom(c, from)
<1> DEFINE ts == [i \in DOMAIN c.turns |-> GoneTurn(c.turns[i], from)]
           es == [n \in DOMAIN c.evictions |-> GoneCut(c.evictions[n], from)]
           d == Withdraw(c, from)
<1>1. Step(c, r) = [d EXCEPT !.state = RestingState(d)]
  BY DEF Step
<1>2. d = [c EXCEPT !.turns = ts, !.evictions = es]
  BY DEF Withdraw, Depart, GoneTurn, GoneCut, Single
<1> HIDE DEF d, ts, es
<1>3. d = [turns |-> ts, evictions |-> es, state |-> c.state]
  BY <1>2 DEF Typed
<1>4. [c EXCEPT !.turns = ts] = [turns |-> ts, evictions |-> c.evictions, state |-> c.state]
  BY DEF Typed
<1>5. RestingState(d) = RestingState([c EXCEPT !.turns = ts])
  <2>1. d.turns = ts /\ [c EXCEPT !.turns = ts].turns = ts
    BY <1>3, <1>4
  <2> QED BY <2>1 DEF RestingState
<1>6. Step(c, r) = [turns |-> ts, evictions |-> es, state |-> RestingState(d)]
  BY <1>1, <1>3
<1> QED BY <1>5, <1>6 DEF GoneFrom, ts, es

LEMMA GoneTurnIs ==
  ASSUME NEW t \in TurnRecord, NEW from \in Nat
  PROVE  /\ GoneTurn(t, from) \in TurnRecord /\ GoneTurn(t, from).id = t.id
         /\ GoneTurn(t, from).loc = IF from <= t.id THEN Withdrawn ELSE t.loc
         /\ GoneTurn(t, from).loc = Resident => GoneTurn(t, from) = t
<1>0. Withdrawn \in Places /\ <<>> \in Seq(Entry) /\ Resident # Withdrawn
  BY Elsewhere
<1>1. CASE from <= t.id
  <2>1. GoneTurn(t, from) = Left(t, Withdrawn)
    BY <1>1 DEF GoneTurn
  <2>2. Address(t) \in Seq(Entry)
    BY DEF Address, TurnRecord
  <2>3. Left(t, Withdrawn) \in TurnRecord /\ Left(t, Withdrawn).id = t.id /\ Left(t, Withdrawn).loc = Withdrawn
    BY <1>0, <2>2 DEF Left, TurnRecord
  <2> QED BY <1>0, <1>1, <2>1, <2>3
<1>2. CASE ~(from <= t.id)
  <2>1. GoneTurn(t, from) = t
    BY <1>2 DEF GoneTurn
  <2> QED BY <1>2, <2>1
<1> QED BY <1>1, <1>2

LEMMA GoneCutIs ==
  ASSUME NEW e \in CutRecord, NEW from \in Nat
  PROVE  /\ GoneCut(e, from) \in CutRecord /\ GoneCut(e, from).span = e.span
         /\ GoneCut(e, from).loc = IF from <= e.span[1] THEN Withdrawn ELSE e.loc
BY Elsewhere DEF GoneCut, CutRecord, Places

LEMMA WithdrawingKeepsWhole ==
  ASSUME NEW c, Whole(c), NEW from \in Nat, c.state.at # "awaiting", ~Straddled(c, from)
  PROVE  Whole(GoneFrom(c, from)) /\ GoneFrom(c, from).state.at # "awaiting"
<1> DEFINE d == GoneFrom(c, from)
           n == Len(c.turns)
           k == Len(c.evictions)
<1>0. /\ Typed(c) /\ n \in Nat /\ DOMAIN c.turns = 1 .. n /\ k \in Nat /\ DOMAIN c.evictions = 1 .. k
      /\ c.turns \in Seq(TurnRecord) /\ c.evictions \in Seq(CutRecord) /\ c.state \in StateRecord
      /\ \A i \in 1 .. n : c.turns[i] \in TurnRecord /\ c.turns[i].id \in Nat
      /\ \A m \in 1 .. k : c.evictions[m] \in CutRecord /\ c.evictions[m].span \in Spans
                           /\ c.evictions[m].span[1] \in Nat /\ c.evictions[m].span[2] \in Nat
  BY Fields DEF Whole, Typed
<1>n. n = Len(c.turns) /\ k = Len(c.evictions)
  OBVIOUS
<1> HIDE DEF n, k
<1>1. /\ d.turns \in Seq(TurnRecord) /\ Len(d.turns) = n /\ DOMAIN d.turns = 1 .. n
      /\ \A i \in 1 .. n : d.turns[i] = GoneTurn(c.turns[i], from)
  <2>1. d.turns = [i \in 1 .. n |-> GoneTurn(c.turns[i], from)]
    BY <1>0 DEF GoneFrom
  <2>2. \A i \in 1 .. n : GoneTurn(c.turns[i], from) \in TurnRecord
    BY <1>0, GoneTurnIs
  <2> HIDE DEF d
  <2> QED BY <1>0, <2>1, <2>2
<1>2. /\ d.evictions \in Seq(CutRecord) /\ Len(d.evictions) = k /\ DOMAIN d.evictions = 1 .. k
      /\ \A m \in 1 .. k : d.evictions[m] = GoneCut(c.evictions[m], from)
  <2>1. d.evictions = [m \in 1 .. k |-> GoneCut(c.evictions[m], from)]
    BY <1>0 DEF GoneFrom
  <2>2. \A m \in 1 .. k : GoneCut(c.evictions[m], from) \in CutRecord
    BY <1>0, GoneCutIs
  <2> HIDE DEF d
  <2> QED BY <1>0, <2>1, <2>2
<1>3. \A i \in 1 .. n :
        /\ d.turns[i].id = c.turns[i].id
        /\ d.turns[i].loc = IF from <= c.turns[i].id THEN Withdrawn ELSE c.turns[i].loc
        /\ d.turns[i].loc = Resident => d.turns[i] = c.turns[i]
  <2> TAKE i \in 1 .. n
  <2>1. c.turns[i] \in TurnRecord
    BY <1>0
  <2>2. d.turns[i] = GoneTurn(c.turns[i], from)
    BY <1>1
  <2> QED BY <2>1, <2>2, GoneTurnIs
<1>4. \A m \in 1 .. k :
        /\ d.evictions[m].span = c.evictions[m].span
        /\ d.evictions[m].loc = IF from <= c.evictions[m].span[1] THEN Withdrawn ELSE c.evictions[m].loc
  <2> TAKE m \in 1 .. k
  <2>1. c.evictions[m] \in CutRecord
    BY <1>0
  <2>2. d.evictions[m] = GoneCut(c.evictions[m], from)
    BY <1>2
  <2> QED BY <2>1, <2>2, GoneCutIs
<1>5. \A i \in 1 .. n : d.turns[i].loc = Resident => ~Owing(d.turns[i])
  <2>1. \A i \in 1 .. n : c.turns[i].loc = Resident => ~Owing(c.turns[i])
    BY <1>0 DEF Whole, Paid
  <2> QED BY <1>3, <2>1
<1>6. d.state \in StateRecord /\ d.state.at # "awaiting"
  <2> DEFINE b == [c EXCEPT !.turns = [i \in DOMAIN c.turns |-> GoneTurn(c.turns[i], from)]]
             here == {i \in 1 .. n : d.turns[i].loc = Resident}
  <2>1. b.turns = d.turns
    BY DEF GoneFrom, Whole, Typed
  <2>2. d.state = RestingState(b)
    BY DEF GoneFrom
  <2> HIDE DEF d, b
  <2>3. d.state = IF here = {} THEN Ready ELSE Resting(d.turns[Max(here)].records)
    BY <1>1, <2>1, <2>2 DEF RestingState
  <2>4. CASE here = {}
    BY <2>3, <2>4 DEF Ready, StateRecord
  <2>5. CASE here # {}
    <3>1. here \subseteq 0 .. n
      BY <1>0
    <3> HIDE DEF here
    <3>2. Max(here) \in here
      BY <1>0, <2>5, <3>1, GreatestOf
    <3>3. Max(here) \in 1 .. n /\ d.turns[Max(here)].loc = Resident
      BY <3>2 DEF here
    <3>4. d.turns[Max(here)] \in TurnRecord
      BY <1>1, <3>3
    <3>5. d.turns[Max(here)].records \in Seq(Entry)
      BY <3>4 DEF TurnRecord
    <3>6. Resting(d.turns[Max(here)].records) \in StateRecord
      BY <3>5, RestingTyped
    <3>7. Resting(d.turns[Max(here)].records).at # "awaiting"
      BY <1>5, <3>3 DEF Owing
    <3> QED BY <2>3, <2>5, <3>6, <3>7
  <2> QED BY <2>4, <2>5
<1>7. Typed(d)
  <2>1. d = [turns |-> d.turns, evictions |-> d.evictions, state |-> d.state]
    BY DEF GoneFrom
  <2> HIDE DEF d
  <2> QED BY <1>1, <1>2, <1>6, <2>1 DEF Typed
<1> HIDE DEF d
<1>ids. \A id : (id \in Ids(c) <=> \E i \in 1 .. n : c.turns[i].id = id)
             /\ (id \in Ids(d) <=> \E i \in 1 .. n : d.turns[i].id = id)
  <2>1. \A id : id \in Ids(c) <=> \E i \in DOMAIN c.turns : c.turns[i].id = id
    BY IdsAre
  <2>2. \A id : id \in Ids(d) <=> \E i \in DOMAIN d.turns : d.turns[i].id = id
    BY IdsAre
  <2> QED BY <1>0, <1>1, <2>1, <2>2
<1>8. \A id : Lost(d, id) <=> id \in Ids(c) /\ (from <= id \/ Lost(c, id))
  <2>1. \A id : (Lost(c, id) <=> \E i \in 1 .. n : c.turns[i].id = id /\ c.turns[i].loc = Withdrawn)
               /\ (Lost(d, id) <=> \E i \in 1 .. n : d.turns[i].id = id /\ d.turns[i].loc = Withdrawn)
    BY <1>0, <1>1 DEF Lost
  <2>2. \A i \in 1 .. n : d.turns[i].id = c.turns[i].id
                        /\ (d.turns[i].loc = Withdrawn <=> from <= c.turns[i].id \/ c.turns[i].loc = Withdrawn)
    BY <1>3
  <2> HIDE DEF d
  <2> QED BY <1>ids, <2>1, <2>2
<1>9. \A id : id \in Ids(d) <=> id \in Ids(c)
  <2>1. \A i \in 1 .. n : d.turns[i].id = c.turns[i].id
    BY <1>3
  <2> QED BY <1>ids, <2>1
<1>10. \A j : SpansFrom(d, j) = {d.evictions[m].span : m \in j .. k} /\ SpansFrom(c, j) = {c.evictions[m].span : m \in j .. k}
  BY <1>2, <1>n DEF SpansFrom
<1>11. \A j \in 1 .. (k + 1) : SpansFrom(d, j) = SpansFrom(c, j)
  <2> TAKE j \in 1 .. (k + 1)
  <2>1. \A m \in j .. k : m \in 1 .. k
    BY <1>0
  <2>2. \A m \in j .. k : d.evictions[m].span = c.evictions[m].span
    BY <1>4, <2>1
  <2>3. {d.evictions[m].span : m \in j .. k} = {c.evictions[m].span : m \in j .. k}
    BY <2>2
  <2> QED BY <1>10, <2>3
<1>12. Sorted(d)
  BY <1>0, <1>1, <1>3 DEF Whole, Sorted
<1>13. Paid(d) /\ Asking(d)
  BY <1>1, <1>5, <1>6 DEF Paid, Asking
<1>14. \A m \in 1 .. k : LET s == c.evictions[m].span
                        IN  /\ s[1] <= s[2] /\ s[1] \in Ids(c) /\ s[2] \in Ids(c)
                            /\ Lost(c, s[1]) <=> Lost(c, s[2])
                            /\ ~(s[1] < from /\ from <= s[2])
  BY <1>0, StraddledIs DEF Whole, Anchored
<1>15. Anchored(d)
  <2> SUFFICES ASSUME NEW m \in 1 .. k
               PROVE  LET s == d.evictions[m].span
                      IN  /\ s[1] <= s[2] /\ s[1] \in Ids(d) /\ s[2] \in Ids(d)
                          /\ Lost(d, s[1]) <=> Lost(d, s[2])
    BY <1>2 DEF Anchored
  <2> DEFINE s == c.evictions[m].span
  <2>1. /\ s[1] <= s[2] /\ s[1] \in Ids(c) /\ s[2] \in Ids(c)
        /\ Lost(c, s[1]) <=> Lost(c, s[2])
        /\ ~(s[1] < from /\ from <= s[2]) /\ s[1] \in Nat /\ s[2] \in Nat
    BY <1>0, <1>14
  <2>2. d.evictions[m].span = s
    BY <1>4
  <2> HIDE DEF s
  <2>3. from <= s[1] <=> from <= s[2]
    BY <2>1
  <2> QED BY <1>8, <1>9, <2>1, <2>2, <2>3
<1>16. Nested(d)
  BY <1>0, <1>2, <1>4 DEF Whole, Nested
<1>17. Placed(d)
  <2>1. 1 \in 1 .. (k + 1)
    BY <1>0
  <2> QED BY <1>0, <1>1, <1>3, <1>11, <2>1 DEF Whole, Placed
<1>18. Lodged(d)
  <2> SUFFICES ASSUME NEW m \in 1 .. k
               PROVE  LET e == d.evictions[m]
                      IN  IF Lost(d, e.span[1]) THEN e.loc = Withdrawn
                          ELSE HeldBy(e.span, SpansFrom(d, m + 1), e.loc)
    BY <1>2 DEF Lodged
  <2> DEFINE s == c.evictions[m].span
             loc == c.evictions[m].loc
  <2>1. IF Lost(c, s[1]) THEN loc = Withdrawn ELSE HeldBy(s, SpansFrom(c, m + 1), loc)
    BY <1>0 DEF Whole, Lodged
  <2>2. s[1] \in Ids(c) /\ m + 1 \in 1 .. (k + 1)
    BY <1>0, <1>14
  <2>3. d.evictions[m].span = s /\ d.evictions[m].loc = IF from <= s[1] THEN Withdrawn ELSE loc
    BY <1>4
  <2> HIDE DEF s, loc
  <2> QED BY <1>8, <1>11, <2>1, <2>2, <2>3
<1> QED BY <1>6, <1>7, <1>12, <1>13, <1>15, <1>16, <1>17, <1>18 DEF Whole, d

-----------------------------------------------------------------------------
(* Forks. *)

LEMMA HolderIs ==
  ASSUME NEW x, NEW later, later \subseteq Spans, NEW loc, HeldBy(x, later, loc)
  PROVE  Holder(x, later) = loc
<1> DEFINE over == {s \in later : Within(x, s)}
<1>1. CASE loc = Resident /\ \A s \in later : ~Within(x, s)
  <2>1. over = {}
    BY <1>1
  <2> QED BY <1>1, <2>1 DEF Holder
<1>2. CASE loc \in later /\ Within(x, loc) /\ \A s \in later : Within(x, s) => Within(loc, s)
  <2>1. loc \in over /\ \A s \in over : Within(loc, s)
    BY <1>2
  <2>2. \A s \in over : s = <<s[1], s[2]>> /\ s[1] \in Nat /\ s[2] \in Nat
    BY DEF Spans
  <2>3. Holder(x, later) = CHOOSE s \in over : \A o \in over : Width(s) <= Width(o)
    BY <2>1 DEF Holder
  <2> HIDE DEF over
  <2>4. \A o \in over : Width(loc) <= Width(o)
    BY <2>1, <2>2 DEF Width, Within
  <2>5. ASSUME NEW s \in over, \A o \in over : Width(s) <= Width(o) PROVE s = loc
    <3>1. Width(s) <= Width(loc) /\ Within(loc, s)
      BY <2>1, <2>5
    <3>2. s[1] = loc[1] /\ s[2] = loc[2]
      BY <2>1, <2>2, <3>1 DEF Width, Within
    <3> QED BY <2>1, <2>2, <3>2
  <2>6. (CHOOSE s \in over : \A o \in over : Width(s) <= Width(o)) = loc
    BY <2>1, <2>4, <2>5
  <2> QED BY <2>3, <2>6
<1> QED BY <1>1, <1>2 DEF HeldBy

\* A turn's admissible prefix owes nothing.
LEMMA PrefixPaid ==
  ASSUME NEW s \in Seq(Entry)
  PROVE  /\ AdmissiblePrefix(s) \in Seq(Entry)
         /\ Resting(AdmissiblePrefix(s)).at # "awaiting"
<1> DEFINE ends == {n \in 1 .. Len(s) : AdmitsNewTurn(Resting(SubSeq(s, 1, n)))}
           m == Max(ends \cup {0})
<1>1. ends \cup {0} \subseteq 0 .. Len(s) /\ ends \cup {0} # {} /\ Len(s) \in Nat
  OBVIOUS
<1>2. m \in ends \cup {0}
  <2> HIDE DEF ends
  <2> QED BY <1>1, GreatestOf
<1>3. AdmissiblePrefix(s) = SubSeq(s, 1, m)
  BY DEF AdmissiblePrefix
<1> HIDE DEF m
<1>4. CASE m = 0
  <2>1. SubSeq(s, 1, 0) = <<>> /\ <<>> \in Seq(Entry)
    <3>1. 1 \in 1 .. Len(s) + 1 /\ 0 \in 1 - 1 .. Len(s)
      BY <1>1
    <3>2. SubSeq(s, 1, 0) \in Seq(Entry) /\ Len(SubSeq(s, 1, 0)) = 0
      BY <3>1, SubSeqProperties
    <3> QED BY <3>2
  <2>2. Resting(<<>>) = Ready
    BY <2>1, RestingLast
  <2>3. Ready.at = "ready"
    BY DEF Ready
  <2> QED BY <1>3, <1>4, <2>1, <2>2, <2>3
<1>5. CASE m \in ends
  <2>1. m \in 1 .. Len(s) /\ Resting(SubSeq(s, 1, m)).at # "awaiting"
    BY <1>5 DEF AdmitsNewTurn
  <2>2. 1 \in 1 .. Len(s) + 1 /\ m \in 1 - 1 .. Len(s)
    BY <1>1, <2>1
  <2>3. SubSeq(s, 1, m) \in Seq(Entry)
    BY <2>2, SubSeqProperties
  <2> QED BY <1>3, <2>1, <2>3
<1> QED BY <1>2, <1>4, <1>5

\* What a child's table holds of its parent's.
Carried(t) == [id |-> t.id, user |-> t.user, loc |-> t.loc, kept |-> TRUE, at |-> Address(t),
               records |-> IF t.loc = Resident THEN AdmissiblePrefix(Address(t)) ELSE <<>>]
Child(c) == [turns |-> [i \in DOMAIN c.turns |-> Carried(c.turns[i])], evictions |-> c.evictions,
             state |-> Ready]

LEMMA CarriedIs ==
  ASSUME NEW t \in TurnRecord
  PROVE  Carried(t) \in TurnRecord /\ (t.loc = Resident => ~Owing(Carried(t)))
<1>1. Address(t) \in Seq(Entry) /\ <<>> \in Seq(Entry)
  BY DEF Address, TurnRecord
<1>2. AdmissiblePrefix(Address(t)) \in Seq(Entry) /\ Resting(AdmissiblePrefix(Address(t))).at # "awaiting"
  BY <1>1, PrefixPaid
<1>3. Carried(t) \in TurnRecord
  BY <1>1, <1>2 DEF Carried, TurnRecord
<1>4. t.loc = Resident => Carried(t).records = AdmissiblePrefix(Address(t))
  BY DEF Carried
<1> QED BY <1>2, <1>3, <1>4 DEF Owing

LEMMA ChildIsWhole ==
  ASSUME NEW c, Whole(c)
  PROVE  Whole(Child(c))
<1> DEFINE d == Child(c)
           n == Len(c.turns)
<1>0. /\ Typed(c) /\ Laid(c) /\ n \in Nat /\ DOMAIN c.turns = 1 .. n
      /\ c.turns \in Seq(TurnRecord) /\ c.evictions \in Seq(CutRecord)
      /\ \A i \in 1 .. n : c.turns[i] \in TurnRecord
  BY Fields DEF Whole, Typed, Laid
<1>n. n = Len(c.turns)
  OBVIOUS
<1> HIDE DEF n
<1>1. /\ d.turns \in Seq(TurnRecord) /\ Len(d.turns) = n /\ DOMAIN d.turns = 1 .. n
      /\ \A i \in 1 .. n : d.turns[i] = Carried(c.turns[i])
  <2>1. d.turns = [i \in 1 .. n |-> Carried(c.turns[i])]
    BY <1>0 DEF Child
  <2>2. \A i \in 1 .. n : Carried(c.turns[i]) \in TurnRecord
    BY <1>0, CarriedIs
  <2> HIDE DEF d
  <2> QED BY <1>0, <2>1, <2>2
<1>2. d.evictions = c.evictions /\ d.state = Ready /\ Ready \in StateRecord /\ Ready.at = "ready"
  BY DEF Child, Ready, StateRecord
<1>3. Typed(d)
  <2>1. d = [turns |-> d.turns, evictions |-> d.evictions, state |-> d.state]
    BY DEF Child
  <2> HIDE DEF d
  <2> QED BY <1>0, <1>1, <1>2, <2>1 DEF Typed
<1> HIDE DEF d
<1>4. \A i \in 1 .. n : d.turns[i].id = c.turns[i].id /\ d.turns[i].loc = c.turns[i].loc
  <2> TAKE i \in 1 .. n
  <2>1. d.turns[i] = Carried(c.turns[i])
    BY <1>1
  <2>2. Carried(c.turns[i]).id = c.turns[i].id /\ Carried(c.turns[i]).loc = c.turns[i].loc
    BY DEF Carried
  <2> QED BY <2>1, <2>2
<1>5. Laid(d)
  BY <1>0, <1>1, <1>2, <1>3, <1>4, <1>n, NewTurnsLie
<1>6. Paid(d)
  <2>1. \A i \in 1 .. n : c.turns[i].loc = Resident => ~Owing(Carried(c.turns[i]))
    BY <1>0, CarriedIs
  <2>2. \A i \in 1 .. n : d.turns[i].loc = Resident => ~Owing(d.turns[i])
    BY <1>1, <1>4, <2>1
  <2> QED BY <1>1, <2>2 DEF Paid
<1>7. Asking(d)
  BY <1>2 DEF Asking
<1> QED BY <1>3, <1>5, <1>6, <1>7 DEF Whole, Laid, d

\* A link, row by row.
Seen(t) == [id |-> t.id, user |-> t.user, loc |-> t.loc, at |-> Address(t)]

LEMMA LinkIs ==
  ASSUME NEW c, Typed(c)
  PROVE  /\ Link(c).kind = "Inherited"
         /\ Len(Link(c).turns) = Len(c.turns) /\ DOMAIN Link(c).turns = DOMAIN c.turns
         /\ \A i \in DOMAIN c.turns : Link(c).turns[i] = Seen(c.turns[i])
         /\ ToSet(Link(c).turns) = {Seen(c.turns[i]) : i \in DOMAIN c.turns}
         /\ Len(Link(c).evictions) = Len(c.evictions) /\ DOMAIN Link(c).evictions = DOMAIN c.evictions
         /\ \A m \in DOMAIN c.evictions : Link(c).evictions[m] = c.evictions[m].span
         /\ ToSet(Link(c).evictions) = SpansFrom(c, 1)
<1> DEFINE n == Len(c.turns)
           k == Len(c.evictions)
           S == {Seen(c.turns[i]) : i \in 1 .. n}
           E == {c.evictions[m].span : m \in 1 .. k}
<1>0. n \in Nat /\ DOMAIN c.turns = 1 .. n /\ k \in Nat /\ DOMAIN c.evictions = 1 .. k
  BY Fields
<1>1. Link(c).turns = [i \in 1 .. n |-> Seen(c.turns[i])] /\ Link(c).kind = "Inherited"
  BY <1>0 DEF Link, Seen
<1>2. Link(c).evictions = [m \in 1 .. k |-> c.evictions[m].span]
  BY <1>0 DEF Link
<1>3. SpansFrom(c, 1) = E
  BY DEF SpansFrom
<1> DEFINE rt == Link(c).turns
           re == Link(c).evictions
<1>4. rt \in Seq(S) /\ Len(rt) = n /\ DOMAIN rt = 1 .. n /\ \A i \in 1 .. n : rt[i] = Seen(c.turns[i])
  <2> HIDE DEF n
  <2> QED BY <1>0, <1>1
<1>5. re \in Seq(E) /\ Len(re) = k /\ DOMAIN re = 1 .. k /\ \A m \in 1 .. k : re[m] = c.evictions[m].span
  <2> HIDE DEF k
  <2> QED BY <1>0, <1>2
<1> HIDE DEF n, k, rt, re
<1>6. ToSet(rt) = S /\ ToSet(re) = E
  BY <1>4, <1>5 DEF ToSet
<1> QED BY <1>0, <1>1, <1>3, <1>4, <1>5, <1>6 DEF rt, re, n, k

LEMMA LinkIsAdmitted ==
  ASSUME NEW c, Whole(c)
  PROVE  Judge(NewContext, 0, Link(c))
<1> DEFINE r == Link(c)
<1>0. Typed(c) /\ Sorted(c) /\ Anchored(c) /\ Nested(c) /\ Placed(c)
  BY DEF Whole
<1>1. /\ r.kind = "Inherited" /\ Len(r.turns) = Len(c.turns)
      /\ \A i \in DOMAIN c.turns : r.turns[i] = Seen(c.turns[i])
      /\ ToSet(r.turns) = {Seen(c.turns[i]) : i \in DOMAIN c.turns}
      /\ DOMAIN r.evictions = DOMAIN c.evictions
      /\ \A m \in DOMAIN c.evictions : r.evictions[m] = c.evictions[m].span
      /\ ToSet(r.evictions) = SpansFrom(c, 1)
  BY <1>0, LinkIs
<1>f. /\ Len(c.turns) \in Nat /\ DOMAIN c.turns = 1 .. Len(c.turns)
      /\ \A i \in DOMAIN c.turns : c.turns[i].id \in Nat
      /\ \A m \in DOMAIN c.evictions : c.evictions[m].span \in Spans
  BY <1>0, Fields
<1> HIDE DEF r
<1>2. \A t : Seen(t).id = t.id /\ Seen(t).loc = t.loc
  BY DEF Seen
<1>3. \A i \in 1 .. (Len(r.turns) - 1) : r.turns[i].id < r.turns[i + 1].id
  <2> TAKE i \in 1 .. (Len(r.turns) - 1)
  <2>1. i \in DOMAIN c.turns /\ i + 1 \in DOMAIN c.turns /\ i < i + 1
    BY <1>1, <1>f
  <2>2. r.turns[i] = Seen(c.turns[i]) /\ r.turns[i + 1] = Seen(c.turns[i + 1])
    BY <1>1, <2>1
  <2>3. c.turns[i].id < c.turns[i + 1].id
    BY <1>0, <2>1 DEF Sorted
  <2> QED BY <1>2, <2>2, <2>3
<1>4. ASSUME NEW e \in ToSet(r.evictions)
      PROVE  {e[1], e[2]} \subseteq {t.id : t \in ToSet(r.turns)}
  <2>1. PICK m \in DOMAIN c.evictions : e = c.evictions[m].span
    BY <1>1, <1>0, Fields DEF SpansFrom
  <2>2. e[1] \in Ids(c) /\ e[2] \in Ids(c)
    BY <1>0, <2>1 DEF Anchored
  <2>3. \A id \in Ids(c) : \E i \in DOMAIN c.turns : c.turns[i].id = id
    BY IdsAre
  <2>4. \A i \in DOMAIN c.turns : Seen(c.turns[i]) \in ToSet(r.turns) /\ Seen(c.turns[i]).id = c.turns[i].id
    BY <1>1, <1>2
  <2>5. \A id \in Ids(c) : id \in {t.id : t \in ToSet(r.turns)}
    BY <2>3, <2>4
  <2> QED BY <2>2, <2>5
<1>5. ASSUME NEW i \in DOMAIN r.evictions, NEW j \in DOMAIN r.evictions, i < j
      PROVE  \/ Within(r.evictions[i], r.evictions[j])
             \/ r.evictions[i][2] < r.evictions[j][1] \/ r.evictions[j][2] < r.evictions[i][1]
  <2>1. r.evictions[i] = c.evictions[i].span /\ r.evictions[j] = c.evictions[j].span
    BY <1>1
  <2>2. Within(c.evictions[i].span, c.evictions[j].span) \/ Apart(c.evictions[i].span, c.evictions[j].span)
    BY <1>0, <1>1, <1>5 DEF Nested
  <2> QED BY <2>1, <2>2 DEF Apart
<1>6. ASSUME NEW t \in ToSet(r.turns)
      PROVE  t.loc \in {Withdrawn, Holder(Single(t.id), ToSet(r.evictions))}
  <2>1. PICK i \in DOMAIN c.turns : t = Seen(c.turns[i])
    BY <1>1
  <2>2. t.loc = c.turns[i].loc /\ t.id = c.turns[i].id
    BY <1>2, <2>1
  <2>3. t.loc = Withdrawn \/ HeldBy(Single(t.id), SpansFrom(c, 1), t.loc)
    BY <1>0, <2>2 DEF Placed
  <2>4. SpansFrom(c, 1) \subseteq Spans
    BY <1>0, Fields DEF SpansFrom
  <2>5. t.loc = Withdrawn \/ t.loc = Holder(Single(t.id), SpansFrom(c, 1))
    BY <2>3, <2>4, HolderIs
  <2> QED BY <1>1, <2>5
<1>7. LinkHolds(r)
  BY <1>3, <1>4, <1>5, <1>6 DEF LinkHolds
<1>8. Admissible(NewContext.state, r)
  BY <1>1 DEF Admissible
<1>9. ~OpensTurn(r) /\ ~ExtendsTurn(r)
  BY <1>1 DEF OpensTurn, ExtendsTurn
<1> QED BY <1>1, <1>7, <1>8, <1>9 DEF Judge, r

LEMMA InstallingIs ==
  ASSUME NEW c, Whole(c)
  PROVE  Step(NewContext, Link(c)) = Child(c)
<1> DEFINE r == Link(c)
           n == Len(c.turns)
           k == Len(c.evictions)
           Gone(e)  == \E t \in ToSet(r.turns) : t.id = e[1] /\ t.loc = Withdrawn
           Later(i) == {r.evictions[j] : j \in (i + 1)..Len(r.evictions)}
           ts == [i \in DOMAIN r.turns |->
                   [id |-> r.turns[i].id, user |-> r.turns[i].user, loc |-> r.turns[i].loc,
                    kept |-> TRUE, at |-> r.turns[i].at,
                    records |-> IF r.turns[i].loc = Resident THEN AdmissiblePrefix(r.turns[i].at)
                                                             ELSE <<>>]]
           es == [i \in DOMAIN r.evictions |->
                   [span |-> r.evictions[i],
                    loc |-> IF Gone(r.evictions[i]) THEN Withdrawn
                            ELSE Holder(r.evictions[i], Later(i))]]
           on == [NewContext EXCEPT !.state = Advance(@, r)]
<1>0. Typed(c) /\ Anchored(c) /\ Lodged(c) /\ c.evictions \in Seq(CutRecord)
  BY DEF Whole, Typed
<1>1. /\ r.kind = "Inherited" /\ DOMAIN r.turns = DOMAIN c.turns
      /\ \A i \in DOMAIN c.turns : r.turns[i] = Seen(c.turns[i])
      /\ ToSet(r.turns) = {Seen(c.turns[i]) : i \in DOMAIN c.turns}
      /\ Len(r.evictions) = Len(c.evictions) /\ DOMAIN r.evictions = DOMAIN c.evictions
      /\ \A m \in DOMAIN c.evictions : r.evictions[m] = c.evictions[m].span
  BY <1>0, LinkIs
<1>f. /\ n \in Nat /\ DOMAIN c.turns = 1 .. n /\ k \in Nat /\ DOMAIN c.evictions = 1 .. k
      /\ \A m \in 1 .. k : c.evictions[m] \in CutRecord /\ c.evictions[m].span \in Spans
  BY <1>0, Fields
<1>2. Step(NewContext, r) = Install(on, r)
  BY <1>1 DEF Step
<1>3. Install(on, r) = [on EXCEPT !.turns = ts, !.evictions = es]
  BY DEF Install
<1>4. on = [turns |-> <<>>, evictions |-> <<>>, state |-> Ready]
  BY <1>1 DEF NewContext, Advance
<1> HIDE DEF on, ts, es, r
<1>5. Install(on, r) = [turns |-> ts, evictions |-> es, state |-> Ready]
  BY <1>3, <1>4
<1>6. ts = [i \in DOMAIN c.turns |-> Carried(c.turns[i])]
  <2> DEFINE At(i) == [id |-> r.turns[i].id, user |-> r.turns[i].user, loc |-> r.turns[i].loc,
                       kept |-> TRUE, at |-> r.turns[i].at,
                       records |-> IF r.turns[i].loc = Resident THEN AdmissiblePrefix(r.turns[i].at)
                                                                ELSE <<>>]
  <2>1. ts = [i \in DOMAIN c.turns |-> At(i)]
    BY <1>1 DEF ts
  <2>2. ASSUME NEW i \in DOMAIN c.turns PROVE At(i) = Carried(c.turns[i])
    <3>1. r.turns[i] = Seen(c.turns[i])
      BY <1>1
    <3>2. \A t : Seen(t).id = t.id /\ Seen(t).user = t.user /\ Seen(t).loc = t.loc /\ Seen(t).at = Address(t)
      BY DEF Seen
    <3> QED BY <3>1, <3>2 DEF Carried
  <2> HIDE DEF At
  <2> QED BY <2>1, <2>2
<1>7. \A id : (\E t \in ToSet(r.turns) : t.id = id /\ t.loc = Withdrawn) <=> Lost(c, id)
  <2>1. \A t : Seen(t).id = t.id /\ Seen(t).loc = t.loc
    BY DEF Seen
  <2> QED BY <1>1, <2>1 DEF Lost
<1>8. ASSUME NEW m \in 1 .. k
      PROVE  [span |-> r.evictions[m],
              loc |-> IF Gone(r.evictions[m]) THEN Withdrawn
                      ELSE Holder(r.evictions[m], Later(m))] = c.evictions[m]
  <2> DEFINE s == c.evictions[m].span
  <2>1. r.evictions[m] = s
    BY <1>1, <1>f
  <2>2. Later(m) = SpansFrom(c, m + 1)
    <3>1. Later(m) = {r.evictions[j] : j \in (m + 1) .. k}
      BY <1>1
    <3>2. \A j \in (m + 1) .. k : r.evictions[j] = c.evictions[j].span
      BY <1>1, <1>f
    <3>3. {r.evictions[j] : j \in (m + 1) .. k} = {c.evictions[j].span : j \in (m + 1) .. k}
      BY <3>2
    <3> QED BY <3>1, <3>3 DEF SpansFrom
  <2>3. Gone(r.evictions[m]) <=> Lost(c, s[1])
    BY <1>7, <2>1
  <2>4. IF Lost(c, s[1]) THEN c.evictions[m].loc = Withdrawn ELSE HeldBy(s, SpansFrom(c, m + 1), c.evictions[m].loc)
    BY <1>0, <1>f DEF Lodged
  <2>5. SpansFrom(c, m + 1) \subseteq Spans
    BY <1>f DEF SpansFrom
  <2> HIDE DEF Gone, Later
  <2>6. (IF Gone(r.evictions[m]) THEN Withdrawn ELSE Holder(r.evictions[m], Later(m))) = c.evictions[m].loc
    BY <2>1, <2>2, <2>3, <2>4, <2>5, HolderIs
  <2>7. c.evictions[m] = [span |-> s, loc |-> c.evictions[m].loc]
    BY <1>f DEF CutRecord
  <2> QED BY <2>1, <2>6, <2>7
<1>9. es = c.evictions
  <2> DEFINE At(i) == [span |-> r.evictions[i],
                       loc |-> IF Gone(r.evictions[i]) THEN Withdrawn
                               ELSE Holder(r.evictions[i], Later(i))]
  <2>1. es = [m \in 1 .. k |-> At(m)]
    BY <1>1, <1>f DEF es
  <2>2. \A m \in 1 .. k : At(m) = c.evictions[m]
    BY <1>8
  <2>3. c.evictions = [m \in 1 .. k |-> c.evictions[m]]
    BY <1>0, <1>f
  <2> HIDE DEF At
  <2> QED BY <2>1, <2>2, <2>3
<1> QED BY <1>2, <1>5, <1>6, <1>9 DEF Child, r

-----------------------------------------------------------------------------
(* The cuts a forced eviction plans. *)

\* What is in the context: a turn, or an eviction.
LEMMA ItemIs ==
  ASSUME NEW c, NEW x \in Items(c)
  PROVE  \/ \E i \in DOMAIN c.turns : c.turns[i].loc = Resident /\ x.span = Single(c.turns[i].id)
         \/ \E m \in DOMAIN c.evictions : c.evictions[m].loc = Resident /\ x.span = c.evictions[m].span
<1>1. CASE x \in {[span |-> Single(t.id), turn |-> TRUE, records |-> t.records] :
                    t \in {t \in ToSet(c.turns) : t.loc = Resident}}
  <2>1. PICK t \in ToSet(c.turns) : t.loc = Resident /\ x = [span |-> Single(t.id), turn |-> TRUE, records |-> t.records]
    BY <1>1
  <2>2. PICK i \in DOMAIN c.turns : t = c.turns[i]
    BY DEF ToSet
  <2> QED BY <2>1, <2>2
<1>2. CASE x \in {[span |-> e.span, turn |-> FALSE, records |-> <<>>] :
                    e \in {e \in ToSet(c.evictions) : e.loc = Resident}}
  <2>1. PICK e \in ToSet(c.evictions) : e.loc = Resident /\ x = [span |-> e.span, turn |-> FALSE, records |-> <<>>]
    BY <1>2
  <2>2. PICK m \in DOMAIN c.evictions : e = c.evictions[m]
    BY DEF ToSet
  <2> QED BY <2>1, <2>2
<1> QED BY <1>1, <1>2 DEF Items

\* It lies from one turn to another, neither withdrawn, and across no eviction.
LEMMA ItemLies ==
  ASSUME NEW c, Whole(c), NEW x \in Items(c)
  PROVE  /\ x.span \in Spans /\ x.span[1] \in Nat /\ x.span[2] \in Nat /\ x.span[1] <= x.span[2]
         /\ x.span[1] \in Ids(c) /\ x.span[2] \in Ids(c)
         /\ ~Lost(c, x.span[1]) /\ ~Lost(c, x.span[2])
         /\ \A m \in DOMAIN c.evictions :
              LET s == c.evictions[m].span
              IN  ~(s[1] < x.span[1] /\ x.span[1] <= s[2]) /\ ~(s[1] <= x.span[2] /\ x.span[2] < s[2])
<1>0. /\ Typed(c) /\ Sorted(c) /\ Anchored(c) /\ Nested(c) /\ Placed(c) /\ Lodged(c)
      /\ Len(c.evictions) \in Nat /\ DOMAIN c.evictions = 1 .. Len(c.evictions)
      /\ \A i \in DOMAIN c.turns : c.turns[i].id \in Nat
      /\ \A m \in DOMAIN c.evictions : c.evictions[m].span \in Spans
                                       /\ c.evictions[m].span[1] \in Nat /\ c.evictions[m].span[2] \in Nat
  BY Fields DEF Whole
<1>1. ASSUME NEW i \in DOMAIN c.turns, c.turns[i].loc = Resident, x.span = Single(c.turns[i].id)
      PROVE  /\ x.span \in Spans /\ x.span[1] \in Nat /\ x.span[2] \in Nat /\ x.span[1] <= x.span[2]
             /\ x.span[1] \in Ids(c) /\ x.span[2] \in Ids(c)
             /\ ~Lost(c, x.span[1]) /\ ~Lost(c, x.span[2])
             /\ \A m \in DOMAIN c.evictions :
                  LET s == c.evictions[m].span
                  IN  ~(s[1] < x.span[1] /\ x.span[1] <= s[2]) /\ ~(s[1] <= x.span[2] /\ x.span[2] < s[2])
  <2> DEFINE id == c.turns[i].id
  <2>1. x.span = <<id, id>> /\ id \in Nat /\ x.span[1] = id /\ x.span[2] = id
    BY <1>0, <1>1 DEF Single
  <2>2. id \in Ids(c)
    BY IdsAre
  <2>3. ~Lost(c, id)
    <3>1. \A j \in DOMAIN c.turns : c.turns[j].id = id => j = i
      BY <1>0, Fields DEF Sorted
    <3> QED BY <1>1, <3>1, Elsewhere DEF Lost
  <2>4. ASSUME NEW m \in DOMAIN c.evictions PROVE ~Within(x.span, c.evictions[m].span)
    <3>1. HeldBy(x.span, SpansFrom(c, 1), Resident)
      BY <1>0, <1>1, Elsewhere DEF Placed
    <3>2. c.evictions[m].span \in SpansFrom(c, 1)
      BY <1>0 DEF SpansFrom
    <3>3. SpansFrom(c, 1) \subseteq Spans
      BY <1>0 DEF SpansFrom
    <3> QED BY <3>1, <3>2, <3>3, Elsewhere DEF HeldBy
  <2>5. ASSUME NEW m \in DOMAIN c.evictions
        PROVE  LET s == c.evictions[m].span
               IN  ~(s[1] < id /\ id <= s[2]) /\ ~(s[1] <= id /\ id < s[2])
    BY <1>0, <2>1, <2>4 DEF Within
  <2> HIDE DEF id
  <2> QED BY <2>1, <2>2, <2>3, <2>5 DEF Spans
<1>2. ASSUME NEW o \in DOMAIN c.evictions, c.evictions[o].loc = Resident, x.span = c.evictions[o].span
      PROVE  /\ x.span \in Spans /\ x.span[1] \in Nat /\ x.span[2] \in Nat /\ x.span[1] <= x.span[2]
             /\ x.span[1] \in Ids(c) /\ x.span[2] \in Ids(c)
             /\ ~Lost(c, x.span[1]) /\ ~Lost(c, x.span[2])
             /\ \A m \in DOMAIN c.evictions :
                  LET s == c.evictions[m].span
                  IN  ~(s[1] < x.span[1] /\ x.span[1] <= s[2]) /\ ~(s[1] <= x.span[2] /\ x.span[2] < s[2])
  <2> DEFINE y == c.evictions[o].span
  <2>1. /\ y \in Spans /\ y[1] \in Nat /\ y[2] \in Nat /\ y[1] <= y[2]
        /\ y[1] \in Ids(c) /\ y[2] \in Ids(c) /\ (Lost(c, y[1]) <=> Lost(c, y[2]))
    BY <1>0 DEF Anchored
  <2>2. ~Lost(c, y[1]) /\ HeldBy(y, SpansFrom(c, o + 1), Resident)
    BY <1>0, <1>2, Elsewhere DEF Lodged
  <2>3. ASSUME NEW m \in DOMAIN c.evictions, o < m PROVE ~Within(y, c.evictions[m].span)
    <3>1. c.evictions[m].span \in SpansFrom(c, o + 1)
      BY <1>0, <2>3 DEF SpansFrom
    <3>2. \A j \in (o + 1) .. Len(c.evictions) : j \in DOMAIN c.evictions
      BY <1>0
    <3>3. SpansFrom(c, o + 1) \subseteq Spans
      BY <1>0, <3>2 DEF SpansFrom
    <3> HIDE DEF y
    <3> QED BY <2>2, <3>1, <3>3, Elsewhere DEF HeldBy
  <2>4. ASSUME NEW m \in DOMAIN c.evictions
        PROVE  LET s == c.evictions[m].span
               IN  ~(s[1] < y[1] /\ y[1] <= s[2]) /\ ~(s[1] <= y[2] /\ y[2] < s[2])
    <3> DEFINE s == c.evictions[m].span
    <3>1. s[1] \in Nat /\ s[2] \in Nat /\ s[1] <= s[2]
      BY <1>0 DEF Anchored
    <3>2. CASE o < m
      <4>1. Apart(y, s)
        BY <1>0, <2>3, <3>2 DEF Nested
      <4>2. ~(s[1] < y[1] /\ y[1] <= s[2]) /\ ~(s[1] <= y[2] /\ y[2] < s[2])
        <5> HIDE DEF y, s
        <5> QED BY <2>1, <3>1, <4>1 DEF Apart
      <4> QED BY <4>2
    <3>3. CASE m < o
      <4>1. Within(s, y) \/ Apart(s, y)
        BY <1>0, <3>3 DEF Nested
      <4>2. ~(s[1] < y[1] /\ y[1] <= s[2]) /\ ~(s[1] <= y[2] /\ y[2] < s[2])
        <5> HIDE DEF y, s
        <5> QED BY <2>1, <3>1, <4>1 DEF Apart, Within
      <4> QED BY <4>2
    <3>4. CASE m = o
      BY <2>1, <3>4
    <3> QED BY <1>0, <3>2, <3>3, <3>4
  <2> HIDE DEF y
  <2> QED BY <1>2, <2>1, <2>2, <2>4 DEF y
<1> QED BY <1>1, <1>2, ItemIs

\* The newest turn, while it is in the context, lies past whatever else is.
LEMMA NewestLies ==
  ASSUME NEW c, Whole(c), NEW x \in Items(c), NEW y \in Items(c), x.span[1] < y.span[1],
         c.turns # <<>>, c.turns[Len(c.turns)].loc = Resident
  PROVE  x.span[2] < c.turns[Len(c.turns)].id
<1> DEFINE n == Len(c.turns)
           id == c.turns[n].id
<1>0. /\ Typed(c) /\ Sorted(c) /\ Placed(c) /\ n \in Nat /\ DOMAIN c.turns = 1 .. n /\ n \in DOMAIN c.turns
      /\ \A i \in DOMAIN c.turns : c.turns[i].id \in Nat
  BY Fields DEF Whole
<1>1. \A j \in Ids(c) : j \in Nat /\ j <= id
  <2> TAKE j \in Ids(c)
  <2>1. PICK i \in DOMAIN c.turns : c.turns[i].id = j
    BY IdsAre
  <2>2. i < n => c.turns[i].id < id
    BY <1>0 DEF Sorted
  <2> QED BY <1>0, <2>1, <2>2
<1>2. /\ x.span[1] \in Nat /\ x.span[2] \in Nat /\ x.span[1] <= x.span[2] /\ x.span[2] \in Ids(c)
      /\ y.span[1] \in Ids(c)
  BY ItemLies
<1>3. x.span[2] # id
  <2> SUFFICES ASSUME x.span[2] = id PROVE FALSE
    OBVIOUS
  <2>1. CASE \E i \in DOMAIN c.turns : c.turns[i].loc = Resident /\ x.span = Single(c.turns[i].id)
    <3>1. x.span[1] = x.span[2]
      BY <2>1 DEF Single
    <3> QED BY <1>1, <1>2, <3>1
  <2>2. CASE \E m \in DOMAIN c.evictions : c.evictions[m].loc = Resident /\ x.span = c.evictions[m].span
    <3>1. PICK m \in DOMAIN c.evictions : x.span = c.evictions[m].span
      BY <2>2
    <3>2. x.span \in SpansFrom(c, 1) /\ SpansFrom(c, 1) \subseteq Spans
      BY <1>0, <3>1, Fields DEF SpansFrom
    <3>3. HeldBy(Single(id), SpansFrom(c, 1), Resident)
      BY <1>0, Elsewhere DEF Placed
    <3>4. ~Within(Single(id), x.span)
      BY <3>2, <3>3, Elsewhere DEF HeldBy
    <3>5. Single(id)[1] = id /\ Single(id)[2] = id
      BY DEF Single
    <3> HIDE DEF id
    <3> QED BY <1>2, <3>4, <3>5 DEF Within
  <2> QED BY <2>1, <2>2, ItemIs
<1>4. id \in Nat
  BY <1>0
<1> HIDE DEF id
<1> QED BY <1>1, <1>2, <1>3, <1>4 DEF id

LEMMA PlannedCuts ==
  ASSUME NEW c, Whole(c), NEW span \in Planned(c)
  PROVE  span \in Spans /\ span[1] <= span[2] /\ CutHolds(c, span)
<1>1. PICK i \in Items(c), m \in Items(c), y \in Items(c) :
        span = <<i.span[1], m.span[2]>> /\ i.span[1] <= m.span[1] /\ ~(y.span[1] <= m.span[1])
  BY DEF Planned
<1>2. /\ i.span[1] \in Nat /\ i.span[1] \in Ids(c) /\ ~Lost(c, i.span[1])
      /\ \A o \in DOMAIN c.evictions :
           LET s == c.evictions[o].span IN ~(s[1] < i.span[1] /\ i.span[1] <= s[2])
  BY ItemLies
<1>3. /\ m.span[1] \in Nat /\ m.span[2] \in Nat /\ m.span[1] <= m.span[2]
      /\ m.span[2] \in Ids(c) /\ ~Lost(c, m.span[2])
      /\ \A o \in DOMAIN c.evictions :
           LET s == c.evictions[o].span IN ~(s[1] <= m.span[2] /\ m.span[2] < s[2])
  BY ItemLies
<1>4. y.span[1] \in Nat
  BY ItemLies
<1>5. span[1] = i.span[1] /\ span[2] = m.span[2] /\ span \in Spans /\ span[1] <= span[2]
  BY <1>1, <1>2, <1>3 DEF Spans
<1>6. \A id \in {span[1], span[2]} : id \in Ids(c) /\ Row(c, id).loc # Withdrawn
  <2> TAKE id \in {span[1], span[2]}
  <2>1. id \in Ids(c) /\ ~Lost(c, id)
    BY <1>2, <1>3, <1>5
  <2>2. PICK j \in DOMAIN c.turns : c.turns[j].id = id
    BY <2>1, IdsAre
  <2>3. Row(c, id) = c.turns[j]
    BY <2>2, RowIs DEF Whole
  <2> QED BY <2>1, <2>2, <2>3 DEF Lost
<1>7. ~(UnclosedTurn(c) # 0 /\ Within(Single(UnclosedTurn(c)), span))
  <2> SUFFICES ASSUME UnclosedTurn(c) # 0 PROVE ~Within(Single(UnclosedTurn(c)), span)
    OBVIOUS
  <2>1. c.turns # <<>> /\ c.turns[Len(c.turns)].loc = Resident /\ UnclosedTurn(c) = c.turns[Len(c.turns)].id
    BY DEF UnclosedTurn, Last
  <2>2. m.span[1] < y.span[1]
    BY <1>1, <1>3, <1>4
  <2>3. m.span[2] < UnclosedTurn(c)
    BY <2>1, <2>2, NewestLies
  <2>4. UnclosedTurn(c) \in Nat
    BY <2>1, Fields DEF Whole
  <2>5. Single(UnclosedTurn(c))[2] = UnclosedTurn(c)
    BY DEF Single
  <2> QED BY <1>3, <1>5, <2>3, <2>4, <2>5 DEF Within
<1>8. ~Straddled(c, span[1])
  BY <1>2, <1>5, StraddledIs
<1>9. ~Straddled(c, span[2] + 1)
  <2>1. \A o \in DOMAIN c.evictions : c.evictions[o].span[1] \in Nat /\ c.evictions[o].span[2] \in Nat
    BY Fields DEF Whole
  <2>2. \A o \in DOMAIN c.evictions :
          ~(c.evictions[o].span[1] < span[2] + 1 /\ span[2] + 1 <= c.evictions[o].span[2])
    BY <1>3, <1>5, <2>1
  <2> QED BY <2>2, StraddledIs
<1> QED BY <1>5, <1>6, <1>7, <1>8, <1>9 DEF CutHolds

-----------------------------------------------------------------------------
(* The record, and what it replays to. *)

LinkRow == [id : Nat \ {0}, user : BOOLEAN, loc : Places, at : Seq(Entry)]
Records == Entry \cup [kind : {"Evicted"}, span : Spans] \cup [kind : {"Rewound"}, anchor : Nat]
           \cup [kind : {"Cleared"}]
           \cup [kind : {"Inherited"}, turns : Seq(LinkRow), evictions : Seq(Spans)]

LEMMA RecordKinds ==
  ASSUME NEW r \in Records
  PROVE  /\ r.kind \in Kinds \cup {"Evicted", "Rewound", "Cleared", "Inherited"}
         /\ r.kind \in Kinds => r \in Entry
         /\ r.kind = "Evicted" => r.span \in Spans
         /\ r.kind = "Rewound" => r.anchor \in Nat
<1>1. CASE r \in Entry
  <2>1. r.kind \in Kinds
    BY <1>1, EntryKinds DEF Kinds
  <2> QED BY <1>1, <2>1 DEF Kinds
<1>2. CASE r \in [kind : {"Evicted"}, span : Spans]
  BY <1>2 DEF Kinds
<1>3. CASE r \in [kind : {"Rewound"}, anchor : Nat]
  BY <1>3 DEF Kinds
<1>4. CASE r \in [kind : {"Cleared"}]
  BY <1>4 DEF Kinds
<1>5. CASE r \in [kind : {"Inherited"}, turns : Seq(LinkRow), evictions : Seq(Spans)]
  BY <1>5 DEF Kinds
<1> QED BY <1>1, <1>2, <1>3, <1>4, <1>5 DEF Records

LEMMA LinkIsRecord ==
  ASSUME NEW c, Typed(c)
  PROVE  Link(c) \in Records
<1>0. /\ c.turns \in Seq(TurnRecord) /\ c.evictions \in Seq(CutRecord)
      /\ Len(c.turns) \in Nat /\ DOMAIN c.turns = 1 .. Len(c.turns)
      /\ Len(c.evictions) \in Nat /\ DOMAIN c.evictions = 1 .. Len(c.evictions)
      /\ \A i \in DOMAIN c.turns : c.turns[i] \in TurnRecord
      /\ \A m \in DOMAIN c.evictions : c.evictions[m].span \in Spans
  BY Fields DEF Typed
<1>1. ASSUME NEW t \in TurnRecord PROVE Seen(t) \in LinkRow
  <2>1. Address(t) \in Seq(Entry)
    BY DEF Address, TurnRecord
  <2> QED BY <2>1 DEF Seen, LinkRow, TurnRecord
<1> DEFINE ts == [i \in 1 .. Len(c.turns) |-> Seen(c.turns[i])]
           es == [m \in 1 .. Len(c.evictions) |-> c.evictions[m].span]
<1>2. ts \in Seq(LinkRow)
  <2>1. \A i \in 1 .. Len(c.turns) : Seen(c.turns[i]) \in LinkRow
    BY <1>0, <1>1
  <2> QED BY <1>0, <2>1
<1>3. es \in Seq(Spans)
  BY <1>0
<1>4. Link(c) = [kind |-> "Inherited", turns |-> ts, evictions |-> es]
  BY <1>0 DEF Link, Seen
<1> HIDE DEF ts, es
<1> QED BY <1>2, <1>3, <1>4 DEF Records

LEMMA NewIsWhole == Whole(NewContext)
<1> DEFINE c == NewContext
<1>1. c.turns = <<>> /\ c.evictions = <<>> /\ c.state = Ready /\ c = [turns |-> c.turns, evictions |-> c.evictions, state |-> c.state]
  BY DEF NewContext
<1>2. Ready \in StateRecord /\ Ready.at = "ready"
  BY DEF Ready, StateRecord
<1> HIDE DEF c
<1>3. Typed(c)
  BY <1>1, <1>2 DEF Typed
<1>4. DOMAIN c.turns = {} /\ DOMAIN c.evictions = {}
  BY <1>1
<1>5. Sorted(c) /\ Paid(c) /\ Anchored(c) /\ Nested(c) /\ Placed(c) /\ Lodged(c)
  BY <1>4 DEF Sorted, Paid, Anchored, Nested, Placed, Lodged
<1>6. Asking(c)
  BY <1>1, <1>2 DEF Asking
<1> QED BY <1>3, <1>5, <1>6 DEF Whole, c

\* What the fold admits keeps a context whole.
LEMMA StepKeepsWhole ==
  ASSUME NEW c, Whole(c), NEW len, NEW r \in Records, r.kind # "Inherited", Judge(c, len, r),
         r.kind = "Evicted" => r.span[1] <= r.span[2]
  PROVE  /\ Whole(Step(c, r))
         /\ r.kind \in Kinds => Step(c, r).state = Advance(c.state, r)
         /\ r.kind \in Kinds => Step(c, r).turns # <<>> /\ Step(c, r).turns[Len(Step(c, r).turns)].loc = Resident
         /\ r.kind = "Evicted" => Step(c, r).state = c.state
         /\ r.kind \in {"Rewound", "Cleared"} => Step(c, r).state.at # "awaiting"
<1>0. /\ Typed(c) /\ c.turns \in Seq(TurnRecord) /\ Admissible(c.state, r)
      /\ \A m \in DOMAIN c.evictions : c.evictions[m].span[1] \in Nat
  BY Fields DEF Whole, Typed, Judge
<1>1. CASE r.kind \in {"UserPrompt", "Import", "AssistantMessage"}
  <2> DEFINE u == r.kind # "AssistantMessage"
             d == Opened(c, r, u)
  <2>1. r \in Entry /\ r.kind \in Kinds
    BY <1>1, RecordKinds DEF Kinds
  <2>2. AdmitsNewTurn(c.state) /\ r.turn > Reach(c)
    BY <1>0, <1>1 DEF Admissible, AdmitsNewTurn, Judge, OpensTurn
  <2>3. Step(c, r) = d
    BY <1>0, <1>1, <2>1, OpeningIs
  <2>4. u \in BOOLEAN
    OBVIOUS
  <2> HIDE DEF u
  <2>5. Whole(d)
    BY <1>1, <2>1, <2>2, <2>4, OpeningKeepsWhole
  <2>6. d.state = Advance(c.state, r) /\ d.turns = Append(c.turns, Fresh(r, u)) /\ Fresh(r, u).loc = Resident
    BY DEF Opened, Fresh
  <2> HIDE DEF d
  <2>7. d.turns # <<>> /\ d.turns[Len(d.turns)] = Fresh(r, u)
    BY <1>0, <2>6
  <2> QED BY <1>1, <2>3, <2>5, <2>6, <2>7
<1>2. CASE r.kind \in {"Steering", "ToolResults"}
  <2> DEFINE d == Extended(c, r)
             n == Len(c.turns)
  <2>1. r \in Entry /\ r.kind \in Kinds
    BY <1>2, RecordKinds DEF Kinds
  <2>2. c.turns # <<>>
    <3>1. CASE r.kind = "Steering"
      BY <3>1 DEF Judge
    <3>2. CASE r.kind = "ToolResults"
      <4>1. c.state.at = "awaiting"
        BY <1>0, <3>2 DEF Admissible
      <4> QED BY <4>1 DEF Whole, Asking
    <3> QED BY <1>2, <3>1, <3>2
  <2>3. c.turns[n].loc = Resident
    BY <1>2, <2>2 DEF Judge, ExtendsTurn, Last
  <2>4. Step(c, r) = d
    BY <1>0, <1>2, <2>1, ExtendingIs
  <2>5. Whole(d)
    BY <1>2, <2>1, <2>2, ExtendingKeepsWhole
  <2>6. d.state = Advance(c.state, r) /\ d.turns = [c.turns EXCEPT ![n] = Told(c.turns[n], r)]
    BY DEF Extended
  <2>7. c.turns[n] \in TurnRecord /\ n \in DOMAIN c.turns
    BY <1>0, <2>2
  <2>8. Told(c.turns[n], r).loc = Resident
    BY <2>3, <2>7 DEF Told, TurnRecord
  <2> HIDE DEF d
  <2>9. d.turns # <<>> /\ Len(d.turns) = n /\ d.turns[n] = Told(c.turns[n], r)
    BY <1>0, <2>2, <2>6, <2>7
  <2> QED BY <1>2, <2>4, <2>5, <2>6, <2>8, <2>9
<1>3. CASE r.kind = "Evicted"
  <2>1. r.span \in Spans /\ CutHolds(c, r.span)
    BY <1>3, RecordKinds DEF Judge
  <2>2. Cuttable(c, r.span)
    BY <1>3, <2>1, CutsHold
  <2>3. r.span # Withdrawn
    BY <2>2 DEF Cuttable
  <2>4. Step(c, r) = CutTo(c, r.span)
    BY <1>0, <1>3, <2>3, CuttingIs
  <2>5. CutTo(c, r.span).state = c.state
    BY DEF CutTo
  <2>6. Whole(CutTo(c, r.span))
    BY <2>2, CuttingKeepsWhole
  <2> QED BY <1>3, <2>4, <2>5, <2>6 DEF Kinds
<1>4. ASSUME NEW from \in Nat, \/ r.kind = "Rewound" /\ r.anchor = from
                               \/ r.kind = "Cleared" /\ from = 0,
             ~Straddled(c, from)
      PROVE  Whole(Step(c, r)) /\ Step(c, r).state.at # "awaiting"
  <2>1. Step(c, r) = GoneFrom(c, from)
    BY <1>0, <1>4, WithdrawingIs
  <2>2. c.state.at # "awaiting"
    BY <1>0, <1>4 DEF Admissible, AdmitsNewTurn
  <2> QED BY <1>4, <2>1, <2>2, WithdrawingKeepsWhole
<1>5. CASE r.kind = "Rewound"
  <2>1. r.anchor \in Nat /\ ~Straddled(c, r.anchor)
    BY <1>5, RecordKinds DEF Judge, AnchorHolds
  <2>2. Whole(Step(c, r)) /\ Step(c, r).state.at # "awaiting"
    BY <1>4, <1>5, <2>1
  <2> QED BY <1>5, <2>2 DEF Kinds
<1>6. CASE r.kind = "Cleared"
  <2>1. ~Straddled(c, 0) /\ 0 \in Nat
    BY <1>0, StraddledIs
  <2>2. Whole(Step(c, r)) /\ Step(c, r).state.at # "awaiting"
    BY <1>4, <1>6, <2>1
  <2> QED BY <1>6, <2>2 DEF Kinds
<1> QED BY <1>1, <1>2, <1>3, <1>5, <1>6, RecordKinds DEF Kinds

\* The fold of a record admits each line and comes to `c`, whole all along.
ReplaysBy(f, l, c) ==
  /\ f[0] = NewContext /\ f[Len(l)] = c
  /\ \A k \in 0 .. Len(l) : Whole(f[k])
  /\ \A k \in 1 .. Len(l) : Judge(f[k - 1], k - 1, l[k]) /\ f[k] = Step(f[k - 1], l[k])
Replays(l, c) == \E f : ReplaysBy(f, l, c)

LEMMA ReplaysNothing == Replays(<<>>, NewContext)
<1> DEFINE f == [k \in {0} |-> NewContext]
<1>1. Len(<<>>) = 0 /\ f[0] = NewContext /\ 0 .. 0 = {0} /\ 1 .. 0 = {}
  OBVIOUS
<1> HIDE DEF f
<1>2. \A k \in 0 .. 0 : Whole(f[k])
  BY <1>1, NewIsWhole
<1>3. \A k \in 1 .. 0 : Judge(f[k - 1], k - 1, <<>>[k]) /\ f[k] = Step(f[k - 1], <<>>[k])
  BY <1>1
<1>4. ReplaysBy(f, <<>>, NewContext)
  BY <1>1, <1>2, <1>3 DEF ReplaysBy
<1> QED BY <1>4 DEF Replays

LEMMA ReplaysMore ==
  ASSUME NEW l \in Seq(Records), NEW c, Replays(l, c), NEW r \in Records,
         Judge(c, Len(l), r), Whole(Step(c, r))
  PROVE  Replays(Append(l, r), Step(c, r))
<1> DEFINE n == Len(l)
           e == Append(l, r)
           d == Step(c, r)
<1>1. PICK f : ReplaysBy(f, l, c)
  BY DEF Replays
<1>2. /\ n \in Nat /\ Len(e) = n + 1 /\ e[n + 1] = r /\ \A k \in 1 .. n : e[k] = l[k]
  OBVIOUS
<1>3. /\ f[0] = NewContext /\ f[n] = c /\ \A k \in 0 .. n : Whole(f[k])
      /\ \A k \in 1 .. n : Judge(f[k - 1], k - 1, l[k]) /\ f[k] = Step(f[k - 1], l[k])
  BY <1>1 DEF ReplaysBy
<1>j. Judge(c, n, r) /\ Whole(d)
  OBVIOUS
<1> HIDE DEF e, d, n
<1> DEFINE g == [k \in 0 .. (n + 1) |-> IF k = n + 1 THEN d ELSE f[k]]
<1>4. /\ g[n + 1] = d /\ \A k \in 0 .. n : g[k] = f[k]
  BY <1>2
<1> HIDE DEF g
<1>5. g[0] = NewContext /\ g[n] = c
  BY <1>2, <1>3, <1>4
<1>6. \A k \in 0 .. (n + 1) : Whole(g[k])
  <2>1. \A k \in 0 .. (n + 1) : k \in 0 .. n \/ k = n + 1
    BY <1>2
  <2> QED BY <1>3, <1>4, <1>j, <2>1
<1>7. ASSUME NEW k \in 1 .. (n + 1) PROVE Judge(g[k - 1], k - 1, e[k]) /\ g[k] = Step(g[k - 1], e[k])
  <2>1. CASE k \in 1 .. n
    <3>1. k - 1 \in 0 .. n /\ k \in 0 .. n
      BY <1>2, <2>1
    <3>2. g[k - 1] = f[k - 1] /\ g[k] = f[k] /\ e[k] = l[k]
      BY <1>2, <1>4, <2>1, <3>1
    <3> QED BY <1>3, <2>1, <3>2
  <2>2. CASE k = n + 1
    <3>1. k - 1 = n
      BY <1>2, <2>2
    <3>2. Judge(c, n, r) /\ d = Step(c, r)
      BY <1>j DEF d
    <3>3. g[k - 1] = c /\ g[k] = d /\ e[k] = r
      BY <1>2, <1>4, <1>5, <2>2, <3>1
    <3> QED BY <3>1, <3>2, <3>3
  <2>3. k \in 1 .. n \/ k = n + 1
    BY <1>2
  <2> QED BY <2>1, <2>2, <2>3
<1>8. ReplaysBy(g, e, d)
  BY <1>2, <1>4, <1>5, <1>6, <1>7 DEF ReplaysBy
<1>9. Replays(e, d)
  BY <1>8 DEF Replays
<1> QED BY <1>9 DEF e, d

\* A crash leaves a prefix.
LEMMA ReplaysLess ==
  ASSUME NEW l \in Seq(Records), NEW c, Replays(l, c), NEW n \in 0 .. Len(l)
  PROVE  /\ SubSeq(l, 1, n) \in Seq(Records) /\ Len(SubSeq(l, 1, n)) = n
         /\ \E d : Replays(SubSeq(l, 1, n), d)
<1> DEFINE p == SubSeq(l, 1, n)
<1>1. PICK f : ReplaysBy(f, l, c)
  BY DEF Replays
<1>2. /\ p \in Seq(Records) /\ Len(p) = n /\ \A k \in 1 .. n : p[k] = l[k]
  <2>1. Len(l) \in Nat /\ 1 \in Int /\ n \in Int /\ n \in Nat /\ \A k \in 1 .. n : l[k] \in Records
    OBVIOUS
  <2>2. /\ p \in Seq(Records)
        /\ Len(p) = IF 1 <= n THEN n - 1 + 1 ELSE 0
        /\ \A k \in 1 .. n - 1 + 1 : p[k] = l[1 + k - 1]
    BY <2>1, SubSeqProperties
  <2> HIDE DEF p
  <2>3. Len(p) = n /\ n - 1 + 1 = n /\ \A k \in 1 .. n : 1 + k - 1 = k
    BY <2>1, <2>2
  <2> QED BY <2>2, <2>3
<1> HIDE DEF p
<1>3. /\ \A k \in 0 .. n : k \in 0 .. Len(l)
      /\ \A k \in 1 .. n : k \in 1 .. Len(l)
  OBVIOUS
<1>4. ReplaysBy(f, p, f[n])
  BY <1>1, <1>2, <1>3 DEF ReplaysBy
<1>5. \E d : Replays(p, d)
  BY <1>4 DEF Replays
<1> QED BY <1>2, <1>5 DEF p

\* Resume's fold is that replay.
LEMMA FoldedReplays ==
  ASSUME NEW l \in Seq(Records), NEW c, Replays(l, c)
  PROVE  Folded(l).ok = TRUE /\ Folded(l).ctx = c /\ Whole(c)
<1> DEFINE n == Len(l)
           from == [ok |-> TRUE, log |-> <<>>, ctx |-> NewContext]
<1>1. PICK f : ReplaysBy(f, l, c)
  BY DEF Replays
<1>2. PICK a : EmitsBy(a, from, l, n) /\ Emitted(from, l) = a[n]
  BY EmittedFolds
<1>3. Folded(l) = a[n]
  BY <1>2 DEF Folded
<1>n. n \in Nat /\ n = Len(l) /\ from.ok = TRUE /\ from.log = <<>> /\ from.ctx = NewContext
      /\ \A k \in 1 .. n : l[k] \in Records
  OBVIOUS
<1> HIDE DEF n, from
<1> DEFINE Good(k) == a[k].ok = TRUE /\ a[k].ctx = f[k] /\ a[k].log \in Seq(Records) /\ Len(a[k].log) = k
           Bad == {k \in 0 .. n : ~Good(k)}
<1>4. Bad = {}
  <2> SUFFICES ASSUME Bad # {} PROVE FALSE
    OBVIOUS
  <2>1. PICK k \in Bad : \A m \in Bad : k <= m
    <3>1. Bad \subseteq Nat
      BY <1>n
    <3> HIDE DEF Bad
    <3> QED BY <3>1, LeastOf
  <2>2. Good(0)
    <3>1. a[0] = from /\ f[0] = NewContext
      BY <1>1, <1>2 DEF EmitsBy, ReplaysBy
    <3>2. <<>> \in Seq(Records) /\ Len(<<>>) = 0
      OBVIOUS
    <3> QED BY <1>n, <3>1, <3>2
  <2>3. k # 0 /\ k \in 0 .. n
    BY <2>1, <2>2
  <2>4. k \in 1 .. n /\ k - 1 \in 0 .. n /\ ~(k <= k - 1) /\ k - 1 \in Nat /\ (k - 1) + 1 = k
    BY <1>n, <2>3
  <2>5. Good(k - 1)
    BY <2>1, <2>4
  <2>6. a[k] = Recording(a[k - 1], l[k])
    BY <1>2, <2>4 DEF EmitsBy
  <2>7. Judge(f[k - 1], k - 1, l[k]) /\ f[k] = Step(f[k - 1], l[k])
    BY <1>1, <1>n, <2>4 DEF ReplaysBy
  <2>8. a[k] = [ok |-> Judge(a[k - 1].ctx, Len(a[k - 1].log), l[k]),
                log |-> Append(a[k - 1].log, l[k]),
                ctx |-> IF Judge(a[k - 1].ctx, Len(a[k - 1].log), l[k])
                        THEN Step(a[k - 1].ctx, l[k]) ELSE a[k - 1].ctx]
    BY <2>5, <2>6 DEF Recording
  <2>9. a[k - 1].ctx = f[k - 1] /\ Len(a[k - 1].log) = k - 1 /\ a[k - 1].log \in Seq(Records)
    BY <2>5
  <2>10. /\ a[k].ok = Judge(f[k - 1], k - 1, l[k]) /\ a[k].ctx = Step(f[k - 1], l[k])
         /\ a[k].log = Append(a[k - 1].log, l[k])
    BY <2>7, <2>8, <2>9
  <2>11. a[k].log \in Seq(Records) /\ Len(a[k].log) = k
    BY <1>n, <2>4, <2>9, <2>10
  <2>12. Judge(f[k - 1], k - 1, l[k]) = TRUE
    BY <2>7 DEF Judge
  <2>13. Good(k)
    BY <2>7, <2>10, <2>11, <2>12
  <2> QED BY <2>1, <2>13
<1>5. Good(n)
  <2>1. n \in 0 .. n
    BY <1>n
  <2> HIDE DEF Good
  <2> QED BY <1>4, <2>1
<1>6. f[n] = c /\ Whole(f[n])
  <2>1. n \in 0 .. n
    BY <1>n
  <2> QED BY <1>1, <1>n, <2>1 DEF ReplaysBy
<1> QED BY <1>3, <1>5, <1>6

-----------------------------------------------------------------------------
(* The inductive invariant: the record replays to the context, which is      *)
(* whole, and the agent's place agrees with it.                              *)

Placing ==
  /\ phase \in {"turn", "sent", "arrivals"} => ctx.state.at \in {"afterUser", "afterResults"}
  /\ phase = "arrivals" => UnclosedTurn(ctx) # 0
  /\ phase \in {"batch", "running"} => ctx.state.at = "awaiting"
  /\ phase \in {"rest", "ended", "over"} => AdmitsNewTurn(ctx.state)

Synced == /\ sent \in Nat /\ synced \in Nat /\ sent <= synced /\ synced <= Len(log)
          /\ phase \in {"rest", "running"} =>
               \A i \in (synced + 1) .. Len(log) : log[i].kind \notin Kinds

Sound == /\ log \in Seq(Records) /\ Whole(ctx)
         /\ Synced
         /\ LiveRecordsAdmitted
         /\ ~wedged => /\ Placing
                       /\ \E c : Replays(log, c) /\ (phase # "down" => c = ctx)

\* One record is judged, and stepped or refused.
LEMMA RecordingIs ==
  ASSUME NEW acc, acc.ok = TRUE, NEW r
  PROVE  Recording(acc, r) = [ok  |-> Judge(acc.ctx, Len(acc.log), r),
                              log |-> Append(acc.log, r),
                              ctx |-> IF Judge(acc.ctx, Len(acc.log), r) THEN Step(acc.ctx, r) ELSE acc.ctx]
BY DEF Recording

LEMMA EmitsOne ==
  ASSUME NEW r \in Records, Emit(<<r>>)
  PROVE  /\ ~wedged /\ log' = Append(log, r)
         /\ Judge(ctx, Len(log), r) => ctx' = Step(ctx, r) /\ ~wedged'
         /\ ~Judge(ctx, Len(log), r) => ctx' = ctx /\ wedged'
<1> DEFINE from == [ok |-> TRUE, log |-> log, ctx |-> ctx]
           e == Emitted(from, <<r>>)
<1>1. <<r>> \in Seq(Records) /\ Len(<<r>>) = 1 /\ <<r>>[1] = r
  OBVIOUS
<1>2. from.ok = TRUE /\ from.log = log /\ from.ctx = ctx
  OBVIOUS
<1>3. ~wedged /\ log' = e.log /\ ctx' = e.ctx /\ wedged' = ~e.ok
  BY DEF Emit
<1> HIDE DEF from
<1>4. e = Recording(from, r)
  BY <1>1, EmittedFew
<1>5. e = [ok  |-> Judge(ctx, Len(log), r),
           log |-> Append(log, r),
           ctx |-> IF Judge(ctx, Len(log), r) THEN Step(ctx, r) ELSE ctx]
  BY <1>2, <1>4, RecordingIs
<1> HIDE DEF e
<1>6. e.log = Append(log, r) /\ e.ok = Judge(ctx, Len(log), r)
      /\ e.ctx = IF Judge(ctx, Len(log), r) THEN Step(ctx, r) ELSE ctx
  BY <1>5
<1>7. wedged' = ~Judge(ctx, Len(log), r)
  BY <1>3, <1>6
<1> QED BY <1>3, <1>6, <1>7

LEMMA EmitsNone ==
  ASSUME Emit(<<>>)
  PROVE  ~wedged /\ log' = log /\ ctx' = ctx /\ ~wedged'
<1> DEFINE from == [ok |-> TRUE, log |-> log, ctx |-> ctx]
           e == Emitted(from, <<>>)
<1>1. <<>> \in Seq(Records)
  OBVIOUS
<1>2. from.ok = TRUE /\ from.log = log /\ from.ctx = ctx
  OBVIOUS
<1>3. ~wedged /\ log' = e.log /\ ctx' = e.ctx /\ wedged' = ~e.ok
  BY DEF Emit
<1> HIDE DEF from
<1>4. e = from
  BY <1>1, EmittedFew
<1> QED BY <1>2, <1>3, <1>4

\* What an admitted record leaves.
LEMMA Written ==
  ASSUME Sound, phase # "down", NEW r \in Records, r.kind # "Inherited", Judge(ctx, Len(log), r),
         r.kind = "Evicted" => r.span[1] <= r.span[2], Emit(<<r>>)
  PROVE  /\ ~wedged /\ ~wedged' /\ log' = Append(log, r) /\ log' \in Seq(Records) /\ Len(log') = Len(log) + 1
         /\ ctx' = Step(ctx, r) /\ Whole(ctx') /\ Replays(log', ctx')
         /\ r.kind \in Kinds => ctx'.state = Advance(ctx.state, r)
         /\ r.kind \in Kinds => ctx'.turns # <<>> /\ ctx'.turns[Len(ctx'.turns)].loc = Resident
         /\ r.kind = "Evicted" => ctx'.state = ctx.state
         /\ r.kind \in {"Rewound", "Cleared"} => ctx'.state.at # "awaiting"
<1>1. /\ ~wedged /\ log' = Append(log, r) /\ ctx' = Step(ctx, r) /\ ~wedged'
  BY EmitsOne
<1>2. log \in Seq(Records) /\ Whole(ctx) /\ Replays(log, ctx)
  BY <1>1 DEF Sound
<1>3. log' \in Seq(Records) /\ Len(log') = Len(log) + 1
  BY <1>1, <1>2
<1>4. /\ Whole(Step(ctx, r))
      /\ r.kind \in Kinds => Step(ctx, r).state = Advance(ctx.state, r)
      /\ r.kind \in Kinds => Step(ctx, r).turns # <<>> /\ Step(ctx, r).turns[Len(Step(ctx, r).turns)].loc = Resident
      /\ r.kind = "Evicted" => Step(ctx, r).state = ctx.state
      /\ r.kind \in {"Rewound", "Cleared"} => Step(ctx, r).state.at # "awaiting"
  BY <1>2, StepKeepsWhole
<1>5. Replays(log', ctx')
  BY <1>1, <1>2, <1>4, ReplaysMore
<1> QED BY <1>1, <1>3, <1>4, <1>5

\* After it, if nothing is synced and no place of rest or of a script entered.
LEMMA WrittenIsSound ==
  ASSUME Sound, ~wedged', log' \in Seq(Records), Len(log') >= Len(log), Whole(ctx'), Replays(log', ctx'),
         UNCHANGED <<synced, sent>>, Placing',
         phase' \in {"rest", "running"} =>
           \A i \in (synced + 1) .. Len(log') : log'[i].kind \notin Kinds
  PROVE  Sound'
<1>1. sent \in Nat /\ synced \in Nat /\ sent <= synced /\ synced <= Len(log) /\ log \in Seq(Records)
  BY DEF Sound, Synced
<1>2. Len(log) \in Nat /\ Len(log') \in Nat
  BY <1>1
<1>3. Synced'
  BY <1>1, <1>2 DEF Synced
<1>4. LiveRecordsAdmitted'
  BY DEF LiveRecordsAdmitted
<1> QED BY <1>3, <1>4 DEF Sound

\* A refused answer leaves the context as it was.
LEMMA RefusedIsSound ==
  ASSUME Sound, wedged', log' \in Seq(Records), Len(log') >= Len(log), Whole(ctx'),
         ctx'.state.at = "awaiting", ~IsInjective(ctx'.state.pending),
         UNCHANGED <<synced, sent>>, phase' = "over"
  PROVE  Sound'
<1>1. sent \in Nat /\ synced \in Nat /\ sent <= synced /\ synced <= Len(log) /\ log \in Seq(Records)
  BY DEF Sound, Synced
<1>2. Len(log) \in Nat /\ Len(log') \in Nat
  BY <1>1
<1>3. Synced'
  BY <1>1, <1>2 DEF Synced
<1>4. LiveRecordsAdmitted'
  BY DEF LiveRecordsAdmitted
<1> QED BY <1>3, <1>4 DEF Sound

-----------------------------------------------------------------------------
(* What the session's own records meet in the fold. *)

LEMMA NextIdIs ==
  ASSUME NEW c, Whole(c)
  PROVE  NextId(c) \in Nat \ {0} /\ NextId(c) > Reach(c)
<1>0. /\ c.turns \in Seq(TurnRecord) /\ DOMAIN c.turns = 1 .. Len(c.turns) /\ Len(c.turns) \in Nat
      /\ \A i \in DOMAIN c.turns : c.turns[i].id \in Nat
  BY Fields DEF Whole, Typed
<1>1. Reach(c) \in Nat
  <2>1. CASE c.turns = <<>>
    BY <2>1 DEF Reach
  <2>2. CASE c.turns # <<>>
    <3>1. Len(c.turns) \in DOMAIN c.turns
      BY <1>0, <2>2
    <3> QED BY <1>0, <2>2, <3>1 DEF Reach, Last
  <2> QED BY <2>1, <2>2
<1> QED BY <1>1 DEF NextId

LEMMA OwnRecords ==
  ASSUME NEW n \in Nat, NEW p \in Seq(Nat), NEW span \in Spans
  PROVE  /\ [kind |-> "UserPrompt", turn |-> n] \in Records
         /\ [kind |-> "Import", turn |-> n] \in Records
         /\ [kind |-> "AssistantMessage", turn |-> n, pending |-> p] \in Records
         /\ [kind |-> "ToolResults", ids |-> p] \in Records
         /\ [kind |-> "Steering"] \in Records
         /\ [kind |-> "Evicted", span |-> span] \in Records
         /\ [kind |-> "Rewound", anchor |-> n] \in Records
         /\ [kind |-> "Cleared"] \in Records
<1>1. /\ [kind |-> "UserPrompt", turn |-> n] \in Entry
      /\ [kind |-> "Import", turn |-> n] \in Entry
      /\ [kind |-> "AssistantMessage", turn |-> n, pending |-> p] \in Entry
      /\ [kind |-> "ToolResults", ids |-> p] \in Entry
      /\ [kind |-> "Steering"] \in Entry
  BY DEF Entry
<1> QED BY <1>1 DEF Records

LEMMA JudgeOpens ==
  ASSUME NEW c, Whole(c), NEW len, NEW r, r.turn = NextId(c),
         \/ r.kind \in {"UserPrompt", "Import"} /\ AdmitsNewTurn(c.state)
         \/ r.kind = "AssistantMessage" /\ c.state.at \in {"afterUser", "afterResults"}
  PROVE  Judge(c, len, r)
<1>1. r.turn > Reach(c)
  BY NextIdIs
<1>2. Admissible(c.state, r)
  BY DEF Admissible
<1> QED BY <1>1, <1>2 DEF Judge, ExtendsTurn

LEMMA JudgeSteers ==
  ASSUME NEW c, NEW len, NEW r, r.kind = "Steering", AdmitsNewTurn(c.state),
         c.turns # <<>>, c.turns[Len(c.turns)].loc = Resident
  PROVE  Judge(c, len, r)
BY DEF Judge, Admissible, OpensTurn, ExtendsTurn, Last

\* A batch is answered unless two of its calls have one id.
LEMMA JudgeAnswers ==
  ASSUME NEW c, Whole(c), NEW len, NEW r, r.kind = "ToolResults", r.ids = c.state.pending,
         c.state.at = "awaiting"
  PROVE  /\ Judge(c, len, r) <=> ValidResults(c.state.pending, c.state.pending)
         /\ ValidResults(c.state.pending, c.state.pending) <=> IsInjective(c.state.pending)
<1>1. c.turns # <<>> /\ c.turns[Len(c.turns)].loc = Resident
  BY DEF Whole, Asking
<1>2. ValidResults(c.state.pending, c.state.pending) <=> IsInjective(c.state.pending)
  BY DEF ValidResults
<1>3. Admissible(c.state, r) <=> ValidResults(c.state.pending, c.state.pending)
  BY DEF Admissible
<1>4. Judge(c, len, r) <=> Admissible(c.state, r)
  BY <1>1 DEF Judge, OpensTurn, ExtendsTurn, Last
<1> QED BY <1>2, <1>3, <1>4

LEMMA JudgeCuts ==
  ASSUME NEW c, NEW len, NEW r,
         \/ r.kind = "Evicted" /\ CutHolds(c, r.span)
         \/ r.kind = "Rewound" /\ AnchorHolds(c, r.anchor) /\ AdmitsNewTurn(c.state)
         \/ r.kind = "Cleared" /\ AdmitsNewTurn(c.state)
  PROVE  Judge(c, len, r)
BY DEF Judge, Admissible, OpensTurn, ExtendsTurn

\* Where the automaton goes.
LEMMA AdvancesTo ==
  ASSUME NEW s, NEW r
  PROVE  /\ r.kind \in {"UserPrompt", "Steering"} => Advance(s, r).at = "afterUser"
         /\ r.kind = "ToolResults" => Advance(s, r).at = "afterResults"
         /\ r.kind = "Import" => Advance(s, r) = s
         /\ r.kind = "AssistantMessage" /\ r.pending = <<>> => Advance(s, r).at = "ready"
         /\ r.kind = "AssistantMessage" /\ r.pending # <<>> => Advance(s, r).at = "awaiting"
BY DEF Advance

LEMMA Unclosed ==
  ASSUME NEW c, Typed(c), c.turns # <<>>, c.turns[Len(c.turns)].loc = Resident, c.state.at # "ready"
  PROVE  UnclosedTurn(c) # 0
<1>1. Len(c.turns) \in DOMAIN c.turns
  BY DEF Typed
<1>2. c.turns[Len(c.turns)].id # 0
  BY <1>1, Fields
<1> QED BY <1>2 DEF UnclosedTurn, Last

LEMMA IdsAreNat ==
  ASSUME NEW c, Typed(c)
  PROVE  \A id \in Ids(c) : id \in Nat
<1> TAKE id \in Ids(c)
<1>1. PICK i \in DOMAIN c.turns : c.turns[i].id = id
  BY IdsAre
<1> QED BY <1>1, Fields

-----------------------------------------------------------------------------
(* Step by step. *)

LEMMA InitIsSound == Init => Sound
<1> SUFFICES ASSUME Init PROVE Sound
  OBVIOUS
<1>1. log = <<>> /\ ctx = NewContext /\ phase = "over" /\ synced = 0 /\ sent = 0 /\ ~wedged
  BY DEF Init
<1>2. log \in Seq(Records) /\ Len(log) = 0
  BY <1>1
<1>3. Whole(ctx) /\ Replays(log, ctx)
  BY <1>1, NewIsWhole, ReplaysNothing
<1>4. ctx.state.at = "ready"
  BY <1>1 DEF NewContext, Ready
<1>5. Synced
  BY <1>1, <1>2 DEF Synced
<1>6. Placing
  BY <1>1, <1>4 DEF Placing, AdmitsNewTurn
<1> QED BY <1>1, <1>2, <1>3, <1>5, <1>6 DEF Sound, LiveRecordsAdmitted

\* What every step of the live session starts from.
LEMMA Live ==
  ASSUME Sound, ~wedged
  PROVE  /\ Whole(ctx) /\ Typed(ctx) /\ log \in Seq(Records) /\ Len(log) \in Nat /\ Placing
         /\ ctx.state.at \in {"ready", "afterUser", "afterResults", "awaiting"} /\ ctx.state.pending \in Seq(Nat)
         /\ NextId(ctx) \in Nat /\ NextId(ctx) # 0
         /\ sent \in Nat /\ synced \in Nat /\ sent <= synced /\ synced <= Len(log)
<1>1. Whole(ctx) /\ log \in Seq(Records) /\ Placing /\ Synced
  BY DEF Sound
<1>2. Typed(ctx)
  BY <1>1 DEF Whole
<1>3. Len(log) \in Nat
  BY <1>1
<1> QED BY <1>1, <1>2, <1>3, Fields, NextIdIs DEF Synced

\* An admitted record, from one place to another that asks nothing of the disk.
LEMMA Writes ==
  ASSUME Sound, phase # "down", NEW r \in Records, r.kind # "Inherited", Judge(ctx, Len(log), r),
         r.kind = "Evicted" => r.span[1] <= r.span[2], Emit(<<r>>), UNCHANGED <<synced, sent>>,
         phase' \notin {"rest", "running"},
         Placing'
  PROVE  Sound'
<1>1. /\ ~wedged' /\ log' \in Seq(Records) /\ Len(log') = Len(log) + 1 /\ Whole(ctx') /\ Replays(log', ctx')
  BY Written
<1>2. Len(log) \in Nat
  BY DEF Sound
<1>3. Len(log') >= Len(log)
  BY <1>1, <1>2
<1> QED BY <1>1, <1>3, WrittenIsSound

\* The answer of a batch, given or owed.
LEMMA Answers ==
  ASSUME Sound, ~wedged, phase # "down", ctx.state.at = "awaiting", UNCHANGED <<synced, sent>>,
         NEW r, r = [kind |-> "ToolResults", ids |-> ctx.state.pending], Emit(<<r>>),
         \/ phase' = "over"
         \/ phase' = "arrivals" /\ ValidResults(ctx.state.pending, ctx.state.pending)
  PROVE  Sound'
<1>0. Whole(ctx) /\ log \in Seq(Records) /\ Len(log) \in Nat /\ ctx.state.pending \in Seq(Nat)
  BY Live
<1>1. r.kind = "ToolResults" /\ r.ids = ctx.state.pending
  OBVIOUS
<1>r. r \in Records
  <2>1. \A p \in Seq(Nat) : [kind |-> "ToolResults", ids |-> p] \in Records
    BY DEF Records, Entry
  <2> QED BY <1>0, <2>1
<1>2. /\ Judge(ctx, Len(log), r) <=> ValidResults(ctx.state.pending, ctx.state.pending)
      /\ ValidResults(ctx.state.pending, ctx.state.pending) <=> IsInjective(ctx.state.pending)
  BY <1>0, <1>1, JudgeAnswers
<1>3. CASE Judge(ctx, Len(log), r)
  <2>1. /\ ctx'.state = Advance(ctx.state, r) /\ Whole(ctx')
        /\ ctx'.turns # <<>> /\ ctx'.turns[Len(ctx'.turns)].loc = Resident
    BY <1>1, <1>r, <1>3, Written DEF Kinds
  <2>2. ctx'.state.at = "afterResults"
    BY <1>1, <2>1, AdvancesTo
  <2>3. UnclosedTurn(ctx') # 0
    BY <2>1, <2>2, Unclosed DEF Whole
  <2>4. Placing'
    BY <2>2, <2>3 DEF Placing, AdmitsNewTurn
  <2> QED BY <1>1, <1>r, <1>3, <2>4, Writes
<1>4. CASE ~Judge(ctx, Len(log), r)
  <2>1. log' = Append(log, r) /\ ctx' = ctx /\ wedged'
    BY <1>r, <1>4, EmitsOne
  <2>2. phase' = "over" /\ ~IsInjective(ctx.state.pending)
    BY <1>2, <1>4
  <2>3. log' \in Seq(Records) /\ Len(log') >= Len(log)
    BY <1>0, <1>r, <2>1
  <2> QED BY <1>0, <2>1, <2>2, <2>3, RefusedIsSound
<1> QED BY <1>3, <1>4

LEMMA PromptSteps == Sound /\ Prompt => Sound'
<1> SUFFICES ASSUME Sound, Prompt PROVE Sound'
  OBVIOUS
<1> DEFINE r == UserRecord(0)
<1>1. phase = "rest" /\ phase' = "turn" /\ AdmitsNewTurn(ctx.state) /\ Emit(<<r>>) /\ UNCHANGED <<synced, sent>> /\ ~wedged
  BY DEF Prompt, Goes, Emit
<1>2. Whole(ctx) /\ NextId(ctx) \in Nat
  BY <1>1, Live
<1>3. r = [kind |-> "UserPrompt", turn |-> NextId(ctx)]
  BY DEF UserRecord
<1>4. r \in Records /\ r.kind = "UserPrompt" /\ r.turn = NextId(ctx)
  <2>1. \A n \in Nat : [kind |-> "UserPrompt", turn |-> n] \in Records
    BY DEF Records, Entry
  <2> QED BY <1>2, <1>3, <2>1
<1> HIDE DEF r
<1>5. Judge(ctx, Len(log), r)
  BY <1>1, <1>2, <1>4, JudgeOpens
<1>6. ctx'.state = Advance(ctx.state, r)
  BY <1>1, <1>4, <1>5, Written DEF Kinds
<1>7. ctx'.state.at = "afterUser"
  BY <1>4, <1>6, AdvancesTo
<1>8. Placing'
  BY <1>1, <1>7 DEF Placing
<1> QED BY <1>1, <1>4, <1>5, <1>8, Writes

\* Steering, while the newest turn is in the context.
LEMMA Steers ==
  ASSUME Sound, ~wedged, phase # "down", AdmitsNewTurn(ctx.state), ctx.turns # <<>>,
         ctx.turns[Len(ctx.turns)].loc = Resident, NEW r, r = [kind |-> "Steering"], Emit(<<r>>),
         UNCHANGED <<synced, sent>>, phase' \in {"turn", "arrivals"}
  PROVE  Sound'
<1>1. r \in Records /\ r.kind = "Steering"
  BY DEF Records, Entry
<1>2. Judge(ctx, Len(log), r)
  BY <1>1, JudgeSteers
<1>3. /\ ctx'.state = Advance(ctx.state, r) /\ Whole(ctx')
      /\ ctx'.turns # <<>> /\ ctx'.turns[Len(ctx'.turns)].loc = Resident
  BY <1>1, <1>2, Written DEF Kinds
<1>4. ctx'.state.at = "afterUser"
  BY <1>1, <1>3, AdvancesTo
<1>5. UnclosedTurn(ctx') # 0
  BY <1>3, <1>4, Unclosed DEF Whole
<1>6. Placing'
  BY <1>4, <1>5 DEF Placing
<1> QED BY <1>1, <1>2, <1>6, Writes

LEMMA NudgeSteps == Sound /\ Nudge => Sound'
<1> SUFFICES ASSUME Sound, Nudge PROVE Sound'
  OBVIOUS
<1> DEFINE k == CurrentPrompt(ctx)
           r == UserRecord(k)
<1>1. phase = "ended" /\ phase' = "turn" /\ AdmitsNewTurn(ctx.state) /\ k # 0 /\ Emit(<<r>>)
      /\ UNCHANGED <<synced, sent>> /\ ~wedged
  BY DEF Nudge, Goes, Emit
<1>2. Whole(ctx) /\ NextId(ctx) \in Nat
  BY <1>1, Live
<1>3. CASE LivePrompt(ctx) = k
  <2>1. r = [kind |-> "Steering"]
    BY <1>1, <1>3 DEF UserRecord
  <2>2. ctx.turns # <<>> /\ ctx.turns[Len(ctx.turns)].loc = Resident
    <3> HIDE DEF k
    <3> QED BY <1>1, <1>3 DEF LivePrompt, Last
  <2> HIDE DEF r, k
  <2> QED BY <1>1, <2>1, <2>2, Steers
<1>4. CASE LivePrompt(ctx) # k
  <2>1. r = [kind |-> "UserPrompt", turn |-> NextId(ctx)]
    BY <1>4 DEF UserRecord
  <2>2. r \in Records /\ r.kind = "UserPrompt" /\ r.turn = NextId(ctx)
    <3>1. \A n \in Nat : [kind |-> "UserPrompt", turn |-> n] \in Records
      BY DEF Records, Entry
    <3> HIDE DEF r
    <3> QED BY <1>2, <2>1, <3>1
  <2> HIDE DEF r, k
  <2>3. Judge(ctx, Len(log), r)
    BY <1>1, <1>2, <2>2, JudgeOpens
  <2>4. ctx'.state = Advance(ctx.state, r)
    BY <1>1, <2>2, <2>3, Written DEF Kinds
  <2>5. ctx'.state.at = "afterUser"
    BY <2>2, <2>4, AdvancesTo
  <2>6. Placing'
    BY <1>1, <2>5 DEF Placing
  <2> QED BY <1>1, <2>2, <2>3, <2>6, Writes
<1> QED BY <1>3, <1>4

LEMMA SteerSteps == Sound /\ Steer => Sound'
<1> SUFFICES ASSUME Sound, Steer PROVE Sound'
  OBVIOUS
<1>1. phase = "arrivals" /\ phase' = "arrivals" /\ ctx.state.at \in {"afterUser", "afterResults"}
      /\ UnclosedTurn(ctx) # 0 /\ Emit(<<[kind |-> "Steering"]>>) /\ UNCHANGED <<synced, sent>> /\ ~wedged
  BY DEF Steer, Goes, Emit
<1>2. ctx.turns # <<>> /\ ctx.turns[Len(ctx.turns)].loc = Resident
  BY <1>1 DEF UnclosedTurn, Last
<1>3. AdmitsNewTurn(ctx.state)
  BY <1>1 DEF AdmitsNewTurn
<1> QED BY <1>1, <1>2, <1>3, Steers

\* A cut, away from a script: planned by the turn boundary or by the command.
LEMMA Cuts ==
  ASSUME Sound, ~wedged, phase # "down", NEW span \in Spans, span[1] <= span[2], CutHolds(ctx, span),
         Emit(<<[kind |-> "Evicted", span |-> span]>>), UNCHANGED <<synced, sent>>,
         \/ phase' = "turn" /\ ctx.state.at \in {"afterUser", "afterResults"}
         \/ phase' = "over" /\ AdmitsNewTurn(ctx.state)
  PROVE  Sound'
<1> DEFINE r == [kind |-> "Evicted", span |-> span]
<1>1. r \in Records /\ r.kind = "Evicted" /\ r.span = span
  BY DEF Records
<1>0. Emit(<<r>>)
  OBVIOUS
<1> HIDE DEF r
<1>2. Judge(ctx, Len(log), r)
  BY <1>1, JudgeCuts
<1>3. r.span[1] <= r.span[2]
  BY <1>1
<1>4. ctx'.state = ctx.state
  BY <1>0, <1>1, <1>2, <1>3, Written
<1>5. Placing'
  BY <1>4 DEF Placing, AdmitsNewTurn
<1> QED BY <1>0, <1>1, <1>2, <1>3, <1>5, Writes

LEMMA ForceEvictSteps == Sound /\ ForceEvict => Sound'
<1> SUFFICES ASSUME Sound, ForceEvict PROVE Sound'
  OBVIOUS
<1>1. PICK span \in Planned(ctx) :
        /\ phase \in {"turn", "sent"} /\ phase' = "turn" /\ CutHolds(ctx, span)
        /\ Emit(<<[kind |-> "Evicted", span |-> span]>>) /\ UNCHANGED <<synced, sent>> /\ ~wedged
  BY DEF ForceEvict, Goes, Emit
<1>2. Whole(ctx) /\ Placing
  BY <1>1, Live
<1>3. span \in Spans /\ span[1] <= span[2]
  BY <1>2, PlannedCuts
<1>4. ctx.state.at \in {"afterUser", "afterResults"} /\ phase # "down"
  BY <1>1, <1>2 DEF Placing
<1> QED BY <1>1, <1>3, <1>4, Cuts

LEMMA EvictCommandSteps == Sound /\ EvictCommand => Sound'
<1> SUFFICES ASSUME Sound, EvictCommand PROVE Sound'
  OBVIOUS
<1>1. PICK span \in Planned(ctx) :
        /\ phase = "rest" /\ phase' = "over" /\ CutHolds(ctx, span) /\ AdmitsNewTurn(ctx.state)
        /\ Emit(<<[kind |-> "Evicted", span |-> span]>>) /\ UNCHANGED <<synced, sent>> /\ ~wedged
  BY DEF EvictCommand, Goes, Emit
<1>2. Whole(ctx)
  BY <1>1, Live
<1>3. span \in Spans /\ span[1] <= span[2] /\ phase # "down"
  BY <1>1, <1>2, PlannedCuts
<1> QED BY <1>1, <1>3, Cuts

\* The model's own cut, from a script that runs on: no line of it is a turn's.
LEMMA ModelEvictSteps == Sound /\ ModelEvict => Sound'
<1> SUFFICES ASSUME Sound, ModelEvict PROVE Sound'
  OBVIOUS
<1>1. PICK from \in Ids(ctx), to \in Ids(ctx) :
        /\ phase = "running" /\ phase' = "running" /\ from <= to /\ CutHolds(ctx, <<from, to>>)
        /\ Emit(<<[kind |-> "Evicted", span |-> <<from, to>>]>>) /\ UNCHANGED <<synced, sent>> /\ ~wedged
  BY DEF ModelEvict, Goes, Emit
<1>2. /\ Whole(ctx) /\ Typed(ctx) /\ Placing /\ log \in Seq(Records) /\ Len(log) \in Nat /\ synced \in Nat
      /\ synced <= Len(log)
  BY <1>1, Live
<1> DEFINE span == <<from, to>>
           r == [kind |-> "Evicted", span |-> span]
<1>3. span \in Spans /\ span[1] <= span[2]
  BY <1>1, <1>2, IdsAreNat DEF Spans
<1>4. CutHolds(ctx, span) /\ Emit(<<r>>)
  BY <1>1
<1> HIDE DEF span
<1>5. r \in Records /\ r.kind = "Evicted" /\ r.span = span
  BY <1>3 DEF Records
<1> HIDE DEF r
<1>6. Judge(ctx, Len(log), r) /\ r.span[1] <= r.span[2] /\ phase # "down"
  BY <1>1, <1>3, <1>4, <1>5, JudgeCuts
<1>7. /\ ~wedged' /\ log' = Append(log, r) /\ log' \in Seq(Records) /\ Len(log') = Len(log) + 1
      /\ ctx'.state = ctx.state /\ Whole(ctx') /\ Replays(log', ctx')
  BY <1>4, <1>5, <1>6, Written
<1>8. ctx.state.at = "awaiting"
  BY <1>1, <1>2 DEF Placing
<1>9. Placing'
  BY <1>1, <1>7, <1>8 DEF Placing
<1>10. \A i \in (synced + 1) .. Len(log') : log'[i].kind \notin Kinds
  <2> TAKE i \in (synced + 1) .. Len(log')
  <2>1. i \in (synced + 1) .. Len(log) \/ i = Len(log) + 1
    BY <1>2, <1>7
  <2>2. CASE i \in (synced + 1) .. Len(log)
    <3>1. log'[i] = log[i]
      BY <1>2, <1>5, <1>7, <2>2
    <3>2. log[i].kind \notin Kinds
      BY <1>1, <2>2 DEF Sound, Synced
    <3> QED BY <3>1, <3>2
  <2>3. CASE i = Len(log) + 1
    <3>1. log'[i] = r
      BY <1>2, <1>5, <1>7, <2>3
    <3> QED BY <1>5, <3>1 DEF Kinds
  <2> QED BY <2>1, <2>2, <2>3
<1>11. Len(log') >= Len(log)
  BY <1>2, <1>7
<1> QED BY <1>1, <1>7, <1>9, <1>10, <1>11, WrittenIsSound

LEMMA WithdrawSteps == Sound /\ (Rewind \/ Clear) => Sound'
<1> SUFFICES ASSUME Sound, Rewind \/ Clear PROVE Sound'
  OBVIOUS
<1>1. /\ phase = "rest" /\ phase' = "over" /\ UNCHANGED <<synced, sent>> /\ ~wedged
      /\ \E r \in Records : Emit(<<r>>) /\ r.kind \in {"Rewound", "Cleared"} /\ Judge(ctx, Len(log), r)
  <2>1. CASE Rewind
    <3>1. PICK anchor \in Ids(ctx) :
            /\ phase = "rest" /\ phase' = "over" /\ AnchorHolds(ctx, anchor) /\ AdmitsNewTurn(ctx.state)
            /\ Emit(<<[kind |-> "Rewound", anchor |-> anchor]>>) /\ UNCHANGED <<synced, sent>> /\ ~wedged
      BY <2>1 DEF Rewind, Goes, Emit
    <3> DEFINE r == [kind |-> "Rewound", anchor |-> anchor]
    <3>2. anchor \in Nat
      BY <3>1, Live, IdsAreNat
    <3>3. r \in Records /\ r.kind = "Rewound" /\ r.anchor = anchor
      BY <3>2 DEF Records
    <3>4. Emit(<<r>>)
      BY <3>1
    <3> HIDE DEF r
    <3>5. Judge(ctx, Len(log), r)
      BY <3>1, <3>3, JudgeCuts
    <3> QED BY <3>1, <3>3, <3>4, <3>5
  <2>2. CASE Clear
    <3> DEFINE r == [kind |-> "Cleared"]
    <3>1. /\ phase = "rest" /\ phase' = "over" /\ AdmitsNewTurn(ctx.state)
          /\ Emit(<<r>>) /\ UNCHANGED <<synced, sent>> /\ ~wedged
      BY <2>2 DEF Clear, Goes, Emit
    <3>2. r \in Records /\ r.kind = "Cleared"
      BY DEF Records
    <3> HIDE DEF r
    <3>3. Judge(ctx, Len(log), r)
      BY <3>1, <3>2, JudgeCuts
    <3> QED BY <3>1, <3>2, <3>3
  <2> QED BY <2>1, <2>2
<1>2. PICK r \in Records : Emit(<<r>>) /\ r.kind \in {"Rewound", "Cleared"} /\ Judge(ctx, Len(log), r)
  BY <1>1
<1>3. phase # "down" /\ r.kind # "Inherited" /\ (r.kind = "Evicted" => r.span[1] <= r.span[2])
  BY <1>1, <1>2
<1>4. ctx'.state.at # "awaiting"
  BY <1>2, <1>3, Written
<1>5. Placing'
  BY <1>1, <1>4 DEF Placing, AdmitsNewTurn
<1> QED BY <1>1, <1>2, <1>3, <1>5, Writes

LEMMA ReplySteps == ASSUME NEW b \in Batches \cup {<<>>} PROVE Sound /\ Reply(b) => Sound'
<1> SUFFICES ASSUME Sound, Reply(b) PROVE Sound'
  OBVIOUS
<1> DEFINE r == [kind |-> "AssistantMessage", turn |-> NextId(ctx), pending |-> b]
<1>1. /\ phase = "sent" /\ phase' = (IF b = <<>> THEN "ended" ELSE "batch")
      /\ ctx.state.at \in {"afterUser", "afterResults"} /\ Emit(<<r>>) /\ UNCHANGED <<synced, sent>> /\ ~wedged
  BY DEF Reply, Goes, Emit
<1>2. Whole(ctx) /\ NextId(ctx) \in Nat
  BY <1>1, Live
<1>3. b \in Seq(Nat)
  <2>1. CASE b = <<>>
    BY <2>1
  <2>2. CASE b \in Batches
    <3>1. PICK n \in Sizes : b \in {[i \in 1 .. n |-> i], [i \in 1 .. n |-> 1]}
      BY <2>2 DEF Batches
    <3>2. n \in Nat
      BY SizesAssumption
    <3>3. [i \in 1 .. n |-> i] \in Seq(Nat) /\ [i \in 1 .. n |-> 1] \in Seq(Nat)
      BY <3>2
    <3> QED BY <3>1, <3>3
  <2> QED BY <2>1, <2>2
<1>4. r \in Records /\ r.kind = "AssistantMessage" /\ r.turn = NextId(ctx) /\ r.pending = b
  <2>1. \A n \in Nat, p \in Seq(Nat) : [kind |-> "AssistantMessage", turn |-> n, pending |-> p] \in Records
    BY DEF Records, Entry
  <2> QED BY <1>2, <1>3, <2>1
<1> HIDE DEF r
<1>5. Judge(ctx, Len(log), r)
  BY <1>1, <1>2, <1>4, JudgeOpens
<1>6. ctx'.state = Advance(ctx.state, r)
  BY <1>1, <1>4, <1>5, Written DEF Kinds
<1>7. ctx'.state.at = IF b = <<>> THEN "ready" ELSE "awaiting"
  BY <1>4, <1>6, AdvancesTo
<1>8. Placing'
  BY <1>1, <1>7 DEF Placing, AdmitsNewTurn
<1>9. phase # "down" /\ r.kind # "Inherited" /\ r.kind # "Evicted" /\ phase' \notin {"rest", "running"}
  BY <1>1, <1>4
<1> QED BY <1>1, <1>4, <1>5, <1>8, <1>9, Writes

LEMMA AnswerSteps == Sound /\ Answer => Sound'
<1> SUFFICES ASSUME Sound, Answer PROVE Sound'
  OBVIOUS
<1>1. /\ phase \in {"batch", "running"} /\ Emit(<<[kind |-> "ToolResults", ids |-> ctx.state.pending]>>)
      /\ UNCHANGED <<synced, sent>> /\ ~wedged
      /\ \/ phase' = "over"
         \/ phase' = "arrivals" /\ ValidResults(ctx.state.pending, ctx.state.pending)
  BY DEF Answer, Goes, Emit
<1>2. ctx.state.at = "awaiting" /\ phase # "down"
  BY <1>1, Live DEF Placing
<1> QED BY <1>1, <1>2, Answers

\* What a quiesce owes is one record at most.
LEMMA QuiesceFew ==
  ASSUME NEW c, NEW reason, reason = "replied" => c.state.at # "awaiting"
  PROVE  /\ c.state.at = "awaiting" =>
              QuiesceRecords(c, reason) = <<[kind |-> "ToolResults", ids |-> c.state.pending]>>
         /\ c.state.at # "awaiting" /\ reason = "replied" /\ c.state.at # "ready" =>
              QuiesceRecords(c, reason) = <<[kind |-> "AssistantMessage", turn |-> NextId(c), pending |-> <<>>]>>
         /\ c.state.at # "awaiting" /\ reason # "replied" => QuiesceRecords(c, reason) = <<>>
<1>1. \A x : <<x>> \o <<>> = <<x>> /\ <<>> \o <<x>> = <<x>> /\ <<>> \o <<>> = <<>>
  OBVIOUS
<1> QED BY <1>1 DEF QuiesceRecords

LEMMA RepliedSteps == Sound /\ Replied => Sound'
<1> SUFFICES ASSUME Sound, Replied PROVE Sound'
  OBVIOUS
<1> DEFINE r == [kind |-> "AssistantMessage", turn |-> NextId(ctx), pending |-> <<>>]
<1>1. /\ phase = "arrivals" /\ phase' = "ended" /\ Emit(QuiesceRecords(ctx, "replied"))
      /\ UNCHANGED <<synced, sent>> /\ ~wedged
  BY DEF Replied, Quiesce, Goes, Emit
<1>2. Whole(ctx) /\ NextId(ctx) \in Nat /\ ctx.state.at \in {"afterUser", "afterResults"}
  BY <1>1, Live DEF Placing
<1>3. QuiesceRecords(ctx, "replied") = <<r>>
  BY <1>2, QuiesceFew
<1>4. r \in Records /\ r.kind = "AssistantMessage" /\ r.turn = NextId(ctx) /\ r.pending = <<>>
  <2>1. \A n \in Nat, p \in Seq(Nat) : [kind |-> "AssistantMessage", turn |-> n, pending |-> p] \in Records
    BY DEF Records, Entry
  <2>2. <<>> \in Seq(Nat)
    OBVIOUS
  <2> QED BY <1>2, <2>1, <2>2
<1> HIDE DEF r
<1>5. Judge(ctx, Len(log), r)
  BY <1>2, <1>4, JudgeOpens
<1>6. Emit(<<r>>)
  BY <1>1, <1>3
<1>7. ctx'.state = Advance(ctx.state, r)
  BY <1>1, <1>4, <1>5, <1>6, Written DEF Kinds
<1>8. ctx'.state.at = "ready"
  BY <1>4, <1>7, AdvancesTo
<1>9. Placing'
  BY <1>1, <1>8 DEF Placing, AdmitsNewTurn
<1>10. phase # "down" /\ r.kind # "Inherited" /\ r.kind # "Evicted" /\ phase' \notin {"rest", "running"}
  BY <1>1, <1>4
<1> QED BY <1>1, <1>4, <1>5, <1>6, <1>9, <1>10, Writes

LEMMA QuiesceSteps ==
  ASSUME Sound, NEW from \in SUBSET {"turn", "sent", "batch", "running", "arrivals"}, NEW to \in {"over", "ended"},
         NEW reason, reason # "replied", Quiesce(from, to, reason),
         to = "over" \/ from = {"sent"}
  PROVE  Sound'
<1>1. /\ phase \in from /\ phase' = to /\ Emit(QuiesceRecords(ctx, reason)) /\ UNCHANGED <<synced, sent>> /\ ~wedged
  BY DEF Quiesce, Goes, Emit
<1>2. Whole(ctx) /\ Placing /\ phase # "down" /\ log \in Seq(Records) /\ Len(log) \in Nat
  BY <1>1, Live
<1>3. CASE ctx.state.at = "awaiting"
  <2>1. Emit(<<[kind |-> "ToolResults", ids |-> ctx.state.pending]>>)
    BY <1>1, <1>3, QuiesceFew
  <2>2. phase' = "over"
    BY <1>1, <1>2, <1>3 DEF Placing
  <2> QED BY <1>1, <1>2, <1>3, <2>1, <2>2, Answers
<1>4. CASE ctx.state.at # "awaiting"
  <2>1. Emit(<<>>)
    BY <1>1, <1>4, QuiesceFew
  <2>2. log' = log /\ ctx' = ctx /\ ~wedged'
    BY <2>1, EmitsNone
  <2>3. Replays(log, ctx)
    BY <1>1, <1>2 DEF Sound
  <2>4. Placing'
    BY <1>1, <1>4, <2>2 DEF Placing, AdmitsNewTurn
  <2>5. phase' \notin {"rest", "running"} /\ Len(log') >= Len(log)
    BY <1>1, <1>2, <2>2
  <2>6. log' \in Seq(Records) /\ Whole(ctx') /\ Replays(log', ctx')
    BY <1>2, <2>2, <2>3
  <2> QED BY <1>1, <2>2, <2>4, <2>5, <2>6, WrittenIsSound
<1> QED BY <1>3, <1>4

\* Steps that sync, or only move on.
LEMMA SyncSteps == Sound /\ (Send \/ RunCall \/ Continue \/ Certify) => Sound'
<1> SUFFICES ASSUME Sound, Send \/ RunCall \/ Continue \/ Certify PROVE Sound'
  OBVIOUS
<1>1. /\ ~wedged /\ wedged' = wedged /\ log' = log /\ ctx' = ctx
      /\ \/ phase = "turn" /\ phase' = "sent" /\ synced' = Len(log) /\ sent' = Len(log)
         \/ phase \in {"batch", "running"} /\ phase' = "running" /\ synced' = Len(log) /\ sent' = sent
         \/ phase = "arrivals" /\ phase' = "turn" /\ synced' = synced /\ sent' = sent
         \/ phase \in {"ended", "over"} /\ phase' = "rest" /\ synced' = Len(log) /\ sent' = sent
  BY DEF Send, RunCall, Continue, Certify, Goes
<1>2. /\ Placing /\ Whole(ctx) /\ log \in Seq(Records) /\ Len(log) \in Nat
      /\ sent \in Nat /\ synced \in Nat /\ sent <= synced /\ synced <= Len(log)
  BY <1>1, Live
<1>3. Replays(log, ctx)
  BY <1>1 DEF Sound
<1>4. Placing'
  BY <1>1, <1>2 DEF Placing
<1>5. Synced'
  <2>1. /\ sent' \in Nat /\ synced' \in Nat /\ sent' <= synced' /\ synced' <= Len(log)
        /\ phase' \in {"rest", "running"} => synced' = Len(log)
    BY <1>1, <1>2
  <2>2. (Len(log) + 1) .. Len(log) = {}
    BY <1>2
  <2> QED BY <1>1, <2>1, <2>2 DEF Synced
<1>6. ~wedged'
  BY <1>1
<1> QED BY <1>1, <1>2, <1>3, <1>4, <1>5, <1>6 DEF Sound, LiveRecordsAdmitted

LEMMA ForkSteps == Sound /\ Fork => Sound'
<1> SUFFICES ASSUME Sound, Fork PROVE Sound'
  OBVIOUS
<1> DEFINE r == Link(ctx)
           d == Child(ctx)
<1>1. /\ phase' = "over" /\ ~wedged /\ log' = <<r>> /\ ctx' = Folded(<<r>>).ctx /\ wedged' = ~Folded(<<r>>).ok
      /\ synced' = 0 /\ sent' = 0
  BY DEF Fork, Goes
<1>2. Whole(ctx) /\ Typed(ctx)
  BY <1>1, Live
<1>3. r \in Records /\ Judge(NewContext, 0, r) /\ Step(NewContext, r) = d /\ Whole(d)
  BY <1>2, LinkIsRecord, LinkIsAdmitted, InstallingIs, ChildIsWhole
<1>4. d.state.at = "ready"
  BY DEF Child, Ready
<1> HIDE DEF r, d
<1>5. Replays(<<r>>, d)
  <2>1. <<>> \in Seq(Records) /\ Len(<<>>) = 0 /\ Append(<<>>, r) = <<r>>
    OBVIOUS
  <2>2. Replays(Append(<<>>, r), Step(NewContext, r))
    BY <1>3, <2>1, ReplaysNothing, ReplaysMore
  <2> QED BY <1>3, <2>1, <2>2
<1>6. <<r>> \in Seq(Records) /\ Len(<<r>>) = 1
  BY <1>3
<1>7. Folded(<<r>>).ok = TRUE /\ Folded(<<r>>).ctx = d
  BY <1>5, <1>6, FoldedReplays
<1>8. ctx' = d /\ ~wedged' /\ log' \in Seq(Records) /\ Whole(ctx') /\ Replays(log', ctx')
  BY <1>1, <1>3, <1>5, <1>6, <1>7
<1>9. Placing'
  BY <1>1, <1>4, <1>8 DEF Placing, AdmitsNewTurn
<1>10. Synced'
  BY <1>1, <1>6 DEF Synced
<1> QED BY <1>8, <1>9, <1>10 DEF Sound, LiveRecordsAdmitted

LEMMA CrashSteps == Sound /\ Crash => Sound'
<1> SUFFICES ASSUME Sound, Crash PROVE Sound'
  OBVIOUS
<1>1. PICK n \in synced .. Len(log) :
        /\ log' = SubSeq(log, 1, n) /\ phase' = "down" /\ ctx' = NewContext /\ synced' = Len(log')
        /\ sent' = sent /\ ~wedged /\ wedged' = wedged
  BY DEF Crash
<1>2. log \in Seq(Records) /\ Len(log) \in Nat /\ sent \in Nat /\ synced \in Nat /\ sent <= synced
  BY <1>1, Live
<1>3. PICK c : Replays(log, c)
  BY <1>1 DEF Sound
<1>4. n \in 0 .. Len(log) /\ n \in Nat /\ sent <= n
  BY <1>2
<1>5. log' \in Seq(Records) /\ Len(log') = n /\ \E d : Replays(log', d)
  BY <1>1, <1>2, <1>3, <1>4, ReplaysLess
<1>6. Synced'
  BY <1>1, <1>2, <1>4, <1>5 DEF Synced
<1>7. Placing'
  BY <1>1 DEF Placing
<1>8. Whole(ctx')
  BY <1>1, NewIsWhole
<1> QED BY <1>1, <1>5, <1>6, <1>7, <1>8 DEF Sound, LiveRecordsAdmitted

\* Resume's note, after whatever the log owed.
Noted(l, c) == Emitted([ok |-> TRUE, log |-> l, ctx |-> c], <<[kind |-> "Import", turn |-> NextId(c)]>>)

LEMMA Notes ==
  ASSUME NEW l \in Seq(Records), NEW c, Replays(l, c), Whole(c), c.state.at # "awaiting"
  PROVE  LET e == Noted(l, c)
         IN  /\ e.ok = TRUE /\ e.log \in Seq(Records) /\ Len(e.log) = Len(l) + 1
             /\ Replays(e.log, e.ctx) /\ Whole(e.ctx) /\ e.ctx.state.at # "awaiting"
<1> DEFINE r == [kind |-> "Import", turn |-> NextId(c)]
           q == [ok |-> TRUE, log |-> l, ctx |-> c]
           e == Noted(l, c)
<1>q. q.ok = TRUE /\ q.log = l /\ q.ctx = c
  OBVIOUS
<1>1. NextId(c) \in Nat
  BY NextIdIs
<1>2. r \in Records /\ r.kind = "Import" /\ r.turn = NextId(c)
  <2>1. \A n \in Nat : [kind |-> "Import", turn |-> n] \in Records
    BY DEF Records, Entry
  <2> QED BY <1>1, <2>1
<1>3. e = Emitted(q, <<r>>)
  BY DEF Noted
<1> HIDE DEF r, q, e
<1>4. Judge(c, Len(l), r) /\ Judge(c, Len(l), r) = TRUE
  <2>1. Judge(c, Len(l), r)
    BY <1>2, JudgeOpens DEF AdmitsNewTurn
  <2> QED BY <2>1 DEF Judge
<1>5. <<r>> \in Seq(Records) /\ Len(<<r>>) = 1 /\ <<r>>[1] = r
  BY <1>2
<1>6. e = Recording(q, r)
  BY <1>3, <1>5, EmittedFew
<1>7. e = [ok |-> TRUE, log |-> Append(l, r), ctx |-> Step(c, r)]
  BY <1>q, <1>4, <1>6, RecordingIs
<1>8. Whole(Step(c, r)) /\ Step(c, r).state = Advance(c.state, r)
  BY <1>2, <1>4, StepKeepsWhole DEF Kinds
<1>9. Advance(c.state, r) = c.state
  BY <1>2, AdvancesTo
<1>10. Replays(Append(l, r), Step(c, r))
  BY <1>2, <1>4, <1>8, ReplaysMore
<1>11. Append(l, r) \in Seq(Records) /\ Len(Append(l, r)) = Len(l) + 1
  BY <1>2
<1>12. e.ok = TRUE /\ e.log = Append(l, r) /\ e.ctx = Step(c, r)
  <2>1. \A a, b : LET x == [ok |-> TRUE, log |-> a, ctx |-> b] IN x.ok = TRUE /\ x.log = a /\ x.ctx = b
    OBVIOUS
  <2> QED BY <1>7, <2>1
<1>13. /\ e.ok = TRUE /\ e.log \in Seq(Records) /\ Len(e.log) = Len(l) + 1
       /\ Replays(e.log, e.ctx) /\ Whole(e.ctx) /\ e.ctx.state.at # "awaiting"
  BY <1>8, <1>9, <1>10, <1>11, <1>12
<1> QED BY <1>13 DEF e

LEMMA ResumeSteps == Sound /\ Resume => Sound'
<1> SUFFICES ASSUME Sound, Resume PROVE Sound'
  OBVIOUS
<1> DEFINE f == Folded(log)
           from == [ok |-> f.ok, log |-> log, ctx |-> f.ctx]
           q == Emitted(from, QuiesceRecords(f.ctx, "aborted"))
           e == Emitted(q, <<[kind |-> "Import", turn |-> NextId(q.ctx)]>>)
<1>1. /\ phase' = "over" /\ ~wedged /\ log' = e.log /\ ctx' = e.ctx /\ wedged' = ~e.ok
      /\ UNCHANGED <<synced, sent>>
  BY DEF Resume, Goes
<1>2. log \in Seq(Records) /\ Len(log) \in Nat
  BY <1>1, Live
<1>3. PICK c : Replays(log, c)
  BY <1>1 DEF Sound
<1>4. f.ok = TRUE /\ f.ctx = c /\ Whole(c)
  BY <1>2, <1>3, FoldedReplays
<1> HIDE DEF f
<1>5. from = [ok |-> TRUE, log |-> log, ctx |-> c]
  BY <1>4
<1> HIDE DEF from
<1>6. q = Emitted(from, QuiesceRecords(c, "aborted"))
  BY <1>4
<1> HIDE DEF q
<1>7. CASE c.state.at # "awaiting"
  <2>1. QuiesceRecords(c, "aborted") = <<>>
    BY <1>7, QuiesceFew
  <2>2. q = from
    <3>1. <<>> \in Seq(Records)
      OBVIOUS
    <3> QED BY <1>6, <2>1, <3>1, EmittedFew
  <2>3. q = [ok |-> TRUE, log |-> log, ctx |-> c] /\ q.ctx = c
    BY <1>5, <2>2
  <2>4. e = Noted(log, c)
    BY <2>3 DEF Noted
  <2> HIDE DEF e
  <2>5. /\ e.ok = TRUE /\ e.log \in Seq(Records) /\ Len(e.log) = Len(log) + 1
        /\ Replays(e.log, e.ctx) /\ Whole(e.ctx) /\ e.ctx.state.at # "awaiting"
    BY <1>2, <1>3, <1>4, <1>7, <2>4, Notes
  <2>6. ~wedged' /\ Placing' /\ Len(log') >= Len(log)
    <3>1. ~wedged'
      BY <1>1, <1>2, <2>5
    <3>2. phase' = "over" /\ ctx'.state.at # "awaiting"
      BY <1>1, <1>2, <2>5
    <3>3. Placing'
      BY <3>2 DEF Placing, AdmitsNewTurn
    <3>4. Len(log') >= Len(log)
      BY <1>1, <1>2, <2>5
    <3> QED BY <3>1, <3>3, <3>4
  <2> QED BY <1>1, <2>5, <2>6, WrittenIsSound
<1>8. CASE c.state.at = "awaiting"
  <2> DEFINE r == [kind |-> "ToolResults", ids |-> c.state.pending]
             l == Append(log, r)
  <2>1. QuiesceRecords(c, "aborted") = <<r>>
    BY <1>8, QuiesceFew
  <2>2. r \in Records /\ r.kind = "ToolResults" /\ r.ids = c.state.pending
    <3>1. \A p \in Seq(Nat) : [kind |-> "ToolResults", ids |-> p] \in Records
      BY DEF Records, Entry
    <3>2. c.state.pending \in Seq(Nat)
      BY <1>4, Fields DEF Whole
    <3> QED BY <3>1, <3>2
  <2> HIDE DEF r
  <2>3. q = Recording(from, r)
    <3>1. <<r>> \in Seq(Records) /\ Len(<<r>>) = 1 /\ <<r>>[1] = r
      BY <2>2
    <3> QED BY <1>6, <2>1, <3>1, EmittedFew
  <2>4. q = [ok |-> Judge(c, Len(log), r), log |-> l,
             ctx |-> IF Judge(c, Len(log), r) THEN Step(c, r) ELSE c]
    <3>1. from.ok = TRUE /\ from.log = log /\ from.ctx = c
      BY <1>5
    <3> QED BY <2>3, <3>1, RecordingIs
  <2>5. l \in Seq(Records) /\ Len(l) = Len(log) + 1
    BY <1>2, <2>2
  <2>6. CASE Judge(c, Len(log), r)
    <3>1. Judge(c, Len(log), r) = TRUE
      BY <2>6 DEF Judge
    <3> DEFINE d == Step(c, r)
    <3>2. Whole(d) /\ d.state = Advance(c.state, r)
      BY <1>4, <2>2, <2>6, StepKeepsWhole DEF Kinds
    <3>3. Replays(l, d)
      BY <1>2, <1>3, <2>2, <2>6, <3>2, ReplaysMore
    <3>4. d.state.at # "awaiting"
      BY <2>2, <3>2, AdvancesTo
    <3> HIDE DEF d
    <3>5. q = [ok |-> TRUE, log |-> l, ctx |-> d] /\ q.ctx = d
      BY <2>4, <3>1 DEF d
    <3>6. e = Noted(l, d)
      BY <3>5 DEF Noted
    <3> HIDE DEF e, l
    <3>7. /\ e.ok = TRUE /\ e.log \in Seq(Records) /\ Len(e.log) = Len(l) + 1
          /\ Replays(e.log, e.ctx) /\ Whole(e.ctx) /\ e.ctx.state.at # "awaiting"
      BY <2>5, <3>2, <3>3, <3>4, <3>6, Notes
    <3>8. ~wedged' /\ Placing' /\ Len(log') >= Len(log)
      <4>1. ~wedged'
        BY <1>1, <1>2, <2>5, <3>7
      <4>2. phase' = "over" /\ ctx'.state.at # "awaiting"
        BY <1>1, <1>2, <2>5, <3>7
      <4>3. Placing'
        BY <4>2 DEF Placing, AdmitsNewTurn
      <4>4. Len(log') >= Len(log)
        BY <1>1, <1>2, <2>5, <3>7
      <4> QED BY <4>1, <4>3, <4>4
    <3> QED BY <1>1, <3>7, <3>8, WrittenIsSound
  <2>7. CASE ~Judge(c, Len(log), r)
    <3>1. ~IsInjective(c.state.pending)
      BY <1>4, <1>8, <2>2, <2>7, JudgeAnswers
    <3>2. ~q.ok /\ q.log = l /\ q.ctx = c
      BY <2>4, <2>7
    <3> DEFINE note == [kind |-> "Import", turn |-> NextId(c)]
    <3>3. <<note>> \in Seq({note}) /\ Len(<<note>>) = 1 /\ <<note>>[1] = note
      OBVIOUS
    <3>4. e = Emitted(q, <<note>>)
      BY <3>2
    <3> HIDE DEF note, e
    <3>5. e = Recording(q, note)
      BY <3>3, <3>4, EmittedFew
    <3>6. e = q
      BY <3>2, <3>5 DEF Recording
    <3>7. wedged' /\ log' = l /\ ctx' = c
      BY <1>1, <3>2, <3>6
    <3>8. Len(log') >= Len(log)
      BY <1>2, <2>5, <3>7
    <3> QED BY <1>1, <1>4, <1>8, <2>5, <3>1, <3>7, <3>8, RefusedIsSound
  <2> QED BY <2>6, <2>7
<1> QED BY <1>7, <1>8

LEMMA SoundStep == Sound /\ [Next]_vars => Sound'
<1> SUFFICES ASSUME Sound, [Next]_vars PROVE Sound'
  OBVIOUS
<1>1. CASE UNCHANGED vars
  <2>1. log' = log /\ ctx' = ctx /\ phase' = phase /\ synced' = synced /\ sent' = sent /\ wedged' = wedged
    BY <1>1 DEF vars
  <2> QED BY <2>1 DEF Sound, Synced, Placing, LiveRecordsAdmitted
<1>2. CASE Halted
  BY <1>2, QuiesceSteps DEF Halted
<1>3. CASE Failed
  BY <1>3, QuiesceSteps DEF Failed
<1>4. CASE Panics
  BY <1>4, QuiesceSteps DEF Panics
<1>5. CASE \E b \in Batches \cup {<<>>} : Reply(b)
  BY <1>5, ReplySteps
<1> QED BY <1>1, <1>2, <1>3, <1>4, <1>5, PromptSteps, NudgeSteps, ForceEvictSteps, ModelEvictSteps, AnswerSteps,
           SteerSteps, RepliedSteps, SyncSteps, WithdrawSteps, EvictCommandSteps, ForkSteps, CrashSteps,
           ResumeSteps DEF Next

\* The record replays, the context is whole, and the agent is in its place.
THEOREM TurnsSound == Spec => []Sound
BY InitIsSound, SoundStep, PTL DEF Spec

-----------------------------------------------------------------------------
(* Sequences laid end to end. *)

FlatBy(f, s, n) == f[0] = <<>> /\ \A k \in 1 .. n : f[k] = f[k - 1] \o s[k]

LEMMA FlattenFolds ==
  ASSUME NEW S, NEW s \in Seq(Seq(S))
  PROVE  \E f : FlatBy(f, s, Len(s)) /\ FlattenSeq(s) = f[Len(s)] /\ \A k \in 0 .. Len(s) : f[k] \in Seq(S)
<1> DEFINE N == Len(s)
           Turn(f, k) == IF k = 1 THEN s[k] ELSE f[k - 1] \o s[k]
           Folds(f, n) == FlatBy(f, s, n) /\ \A k \in 0 .. n : f[k] \in Seq(S)
           Bad == {n \in 0 .. N : ~ \E f : Folds(f, n)}
           flat == CHOOSE f : f = [k \in 1 .. N |-> Turn(f, k)]
<1>0. N \in Nat /\ \A k \in 1 .. N : s[k] \in Seq(S)
  OBVIOUS
<1>s. \A a, b \in Seq(S) : a \o b \in Seq(S)
  OBVIOUS
<1>e. <<>> \in Seq(S) /\ \A a \in Seq(S) : <<>> \o a = a
  OBVIOUS
<1>t. FlattenSeq(s) = IF N = 0 THEN s ELSE flat[N]
  BY DEF FlattenSeq
<1> HIDE DEF N
<1>1. Bad = {}
  <2> SUFFICES ASSUME Bad # {} PROVE FALSE
    OBVIOUS
  <2>1. PICK n \in Bad : \A m \in Bad : n <= m
    <3>1. Bad \subseteq Nat
      BY <1>0
    <3> HIDE DEF Bad
    <3> QED BY <3>1, LeastOf
  <2>2. n # 0
    <3> SUFFICES ASSUME n = 0 PROVE FALSE
      OBVIOUS
    <3> DEFINE g == [k \in {0} |-> <<>>]
    <3>1. g[0] = <<>> /\ 1 .. 0 = {} /\ 0 .. 0 = {0}
      OBVIOUS
    <3> HIDE DEF g
    <3>2. Folds(g, 0)
      BY <1>e, <3>1 DEF FlatBy
    <3> QED BY <2>1, <3>2
  <2>3. n - 1 \in 0 .. N /\ n \in Nat /\ ~(n <= n - 1) /\ n \in 1 .. N /\ n - 1 \in Nat /\ n - 1 \in 0 .. (n - 1)
    BY <1>0, <2>2
  <2>4. PICK f : Folds(f, n - 1)
    BY <2>1, <2>3
  <2> DEFINE g == [k \in 0 .. n |-> IF k = n THEN f[n - 1] \o s[n] ELSE f[k]]
  <2>5. \A k \in 0 .. n : g[k] = IF k = n THEN f[n - 1] \o s[n] ELSE f[k]
    OBVIOUS
  <2> HIDE DEF g
  <2>6. g[0] = <<>>
    BY <2>2, <2>3, <2>4, <2>5 DEF FlatBy
  <2>7. ASSUME NEW k \in 1 .. n PROVE g[k] = g[k - 1] \o s[k]
    <3>1. k \in 0 .. n /\ k - 1 \in 0 .. n /\ k - 1 # n /\ (k # n => k \in 1 .. (n - 1))
      BY <2>3
    <3>2. g[k - 1] = f[k - 1]
      BY <2>5, <3>1
    <3>3. CASE k = n
      BY <2>5, <3>1, <3>2, <3>3
    <3>4. CASE k # n
      BY <2>4, <2>5, <3>1, <3>2, <3>4 DEF FlatBy
    <3> QED BY <3>3, <3>4
  <2>8. ASSUME NEW k \in 0 .. n PROVE g[k] \in Seq(S)
    <3>1. k # n => k \in 0 .. (n - 1)
      BY <2>3
    <3>2. f[n - 1] \in Seq(S) /\ s[n] \in Seq(S)
      BY <1>0, <2>3, <2>4
    <3>3. f[n - 1] \o s[n] \in Seq(S)
      BY <1>s, <3>2
    <3> QED BY <2>4, <2>5, <3>1, <3>3
  <2>9. Folds(g, n)
    BY <2>6, <2>7, <2>8 DEF FlatBy
  <2> QED BY <2>1, <2>9
<1>2. PICK f : Folds(f, N)
  <2>1. N \in 0 .. N
    BY <1>0
  <2>2. N \notin Bad
    <3> HIDE DEF Bad
    <3> QED BY <1>1
  <2> QED BY <2>1, <2>2
<1>3. CASE N = 0
  <2>1. s = <<>>
    BY <1>3 DEF N
  <2>2. FlattenSeq(s) = f[N]
    BY <1>2, <1>3, <1>t, <2>1 DEF FlatBy
  <2> QED BY <1>2, <2>2 DEF N
<1>4. CASE N # 0
  <2>1. \E h : h = [k \in 1 .. N |-> Turn(h, k)]
    <3> DEFINE g == [k \in 1 .. N |-> f[k]]
    <3>1. \A k \in 1 .. N : g[k] = f[k]
      OBVIOUS
    <3>2. ASSUME NEW k \in 1 .. N PROVE f[k] = Turn(g, k)
      <4>1. f[k] = f[k - 1] \o s[k]
        BY <1>2 DEF FlatBy
      <4>2. CASE k = 1
        <5>1. k - 1 = 0 /\ f[0] = <<>> /\ s[k] \in Seq(S)
          BY <1>0, <1>2, <4>2 DEF FlatBy
        <5> QED BY <1>e, <4>1, <4>2, <5>1
      <4>3. CASE k # 1
        <5>1. k - 1 \in 1 .. N
          BY <1>0, <4>3
        <5> QED BY <3>1, <4>1, <4>3, <5>1
      <4> QED BY <4>2, <4>3
    <3> HIDE DEF Turn
    <3>3. g = [k \in 1 .. N |-> Turn(g, k)]
      BY <3>2
    <3> QED BY <3>3
  <2>2. flat = [k \in 1 .. N |-> Turn(flat, k)]
    <3> HIDE DEF Turn
    <3> QED BY <2>1
  <2> HIDE DEF flat
  <2> DEFINE h == [k \in 0 .. N |-> IF k = 0 THEN <<>> ELSE flat[k]]
  <2>3. h[0] = <<>> /\ \A k \in 1 .. N : h[k] = flat[k]
    BY <1>0
  <2> HIDE DEF h
  <2>4. ASSUME NEW k \in 1 .. N PROVE h[k] = h[k - 1] \o s[k]
    <3>1. flat[k] = Turn(flat, k)
      <4> HIDE DEF Turn
      <4> QED BY <2>2
    <3>2. CASE k = 1
      <4>1. k - 1 = 0 /\ s[k] \in Seq(S)
        BY <1>0, <3>2
      <4> QED BY <1>e, <2>3, <3>1, <3>2, <4>1
    <3>3. CASE k # 1
      <4>1. k - 1 \in 1 .. N
        BY <1>0, <3>3
      <4> QED BY <2>3, <3>1, <3>3, <4>1
    <3> QED BY <3>2, <3>3
  <2>5. FlatBy(h, s, N)
    BY <2>3, <2>4 DEF FlatBy
  <2> DEFINE Odd == {k \in 0 .. N : h[k] # f[k]}
  <2>6. Odd = {}
    <3> SUFFICES ASSUME Odd # {} PROVE FALSE
      OBVIOUS
    <3>1. PICK k \in Odd : \A m \in Odd : k <= m
      <4>1. Odd \subseteq Nat
        BY <1>0
      <4> HIDE DEF Odd
      <4> QED BY <4>1, LeastOf
    <3>2. k # 0
      BY <1>2, <2>3, <3>1 DEF FlatBy
    <3>3. k \in 1 .. N /\ k - 1 \in 0 .. N /\ ~(k <= k - 1)
      BY <1>0, <3>1, <3>2
    <3>4. h[k - 1] = f[k - 1]
      BY <3>1, <3>3
    <3> QED BY <1>2, <2>4, <3>1, <3>3, <3>4 DEF FlatBy
  <2>7. FlattenSeq(s) = f[N]
    <3>1. N \in 1 .. N /\ N \in 0 .. N
      BY <1>0, <1>4
    <3> QED BY <1>4, <1>t, <2>3, <2>6, <3>1
  <2> QED BY <1>2, <2>7 DEF N
<1> QED BY <1>3, <1>4


\* What is laid end to end keeps its neighbours.
Woven(m, s, n) ==
  \A i \in 1 .. Len(m) :
    \E j \in 1 .. n : \E k \in 1 .. Len(s[j]) :
      /\ m[i] = s[j][k]
      /\ k < Len(s[j]) => i < Len(m) /\ m[i + 1] = s[j][k + 1]
      /\ k > 1 => i > 1 /\ m[i - 1] = s[j][k - 1]

LEMMA WovenMore ==
  ASSUME NEW S, NEW s \in Seq(Seq(S)), NEW n \in 1 .. Len(s), NEW m \in Seq(S), Woven(m, s, n - 1)
  PROVE  Woven(m \o s[n], s, n)
<1> DEFINE a == Len(m)
           b == Len(s[n])
           w == m \o s[n]
<1>0. /\ a \in Nat /\ b \in Nat /\ s[n] \in Seq(S) /\ w \in Seq(S) /\ Len(w) = a + b
      /\ \A i \in 1 .. a : w[i] = m[i]
      /\ \A i \in 1 .. b : w[a + i] = s[n][i]
      /\ n \in Nat /\ n - 1 \in Nat
  BY ConcatProperties
<1>n. a = Len(m) /\ b = Len(s[n])
  OBVIOUS
<1> HIDE DEF a, b, w
<1> SUFFICES ASSUME NEW i \in 1 .. (a + b)
             PROVE  \E j \in 1 .. n : \E k \in 1 .. Len(s[j]) :
                      /\ w[i] = s[j][k]
                      /\ k < Len(s[j]) => i < a + b /\ w[i + 1] = s[j][k + 1]
                      /\ k > 1 => i > 1 /\ w[i - 1] = s[j][k - 1]
  BY <1>0 DEF Woven, w
<1>1. CASE i \in 1 .. a
  <2>1. PICK j \in 1 .. (n - 1) : \E k \in 1 .. Len(s[j]) :
          /\ m[i] = s[j][k]
          /\ k < Len(s[j]) => i < a /\ m[i + 1] = s[j][k + 1]
          /\ k > 1 => i > 1 /\ m[i - 1] = s[j][k - 1]
    BY <1>1, <1>n DEF Woven
  <2>2. PICK k \in 1 .. Len(s[j]) :
          /\ m[i] = s[j][k]
          /\ k < Len(s[j]) => i < a /\ m[i + 1] = s[j][k + 1]
          /\ k > 1 => i > 1 /\ m[i - 1] = s[j][k - 1]
    BY <2>1
  <2>3. j \in 1 .. n
    BY <1>0
  <2>4. w[i] = s[j][k]
    BY <1>0, <1>1, <2>2
  <2>5. ASSUME k < Len(s[j]) PROVE i < a + b /\ w[i + 1] = s[j][k + 1]
    <3>1. i < a /\ m[i + 1] = s[j][k + 1]
      BY <2>2, <2>5
    <3>2. i + 1 \in 1 .. a /\ i < a + b
      <4> SUFFICES ASSUME i < a PROVE i + 1 \in 1 .. a /\ i < a + b
        BY <3>1
      <4> QED BY <1>0, <1>1
    <3> QED BY <1>0, <3>1, <3>2
  <2>6. ASSUME k > 1 PROVE i > 1 /\ w[i - 1] = s[j][k - 1]
    <3>1. i > 1 /\ m[i - 1] = s[j][k - 1]
      BY <2>2, <2>6
    <3>2. i - 1 \in 1 .. a
      <4> SUFFICES ASSUME i > 1 PROVE i - 1 \in 1 .. a
        BY <3>1
      <4> QED BY <1>0, <1>1
    <3> QED BY <1>0, <3>1, <3>2
  <2> QED BY <2>3, <2>4, <2>5, <2>6
<1>2. CASE i \notin 1 .. a
  <2> DEFINE k == i - a
  <2>1. k \in 1 .. b /\ i = a + k /\ n \in 1 .. n
    BY <1>0, <1>2
  <2> HIDE DEF k
  <2>2. w[i] = s[n][k]
    BY <1>0, <2>1
  <2>3. ASSUME k < b PROVE i < a + b /\ w[i + 1] = s[n][k + 1]
    <3>1. k + 1 \in 1 .. b /\ i + 1 = a + (k + 1) /\ i < a + b
      BY <1>0, <2>1, <2>3
    <3> QED BY <1>0, <3>1
  <2>4. ASSUME k > 1 PROVE i > 1 /\ w[i - 1] = s[n][k - 1]
    <3>1. k - 1 \in 1 .. b /\ i - 1 = a + (k - 1) /\ i > 1
      BY <1>0, <2>1, <2>4
    <3> QED BY <1>0, <3>1
  <2> QED BY <1>n, <2>1, <2>2, <2>3, <2>4
<1> QED BY <1>1, <1>2

LEMMA Flattened ==
  ASSUME NEW S, NEW s \in Seq(Seq(S))
  PROVE  /\ FlattenSeq(s) \in Seq(S)
         /\ Woven(FlattenSeq(s), s, Len(s))
         /\ s # <<>> /\ s[Len(s)] # <<>> =>
              /\ FlattenSeq(s) # <<>>
              /\ FlattenSeq(s)[Len(FlattenSeq(s))] = s[Len(s)][Len(s[Len(s)])]
<1> DEFINE N == Len(s)
<1>0. N \in Nat /\ N \in 0 .. N /\ \A k \in 1 .. N : s[k] \in Seq(S)
  OBVIOUS
<1>1. PICK f : FlatBy(f, s, N) /\ FlattenSeq(s) = f[N] /\ \A k \in 0 .. N : f[k] \in Seq(S)
  BY FlattenFolds
<1> DEFINE Bad == {k \in 0 .. N : ~Woven(f[k], s, k)}
<1>n. N = Len(s) /\ (s # <<>> => N # 0)
  OBVIOUS
<1> HIDE DEF N
<1>2. Bad = {}
  <2> SUFFICES ASSUME Bad # {} PROVE FALSE
    OBVIOUS
  <2>1. PICK k \in Bad : \A m \in Bad : k <= m
    <3>1. Bad \subseteq Nat
      BY <1>0
    <3> HIDE DEF Bad
    <3> QED BY <3>1, LeastOf
  <2>2. Woven(f[0], s, 0)
    <3>1. f[0] = <<>> /\ Len(<<>>) = 0 /\ 1 .. 0 = {}
      BY <1>1 DEF FlatBy
    <3> QED BY <3>1 DEF Woven
  <2>3. k \in 1 .. N /\ k - 1 \in 0 .. N /\ ~(k <= k - 1)
    BY <1>0, <2>1, <2>2
  <2>4. Woven(f[k - 1], s, k - 1) /\ f[k - 1] \in Seq(S)
    BY <1>1, <2>1, <2>3
  <2>5. f[k] = f[k - 1] \o s[k]
    BY <1>1, <2>3 DEF FlatBy
  <2>6. Woven(f[k], s, k)
    BY <1>n, <2>3, <2>4, <2>5, WovenMore
  <2> QED BY <2>1, <2>6
<1>3. ASSUME s # <<>>, s[N] # <<>> PROVE f[N] # <<>> /\ f[N][Len(f[N])] = s[N][Len(s[N])]
  <2>1. N \in 1 .. N /\ N - 1 \in 0 .. N
    BY <1>0, <1>n, <1>3
  <2>2. f[N] = f[N - 1] \o s[N] /\ f[N - 1] \in Seq(S) /\ s[N] \in Seq(S)
    BY <1>0, <1>1, <2>1 DEF FlatBy
  <2> DEFINE u == f[N - 1]
             v == s[N]
  <2>3. u \in Seq(S) /\ v \in Seq(S) /\ v # <<>> /\ f[N] = u \o v
    BY <1>3, <2>2
  <2> HIDE DEF u, v
  <2>4. /\ Len(u) \in Nat /\ Len(v) \in Nat /\ Len(v) > 0 /\ Len(v) \in 1 .. Len(v)
        /\ u \o v \in Seq(S) /\ Len(u \o v) = Len(u) + Len(v)
        /\ \A i \in 1 .. Len(v) : (u \o v)[Len(u) + i] = v[i]
    BY <2>3, ConcatProperties
  <2>5. u \o v # <<>>
    BY <2>4
  <2> QED BY <2>3, <2>4, <2>5 DEF v
<1>4. FlattenSeq(s) = f[N] /\ f[N] \in Seq(S) /\ Woven(f[N], s, N)
  BY <1>0, <1>1, <1>2
<1> QED BY <1>3, <1>4, <1>n

-----------------------------------------------------------------------------
(* The frontier, item by item. *)

TurnItem(t) == [span |-> Single(t.id), turn |-> TRUE, records |-> t.records]
CutItem(e)  == [span |-> e.span, turn |-> FALSE, records |-> <<>>]

LEMMA ItemsAre ==
  ASSUME NEW c
  PROVE  \A x : x \in Items(c) <=>
           \/ \E i \in DOMAIN c.turns : c.turns[i].loc = Resident /\ x = TurnItem(c.turns[i])
           \/ \E m \in DOMAIN c.evictions : c.evictions[m].loc = Resident /\ x = CutItem(c.evictions[m])
<1>1. \A t : t \in ToSet(c.turns) <=> \E i \in DOMAIN c.turns : t = c.turns[i]
  BY DEF ToSet
<1>2. \A e : e \in ToSet(c.evictions) <=> \E m \in DOMAIN c.evictions : e = c.evictions[m]
  BY DEF ToSet
<1>3. \A x : x \in Items(c) <=>
        \/ \E t \in ToSet(c.turns) : t.loc = Resident /\ x = TurnItem(t)
        \/ \E e \in ToSet(c.evictions) : e.loc = Resident /\ x = CutItem(e)
  BY DEF Items, TurnItem, CutItem
<1> HIDE DEF TurnItem, CutItem
<1> QED BY <1>1, <1>2, <1>3

LEMMA ItemFields ==
  ASSUME NEW t
  PROVE  /\ TurnItem(t).span = <<t.id, t.id>> /\ TurnItem(t).turn = TRUE /\ TurnItem(t).records = t.records
         /\ CutItem(t).span = t.span /\ CutItem(t).turn = FALSE
BY DEF TurnItem, CutItem, Single

\* No two items of a whole context touch.
LEMMA ItemsApart ==
  ASSUME NEW c, Whole(c), NEW x \in Items(c), NEW y \in Items(c), x # y
  PROVE  Apart(x.span, y.span)
<1>0. /\ Typed(c) /\ Sorted(c) /\ Anchored(c) /\ Nested(c) /\ Placed(c) /\ Lodged(c)
      /\ Len(c.turns) \in Nat /\ DOMAIN c.turns = 1 .. Len(c.turns)
      /\ Len(c.evictions) \in Nat /\ DOMAIN c.evictions = 1 .. Len(c.evictions)
      /\ \A i \in DOMAIN c.turns : c.turns[i].id \in Nat
      /\ \A m \in DOMAIN c.evictions : c.evictions[m].span \in Spans
                                       /\ c.evictions[m].span[1] \in Nat /\ c.evictions[m].span[2] \in Nat
  BY Fields DEF Whole
<1>1. ASSUME NEW i \in DOMAIN c.turns, NEW j \in DOMAIN c.turns, i # j
      PROVE  Apart(<<c.turns[i].id, c.turns[i].id>>, <<c.turns[j].id, c.turns[j].id>>)
  <2>1. c.turns[i].id < c.turns[j].id \/ c.turns[j].id < c.turns[i].id
    BY <1>0, <1>1 DEF Sorted
  <2> QED BY <2>1 DEF Apart
<1>2. ASSUME NEW i \in DOMAIN c.turns, NEW m \in DOMAIN c.evictions, c.turns[i].loc = Resident
      PROVE  /\ Apart(<<c.turns[i].id, c.turns[i].id>>, c.evictions[m].span)
             /\ Apart(c.evictions[m].span, <<c.turns[i].id, c.turns[i].id>>)
  <2> DEFINE id == c.turns[i].id
             s == c.evictions[m].span
  <2>1. HeldBy(Single(id), SpansFrom(c, 1), Resident)
    BY <1>0, <1>2, Elsewhere DEF Placed
  <2>2. s \in SpansFrom(c, 1) /\ SpansFrom(c, 1) \subseteq Spans
    BY <1>0 DEF SpansFrom
  <2>3. id \in Nat /\ s[1] \in Nat /\ s[2] \in Nat
    BY <1>0
  <2> HIDE DEF id, s
  <2>4. ~Within(Single(id), s)
    BY <2>1, <2>2, Elsewhere DEF HeldBy
  <2>5. Apart(<<id, id>>, s) /\ Apart(s, <<id, id>>)
    BY <2>3, <2>4 DEF Within, Single, Apart
  <2> QED BY <2>5 DEF id, s
<1>3. ASSUME NEW m \in DOMAIN c.evictions, NEW n \in DOMAIN c.evictions, m < n, c.evictions[m].loc = Resident
      PROVE  /\ Apart(c.evictions[m].span, c.evictions[n].span)
             /\ Apart(c.evictions[n].span, c.evictions[m].span)
  <2> DEFINE s == c.evictions[m].span
             o == c.evictions[n].span
  <2>1. HeldBy(s, SpansFrom(c, m + 1), Resident)
    BY <1>0, <1>3, Elsewhere DEF Lodged
  <2>2. o \in SpansFrom(c, m + 1)
    BY <1>0, <1>3 DEF SpansFrom
  <2>3. \A j \in (m + 1) .. Len(c.evictions) : j \in DOMAIN c.evictions
    BY <1>0
  <2>4. SpansFrom(c, m + 1) \subseteq Spans
    BY <1>0, <2>3 DEF SpansFrom
  <2>5. Within(s, o) \/ Apart(s, o)
    BY <1>0, <1>3 DEF Nested
  <2> HIDE DEF s, o
  <2>6. ~Within(s, o)
    BY <2>1, <2>2, <2>4, Elsewhere DEF HeldBy
  <2>7. Apart(s, o) /\ Apart(o, s)
    BY <2>5, <2>6 DEF Apart
  <2> QED BY <2>7 DEF s, o
<1>4. CASE \E i \in DOMAIN c.turns : c.turns[i].loc = Resident /\ x = TurnItem(c.turns[i])
  <2>1. PICK i \in DOMAIN c.turns : c.turns[i].loc = Resident /\ x = TurnItem(c.turns[i])
    BY <1>4
  <2>2. x.span = <<c.turns[i].id, c.turns[i].id>>
    BY <2>1, ItemFields
  <2>3. ASSUME NEW j \in DOMAIN c.turns, y = TurnItem(c.turns[j]) PROVE Apart(x.span, y.span)
    <3>1. i # j
      BY <2>1, <2>3
    <3>2. y.span = <<c.turns[j].id, c.turns[j].id>>
      BY <2>3, ItemFields
    <3> QED BY <1>1, <2>2, <3>1, <3>2
  <2>4. ASSUME NEW m \in DOMAIN c.evictions, y = CutItem(c.evictions[m]) PROVE Apart(x.span, y.span)
    <3>1. y.span = c.evictions[m].span
      BY <2>4, ItemFields
    <3> QED BY <1>2, <2>1, <2>2, <3>1
  <2> QED BY <2>3, <2>4, ItemsAre
<1>5. CASE \E m \in DOMAIN c.evictions : c.evictions[m].loc = Resident /\ x = CutItem(c.evictions[m])
  <2>1. PICK m \in DOMAIN c.evictions : c.evictions[m].loc = Resident /\ x = CutItem(c.evictions[m])
    BY <1>5
  <2>2. x.span = c.evictions[m].span
    BY <2>1, ItemFields
  <2>3. ASSUME NEW j \in DOMAIN c.turns, c.turns[j].loc = Resident, y = TurnItem(c.turns[j])
        PROVE  Apart(x.span, y.span)
    <3>1. y.span = <<c.turns[j].id, c.turns[j].id>>
      BY <2>3, ItemFields
    <3> QED BY <1>2, <2>2, <2>3, <3>1
  <2>4. ASSUME NEW n \in DOMAIN c.evictions, c.evictions[n].loc = Resident, y = CutItem(c.evictions[n])
        PROVE  Apart(x.span, y.span)
    <3>1. m < n \/ n < m
      BY <1>0, <2>1, <2>4
    <3>2. y.span = c.evictions[n].span
      BY <2>4, ItemFields
    <3> QED BY <1>3, <2>1, <2>2, <2>4, <3>1, <3>2
  <2> QED BY <2>3, <2>4, ItemsAre
<1> QED BY <1>4, <1>5, ItemsAre

\* It holds each item once, from the oldest to the newest.
LEMMA FrontierIs ==
  ASSUME NEW c, Whole(c)
  PROVE  LET n == Cardinality(Items(c))
         IN  /\ n \in Nat /\ IsFiniteSet(Items(c))
             /\ Frontier(c) \in [1 .. n -> Items(c)]
             /\ \A x \in Items(c) : \E i \in 1 .. n : Frontier(c)[i] = x
             /\ \A i, j \in 1 .. n : i < j => Frontier(c)[i].span[1] < Frontier(c)[j].span[1]
<1> DEFINE I == Items(c)
           n == Cardinality(I)
           Before(x) == {y \in I : Precedes(y, x)}
<1>1. \A x \in I : x.span[1] \in Nat /\ x.span[2] \in Nat /\ x.span[1] <= x.span[2] /\ x.span[1] <= Reach(c)
  <2> TAKE x \in I
  <2>1. x.span[1] \in Nat /\ x.span[2] \in Nat /\ x.span[1] <= x.span[2] /\ x.span[1] \in Ids(c)
    BY ItemLies
  <2>2. PICK i \in DOMAIN c.turns : c.turns[i].id = x.span[1]
    BY <2>1, IdsAre
  <2>3. Len(c.turns) \in Nat /\ DOMAIN c.turns = 1 .. Len(c.turns) /\ \A j \in DOMAIN c.turns : c.turns[j].id \in Nat
    BY Fields DEF Whole
  <2>4. Reach(c) = c.turns[Len(c.turns)].id /\ Len(c.turns) \in DOMAIN c.turns
    BY <2>2, <2>3 DEF Reach, Last
  <2>5. i < Len(c.turns) => c.turns[i].id < c.turns[Len(c.turns)].id
    BY <2>4 DEF Whole, Sorted
  <2> QED BY <2>1, <2>2, <2>3, <2>4, <2>5
<1>2. \A x, y \in I : x # y => x.span[1] # y.span[1]
  <2> TAKE x, y \in I
  <2> SUFFICES ASSUME x # y PROVE x.span[1] # y.span[1]
    OBVIOUS
  <2>1. Apart(x.span, y.span)
    BY ItemsApart
  <2> QED BY <1>1, <2>1 DEF Apart
<1>3. \A x, y \in I : Precedes(y, x) <=> y.span[1] < x.span[1]
  BY <1>1, <1>2 DEF Precedes
<1>4. IsFiniteSet(I) /\ n \in Nat
  <2> DEFINE B == {k \in Nat : k <= Reach(c)}
             g == [x \in I |-> x.span[1]]
  <2>1. IsFiniteSet(B)
    <3>1. Reach(c) \in Nat
      <4>1. Len(c.turns) \in Nat /\ DOMAIN c.turns = 1 .. Len(c.turns)
            /\ \A j \in DOMAIN c.turns : c.turns[j].id \in Nat
        BY Fields DEF Whole
      <4>2. CASE c.turns = <<>>
        BY <4>2 DEF Reach
      <4>3. CASE c.turns # <<>>
        <5>1. Len(c.turns) \in DOMAIN c.turns
          BY <4>3, Fields DEF Whole, Typed
        <5> QED BY <4>1, <4>3, <5>1 DEF Reach, Last
      <4> QED BY <4>2, <4>3
    <3>2. B \in SUBSET Nat /\ \A k \in B : k <= Reach(c)
      OBVIOUS
    <3> HIDE DEF B
    <3> QED BY <3>1, <3>2, FS_BoundedSetOfNaturals
  <2>2. g \in Injection(I, B)
    <3>1. \A x \in I : g[x] = x.span[1]
      OBVIOUS
    <3>2. g \in [I -> B]
      BY <1>1
    <3>3. \A x, y \in I : g[x] = g[y] => x = y
      BY <1>2, <3>1
    <3> HIDE DEF g, B, I
    <3> QED BY <3>2, <3>3 DEF Injection, IsInjective
  <2> HIDE DEF g, B, I
  <2>3. IsFiniteSet(I)
    BY <2>1, <2>2, FS_Injection
  <2> QED BY <2>3, FS_CardinalityType DEF n
<1>5. ASSUME NEW x \in I PROVE IsFiniteSet(Before(x)) /\ Cardinality(Before(x)) \in Nat /\ Cardinality(Before(x)) < n
  <2> DEFINE P == Before(x)
  <2>1. P \in SUBSET I /\ x \notin P
    BY <1>1, <1>3
  <2> HIDE DEF P, I
  <2>2. IsFiniteSet(P) /\ Cardinality(P) <= n
    BY <1>4, <2>1, FS_Subset DEF n
  <2>3. Cardinality(P) \in Nat
    BY <2>2, FS_CardinalityType
  <2>4. Cardinality(P) # n
    BY <1>4, <1>5, <2>1, FS_Subset DEF n
  <2> QED BY <1>4, <2>2, <2>3, <2>4 DEF P
<1>6. ASSUME NEW x \in I, NEW y \in I, y.span[1] < x.span[1] PROVE Cardinality(Before(y)) < Cardinality(Before(x))
  <2> DEFINE P == Before(x)
             Q == Before(y)
  <2>1. Q \in SUBSET P /\ y \in P /\ y \notin Q
    <3>1. \A z \in I : z.span[1] < y.span[1] => z.span[1] < x.span[1]
      BY <1>1, <1>6
    <3>2. ~(y.span[1] < y.span[1])
      BY <1>1
    <3> QED BY <1>3, <1>6, <3>1, <3>2
  <2>2. IsFiniteSet(P) /\ Cardinality(P) \in Nat /\ Cardinality(Q) \in Nat
    BY <1>5
  <2> HIDE DEF P, Q
  <2>3. Cardinality(Q) <= Cardinality(P) /\ Cardinality(Q) # Cardinality(P)
    BY <2>1, <2>2, FS_Subset
  <2> QED BY <2>2, <2>3 DEF P, Q
<1> DEFINE rank == [x \in I |-> Cardinality(Before(x))]
<1>7. \A x \in I : rank[x] = Cardinality(Before(x))
  OBVIOUS
<1>r. rank \in [I -> 0 .. (n - 1)]
  <2>1. \A x \in I : Cardinality(Before(x)) \in 0 .. (n - 1)
    <3> HIDE DEF Before, I, n
    <3>1. \A a \in Nat : a < n => a \in 0 .. (n - 1)
      BY <1>4
    <3> QED BY <1>5, <3>1
  <2> HIDE DEF Before, I, n
  <2> QED BY <2>1
<1>f. Frontier(c) = [k \in 1 .. n |-> CHOOSE i \in I : Cardinality(Before(i)) = k - 1]
  BY DEF Frontier
<1>p. \A x, y \in I : x # y => x.span[1] < y.span[1] \/ y.span[1] < x.span[1]
  BY <1>1, <1>2
<1>o. \A x, y \in I : y.span[1] < x.span[1] => Cardinality(Before(y)) < Cardinality(Before(x))
  BY <1>6
<1> HIDE DEF rank, Before, I, n
<1>8. \A k \in 0 .. (n - 1) : \E x \in I : rank[x] = k
  <2>1. rank \in Injection(I, 0 .. (n - 1))
    <3>1. \A x \in I : Cardinality(Before(x)) \in Nat
      BY <1>5
    <3>2. \A x, y \in I : rank[x] = rank[y] => x = y
      BY <1>7, <1>o, <1>p, <3>1
    <3> QED BY <1>r, <3>2 DEF Injection, IsInjective
  <2>2. IsFiniteSet(0 .. (n - 1)) /\ Cardinality(0 .. (n - 1)) = n
    <3>1. 0 \in Int /\ n - 1 \in Int
      BY <1>4
    <3>2. IsFiniteSet(0 .. (n - 1)) /\ Cardinality(0 .. (n - 1)) = IF 0 > n - 1 THEN 0 ELSE (n - 1) - 0 + 1
      BY <3>1, FS_Interval
    <3> QED BY <1>4, <3>2
  <2>3. rank \in Surjection(I, 0 .. (n - 1))
    BY <1>4, <2>1, <2>2, FS_Injection DEF n
  <2> QED BY <2>3 DEF Surjection
<1> DEFINE F == Frontier(c)
<1>9. ASSUME NEW k \in 1 .. n PROVE F[k] \in I /\ Cardinality(Before(F[k])) = k - 1
  <2>1. k - 1 \in 0 .. (n - 1)
    BY <1>4
  <2>2. \E x \in I : Cardinality(Before(x)) = k - 1
    BY <1>7, <1>8, <2>1
  <2>3. F[k] = CHOOSE i \in I : Cardinality(Before(i)) = k - 1
    BY <1>f
  <2> QED BY <2>2, <2>3
<1>10. F \in [1 .. n -> I]
  BY <1>9, <1>f
<1> HIDE DEF F
<1>11. ASSUME NEW x \in I PROVE \E i \in 1 .. n : F[i] = x
  <2> DEFINE k == Cardinality(Before(x)) + 1
  <2>1. k \in 1 .. n /\ k - 1 = Cardinality(Before(x))
    BY <1>4, <1>5
  <2>2. Cardinality(Before(x)) \in Nat
    BY <1>5
  <2> HIDE DEF k
  <2>3. F[k] \in I /\ Cardinality(Before(F[k])) = Cardinality(Before(x))
    BY <1>9, <2>1
  <2>4. F[k] = x
    BY <1>o, <1>p, <2>2, <2>3
  <2> QED BY <2>1, <2>4
<1>12. ASSUME NEW i \in 1 .. n, NEW j \in 1 .. n, i < j PROVE F[i].span[1] < F[j].span[1]
  <2>1. /\ F[i] \in I /\ Cardinality(Before(F[i])) = i - 1
        /\ F[j] \in I /\ Cardinality(Before(F[j])) = j - 1
    BY <1>9
  <2>2. ~(j - 1 < i - 1) /\ i - 1 # j - 1
    BY <1>4, <1>12
  <2> QED BY <1>o, <1>p, <2>1, <2>2
<1> QED BY <1>4, <1>10, <1>11, <1>12 DEF F, I, n

-----------------------------------------------------------------------------
(* What each record leaves of the turns, one by one. *)

LEMMA LeftIs ==
  ASSUME NEW t \in TurnRecord, NEW loc
  PROVE  /\ Left(t, loc).id = t.id /\ Left(t, loc).user = t.user /\ Left(t, loc).loc = loc
         /\ Left(t, loc).kept = TRUE /\ Left(t, loc).at = Address(t) /\ Left(t, loc).records = <<>>
         /\ Address(Left(t, loc)) = Address(t)
<1>1. /\ Left(t, loc).id = t.id /\ Left(t, loc).user = t.user /\ Left(t, loc).loc = loc
      /\ Left(t, loc).kept = TRUE /\ Left(t, loc).at = Address(t) /\ Left(t, loc).records = <<>>
  BY DEF Left, TurnRecord
<1> QED BY <1>1 DEF Address

LEMMA OpenedShape ==
  ASSUME NEW c, Typed(c), NEW r, NEW u
  PROVE  LET d == Opened(c, r, u)
             n == Len(c.turns)
         IN  /\ n \in Nat /\ DOMAIN c.turns = 1 .. n
             /\ Len(d.turns) = n + 1 /\ DOMAIN d.turns = 1 .. (n + 1)
             /\ \A i \in 1 .. n : d.turns[i] = c.turns[i]
             /\ d.turns[n + 1] = Fresh(r, u) /\ d.evictions = c.evictions /\ d.state = Advance(c.state, r)
<1> DEFINE d == Opened(c, r, u)
           s == c.turns
           n == Len(s)
           x == Fresh(r, u)
<1>0. s \in Seq(TurnRecord)
  BY DEF Typed
<1>1. d.turns = Append(s, x) /\ d.evictions = c.evictions /\ d.state = Advance(c.state, r)
  BY DEF Opened
<1> HIDE DEF d, x, s
<1>2. /\ n \in Nat /\ DOMAIN s = 1 .. n /\ Len(Append(s, x)) = n + 1 /\ DOMAIN Append(s, x) = 1 .. (n + 1)
      /\ \A i \in 1 .. n : Append(s, x)[i] = s[i]
      /\ Append(s, x)[n + 1] = x
  BY <1>0
<1> QED BY <1>1, <1>2 DEF d, x, s

LEMMA ExtendedShape ==
  ASSUME NEW c, Typed(c), c.turns # <<>>, NEW r
  PROVE  LET d == Extended(c, r)
             n == Len(c.turns)
         IN  /\ n \in Nat /\ n \in 1 .. n /\ DOMAIN c.turns = 1 .. n
             /\ Len(d.turns) = n /\ DOMAIN d.turns = 1 .. n
             /\ \A i \in 1 .. n : i # n => d.turns[i] = c.turns[i]
             /\ \A i \in 1 .. n : /\ d.turns[i].id = c.turns[i].id /\ d.turns[i].loc = c.turns[i].loc
                                  /\ d.turns[i].user = c.turns[i].user /\ d.turns[i].kept = c.turns[i].kept
                                  /\ d.turns[i].at = c.turns[i].at
             /\ d.turns[n].records = Append(c.turns[n].records, r)
             /\ d.evictions = c.evictions /\ d.state = Advance(c.state, r)
<1> DEFINE d == Extended(c, r)
           s == c.turns
           n == Len(s)
           t == s[n]
           x == Told(t, r)
<1>0. s \in Seq(TurnRecord) /\ s # <<>>
  BY DEF Typed
<1>1. d.turns = [s EXCEPT ![n] = x] /\ d.evictions = c.evictions /\ d.state = Advance(c.state, r)
  BY DEF Extended
<1>2. n \in Nat /\ n \in 1 .. n /\ DOMAIN s = 1 .. n /\ t \in TurnRecord
  BY <1>0
<1>3. x.id = t.id /\ x.loc = t.loc /\ x.user = t.user /\ x.kept = t.kept /\ x.at = t.at
      /\ x.records = Append(t.records, r)
  BY <1>2 DEF Told, TurnRecord
<1>t. t = s[n]
  OBVIOUS
<1> HIDE DEF d, x, t, s
<1>4. /\ DOMAIN d.turns = 1 .. n /\ Len(d.turns) = n
      /\ d.turns[n] = x /\ \A i \in 1 .. n : i # n => d.turns[i] = s[i]
  BY <1>1, <1>2
<1>5. \A i \in 1 .. n : /\ d.turns[i].id = s[i].id /\ d.turns[i].loc = s[i].loc
                        /\ d.turns[i].user = s[i].user /\ d.turns[i].kept = s[i].kept
                        /\ d.turns[i].at = s[i].at
  BY <1>3, <1>4, <1>t
<1>6. d.turns[n].records = Append(s[n].records, r)
  BY <1>3, <1>4, <1>t
<1> QED BY <1>1, <1>2, <1>4, <1>5, <1>6 DEF d, s

\* What departs, departs with its records at its address.
Departs(t, o) == \/ o = t
                 \/ /\ o.id = t.id /\ o.user = t.user /\ o.loc # Resident /\ o.kept = TRUE
                    /\ o.at = Address(t) /\ o.records = <<>>

LEMMA CutShape ==
  ASSUME NEW c, Typed(c), NEW span \in Spans, span # Withdrawn
  PROVE  LET d == CutTo(c, span)
             n == Len(c.turns)
             k == Len(c.evictions)
         IN  /\ n \in Nat /\ DOMAIN c.turns = 1 .. n /\ k \in Nat /\ DOMAIN c.evictions = 1 .. k
             /\ Len(d.turns) = n /\ DOMAIN d.turns = 1 .. n
             /\ DOMAIN d.evictions = 1 .. (k + 1)
             /\ \A i \in 1 .. n : /\ Departs(c.turns[i], d.turns[i])
                                  /\ d.turns[i].loc = Withdrawn <=> c.turns[i].loc = Withdrawn
             /\ \A m \in 1 .. k : d.evictions[m].span = c.evictions[m].span
             /\ d.evictions[k + 1].span = span
             /\ d.state = c.state
<1> DEFINE d == CutTo(c, span)
           n == Len(c.turns)
           k == Len(c.evictions)
<1>0. /\ n \in Nat /\ DOMAIN c.turns = 1 .. n /\ k \in Nat /\ DOMAIN c.evictions = 1 .. k
      /\ \A i \in 1 .. n : c.turns[i] \in TurnRecord
      /\ \A m \in 1 .. k : c.evictions[m] \in CutRecord
  BY Fields
<1>n. n = Len(c.turns) /\ k = Len(c.evictions)
  OBVIOUS
<1> HIDE DEF n, k
<1>1. /\ d.turns = [i \in 1 .. n |-> CutTurn(c.turns[i], span)] /\ d.state = c.state
      /\ d.evictions = Append([m \in 1 .. k |-> CutCut(c.evictions[m], span)], [span |-> span, loc |-> Resident])
  BY <1>0 DEF CutTo
<1> HIDE DEF d
<1>2. Len(d.turns) = n /\ DOMAIN d.turns = 1 .. n /\ \A i \in 1 .. n : d.turns[i] = CutTurn(c.turns[i], span)
  BY <1>0, <1>1
<1>3. ASSUME NEW i \in 1 .. n
      PROVE  Departs(c.turns[i], d.turns[i]) /\ (d.turns[i].loc = Withdrawn <=> c.turns[i].loc = Withdrawn)
  <2> DEFINE t == c.turns[i]
  <2>1. t \in TurnRecord /\ d.turns[i] = CutTurn(t, span)
    BY <1>0, <1>2
  <2>2. CASE Within(Single(t.id), span) /\ t.loc = Resident
    <3>1. d.turns[i] = Left(t, span)
      BY <2>1, <2>2 DEF CutTurn
    <3>2. span # Resident /\ span # Withdrawn /\ t.loc # Withdrawn
      BY <2>2, Elsewhere
    <3>t. t = c.turns[i]
      OBVIOUS
    <3> HIDE DEF t
    <3>l. /\ Left(t, span).id = t.id /\ Left(t, span).user = t.user /\ Left(t, span).loc = span
          /\ Left(t, span).kept = TRUE /\ Left(t, span).at = Address(t) /\ Left(t, span).records = <<>>
      BY <2>1, LeftIs
    <3>3. Departs(t, d.turns[i]) /\ d.turns[i].loc = span
      BY <3>1, <3>2, <3>l DEF Departs
    <3> QED BY <2>2, <3>2, <3>3, <3>t
  <2>3. CASE ~(Within(Single(t.id), span) /\ t.loc = Resident)
    <3>1. d.turns[i] = t
      BY <2>1, <2>3 DEF CutTurn
    <3> QED BY <3>1 DEF Departs
  <2> QED BY <2>2, <2>3
<1>4. ASSUME NEW m \in 1 .. k PROVE CutCut(c.evictions[m], span).span = c.evictions[m].span
  BY <1>0, CutCutIs
<1>5. /\ DOMAIN d.evictions = 1 .. (k + 1)
      /\ \A m \in 1 .. k : d.evictions[m] = CutCut(c.evictions[m], span)
      /\ d.evictions[k + 1] = [span |-> span, loc |-> Resident]
  <2> DEFINE s == [m \in 1 .. k |-> CutCut(c.evictions[m], span)]
             e == [span |-> span, loc |-> Resident]
  <2>1. s \in Seq(CutRecord) /\ Len(s) = k
    <3>1. \A m \in 1 .. k : CutCut(c.evictions[m], span) \in CutRecord
      BY <1>0, CutCutIs
    <3> QED BY <1>0, <3>1
  <2>2. \A m \in 1 .. k : s[m] = CutCut(c.evictions[m], span)
    OBVIOUS
  <2>3. d.evictions = Append(s, e)
    BY <1>1
  <2> HIDE DEF s, e
  <2>4. /\ DOMAIN Append(s, e) = 1 .. (k + 1) /\ Append(s, e)[k + 1] = e
        /\ \A m \in 1 .. k : Append(s, e)[m] = s[m]
    BY <2>1
  <2> QED BY <2>2, <2>3, <2>4 DEF e
<1>6. d.evictions[k + 1].span = span
  BY <1>5
<1> QED BY <1>0, <1>1, <1>2, <1>3, <1>4, <1>5, <1>6, <1>n DEF d

LEMMA GoneShape ==
  ASSUME NEW c, Typed(c), NEW from \in Nat
  PROVE  LET d == GoneFrom(c, from)
             n == Len(c.turns)
             k == Len(c.evictions)
             here == {i \in 1 .. n : d.turns[i].loc = Resident}
         IN  /\ n \in Nat /\ DOMAIN c.turns = 1 .. n /\ k \in Nat /\ DOMAIN c.evictions = 1 .. k
             /\ Len(d.turns) = n /\ DOMAIN d.turns = 1 .. n /\ DOMAIN d.evictions = 1 .. k
             /\ \A i \in 1 .. n : /\ Departs(c.turns[i], d.turns[i])
                                  /\ d.turns[i].loc = IF from <= c.turns[i].id THEN Withdrawn ELSE c.turns[i].loc
             /\ \A m \in 1 .. k : d.evictions[m].span = c.evictions[m].span
             /\ d.state = IF here = {} THEN Ready ELSE Resting(d.turns[Max(here)].records)
<1> DEFINE d == GoneFrom(c, from)
           n == Len(c.turns)
           k == Len(c.evictions)
           here == {i \in 1 .. n : d.turns[i].loc = Resident}
           b == [c EXCEPT !.turns = [i \in DOMAIN c.turns |-> GoneTurn(c.turns[i], from)]]
<1>0. /\ n \in Nat /\ DOMAIN c.turns = 1 .. n /\ k \in Nat /\ DOMAIN c.evictions = 1 .. k
      /\ \A i \in 1 .. n : c.turns[i] \in TurnRecord
      /\ \A m \in 1 .. k : c.evictions[m] \in CutRecord
  BY Fields
<1>n. n = Len(c.turns) /\ k = Len(c.evictions)
  OBVIOUS
<1>h. here = {i \in 1 .. n : d.turns[i].loc = Resident}
  OBVIOUS
<1> HIDE DEF n, k
<1>1. /\ d.turns = [i \in 1 .. n |-> GoneTurn(c.turns[i], from)]
      /\ d.evictions = [m \in 1 .. k |-> GoneCut(c.evictions[m], from)]
  BY <1>0 DEF GoneFrom
<1>2. d.state = RestingState(b)
  BY DEF GoneFrom
<1>3. b.turns = d.turns
  BY DEF GoneFrom, Typed
<1> HIDE DEF d, b
<1>4. Len(d.turns) = n /\ DOMAIN d.turns = 1 .. n /\ \A i \in 1 .. n : d.turns[i] = GoneTurn(c.turns[i], from)
  BY <1>0, <1>1
<1>5. ASSUME NEW i \in 1 .. n
      PROVE  /\ Departs(c.turns[i], d.turns[i])
             /\ d.turns[i].loc = IF from <= c.turns[i].id THEN Withdrawn ELSE c.turns[i].loc
  <2> DEFINE t == c.turns[i]
  <2>1. t \in TurnRecord /\ d.turns[i] = GoneTurn(t, from)
    BY <1>0, <1>4
  <2>2. CASE from <= t.id
    <3>1. d.turns[i] = Left(t, Withdrawn)
      BY <2>1, <2>2 DEF GoneTurn
    <3>2. Withdrawn # Resident /\ from <= t.id
      BY <2>2, Elsewhere
    <3>t. t = c.turns[i]
      OBVIOUS
    <3> HIDE DEF t
    <3>l. /\ Left(t, Withdrawn).id = t.id /\ Left(t, Withdrawn).user = t.user /\ Left(t, Withdrawn).loc = Withdrawn
          /\ Left(t, Withdrawn).kept = TRUE /\ Left(t, Withdrawn).at = Address(t) /\ Left(t, Withdrawn).records = <<>>
      BY <2>1, LeftIs
    <3>3. Departs(t, d.turns[i]) /\ d.turns[i].loc = Withdrawn
      BY <3>1, <3>2, <3>l DEF Departs
    <3> QED BY <2>2, <3>2, <3>3, <3>t
  <2>3. CASE ~(from <= t.id)
    <3>1. d.turns[i] = t
      BY <2>1, <2>3 DEF GoneTurn
    <3> QED BY <2>3, <3>1 DEF Departs
  <2> QED BY <2>2, <2>3
<1>6. ASSUME NEW m \in 1 .. k PROVE d.evictions[m].span = c.evictions[m].span
  <2>1. d.evictions[m] = GoneCut(c.evictions[m], from) /\ c.evictions[m] \in CutRecord
    BY <1>0, <1>1
  <2> QED BY <2>1, GoneCutIs
<1>7. DOMAIN d.evictions = 1 .. k
  BY <1>1
<1>8. d.state = IF here = {} THEN Ready ELSE Resting(d.turns[Max(here)].records)
  BY <1>2, <1>3, <1>4 DEF RestingState
<1> QED BY <1>0, <1>4, <1>5, <1>6, <1>7, <1>8, <1>n, <1>h DEF d

-----------------------------------------------------------------------------
(* What a context tells.  In each turn's records a batch of calls is followed *)
(* by its results and results by nothing but their calls; the newest turn's   *)
(* last record is the one the automaton rests on; an eviction withdrawn takes *)
(* its turns with it; and the oldest turn that is left is the user's.         *)

Chained(s) ==
  \A i \in DOMAIN s :
    /\ Calls(s[i]) /\ i < Len(s) => s[i + 1].kind = "ToolResults" /\ ToSet(s[i + 1].ids) = ToSet(s[i].pending)
    /\ s[i].kind = "ToolResults" => i > 1 /\ Calls(s[i - 1])
Chains(c) == \A i \in DOMAIN c.turns : Chained(c.turns[i].at) /\ Chained(c.turns[i].records)

EndsOn(state, s) ==
  /\ state.at \in {"afterUser", "afterResults"} => s # <<>> /\ s[Len(s)].kind # "AssistantMessage"
  /\ state.at = "awaiting" => s # <<>> /\ Calls(s[Len(s)]) /\ s[Len(s)].pending = state.pending
Ends(c) ==
  c.turns # <<>> /\ c.turns[Len(c.turns)].loc = Resident => EndsOn(c.state, c.turns[Len(c.turns)].records)

Level(c) ==
  \A m \in DOMAIN c.evictions, i \in DOMAIN c.turns :
    Lost(c, c.evictions[m].span[1]) /\ Within(Single(c.turns[i].id), c.evictions[m].span)
      => c.turns[i].loc = Withdrawn

Remains(c) == \E i \in DOMAIN c.turns : c.turns[i].loc # Withdrawn
Heads(c) ==
  /\ \A i \in DOMAIN c.turns :
       c.turns[i].loc # Withdrawn /\ (\A j \in DOMAIN c.turns : j < i => c.turns[j].loc = Withdrawn)
         => c.turns[i].user
  /\ c.state.at # "ready" => Remains(c)

Telling(c) == Chains(c) /\ Ends(c) /\ Level(c) /\ Heads(c)

LEMMA ChainedFew ==
  /\ Chained(<<>>)
  /\ \A r : r.kind # "ToolResults" => Chained(<<r>>)
<1>1. Chained(<<>>)
  BY DEF Chained
<1>2. ASSUME NEW r, r.kind # "ToolResults" PROVE Chained(<<r>>)
  <2> DEFINE s == <<r>>
  <2>1. Len(s) = 1 /\ DOMAIN s = {1} /\ s[1] = r
    OBVIOUS
  <2> HIDE DEF s
  <2>2. Chained(s)
    BY <1>2, <2>1 DEF Chained
  <2> QED BY <2>2 DEF s
<1> QED BY <1>1, <1>2

\* A turn's next record: none but results after calls, which are theirs.
LEMMA ChainedMore ==
  ASSUME NEW S, NEW s \in Seq(S), NEW r, Chained(s),
         s # <<>> /\ Calls(s[Len(s)]) => r.kind = "ToolResults" /\ ToSet(r.ids) = ToSet(s[Len(s)].pending),
         r.kind = "ToolResults" => s # <<>> /\ Calls(s[Len(s)])
  PROVE  Chained(Append(s, r))
<1> DEFINE w == Append(s, r)
           n == Len(s)
<1>1. /\ n \in Nat /\ DOMAIN s = 1 .. n /\ DOMAIN w = 1 .. (n + 1) /\ Len(w) = n + 1
      /\ \A i \in 1 .. n : w[i] = s[i]
      /\ w[n + 1] = r /\ (s # <<>> <=> n > 0)
  OBVIOUS
<1> HIDE DEF w
<1>2. ASSUME NEW i \in 1 .. n
      PROVE  /\ Calls(w[i]) => w[i + 1].kind = "ToolResults" /\ ToSet(w[i + 1].ids) = ToSet(w[i].pending)
             /\ w[i].kind = "ToolResults" => i > 1 /\ Calls(w[i - 1])
  <2>1. w[i] = s[i]
    BY <1>1
  <2>2. CASE i = n
    BY <1>1, <2>1, <2>2 DEF Chained
  <2>3. CASE i # n
    <3>0. n \in Nat
      BY <1>1
    <3>1. i < n /\ i + 1 \in 1 .. n
      BY <2>3, <3>0
    <3>2. w[i + 1] = s[i + 1]
      BY <1>1, <3>1
    <3> QED BY <1>1, <2>1, <3>1, <3>2 DEF Chained
  <2>4. ASSUME w[i].kind = "ToolResults" PROVE i > 1 /\ Calls(w[i - 1])
    <3>1. i > 1 /\ Calls(s[i - 1])
      BY <1>1, <2>1, <2>4 DEF Chained
    <3>2. i - 1 \in 1 .. n
      BY <1>1, <3>1
    <3> QED BY <1>1, <3>1, <3>2
  <2> QED BY <1>1, <2>1, <2>2, <2>3, <2>4
<1>3. /\ ~(n + 1 < Len(w))
      /\ w[n + 1].kind = "ToolResults" => n + 1 > 1 /\ Calls(w[(n + 1) - 1])
  <2>1. (n + 1) - 1 = n
    BY <1>1
  <2>2. n > 0 => n \in 1 .. n /\ w[n] = s[n] /\ n + 1 > 1
    BY <1>1
  <2> QED BY <1>1, <2>1, <2>2
<1>4. \A i \in DOMAIN w : i \in 1 .. n \/ i = n + 1
  BY <1>1
<1>5. Chained(w)
  BY <1>2, <1>3, <1>4 DEF Chained
<1> QED BY <1>5 DEF w

\* As much of it as one likes.
LEMMA ChainedLess ==
  ASSUME NEW S, NEW s \in Seq(S), NEW m \in 0 .. Len(s), Chained(s)
  PROVE  Chained(SubSeq(s, 1, m))
<1> DEFINE w == SubSeq(s, 1, m)
           n == Len(s)
<1>1. n \in Nat /\ m \in Nat /\ m <= n /\ DOMAIN s = 1 .. n /\ DOMAIN w = 1 .. m /\ Len(w) = m
      /\ \A i \in 1 .. m : w[i] = s[i]
  BY SubSeqProperties
<1> HIDE DEF w
<1>2. ASSUME NEW i \in 1 .. m
      PROVE  /\ Calls(w[i]) /\ i < m => w[i + 1].kind = "ToolResults" /\ ToSet(w[i + 1].ids) = ToSet(w[i].pending)
             /\ w[i].kind = "ToolResults" => i > 1 /\ Calls(w[i - 1])
  <2>1. w[i] = s[i] /\ i \in 1 .. n
    BY <1>1
  <2>2. ASSUME i < m PROVE w[i + 1] = s[i + 1] /\ i < n
    <3>1. i + 1 \in 1 .. m
      BY <1>1, <2>2
    <3> QED BY <1>1, <2>2, <3>1
  <2>3. ASSUME i > 1 PROVE w[i - 1] = s[i - 1]
    <3>1. i - 1 \in 1 .. m
      BY <1>1, <2>3
    <3> QED BY <1>1, <3>1
  <2> QED BY <1>1, <2>1, <2>2, <2>3 DEF Chained
<1>3. Chained(w)
  BY <1>1, <1>2 DEF Chained
<1> QED BY <1>3 DEF w

\* Results that answer a batch answer every call of it.
LEMMA AllAnswered ==
  ASSUME NEW pending \in Seq(Nat), NEW ids \in Seq(Nat), ValidResults(pending, ids)
  PROVE  ToSet(ids) = ToSet(pending)
<1> DEFINE n == Len(pending)
           P == ToSet(pending)
           I == ToSet(ids)
<1>1. n \in Nat /\ DOMAIN pending = 1 .. n /\ DOMAIN ids = 1 .. n
  BY DEF ValidResults
<1>2. P = {pending[i] : i \in 1 .. n} /\ I = {ids[i] : i \in 1 .. n} /\ I \subseteq P
  BY <1>1 DEF ToSet, ValidResults
<1>3. pending \in Surjection(1 .. n, P)
  <2>1. pending = [i \in 1 .. n |-> pending[i]]
    BY <1>1
  <2>2. \A i \in 1 .. n : pending[i] \in P
    BY <1>2
  <2> HIDE DEF P
  <2>3. pending \in [1 .. n -> P]
    BY <2>1, <2>2
  <2> QED BY <1>2, <2>3 DEF Surjection
<1>4. ids \in Bijection(1 .. n, I)
  <2>1. ids = [i \in 1 .. n |-> ids[i]]
    BY <1>1
  <2>2. \A i \in 1 .. n : ids[i] \in I
    BY <1>2
  <2>3. \A i, j \in 1 .. n : ids[i] = ids[j] => i = j
    BY <1>1 DEF ValidResults, IsInjective
  <2> HIDE DEF I
  <2>4. ids \in [1 .. n -> I]
    BY <2>1, <2>2
  <2> QED BY <1>2, <2>3, <2>4 DEF Surjection, Injection, Bijection, IsInjective
<1>5. IsFiniteSet(1 .. n) /\ Cardinality(1 .. n) = n
  <2>1. 1 \in Int /\ n \in Int
    BY <1>1
  <2>2. IsFiniteSet(1 .. n) /\ Cardinality(1 .. n) = IF 1 > n THEN 0 ELSE n - 1 + 1
    BY <2>1, FS_Interval
  <2> QED BY <1>1, <2>2
<1> HIDE DEF P, I, n
<1>6. IsFiniteSet(P) /\ Cardinality(P) <= n
  BY <1>3, <1>5, FS_Surjection
<1>7. Cardinality(I) = n
  <2>1. ExistsBijection(1 .. n, I)
    BY <1>4 DEF ExistsBijection
  <2> QED BY <1>5, <2>1, FS_Bijection
<1>8. Cardinality(P) \in Nat /\ Cardinality(I) <= Cardinality(P) /\ (Cardinality(P) = Cardinality(I) => P = I)
  <2>1. I \in SUBSET P
    BY <1>2
  <2> QED BY <1>6, <2>1, FS_Subset, FS_CardinalityType
<1>9. P = I
  BY <1>1, <1>6, <1>7, <1>8
<1> QED BY <1>9 DEF P, I

LEMMA NewTells == Telling(NewContext)
<1> DEFINE d == NewContext
<1>1. d.turns = <<>> /\ d.evictions = <<>> /\ d.state = Ready
  BY DEF NewContext
<1>2. DOMAIN d.turns = {} /\ DOMAIN d.evictions = {} /\ d.state.at = "ready"
  BY <1>1 DEF Ready
<1> HIDE DEF d
<1>3. Telling(d)
  BY <1>1, <1>2 DEF Telling, Chains, Ends, Level, Heads
<1> QED BY <1>3 DEF d

LEMMA OpeningTells ==
  ASSUME NEW c, Whole(c), Telling(c), NEW r \in Entry, r.kind \in {"UserPrompt", "Import", "AssistantMessage"},
         NEW len, Judge(c, len, r)
  PROVE  Telling(Opened(c, r, r.kind # "AssistantMessage"))
<1> DEFINE u == r.kind # "AssistantMessage"
           d == Opened(c, r, u)
           n == Len(c.turns)
<1>0. /\ n \in Nat /\ DOMAIN c.turns = 1 .. n /\ Len(d.turns) = n + 1 /\ DOMAIN d.turns = 1 .. (n + 1)
      /\ \A i \in 1 .. n : d.turns[i] = c.turns[i]
      /\ d.turns[n + 1] = Fresh(r, u) /\ d.evictions = c.evictions /\ d.state = Advance(c.state, r)
  <2> HIDE DEF u
  <2> QED BY OpenedShape DEF Whole
<1>1. /\ Admissible(c.state, r) /\ r.turn > Reach(c) /\ c.state \in StateRecord
      /\ Typed(c) /\ Sorted(c) /\ Anchored(c)
  BY DEF Judge, OpensTurn, Whole, Typed
<1> HIDE DEF d, n
<1>2. /\ d.turns[n + 1].at = <<>> /\ d.turns[n + 1].records = <<r>> /\ d.turns[n + 1].loc = Resident
      /\ d.turns[n + 1].id = r.turn /\ d.turns[n + 1].user = u
  <2> HIDE DEF u
  <2> QED BY <1>0 DEF Fresh
<1>3. /\ \A i \in 1 .. (n + 1) : i \in 1 .. n \/ i = n + 1
      /\ n + 1 \in 1 .. (n + 1) /\ \A i \in 1 .. n : i \in 1 .. (n + 1)
  BY <1>0
<1>4. Chains(d)
  <2>1. Chained(<<>>) /\ Chained(<<r>>)
    BY ChainedFew
  <2>2. \A i \in 1 .. n : Chained(d.turns[i].at) /\ Chained(d.turns[i].records)
    BY <1>0 DEF Telling, Chains
  <2> QED BY <1>0, <1>2, <1>3, <2>1, <2>2 DEF Chains
<1>5. Ends(d)
  <2> DEFINE s == <<r>>
  <2>1. s # <<>> /\ s[Len(s)] = r
    OBVIOUS
  <2> SUFFICES EndsOn(d.state, s)
    BY <1>0, <1>2 DEF Ends
  <2> HIDE DEF s
  <2>2. CASE r.kind = "UserPrompt"
    <3>1. d.state.at = "afterUser"
      BY <1>0, <1>1, <2>2, AdvanceIs
    <3> QED BY <2>1, <2>2, <3>1 DEF EndsOn
  <2>3. CASE r.kind = "Import"
    <3>1. d.state = c.state /\ c.state.at # "awaiting"
      BY <1>0, <1>1, <2>3, AdvanceIs DEF Admissible, AdmitsNewTurn
    <3> QED BY <2>1, <2>3, <3>1 DEF EndsOn
  <2>4. CASE r.kind = "AssistantMessage"
    <3>1. /\ r.pending = <<>> => d.state.at = "ready"
          /\ r.pending # <<>> => d.state.at = "awaiting"
          /\ d.state.pending = r.pending
      BY <1>0, <1>1, <2>4, AdvanceIs
    <3> QED BY <2>1, <2>4, <3>1 DEF EndsOn, Calls
  <2> QED BY <2>2, <2>3, <2>4
<1>6. \A id : Lost(d, id) <=> Lost(c, id)
  <2>1. d.turns[n + 1].loc # Withdrawn
    BY <1>2, Elsewhere
  <2> QED BY <1>0, <1>3, <2>1 DEF Lost
<1>7. ASSUME NEW m \in DOMAIN c.evictions PROVE ~Within(Single(r.turn), c.evictions[m].span)
  <2> DEFINE s == c.evictions[m].span
  <2>1. s[2] \in Ids(c) /\ s[2] \in Nat
    BY <1>1, Fields DEF Anchored
  <2>2. PICK i \in 1 .. n : c.turns[i].id = s[2]
    BY <1>0, <2>1, IdsAre
  <2>3. n \in 1 .. n /\ Reach(c) = c.turns[n].id /\ c.turns[n].id \in Nat /\ c.turns[i].id \in Nat
    <3>1. n \in 1 .. n /\ c.turns # <<>>
      BY <1>0, <2>2 DEF n
    <3> QED BY <1>0, <1>1, <3>1, Fields DEF Reach, Last, n
  <2>4. i < n => c.turns[i].id < c.turns[n].id
    BY <1>0, <1>1, <2>3 DEF Sorted
  <2>5. r.turn \in Nat
    BY EntryKinds
  <2>6. s[2] < r.turn
    BY <1>0, <1>1, <2>2, <2>3, <2>4, <2>5
  <2>7. Single(r.turn)[2] = r.turn
    BY DEF Single
  <2> HIDE DEF s
  <2>8. ~Within(Single(r.turn), s)
    BY <2>1, <2>5, <2>6, <2>7 DEF Within
  <2> QED BY <2>8 DEF s
<1>8. Level(d)
  <2>1. \A m \in DOMAIN c.evictions, i \in 1 .. n :
          Lost(c, c.evictions[m].span[1]) /\ Within(Single(c.turns[i].id), c.evictions[m].span)
            => c.turns[i].loc = Withdrawn
    BY <1>0 DEF Telling, Level
  <2> QED BY <1>0, <1>2, <1>3, <1>6, <1>7, <2>1 DEF Level
<1>9. Heads(d)
  <2>1. Remains(d)
    BY <1>0, <1>2, <1>3, Elsewhere DEF Remains
  <2>2. ASSUME NEW i \in 1 .. n, d.turns[i].loc # Withdrawn,
               \A j \in 1 .. (n + 1) : j < i => d.turns[j].loc = Withdrawn
        PROVE  d.turns[i].user
    BY <1>0, <2>2 DEF Telling, Heads
  <2>3. ASSUME \A j \in 1 .. (n + 1) : j < n + 1 => d.turns[j].loc = Withdrawn
        PROVE  u
    <3>1. SUFFICES ASSUME r.kind = "AssistantMessage" PROVE FALSE
      OBVIOUS
    <3>2. c.state.at # "ready"
      BY <1>1, <3>1 DEF Admissible
    <3>3. PICK i \in 1 .. n : c.turns[i].loc # Withdrawn
      BY <1>0, <3>2 DEF Telling, Heads, Remains
    <3>4. i \in 1 .. (n + 1) /\ i < n + 1
      BY <1>0
    <3> QED BY <1>0, <2>3, <3>3, <3>4
  <2> HIDE DEF u
  <2> QED BY <1>0, <1>2, <1>3, <2>1, <2>2, <2>3 DEF Heads
<1> QED BY <1>4, <1>5, <1>8, <1>9 DEF Telling, d

LEMMA ExtendingTells ==
  ASSUME NEW c, Whole(c), Telling(c), NEW r \in Entry, r.kind \in {"Steering", "ToolResults"},
         NEW len, Judge(c, len, r), c.turns # <<>>
  PROVE  Telling(Extended(c, r))
<1> DEFINE d == Extended(c, r)
           n == Len(c.turns)
           s == c.turns[n].records
           w == Append(s, r)
<1>0. /\ n \in Nat /\ n \in 1 .. n /\ DOMAIN c.turns = 1 .. n /\ Len(d.turns) = n /\ DOMAIN d.turns = 1 .. n
      /\ \A i \in 1 .. n : i # n => d.turns[i] = c.turns[i]
      /\ \A i \in 1 .. n : /\ d.turns[i].id = c.turns[i].id /\ d.turns[i].loc = c.turns[i].loc
                           /\ d.turns[i].user = c.turns[i].user /\ d.turns[i].kept = c.turns[i].kept
                           /\ d.turns[i].at = c.turns[i].at
      /\ d.turns[n].records = w
      /\ d.evictions = c.evictions /\ d.state = Advance(c.state, r)
  BY ExtendedShape DEF Whole
<1>1. /\ Admissible(c.state, r) /\ c.turns[n].loc = Resident /\ c.state \in StateRecord
      /\ s \in Seq(Entry) /\ Chained(s)
  <2>1. c.turns[n].loc = Resident
    BY DEF Judge, ExtendsTurn, Last
  <2>2. Chained(s)
    BY <1>0 DEF Telling, Chains
  <2>3. s \in Seq(Entry)
    BY <1>0, Fields DEF Whole
  <2> QED BY <2>1, <2>2, <2>3 DEF Judge, Whole, Typed
<1>n. n = Len(c.turns) /\ s = c.turns[n].records
  OBVIOUS
<1> HIDE DEF d, n, s
<1>2. EndsOn(c.state, s)
  BY <1>1, <1>n DEF Telling, Ends
<1>3. ASSUME s # <<>>, Calls(s[Len(s)])
      PROVE  r.kind = "ToolResults" /\ ToSet(r.ids) = ToSet(s[Len(s)].pending)
  <2>1. c.state.at = "awaiting"
    <3>1. PICK t : Resting(s) = Advance(t, s[Len(s)])
      BY <1>1, <1>3, RestingLast
    <3>2. Resting(s).at = "awaiting"
      BY <1>3, <3>1 DEF Calls, Advance
    <3> QED BY <1>0, <1>1, <1>n, <3>2 DEF Whole, Paid, Owing
  <2>2. r.kind = "ToolResults" /\ ValidResults(c.state.pending, r.ids)
    BY <1>1, <2>1 DEF Admissible, AdmitsNewTurn
  <2>3. c.state.pending \in Seq(Nat) /\ r.ids \in Seq(Nat)
    BY <1>1, <2>2, EntryKinds DEF StateRecord
  <2>4. ToSet(r.ids) = ToSet(c.state.pending)
    BY <2>2, <2>3, AllAnswered
  <2> QED BY <1>2, <2>1, <2>2, <2>4 DEF EndsOn
<1>4. ASSUME r.kind = "ToolResults" PROVE s # <<>> /\ Calls(s[Len(s)])
  BY <1>1, <1>2, <1>4 DEF Admissible, EndsOn
<1>5. Chained(w)
  BY <1>1, <1>3, <1>4, ChainedMore
<1>6. Chains(d)
  <2>1. \A i \in 1 .. n : Chained(c.turns[i].at) /\ Chained(c.turns[i].records)
    BY <1>0 DEF Telling, Chains
  <2>2. \A i \in 1 .. n : Chained(d.turns[i].records)
    BY <1>0, <1>5, <2>1
  <2> QED BY <1>0, <2>1, <2>2 DEF Chains
<1>7. Ends(d)
  <2>1. w # <<>> /\ w[Len(w)] = r
    BY <1>1
  <2>2. d.state.at \in {"afterUser", "afterResults"}
    BY <1>0, <1>1, AdvanceIs
  <2> HIDE DEF w
  <2>3. EndsOn(d.state, w)
    BY <2>1, <2>2 DEF EndsOn
  <2> QED BY <1>0, <2>3 DEF Ends
<1>8. \A id : Lost(d, id) <=> Lost(c, id)
  BY <1>0 DEF Lost
<1>9. Level(d)
  <2>1. \A m \in DOMAIN c.evictions, i \in 1 .. n :
          Lost(c, c.evictions[m].span[1]) /\ Within(Single(c.turns[i].id), c.evictions[m].span)
            => c.turns[i].loc = Withdrawn
    BY <1>0 DEF Telling, Level
  <2> QED BY <1>0, <1>8, <2>1 DEF Level
<1>10. Heads(d)
  <2>1. Remains(d)
    BY <1>0, <1>1, <1>n, Elsewhere DEF Remains
  <2>2. \A i \in 1 .. n :
          c.turns[i].loc # Withdrawn /\ (\A j \in 1 .. n : j < i => c.turns[j].loc = Withdrawn)
            => c.turns[i].user
    BY <1>0 DEF Telling, Heads
  <2> QED BY <1>0, <2>1, <2>2 DEF Heads
<1> QED BY <1>6, <1>7, <1>9, <1>10 DEF Telling, d

LEMMA DepartingChains ==
  ASSUME NEW t \in TurnRecord, NEW o, Departs(t, o), Chained(t.at), Chained(t.records)
  PROVE  Chained(o.at) /\ Chained(o.records) /\ o.id = t.id /\ o.user = t.user /\ (o.loc = Resident => o = t)
BY ChainedFew DEF Departs, Address

LEMMA CuttingTells ==
  ASSUME NEW c, Whole(c), Telling(c), NEW span, Cuttable(c, span)
  PROVE  Telling(CutTo(c, span))
<1> DEFINE d == CutTo(c, span)
           n == Len(c.turns)
           k == Len(c.evictions)
<1>0. /\ n \in Nat /\ DOMAIN c.turns = 1 .. n /\ k \in Nat /\ DOMAIN c.evictions = 1 .. k
      /\ Len(d.turns) = n /\ DOMAIN d.turns = 1 .. n
      /\ DOMAIN d.evictions = 1 .. (k + 1)
      /\ \A i \in 1 .. n : /\ Departs(c.turns[i], d.turns[i])
                           /\ d.turns[i].loc = Withdrawn <=> c.turns[i].loc = Withdrawn
      /\ \A m \in 1 .. k : d.evictions[m].span = c.evictions[m].span
      /\ d.evictions[k + 1].span = span
      /\ d.state = c.state
  BY CutShape DEF Whole, Cuttable
<1>n. n = Len(c.turns)
  OBVIOUS
<1>e. d.turns # <<>> => n \in 1 .. n /\ c.turns # <<>>
  <2>1. c.turns \in Seq(TurnRecord) /\ d.turns \in Seq(TurnRecord)
    BY CuttingKeepsWhole DEF Whole, Typed
  <2> HIDE DEF d
  <2> QED BY <1>0, <2>1
<1> HIDE DEF d, n, k
<1>1. \A i \in 1 .. n : /\ Chained(d.turns[i].at) /\ Chained(d.turns[i].records)
                        /\ d.turns[i].id = c.turns[i].id /\ d.turns[i].user = c.turns[i].user
                        /\ d.turns[i].loc = Resident => d.turns[i] = c.turns[i]
  <2> TAKE i \in 1 .. n
  <2>1. c.turns[i] \in TurnRecord /\ Chained(c.turns[i].at) /\ Chained(c.turns[i].records)
    BY <1>0, Fields DEF Whole, Telling, Chains
  <2>2. Departs(c.turns[i], d.turns[i])
    BY <1>0
  <2> QED BY <2>1, <2>2, DepartingChains
<1>2. Chains(d)
  BY <1>0, <1>1 DEF Chains
<1>3. Ends(d)
  <2> SUFFICES ASSUME d.turns # <<>>, d.turns[n].loc = Resident PROVE EndsOn(d.state, d.turns[n].records)
    BY <1>0 DEF Ends
  <2>1. n \in 1 .. n /\ c.turns # <<>>
    BY <1>0, <1>n, <1>e
  <2>2. d.turns[n] = c.turns[n]
    BY <1>1, <2>1
  <2> QED BY <1>0, <1>n, <2>1, <2>2 DEF Telling, Ends
<1>4. \A id : Lost(d, id) <=> Lost(c, id)
  BY <1>0, <1>1 DEF Lost
<1>5. Level(d)
  <2>1. \A m \in 1 .. k, i \in 1 .. n :
          Lost(c, c.evictions[m].span[1]) /\ Within(Single(c.turns[i].id), c.evictions[m].span)
            => c.turns[i].loc = Withdrawn
    BY <1>0 DEF Telling, Level
  <2>2. ~Lost(c, span[1])
    BY DEF Cuttable
  <2>3. \A m \in 1 .. (k + 1) : m \in 1 .. k \/ m = k + 1
    BY <1>0
  <2> QED BY <1>0, <1>1, <1>4, <2>1, <2>2, <2>3 DEF Level
<1>6. Heads(d)
  <2>1. d.state.at # "ready" => Remains(d)
    BY <1>0 DEF Telling, Heads, Remains
  <2>2. \A i \in 1 .. n :
          c.turns[i].loc # Withdrawn /\ (\A j \in 1 .. n : j < i => c.turns[j].loc = Withdrawn)
            => c.turns[i].user
    BY <1>0 DEF Telling, Heads
  <2> QED BY <1>0, <1>1, <2>1, <2>2 DEF Heads
<1> QED BY <1>2, <1>3, <1>5, <1>6 DEF Telling, d

LEMMA WithdrawingTells ==
  ASSUME NEW c, Whole(c), Telling(c), NEW from \in Nat, GoneFrom(c, from).state.at # "awaiting"
  PROVE  Telling(GoneFrom(c, from))
<1> DEFINE d == GoneFrom(c, from)
           n == Len(c.turns)
           k == Len(c.evictions)
           here == {i \in 1 .. n : d.turns[i].loc = Resident}
<1>0. /\ n \in Nat /\ DOMAIN c.turns = 1 .. n /\ k \in Nat /\ DOMAIN c.evictions = 1 .. k
      /\ Len(d.turns) = n /\ DOMAIN d.turns = 1 .. n /\ DOMAIN d.evictions = 1 .. k
      /\ \A i \in 1 .. n : /\ Departs(c.turns[i], d.turns[i])
                           /\ d.turns[i].loc = IF from <= c.turns[i].id THEN Withdrawn ELSE c.turns[i].loc
      /\ \A m \in 1 .. k : d.evictions[m].span = c.evictions[m].span
      /\ d.state = IF here = {} THEN Ready ELSE Resting(d.turns[Max(here)].records)
  BY GoneShape DEF Whole
<1>n. n = Len(c.turns) /\ d.state.at # "awaiting"
  OBVIOUS
<1>e. d.turns # <<>> => n \in 1 .. n
  <2>1. d.turns = [i \in 1 .. n |-> GoneTurn(c.turns[i], from)]
    BY <1>0 DEF GoneFrom
  <2> HIDE DEF d, n
  <2>2. n = 0 => d.turns = <<>>
    BY <2>1
  <2> QED BY <1>0, <2>2
<1> HIDE DEF d, n, k
<1>1. \A i \in 1 .. n : /\ Chained(d.turns[i].at) /\ Chained(d.turns[i].records)
                        /\ d.turns[i].id = c.turns[i].id /\ d.turns[i].user = c.turns[i].user
                        /\ d.turns[i].loc = Resident => d.turns[i] = c.turns[i]
  <2> TAKE i \in 1 .. n
  <2>1. c.turns[i] \in TurnRecord /\ Chained(c.turns[i].at) /\ Chained(c.turns[i].records)
    BY <1>0, Fields DEF Whole, Telling, Chains
  <2>2. Departs(c.turns[i], d.turns[i])
    BY <1>0
  <2> QED BY <2>1, <2>2, DepartingChains
<1>t. \A i \in 1 .. n : c.turns[i].id \in Nat /\ c.turns[i].records \in Seq(Entry)
  BY <1>0, Fields DEF Whole
<1>2. Chains(d)
  BY <1>0, <1>1 DEF Chains
<1>3. Ends(d)
  <2> SUFFICES ASSUME d.turns # <<>>, d.turns[n].loc = Resident PROVE EndsOn(d.state, d.turns[n].records)
    BY <1>0 DEF Ends
  <2> DEFINE s == d.turns[n].records
  <2>1. n \in 1 .. n
    BY <1>0, <1>e
  <2>2. s \in Seq(Entry)
    BY <1>1, <1>t, <2>1
  <2>3. n \in here /\ here \subseteq 0 .. n
    BY <1>0, <2>1
  <2> HIDE DEF here
  <2>4. Max(here) \in here /\ n <= Max(here)
    BY <1>0, <2>3, GreatestOf
  <2>5. Max(here) = n
    <3>1. Max(here) \in 0 .. n /\ n \in Nat
      BY <1>0, <2>3, <2>4
    <3> QED BY <2>4, <3>1
  <2>6. d.state = Resting(s)
    BY <1>0, <2>3, <2>5
  <2> SUFFICES EndsOn(d.state, s)
    OBVIOUS
  <2> HIDE DEF s
  <2>7. CASE s = <<>>
    <3>1. Resting(s) = Ready
      BY <2>2, <2>7, RestingLast
    <3>2. d.state.at = "ready"
      BY <2>6, <3>1 DEF Ready
    <3> QED BY <3>2 DEF EndsOn
  <2>8. CASE s # <<>>
    <3>1. PICK t : Resting(s) = Advance(t, s[Len(s)])
      BY <2>2, <2>8, RestingLast
    <3>2. s[Len(s)].kind = "AssistantMessage" => Resting(s).at \in {"ready", "awaiting"}
      BY <3>1 DEF Advance
    <3> QED BY <1>n, <2>6, <2>8, <3>2 DEF EndsOn
  <2> QED BY <2>7, <2>8
<1>4. \A id : Lost(d, id) => Lost(c, id) \/ from <= id
  BY <1>0, <1>1 DEF Lost
<1>5. Level(d)
  <2> SUFFICES ASSUME NEW m \in 1 .. k, NEW i \in 1 .. n,
                      Lost(d, c.evictions[m].span[1]), Within(Single(c.turns[i].id), c.evictions[m].span)
               PROVE  d.turns[i].loc = Withdrawn
    BY <1>0, <1>1 DEF Level
  <2>1. CASE Lost(c, c.evictions[m].span[1])
    <3>1. c.turns[i].loc = Withdrawn
      BY <1>0, <2>1 DEF Telling, Level
    <3> QED BY <1>0, <3>1
  <2>2. CASE from <= c.evictions[m].span[1]
    <3>1. c.evictions[m].span[1] <= c.turns[i].id
      BY DEF Within, Single
    <3>2. c.evictions[m].span[1] \in Nat
      BY <1>0, Fields DEF Whole
    <3>3. from <= c.turns[i].id
      BY <1>t, <2>2, <3>1, <3>2
    <3> QED BY <1>0, <3>3
  <2> QED BY <1>4, <2>1, <2>2
<1>6. Heads(d)
  <2>1. ASSUME d.state.at # "ready" PROVE Remains(d)
    <3>1. PICK i \in here : TRUE
      BY <1>0, <2>1 DEF Ready
    <3> QED BY <1>0, <3>1, Elsewhere DEF Remains
  <2>2. ASSUME NEW i \in 1 .. n, d.turns[i].loc # Withdrawn, \A j \in 1 .. n : j < i => d.turns[j].loc = Withdrawn
        PROVE  d.turns[i].user
    <3>1. c.turns[i].loc # Withdrawn /\ ~(from <= c.turns[i].id)
      BY <1>0, <2>2
    <3>2. ASSUME NEW j \in 1 .. n, j < i PROVE c.turns[j].loc = Withdrawn
      <4>1. c.turns[j].id < c.turns[i].id
        BY <1>0, <3>2 DEF Whole, Sorted
      <4>2. ~(from <= c.turns[j].id)
        BY <1>t, <3>1, <4>1
      <4> QED BY <1>0, <2>2, <3>2, <4>2
    <3>3. c.turns[i].user
      BY <1>0, <3>1, <3>2 DEF Telling, Heads
    <3> QED BY <1>1, <3>3
  <2> QED BY <1>0, <2>1, <2>2 DEF Heads
<1> QED BY <1>2, <1>3, <1>5, <1>6 DEF Telling, d

LEMMA PrefixIs ==
  ASSUME NEW s \in Seq(Entry)
  PROVE  \E m \in 0 .. Len(s) : AdmissiblePrefix(s) = SubSeq(s, 1, m)
<1> DEFINE ends == {n \in 1 .. Len(s) : AdmitsNewTurn(Resting(SubSeq(s, 1, n)))}
           m == Max(ends \cup {0})
<1>1. ends \cup {0} \subseteq 0 .. Len(s) /\ ends \cup {0} # {} /\ Len(s) \in Nat
  OBVIOUS
<1>2. AdmissiblePrefix(s) = SubSeq(s, 1, m)
  BY DEF AdmissiblePrefix
<1>3. m \in 0 .. Len(s)
  <2> HIDE DEF ends
  <2> QED BY <1>1, GreatestOf
<1> QED BY <1>2, <1>3

LEMMA ChildShape ==
  ASSUME NEW c, Typed(c)
  PROVE  LET d == Child(c)
             n == Len(c.turns)
         IN  /\ n \in Nat /\ DOMAIN c.turns = 1 .. n /\ Len(d.turns) = n /\ DOMAIN d.turns = 1 .. n
             /\ \A i \in 1 .. n : /\ d.turns[i].id = c.turns[i].id /\ d.turns[i].loc = c.turns[i].loc
                                  /\ d.turns[i].user = c.turns[i].user /\ d.turns[i].kept = TRUE
                                  /\ d.turns[i].at = Address(c.turns[i])
                                  /\ d.turns[i].records = IF c.turns[i].loc = Resident
                                                          THEN AdmissiblePrefix(Address(c.turns[i])) ELSE <<>>
             /\ d.evictions = c.evictions /\ d.state.at = "ready"
<1> DEFINE d == Child(c)
           n == Len(c.turns)
<1>0. n \in Nat /\ DOMAIN c.turns = 1 .. n
  BY Fields
<1>1. d.turns = [i \in 1 .. n |-> Carried(c.turns[i])] /\ d.evictions = c.evictions /\ d.state.at = "ready"
  BY <1>0 DEF Child, Ready
<1> HIDE DEF d, n
<1>2. Len(d.turns) = n /\ DOMAIN d.turns = 1 .. n /\ \A i \in 1 .. n : d.turns[i] = Carried(c.turns[i])
  BY <1>0, <1>1
<1>3. \A t : /\ Carried(t).id = t.id /\ Carried(t).loc = t.loc /\ Carried(t).user = t.user
             /\ Carried(t).kept = TRUE /\ Carried(t).at = Address(t)
             /\ Carried(t).records = IF t.loc = Resident THEN AdmissiblePrefix(Address(t)) ELSE <<>>
  BY DEF Carried
<1> QED BY <1>0, <1>1, <1>2, <1>3 DEF d, n

LEMMA ChildTells ==
  ASSUME NEW c, Whole(c), Telling(c)
  PROVE  Telling(Child(c))
<1> DEFINE d == Child(c)
           n == Len(c.turns)
<1>0. /\ n \in Nat /\ DOMAIN c.turns = 1 .. n /\ Len(d.turns) = n /\ DOMAIN d.turns = 1 .. n
      /\ \A i \in 1 .. n : /\ d.turns[i].id = c.turns[i].id /\ d.turns[i].loc = c.turns[i].loc
                           /\ d.turns[i].user = c.turns[i].user /\ d.turns[i].kept = TRUE
                           /\ d.turns[i].at = Address(c.turns[i])
                           /\ d.turns[i].records = IF c.turns[i].loc = Resident
                                                   THEN AdmissiblePrefix(Address(c.turns[i])) ELSE <<>>
      /\ d.evictions = c.evictions /\ d.state.at = "ready"
  BY ChildShape DEF Whole
<1> HIDE DEF d, n
<1>1. ASSUME NEW i \in 1 .. n PROVE Chained(d.turns[i].at) /\ Chained(d.turns[i].records)
  <2> DEFINE a == Address(c.turns[i])
  <2>1. Chained(a)
    BY <1>0 DEF Telling, Chains, Address
  <2>2. a \in Seq(Entry)
    BY <1>0, Fields DEF Whole, Address
  <2> HIDE DEF a
  <2>3. PICK m \in 0 .. Len(a) : AdmissiblePrefix(a) = SubSeq(a, 1, m)
    BY <2>2, PrefixIs
  <2>4. Chained(AdmissiblePrefix(a))
    BY <2>1, <2>2, <2>3, ChainedLess
  <2>5. Chained(IF c.turns[i].loc = Resident THEN AdmissiblePrefix(a) ELSE <<>>)
    BY <2>4, ChainedFew
  <2> QED BY <1>0, <2>1, <2>5 DEF a
<1>2. Chains(d)
  BY <1>0, <1>1 DEF Chains
<1>3. Ends(d)
  BY <1>0 DEF Ends, EndsOn
<1>4. \A id : Lost(d, id) <=> Lost(c, id)
  BY <1>0 DEF Lost
<1>5. Level(d)
  <2>1. \A m \in DOMAIN c.evictions, i \in 1 .. n :
          Lost(c, c.evictions[m].span[1]) /\ Within(Single(c.turns[i].id), c.evictions[m].span)
            => c.turns[i].loc = Withdrawn
    BY <1>0 DEF Telling, Level
  <2> QED BY <1>0, <1>4, <2>1 DEF Level
<1>6. Heads(d)
  <2>1. \A i \in 1 .. n :
          c.turns[i].loc # Withdrawn /\ (\A j \in 1 .. n : j < i => c.turns[j].loc = Withdrawn)
            => c.turns[i].user
    BY <1>0 DEF Telling, Heads
  <2> QED BY <1>0, <2>1 DEF Heads
<1> QED BY <1>2, <1>3, <1>5, <1>6 DEF Telling, d

LEMMA StepTells ==
  ASSUME NEW c, Whole(c), Telling(c), NEW len, NEW r \in Records, r.kind # "Inherited", Judge(c, len, r),
         r.kind = "Evicted" => r.span[1] <= r.span[2]
  PROVE  Telling(Step(c, r))
<1>0. Typed(c) /\ Admissible(c.state, r)
  BY DEF Whole, Judge
<1>k. r.kind \in {"Rewound", "Cleared"} => Step(c, r).state.at # "awaiting"
  BY StepKeepsWhole
<1>1. CASE r.kind \in {"UserPrompt", "Import", "AssistantMessage"}
  <2>1. r \in Entry
    BY <1>1, RecordKinds DEF Kinds
  <2>2. Step(c, r) = Opened(c, r, r.kind # "AssistantMessage")
    BY <1>0, <1>1, <2>1, OpeningIs
  <2> QED BY <1>1, <2>1, <2>2, OpeningTells
<1>2. CASE r.kind \in {"Steering", "ToolResults"}
  <2>1. r \in Entry
    BY <1>2, RecordKinds DEF Kinds
  <2>2. c.turns # <<>>
    <3>1. CASE r.kind = "Steering"
      BY <3>1 DEF Judge
    <3>2. CASE r.kind = "ToolResults"
      <4>1. c.state.at = "awaiting"
        BY <1>0, <3>2 DEF Admissible
      <4> QED BY <4>1 DEF Whole, Asking
    <3> QED BY <1>2, <3>1, <3>2
  <2>3. Step(c, r) = Extended(c, r)
    BY <1>0, <1>2, <2>1, ExtendingIs
  <2> QED BY <1>2, <2>1, <2>2, <2>3, ExtendingTells
<1>3. CASE r.kind = "Evicted"
  <2>1. r.span \in Spans /\ CutHolds(c, r.span)
    BY <1>3, RecordKinds DEF Judge
  <2>2. Cuttable(c, r.span)
    BY <1>3, <2>1, CutsHold
  <2>3. Step(c, r) = CutTo(c, r.span)
    BY <1>0, <1>3, <2>2, CuttingIs DEF Cuttable
  <2> QED BY <2>2, <2>3, CuttingTells
<1>4. ASSUME NEW from \in Nat, \/ r.kind = "Rewound" /\ r.anchor = from
                               \/ r.kind = "Cleared" /\ from = 0
      PROVE  Telling(Step(c, r))
  <2>1. Step(c, r) = GoneFrom(c, from)
    BY <1>0, <1>4, WithdrawingIs
  <2>2. GoneFrom(c, from).state.at # "awaiting"
    BY <1>4, <1>k, <2>1
  <2> QED BY <2>1, <2>2, WithdrawingTells
<1>5. CASE r.kind = "Rewound"
  <2>1. r.anchor \in Nat
    BY <1>5, RecordKinds
  <2> QED BY <1>4, <1>5, <2>1
<1>6. CASE r.kind = "Cleared"
  BY <1>4, <1>6
<1> QED BY <1>1, <1>2, <1>3, <1>5, <1>6, RecordKinds DEF Kinds

\* A cut that left a whole context ran forwards.
LEMMA CutsRunForward ==
  ASSUME NEW c, Whole(c), NEW len, NEW r \in Records, r.kind = "Evicted", Judge(c, len, r), Whole(Step(c, r))
  PROVE  r.span[1] <= r.span[2]
<1>1. r.span \in Spans /\ CutHolds(c, r.span)
  BY RecordKinds DEF Judge
<1>2. r.span # Withdrawn
  <2>1. r.span[1] \in Ids(c)
    BY <1>1 DEF CutHolds
  <2>2. PICK i \in DOMAIN c.turns : c.turns[i].id = r.span[1]
    BY <2>1, IdsAre
  <2>3. r.span[1] # 0
    BY <2>2, Fields DEF Whole
  <2> QED BY <2>3 DEF Withdrawn
<1>3. Step(c, r) = CutTo(c, r.span)
  BY <1>2, CuttingIs DEF Whole
<1> DEFINE d == CutTo(c, r.span)
           k == Len(c.evictions)
<1>4. k \in Nat /\ DOMAIN d.evictions = 1 .. (k + 1) /\ d.evictions[k + 1].span = r.span
  BY <1>1, <1>2, CutShape DEF Whole
<1>5. k + 1 \in DOMAIN d.evictions
  BY <1>4
<1>6. d.evictions[k + 1].span[1] <= d.evictions[k + 1].span[2]
  <2> HIDE DEF d
  <2>1. Anchored(d)
    BY <1>3 DEF Whole, d
  <2> QED BY <1>5, <2>1 DEF Anchored
<1> QED BY <1>4, <1>6

\* The links in a log are those of contexts that tell as much.
Linked(l) ==
  \A k \in DOMAIN l : l[k].kind = "Inherited" => \E c : Whole(c) /\ Telling(c) /\ l[k] = Link(c)

\* Such a log is replayed through contexts that tell as much.
LEMMA ReplayedTells ==
  ASSUME NEW l \in Seq(Records), NEW c, NEW f, Linked(l), ReplaysBy(f, l, c)
  PROVE  \A k \in 0 .. Len(l) : Telling(f[k])
<1> DEFINE n == Len(l)
           Bad == {k \in 0 .. n : ~Telling(f[k])}
<1>n. n \in Nat /\ DOMAIN l = 1 .. n /\ \A k \in 1 .. n : l[k] \in Records
  OBVIOUS
<1>0. /\ f[0] = NewContext /\ \A k \in 0 .. n : Whole(f[k])
      /\ \A k \in 1 .. n : Judge(f[k - 1], k - 1, l[k]) /\ f[k] = Step(f[k - 1], l[k])
  BY DEF ReplaysBy
<1> HIDE DEF n
<1>1. Bad = {}
  <2> SUFFICES ASSUME Bad # {} PROVE FALSE
    OBVIOUS
  <2>1. PICK k \in Bad : \A m \in Bad : k <= m
    <3>1. Bad \subseteq Nat
      BY <1>n
    <3> HIDE DEF Bad
    <3> QED BY <3>1, LeastOf
  <2>2. k # 0 /\ k \in 0 .. n
    BY <1>0, <2>1, NewTells
  <2>3. k \in 1 .. n /\ k - 1 \in 0 .. n /\ ~(k <= k - 1)
    BY <1>n, <2>2
  <2>4. /\ Telling(f[k - 1]) /\ Whole(f[k - 1]) /\ Whole(f[k]) /\ l[k] \in Records
        /\ Judge(f[k - 1], k - 1, l[k]) /\ f[k] = Step(f[k - 1], l[k])
    BY <1>0, <1>n, <2>1, <2>2, <2>3
  <2>5. CASE l[k].kind = "Inherited"
    <3>1. k - 1 = 0
      BY <2>4, <2>5 DEF Judge
    <3>2. PICK p : Whole(p) /\ Telling(p) /\ l[k] = Link(p)
      BY <1>n, <2>3, <2>5 DEF Linked
    <3>3. f[k] = Step(NewContext, Link(p))
      BY <1>0, <2>4, <3>1, <3>2
    <3>4. f[k] = Child(p)
      BY <3>2, <3>3, InstallingIs
    <3>5. Telling(f[k])
      BY <3>2, <3>4, ChildTells
    <3> QED BY <2>1, <3>5
  <2>6. CASE l[k].kind # "Inherited"
    <3>1. l[k].kind = "Evicted" => l[k].span[1] <= l[k].span[2]
      BY <2>4, CutsRunForward
    <3>2. Telling(Step(f[k - 1], l[k]))
      BY <2>4, <2>6, <3>1, StepTells
    <3> QED BY <2>1, <2>4, <3>2
  <2> QED BY <2>5, <2>6
<1> QED BY <1>1 DEF n

-----------------------------------------------------------------------------
(* What a step writes: one record, none, a link, or what resume owes. *)

\* An exchange is under way, from its opening to the boundary after it.
Underway == {"turn", "sent", "batch", "running", "arrivals", "ended"}

Wrote(r) ==
  /\ r \in Records /\ r.kind # "Inherited" /\ Emit(<<r>>) /\ phase \in Underway \cup {"rest"} /\ phase' # "down"
  /\ r.kind = "Evicted" => r.span[1] <= r.span[2]
  /\ r.kind = "Steering" => phase \in Underway
  /\ phase' \in Underway => phase \in Underway \/ OpensTurn(r)
  /\ phase \in {"batch", "running"} /\ phase' # "over" => ~wedged'
  /\ phase' \in {"turn", "sent"} => \/ r.kind \in {"UserPrompt", "Steering"}
                                    \/ r.kind = "Evicted" /\ phase \in {"turn", "sent"}
Moved ==
  /\ log' = log /\ ctx' = ctx /\ ~wedged' /\ phase # "down" /\ phase' # "down"
  /\ phase' \in Underway => phase \in Underway
  /\ phase' \in {"turn", "sent"} => phase \in {"turn", "sent", "arrivals"}

LEMMA OwnWrites ==
  ASSUME Sound, ~wedged
  PROVE  /\ \A n \in Nat, p \in Seq(Nat) :
              /\ [kind |-> "UserPrompt", turn |-> n] \in Records
              /\ [kind |-> "AssistantMessage", turn |-> n, pending |-> p] \in Records
              /\ [kind |-> "ToolResults", ids |-> p] \in Records
              /\ [kind |-> "Rewound", anchor |-> n] \in Records
         /\ [kind |-> "Steering"] \in Records /\ [kind |-> "Cleared"] \in Records
         /\ \A s \in Spans : [kind |-> "Evicted", span |-> s] \in Records
         /\ <<>> \in Seq(Nat) /\ Whole(ctx) /\ Typed(ctx) /\ Placing /\ NextId(ctx) \in Nat /\ ctx.state.pending \in Seq(Nat)
<1>1. \A n \in Nat, p \in Seq(Nat) :
        /\ [kind |-> "UserPrompt", turn |-> n] \in Records
        /\ [kind |-> "AssistantMessage", turn |-> n, pending |-> p] \in Records
        /\ [kind |-> "ToolResults", ids |-> p] \in Records
        /\ [kind |-> "Rewound", anchor |-> n] \in Records
  BY DEF Records, Entry
<1>2. /\ [kind |-> "Steering"] \in Records /\ [kind |-> "Cleared"] \in Records
      /\ \A s \in Spans : [kind |-> "Evicted", span |-> s] \in Records
      /\ <<>> \in Seq(Nat)
  BY DEF Records, Entry
<1> QED BY <1>1, <1>2, Live

LEMMA PromptWrites == Sound /\ (Prompt \/ Nudge) => \E r : Wrote(r)
<1> SUFFICES ASSUME Sound, Prompt \/ Nudge PROVE \E r : Wrote(r)
  OBVIOUS
<1>1. PICK k : /\ Emit(<<UserRecord(k)>>) /\ phase' = "turn" /\ ~wedged
               /\ (phase = "rest" /\ k = 0) \/ phase = "ended"
  BY DEF Prompt, Nudge, Goes, Emit
<1> DEFINE r == UserRecord(k)
<1>2. (r = [kind |-> "Steering"] /\ k # 0) \/ r = [kind |-> "UserPrompt", turn |-> NextId(ctx)]
  BY DEF UserRecord
<1> HIDE DEF r
<1>3. r \in Records /\ ((r.kind = "Steering" /\ k # 0) \/ r.kind = "UserPrompt")
  <2>1. \A n : n \in Nat => [kind |-> "UserPrompt", turn |-> n] \in Records
    BY <1>1, OwnWrites
  <2>2. NextId(ctx) \in Nat /\ [kind |-> "Steering"] \in Records
    BY <1>1, OwnWrites
  <2>3. CASE r = [kind |-> "Steering"] /\ k # 0
    BY <2>2, <2>3
  <2>4. CASE r = [kind |-> "UserPrompt", turn |-> NextId(ctx)]
    BY <2>1, <2>2, <2>4
  <2> QED BY <1>2, <2>3, <2>4
<1>4. Emit(<<r>>)
  BY <1>1 DEF r
<1>5. r.kind = "Steering" => phase \in Underway
  BY <1>1, <1>3 DEF Underway
<1>6. phase \in Underway \/ OpensTurn(r)
  BY <1>1, <1>3 DEF Underway, OpensTurn
<1>7. Wrote(r)
  BY <1>1, <1>3, <1>4, <1>5, <1>6 DEF Wrote, Underway
<1> QED BY <1>7

LEMMA SteerWrites == Sound /\ Steer => \E r : Wrote(r)
<1> SUFFICES ASSUME Sound, Steer PROVE \E r : Wrote(r)
  OBVIOUS
<1> DEFINE r == [kind |-> "Steering"]
<1>1. Emit(<<r>>) /\ phase = "arrivals" /\ phase' = "arrivals" /\ ~wedged
  BY DEF Steer, Goes, Emit
<1>2. r \in Records /\ r.kind = "Steering"
  BY <1>1, OwnWrites
<1> HIDE DEF r
<1>3. Wrote(r)
  BY <1>1, <1>2 DEF Wrote, Underway
<1> QED BY <1>3

LEMMA CutWrites == Sound /\ (ForceEvict \/ EvictCommand \/ ModelEvict) => \E r : Wrote(r)
<1> SUFFICES ASSUME Sound, ForceEvict \/ EvictCommand \/ ModelEvict PROVE \E r : Wrote(r)
  OBVIOUS
<1>1. PICK span :
        /\ Emit(<<[kind |-> "Evicted", span |-> span]>>) /\ CutHolds(ctx, span) /\ ~wedged
        /\ span \in Planned(ctx) \/ \E from, to \in Ids(ctx) : from <= to /\ span = <<from, to>>
        /\ \/ phase \in {"turn", "sent"} /\ phase' = "turn"
           \/ phase = "rest" /\ phase' = "over"
           \/ phase = "running" /\ phase' = "running"
  BY DEF ForceEvict, EvictCommand, ModelEvict, Goes, Emit
<1>2. Whole(ctx) /\ Typed(ctx)
  BY <1>1, Live
<1>3. span \in Spans /\ span[1] <= span[2]
  <2>1. CASE span \in Planned(ctx)
    BY <1>2, <2>1, PlannedCuts
  <2>2. CASE \E from, to \in Ids(ctx) : from <= to /\ span = <<from, to>>
    BY <1>2, <2>2, IdsAreNat DEF Spans
  <2> QED BY <1>1, <2>1, <2>2
<1> DEFINE r == [kind |-> "Evicted", span |-> span]
<1>4. r \in Records /\ r.kind = "Evicted" /\ r.span = span
  BY <1>1, <1>3, OwnWrites
<1>5. Emit(<<r>>)
  BY <1>1
<1> HIDE DEF r
<1>6. ~wedged'
  <2>1. Judge(ctx, Len(log), r)
    BY <1>1, <1>4, JudgeCuts
  <2> QED BY <1>4, <1>5, <2>1, EmitsOne
<1>7. Wrote(r)
  BY <1>1, <1>3, <1>4, <1>5, <1>6 DEF Wrote, Underway
<1> QED BY <1>7

LEMMA WithdrawWrites == Sound /\ (Rewind \/ Clear) => \E r : Wrote(r)
<1> SUFFICES ASSUME Sound, Rewind \/ Clear PROVE \E r : Wrote(r)
  OBVIOUS
<1>1. PICK r : /\ Emit(<<r>>) /\ ~wedged /\ phase = "rest" /\ phase' = "over"
               /\ \/ r = [kind |-> "Cleared"]
                  \/ \E anchor \in Ids(ctx) : r = [kind |-> "Rewound", anchor |-> anchor]
  BY DEF Rewind, Clear, Goes, Emit
<1>2. r \in Records /\ r.kind \in {"Rewound", "Cleared"}
  <2>1. /\ \A n : n \in Nat => [kind |-> "Rewound", anchor |-> n] \in Records
        /\ [kind |-> "Cleared"] \in Records
    BY <1>1, OwnWrites
  <2>2. \A anchor \in Ids(ctx) : anchor \in Nat
    BY <1>1, Live, IdsAreNat
  <2>3. CASE r = [kind |-> "Cleared"]
    BY <2>1, <2>3
  <2>4. ASSUME NEW anchor \in Ids(ctx), r = [kind |-> "Rewound", anchor |-> anchor]
        PROVE  r \in Records /\ r.kind \in {"Rewound", "Cleared"}
    BY <2>1, <2>2, <2>4
  <2> QED BY <1>1, <2>3, <2>4
<1>3. Wrote(r)
  BY <1>1, <1>2 DEF Wrote, Underway
<1> QED BY <1>3

LEMMA ReplyWrites == ASSUME NEW b \in Batches \cup {<<>>} PROVE Sound /\ Reply(b) => \E r : Wrote(r)
<1> SUFFICES ASSUME Sound, Reply(b) PROVE \E r : Wrote(r)
  OBVIOUS
<1> DEFINE r == [kind |-> "AssistantMessage", turn |-> NextId(ctx), pending |-> b]
<1>1. Emit(<<r>>) /\ phase = "sent" /\ phase' \in {"ended", "batch"} /\ ~wedged
  BY DEF Reply, Goes, Emit
<1>2. b \in Seq(Nat)
  <2>1. CASE b = <<>>
    BY <2>1
  <2>2. CASE b \in Batches
    <3>1. PICK n \in Sizes : b \in {[i \in 1 .. n |-> i], [i \in 1 .. n |-> 1]}
      BY <2>2 DEF Batches
    <3>2. n \in Nat
      BY SizesAssumption
    <3>3. [i \in 1 .. n |-> i] \in Seq(Nat) /\ [i \in 1 .. n |-> 1] \in Seq(Nat)
      BY <3>2
    <3> QED BY <3>1, <3>3
  <2> QED BY <2>1, <2>2
<1>3. r \in Records /\ r.kind = "AssistantMessage"
  BY <1>1, <1>2, OwnWrites
<1> HIDE DEF r
<1>4. Wrote(r)
  BY <1>1, <1>3 DEF Wrote, Underway
<1> QED BY <1>4

LEMMA AnswerWrites == Sound /\ Answer => \E r : Wrote(r)
<1> SUFFICES ASSUME Sound, Answer PROVE \E r : Wrote(r)
  OBVIOUS
<1> DEFINE r == [kind |-> "ToolResults", ids |-> ctx.state.pending]
<1>1. /\ Emit(<<r>>) /\ phase \in {"batch", "running"} /\ ~wedged
      /\ \/ phase' = "over"
         \/ phase' = "arrivals" /\ ValidResults(ctx.state.pending, ctx.state.pending)
  BY DEF Answer, Goes, Emit
<1>2. r \in Records /\ r.kind = "ToolResults" /\ r.ids = ctx.state.pending /\ Whole(ctx) /\ ctx.state.at = "awaiting"
  BY <1>1, OwnWrites DEF Placing
<1> HIDE DEF r
<1>3. ASSUME phase' # "over" PROVE ~wedged'
  <2>1. Judge(ctx, Len(log), r)
    BY <1>1, <1>2, <1>3, JudgeAnswers
  <2> QED BY <1>1, <1>2, <2>1, EmitsOne
<1>4. Wrote(r)
  BY <1>1, <1>2, <1>3 DEF Wrote, Underway
<1> QED BY <1>4

LEMMA RepliedWrites == Sound /\ Replied => \E r : Wrote(r)
<1> SUFFICES ASSUME Sound, Replied PROVE \E r : Wrote(r)
  OBVIOUS
<1> DEFINE r == [kind |-> "AssistantMessage", turn |-> NextId(ctx), pending |-> <<>>]
<1>1. phase = "arrivals" /\ phase' = "ended" /\ Emit(QuiesceRecords(ctx, "replied")) /\ ~wedged
  BY DEF Replied, Quiesce, Goes, Emit
<1>2. ctx.state.at \in {"afterUser", "afterResults"}
  BY <1>1, OwnWrites DEF Placing
<1>3. Emit(<<r>>)
  BY <1>1, <1>2, QuiesceFew
<1>4. r \in Records /\ r.kind = "AssistantMessage"
  <2>1. <<>> \in Seq(Nat)
    OBVIOUS
  <2> QED BY <1>1, <2>1, OwnWrites
<1> HIDE DEF r
<1>5. Wrote(r)
  BY <1>1, <1>3, <1>4 DEF Wrote, Underway
<1> QED BY <1>5

LEMMA QuiesceWrites ==
  ASSUME Sound, NEW from \in SUBSET {"turn", "sent", "batch", "running", "arrivals"}, NEW to \in {"over", "ended"},
         NEW reason, reason # "replied", Quiesce(from, to, reason), to = "over" \/ from = {"sent"}
  PROVE  Moved \/ \E r : Wrote(r)
<1>1. phase \in from /\ phase' = to /\ Emit(QuiesceRecords(ctx, reason)) /\ ~wedged
  BY DEF Quiesce, Goes, Emit
<1>2. phase \in {"turn", "sent", "batch", "running", "arrivals"} /\ phase' \in {"over", "ended"}
  BY <1>1
<1>3. CASE ctx.state.at = "awaiting"
  <2> DEFINE r == [kind |-> "ToolResults", ids |-> ctx.state.pending]
  <2>1. Emit(<<r>>)
    BY <1>1, <1>3, QuiesceFew
  <2>2. phase \in {"batch", "running"} /\ phase' = "over"
    BY <1>1, <1>2, <1>3, OwnWrites DEF Placing
  <2>3. r \in Records /\ r.kind = "ToolResults"
    BY <1>1, OwnWrites
  <2> HIDE DEF r
  <2>4. Wrote(r)
    BY <2>1, <2>2, <2>3 DEF Wrote, Underway
  <2> QED BY <2>4
<1>4. CASE ctx.state.at # "awaiting"
  <2>1. log' = log /\ ctx' = ctx /\ ~wedged'
    BY <1>1, <1>4, QuiesceFew, EmitsNone
  <2>2. Moved
    BY <1>2, <2>1 DEF Moved, Underway
  <2> QED BY <2>2
<1> QED BY <1>3, <1>4

LEMMA NextWrites ==
  ASSUME Sound, Next
  PROVE  Moved \/ (\E r : Wrote(r)) \/ Fork \/ Crash \/ Resume
<1>1. Send \/ RunCall \/ Continue \/ Certify => Moved
  <2> SUFFICES ASSUME Send \/ RunCall \/ Continue \/ Certify PROVE Moved
    OBVIOUS
  <2>1. /\ ~wedged /\ wedged' = wedged /\ log' = log /\ ctx' = ctx
        /\ \/ phase = "turn" /\ phase' = "sent"
           \/ phase \in {"batch", "running"} /\ phase' = "running"
           \/ phase = "arrivals" /\ phase' = "turn"
           \/ phase \in {"ended", "over"} /\ phase' = "rest"
    BY DEF Send, RunCall, Continue, Certify, Goes
  <2> QED BY <2>1 DEF Moved, Underway
<1>2. ASSUME Halted PROVE Moved \/ \E r : Wrote(r)
  BY <1>2, QuiesceWrites DEF Halted
<1>3. ASSUME Failed PROVE Moved \/ \E r : Wrote(r)
  BY <1>3, QuiesceWrites DEF Failed
<1>4. ASSUME Panics PROVE Moved \/ \E r : Wrote(r)
  BY <1>4, QuiesceWrites DEF Panics
<1>5. ASSUME \E b \in Batches \cup {<<>>} : Reply(b) PROVE \E r : Wrote(r)
  BY <1>5, ReplyWrites
<1> HIDE DEF Moved, Wrote
<1> QED BY <1>1, <1>2, <1>3, <1>4, <1>5, PromptWrites, SteerWrites, CutWrites, WithdrawWrites, AnswerWrites,
           RepliedWrites DEF Next

-----------------------------------------------------------------------------
(* What the record tells, beyond its replay: its links tell as much as their  *)
(* parents' contexts, and nothing is steered before a turn is opened in it.   *)

Begins(l, n) == \E k \in 1 .. n : OpensTurn(l[k])
Steered(l)   == \A k \in DOMAIN l : l[k].kind = "Steering" => Begins(l, k - 1)

\* The context is the replay of such a record: the log, or what it was.
Retold == \E l \in Seq(Records) : Linked(l) /\ Replays(l, ctx)

Tells ==
  /\ Linked(log) /\ Steered(log) /\ Retold
  /\ wedged => phase = "over"
  /\ phase \in Underway => Begins(log, Len(log))
  /\ phase \in {"turn", "sent"} => UnclosedTurn(ctx) # 0

LEMMA LogGrows ==
  ASSUME NEW l \in Seq(Records), NEW r \in Records, Linked(l), Steered(l), r.kind # "Inherited",
         r.kind = "Steering" => Begins(l, Len(l))
  PROVE  LET w == Append(l, r)
         IN  /\ w \in Seq(Records) /\ Linked(w) /\ Steered(w)
             /\ Begins(l, Len(l)) \/ OpensTurn(r) => Begins(w, Len(w))
<1> DEFINE w == Append(l, r)
           n == Len(l)
<1>1. /\ n \in Nat /\ DOMAIN l = 1 .. n /\ DOMAIN w = 1 .. (n + 1) /\ Len(w) = n + 1 /\ w \in Seq(Records)
      /\ \A k \in 1 .. n : w[k] = l[k]
      /\ w[n + 1] = r
  OBVIOUS
<1>n. n = Len(l)
  OBVIOUS
<1> HIDE DEF w, n
<1>2. \A k \in 1 .. (n + 1) : k \in 1 .. n \/ k = n + 1
  BY <1>1
<1>3. ASSUME NEW m \in 0 .. n, Begins(l, m) PROVE Begins(w, m)
  <2>1. PICK k \in 1 .. m : OpensTurn(l[k])
    BY <1>3 DEF Begins
  <2>2. k \in 1 .. n
    BY <1>1, <2>1
  <2> QED BY <1>1, <2>1, <2>2 DEF Begins
<1>4. Linked(w)
  BY <1>1, <1>2 DEF Linked
<1>5. ASSUME NEW k \in 1 .. (n + 1), w[k].kind = "Steering" PROVE Begins(w, k - 1)
  <2>1. k - 1 \in 0 .. n /\ (k = n + 1 => k - 1 = n)
    BY <1>1
  <2>2. Begins(l, k - 1)
    BY <1>1, <1>2, <1>5, <1>n, <2>1 DEF Steered
  <2> QED BY <1>3, <2>1, <2>2
<1>6. ASSUME Begins(l, n) \/ OpensTurn(r) PROVE Begins(w, n + 1)
  <2>1. n \in 0 .. n /\ n + 1 \in 1 .. (n + 1) /\ \A k \in 1 .. n : k \in 1 .. (n + 1)
    BY <1>1
  <2>2. CASE Begins(l, n)
    BY <2>1, <2>2, <1>3 DEF Begins
  <2>3. CASE OpensTurn(r)
    BY <2>1, <2>3, <1>1 DEF Begins
  <2> QED BY <1>6, <2>2, <2>3
<1>7. Steered(w)
  BY <1>1, <1>5 DEF Steered
<1>8. /\ w \in Seq(Records) /\ Linked(w) /\ Steered(w)
      /\ Begins(l, n) \/ OpensTurn(r) => Begins(w, Len(w))
  BY <1>1, <1>4, <1>6, <1>7
<1> QED BY <1>8 DEF w, n

LEMMA LogShrinks ==
  ASSUME NEW l \in Seq(Records), NEW n \in 0 .. Len(l), Linked(l), Steered(l)
  PROVE  Linked(SubSeq(l, 1, n)) /\ Steered(SubSeq(l, 1, n))
<1> DEFINE w == SubSeq(l, 1, n)
<1>1. n \in Nat /\ DOMAIN w = 1 .. n /\ \A k \in 1 .. n : w[k] = l[k] /\ k \in DOMAIN l
  <2>1. Len(l) \in Nat /\ n \in Nat /\ n <= Len(l) /\ DOMAIN l = 1 .. Len(l)
    OBVIOUS
  <2>2. Len(w) = n /\ DOMAIN w = 1 .. Len(w) /\ \A k \in 1 .. n : w[k] = l[k]
    BY <2>1, SubSeqProperties
  <2> HIDE DEF w
  <2> QED BY <2>1, <2>2
<1> HIDE DEF w
<1>2. Linked(w)
  BY <1>1 DEF Linked
<1>3. ASSUME NEW k \in 1 .. n, w[k].kind = "Steering" PROVE Begins(w, k - 1)
  <2>1. PICK j \in 1 .. (k - 1) : OpensTurn(l[j])
    BY <1>1, <1>3 DEF Steered, Begins
  <2>2. j \in 1 .. n
    BY <1>1, <2>1
  <2> QED BY <1>1, <2>1, <2>2 DEF Begins
<1>4. Steered(w)
  BY <1>1, <1>3 DEF Steered
<1> QED BY <1>2, <1>4 DEF w

\* A turn that is being written is spared by every cut.
LEMMA CutKeepsUnclosed ==
  ASSUME NEW c, Whole(c), UnclosedTurn(c) # 0, NEW span \in Spans, CutHolds(c, span)
  PROVE  UnclosedTurn(CutTo(c, span)) # 0
<1> DEFINE d == CutTo(c, span)
           n == Len(c.turns)
<1>1. c.turns # <<>> /\ c.turns[n].loc = Resident /\ c.state.at # "ready" /\ UnclosedTurn(c) = c.turns[n].id
  BY DEF UnclosedTurn, Last
<1>2. /\ n \in Nat /\ n \in DOMAIN c.turns /\ DOMAIN c.turns = 1 .. n /\ c.turns[n] \in TurnRecord
      /\ c.turns[n].id # 0
  BY <1>1, Fields DEF Whole, Typed
<1>3. ~Within(Single(c.turns[n].id), span)
  BY <1>1, <1>2 DEF CutHolds
<1>4. d.turns = [i \in 1 .. n |-> CutTurn(c.turns[i], span)] /\ d.state = c.state
  BY <1>2 DEF CutTo
<1> HIDE DEF d, n
<1>5. d.turns[n] = CutTurn(c.turns[n], span) /\ Len(d.turns) = n /\ d.turns # <<>>
  BY <1>2, <1>4
<1>6. CutTurn(c.turns[n], span) = c.turns[n]
  BY <1>3 DEF CutTurn
<1>7. UnclosedTurn(d) = c.turns[n].id
  BY <1>1, <1>4, <1>5, <1>6 DEF UnclosedTurn, Last
<1> QED BY <1>2, <1>7 DEF d

LEMMA StepKeepsUnclosed ==
  ASSUME NEW c, Whole(c), NEW len, NEW r \in Records, Judge(c, len, r),
         r.kind = "Evicted" => r.span[1] <= r.span[2],
         r.kind \in {"UserPrompt", "Steering"} \/ (r.kind = "Evicted" /\ UnclosedTurn(c) # 0)
  PROVE  UnclosedTurn(Step(c, r)) # 0
<1>1. CASE r.kind \in {"UserPrompt", "Steering"}
  <2> DEFINE d == Step(c, r)
  <2>1. Whole(d) /\ d.state = Advance(c.state, r) /\ d.turns # <<>> /\ d.turns[Len(d.turns)].loc = Resident
    BY <1>1, StepKeepsWhole DEF Kinds
  <2>2. d.state.at = "afterUser"
    BY <1>1, <2>1, AdvancesTo
  <2> HIDE DEF d
  <2>3. UnclosedTurn(d) # 0
    BY <2>1, <2>2, Unclosed DEF Whole
  <2> QED BY <2>3 DEF d
<1>2. CASE r.kind = "Evicted"
  <2>1. r.span \in Spans /\ CutHolds(c, r.span) /\ UnclosedTurn(c) # 0
    BY <1>2, RecordKinds DEF Judge
  <2>2. Cuttable(c, r.span)
    BY <1>2, <2>1, CutsHold
  <2>3. Step(c, r) = CutTo(c, r.span)
    BY <1>2, <2>2, CuttingIs DEF Whole, Cuttable
  <2> QED BY <2>1, <2>3, CutKeepsUnclosed
<1> QED BY <1>1, <1>2

LEMMA ContextTells ==
  ASSUME Retold
  PROVE  Telling(ctx)
<1>1. PICK l \in Seq(Records) : Linked(l) /\ \E f : ReplaysBy(f, l, ctx)
  BY DEF Retold, Replays
<1>f. PICK f : ReplaysBy(f, l, ctx)
  BY <1>1
<1>2. Len(l) \in 0 .. Len(l)
  OBVIOUS
<1>3. Telling(f[Len(l)])
  BY <1>1, <1>f, <1>2, ReplayedTells
<1> QED BY <1>f, <1>3 DEF ReplaysBy

\* The new context retells the new log, if the log is what it replays.
LEMMA RetoldByLog ==
  ASSUME Sound', Linked(log'), ~wedged', phase' # "down"
  PROVE  Retold'
<1>1. log' \in Seq(Records) /\ Replays(log', ctx')
  BY DEF Sound
<1> QED BY <1>1 DEF Retold

LEMMA WroteTells ==
  ASSUME Sound, Sound', Tells, NEW r, Wrote(r)
  PROVE  Tells'
<1>0. /\ r \in Records /\ r.kind # "Inherited" /\ Emit(<<r>>) /\ phase \in Underway \cup {"rest"} /\ phase' # "down"
      /\ r.kind = "Evicted" => r.span[1] <= r.span[2]
  BY DEF Wrote
<1>1. /\ ~wedged /\ log' = Append(log, r)
      /\ Judge(ctx, Len(log), r) => ctx' = Step(ctx, r) /\ ~wedged'
      /\ ~Judge(ctx, Len(log), r) => ctx' = ctx /\ wedged'
  BY <1>0, EmitsOne
<1>2. log \in Seq(Records) /\ Whole(ctx) /\ Placing
  BY <1>1, Live
<1>3. /\ Linked(log') /\ Steered(log')
      /\ Begins(log, Len(log)) \/ OpensTurn(r) => Begins(log', Len(log'))
  <2>1. r.kind = "Steering" => Begins(log, Len(log))
    BY DEF Wrote, Tells
  <2> QED BY <1>0, <1>1, <1>2, <2>1, LogGrows DEF Tells
<1>4. phase' \in Underway => Begins(log', Len(log'))
  BY <1>3 DEF Wrote, Tells
<1>5. ASSUME wedged' PROVE phase' = "over"
  <2>1. ctx' = ctx
    BY <1>1, <1>5
  <2>2. LiveRecordsAdmitted'
    BY DEF Sound
  <2>3. ctx.state.at = "awaiting"
    BY <1>5, <2>1, <2>2 DEF LiveRecordsAdmitted
  <2>4. phase \in {"batch", "running"}
    BY <1>0, <1>2, <2>3 DEF Placing, Underway, AdmitsNewTurn
  <2> QED BY <1>5, <2>4 DEF Wrote
<1>6. Retold'
  <2>1. CASE wedged'
    <3>1. ctx' = ctx
      BY <1>1, <2>1
    <3> QED BY <3>1 DEF Tells, Retold
  <2>2. CASE ~wedged'
    BY <1>0, <1>3, <2>2, RetoldByLog
  <2> QED BY <2>1, <2>2
<1>7. ASSUME phase' \in {"turn", "sent"} PROVE UnclosedTurn(ctx') # 0
  <2>1. ~wedged'
    BY <1>5, <1>7
  <2>2. Judge(ctx, Len(log), r) /\ ctx' = Step(ctx, r)
    BY <1>1, <2>1
  <2>3. r.kind \in {"UserPrompt", "Steering"} \/ (r.kind = "Evicted" /\ UnclosedTurn(ctx) # 0)
    <3>1. \/ r.kind \in {"UserPrompt", "Steering"}
          \/ r.kind = "Evicted" /\ phase \in {"turn", "sent"}
      BY <1>7 DEF Wrote
    <3>2. phase \in {"turn", "sent"} => UnclosedTurn(ctx) # 0
      BY DEF Tells
    <3> QED BY <3>1, <3>2
  <2> QED BY <1>0, <1>2, <2>2, <2>3, StepKeepsUnclosed
<1>8. (UnclosedTurn(ctx) # 0)' <=> UnclosedTurn(ctx') # 0
  BY DEF UnclosedTurn
<1> QED BY <1>3, <1>4, <1>5, <1>6, <1>7, <1>8 DEF Tells

LEMMA MovedTells ==
  ASSUME Sound, Sound', Tells, Moved
  PROVE  Tells'
<1>1. log' = log /\ ctx' = ctx /\ ~wedged' /\ phase # "down"
  BY DEF Moved
<1>2. UnclosedTurn(ctx)' = UnclosedTurn(ctx)
  BY <1>1 DEF UnclosedTurn
<1>3. phase' \in {"turn", "sent"} => UnclosedTurn(ctx) # 0
  <2>1. ~wedged => (phase = "arrivals" => UnclosedTurn(ctx) # 0)
    BY DEF Sound, Placing
  <2> QED BY <2>1 DEF Moved, Tells
<1>4. Retold'
  BY <1>1 DEF Tells, Retold
<1> QED BY <1>1, <1>2, <1>3, <1>4 DEF Tells, Moved

LEMMA ForkTells ==
  ASSUME Sound, Sound', Tells, Fork
  PROVE  Tells'
<1> DEFINE r == Link(ctx)
<1>1. phase' = "over" /\ ~wedged /\ log' = <<r>> /\ ctx' = Folded(<<r>>).ctx /\ wedged' = ~Folded(<<r>>).ok
  BY DEF Fork, Goes
<1>2. Whole(ctx) /\ Typed(ctx) /\ Telling(ctx)
  BY <1>1, Live, ContextTells DEF Tells
<1>3. r \in Records /\ Judge(NewContext, 0, r) /\ Whole(Step(NewContext, r)) /\ r.kind = "Inherited"
  BY <1>2, LinkIsRecord, LinkIsAdmitted, InstallingIs, ChildIsWhole DEF Link
<1>4. Linked(<<r>>)
  <2>1. DOMAIN <<r>> = {1} /\ <<r>>[1] = r
    OBVIOUS
  <2> QED BY <1>2, <2>1 DEF Linked
<1>5. Steered(<<r>>)
  <2>1. DOMAIN <<r>> = {1} /\ <<r>>[1] = r
    OBVIOUS
  <2> QED BY <1>3, <2>1 DEF Steered
<1> HIDE DEF r
<1>6. Replays(<<r>>, Step(NewContext, r))
  <2>1. <<>> \in Seq(Records) /\ Len(<<>>) = 0 /\ Append(<<>>, r) = <<r>>
    OBVIOUS
  <2>2. Replays(Append(<<>>, r), Step(NewContext, r))
    BY <1>3, <2>1, ReplaysNothing, ReplaysMore
  <2> QED BY <2>1, <2>2
<1>7. <<r>> \in Seq(Records)
  BY <1>3
<1>8. Folded(<<r>>).ok = TRUE
  BY <1>6, <1>7, FoldedReplays
<1>9. Retold'
  BY <1>1, <1>4, <1>8, RetoldByLog
<1> QED BY <1>1, <1>4, <1>5, <1>9 DEF Tells, Underway

LEMMA CrashTells ==
  ASSUME Sound, Sound', Tells, Crash
  PROVE  Tells'
<1>1. PICK n \in synced .. Len(log) :
        log' = SubSeq(log, 1, n) /\ phase' = "down" /\ ctx' = NewContext /\ ~wedged /\ wedged' = wedged
  BY DEF Crash
<1>2. log \in Seq(Records) /\ n \in 0 .. Len(log)
  BY <1>1, Live
<1>3. Linked(log') /\ Steered(log')
  BY <1>1, <1>2, LogShrinks DEF Tells
<1>4. Retold'
  <2>1. <<>> \in Seq(Records) /\ Linked(<<>>)
    BY DEF Linked
  <2> QED BY <1>1, <2>1, ReplaysNothing DEF Retold
<1> QED BY <1>1, <1>3, <1>4 DEF Tells, Underway

LEMMA ResumeTells ==
  ASSUME Sound, Sound', Tells, Resume
  PROVE  Tells'
<1> DEFINE f == Folded(log)
           from == [ok |-> f.ok, log |-> log, ctx |-> f.ctx]
           q == Emitted(from, QuiesceRecords(f.ctx, "aborted"))
           note == [kind |-> "Import", turn |-> NextId(q.ctx)]
           e == Emitted(q, <<note>>)
<1>1. phase' = "over" /\ ~wedged /\ log' = e.log /\ ctx' = e.ctx /\ wedged' = ~e.ok
  BY DEF Resume, Goes
<1>2. log \in Seq(Records)
  BY <1>1, Live
<1>3. PICK c : Replays(log, c)
  BY <1>1 DEF Sound
<1>4. f.ok = TRUE /\ f.ctx = c /\ Whole(c)
  BY <1>2, <1>3, FoldedReplays
<1> HIDE DEF f
<1>5. from = [ok |-> TRUE, log |-> log, ctx |-> c]
  BY <1>4
<1>6. q = Emitted(from, QuiesceRecords(c, "aborted"))
  BY <1>4
<1>f. from.ok = TRUE /\ from.log = log /\ from.ctx = c
  BY <1>5
<1> HIDE DEF from, q
<1> DEFINE Good == /\ q.log \in Seq(Records) /\ Linked(q.log) /\ Steered(q.log)
                   /\ IF q.ok THEN Whole(q.ctx) /\ Replays(q.log, q.ctx) ELSE q.ctx = c
<1>7. Good
  <2>1. CASE c.state.at # "awaiting"
    <3>1. QuiesceRecords(c, "aborted") = <<>> /\ <<>> \in Seq(Records)
      BY <2>1, QuiesceFew
    <3>2. q = from
      BY <1>6, <3>1, EmittedFew
    <3> QED BY <1>2, <1>3, <1>4, <1>f, <3>2 DEF Tells
  <2>2. CASE c.state.at = "awaiting"
    <3> DEFINE r == [kind |-> "ToolResults", ids |-> c.state.pending]
               l == Append(log, r)
    <3>1. QuiesceRecords(c, "aborted") = <<r>>
      BY <2>2, QuiesceFew
    <3>2. r \in Records /\ r.kind = "ToolResults"
      <4>1. \A p \in Seq(Nat) : [kind |-> "ToolResults", ids |-> p] \in Records
        BY DEF Records, Entry
      <4>2. c.state.pending \in Seq(Nat)
        BY <1>4, Fields DEF Whole
      <4> QED BY <4>1, <4>2
    <3> HIDE DEF r
    <3>3. <<r>> \in Seq(Records) /\ Len(<<r>>) = 1 /\ <<r>>[1] = r
      BY <3>2
    <3>4. q = Recording(from, r)
      BY <1>6, <3>1, <3>3, EmittedFew
    <3>5. q = [ok |-> Judge(c, Len(log), r), log |-> l,
               ctx |-> IF Judge(c, Len(log), r) THEN Step(c, r) ELSE c]
      BY <1>f, <3>4, RecordingIs
    <3>6. l \in Seq(Records) /\ Linked(l) /\ Steered(l)
      BY <1>2, <3>2, LogGrows DEF Tells
    <3>7. /\ q.log = l /\ q.ok = Judge(c, Len(log), r)
          /\ q.ctx = IF Judge(c, Len(log), r) THEN Step(c, r) ELSE c
      BY <3>5
    <3>8. ASSUME Judge(c, Len(log), r)
          PROVE  Whole(Step(c, r)) /\ Replays(l, Step(c, r))
      <4>1. Whole(Step(c, r))
        BY <1>4, <3>2, <3>8, StepKeepsWhole
      <4> QED BY <1>2, <1>3, <3>2, <3>8, <4>1, ReplaysMore
    <3> HIDE DEF l
    <3> QED BY <3>6, <3>7, <3>8
  <2> QED BY <2>1, <2>2
<1>8. <<note>> \in Seq({note}) /\ Len(<<note>>) = 1 /\ <<note>>[1] = note
  OBVIOUS
<1>9. e = Recording(q, note)
  BY <1>8, EmittedFew
<1>k. note.kind = "Import" /\ (NextId(q.ctx) \in Nat => note \in Records)
  BY DEF Records, Entry
<1> HIDE DEF note, e
<1>10. Linked(log') /\ Steered(log') /\ Retold'
  <2>1. CASE ~q.ok
    <3>1. e = q
      BY <1>9, <2>1 DEF Recording
    <3>2. log' = q.log /\ ctx' = c
      BY <1>1, <1>7, <2>1, <3>1
    <3> QED BY <1>2, <1>3, <1>7, <3>2 DEF Tells, Retold
  <2>2. CASE q.ok
    <3>1. Whole(q.ctx) /\ Replays(q.log, q.ctx)
      BY <1>7, <2>2
    <3>2. note \in Records
      BY <1>k, <3>1, NextIdIs
    <3>3. e = [ok  |-> Judge(q.ctx, Len(q.log), note), log |-> Append(q.log, note),
               ctx |-> IF Judge(q.ctx, Len(q.log), note) THEN Step(q.ctx, note) ELSE q.ctx]
      BY <1>9, <2>2 DEF Recording
    <3>4. /\ e.log = Append(q.log, note) /\ e.ok = Judge(q.ctx, Len(q.log), note)
          /\ ~Judge(q.ctx, Len(q.log), note) => e.ctx = q.ctx
      BY <3>3
    <3>5. Linked(log') /\ Steered(log')
      BY <1>1, <1>7, <1>k, <3>2, <3>4, LogGrows
    <3>6. CASE wedged'
      <4>1. ~Judge(q.ctx, Len(q.log), note)
        <5>1. Judge(q.ctx, Len(q.log), note) => Judge(q.ctx, Len(q.log), note) = TRUE
          BY DEF Judge
        <5> QED BY <1>1, <3>4, <3>6, <5>1
      <4>2. ctx' = q.ctx
        BY <1>1, <3>4, <4>1
      <4> QED BY <1>7, <3>1, <3>5, <4>2 DEF Retold
    <3>7. CASE ~wedged'
      BY <1>1, <3>5, <3>7, RetoldByLog
    <3> QED BY <3>5, <3>6, <3>7
  <2> QED BY <2>1, <2>2
<1> QED BY <1>1, <1>10 DEF Tells, Underway

LEMMA TellsStep == Sound /\ Sound' /\ Tells /\ [Next]_vars => Tells'
<1> SUFFICES ASSUME Sound, Sound', Tells, [Next]_vars PROVE Tells'
  OBVIOUS
<1>1. CASE UNCHANGED vars
  <2>1. log' = log /\ ctx' = ctx /\ phase' = phase /\ wedged' = wedged
    BY <1>1 DEF vars
  <2> QED BY <2>1 DEF Tells, Retold, UnclosedTurn
<1>2. CASE Next
  BY <1>2, NextWrites, MovedTells, WroteTells, ForkTells, CrashTells, ResumeTells
<1> QED BY <1>1, <1>2

\* The context is always the replay of a record in which calls are answered by
\* their own results and the first turn left is the user's: what the session
\* writes, and what a crash, resume's quiesce or a link makes of it.
THEOREM TurnsTell == Spec => []Tells
<1>1. Init => Tells
  <2> SUFFICES ASSUME Init PROVE Tells
    OBVIOUS
  <2>1. log = <<>> /\ ctx = NewContext /\ phase = "over" /\ ~wedged
    BY DEF Init
  <2>2. <<>> \in Seq(Records) /\ Linked(<<>>) /\ Steered(<<>>)
    BY DEF Linked, Steered
  <2> QED BY <2>1, <2>2, ReplaysNothing DEF Tells, Retold, Underway
<1> QED BY <1>1, TellsStep, TurnsSound, PTL DEF Spec

-----------------------------------------------------------------------------
(* The request: what the frontier renders, laid end to end. *)

Note == [kind |-> "Note"]
Block(x)  == IF x.turn THEN x.records ELSE <<Note>>
Blocks(c) == [k \in 1 .. Cardinality(Items(c)) |-> Block(Frontier(c)[k])]

LEMMA MessagesAre ==
  ASSUME NEW c, Whole(c)
  PROVE  Messages(c) = FlattenSeq(Blocks(c))
<1>1. DOMAIN Frontier(c) = 1 .. Cardinality(Items(c))
  BY FrontierIs
<1> QED BY <1>1 DEF Messages, Blocks, Block, Note

\* Each block is the records of a turn or a note; in each a batch is followed by
\* its results; and none ends on a batch while the automaton awaits nothing.
LEMMA BlockIs ==
  ASSUME NEW c, Whole(c), Chains(c), c.state.at # "awaiting", NEW x \in Items(c)
  PROVE  LET b == Block(x)
         IN  /\ b \in Seq(Entry \cup {Note}) /\ Chained(b)
             /\ b = <<>> \/ ~Calls(b[Len(b)])
<1> DEFINE b == Block(x)
<1>1. ASSUME NEW i \in DOMAIN c.turns, c.turns[i].loc = Resident, x = TurnItem(c.turns[i])
      PROVE  /\ b \in Seq(Entry \cup {Note}) /\ Chained(b)
             /\ b = <<>> \/ ~Calls(b[Len(b)])
  <2>1. b = c.turns[i].records
    BY <1>1, ItemFields DEF Block
  <2>2. b \in Seq(Entry) /\ Chained(b)
    BY <2>1, Fields DEF Whole, Chains
  <2> HIDE DEF b
  <2>3. b \in Seq(Entry \cup {Note})
    BY <2>2
  <2>4. Resting(b).at # "awaiting"
    BY <1>1, <2>1 DEF Whole, Paid, Owing
  <2>5. ASSUME b # <<>> PROVE ~Calls(b[Len(b)])
    <3>1. PICK t : Resting(b) = Advance(t, b[Len(b)])
      BY <2>2, <2>5, RestingLast
    <3> QED BY <2>4, <3>1, AdvancesTo DEF Calls
  <2> QED BY <2>2, <2>3, <2>5
<1>2. ASSUME NEW m \in DOMAIN c.evictions, x = CutItem(c.evictions[m])
      PROVE  /\ b \in Seq(Entry \cup {Note}) /\ Chained(b)
             /\ b = <<>> \/ ~Calls(b[Len(b)])
  <2>1. b = <<Note>>
    BY <1>2, ItemFields DEF Block
  <2>2. Note.kind = "Note"
    BY DEF Note
  <2>3. <<Note>> \in Seq(Entry \cup {Note}) /\ Len(<<Note>>) = 1 /\ <<Note>>[1] = Note
    OBVIOUS
  <2> HIDE DEF b
  <2>4. Chained(b)
    BY <2>1, <2>2, ChainedFew
  <2>5. ~Calls(b[Len(b)])
    BY <2>1, <2>2, <2>3 DEF Calls
  <2> QED BY <2>1, <2>3, <2>4, <2>5
<1> QED BY <1>1, <1>2, ItemsAre

\* The newest turn, while it is in the context, is the frontier's last item.
LEMMA NewestIsLast ==
  ASSUME NEW c, Whole(c), c.turns # <<>>, c.turns[Len(c.turns)].loc = Resident
  PROVE  LET n == Cardinality(Items(c))
         IN  n \in Nat \ {0} /\ Frontier(c)[n] = TurnItem(c.turns[Len(c.turns)])
<1> DEFINE n == Cardinality(Items(c))
           last == c.turns[Len(c.turns)]
           F == Frontier(c)
<1>0. /\ Len(c.turns) \in DOMAIN c.turns /\ DOMAIN c.turns = 1 .. Len(c.turns) /\ Len(c.turns) \in Nat
      /\ \A i \in DOMAIN c.turns : c.turns[i].id \in Nat
  BY Fields DEF Whole, Typed
<1>1. /\ n \in Nat /\ F \in [1 .. n -> Items(c)]
      /\ \A x \in Items(c) : \E i \in 1 .. n : F[i] = x
      /\ \A i, j \in 1 .. n : i < j => F[i].span[1] < F[j].span[1]
  BY FrontierIs
<1>2. TurnItem(last) \in Items(c)
  BY <1>0, ItemsAre
<1>3. \A x \in Items(c) : x.span[1] \in Nat /\ x.span[1] <= last.id
  <2> TAKE x \in Items(c)
  <2>1. x.span[1] \in Ids(c)
    BY ItemLies
  <2>2. PICK i \in DOMAIN c.turns : c.turns[i].id = x.span[1]
    BY <2>1, IdsAre
  <2> QED BY <1>0, <2>2 DEF Whole, Sorted
<1>4. TurnItem(last).span[1] = last.id /\ last.id \in Nat
  <2>1. \A t : <<t.id, t.id>>[1] = t.id
    OBVIOUS
  <2>2. \A t : TurnItem(t).span = <<t.id, t.id>>
    BY ItemFields
  <2>3. \A t : TurnItem(t).span[1] = t.id
    BY <2>1, <2>2
  <2> QED BY <1>0, <2>3
<1> HIDE DEF n, F, last
<1>5. PICK j \in 1 .. n : F[j] = TurnItem(last)
  BY <1>1, <1>2
<1>6. n \in 1 .. n /\ F[n] \in Items(c)
  BY <1>1, <1>5
<1>7. ~(j < n)
  <2>1. j < n => last.id < F[n].span[1]
    BY <1>1, <1>4, <1>5, <1>6
  <2>2. F[n].span[1] \in Nat /\ F[n].span[1] <= last.id
    BY <1>3, <1>6
  <2> QED BY <1>4, <2>1, <2>2
<1>8. j = n
  BY <1>1, <1>5, <1>7
<1> QED BY <1>1, <1>5, <1>6, <1>8 DEF n, F, last

LEMMA ContextIsLegal ==
  ASSUME NEW c, Whole(c), Telling(c), c.state.at \in {"afterUser", "afterResults"},
         c.turns # <<>>, c.turns[Len(c.turns)].loc = Resident
  PROVE  LET m == Messages(c)
         IN  /\ m # <<>> /\ Last(m).kind # "AssistantMessage"
             /\ \A i \in DOMAIN m :
                  /\ Calls(m[i]) => /\ i < Len(m) /\ m[i + 1].kind = "ToolResults"
                                    /\ ToSet(m[i + 1].ids) = ToSet(m[i].pending)
                  /\ m[i].kind = "ToolResults" => i > 1 /\ Calls(m[i - 1])
<1> DEFINE n == Cardinality(Items(c))
           b == Blocks(c)
           m == FlattenSeq(b)
           S == Entry \cup {Note}
           last == c.turns[Len(c.turns)]
<1>1. n \in Nat \ {0} /\ Frontier(c)[n] = TurnItem(last)
  BY NewestIsLast
<1>2. \A k \in 1 .. n : Frontier(c)[k] \in Items(c)
  BY FrontierIs
<1>3. b = [k \in 1 .. n |-> Block(Frontier(c)[k])]
  BY DEF Blocks
<1>4. \A k \in 1 .. n : /\ b[k] \in Seq(S) /\ Chained(b[k])
                        /\ b[k] = <<>> \/ ~Calls(b[k][Len(b[k])])
  BY <1>2, <1>3, BlockIs DEF Telling
<1>5. b \in Seq(Seq(S)) /\ Len(b) = n /\ b # <<>>
  BY <1>1, <1>3, <1>4
<1>6. b[n] # <<>> /\ b[n][Len(b[n])].kind # "AssistantMessage"
  <2>1. b[n] = last.records
    <3>1. \A t : Block(TurnItem(t)) = t.records
      BY ItemFields DEF Block
    <3>2. b[n] = Block(TurnItem(last))
      BY <1>1, <1>3
    <3> HIDE DEF b, n, last
    <3> QED BY <3>1, <3>2
  <2>2. EndsOn(c.state, last.records)
    BY DEF Telling, Ends
  <2> QED BY <2>1, <2>2 DEF EndsOn
<1> HIDE DEF b, n, S
<1>7. /\ m \in Seq(S) /\ Woven(m, b, n) /\ m # <<>> /\ m[Len(m)] = b[n][Len(b[n])]
  BY <1>5, <1>6, Flattened
<1> HIDE DEF m
<1>8. m # <<>> /\ Last(m).kind # "AssistantMessage"
  BY <1>6, <1>7 DEF Last
<1>9. ASSUME NEW i \in DOMAIN m
      PROVE  /\ Calls(m[i]) => /\ i < Len(m) /\ m[i + 1].kind = "ToolResults"
                               /\ ToSet(m[i + 1].ids) = ToSet(m[i].pending)
             /\ m[i].kind = "ToolResults" => i > 1 /\ Calls(m[i - 1])
  <2>1. i \in 1 .. Len(m)
    BY <1>7
  <2>2. PICK j \in 1 .. n : \E k \in 1 .. Len(b[j]) :
          /\ m[i] = b[j][k]
          /\ k < Len(b[j]) => i < Len(m) /\ m[i + 1] = b[j][k + 1]
          /\ k > 1 => i > 1 /\ m[i - 1] = b[j][k - 1]
    BY <1>7, <2>1 DEF Woven
  <2>3. PICK k \in 1 .. Len(b[j]) :
          /\ m[i] = b[j][k]
          /\ k < Len(b[j]) => i < Len(m) /\ m[i + 1] = b[j][k + 1]
          /\ k > 1 => i > 1 /\ m[i - 1] = b[j][k - 1]
    BY <2>2
  <2>4. Len(b[j]) \in Nat /\ DOMAIN b[j] = 1 .. Len(b[j]) /\ Chained(b[j]) /\ k \in DOMAIN b[j]
    BY <1>4
  <2>5. ASSUME Calls(m[i]) PROVE k < Len(b[j])
    <3>1. b[j] # <<>>
      BY <2>4
    <3>2. k # Len(b[j])
      BY <1>4, <2>3, <2>5, <3>1
    <3> QED BY <2>4, <3>2
  <2> QED BY <2>3, <2>4, <2>5 DEF Chained
<1> QED BY <1>8, <1>9, MessagesAre DEF m, b

-----------------------------------------------------------------------------
(* Nothing is sent twice and nothing is forgotten: the frontier's items.     *)

\* What is not withdrawn is in the context, or under the greatest eviction over
\* it, which is.
LEMMA Covers ==
  ASSUME NEW c, Whole(c), Level(c), NEW i \in DOMAIN c.turns, c.turns[i].loc # Withdrawn
  PROVE  \E x \in Items(c) : Within(Single(c.turns[i].id), x.span)
<1> DEFINE id == c.turns[i].id
           M == {m \in DOMAIN c.evictions : Within(Single(id), c.evictions[m].span)}
           k == Len(c.evictions)
<1>0. /\ id \in Nat /\ k \in Nat /\ DOMAIN c.evictions = 1 .. k
      /\ \A m \in DOMAIN c.evictions : c.evictions[m].span[1] \in Nat /\ c.evictions[m].span[2] \in Nat
  BY Fields DEF Whole
<1>s. Single(id)[1] = id /\ Single(id)[2] = id
  BY DEF Single
<1>1. CASE c.turns[i].loc = Resident
  <2>1. TurnItem(c.turns[i]) \in Items(c)
    BY <1>1, ItemsAre
  <2>2. TurnItem(c.turns[i]).span = Single(id)
    BY DEF TurnItem
  <2>3. Within(Single(id), Single(id))
    BY <1>0, <1>s DEF Within
  <2> QED BY <2>1, <2>2, <2>3
<1>2. CASE c.turns[i].loc # Resident
  <2>1. c.turns[i].loc \in SpansFrom(c, 1) /\ Within(Single(id), c.turns[i].loc)
    BY <1>2 DEF Whole, Placed, HeldBy
  <2>2. M # {} /\ M \subseteq 0 .. k
    BY <1>0, <2>1 DEF SpansFrom
  <2> DEFINE m == Max(M)
  <2> HIDE DEF M
  <2>3. m \in M /\ \A o \in M : o <= m
    BY <1>0, <2>2, GreatestOf
  <2> DEFINE e == c.evictions[m]
  <2>4. m \in DOMAIN c.evictions /\ Within(Single(id), e.span)
    BY <2>3 DEF M
  <2>5. ~Lost(c, e.span[1])
    BY <2>4 DEF Level
  <2>6. HeldBy(e.span, SpansFrom(c, m + 1), e.loc)
    BY <2>4, <2>5 DEF Whole, Lodged
  <2>7. e.loc \notin SpansFrom(c, m + 1) \/ ~Within(e.span, e.loc)
    <3> SUFFICES ASSUME NEW o \in (m + 1) .. k, Within(e.span, c.evictions[o].span) PROVE FALSE
      BY DEF SpansFrom
    <3>1. o \in DOMAIN c.evictions /\ m \in Nat /\ m < o
      BY <1>0, <2>4
    <3>2. Within(Single(id), c.evictions[o].span)
      BY <1>0, <1>s, <2>4, <3>1 DEF Within
    <3>3. o \in M
      BY <3>1, <3>2 DEF M
    <3>4. o <= m
      BY <2>3, <3>3
    <3> QED BY <3>1, <3>4
  <2>8. e.loc = Resident
    BY <2>6, <2>7 DEF HeldBy
  <2>9. CutItem(e) \in Items(c)
    BY <2>4, <2>8, ItemsAre
  <2>10. CutItem(e).span = e.span
    BY ItemFields
  <2> QED BY <2>4, <2>9, <2>10
<1> QED BY <1>1, <1>2

LEMMA CoveredOnce ==
  ASSUME NEW c, Whole(c), NEW id \in Nat
  PROVE  Cardinality({x \in Items(c) : Within(Single(id), x.span)}) <= 1
<1> DEFINE O == {x \in Items(c) : Within(Single(id), x.span)}
<1>1. ASSUME NEW x \in O, NEW y \in O, x # y PROVE FALSE
  <2>1. x \in Items(c) /\ y \in Items(c) /\ Within(Single(id), x.span) /\ Within(Single(id), y.span)
    OBVIOUS
  <2>2. Apart(x.span, y.span)
    BY <1>1, <2>1, ItemsApart
  <2>3. /\ x.span[1] \in Nat /\ x.span[2] \in Nat /\ y.span[1] \in Nat /\ y.span[2] \in Nat
        /\ x.span[1] \in Ids(c) /\ y.span[1] \in Ids(c)
    BY <2>1, ItemLies
  <2>4. x.span[1] <= id /\ id <= x.span[2] /\ y.span[1] <= id /\ id <= y.span[2]
    BY <2>1 DEF Within, Single
  <2> QED BY <2>2, <2>3, <2>4 DEF Apart
<1>2. O = {} \/ \E x : O = {x}
  BY <1>1
<1> HIDE DEF O
<1>3. Cardinality(O) <= 1
  <2>1. Cardinality({}) = 0
    BY FS_EmptySet
  <2>2. \A x : Cardinality({x}) = 1
    BY FS_Singleton
  <2>3. 0 <= 1 /\ 1 <= 1
    OBVIOUS
  <2> QED BY <1>2, <2>1, <2>2, <2>3
<1> QED BY <1>3 DEF O

\* The oldest item is the user's, or an eviction, whose note is the user's.
LEMMA OpensWithUser ==
  ASSUME NEW c, Whole(c), Telling(c)
  PROVE  LET items == Frontier(c)
         IN  items = <<>> \/ ~items[1].turn \/ Row(c, items[1].span[1]).user
<1> DEFINE F == Frontier(c)
           n == Cardinality(Items(c))
<1>0. /\ \A i \in DOMAIN c.turns : c.turns[i].id \in Nat
      /\ Typed(c) /\ Sorted(c) /\ DOMAIN c.turns = 1 .. Len(c.turns)
  BY Fields DEF Whole
<1>1. /\ n \in Nat /\ F \in [1 .. n -> Items(c)]
      /\ \A x \in Items(c) : \E k \in 1 .. n : F[k] = x
      /\ \A k, j \in 1 .. n : k < j => F[k].span[1] < F[j].span[1]
  BY FrontierIs
<1> HIDE DEF F, n
<1> SUFFICES ASSUME F # <<>>, F[1].turn PROVE Row(c, F[1].span[1]).user
  BY DEF F
<1>2. 1 \in 1 .. n
  <2>1. n # 0
    <3> SUFFICES ASSUME n = 0 PROVE FALSE
      OBVIOUS
    <3>1. F \in [{} -> Items(c)]
      BY <1>1
    <3>2. F = <<>>
      BY <3>1
    <3> QED BY <3>2
  <2> QED BY <1>1, <2>1
<1>3. F[1] \in Items(c)
  BY <1>1, <1>2
<1>4. PICK i \in DOMAIN c.turns : c.turns[i].loc = Resident /\ F[1] = TurnItem(c.turns[i])
  <2>1. \A e : ~CutItem(e).turn
    BY ItemFields
  <2> QED BY <1>3, <2>1, ItemsAre
<1>5. F[1].span[1] = c.turns[i].id
  <2>1. \A t : <<t.id, t.id>>[1] = t.id
    OBVIOUS
  <2>2. \A t : TurnItem(t).span = <<t.id, t.id>>
    BY ItemFields
  <2> QED BY <1>4, <2>1, <2>2
<1>6. ASSUME NEW j \in DOMAIN c.turns, j < i PROVE c.turns[j].loc = Withdrawn
  <2> SUFFICES ASSUME c.turns[j].loc # Withdrawn PROVE FALSE
    OBVIOUS
  <2>1. PICK x \in Items(c) : Within(Single(c.turns[j].id), x.span)
    BY Covers DEF Telling
  <2>2. x.span[1] <= c.turns[j].id
    BY <2>1 DEF Within, Single
  <2>3. PICK k \in 1 .. n : F[k] = x
    BY <1>1
  <2>4. k = 1 \/ 1 < k
    BY <1>1, <2>3
  <2>5. x.span[1] \in Nat
    BY ItemLies
  <2>6. c.turns[i].id <= x.span[1]
    <3>1. k = 1 => c.turns[i].id = x.span[1]
      BY <1>5, <2>3
    <3>2. 1 < k => c.turns[i].id < x.span[1]
      BY <1>1, <1>2, <1>5, <2>3
    <3> QED BY <1>0, <2>4, <2>5, <3>1, <3>2
  <2>7. c.turns[j].id < c.turns[i].id
    BY <1>0, <1>6 DEF Sorted
  <2> QED BY <1>0, <2>2, <2>5, <2>6, <2>7
<1>7. c.turns[i].user
  BY <1>4, <1>6, Elsewhere DEF Telling, Heads
<1>8. Row(c, c.turns[i].id) = c.turns[i]
  BY <1>0, RowIs
<1> QED BY <1>5, <1>7, <1>8

-----------------------------------------------------------------------------
(* What a turn's address reads back.  At each line of the record the newest   *)
(* turn is the last it opened, each turn's address is what it has recorded of *)
(* it, and a turn it has not opened has nothing.                              *)

Ops(k)    == UNION {OpenedBy(log[m]) : m \in 1 .. k}
Parts(id) == [n \in DOMAIN log |-> Brings(log[n], id, NewestAt(n))]
SumsBy(g, id) ==
  /\ FlatBy(g, Parts(id), Len(log)) /\ FlattenSeq(Parts(id)) = g[Len(log)]
  /\ \A k \in 0 .. Len(log) : g[k] \in Seq(Entry)
Sofar(id) == CHOOSE g : SumsBy(g, id)

Reaches(c, k) == Reach(c) \in Ops(k) \cup {0} /\ \A y \in Ops(k) : y \in Nat /\ y <= Reach(c)
\* A turn that is being written was opened in this record, by which no link had
\* left an address on it.
OwnTurn(c, k) ==
  IF Begins(log, k)
  THEN c.turns # <<>> /\ c.turns[Len(c.turns)].loc = Resident => ~c.turns[Len(c.turns)].kept
  ELSE c.state.at # "awaiting"
Tale(c, k) == /\ Reaches(c, k) /\ OwnTurn(c, k)
              /\ \A i \in DOMAIN c.turns : Address(c.turns[i]) = Sofar(c.turns[i].id)[k]
              /\ \A id \in Nat : id > Reach(c) => Sofar(id)[k] = <<>>

LEMMA BringsEntries ==
  ASSUME NEW r \in Records, NEW id, NEW newest
  PROVE  Brings(r, id, newest) \in Seq(Entry)
<1>0. <<>> \in Seq(Entry)
  OBVIOUS
<1>1. CASE r.kind = "Inherited" /\ id \in OpenedBy(r)
  <2>1. r \in [kind : {"Inherited"}, turns : Seq(LinkRow), evictions : Seq(Spans)]
    <3>1. r \in Entry => r.kind \in Kinds
      BY EntryKinds DEF Kinds
    <3> QED BY <1>1, <3>1 DEF Records, Kinds
  <2>2. r.turns \in Seq(LinkRow)
    BY <2>1
  <2>3. \A t \in ToSet(r.turns) : t \in LinkRow
    BY <2>2 DEF ToSet
  <2>4. \E t \in ToSet(r.turns) : t.id = id
    BY <1>1 DEF OpenedBy, OpensTurn
  <2> DEFINE t == CHOOSE t \in ToSet(r.turns) : t.id = id
  <2>5. t \in ToSet(r.turns)
    BY <2>4
  <2>6. t.at \in Seq(Entry)
    BY <2>3, <2>5 DEF LinkRow
  <2>7. Brings(r, id, newest) = t.at
    BY <1>1 DEF Brings
  <2> QED BY <2>6, <2>7
<1>2. CASE ~(r.kind = "Inherited" /\ id \in OpenedBy(r))
  <2>1. r.kind \in Kinds => r \in Entry
    BY RecordKinds
  <2>2. CASE r.kind \in Kinds /\ newest = id
    <3>1. Brings(r, id, newest) = <<r>>
      BY <1>2, <2>2 DEF Brings
    <3> QED BY <2>1, <2>2, <3>1
  <2>3. CASE ~(r.kind \in Kinds /\ newest = id)
    <3>1. Brings(r, id, newest) = <<>>
      BY <1>2, <2>3 DEF Brings
    <3> QED BY <1>0, <3>1
  <2> QED BY <2>2, <2>3
<1> QED BY <1>1, <1>2

LEMMA SofarSums ==
  ASSUME log \in Seq(Records), NEW id
  PROVE  SumsBy(Sofar(id), id)
<1> DEFINE p == Parts(id)
<1>1. Len(log) \in Nat /\ DOMAIN log = 1 .. Len(log) /\ \A n \in DOMAIN log : log[n] \in Records
  OBVIOUS
<1>2. \A n \in 1 .. Len(log) : Brings(log[n], id, NewestAt(n)) \in Seq(Entry)
  BY <1>1, BringsEntries
<1>3. p = [n \in 1 .. Len(log) |-> Brings(log[n], id, NewestAt(n))]
  BY <1>1 DEF Parts
<1>4. p \in Seq(Seq(Entry)) /\ Len(p) = Len(log)
  BY <1>1, <1>2, <1>3
<1> HIDE DEF p
<1>5. \E g : FlatBy(g, p, Len(p)) /\ FlattenSeq(p) = g[Len(p)] /\ \A k \in 0 .. Len(p) : g[k] \in Seq(Entry)
  BY <1>4, FlattenFolds
<1>6. \E g : SumsBy(g, id)
  BY <1>4, <1>5 DEF SumsBy, p
<1> QED BY <1>6 DEF Sofar

\* A line brings a turn its records, nothing, or one more.
LEMMA SofarMore ==
  ASSUME log \in Seq(Records), NEW k \in 1 .. Len(log), NEW id
  PROVE  LET x == Brings(log[k], id, NewestAt(k))
             s == Sofar(id)
         IN  /\ s[k - 1] \in Seq(Entry)
             /\ x = <<>> => s[k] = s[k - 1]
             /\ s[k - 1] = <<>> => s[k] = x
             /\ \A e : x = <<e>> => s[k] = Append(s[k - 1], e)
<1> DEFINE x == Brings(log[k], id, NewestAt(k))
           s == Sofar(id)
<1>0. /\ Len(log) \in Nat /\ DOMAIN log = 1 .. Len(log) /\ k - 1 \in 0 .. Len(log) /\ k \in DOMAIN log
      /\ log[k] \in Records
  OBVIOUS
<1>1. SumsBy(s, id)
  BY SofarSums
<1>2. Parts(id)[k] = x
  BY <1>0 DEF Parts
<1>3. s[k] = s[k - 1] \o x /\ s[k - 1] \in Seq(Entry)
  BY <1>0, <1>1, <1>2 DEF SumsBy, FlatBy
<1>4. x \in Seq(Entry)
  BY <1>0, BringsEntries
<1> HIDE DEF x, s
<1>5. x = <<>> => s[k] = s[k - 1]
  BY <1>3
<1>6. s[k - 1] = <<>> => s[k] = x
  BY <1>3, <1>4
<1>7. ASSUME NEW e, x = <<e>> PROVE s[k] = Append(s[k - 1], e)
  <2>1. \A S : \A a \in Seq(S), b \in S : a \o <<b>> = Append(a, b)
    OBVIOUS
  <2>2. e \in Entry
    <3>1. Len(<<e>>) = 1 /\ <<e>>[1] = e
      OBVIOUS
    <3> QED BY <1>4, <1>7, <3>1
  <2> QED BY <1>3, <1>7, <2>1, <2>2
<1> QED BY <1>3, <1>5, <1>6, <1>7 DEF x, s

LEMMA ReachIs ==
  ASSUME NEW c, Typed(c), Sorted(c)
  PROVE  LET n == Len(c.turns)
         IN  /\ Reach(c) \in Nat /\ n \in Nat /\ DOMAIN c.turns = 1 .. n
             /\ c.turns # <<>> => n \in 1 .. n /\ Reach(c) = c.turns[n].id
             /\ c.turns = <<>> => n = 0 /\ Reach(c) = 0
             /\ \A i \in 1 .. n : /\ c.turns[i].id \in Nat /\ c.turns[i].id <= Reach(c)
                                  /\ i # n => c.turns[i].id < Reach(c)
<1> DEFINE n == Len(c.turns)
<1>1. /\ n \in Nat /\ DOMAIN c.turns = 1 .. n /\ c.turns \in Seq(TurnRecord)
      /\ \A i \in 1 .. n : c.turns[i].id \in Nat
  BY Fields DEF Typed
<1>2. CASE c.turns = <<>>
  <2>1. Reach(c) = 0 /\ n = 0
    BY <1>2 DEF Reach
  <2> QED BY <1>1, <1>2, <2>1
<1>3. CASE c.turns # <<>>
  <2>1. n \in 1 .. n
    BY <1>1, <1>3
  <2>2. Reach(c) = c.turns[n].id
    BY <1>3 DEF Reach, Last
  <2>3. \A i \in 1 .. n : i # n => c.turns[i].id < c.turns[n].id
    BY <1>1, <2>1 DEF Sorted
  <2> QED BY <1>1, <1>3, <2>1, <2>2, <2>3
<1> QED BY <1>2, <1>3

\* The newest turn by the log is the newest in the context.
LEMMA ReachesOn ==
  ASSUME log \in Seq(Records), NEW k \in 1 .. Len(log), NEW c, NEW d, Reach(c) \in Nat, Reach(d) \in Nat,
         Reaches(c, k - 1), Reach(c) <= Reach(d), Reach(d) = Reach(c) \/ Reach(d) \in OpenedBy(log[k]),
         \A y \in OpenedBy(log[k]) : y \in Nat /\ y <= Reach(d)
  PROVE  Reaches(d, k) /\ NewestAt(k) = Reach(d)
<1>1. Ops(k) = Ops(k - 1) \cup OpenedBy(log[k])
  <2>1. \A m : m \in 1 .. k <=> m \in 1 .. (k - 1) \/ m = k
    OBVIOUS
  <2> QED BY <2>1 DEF Ops
<1>2. Reaches(d, k)
  BY <1>1 DEF Reaches
<1>3. NewestAt(k) = Max({0} \cup Ops(k))
  BY DEF NewestAt, Ops
<1> DEFINE S == {0} \cup Ops(k)
<1>4. Reach(d) \in S /\ \A y \in S : y \in Nat /\ y <= Reach(d)
  BY <1>2 DEF Reaches
<1> HIDE DEF S
<1>5. Max(S) = Reach(d)
  BY <1>4 DEF Max
<1> QED BY <1>2, <1>3, <1>5 DEF S

LEMMA BeginsOn ==
  ASSUME NEW k \in Nat \ {0}
  PROVE  Begins(log, k) <=> Begins(log, k - 1) \/ OpensTurn(log[k])
<1>1. \A m : m \in 1 .. k <=> m \in 1 .. (k - 1) \/ m = k
  OBVIOUS
<1> QED BY <1>1 DEF Begins

LEMMA DepartsKeeps ==
  ASSUME NEW t, NEW o, Departs(t, o)
  PROVE  o.id = t.id /\ Address(o) = Address(t) /\ (o.loc = Resident => o = t)
BY DEF Departs, Address

LEMMA OpeningTale ==
  ASSUME log \in Seq(Records), NEW k \in 1 .. Len(log), NEW c, Whole(c), Tale(c, k - 1), NEW r \in Entry, r = log[k],
         r.kind \in {"UserPrompt", "Import", "AssistantMessage"}, r.turn > Reach(c), NEW u
  PROVE  Tale(Opened(c, r, u), k)
<1> DEFINE d == Opened(c, r, u)
           n == Len(c.turns)
<1>0. /\ n \in Nat /\ DOMAIN c.turns = 1 .. n /\ Len(d.turns) = n + 1 /\ DOMAIN d.turns = 1 .. (n + 1)
      /\ \A i \in 1 .. n : d.turns[i] = c.turns[i]
      /\ d.turns[n + 1] = Fresh(r, u)
  BY OpenedShape DEF Whole
<1>1. /\ Reach(c) \in Nat /\ r.turn \in Nat /\ OpenedBy(r) = {r.turn} /\ OpensTurn(r) /\ r.kind \in Kinds
      /\ r.kind # "Inherited" /\ k \in Nat \ {0}
      /\ \A i \in 1 .. n : c.turns[i].id \in Nat /\ c.turns[i].id <= Reach(c)
  <2>1. OpensTurn(r) /\ r.kind \in Kinds /\ r.kind # "Inherited"
    BY DEF OpensTurn, Kinds
  <2>2. Reach(c) \in Nat /\ \A i \in 1 .. n : c.turns[i].id \in Nat /\ c.turns[i].id <= Reach(c)
    BY ReachIs DEF Whole
  <2>3. r.turn \in Nat
    BY EntryKinds
  <2> QED BY <2>1, <2>2, <2>3 DEF OpenedBy
<1> HIDE DEF d, n
<1>2. /\ d.turns[n + 1].id = r.turn /\ d.turns[n + 1].kept = FALSE /\ d.turns[n + 1].records = <<r>>
      /\ Address(d.turns[n + 1]) = <<r>>
  BY <1>0 DEF Fresh, Address
<1>3. Reach(d) = r.turn
  <2>1. d.turns # <<>>
    BY <1>0
  <2> QED BY <1>0, <1>2, <2>1 DEF Reach, Last
<1>4. Reaches(d, k) /\ NewestAt(k) = r.turn
  BY <1>1, <1>3, ReachesOn DEF Tale
<1>5. \A id : Brings(r, id, r.turn) = IF id = r.turn THEN <<r>> ELSE <<>>
  BY <1>1 DEF Brings
<1>6. ASSUME NEW id, id # r.turn PROVE Sofar(id)[k] = Sofar(id)[k - 1]
  BY <1>4, <1>5, <1>6, SofarMore
<1>7. Sofar(r.turn)[k] = <<r>>
  <2>1. Sofar(r.turn)[k - 1] = <<>>
    BY <1>1 DEF Tale
  <2> QED BY <1>4, <1>5, <2>1, SofarMore
<1>8. ASSUME NEW i \in 1 .. (n + 1) PROVE Address(d.turns[i]) = Sofar(d.turns[i].id)[k]
  <2>1. CASE i = n + 1
    BY <1>2, <1>7, <2>1
  <2>2. CASE i # n + 1
    <3>1. i \in 1 .. n
      BY <1>0, <2>2
    <3>2. d.turns[i] = c.turns[i] /\ c.turns[i].id # r.turn
      BY <1>0, <1>1, <3>1
    <3>3. Address(c.turns[i]) = Sofar(c.turns[i].id)[k - 1]
      BY <1>0, <3>1 DEF Tale
    <3> QED BY <1>6, <3>2, <3>3
  <2> QED BY <2>1, <2>2
<1>9. \A id \in Nat : id > Reach(d) => Sofar(id)[k] = <<>>
  <2> TAKE id \in Nat
  <2> HAVE id > Reach(d)
  <2>1. id > Reach(c) /\ id # r.turn
    BY <1>1, <1>3
  <2>2. Sofar(id)[k - 1] = <<>>
    BY <2>1 DEF Tale
  <2> QED BY <1>6, <2>1, <2>2
<1>10. OwnTurn(d, k)
  <2>1. Begins(log, k)
    BY <1>1, BeginsOn
  <2> QED BY <1>0, <1>2, <2>1 DEF OwnTurn
<1> QED BY <1>0, <1>4, <1>8, <1>9, <1>10 DEF Tale, d

LEMMA ExtendingTale ==
  ASSUME log \in Seq(Records), NEW k \in 1 .. Len(log), NEW c, Whole(c), Tale(c, k - 1), NEW r \in Entry, r = log[k],
         r.kind \in {"Steering", "ToolResults"}, c.turns # <<>>, c.turns[Len(c.turns)].loc = Resident,
         Begins(log, k - 1)
  PROVE  Tale(Extended(c, r), k)
<1> DEFINE d == Extended(c, r)
           n == Len(c.turns)
<1>0. /\ n \in Nat /\ n \in 1 .. n /\ DOMAIN c.turns = 1 .. n /\ Len(d.turns) = n /\ DOMAIN d.turns = 1 .. n
      /\ \A i \in 1 .. n : i # n => d.turns[i] = c.turns[i]
      /\ \A i \in 1 .. n : /\ d.turns[i].id = c.turns[i].id /\ d.turns[i].loc = c.turns[i].loc
                           /\ d.turns[i].user = c.turns[i].user /\ d.turns[i].kept = c.turns[i].kept
                           /\ d.turns[i].at = c.turns[i].at
      /\ d.turns[n].records = Append(c.turns[n].records, r)
  BY ExtendedShape DEF Whole
<1>1. /\ Reach(c) \in Nat /\ Reach(c) = c.turns[n].id
      /\ \A i \in 1 .. n : c.turns[i].id \in Nat /\ (i # n => c.turns[i].id < Reach(c))
  BY ReachIs DEF Whole
<1>2. OpenedBy(r) = {} /\ ~OpensTurn(r) /\ r.kind \in Kinds /\ r.kind # "Inherited" /\ k \in Nat \ {0}
  BY DEF OpenedBy, OpensTurn, Kinds
<1>k. ~c.turns[n].kept
  BY DEF Tale, OwnTurn
<1> HIDE DEF d, n
<1>3. Reach(d) = Reach(c)
  <2>1. d.turns # <<>>
    BY <1>0
  <2> QED BY <1>0, <1>1, <2>1 DEF Reach, Last
<1>4. Reaches(d, k) /\ NewestAt(k) = Reach(c)
  BY <1>1, <1>2, <1>3, ReachesOn DEF Tale
<1>5. \A id : Brings(r, id, Reach(c)) = IF id = Reach(c) THEN <<r>> ELSE <<>>
  BY <1>2 DEF Brings
<1>6. ASSUME NEW id, id # Reach(c) PROVE Sofar(id)[k] = Sofar(id)[k - 1]
  BY <1>4, <1>5, <1>6, SofarMore
<1>7. Sofar(Reach(c))[k] = Append(Sofar(Reach(c))[k - 1], r)
  BY <1>4, <1>5, SofarMore
<1>8. ASSUME NEW i \in 1 .. n PROVE Address(d.turns[i]) = Sofar(d.turns[i].id)[k]
  <2>1. Address(c.turns[i]) = Sofar(c.turns[i].id)[k - 1]
    BY <1>0 DEF Tale
  <2>2. CASE i = n
    <3>1. Address(c.turns[n]) = c.turns[n].records /\ Address(d.turns[n]) = d.turns[n].records
      BY <1>0, <1>k DEF Address
    <3> QED BY <1>0, <1>1, <1>7, <2>1, <2>2, <3>1
  <2>3. CASE i # n
    BY <1>0, <1>1, <1>6, <2>1, <2>3
  <2> QED BY <2>2, <2>3
<1>9. \A id \in Nat : id > Reach(d) => Sofar(id)[k] = <<>>
  <2> TAKE id \in Nat
  <2> HAVE id > Reach(d)
  <2>1. id > Reach(c) /\ id # Reach(c)
    BY <1>1, <1>3
  <2>2. Sofar(id)[k - 1] = <<>>
    BY <2>1 DEF Tale
  <2> QED BY <1>6, <2>1, <2>2
<1>10. OwnTurn(d, k)
  <2>1. Begins(log, k)
    BY <1>2, BeginsOn
  <2> QED BY <1>0, <1>k, <2>1 DEF OwnTurn
<1> QED BY <1>0, <1>4, <1>8, <1>9, <1>10 DEF Tale, d

\* A cut or a withdrawal moves addresses and brings nothing.
LEMMA DepartingTale ==
  ASSUME log \in Seq(Records), NEW k \in 1 .. Len(log), NEW c, Whole(c), Tale(c, k - 1), NEW r, r = log[k],
         r.kind \in {"Evicted", "Rewound", "Cleared"}, NEW d, Typed(d), Len(d.turns) = Len(c.turns),
         \A i \in 1 .. Len(c.turns) : Departs(c.turns[i], d.turns[i]),
         d.state.at = "awaiting" => c.state.at = "awaiting"
  PROVE  Tale(d, k)
<1> DEFINE n == Len(c.turns)
<1>0. /\ n \in Nat /\ DOMAIN c.turns = 1 .. n /\ Len(d.turns) = n /\ DOMAIN d.turns = 1 .. n
      /\ d.turns # <<>> <=> n # 0
      /\ c.turns # <<>> <=> n # 0
  <2>1. DOMAIN d.turns = 1 .. n /\ n \in Nat /\ d.turns \in Seq(TurnRecord) /\ Len(d.turns) = n
    BY Fields DEF Typed
  <2>2. DOMAIN c.turns = 1 .. n /\ c.turns \in Seq(TurnRecord)
    BY Fields DEF Whole, Typed
  <2> QED BY <2>1, <2>2
<1>d. \A i \in 1 .. n : /\ d.turns[i].id = c.turns[i].id /\ Address(d.turns[i]) = Address(c.turns[i])
                        /\ d.turns[i].loc = Resident => d.turns[i] = c.turns[i]
  BY DepartsKeeps
<1>1. Reach(c) \in Nat /\ (n # 0 => n \in 1 .. n /\ Reach(c) = c.turns[n].id)
  BY <1>0, ReachIs DEF Whole
<1>2. OpenedBy(r) = {} /\ ~OpensTurn(r) /\ r.kind \notin Kinds /\ r.kind # "Inherited" /\ k \in Nat \ {0}
  BY DEF OpenedBy, OpensTurn, Kinds
<1>n. n = Len(c.turns)
  OBVIOUS
<1> HIDE DEF n
<1>3. Reach(d) = Reach(c)
  <2>1. CASE n = 0
    BY <1>0, <2>1 DEF Reach
  <2>2. CASE n # 0
    BY <1>0, <1>1, <1>d, <2>2 DEF Reach, Last
  <2> QED BY <2>1, <2>2
<1>4. Reaches(d, k) /\ NewestAt(k) = Reach(c)
  BY <1>1, <1>2, <1>3, ReachesOn DEF Tale
<1>5. \A id : Brings(r, id, NewestAt(k)) = <<>>
  BY <1>2 DEF Brings
<1>6. \A id : Sofar(id)[k] = Sofar(id)[k - 1]
  BY <1>5, SofarMore
<1>7. \A i \in 1 .. n : Address(d.turns[i]) = Sofar(d.turns[i].id)[k]
  BY <1>0, <1>6, <1>d DEF Tale
<1>8. \A id \in Nat : id > Reach(d) => Sofar(id)[k] = <<>>
  BY <1>3, <1>6 DEF Tale
<1>9. OwnTurn(d, k)
  <2>1. Begins(log, k) <=> Begins(log, k - 1)
    BY <1>2, BeginsOn
  <2>2. OwnTurn(c, k - 1)
    BY DEF Tale
  <2>3. ASSUME d.turns # <<>>, d.turns[n].loc = Resident, Begins(log, k - 1) PROVE ~d.turns[n].kept
    <3>1. n \in 1 .. n /\ c.turns # <<>>
      BY <1>0, <1>1, <2>3
    <3>2. d.turns[n] = c.turns[n]
      BY <1>d, <2>3, <3>1
    <3> QED BY <1>n, <2>2, <2>3, <3>1, <3>2 DEF OwnTurn
  <2> QED BY <1>0, <2>1, <2>2, <2>3 DEF OwnTurn
<1> QED BY <1>0, <1>4, <1>7, <1>8, <1>9 DEF Tale

\* A link brings each turn what its parent's address reads back.
LEMMA LinkTale ==
  ASSUME log \in Seq(Records), 1 \in 1 .. Len(log), NEW p, Whole(p), log[1] = Link(p), Tale(NewContext, 0)
  PROVE  Tale(Child(p), 1)
<1> DEFINE d == Child(p)
           n == Len(p.turns)
           r == Link(p)
<1>0. /\ n \in Nat /\ DOMAIN p.turns = 1 .. n /\ Len(d.turns) = n /\ DOMAIN d.turns = 1 .. n
      /\ \A i \in 1 .. n : /\ d.turns[i].id = p.turns[i].id /\ d.turns[i].kept = TRUE
                           /\ d.turns[i].at = Address(p.turns[i])
      /\ d.state.at = "ready"
  BY ChildShape DEF Whole
<1>1. /\ r.kind = "Inherited"
      /\ ToSet(r.turns) = {Seen(p.turns[i]) : i \in 1 .. n}
  BY <1>0, LinkIs DEF Whole
<1>2. Typed(d) /\ Sorted(d)
  BY ChildIsWhole DEF Whole
<1>3. /\ Reach(d) \in Nat
      /\ n # 0 => n \in 1 .. n /\ Reach(d) = d.turns[n].id
      /\ n = 0 => Reach(d) = 0
      /\ \A i \in 1 .. n : /\ d.turns[i].id \in Nat /\ d.turns[i].id <= Reach(d)
  <2>1. d.turns = <<>> <=> n = 0
    BY <1>0, <1>2 DEF Typed
  <2> QED BY <1>0, <1>2, <2>1, ReachIs
<1>u. \A i, j \in 1 .. n : p.turns[i].id = p.turns[j].id => i = j
  <2>1. \A i, j \in 1 .. n : i < j => d.turns[i].id < d.turns[j].id
    BY <1>0, <1>2 DEF Sorted
  <2>2. \A i \in 1 .. n : d.turns[i].id = p.turns[i].id /\ d.turns[i].id \in Nat
    BY <1>0, <1>3
  <2> HIDE DEF d, n
  <2>3. \A i, j \in 1 .. n : i < j => p.turns[i].id # p.turns[j].id
    BY <2>1, <2>2
  <2>4. \A i, j \in 1 .. n : i = j \/ i < j \/ j < i
    BY <1>0
  <2> QED BY <2>3, <2>4
<1> HIDE DEF d, n, r
<1>s. \A t : Seen(t).id = t.id /\ Seen(t).at = Address(t)
  BY DEF Seen
<1>4. OpenedBy(r) = {p.turns[i].id : i \in 1 .. n} /\ ~OpensTurn(r) /\ r.kind \notin Kinds
  <2>1. ~OpensTurn(r) /\ r.kind \notin Kinds
    BY <1>1 DEF OpensTurn, Kinds
  <2>2. OpenedBy(r) = {t.id : t \in ToSet(r.turns)}
    BY <1>1, <2>1 DEF OpenedBy
  <2> QED BY <1>1, <1>s, <2>1, <2>2
<1>5. Reach(NewContext) = 0
  BY DEF Reach, NewContext
<1>6. Reaches(d, 1) /\ NewestAt(1) = Reach(d)
  <2>1. log[1] = r
    BY DEF r
  <2>2. Reach(d) = 0 \/ Reach(d) \in OpenedBy(r)
    BY <1>0, <1>3, <1>4
  <2>3. \A y \in OpenedBy(r) : y \in Nat /\ y <= Reach(d)
    BY <1>0, <1>3, <1>4
  <2>4. 0 <= Reach(d) /\ 1 - 1 = 0
    BY <1>3
  <2> QED BY <1>3, <1>5, <2>1, <2>2, <2>3, <2>4, ReachesOn DEF Tale
<1>7. ASSUME NEW id \in Nat PROVE Sofar(id)[1] = Brings(r, id, Reach(d))
  <2>1. Sofar(id)[0] = <<>>
    <3>1. SumsBy(Sofar(id), id)
      BY SofarSums
    <3> QED BY <3>1 DEF SumsBy, FlatBy
  <2>2. 1 - 1 = 0 /\ log[1] = r
    BY DEF r
  <2> QED BY <1>6, <2>1, <2>2, SofarMore
<1>8. ASSUME NEW i \in 1 .. n PROVE Address(d.turns[i]) = Sofar(d.turns[i].id)[1]
  <2> DEFINE id == p.turns[i].id
  <2>1. id \in OpenedBy(r)
    BY <1>4
  <2>2. \A t \in ToSet(r.turns) : t.id = id => t = Seen(p.turns[i])
    BY <1>1, <1>s, <1>u
  <2>3. Seen(p.turns[i]) \in ToSet(r.turns) /\ Seen(p.turns[i]).id = id
    BY <1>1, <1>s
  <2>4. (CHOOSE t \in ToSet(r.turns) : t.id = id) = Seen(p.turns[i])
    BY <2>2, <2>3
  <2>5. Brings(r, id, Reach(d)) = Address(p.turns[i])
    BY <1>1, <1>s, <2>1, <2>4 DEF Brings
  <2>6. Address(d.turns[i]) = Address(p.turns[i]) /\ d.turns[i].id = id
    BY <1>0 DEF Address
  <2>7. id \in Nat
    BY <1>3, <2>6
  <2> HIDE DEF id
  <2> QED BY <1>7, <2>5, <2>6, <2>7
<1>9. \A id \in Nat : id > Reach(d) => Sofar(id)[1] = <<>>
  <2> TAKE id \in Nat
  <2> HAVE id > Reach(d)
  <2>1. id \notin OpenedBy(r)
    BY <1>0, <1>3, <1>4
  <2>2. Brings(r, id, Reach(d)) = <<>>
    BY <1>4, <2>1 DEF Brings
  <2> QED BY <1>7, <2>2
<1>10. OwnTurn(d, 1)
  <2>1. ~Begins(log, 1)
    <3>1. \A m \in 1 .. 1 : log[m] = r
      BY DEF r
    <3> QED BY <1>4, <3>1 DEF Begins
  <2> QED BY <1>0, <2>1 DEF OwnTurn
<1> QED BY <1>0, <1>6, <1>8, <1>9, <1>10 DEF Tale, d

LEMMA NewTale == log \in Seq(Records) => Tale(NewContext, 0)
<1> SUFFICES ASSUME log \in Seq(Records) PROVE Tale(NewContext, 0)
  OBVIOUS
<1> DEFINE d == NewContext
<1>1. d.turns = <<>> /\ d.state = Ready
  BY DEF NewContext
<1>2. DOMAIN d.turns = {} /\ d.state.at = "ready" /\ Reach(d) = 0
  BY <1>1 DEF Ready, Reach
<1>3. \A id : Sofar(id)[0] = <<>>
  <2>1. \A id : SumsBy(Sofar(id), id)
    BY SofarSums
  <2> QED BY <2>1 DEF SumsBy, FlatBy
<1> HIDE DEF d
<1>4. 1 .. 0 = {}
  OBVIOUS
<1>5. Ops(0) = {} /\ ~Begins(log, 0)
  BY <1>4 DEF Ops, Begins
<1>6. Tale(d, 0)
  BY <1>2, <1>3, <1>5 DEF Tale, Reaches, OwnTurn
<1> QED BY <1>6 DEF d

LEMMA StepTale ==
  ASSUME log \in Seq(Records), Linked(log), Steered(log), NEW k \in 1 .. Len(log),
         NEW c, Whole(c), Whole(Step(c, log[k])), Judge(c, k - 1, log[k]), Tale(c, k - 1),
         k = 1 => c = NewContext
  PROVE  Tale(Step(c, log[k]), k)
<1> DEFINE r == log[k]
<1>0. k \in Nat /\ k \in DOMAIN log /\ r \in Records /\ Judge(c, k - 1, r) /\ Whole(Step(c, r)) /\ Typed(c)
      /\ r = log[k]
  BY DEF Whole
<1> HIDE DEF r
<1>1. CASE r.kind \in {"UserPrompt", "Import", "AssistantMessage"}
  <2>1. r \in Entry
    BY <1>0, <1>1, RecordKinds DEF Kinds
  <2>2. r.turn > Reach(c)
    BY <1>0, <1>1 DEF Judge, OpensTurn
  <2>3. Step(c, r) = Opened(c, r, r.kind # "AssistantMessage")
    BY <1>0, <1>1, <2>1, OpeningIs
  <2>4. Tale(Opened(c, r, r.kind # "AssistantMessage"), k)
    BY <1>0, <1>1, <2>1, <2>2, OpeningTale
  <2> QED BY <1>0, <2>3, <2>4
<1>2. CASE r.kind \in {"Steering", "ToolResults"}
  <2>1. r \in Entry
    BY <1>0, <1>2, RecordKinds DEF Kinds
  <2>2. Admissible(c.state, r)
    BY <1>0 DEF Judge
  <2>3. r.kind = "ToolResults" => c.state.at = "awaiting"
    BY <2>2 DEF Admissible
  <2>4. c.turns # <<>>
    <3>1. r.kind = "Steering" => c.turns # <<>>
      BY <1>0 DEF Judge
    <3>2. r.kind = "ToolResults" => c.turns # <<>>
      BY <2>3 DEF Whole, Asking
    <3> QED BY <1>2, <3>1, <3>2
  <2>5. c.turns[Len(c.turns)].loc = Resident
    BY <1>0, <1>2, <2>4 DEF Judge, ExtendsTurn, Last
  <2>6. Begins(log, k - 1)
    <3>1. r.kind = "Steering" => Begins(log, k - 1)
      BY <1>0 DEF Steered
    <3>2. ~Begins(log, k - 1) => c.state.at # "awaiting"
      BY DEF Tale, OwnTurn
    <3> QED BY <1>2, <2>3, <3>1, <3>2
  <2>7. Step(c, r) = Extended(c, r)
    BY <1>0, <1>2, <2>1, ExtendingIs
  <2>8. Tale(Extended(c, r), k)
    BY <1>0, <1>2, <2>1, <2>4, <2>5, <2>6, ExtendingTale
  <2> QED BY <1>0, <2>7, <2>8
<1>3. CASE r.kind = "Evicted"
  <2>1. r.span[1] <= r.span[2] /\ r.span \in Spans /\ CutHolds(c, r.span)
    <3>1. r.span \in Spans /\ CutHolds(c, r.span)
      BY <1>0, <1>3, RecordKinds DEF Judge
    <3>2. r.span[1] <= r.span[2]
      BY <1>0, <1>3, CutsRunForward
    <3> QED BY <3>1, <3>2
  <2>2. Cuttable(c, r.span)
    BY <2>1, CutsHold
  <2>3. Step(c, r) = CutTo(c, r.span)
    BY <1>0, <1>3, <2>2, CuttingIs DEF Cuttable
  <2>4. /\ Len(CutTo(c, r.span).turns) = Len(c.turns)
        /\ \A i \in 1 .. Len(c.turns) : Departs(c.turns[i], CutTo(c, r.span).turns[i])
        /\ CutTo(c, r.span).state = c.state
    BY <1>0, <2>2, CutShape DEF Cuttable
  <2>5. Typed(CutTo(c, r.span))
    BY <1>0, <2>3 DEF Whole
  <2>6. Tale(CutTo(c, r.span), k)
    BY <1>0, <1>3, <2>4, <2>5, DepartingTale
  <2> QED BY <1>0, <2>3, <2>6
<1>4. ASSUME NEW from \in Nat, \/ r.kind = "Rewound" /\ r.anchor = from
                               \/ r.kind = "Cleared" /\ from = 0
      PROVE  Tale(Step(c, r), k)
  <2>1. Step(c, r) = GoneFrom(c, from)
    BY <1>0, <1>4, WithdrawingIs
  <2>2. GoneFrom(c, from).state.at # "awaiting"
    BY <1>0, <1>4, <2>1, StepKeepsWhole
  <2>3. /\ Len(GoneFrom(c, from).turns) = Len(c.turns)
        /\ \A i \in 1 .. Len(c.turns) : Departs(c.turns[i], GoneFrom(c, from).turns[i])
    BY <1>0, GoneShape
  <2>4. Typed(GoneFrom(c, from))
    BY <1>0, <2>1 DEF Whole
  <2>5. Tale(GoneFrom(c, from), k)
    BY <1>0, <1>4, <2>2, <2>3, <2>4, DepartingTale
  <2> QED BY <2>1, <2>5
<1>5. CASE r.kind = "Rewound"
  <2>1. r.anchor \in Nat
    BY <1>0, <1>5, RecordKinds
  <2> QED BY <1>0, <1>4, <1>5, <2>1
<1>6. CASE r.kind = "Cleared"
  BY <1>0, <1>4, <1>6
<1>7. CASE r.kind = "Inherited"
  <2>1. k = 1
    <3>1. k - 1 = 0
      BY <1>0, <1>7 DEF Judge
    <3> QED BY <1>0, <3>1
  <2>2. PICK p : Whole(p) /\ r = Link(p)
    BY <1>0, <1>7 DEF Linked
  <2>3. Step(c, r) = Child(p)
    BY <2>1, <2>2, InstallingIs
  <2>4. Tale(Child(p), 1)
    BY <1>0, <2>1, <2>2, NewTale, LinkTale
  <2> QED BY <1>0, <2>1, <2>3, <2>4
<1>8. Tale(Step(c, r), k)
  BY <1>0, <1>1, <1>2, <1>3, <1>5, <1>6, <1>7, RecordKinds DEF Kinds
<1> QED BY <1>0, <1>8

\* The whole record tells the whole context.
LEMMA LogTale ==
  ASSUME log \in Seq(Records), Linked(log), Steered(log), NEW c, Replays(log, c)
  PROVE  Tale(c, Len(log))
<1>1. PICK f : ReplaysBy(f, log, c)
  BY DEF Replays
<1> DEFINE n == Len(log)
           Bad == {k \in 0 .. n : ~Tale(f[k], k)}
<1>2. n \in Nat /\ n = Len(log)
  OBVIOUS
<1>3. /\ f[0] = NewContext /\ f[n] = c /\ \A k \in 0 .. n : Whole(f[k])
      /\ \A k \in 1 .. n : Judge(f[k - 1], k - 1, log[k]) /\ f[k] = Step(f[k - 1], log[k])
  BY <1>1 DEF ReplaysBy
<1> HIDE DEF n
<1>4. Bad = {}
  <2> SUFFICES ASSUME Bad # {} PROVE FALSE
    OBVIOUS
  <2>1. PICK k \in Bad : \A m \in Bad : k <= m
    <3>1. Bad \subseteq Nat
      BY <1>2
    <3> HIDE DEF Bad
    <3> QED BY <3>1, LeastOf
  <2>2. k # 0
    BY <1>3, <2>1, NewTale
  <2>3. k \in 1 .. n /\ k - 1 \in 0 .. n /\ k \in 0 .. n /\ ~(k <= k - 1)
    BY <1>2, <2>1, <2>2
  <2>4. Tale(f[k - 1], k - 1)
    BY <2>1, <2>3
  <2>5. /\ Whole(f[k - 1]) /\ Whole(f[k]) /\ Judge(f[k - 1], k - 1, log[k])
        /\ f[k] = Step(f[k - 1], log[k])
    BY <1>3, <2>3
  <2>6. k = 1 => f[k - 1] = NewContext
    BY <1>3
  <2>7. Tale(Step(f[k - 1], log[k]), k)
    BY <1>2, <2>3, <2>4, <2>5, <2>6, StepTale
  <2> QED BY <2>1, <2>5, <2>7
<1>5. n \in 0 .. n
  BY <1>2
<1> QED BY <1>2, <1>3, <1>4, <1>5

LEMMA RecordedIs ==
  ASSUME log \in Seq(Records), NEW id
  PROVE  Recorded(id) = Sofar(id)[Len(log)]
<1>1. FlattenSeq(Parts(id)) = Sofar(id)[Len(log)]
  BY SofarSums DEF SumsBy
<1> QED BY <1>1 DEF Recorded, Parts

-----------------------------------------------------------------------------
(* The theorems. *)

\* The fold refuses no record its own log authors but the answer of a batch
\* in which two calls have one id (session.rs, record_transcript).
THEOREM RecordsAdmitted == Spec => []LiveRecordsAdmitted
<1>1. Sound => LiveRecordsAdmitted
  BY DEF Sound
<1> QED BY <1>1, TurnsSound, PTL

\* The agent's place and the automaton agree at every step, after any edits,
\* forks and crashes; whatever a forced eviction plans, resolve_cut admits.
THEOREM StaysInStep == Spec => []InStep
<1>1. Sound => InStep
  <2> SUFFICES ASSUME Sound, ~wedged PROVE InStep
    BY DEF InStep
  <2>1. Placing /\ Whole(ctx)
    BY DEF Sound
  <2>2. \A span \in Planned(ctx) : CutHolds(ctx, span)
    BY <2>1, PlannedCuts
  <2> QED BY <2>1, <2>2 DEF InStep, Placing
<1> QED BY <1>1, TurnsSound, PTL

\* A link is admitted whenever it may be taken, and the child places every
\* turn and every eviction where its parent's cuts and withdrawals left it.
THEOREM ForksAgree == Spec => []ForkAgrees
<1>1. Sound => ForkAgrees
  <2> SUFFICES ASSUME Sound PROVE ForkAgrees
    OBVIOUS
  <2> DEFINE r == Link(ctx)
             child == Step(NewContext, r)
  <2>1. Whole(ctx)
    BY DEF Sound
  <2>2. Judge(NewContext, 0, r) /\ child = Child(ctx)
    BY <2>1, LinkIsAdmitted, InstallingIs
  <2>3. \A i \in DOMAIN ctx.turns : Child(ctx).turns[i].loc = ctx.turns[i].loc
    <3> TAKE i \in DOMAIN ctx.turns
    <3>1. Child(ctx).turns[i] = Carried(ctx.turns[i])
      BY DEF Child
    <3>2. Carried(ctx.turns[i]).loc = ctx.turns[i].loc
      BY DEF Carried
    <3> QED BY <3>1, <3>2
  <2>4. Child(ctx).evictions = ctx.evictions
    BY DEF Child
  <2> HIDE DEF r, child
  <2>5. /\ \A i \in DOMAIN ctx.turns : child.turns[i].loc = ctx.turns[i].loc
        /\ \A i \in DOMAIN ctx.evictions : child.evictions[i] = ctx.evictions[i]
    BY <2>2, <2>3, <2>4
  <2> QED BY <2>2, <2>5 DEF ForkAgrees, r, child
<1> QED BY <1>1, TurnsSound, PTL

\* No crash takes back a record that a request was rendered from, nor one a
\* link may point at.
THEOREM SentStays == Spec => []SentIsKept
<1>1. Sound => SentIsKept
  <2> SUFFICES ASSUME Sound PROVE SentIsKept
    OBVIOUS
  <2>1. Synced /\ Len(log) \in Nat
    BY DEF Sound
  <2> QED BY <2>1 DEF Synced, SentIsKept
<1> QED BY <1>1, TurnsSound, PTL

\* What is sent is a legal request, after any edits, forks and crashes: every
\* batch of calls is followed by its own results, no results stand without
\* their calls, and the model is not asked to follow itself.
THEOREM RequestsAreLegal == Spec => []RequestIsLegal
<1>1. Sound /\ Tells => RequestIsLegal
  <2> SUFFICES ASSUME Sound, Tells, phase \in {"turn", "sent"} PROVE RequestIsLegal
    BY DEF RequestIsLegal
  <2>1. ~wedged /\ UnclosedTurn(ctx) # 0 /\ Retold
    BY DEF Tells
  <2>2. Whole(ctx) /\ ctx.state.at \in {"afterUser", "afterResults"}
    BY <2>1, Live DEF Placing
  <2>3. ctx.turns # <<>> /\ ctx.turns[Len(ctx.turns)].loc = Resident
    BY <2>1 DEF UnclosedTurn, Last
  <2>4. Telling(ctx)
    BY <2>1, ContextTells
  <2> QED BY <2>2, <2>3, <2>4, ContextIsLegal DEF RequestIsLegal
<1> QED BY <1>1, TurnsSound, TurnsTell, PTL

\* Nothing is sent twice and nothing is forgotten, whatever was cut, withdrawn
\* and forked: the frontier's items are apart, cover every turn that is not
\* withdrawn and open on the user's; and each turn's address reads back all
\* that was recorded on it.
THEOREM NothingLost == Spec => []NothingIsLost
<1>1. Sound /\ Tells => NothingIsLost
  <2> SUFFICES ASSUME Sound, Tells PROVE NothingIsLost
    OBVIOUS
  <2>1. Whole(ctx) /\ log \in Seq(Records) /\ Linked(log) /\ Steered(log) /\ Telling(ctx)
    BY ContextTells DEF Sound, Tells
  <2>2. \A i \in DOMAIN ctx.turns : ctx.turns[i].id \in Nat
    BY <2>1, Fields DEF Whole
  <2>3. ASSUME NEW t \in ToSet(ctx.turns)
        PROVE  LET over == {i \in Items(ctx) : Within(Single(t.id), i.span)}
               IN  /\ Cardinality(over) <= 1
                   /\ over = {} => t.loc = Withdrawn
                   /\ ~wedged /\ phase # "down" => Address(t) = Recorded(t.id)
    <3>1. PICK i \in DOMAIN ctx.turns : t = ctx.turns[i]
      BY DEF ToSet
    <3>2. Cardinality({x \in Items(ctx) : Within(Single(t.id), x.span)}) <= 1
      BY <2>1, <2>2, <3>1, CoveredOnce
    <3>3. t.loc # Withdrawn => \E x \in Items(ctx) : Within(Single(t.id), x.span)
      BY <2>1, <3>1, Covers DEF Telling
    <3>4. ASSUME ~wedged, phase # "down" PROVE Address(t) = Recorded(t.id)
      <4>1. Replays(log, ctx)
        BY <3>4 DEF Sound
      <4>2. Tale(ctx, Len(log))
        BY <2>1, <4>1, LogTale
      <4> QED BY <2>1, <3>1, <4>2, RecordedIs DEF Tale
    <3> QED BY <3>2, <3>3, <3>4
  <2> QED BY <2>1, <2>3, OpensWithUser DEF NothingIsLost
<1> QED BY <1>1, TurnsSound, TurnsTell, PTL
=============================================================================
