--------------------------- MODULE AmbientProofs ---------------------------
(* Theorems about Ambient, for any number of listeners and interrupts. *)
EXTENDS Ambient, TLAPS, FiniteSetTheorems, SequenceTheorems

\* Where the interrupts are in a sequence of messages.
Interrupts(s) == {i \in DOMAIN s : s[i] = Interrupt}

\* A sequence of messages with at most `n` interrupts, and root requests that
\* rise, none above `r`.
Told(s, n, r) ==
  /\ s \in Seq(Nat)
  /\ Cardinality(Interrupts(s)) <= n
  /\ \A i \in DOMAIN s : s[i] <= r
  /\ \A i, j \in DOMAIN s : i < j /\ s[i] # Interrupt /\ s[j] # Interrupt => s[i] < s[j]

LEMMA InterruptsFinite ==
  ASSUME NEW s \in Seq(Nat)
  PROVE  IsFiniteSet(Interrupts(s)) /\ Cardinality(Interrupts(s)) \in Nat
<1>1. DOMAIN s = 1 .. Len(s) /\ Len(s) \in Nat
  BY LenProperties
<1>2. IsFiniteSet(1 .. Len(s))
  BY <1>1, FS_Interval
<1>3. Interrupts(s) \in SUBSET (1 .. Len(s))
  BY <1>1 DEF Interrupts
<1>4. IsFiniteSet(Interrupts(s))
  BY <1>2, <1>3, FS_Subset
<1> QED BY <1>4, FS_CardinalityType

LEMMA Longer ==
  ASSUME NEW s \in Seq(Nat), NEW c \in Nat
  PROVE  /\ s \o <<c>> \in Seq(Nat)
         /\ DOMAIN (s \o <<c>>) = 1 .. (Len(s) + 1) /\ DOMAIN s = 1 .. Len(s)
         /\ \A i \in 1 .. Len(s) : (s \o <<c>>)[i] = s[i]
         /\ (s \o <<c>>)[Len(s) + 1] = c
<1> DEFINE t == <<c>>
<1>1. t \in Seq(Nat) /\ Len(t) = 1 /\ t[1] = c
  OBVIOUS
<1>2. Len(s) \in Nat /\ DOMAIN s = 1 .. Len(s)
  BY LenProperties
<1>3. /\ s \o t \in Seq(Nat) /\ Len(s \o t) = Len(s) + 1
      /\ \A i \in 1 .. (Len(s) + 1) : (s \o t)[i] = IF i <= Len(s) THEN s[i] ELSE t[i - Len(s)]
  <2>1. t \in Seq(Nat)
    BY <1>1
  <2> HIDE DEF t
  <2>2. /\ s \o t \in Seq(Nat) /\ Len(s \o t) = Len(s) + Len(t)
        /\ \A i \in 1 .. (Len(s) + Len(t)) :
             (s \o t)[i] = IF i <= Len(s) THEN s[i] ELSE t[i - Len(s)]
    BY <2>1, ConcatProperties
  <2> QED BY <1>1, <2>2
<1> HIDE DEF t
<1>4. DOMAIN (s \o t) = 1 .. (Len(s) + 1)
  BY <1>3, LenProperties
<1>5. \A i \in 1 .. Len(s) : (s \o t)[i] = s[i]
  BY <1>2, <1>3
<1>6. (s \o t)[Len(s) + 1] = c
  <2>1. Len(s) + 1 \in 1 .. (Len(s) + 1) /\ ~(Len(s) + 1 <= Len(s)) /\ Len(s) + 1 - Len(s) = 1
    BY <1>2
  <2> QED BY <1>1, <1>3, <2>1
<1> QED BY <1>2, <1>3, <1>4, <1>5, <1>6 DEF t

\* One interrupt more, whatever there is before it.
LEMMA ToldInterrupt ==
  ASSUME NEW s, NEW n \in Nat, NEW r \in Nat, Told(s, n, r)
  PROVE  Told(s \o <<Interrupt>>, n + 1, r)
<1> DEFINE t == s \o <<Interrupt>>
<1>1. s \in Seq(Nat) /\ Interrupt \in Nat /\ Len(s) \in Nat
  BY LenProperties DEF Told, Interrupt
<1>2. /\ t \in Seq(Nat) /\ DOMAIN t = 1 .. (Len(s) + 1) /\ DOMAIN s = 1 .. Len(s)
      /\ \A i \in 1 .. Len(s) : t[i] = s[i]
      /\ t[Len(s) + 1] = Interrupt
  BY <1>1, Longer
<1> HIDE DEF t
<1>3. Interrupts(t) = Interrupts(s) \cup {Len(s) + 1} /\ Len(s) + 1 \notin Interrupts(s)
  BY <1>1, <1>2 DEF Interrupts
<1>4. Cardinality(Interrupts(t)) = Cardinality(Interrupts(s)) + 1
  BY <1>1, <1>3, InterruptsFinite, FS_AddElement
<1>5. Cardinality(Interrupts(t)) <= n + 1
  BY <1>1, <1>4, InterruptsFinite DEF Told
<1>6. \A i \in DOMAIN t : t[i] <= r
  BY <1>1, <1>2 DEF Told, Interrupt
<1>7. \A i, j \in DOMAIN t : i < j /\ t[i] # Interrupt /\ t[j] # Interrupt => t[i] < t[j]
  <2> SUFFICES ASSUME NEW i \in DOMAIN t, NEW j \in DOMAIN t,
                      i < j, t[i] # Interrupt, t[j] # Interrupt
               PROVE  t[i] < t[j]
    OBVIOUS
  <2>1. i \in DOMAIN s /\ j \in DOMAIN s /\ t[i] = s[i] /\ t[j] = s[j]
    BY <1>1, <1>2
  <2> QED BY <2>1 DEF Told
<1>8. Told(t, n + 1, r)
  BY <1>2, <1>5, <1>6, <1>7 DEF Told
<1> QED BY <1>8 DEF t

\* A root request above all that came before it.
LEMMA ToldRoot ==
  ASSUME NEW s, NEW n \in Nat, NEW r \in Nat, NEW c \in Nat, c > r, Told(s, n, r)
  PROVE  Told(s \o <<c>>, n, c)
<1> DEFINE t == s \o <<c>>
<1>1. s \in Seq(Nat) /\ c # Interrupt /\ Len(s) \in Nat
  BY LenProperties DEF Told, Interrupt
<1>2. /\ t \in Seq(Nat) /\ DOMAIN t = 1 .. (Len(s) + 1) /\ DOMAIN s = 1 .. Len(s)
      /\ \A i \in 1 .. Len(s) : t[i] = s[i]
      /\ t[Len(s) + 1] = c
  BY <1>1, Longer
<1> HIDE DEF t
<1>3. Interrupts(t) = Interrupts(s)
  BY <1>1, <1>2 DEF Interrupts
<1>4. \A i \in DOMAIN s : s[i] \in Nat /\ s[i] < c
  <2>1. \A i \in DOMAIN s : s[i] \in Nat /\ s[i] <= r
    BY <1>1, <1>2, ElementOfSeq DEF Told
  <2> QED BY <2>1
<1>5. \A i \in DOMAIN t : t[i] <= c
  BY <1>1, <1>2, <1>4
<1>6. \A i, j \in DOMAIN t : i < j /\ t[i] # Interrupt /\ t[j] # Interrupt => t[i] < t[j]
  <2> SUFFICES ASSUME NEW i \in DOMAIN t, NEW j \in DOMAIN t,
                      i < j, t[i] # Interrupt, t[j] # Interrupt
               PROVE  t[i] < t[j]
    OBVIOUS
  <2>1. i \in DOMAIN s /\ t[i] = s[i]
    BY <1>1, <1>2
  <2>2. CASE j = Len(s) + 1
    BY <1>2, <1>4, <2>1, <2>2
  <2>3. CASE j # Len(s) + 1
    <3>1. j \in DOMAIN s /\ t[j] = s[j]
      BY <1>1, <1>2, <2>3
    <3> QED BY <2>1, <3>1 DEF Told
  <2> QED BY <2>2, <2>3
<1>7. Told(t, n, c)
  BY <1>2, <1>3, <1>5, <1>6 DEF Told
<1> QED BY <1>7 DEF t

-----------------------------------------------------------------------------
(* The invariant. *)

Statuses == {"new", "thread", "loaded", "listed", "listening", "leaving", "gone"}

CountsOK ==
  /\ interrupts \in Nat /\ root \in Nat
  /\ scan \in [Scanners -> [pc : {"idle", "interrupts", "root", "pass"}, ints : Nat, root : Nat]]
  /\ \A x \in Scanners : scan[x].ints <= interrupts
  /\ heard \in [Listeners -> Nat] /\ rootHeard \in [Listeners -> Nat] /\ since \in [Listeners -> Nat]

GuardsOK ==
  /\ status \in [Listeners -> Statuses]
  /\ queue \in [Listeners -> Seq(Nat)] /\ got \in [Listeners -> Seq(Nat)]
  /\ calling \in [Listeners -> BOOLEAN]

\* What a listener was told follows from its high-water marks: between its
\* registration and them there is an interrupt for each of its own, and its root
\* requests are below the mark.  Before that it was told nothing, and after it
\* is gone it is quiet.
Hears(l) ==
  /\ since[l] <= heard[l] /\ heard[l] <= interrupts
  /\ Told(Sent(l), heard[l] - since[l], rootHeard[l])
  /\ status[l] \in {"new", "thread", "loaded"}
       => Sent(l) = <<>> /\ rootHeard[l] = 0 /\ queue[l] = <<>> /\ ~calling[l]
  /\ status[l] = "gone" => queue[l] = <<>> /\ ~calling[l]

Hearing == CountsOK /\ GuardsOK /\ \A l \in Listeners : Hears(l)

LEMMA NothingTold == ASSUME NEW n \in Nat PROVE Told(<<>>, n, 0)
<1>1. <<>> \in Seq(Nat) /\ DOMAIN <<>> = {}
  OBVIOUS
<1>2. Interrupts(<<>>) = {}
  BY <1>1 DEF Interrupts
<1>3. Cardinality({}) = 0
  BY FS_EmptySet
<1> QED BY <1>1, <1>2, <1>3 DEF Told

LEMMA InitHearing == Init => Hearing
<1> SUFFICES ASSUME Init PROVE Hearing
  OBVIOUS
<1>1. <<>> \in Seq(Nat) /\ <<>> \o <<>> = <<>>
  BY EmptySeq, ConcatEmptySeq
<1>2. CountsOK /\ GuardsOK
  BY <1>1 DEF Init, CountsOK, GuardsOK, Quiet, Statuses
<1>3. ASSUME NEW l \in Listeners PROVE Hears(l)
  <2>1. Sent(l) = <<>>
    BY <1>1 DEF Init, Sent
  <2>2. Told(<<>>, 0, 0)
    BY NothingTold
  <2> QED BY <2>1, <2>2 DEF Init, Hears
<1> QED BY <1>2, <1>3 DEF Hearing

\* A step that leaves the listeners' books as they are: a cause is raised, a
\* byte written or read, a counter loaded.
LEMMA RaisingKeeps ==
  ASSUME Hearing, UNCHANGED <<status, heard, rootHeard, since, queue, got, calling>>,
         CountsOK', interrupts <= interrupts'
  PROVE  Hearing'
<1>1. GuardsOK'
  BY DEF Hearing, GuardsOK
<1>2. ASSUME NEW l \in Listeners PROVE Hears(l)'
  <2>1. Hears(l) /\ Sent(l)' = Sent(l)
    BY DEF Hearing, Sent
  <2>2. heard[l] \in Nat /\ interrupts \in Nat /\ interrupts' \in Nat
    BY DEF Hearing, CountsOK
  <2> QED BY <2>1, <2>2 DEF Hears
<1> QED BY <1>1, <1>2 DEF Hearing

LEMMA RaiseKeeps ==
  ASSUME Hearing, RaiseInterrupt \/ (\E c \in Roots : RaiseRoot(c)) \/ Kick \/ Sigchld
  PROVE  Hearing'
<1>1. Roots \subseteq Nat
  BY RootsAssumption
<1>2. /\ interrupts' \in Nat /\ root' \in Nat /\ interrupts <= interrupts'
      /\ UNCHANGED <<scan, status, heard, rootHeard, since, queue, got, calling>>
  BY <1>1 DEF Hearing, CountsOK, RaiseInterrupt, RaiseRoot, Kick, Sigchld, raisers, listening, forwarding
<1>3. CountsOK'
  BY <1>2 DEF Hearing, CountsOK
<1> QED BY <1>2, <1>3, RaisingKeeps

LEMMA LoadKeeps ==
  ASSUME Hearing, NEW x \in Scanners, ReadPipe \/ LoadInterrupts(x) \/ LoadRoot(x)
  PROVE  Hearing'
<1>1. Reaper \in Scanners
  BY DEF Scanners
<1>2. /\ interrupts' = interrupts /\ root' = root
      /\ UNCHANGED <<status, heard, rootHeard, since, queue, got, calling>>
  BY DEF ReadPipe, LoadInterrupts, LoadRoot, raisers, listening, forwarding
<1>3. CountsOK'
  BY <1>1, <1>2 DEF Hearing, CountsOK, ReadPipe, LoadInterrupts, LoadRoot
<1>4. interrupts \in Nat
  BY DEF Hearing, CountsOK
<1> QED BY <1>2, <1>3, <1>4, RaisingKeeps

LEMMA Regrouped ==
  ASSUME NEW a \in Seq(Nat), NEW b \in Seq(Nat), NEW c \in Seq(Nat)
  PROVE  (a \o b) \o c = a \o (b \o c)
  OBVIOUS

\* A scan's critical section: each listener is told what is past its marks, and
\* its marks follow.  An overtaken scan has nothing for it.
LEMMA PassKeeps ==
  ASSUME Hearing, NEW x \in Scanners, Pass(x)
  PROVE  Hearing'
<1> DEFINE s == scan[x]
           Tell(l) == Listed(l) /\ News(l, s).ints
           TellRoot(l) == Listed(l) /\ News(l, s).root
           A(l) == IF Tell(l) THEN <<Interrupt>> ELSE <<>>
           B(l) == IF TellRoot(l) THEN <<s.root>> ELSE <<>>
<1>1. /\ s.ints \in Nat /\ s.root \in Nat /\ s.ints <= interrupts /\ interrupts \in Nat
      /\ s.pc = "pass"
  BY DEF Hearing, CountsOK, Pass
<1>2. /\ heard' = [l \in Listeners |-> IF Tell(l) THEN s.ints ELSE heard[l]]
      /\ rootHeard' = [l \in Listeners |-> IF TellRoot(l) THEN s.root ELSE rootHeard[l]]
      /\ queue' = [l \in Listeners |-> queue[l] \o A(l) \o B(l)]
      /\ scan' = [scan EXCEPT ![x] = Quiet]
      /\ UNCHANGED <<interrupts, root, handlers, status, since, calling, got>>
  BY DEF Pass, raisers, listening, forwarding
<1>3. \A l : /\ Tell(l) <=> Listed(l) /\ s.ints > heard[l]
             /\ TellRoot(l) <=> Listed(l) /\ s.root > rootHeard[l]
  BY DEF News
<1>4. \A l : A(l) \in Seq(Nat) /\ B(l) \in Seq(Nat)
  BY <1>1 DEF Interrupt
<1> HIDE DEF s, Tell, TellRoot
<1>5. CountsOK'
  <2>1. Quiet \in [pc : {"idle", "interrupts", "root", "pass"}, ints : Nat, root : Nat]
        /\ Quiet.ints = 0
    BY DEF Quiet
  <2>2. /\ scan' \in [Scanners -> [pc : {"idle", "interrupts", "root", "pass"}, ints : Nat, root : Nat]]
        /\ \A y \in Scanners : scan'[y].ints <= interrupts
    BY <1>1, <1>2, <2>1 DEF Hearing, CountsOK
  <2>3. heard' \in [Listeners -> Nat] /\ rootHeard' \in [Listeners -> Nat]
    BY <1>1, <1>2 DEF Hearing, CountsOK
  <2> QED BY <1>2, <2>2, <2>3 DEF Hearing, CountsOK
<1>6. GuardsOK'
  <2>1. \A l \in Listeners : queue[l] \in Seq(Nat)
    BY DEF Hearing, GuardsOK
  <2>2. \A l \in Listeners : queue[l] \o A(l) \o B(l) \in Seq(Nat)
    <3> SUFFICES ASSUME NEW l \in Listeners PROVE queue[l] \o A(l) \o B(l) \in Seq(Nat)
      OBVIOUS
    <3> HIDE DEF A, B
    <3>1. queue[l] \o A(l) \in Seq(Nat)
      BY <1>4, <2>1, ConcatProperties
    <3> QED BY <1>4, <3>1, ConcatProperties
  <2> HIDE DEF A, B
  <2>3. queue' \in [Listeners -> Seq(Nat)]
    BY <1>2, <2>2
  <2> QED BY <1>2, <2>3 DEF Hearing, GuardsOK
<1>7. ASSUME NEW l \in Listeners PROVE Hears(l)'
  <2>1. /\ Hears(l) /\ queue[l] \in Seq(Nat) /\ got[l] \in Seq(Nat)
        /\ heard[l] \in Nat /\ rootHeard[l] \in Nat /\ since[l] \in Nat
    BY DEF Hearing, CountsOK, GuardsOK
  <2>2. /\ heard'[l] = IF Tell(l) THEN s.ints ELSE heard[l]
        /\ rootHeard'[l] = IF TellRoot(l) THEN s.root ELSE rootHeard[l]
        /\ queue'[l] = queue[l] \o A(l) \o B(l)
        /\ UNCHANGED <<status[l], since[l], calling[l], got[l], interrupts>>
    BY <1>2
  <2> DEFINE m == Sent(l) \o A(l)
  <2>3. Sent(l)' = m \o B(l) /\ Sent(l) \in Seq(Nat) /\ m \in Seq(Nat)
    <3> HIDE DEF A, B
    <3>1. Sent(l)' = got[l] \o ((queue[l] \o A(l)) \o B(l))
      BY <2>2 DEF Sent
    <3>2. queue[l] \o A(l) \in Seq(Nat) /\ Sent(l) \in Seq(Nat)
      BY <1>4, <2>1, ConcatProperties DEF Sent
    <3> DEFINE q == queue[l] \o A(l)
    <3>3. (got[l] \o q) \o B(l) = got[l] \o (q \o B(l))
      <4>1. q \in Seq(Nat) /\ B(l) \in Seq(Nat) /\ got[l] \in Seq(Nat)
        BY <1>4, <2>1, <3>2
      <4> HIDE DEF q
      <4> QED BY <4>1, Regrouped
    <3>4. m = got[l] \o q
      <4>1. A(l) \in Seq(Nat)
        BY <1>4
      <4>2. (got[l] \o queue[l]) \o A(l) = got[l] \o (queue[l] \o A(l))
        BY <2>1, <4>1, Regrouped
      <4> QED BY <4>2 DEF Sent
    <3>5. m \in Seq(Nat)
      BY <1>4, <3>2, ConcatProperties
    <3> QED BY <3>1, <3>2, <3>3, <3>4, <3>5
  <2>4. since[l] <= heard'[l] /\ heard[l] <= heard'[l] /\ heard'[l] <= interrupts
        /\ heard'[l] \in Nat /\ rootHeard'[l] \in Nat
    BY <1>1, <1>3, <2>1, <2>2 DEF Hears
  <2>5. Told(m, heard'[l] - since[l], rootHeard[l])
    <3> DEFINE n == heard[l] - since[l]
    <3>1. n \in Nat /\ Told(Sent(l), n, rootHeard[l])
      BY <2>1 DEF Hears
    <3>2. CASE Tell(l)
      <4>1. Told(Sent(l) \o <<Interrupt>>, n + 1, rootHeard[l])
        BY <2>1, <3>1, ToldInterrupt
      <4>2. n + 1 <= heard'[l] - since[l]
        BY <1>1, <1>3, <2>1, <2>2, <3>2
      <4>3. m = Sent(l) \o <<Interrupt>>
        BY <3>2
      <4>4. Cardinality(Interrupts(m)) \in Nat
        BY <2>3, InterruptsFinite
      <4>5. Told(m, n + 1, rootHeard[l])
        BY <4>1, <4>3
      <4> HIDE DEF m, n
      <4>6. Cardinality(Interrupts(m)) <= n + 1
        BY <4>5 DEF Told
      <4>7. Cardinality(Interrupts(m)) <= heard'[l] - since[l]
        BY <2>1, <2>4, <3>1, <4>2, <4>4, <4>6
      <4> QED BY <4>5, <4>7 DEF Told
    <3>3. CASE ~Tell(l)
      <4>1. m = Sent(l)
        BY <2>3, <3>3, ConcatEmptySeq
      <4> QED BY <2>2, <3>1, <3>3, <4>1
    <3> QED BY <3>2, <3>3
  <2>6. Told(Sent(l)', heard'[l] - since[l], rootHeard'[l])
    <3>1. heard'[l] - since[l] \in Nat
      BY <2>1, <2>4
    <3>2. CASE TellRoot(l)
      <4>1. s.root \in Nat /\ s.root > rootHeard[l] /\ rootHeard'[l] = s.root
        BY <1>1, <1>3, <2>2, <3>2
      <4>2. Told(m \o <<s.root>>, heard'[l] - since[l], s.root)
        BY <2>1, <2>5, <3>1, <4>1, ToldRoot
      <4> QED BY <2>3, <3>2, <4>1, <4>2
    <3>3. CASE ~TellRoot(l)
      <4>1. m \o B(l) = m
        BY <2>3, <3>3, ConcatEmptySeq
      <4> QED BY <2>2, <2>3, <2>5, <3>3, <4>1
    <3> QED BY <3>2, <3>3
  <2>7. ~Listed(l) => /\ Sent(l)' = Sent(l) /\ queue'[l] = queue[l]
                      /\ rootHeard'[l] = rootHeard[l]
    <3> SUFFICES ASSUME ~Listed(l)
                 PROVE  Sent(l)' = Sent(l) /\ queue'[l] = queue[l] /\ rootHeard'[l] = rootHeard[l]
      OBVIOUS
    <3>1. A(l) = <<>> /\ B(l) = <<>> /\ ~TellRoot(l)
      BY <1>3
    <3>2. queue'[l] = queue[l]
      BY <2>1, <2>2, <3>1, ConcatEmptySeq
    <3> QED BY <2>2, <3>1, <3>2 DEF Sent
  <2> QED BY <2>1, <2>2, <2>4, <2>6, <2>7 DEF Hears, Listed
<1> QED BY <1>5, <1>6, <1>7 DEF Hearing

\* A guard's own steps change its status, and one loads its mark.
LEMMA RegisteringKeeps ==
  ASSUME Hearing, NEW l \in Listeners,
         Start(l) \/ Register(l) \/ Unregister(l) \/ JoinForwarder(l)
  PROVE  Hearing'
<1>1. /\ UNCHANGED <<interrupts, root, rootHeard, queue, got, calling>>
      /\ \E st \in Statuses : status' = [status EXCEPT ![l] = st]
      /\ \/ UNCHANGED <<heard, since>>
         \/ /\ heard' = [heard EXCEPT ![l] = interrupts]
            /\ since' = [since EXCEPT ![l] = interrupts]
  BY DEF Start, Register, LoadHeard, List, Registered, Unregister, JoinForwarder, Become,
         Statuses, raisers, forwarding
<1>2. GuardsOK'
  BY <1>1 DEF Hearing, GuardsOK
<1>3. CountsOK'
  <2>1. /\ scan' \in [Scanners -> [pc : {"idle", "interrupts", "root", "pass"}, ints : Nat, root : Nat]]
        /\ \A x \in Scanners : scan'[x].ints <= interrupts
    <3>1. CASE List(l)
      <4>1. scan' = [scan EXCEPT ![l].pc = "interrupts"] /\ l \in Scanners
        BY <3>1 DEF List, Scanners
      <4> QED BY <4>1 DEF Hearing, CountsOK
    <3>2. CASE ~List(l)
      <4>1. scan' = scan
        BY <3>2 DEF Start, Register, LoadHeard, Registered, Unregister, JoinForwarder
      <4> QED BY <4>1 DEF Hearing, CountsOK
    <3> QED BY <3>1, <3>2
  <2>2. heard' \in [Listeners -> Nat] /\ since' \in [Listeners -> Nat]
    BY <1>1 DEF Hearing, CountsOK
  <2> QED BY <1>1, <2>1, <2>2 DEF Hearing, CountsOK
<1>4. ASSUME NEW k \in Listeners, k # l PROVE Hears(k)'
  <2>1. Hears(k) /\ UNCHANGED <<status[k], heard[k], since[k], rootHeard[k], queue[k], got[k],
                               calling[k], interrupts>>
    BY <1>1, <1>4 DEF Hearing, GuardsOK, CountsOK
  <2>2. Sent(k)' = Sent(k)
    BY <2>1 DEF Sent
  <2> QED BY <2>1, <2>2 DEF Hears
<1>5. Hears(l)'
  <2>1. Hears(l) /\ Sent(l)' = Sent(l)
    BY <1>1 DEF Hearing, Sent
  <2>2. UNCHANGED <<rootHeard[l], queue[l], calling[l], interrupts>>
    BY <1>1
  <2>3. status \in [Listeners -> Statuses] /\ heard \in [Listeners -> Nat]
        /\ since \in [Listeners -> Nat] /\ interrupts \in Nat
    BY DEF Hearing, CountsOK, GuardsOK
  <2>4. CASE LoadHeard(l)
    <3>1. heard'[l] = interrupts /\ since'[l] = interrupts /\ status'[l] = "loaded"
          /\ status[l] = "thread"
      BY <2>3, <2>4 DEF LoadHeard, Become
    <3>2. Sent(l) = <<>> /\ rootHeard[l] = 0 /\ queue[l] = <<>> /\ ~calling[l]
      BY <2>1, <3>1 DEF Hears
    <3>3. heard'[l] - since'[l] = 0 /\ heard'[l] <= interrupts /\ since'[l] <= heard'[l]
      BY <2>3, <3>1
    <3>4. Told(<<>>, 0, 0)
      BY NothingTold
    <3> QED BY <2>1, <2>2, <3>1, <3>2, <3>3, <3>4 DEF Hears
  <2>5. CASE ~LoadHeard(l)
    <3>1. UNCHANGED <<heard, since>>
      BY <2>5 DEF Start, Register, List, Registered, Unregister, JoinForwarder, listening, forwarding
    <3>2. /\ status'[l] \in {"new", "thread", "loaded"}
               => status[l] \in {"new", "thread", "loaded"}
          /\ status'[l] = "gone" => queue[l] = <<>> /\ ~calling[l]
      BY <2>3, <2>5 DEF Start, Register, List, Registered, Unregister, JoinForwarder, Become
    <3> QED BY <2>1, <2>2, <3>1, <3>2 DEF Hears
  <2> QED BY <2>4, <2>5
<1> QED BY <1>2, <1>3, <1>4, <1>5 DEF Hearing

\* A message that moves from the channel to the callback was told already.
LEMMA MovedOn ==
  ASSUME NEW g \in Seq(Nat), NEW q \in Seq(Nat), q # <<>>
  PROVE  /\ Append(g, Head(q)) \in Seq(Nat) /\ Tail(q) \in Seq(Nat)
         /\ Append(g, Head(q)) \o Tail(q) = g \o q
  OBVIOUS

LEMMA DeliverKeeps ==
  ASSUME Hearing, NEW l \in Listeners, Deliver(l)
  PROVE  Hearing'
<1>1. /\ UNCHANGED <<interrupts, root, scan, heard, rootHeard, status, since>>
      /\ interrupts \in Nat
  BY DEF Hearing, CountsOK, Deliver, Forward, Forwarded, raisers, listening
<1>2. CountsOK'
  BY <1>1 DEF Hearing, CountsOK
<1>3. queue[l] \in Seq(Nat) /\ got[l] \in Seq(Nat)
  BY DEF Hearing, GuardsOK
<1>4. GuardsOK'
  <2>1. CASE Forward(l)
    BY <1>1, <1>3, <2>1, MovedOn DEF Hearing, GuardsOK, Forward
  <2>2. CASE Forwarded(l)
    BY <1>1, <2>2 DEF Hearing, GuardsOK, Forwarded
  <2> QED BY <2>1, <2>2 DEF Deliver
<1>5. ASSUME NEW k \in Listeners, k # l PROVE Hears(k)'
  <2>1. Hears(k) /\ UNCHANGED <<status[k], heard[k], since[k], rootHeard[k], queue[k], got[k],
                               calling[k], interrupts>>
    BY <1>1, <1>5 DEF Hearing, GuardsOK, Deliver, Forward, Forwarded
  <2>2. Sent(k)' = Sent(k)
    BY <2>1 DEF Sent
  <2> QED BY <2>1, <2>2 DEF Hears
<1>6. Hears(l)'
  <2>1. Hears(l)
    BY DEF Hearing
  <2>2. status[l] \notin {"new", "thread", "loaded", "gone"}
    BY <2>1 DEF Hears, Deliver, Forward, Forwarded
  <2>3. Sent(l)' = Sent(l)
    <3>1. CASE Forward(l)
      <4>1. queue[l] # <<>> /\ got'[l] = Append(got[l], Head(queue[l])) /\ queue'[l] = Tail(queue[l])
        BY <3>1 DEF Hearing, GuardsOK, Forward
      <4> QED BY <1>3, <4>1, MovedOn DEF Sent
    <3>2. CASE Forwarded(l)
      BY <3>2 DEF Forwarded, Sent
    <3> QED BY <3>1, <3>2 DEF Deliver
  <2> QED BY <1>1, <2>1, <2>2, <2>3 DEF Hears
<1> QED BY <1>2, <1>4, <1>5, <1>6 DEF Hearing

LEMMA HearingStep == Hearing /\ [Next]_vars => Hearing'
<1> SUFFICES ASSUME Hearing, [Next]_vars PROVE Hearing'
  OBVIOUS
<1>1. CASE RaiseInterrupt \/ (\E c \in Roots : RaiseRoot(c)) \/ Kick \/ Sigchld
  BY <1>1, RaiseKeeps
<1>2. CASE ReadPipe
  <2>1. Reaper \in Scanners
    BY DEF Scanners
  <2> QED BY <1>2, <2>1, LoadKeeps
<1>3. CASE \E x \in Scanners : Scan(x)
  BY <1>3, LoadKeeps, PassKeeps DEF Scan
<1>4. CASE \E l \in Listeners :
             Start(l) \/ Register(l) \/ Deliver(l) \/ Unregister(l) \/ JoinForwarder(l)
  BY <1>4, RegisteringKeeps, DeliverKeeps
<1>5. CASE AllGone \/ UNCHANGED vars
  <2>1. UNCHANGED <<interrupts, root, scan, heard, rootHeard, status, since, queue, got, calling>>
        /\ interrupts \in Nat
    BY <1>5 DEF AllGone, vars, Hearing, CountsOK
  <2>2. CountsOK'
    BY <2>1 DEF Hearing, CountsOK
  <2> QED BY <2>1, <2>2, RaisingKeeps
<1> QED BY <1>1, <1>2, <1>3, <1>4, <1>5 DEF Next

-----------------------------------------------------------------------------
\* No guard's callback runs once its drop has returned, nor will: no scan puts
\* a message in a channel whose listener is off the list.
THEOREM DropSilences == Spec => []GoneIsQuiet
<1>1. Hearing => GoneIsQuiet
  BY DEF Hearing, Hears, GoneIsQuiet
<1> QED BY InitHearing, HearingStep, <1>1, PTL DEF Spec

\* Scans that overtake each other never tell a listener of an interrupt from
\* before its time, of one interrupt twice, or of a weaker root request after a
\* stronger: the marks, compared and moved under the listeners' lock, see to it.
THEOREM ScansDoNotRepeat == Spec => []SignalsAreOnesOwn
<1>1. Hearing => SignalsAreOnesOwn
  <2> SUFFICES ASSUME Hearing, NEW l \in Listeners
               PROVE  /\ Cardinality(Interrupts(Sent(l))) <= interrupts - since[l]
                      /\ \A i, j \in DOMAIN Sent(l) :
                           i < j /\ Sent(l)[i] # Interrupt /\ Sent(l)[j] # Interrupt
                             => Sent(l)[i] < Sent(l)[j]
    BY DEF SignalsAreOnesOwn, Interrupts
  <2>1. /\ heard[l] \in Nat /\ since[l] \in Nat /\ interrupts \in Nat /\ heard[l] <= interrupts
        /\ Told(Sent(l), heard[l] - since[l], rootHeard[l])
    BY DEF Hearing, CountsOK, Hears
  <2>2. Cardinality(Interrupts(Sent(l))) \in Nat
    BY <2>1, InterruptsFinite DEF Told
  <2>3. Cardinality(Interrupts(Sent(l))) <= interrupts - since[l]
    <3>1. Cardinality(Interrupts(Sent(l))) <= heard[l] - since[l]
      BY <2>1 DEF Told
    <3> QED BY <2>1, <2>2, <3>1
  <2> QED BY <2>1, <2>3 DEF Told
<1> QED BY InitHearing, HearingStep, <1>1, PTL DEF Spec
=============================================================================
