------------------------------- MODULE Scopes -------------------------------
(***************************************************************************)
(* The scope tree of core/src/process/cancel.rs, along one chain: a node   *)
(* reads its ancestors only, so a chain from the root is all a poll sees.  *)
(* Nodes are numbered from the root, 1 .. depth.  A strike is two writes   *)
(* (the instant, then the flag) and a poll is one load per node, taken     *)
(* root first without a lock, while strikes, births and time go on.        *)
(***************************************************************************)
EXTENDS Naturals

CONSTANTS
  MaxDepth,   \* a bound: nodes on the chain
  MaxTime,    \* a bound: the last tick of the clock
  Graces,     \* the graces a cleanup may ask for
  Causes,     \* the causes a writer may raise, a subset of 1 .. 6
  Strikes     \* a bound: strikes in all

Aborted == 6

ASSUME BoundsAssumption ==
  /\ MaxDepth \in Nat \ {0} /\ MaxTime \in Nat /\ Strikes \in Nat
  /\ Graces \subseteq Nat
ASSUME CausesAssumption == Causes \subseteq 1 .. Aborted

Positions == 1 .. MaxDepth
Never  == MaxTime + 1      \* OnceLock unset
Open   == MaxTime + 1      \* Vertex::shield is None
None   == [cause |-> 0, node |-> 1, since |-> Never]

VARIABLES
  depth,      \* nodes minted so far
  shield,     \* Vertex::shield, Open for none
  flag,       \* Vertex::flag
  cancelled,  \* Vertex::cancelled_at
  pending,    \* strikes between their two writes: [node, cause]
  struck,     \* strikes made so far (bound)
  now,        \* the clock
  reader      \* a poll in progress: [target, i, acc, low]

vars == <<depth, shield, flag, cancelled, pending, struck, now, reader>>

InForces == [cause : 0 .. Aborted, node : Positions, since : 0 .. Never]
Idle == [target |-> 0, i |-> 0, acc |-> None, low |-> 0]

-----------------------------------------------------------------------------
(* resolve: the fold of one chain, root first. *)

Lower(m, n) == IF m <= n THEN m ELSE n

\* (A mistake: the grace never runs out.)
AdmittedAborts(i, above) == IF shield[i] = Open \/ above.cause >= Aborted THEN above ELSE None

\* A shielded node drops what comes from above, unless it is an abort or the
\* grace since the earliest strike has passed.
Admitted(i, above) ==
  IF shield[i] = Open \/ above.cause >= Aborted \/ now >= above.since + shield[i]
    THEN above ELSE None

\* The join with the node's own flag: the outermost node attaining the
\* strongest cause, and the earliest instant of all.
Joined(i, above) ==
  IF flag[i] = 0 THEN above
  ELSE [cause |-> IF above.cause >= flag[i] THEN above.cause ELSE flag[i],
        node  |-> IF above.cause >= flag[i] THEN above.node ELSE i,
        since |-> Lower(above.since, cancelled[i])]

\* One turn of the fold.  (A none above stays none: its cause is 0.)
Folded(i, above) == Joined(i, IF above.cause = 0 THEN None ELSE Admitted(i, above))

\* What a poll of node d would find, were it one instant.
Resolve(d) ==
  LET fold[i \in 0 .. MaxDepth] == IF i = 0 THEN None ELSE Folded(i, fold[i - 1])
  IN fold[d]

-----------------------------------------------------------------------------
(* The operations. *)

\* (A mistake: the grace asked for, whatever encloses it.)
GraceAsked(i, g) == g
\* shielded: the grace asked for, or the nearest enclosing shield's if shorter.
GraceOf(i, g) ==
  LET enclosing == {j \in 1 .. i : shield[j] # Open}
  IN IF enclosing = {} THEN g
     ELSE Lower(g, shield[CHOOSE j \in enclosing : \A k \in enclosing : k <= j])

\* Scope::child, Scope::shielded: a node under the innermost one.
Mint(g) ==
  /\ depth < MaxDepth
  /\ depth' = depth + 1
  /\ shield' = [shield EXCEPT ![depth + 1] = IF g = Open THEN Open ELSE GraceOf(depth, g)]
  /\ UNCHANGED <<flag, cancelled, pending, struck, now, reader>>

\* (A mistake: the flag is raised first, the instant set after.)
StrikeFlagOnly(n, c) ==
  /\ n <= depth /\ shield[n] = Open /\ struck < Strikes
  /\ struck' = struck + 1
  /\ flag' = [flag EXCEPT ![n] = IF @ >= c THEN @ ELSE c]
  /\ pending' = pending \cup {[node |-> n, cause |-> c]}
  /\ UNCHANGED <<depth, shield, cancelled, now, reader>>

\* ScopeNode::cancel, its first write: get_or_init of the instant.  A shield
\* is a view, and has no writer.
StrikeInstant(n, c) ==
  /\ n <= depth /\ shield[n] = Open /\ struck < Strikes
  /\ struck' = struck + 1
  /\ cancelled' = [cancelled EXCEPT ![n] = IF @ = Never THEN now ELSE @]
  /\ pending' = pending \cup {[node |-> n, cause |-> c]}
  /\ UNCHANGED <<depth, shield, flag, now, reader>>

\* ScopeNode::cancel, its second write: fetch_max of the flag.
StrikeFlag(p) ==
  /\ flag' = [flag EXCEPT ![p.node] = IF @ >= p.cause THEN @ ELSE p.cause]
  /\ pending' = pending \ {p}
  /\ UNCHANGED <<depth, shield, cancelled, struck, now, reader>>

\* A poll of node d begins; `low` remembers what was in force then.
PollBegin(d) ==
  /\ reader.target = 0
  /\ reader' = [target |-> d, i |-> 0, acc |-> None, low |-> Resolve(d).cause]
  /\ UNCHANGED <<depth, shield, flag, cancelled, pending, struck, now>>

\* (A mistake: the fold forgets the shields.)
PollNodeUnmasked ==
  /\ reader.i < reader.target
  /\ reader' = [reader EXCEPT !.i = @ + 1, !.acc = Joined(reader.i + 1, @)]
  /\ UNCHANGED <<depth, shield, flag, cancelled, pending, struck, now>>

\* It loads the next node.
PollNode ==
  /\ reader.i < reader.target
  /\ reader' = [reader EXCEPT !.i = @ + 1, !.acc = Folded(reader.i + 1, @)]
  /\ UNCHANGED <<depth, shield, flag, cancelled, pending, struck, now>>

PollEnd ==
  /\ reader.target # 0 /\ reader.i = reader.target
  /\ reader' = Idle
  /\ UNCHANGED <<depth, shield, flag, cancelled, pending, struck, now>>

Tick ==
  /\ now < MaxTime
  /\ now' = now + 1
  /\ UNCHANGED <<depth, shield, flag, cancelled, pending, struck, reader>>

Init ==
  /\ depth = 1
  /\ shield = [i \in Positions |-> Open]
  /\ flag = [i \in Positions |-> 0]
  /\ cancelled = [i \in Positions |-> Never]
  /\ pending = {}
  /\ struck = 0
  /\ now = 0
  /\ reader = Idle

Next ==
  \/ \E g \in Graces \cup {Open} : Mint(g)
  \/ \E n \in Positions, c \in Causes : StrikeInstant(n, c)
  \/ \E p \in pending : StrikeFlag(p)
  \/ \E d \in 1 .. depth : PollBegin(d)
  \/ PollNode \/ PollEnd \/ Tick

Spec == Init /\ [][Next]_vars

-----------------------------------------------------------------------------
(* Properties. *)

\* "a struck node has its instant": resolve's `expect` never fires, whatever
\* a poll sees of a strike in the middle of its two writes.
StruckHasInstant == \A n \in Positions : flag[n] # 0 => cancelled[n] # Never

\* A poll is not atomic, yet finds no less than was in force when it began and
\* no more than is in force when it ends; and the owner named for a cause is a
\* node that has attained it.
PollBetween ==
  /\ reader.target # 0 /\ reader.i = reader.target =>
       /\ reader.low <= reader.acc.cause
       /\ reader.acc.cause <= Resolve(reader.target).cause
  /\ \A d \in 1 .. depth : LET j == Resolve(d) IN j.cause # 0 => flag[j.node] = j.cause

\* A nested cleanup never outlasts the one that encloses it: what has reached
\* the outer shield has reached the inner one.
NestedShieldNeverOutlasts ==
  \A i, j \in 1 .. depth : i < j /\ shield[i] # Open => Resolve(i).cause <= Resolve(j).cause

\* A shield delays a strike, and never swallows it.
FairSpec == Spec /\ WF_vars(Tick) /\ \A p \in [node : Positions, cause : Causes] :
                                        WF_vars(p \in pending /\ StrikeFlag(p))
ShieldOnlyDelays ==
  \A d \in Positions, c \in Causes :
    (flag[1] >= c /\ d <= depth /\ \A g \in Graces : now + g <= MaxTime) ~> Resolve(d).cause >= c
=============================================================================
