--------------------------- MODULE CollectorProofs ---------------------------
(* Proofs about a pipeline's collector, for every length and kind of stage. *)
EXTENDS Collector, TLAPS

Arrays == [Stages -> Handle]

\* What sweeps, strikes and signals leave alone of a handle.
SameButSent(a, b) ==
  \A i \in Stages : a[i].handle = b[i].handle /\ a[i].edge = b[i].edge /\ a[i].wrote = b[i].wrote
Same(a, b) == SameButSent(a, b) /\ \A i \in Stages : a[i].sent = b[i].sent

\* What a listening edge, a strike and a signal alone may change of the
\* handles; an edge is newly listened to only for want of its reader.
Tame(a, b) ==
  \A i \in Stages :
    /\ b[i].handle = a[i].handle /\ b[i].wrote = a[i].wrote
    /\ a[i].edge # "held" => b[i].edge # "held"
    /\ b[i].edge # "held" => \/ a[i].edge # "held"
                             \/ i # Length /\ a[i].handle = "live" /\ a[i + 1].handle # "live"

-----------------------------------------------------------------------------
(* The inductive invariant. *)

\* Outside a teardown an edge is listened to only once its reader is filed;
Owed(st, t) == t = None => \A i \in Stages : st[i].edge # "held" => i # Length /\ st[i + 1].handle = "filed"
\* because after the launch every stage has a handle, or none is live;
Manned(st) == (\A i \in Stages : st[i].handle # "unborn") \/ (\A i \in Stages : st[i].handle # "live")
\* and nobody is heard to write on an edge that is not listened to.
Heeded(st) == \A i \in Stages : st[i].wrote # "no" => st[i].edge # "held"
Told == \A n \in DOMAIN queue : queue[n].what = "wrote" => stage[queue[n].ix].wrote = "told"
\* While the launch lasts, the stages come up in order and nothing is torn down.
InOrder == \A i, j \in Stages : i < j /\ stage[j].handle # "unborn" => stage[i].handle # "unborn"
Early == pc = "launch" => /\ teardown = None /\ InOrder
                          /\ \A i \in Stages : stage[i].edge = "held"
Rest == /\ Early /\ Told /\ Heeded(stage) /\ Owed(stage, teardown)
        /\ pc # "launch" => Manned(stage) \/ teardown # None

IInv == TypeOK /\ Rest

\* The step of CutsAreOwed.
CutStep ==
  \A i \in Stages : stage[i].sent = None /\ stage'[i].sent = ReaderGone /\ teardown' = None
    => i < Length /\ stage[i + 1].handle = "filed" /\ stage[i].wrote = "told"

-----------------------------------------------------------------------------
(* Stages, causes and the operators on handles. *)

\* A stage has a neighbour on either side, but for the ends.
LEMMA StagesFacts ==
  /\ Length \in Nat \ {0}
  /\ Stages \subseteq Nat \ {0}
  /\ \A i \in Stages : i # Length => i + 1 \in Stages
  /\ \A i \in Stages : i > 1 => i - 1 \in Stages
  /\ \A i \in Stages : i <= Length
  /\ Length \in Stages
BY PipelineAssumption DEF Stages

\* Causes are numbers, in the order of their strength.
LEMMA CauseFacts == Cause = 0..6 /\ Above \subseteq Cause /\ Cause \subseteq Nat
BY PipelineAssumption DEF Cause, Causes, None, ReaderGone, Aborted

\* sweep_edges touches edges only, and listens for want of a reader.
LEMMA SweptFacts ==
  ASSUME NEW st \in Arrays, NEW t
  PROVE  /\ Swept(st, t) \in Arrays
         /\ \A i \in Stages : /\ Swept(st, t)[i].handle = st[i].handle
                              /\ Swept(st, t)[i].wrote = st[i].wrote
                              /\ Swept(st, t)[i].sent = st[i].sent
                              /\ st[i].edge # "held" => Swept(st, t)[i].edge # "held"
                              /\ Swept(st, t)[i].edge # "held" =>
                                   \/ st[i].edge # "held"
                                   \/ i # Length /\ st[i].handle = "live" /\ st[i + 1].handle # "live"
<1>1. Abandoned(st) = {i \in Stages : st[i].handle = "live" /\ (i + 1 \in Stages => st[i + 1].handle # "live")}
  BY DEF Abandoned
<1>2. ASSUME NEW i \in Stages
      PROVE  Swept(st, t)[i] = IF i \notin Abandoned(st) \/ i = Length THEN st[i]
               ELSE [st[i] EXCEPT !.edge = IF t = None \/ @ = "dead" THEN "dead" ELSE "heard"]
  BY <1>2 DEF Swept
<1>3. ASSUME NEW i \in Stages
      PROVE  /\ Swept(st, t)[i] \in Handle
             /\ Swept(st, t)[i].handle = st[i].handle
             /\ Swept(st, t)[i].wrote = st[i].wrote
             /\ Swept(st, t)[i].sent = st[i].sent
             /\ st[i].edge # "held" => Swept(st, t)[i].edge # "held"
             /\ Swept(st, t)[i].edge # "held" =>
                  \/ st[i].edge # "held"
                  \/ i # Length /\ st[i].handle = "live" /\ st[i + 1].handle # "live"
  <2>1. st[i] \in Handle
    BY <1>3 DEF Arrays
  <2>2. CASE i \notin Abandoned(st) \/ i = Length
    BY <1>2, <1>3, <2>1, <2>2
  <2>3. CASE i \in Abandoned(st) /\ i # Length
    <3>1. Swept(st, t)[i] = [st[i] EXCEPT !.edge = IF t = None \/ @ = "dead" THEN "dead" ELSE "heard"]
      BY <1>2, <2>3
    <3>2. st[i].handle = "live" /\ st[i + 1].handle # "live"
      BY <1>1, <2>3, StagesFacts
    <3> QED  BY <2>1, <2>3, <3>1, <3>2 DEF Handle
  <2> QED  BY <2>2, <2>3
<1>4. Swept(st, t) \in Arrays
  <2>1. Swept(st, t) = [i \in Stages |-> Swept(st, t)[i]]
    BY DEF Swept
  <2> QED  BY <1>3, <2>1 DEF Arrays
<1> QED  BY <1>3, <1>4

\* A signal to the group changes no handle but in its signals.
LEMMA DeliverFacts ==
  ASSUME NEW st \in Arrays, NEW sig \in Signals
  PROVE  Deliver(st, sig) \in Arrays /\ Same(st, Deliver(st, sig))
<1>1. ASSUME NEW i \in Stages
      PROVE  /\ Deliver(st, sig)[i] \in Handle
             /\ Deliver(st, sig)[i].handle = st[i].handle
             /\ Deliver(st, sig)[i].edge = st[i].edge
             /\ Deliver(st, sig)[i].wrote = st[i].wrote
             /\ Deliver(st, sig)[i].sent = st[i].sent
  <2>1. st[i] \in Handle
    BY <1>1 DEF Arrays
  <2>2. Deliver(st, sig)[i] = IF External(i) /\ st[i].handle = "live"
                              THEN [st[i] EXCEPT !.sigs = @ \cup {sig}] ELSE st[i]
    BY <1>1 DEF Deliver
  <2> QED  BY <2>1, <2>2 DEF Handle
<1>2. Deliver(st, sig) = [i \in Stages |-> Deliver(st, sig)[i]]
  BY DEF Deliver
<1> QED  BY <1>1, <1>2 DEF Arrays, Same, SameButSent

\* So does the last of them.
LEMMA KillFacts ==
  ASSUME NEW st \in Arrays
  PROVE  KillLive(st) \in Arrays /\ Same(st, KillLive(st))
BY DeliverFacts DEF KillLive, Signals

\* Striking the live stages changes what they were sent, and nothing else.
LEMMA StruckFacts ==
  ASSUME NEW st \in Arrays, NEW c \in Cause
  PROVE  /\ StruckAll(st, c) \in Arrays /\ SameButSent(st, StruckAll(st, c))
         /\ \A i \in Stages : st[i].handle # "live" => StruckAll(st, c)[i] = st[i]
<1>1. ASSUME NEW i \in Stages
      PROVE  /\ StruckAll(st, c)[i] \in Handle
             /\ StruckAll(st, c)[i].handle = st[i].handle
             /\ StruckAll(st, c)[i].edge = st[i].edge
             /\ StruckAll(st, c)[i].wrote = st[i].wrote
             /\ st[i].handle # "live" => StruckAll(st, c)[i] = st[i]
  <2>1. st[i] \in Handle
    BY <1>1 DEF Arrays
  <2>2. StruckAll(st, c)[i] = IF st[i].handle = "live" THEN [st[i] EXCEPT !.sent = Stronger(@, c)] ELSE st[i]
    BY <1>1 DEF StruckAll, Sent
  <2> QED  BY <2>1, <2>2 DEF Handle, Stronger
<1>2. StruckAll(st, c) = [i \in Stages |-> StruckAll(st, c)[i]]
  BY DEF StruckAll
<1> QED  BY <1>1, <1>2 DEF Arrays, SameButSent

\* A sweep after strikes and signals is tame.
LEMMA TameFacts ==
  ASSUME NEW st \in Arrays, NEW a \in Arrays, NEW t, SameButSent(st, a)
  PROVE  Tame(st, Swept(a, t)) /\ Tame(st, a) /\ Swept(a, t) \in Arrays
<1>1. Tame(st, a)
  BY DEF Tame, SameButSent
<1>2. Swept(a, t) \in Arrays
  BY SweptFacts
<1>3. \A i \in Stages : /\ Swept(a, t)[i].handle = st[i].handle
                        /\ Swept(a, t)[i].wrote = st[i].wrote
                        /\ st[i].edge # "held" => Swept(a, t)[i].edge # "held"
  BY SweptFacts DEF SameButSent
<1>4. ASSUME NEW i \in Stages, Swept(a, t)[i].edge # "held"
      PROVE  \/ st[i].edge # "held"
             \/ i # Length /\ st[i].handle = "live" /\ st[i + 1].handle # "live"
  BY <1>4, SweptFacts, StagesFacts DEF SameButSent
<1> QED  BY <1>1, <1>2, <1>3, <1>4 DEF Tame

\* What the invariant says of the handles outlasts a tame change of them, in a
\* teardown that is never called off.
LEMMA TameKeeps ==
  ASSUME NEW a \in Arrays, NEW b \in Arrays, Tame(a, b), NEW t, NEW u, u = None => t = None,
         Heeded(a), Owed(a, t), Manned(a) \/ u # None
  PROVE  Heeded(b) /\ Owed(b, u) /\ (Manned(b) \/ u # None)
<1>1. Heeded(b)
  BY DEF Heeded, Tame
<1>2. Manned(b) \/ u # None
  BY DEF Manned, Tame
<1>3. ASSUME u = None, NEW i \in Stages, b[i].edge # "held"
      PROVE  i # Length /\ b[i + 1].handle = "filed"
  <2>1. CASE a[i].edge # "held"
    BY <1>3, <2>1, StagesFacts DEF Owed, Tame
  <2>2. CASE i # Length /\ a[i].handle = "live" /\ a[i + 1].handle # "live"
    <3>1. i + 1 \in Stages
      BY <1>3, <2>2, StagesFacts
    <3>2. a[i + 1].handle # "unborn"
      BY <1>3, <2>2, <3>1 DEF Manned
    <3>3. a[i + 1].handle = "filed"
      BY <2>2, <3>1, <3>2 DEF Arrays, Handle
    <3> QED  BY <2>2, <3>1, <3>3 DEF Tame
  <2> QED  BY <1>3, <2>1, <2>2 DEF Tame
<1> QED  BY <1>1, <1>2, <1>3 DEF Owed

Places == {"up", "told", "dead", "ended"}
Waiting == {"drive", "grace", "threads", "drain"}

\* cancel_all is tame, leaves the launch and is never without a cause.
LEMMA TearDownFacts ==
  ASSUME TypeOK, NEW st \in Arrays, NEW c \in Cause, c # None, TearDown(st, c)
  PROVE  /\ stage' \in Arrays /\ Tame(st, stage')
         /\ teardown' = c /\ pc' \in Waiting /\ anchor' \in Places
<1> DEFINE told == StruckAll(st, c)
           signals == GraceSignal(c) # "none" /\ pressed < c
           opened == IF signals THEN Deliver(told, GraceSignal(c)) ELSE told
<1>1. told \in Arrays /\ SameButSent(st, told)
  BY StruckFacts
<1>2. GraceSignal(c) # "none" => GraceSignal(c) \in Signals
  BY DEF GraceSignal, Signals
<1>3. opened \in Arrays /\ SameButSent(st, opened)
  <2>1. CASE signals
    <3>1. Deliver(told, GraceSignal(c)) \in Arrays /\ Same(told, Deliver(told, GraceSignal(c)))
      BY <1>1, <1>2, <2>1, DeliverFacts
    <3> QED  BY <1>1, <2>1, <3>1 DEF Same, SameButSent
  <2>2. CASE ~signals
    BY <1>1, <2>2
  <2> QED  BY <2>1, <2>2
<1>4. KillLive(told) \in Arrays /\ SameButSent(st, KillLive(told))
  BY <1>1, KillFacts DEF Same, SameButSent
<1>5. /\ teardown' = c
      /\ anchor' = IF signals /\ GraceSignal(c) = "INT" /\ anchor = "up" /\ "key" \in Ops THEN "told" ELSE anchor
      /\ \/ pc' = "grace" /\ stage' = Swept(opened, c)
         \/ pc' = "threads" /\ stage' = Swept(told, c)
         \/ pc' = "drain" /\ stage' = Swept(KillLive(told), c)
  BY DEF TearDown
<1>6. stage' \in Arrays /\ Tame(st, stage')
  <2>1. CASE stage' = Swept(opened, c)
    BY <1>3, <2>1, TameFacts
  <2>2. CASE stage' = Swept(told, c)
    BY <1>1, <2>2, TameFacts
  <2>3. CASE stage' = Swept(KillLive(told), c)
    BY <1>4, <2>3, TameFacts
  <2> HIDE DEF told, opened
  <2> QED  BY <1>5, <2>1, <2>2, <2>3
<1>7. anchor' \in Places
  BY <1>5 DEF TypeOK, Places
<1> QED  BY <1>5, <1>6, <1>7 DEF Waiting

\* The same of the pursuit of an effect, which tears nothing down or spares what was sent.
LEMMA PursueFacts ==
  ASSUME TypeOK, NEW st \in Arrays, NEW c \in Cause, pc \in Waiting, Pursue(st, c)
  PROVE  /\ stage' \in Arrays /\ Tame(st, stage')
         /\ teardown' \in Cause /\ (teardown' = None => teardown = None)
         /\ pc' \in Waiting /\ anchor' \in Places
         /\ teardown' = None => \A i \in Stages : stage'[i].sent = st[i].sent
<1>1. teardown \in Cause /\ teardown \in Nat /\ c \in Nat /\ anchor \in Places
  BY CauseFacts DEF TypeOK, Places
<1>2. CASE c <= teardown
  <2>1. stage' = Swept(st, teardown) /\ pc' = pc /\ teardown' = teardown /\ anchor' = anchor
    BY <1>2 DEF Pursue
  <2>2. SameButSent(st, st)
    BY DEF SameButSent
  <2> QED  BY <1>1, <2>1, <2>2, TameFacts, SweptFacts
<1>3. CASE ~(c <= teardown) /\ pc = "drive"
  <2>1. TearDown(st, c)
    BY <1>3 DEF Pursue
  <2>2. c # None
    BY <1>1, <1>3 DEF None
  <2> QED  BY <2>1, <2>2, TearDownFacts
<1>4. CASE ~(c <= teardown) /\ pc # "drive"
  <2>1. teardown' = c /\ stage' = Swept(StruckAll(st, c), c) /\ pc' = pc /\ anchor' = anchor
    BY <1>4 DEF Pursue
  <2>2. c # None
    BY <1>1, <1>4 DEF None
  <2> QED  BY <1>1, <2>1, <2>2, StruckFacts, TameFacts
<1> QED  BY <1>2, <1>3, <1>4

-----------------------------------------------------------------------------
(* What a step leaves of the invariant. *)

\* Every event in the channel was there, or is no news of a write not told of.
NoNews == \A n \in DOMAIN queue' : \/ \E m \in DOMAIN queue : queue'[n] = queue[m]
                                   \/ queue'[n].what = "wrote" => stage'[queue'[n].ix].wrote = "told"

\* A step of the collector, from handles a that satisfy the invariant.
LEMMA CollectorKeeps ==
  ASSUME IInv, TypeOK', NoNews, pc' # "launch",
         NEW a \in Arrays, \A i \in Stages : a[i].wrote = stage[i].wrote,
         Heeded(a), Owed(a, teardown), Manned(a) \/ teardown' # None,
         Tame(a, stage'), teardown' = None => teardown = None
  PROVE  Rest'
<1>1. stage' \in Arrays
  BY DEF TypeOK, Arrays
<1>2. Heeded(stage') /\ Owed(stage', teardown') /\ (Manned(stage') \/ teardown' # None)
  BY <1>1, TameKeeps
<1>3. ASSUME NEW n \in DOMAIN queue', queue'[n].what = "wrote"
      PROVE  stage'[queue'[n].ix].wrote = "told"
  <2>1. CASE \E m \in DOMAIN queue : queue'[n] = queue[m]
    <3>1. PICK m \in DOMAIN queue : queue'[n] = queue[m]
      BY <2>1
    <3>2. stage[queue[m].ix].wrote = "told"
      BY <1>3, <3>1 DEF IInv, Rest, Told
    <3>3. queue[m] \in Events
      BY DEF IInv, TypeOK
    <3>4. queue[m].ix \in Stages
      BY <1>3, <3>1, <3>3 DEF Events
    <3> QED  BY <3>1, <3>2, <3>4 DEF Tame
  <2> QED  BY <1>3, <2>1 DEF NoNews
<1> QED  BY <1>2, <1>3 DEF Rest, Early, Told, Heeded, Owed, Manned

\* A step of others, that changes no handle's place and no edge.
LEMMA OthersKeep ==
  ASSUME IInv, TypeOK', NoNews, pc' = pc, teardown' = teardown,
         \A i \in Stages : /\ stage'[i].handle = stage[i].handle /\ stage'[i].edge = stage[i].edge
                           /\ stage'[i].wrote # "no" => stage[i].wrote # "no" \/ stage[i].edge # "held"
                           /\ stage[i].wrote = "told" => stage'[i].wrote = "told"
  PROVE  Rest'
<1>1. Heeded(stage')
  BY DEF IInv, Rest, Heeded
<1>2. Owed(stage', teardown')
  BY StagesFacts DEF IInv, Rest, Owed
<1>3. pc' # "launch" => Manned(stage') \/ teardown' # None
  BY DEF IInv, Rest, Manned
<1>4. Early'
  BY DEF IInv, Rest, Early, InOrder
<1>5. ASSUME NEW n \in DOMAIN queue', queue'[n].what = "wrote"
      PROVE  stage'[queue'[n].ix].wrote = "told"
  <2>1. CASE \E m \in DOMAIN queue : queue'[n] = queue[m]
    <3>1. PICK m \in DOMAIN queue : queue'[n] = queue[m]
      BY <2>1
    <3>2. stage[queue[m].ix].wrote = "told"
      BY <1>5, <3>1 DEF IInv, Rest, Told
    <3>3. queue[m] \in Events
      BY DEF IInv, TypeOK
    <3>4. queue[m].ix \in Stages
      BY <1>5, <3>1, <3>3 DEF Events
    <3> QED  BY <3>1, <3>2, <3>4
  <2> QED  BY <1>5, <2>1 DEF NoNews
<1> QED  BY <1>1, <1>2, <1>3, <1>4, <1>5 DEF Rest, Told, Heeded, Owed, Manned

\* Posting an event, and taking the first.
LEMMA PostFacts ==
  ASSUME TypeOK, NEW e \in Events, Post(e)
  PROVE  /\ queue' \in Seq(Events)
         /\ (e.what = "wrote" => stage'[e.ix].wrote = "told") => NoNews
<1>1. queue \in Seq(Events) /\ queue' = Append(queue, e)
  BY DEF TypeOK, Post
<1>2. queue' \in Seq(Events)
  BY <1>1
<1>3. \A n \in DOMAIN queue' : (n \in DOMAIN queue /\ queue'[n] = queue[n]) \/ queue'[n] = e
  BY <1>1
<1> QED  BY <1>2, <1>3 DEF NoNews

\* An event is taken in a wait, and is one that was posted.
LEMMA TakesFacts ==
  ASSUME TypeOK, NEW what, Takes(what)
  PROVE  /\ queue' \in Seq(Events) /\ NoNews
         /\ Head(queue) \in Events /\ Head(queue).what = what
         /\ 1 \in DOMAIN queue /\ Head(queue) = queue[1]
         /\ pc \in Waiting
<1>1. queue \in Seq(Events) /\ queue # <<>> /\ queue' = Tail(queue) /\ Head(queue).what = what
  BY DEF TypeOK, Takes
<1>2. queue' \in Seq(Events) /\ Head(queue) \in Events /\ 1 \in DOMAIN queue /\ Head(queue) = queue[1]
  BY <1>1
<1>3. \A n \in DOMAIN queue' : n + 1 \in DOMAIN queue /\ queue'[n] = queue[n + 1]
  BY <1>1
<1>4. pc \in Waiting
  BY DEF Takes, Waits, Waiting
<1> QED  BY <1>1, <1>2, <1>3, <1>4 DEF NoNews

\* A step that posts nothing has no news.
LEMMA SameQueue ==
  ASSUME queue' = queue
  PROVE  NoNews
BY DEF NoNews

-----------------------------------------------------------------------------
(* The stages' own steps, and what comes from outside. *)

\* However a stage ends, the invariant is kept and no cut is made.
LEMMA EndsKeeps ==
  ASSUME IInv, NEW i \in Stages, NEW e \in Ending, Ends(i, e)
  PROVE  IInv' /\ CutStep
<1>1. stage \in [Stages -> Handle] /\ stage[i] \in Handle
  BY DEF IInv, TypeOK
<1>2. stage' = [stage EXCEPT ![i] = [stage[i] EXCEPT !.end = e]]
  BY <1>1 DEF Ends
<1>3. [stage[i] EXCEPT !.end = e] \in Handle
  BY <1>1 DEF Handle
<1>4. stage' \in [Stages -> Handle]
  BY <1>1, <1>2, <1>3
<1>5. \A j \in Stages : /\ stage'[j].handle = stage[j].handle /\ stage'[j].edge = stage[j].edge
                        /\ stage'[j].wrote = stage[j].wrote /\ stage'[j].sent = stage[j].sent
  BY <1>1, <1>2 DEF Handle
<1>6. Event("ended", i) \in Events
  BY DEF Event, Events
<1>7. queue' \in Seq(Events) /\ NoNews
  BY <1>6, PostFacts DEF Ends, Event, IInv
<1>8. TypeOK'
  BY <1>4, <1>7 DEF IInv, TypeOK, Ends
<1>9. Rest'
  BY <1>5, <1>7, <1>8, OthersKeep DEF Ends
<1> QED  BY <1>5, <1>8, <1>9 DEF IInv, CutStep, None, ReaderGone

\* The ways in which it does.
LEMMA StagesKeep ==
  ASSUME IInv, NEW i \in Stages, EndsOfItself(i) \/ Dies(i) \/ Polls(i) \/ WritesDead(i)
  PROVE  IInv' /\ CutStep
<1>1. CASE EndsOfItself(i)
  <2>1. \A what \in {"ok", "err", "exit", "panic"} : Own(what) \in Ending
    BY DEF Own, End, Ending, Cause
  <2>2. End("stop", ReaderGone, "nobody") \in Ending
    BY DEF End, Ending, Cause, Causes, ReaderGone, Aborted
  <2>3. \E e \in Ending : Ends(i, e)
    BY <1>1, <2>1, <2>2 DEF EndsOfItself
  <2> QED  BY <2>3, EndsKeeps
<1>2. CASE Dies(i)
  <2>1. PICK sig \in stage[i].sigs : Ends(i, Death(sig))
    BY <1>2 DEF Dies
  <2>2. stage[i].sigs \subseteq Signals
    BY DEF IInv, TypeOK, Handle
  <2>3. Death(sig) \in Ending
    BY <2>2 DEF Death, End, Ending, Cause
  <2> QED  BY <2>1, <2>3, EndsKeeps
<1>3. CASE Polls(i)
  <2>1. scope \in Cause /\ stage[i].sent \in Cause
    BY DEF IInv, TypeOK, Handle
  <2>2. End("stop", scope, "above") \in Ending /\ End("stop", stage[i].sent, "stage") \in Ending
    BY <2>1 DEF End, Ending
  <2>3. \E e \in Ending : Ends(i, e)
    BY <1>3, <2>2 DEF Polls
  <2> QED  BY <2>3, EndsKeeps
<1>4. CASE WritesDead(i)
  <2>1. End("stop", ReaderGone, "stage") \in Ending
    BY DEF End, Ending, Cause, Causes, ReaderGone, Aborted
  <2> QED  BY <1>4, <2>1, EndsKeeps DEF WritesDead
<1> QED  BY <1>1, <1>2, <1>3, <1>4

\* A write is heard where an edge is listened to.
LEMMA WritesKeeps ==
  ASSUME IInv, NEW i \in Stages, Writes(i)
  PROVE  IInv' /\ CutStep
<1>1. stage \in [Stages -> Handle] /\ stage[i] \in Handle
  BY DEF IInv, TypeOK
<1>2. /\ stage' = [stage EXCEPT ![i] = [stage[i] EXCEPT !.wrote = "heard"]]
      /\ stage[i].edge # "held" /\ stage[i].wrote = "no"
  BY <1>1 DEF Writes
<1>3. stage' \in [Stages -> Handle]
  BY <1>1, <1>2 DEF Handle
<1>4. \A j \in Stages : /\ stage'[j].handle = stage[j].handle /\ stage'[j].edge = stage[j].edge
                        /\ stage'[j].sent = stage[j].sent
                        /\ stage'[j].wrote = stage[j].wrote \/ (j = i /\ stage'[j].wrote = "heard")
  BY <1>1, <1>2 DEF Handle
<1>5. TypeOK'
  BY <1>3 DEF IInv, TypeOK, Writes
<1>6. NoNews
  BY SameQueue DEF Writes
<1>7. Rest'
  BY <1>2, <1>4, <1>5, <1>6, OthersKeep DEF Writes
<1> QED  BY <1>4, <1>5, <1>7 DEF IInv, CutStep, None, ReaderGone

\* A report comes of a write that was heard.
LEMMA ReportsKeeps ==
  ASSUME IInv, NEW i \in Stages, Reports(i)
  PROVE  IInv' /\ CutStep
<1>1. stage \in [Stages -> Handle] /\ stage[i] \in Handle
  BY DEF IInv, TypeOK
<1>2. stage' = [stage EXCEPT ![i] = [stage[i] EXCEPT !.wrote = "told"]] /\ stage[i].wrote = "heard"
  BY <1>1 DEF Reports
<1>3. stage' \in [Stages -> Handle]
  BY <1>1, <1>2 DEF Handle
<1>4. \A j \in Stages : /\ stage'[j].handle = stage[j].handle /\ stage'[j].edge = stage[j].edge
                        /\ stage'[j].sent = stage[j].sent
                        /\ stage'[j].wrote = IF j = i THEN "told" ELSE stage[j].wrote
  BY <1>1, <1>2 DEF Handle
<1>5. Event("wrote", i) \in Events /\ Event("wrote", i).ix = i
  BY DEF Event, Events
<1>6. queue' \in Seq(Events) /\ NoNews
  BY <1>4, <1>5, PostFacts DEF Reports, IInv
<1>7. TypeOK'
  BY <1>3, <1>6 DEF IInv, TypeOK, Reports
<1>8. Rest'
  BY <1>2, <1>4, <1>6, <1>7, OthersKeep DEF Reports
<1> QED  BY <1>4, <1>7, <1>8 DEF IInv, CutStep, None, ReaderGone

\* Strikes, keys and the anchor leave handles, edges and reports alone.
LEMMA OutsideKeeps ==
  ASSUME IInv, Struck \/ Key \/ AnchorReports \/ AnchorDies \/ Gone
  PROVE  IInv' /\ CutStep
<1>1. stage \in Arrays
  BY DEF IInv, TypeOK, Arrays
<1>2. /\ pc' = pc /\ teardown' = teardown /\ pressed' = pressed /\ launched' = launched /\ verdict' = verdict
      /\ scope' \in Cause /\ anchor' \in Places
  BY CauseFacts DEF IInv, TypeOK, Places, Struck, Key, AnchorReports, AnchorDies, Gone, vars
<1>3. stage' \in Arrays /\ Same(stage, stage')
  <2>1. CASE Key
    BY <1>1, <2>1, DeliverFacts DEF Key, Signals
  <2>2. CASE ~Key
    BY <1>1, <2>2 DEF Struck, AnchorReports, AnchorDies, Gone, vars, Same, SameButSent
  <2> QED  BY <2>1, <2>2
<1>4. queue' \in Seq(Events) /\ NoNews
  <2>1. CASE queue' = queue
    BY <2>1, SameQueue DEF IInv, TypeOK
  <2>2. CASE AnchorReports \/ AnchorDies
    <3>1. \A what \in {"heard", "anchor"} : Event(what, 0) \in Events /\ Event(what, 0).what # "wrote"
      BY DEF Event, Events
    <3>2. \E e \in Events : e.what # "wrote" /\ Post(e)
      BY <2>2, <3>1 DEF AnchorReports, AnchorDies
    <3> QED  BY <3>2, PostFacts DEF IInv
  <2> QED  BY <2>1, <2>2 DEF Struck, Key, Gone, vars
<1>5. TypeOK'
  BY <1>2, <1>3, <1>4 DEF IInv, TypeOK, Arrays, Places
<1>6. Rest'
  BY <1>2, <1>3, <1>4, <1>5, OthersKeep DEF Same, SameButSent
<1> QED  BY <1>3, <1>5, <1>6 DEF IInv, CutStep, None, ReaderGone, Same

-----------------------------------------------------------------------------
(* The launch. *)

\* A stage launched has those before it launched; with the last, all are.
LEMMA LaunchKeeps ==
  ASSUME IInv, NEW i \in Stages, Launch(i)
  PROVE  IInv' /\ CutStep
<1> DEFINE st == [stage EXCEPT ![i].handle = "live", ![i].end = Running]
<1>1. stage \in [Stages -> Handle] /\ stage[i] \in Handle
  BY DEF IInv, TypeOK
<1>2. Running \in Ending
  BY DEF Running, End, Ending, Cause
<1>3. st = [stage EXCEPT ![i] = [stage[i] EXCEPT !.handle = "live", !.end = Running]]
  BY <1>1
<1>4. [stage[i] EXCEPT !.handle = "live", !.end = Running] \in Handle
  BY <1>1, <1>2 DEF Handle
<1>5. st \in Arrays
  BY <1>1, <1>3, <1>4 DEF Arrays
<1>6. \A j \in Stages : /\ st[j].handle = IF j = i THEN "live" ELSE stage[j].handle
                        /\ st[j].edge = stage[j].edge /\ st[j].wrote = stage[j].wrote /\ st[j].sent = stage[j].sent
  BY <1>1, <1>3 DEF Handle
<1> HIDE DEF st
<1>7. /\ pc = "launch" /\ stage[i].handle = "unborn" /\ (i > 1 => stage[i - 1].handle # "unborn")
      /\ teardown = None /\ InOrder /\ \A j \in Stages : stage[j].edge = "held"
      /\ teardown' = teardown /\ queue' = queue
  BY DEF Launch, IInv, Rest, Early
<1>8. \A j \in Stages : j < i => stage[j].handle # "unborn"
  <2> SUFFICES ASSUME NEW j \in Stages, j < i  PROVE stage[j].handle # "unborn"
    OBVIOUS
  <2>1. i > 1 /\ i - 1 \in Stages /\ (j = i - 1 \/ j < i - 1)
    BY StagesFacts
  <2> QED  BY <1>7, <2>1 DEF InOrder
<1>9. NoNews
  BY <1>7, SameQueue
<1>10. \A j \in Stages : st[j].wrote = stage[j].wrote
  BY <1>6
<1>11. Heeded(st) /\ Owed(st, teardown)
  BY <1>6, <1>7 DEF Heeded, Owed, IInv, Rest
<1>12. CASE i = Length
  <2>1. pc' = "drive" /\ stage' = Swept(st, teardown)
    BY <1>12 DEF Launch, st
  <2>2. Manned(st)
    BY <1>6, <1>8, <1>12, StagesFacts DEF Manned
  <2>3. Tame(st, stage') /\ stage' \in Arrays
    BY <1>5, <2>1, TameFacts DEF SameButSent
  <2>4. TypeOK'
    BY <2>1, <2>3 DEF Launch, IInv, TypeOK, Arrays
  <2>5. Rest'
    BY <1>5, <1>7, <1>9, <1>10, <1>11, <2>1, <2>2, <2>3, <2>4, CollectorKeeps
  <2>6. \A j \in Stages : stage'[j].sent = stage[j].sent
    BY <1>5, <1>6, <2>1, SweptFacts
  <2> QED  BY <2>4, <2>5, <2>6 DEF IInv, CutStep, None, ReaderGone
<1>13. CASE i # Length
  <2>1. pc' = pc /\ stage' = st
    BY <1>13 DEF Launch, st
  <2>2. TypeOK'
    BY <1>5, <2>1 DEF Launch, IInv, TypeOK, Arrays
  <2>3. InOrder'
    BY <1>6, <1>7, <1>8, <2>1, StagesFacts DEF InOrder
  <2>4. Early' /\ pc' = "launch"
    BY <1>6, <1>7, <2>1, <2>3 DEF Early
  <2>5. Told'
    <3> SUFFICES ASSUME NEW n \in DOMAIN queue, queue[n].what = "wrote"
                 PROVE  stage'[queue[n].ix].wrote = "told"
      BY <1>7 DEF Told
    <3>1. queue[n] \in Events
      BY DEF IInv, TypeOK
    <3>2. queue[n].ix \in Stages
      BY <3>1 DEF Events
    <3> QED  BY <1>6, <2>1, <3>2 DEF IInv, Rest, Told
  <2>6. Rest'
    BY <1>7, <1>11, <2>1, <2>4, <2>5 DEF Rest, Heeded, Owed
  <2> QED  BY <1>6, <2>1, <2>2, <2>6 DEF IInv, CutStep, None, ReaderGone
<1> QED  BY <1>12, <1>13

\* A launch that fails with stages live tears them down.
LEMMA LaunchFailsKeeps ==
  ASSUME IInv, LaunchFails
  PROVE  IInv' /\ CutStep
<1>1. stage \in Arrays /\ TypeOK /\ teardown = None /\ Heeded(stage) /\ Owed(stage, teardown)
  BY DEF IInv, TypeOK, Arrays, LaunchFails, Rest, Early
<1>2. NoNews
  BY SameQueue DEF LaunchFails
<1>3. CASE AnyLive
  <2>1. PICK c \in Cause : c # None /\ TearDown(stage, c)
    <3>1. scope \in Cause /\ Cancelled \in Cause /\ Cancelled # None
      BY CauseFacts DEF IInv, TypeOK, Cancelled, None
    <3> QED  BY <1>3, <3>1 DEF LaunchFails
  <2>2. /\ stage' \in Arrays /\ Tame(stage, stage')
        /\ teardown' = c /\ pc' \in Waiting /\ anchor' \in Places
    BY <1>1, <2>1, TearDownFacts
  <2>3. TypeOK'
    BY <2>2 DEF LaunchFails, IInv, TypeOK, Arrays, Waiting, Places
  <2>4. Rest'
    BY <1>1, <1>2, <2>1, <2>2, <2>3, CollectorKeeps DEF Waiting
  <2> QED  BY <2>1, <2>2, <2>3, <2>4 DEF IInv, CutStep
<1>4. CASE ~AnyLive
  <2>1. pc' = "drive" /\ stage' = stage /\ teardown' = teardown /\ anchor' = anchor
    BY <1>4 DEF LaunchFails
  <2>2. TypeOK'
    BY <2>1 DEF LaunchFails, IInv, TypeOK
  <2>3. Manned(stage)
    BY <1>4 DEF AnyLive, Live, Manned
  <2>4. Tame(stage, stage')
    BY <2>1 DEF Tame
  <2>5. Rest'
    BY <1>1, <1>2, <2>1, <2>2, <2>3, <2>4, CollectorKeeps
  <2> QED  BY <2>1, <2>2, <2>5 DEF IInv, CutStep, None, ReaderGone
<1> QED  BY <1>3, <1>4

-----------------------------------------------------------------------------
(* The collector. *)

\* The invariant, as the steps of the collector use it.
LEMMA AfterLaunch ==
  ASSUME IInv, pc # "launch"
  PROVE  /\ stage \in Arrays /\ Heeded(stage) /\ Owed(stage, teardown)
         /\ Manned(stage) \/ teardown # None
         /\ \A a \in Arrays : SameButSent(a, a)
BY DEF IInv, TypeOK, Arrays, Rest, SameButSent

\* A cause noticed on the scope.
LEMMA NoticesKeeps ==
  ASSUME IInv, Notices
  PROVE  IInv' /\ CutStep
<1>1. scope \in Cause /\ TypeOK /\ pc \in Waiting /\ pc # "launch" /\ Pursue(stage, scope)
  BY DEF IInv, TypeOK, Notices, Waits, Waiting
<1>2. /\ stage' \in Arrays /\ Tame(stage, stage')
      /\ teardown' \in Cause /\ (teardown' = None => teardown = None)
      /\ pc' \in Waiting /\ anchor' \in Places
      /\ teardown' = None => \A i \in Stages : stage'[i].sent = stage[i].sent
  BY <1>1, AfterLaunch, PursueFacts
<1>3. TypeOK'
  BY <1>2 DEF Notices, IInv, TypeOK, Arrays, Waiting, Places
<1>4. NoNews
  BY SameQueue DEF Notices
<1>5. Rest'
  BY <1>1, <1>2, <1>3, <1>4, AfterLaunch, CollectorKeeps DEF Waiting
<1> QED  BY <1>2, <1>3, <1>5 DEF IInv, CutStep, None, ReaderGone

\* What an ending tears down for is a cause.
LEMMA TearsDownForFacts ==
  ASSUME NEW e \in Ending
  PROVE  TearsDownFor(e) \in Cause
BY CauseFacts DEF TearsDownFor, Ending, Aborted, Cancelled, None

\* A stage filed is no longer live, and stays filed.
LEMMA FilesKeeps ==
  ASSUME IInv, Files
  PROVE  IInv' /\ CutStep
<1> DEFINE i == Head(queue).ix
           st == [stage EXCEPT ![i].handle = "filed"]
           c == TearsDownFor(stage[i].end)
<1>1. /\ queue' \in Seq(Events) /\ NoNews /\ pc \in Waiting /\ pc # "launch"
      /\ Head(queue) \in Events /\ Head(queue).what = "ended"
  BY TakesFacts DEF Files, IInv, Waiting
<1>2. i \in Stages
  BY <1>1 DEF Events
<1>3. Pursue(st, c)
  BY DEF Files
<1> HIDE DEF i
<1>4. stage \in [Stages -> Handle] /\ stage[i] \in Handle
  BY <1>2 DEF IInv, TypeOK
<1>5. c \in Cause
  BY <1>4, TearsDownForFacts DEF Handle
<1>6. st = [stage EXCEPT ![i] = [stage[i] EXCEPT !.handle = "filed"]]
  BY <1>2, <1>4
<1>7. st \in Arrays
  BY <1>2, <1>4, <1>6 DEF Arrays, Handle
<1>8. \A j \in Stages : /\ st[j].handle = IF j = i THEN "filed" ELSE stage[j].handle
                        /\ st[j].edge = stage[j].edge /\ st[j].wrote = stage[j].wrote /\ st[j].sent = stage[j].sent
  BY <1>2, <1>4, <1>6 DEF Handle
<1> HIDE DEF st, c
<1>9. Heeded(st) /\ Owed(st, teardown) /\ (Manned(st) \/ teardown # None)
  <2>1. Heeded(st)
    BY <1>1, <1>8, AfterLaunch DEF Heeded
  <2>2. Owed(st, teardown)
    BY <1>1, <1>8, AfterLaunch, StagesFacts DEF Owed
  <2>3. Manned(st) \/ teardown # None
    BY <1>1, <1>8, AfterLaunch DEF Manned
  <2> QED  BY <2>1, <2>2, <2>3
<1>10. /\ stage' \in Arrays /\ Tame(st, stage')
       /\ teardown' \in Cause /\ (teardown' = None => teardown = None)
       /\ pc' \in Waiting /\ anchor' \in Places
       /\ teardown' = None => \A j \in Stages : stage'[j].sent = st[j].sent
  BY <1>1, <1>3, <1>5, <1>7, PursueFacts DEF IInv
<1>11. TypeOK'
  BY <1>1, <1>10 DEF Files, IInv, TypeOK, Arrays, Waiting, Places
<1>12. pc' # "launch"
  BY <1>10 DEF Waiting
<1>13. Rest'
  BY <1>1, <1>7, <1>8, <1>9, <1>10, <1>11, <1>12, CollectorKeeps
<1> QED  BY <1>8, <1>10, <1>11, <1>13 DEF IInv, CutStep, None, ReaderGone

\* The only step that cuts: the news it takes is of a write, on an edge that is
\* listened to, outside a teardown for want of a reader that is filed.
LEMMA HearsWriteKeeps ==
  ASSUME IInv, HearsWrite
  PROVE  IInv' /\ CutStep
<1> DEFINE i == Head(queue).ix
           st == IF pc = "drive" /\ Live(i) THEN Cut(i) ELSE stage
<1>1. /\ queue' \in Seq(Events) /\ NoNews /\ pc \in Waiting /\ pc # "launch"
      /\ Head(queue) \in Events /\ Head(queue).what = "wrote"
      /\ 1 \in DOMAIN queue /\ Head(queue) = queue[1]
  BY TakesFacts DEF HearsWrite, IInv, Waiting
<1>2. i \in Stages
  BY <1>1 DEF Events
<1>3. stage' = Swept(st, teardown) /\ pc' = pc /\ teardown' = teardown
  BY DEF HearsWrite
<1>4. stage[i].wrote = "told"
  BY <1>1 DEF IInv, Rest, Told
<1> HIDE DEF i
<1>5. stage \in [Stages -> Handle] /\ stage[i] \in Handle
  BY <1>2 DEF IInv, TypeOK
<1>6. /\ st \in Arrays /\ SameButSent(stage, st)
      /\ \A j \in Stages : j # i => st[j] = stage[j]
  <2>1. CASE st = stage
    BY <1>5, <2>1 DEF Arrays, SameButSent
  <2>2. CASE st = Cut(i)
    <3> DEFINE s == Sent(stage[i], ReaderGone)
               cut == IF External(i) THEN [s EXCEPT !.sigs = @ \cup {"KILL"}] ELSE s
    <3>1. st = [stage EXCEPT ![i] = cut]
      BY <2>2 DEF Cut
    <3>2. ReaderGone \in Cause
      BY CauseFacts DEF ReaderGone
    <3>3. Sent(stage[i], ReaderGone) = [stage[i] EXCEPT !.sent = Stronger(stage[i].sent, ReaderGone)]
      BY DEF Sent
    <3>4. Stronger(stage[i].sent, ReaderGone) \in Cause
      BY <1>5, <3>2 DEF Stronger, Handle
    <3>5. s \in Handle
      BY <1>5, <3>3, <3>4 DEF Handle
    <3>6. s.handle = stage[i].handle /\ s.edge = stage[i].edge /\ s.wrote = stage[i].wrote
      BY <1>5, <3>3 DEF Handle
    <3> HIDE DEF s
    <3>7. /\ cut \in Handle
          /\ cut.handle = stage[i].handle /\ cut.edge = stage[i].edge /\ cut.wrote = stage[i].wrote
      BY <3>5, <3>6 DEF Handle, Signals
    <3> HIDE DEF cut
    <3> QED  BY <1>2, <1>5, <3>1, <3>7 DEF Arrays, SameButSent
  <2> QED  BY <2>1, <2>2
<1>7. st # stage => pc = "drive" /\ Live(i)
  OBVIOUS
<1> HIDE DEF st
<1>8. Tame(stage, stage') /\ stage' \in Arrays
  BY <1>1, <1>3, <1>6, AfterLaunch, TameFacts
<1>9. TypeOK'
  BY <1>1, <1>8 DEF HearsWrite, IInv, TypeOK, Arrays
<1>10. Rest'
  BY <1>1, <1>3, <1>8, <1>9, AfterLaunch, CollectorKeeps
<1>11. CutStep
  <2> SUFFICES ASSUME NEW j \in Stages, stage[j].sent = None, stage'[j].sent = ReaderGone, teardown' = None
               PROVE  j < Length /\ stage[j + 1].handle = "filed" /\ stage[j].wrote = "told"
    BY DEF CutStep
  <2>1. stage'[j].sent = st[j].sent
    BY <1>3, <1>6, SweptFacts
  <2>2. j = i
    BY <1>6, <2>1 DEF None, ReaderGone
  <2>3. stage[i].edge # "held"
    BY <1>1, <1>2, <1>4, AfterLaunch DEF Heeded
  <2>4. i # Length /\ stage[i + 1].handle = "filed"
    BY <1>1, <1>2, <1>3, <2>3, AfterLaunch DEF Owed
  <2> QED  BY <1>2, <1>4, <2>2, <2>4, StagesFacts
<1> QED  BY <1>9, <1>10, <1>11 DEF IInv

\* The death of the anchor tears down, or is old news.
LEMMA AnchorDiedKeeps ==
  ASSUME IInv, AnchorDied
  PROVE  IInv' /\ CutStep
<1>1. queue' \in Seq(Events) /\ NoNews /\ pc \in Waiting /\ pc # "launch"
  BY TakesFacts DEF AnchorDied, IInv, Waiting
<1>2. PICK c \in Cause : Pursue(stage, c)
  BY CauseFacts DEF AnchorDied, Terminated, None
<1>3. /\ stage' \in Arrays /\ Tame(stage, stage')
      /\ teardown' \in Cause /\ (teardown' = None => teardown = None)
      /\ pc' \in Waiting /\ anchor' \in Places
      /\ teardown' = None => \A i \in Stages : stage'[i].sent = stage[i].sent
  BY <1>1, <1>2, AfterLaunch, PursueFacts DEF IInv
<1>4. TypeOK'
  BY <1>1, <1>3 DEF AnchorDied, IInv, TypeOK, Arrays, Waiting, Places
<1>5. Rest'
  BY <1>1, <1>3, <1>4, AfterLaunch, CollectorKeeps DEF Waiting
<1> QED  BY <1>3, <1>4, <1>5 DEF IInv, CutStep, None, ReaderGone

\* A key heard strikes the scope.
LEMMA HeardKeeps ==
  ASSUME IInv, Heard
  PROVE  IInv' /\ CutStep
<1>1. queue' \in Seq(Events) /\ NoNews /\ pc \in Waiting /\ pc # "launch"
  BY TakesFacts DEF Heard, IInv, Waiting
<1>2. stage' = Swept(stage, teardown) /\ pc' = pc /\ teardown' = teardown
  BY DEF Heard
<1>3. Tame(stage, stage') /\ stage' \in Arrays /\ \A i \in Stages : stage'[i].sent = stage[i].sent
  BY <1>1, <1>2, AfterLaunch, TameFacts, SweptFacts
<1>4. Interrupted \in Cause /\ Stronger(scope, Interrupted) \in Cause
  BY CauseFacts DEF IInv, TypeOK, Stronger, Interrupted
<1>5. TypeOK'
  BY <1>1, <1>3, <1>4 DEF Heard, IInv, TypeOK, Arrays
<1>6. Rest'
  BY <1>1, <1>2, <1>3, <1>5, AfterLaunch, CollectorKeeps
<1> QED  BY <1>3, <1>5, <1>6 DEF IInv, CutStep, None, ReaderGone

\* A wait that is over kills, which touches no edge.
LEMMA WaitsOverKeeps ==
  ASSUME IInv, GraceOver \/ ThreadsOver
  PROVE  IInv' /\ CutStep
<1>1. /\ pc # "launch" /\ pc' \in {"threads", "drain"} /\ teardown' = teardown /\ queue' = queue
      /\ stage' = stage \/ stage' = KillLive(stage)
  BY DEF GraceOver, ThreadsOver
<1>2. stage' \in Arrays /\ Same(stage, stage')
  BY <1>1, AfterLaunch, KillFacts DEF Same
<1>3. Tame(stage, stage')
  BY <1>1, <1>2, AfterLaunch, TameFacts DEF Same
<1>4. TypeOK'
  BY <1>1, <1>2 DEF GraceOver, ThreadsOver, IInv, TypeOK, Arrays
<1>5. Rest'
  BY <1>1, <1>3, <1>4, AfterLaunch, SameQueue, CollectorKeeps
<1> QED  BY <1>2, <1>4, <1>5 DEF IInv, CutStep, None, ReaderGone, Same

\* The join empties the channel.
LEMMA JoinsKeeps ==
  ASSUME IInv, Joins
  PROVE  IInv' /\ CutStep
<1>1. pc # "launch" /\ pc' = "fold" /\ stage' = stage /\ teardown' = teardown /\ queue' = <<>>
  BY DEF Joins
<1>2. Interrupted \in Cause /\ Stronger(scope, Interrupted) \in Cause
  BY CauseFacts DEF IInv, TypeOK, Stronger, Interrupted
<1>3. TypeOK'
  BY <1>1, <1>2 DEF Joins, IInv, TypeOK
<1>4. NoNews
  BY <1>1 DEF NoNews
<1>5. Tame(stage, stage')
  BY <1>1 DEF Tame
<1>6. Rest'
  BY <1>1, <1>3, <1>4, <1>5, AfterLaunch, CollectorKeeps
<1> QED  BY <1>1, <1>3, <1>6 DEF IInv, CutStep, None, ReaderGone

\* An unwind with stages live is a teardown, even from within the launch.
LEMMA UnwindsKeeps ==
  ASSUME IInv, Unwinds
  PROVE  IInv' /\ CutStep
<1> DEFINE told == StruckAll(stage, Terminated)
<1>1. /\ pc' = "unwinding" /\ stage' = KillLive(told)
      /\ teardown' = IF AnyLive THEN Stronger(teardown, Terminated) ELSE teardown
  BY DEF Unwinds
<1>2. Terminated \in Cause /\ teardown \in Cause /\ teardown \in Nat
  BY CauseFacts DEF IInv, TypeOK, Terminated
<1>3. stage \in Arrays /\ Heeded(stage) /\ Owed(stage, teardown)
  BY DEF IInv, TypeOK, Arrays, Rest
<1>4. told \in Arrays /\ SameButSent(stage, told)
  BY <1>2, <1>3, StruckFacts
<1>5. stage' \in Arrays /\ Same(told, stage')
  BY <1>1, <1>4, KillFacts
<1>6. Tame(stage, stage')
  BY <1>3, <1>4, <1>5, TameFacts DEF Same, SameButSent
<1>7. teardown' \in Cause /\ (teardown' = None => teardown = None) /\ (AnyLive => teardown' # None)
  BY <1>1, <1>2 DEF Stronger, Terminated, None
<1>8. TypeOK'
  BY <1>1, <1>5, <1>7 DEF Unwinds, IInv, TypeOK, Arrays
<1>9. Manned(stage) \/ teardown' # None
  BY <1>7 DEF AnyLive, Live, Manned
<1>10. NoNews
  BY SameQueue DEF Unwinds
<1>11. Rest'
  BY <1>1, <1>3, <1>6, <1>7, <1>8, <1>9, <1>10, CollectorKeeps
<1>12. \A i \in Stages : stage'[i].sent \in {stage[i].sent, Stronger(stage[i].sent, Terminated)}
  <2> SUFFICES ASSUME NEW i \in Stages  PROVE told[i].sent \in {stage[i].sent, Stronger(stage[i].sent, Terminated)}
    BY <1>5 DEF Same
  <2>1. stage[i] \in Handle
    BY <1>3 DEF Arrays
  <2>2. told[i] = IF stage[i].handle = "live" THEN [stage[i] EXCEPT !.sent = Stronger(@, Terminated)] ELSE stage[i]
    BY DEF StruckAll, Sent
  <2> QED  BY <2>1, <2>2 DEF Handle
<1> QED  BY <1>8, <1>11, <1>12 DEF IInv, CutStep, None, ReaderGone, Stronger, Terminated

\* Every stage that is folded has a rank.
LEMMA BreakFacts ==
  ASSUME IInv, NEW i \in Stages
  PROVE  ExternalBreak(stage[i]) \in Nat /\ ThreadBreak(stage[i].end) \in Nat
<1>1. scope \in Nat /\ stage[i].end.cause \in Nat
  BY CauseFacts DEF IInv, TypeOK, Handle, Ending
<1>2. ExternalBreak(stage[i]) \in Nat
  BY <1>1 DEF ExternalBreak, FailureRank, StopRank
<1>3. ThreadBreak(stage[i].end) \in Nat
  BY <1>1 DEF ThreadBreak, FailureRank, ExitRank, StopRank
<1> QED  BY <1>2, <1>3

\* The fold touches the verdict only.
LEMMA FoldKeeps ==
  ASSUME IInv, Dropped \/ Folds \/ Concludes
  PROVE  IInv' /\ CutStep
<1>1. /\ pc # "launch" /\ pc' \in {"dropped", "fold", "done"} /\ stage' = stage
      /\ teardown' = teardown /\ queue' = queue
  BY DEF Dropped, Folds, Concludes
<1>2. verdict' \in [at : Nat \ {0}, panic : BOOLEAN, held : Nat]
  <2>1. verdict \in [at : Nat \ {0}, panic : BOOLEAN, held : Nat] /\ teardown \in Nat
    BY CauseFacts DEF IInv, TypeOK
  <2>2. CASE Dropped
    BY <2>1, <2>2 DEF Dropped
  <2>3. CASE Concludes
    BY <2>1, <2>3 DEF Concludes, StopRank
  <2>4. CASE Folds
    <3> DEFINE s == stage[verdict.at]
               br == IF s.handle = "unborn" THEN 0
                     ELSE IF External(verdict.at) THEN ExternalBreak(s) ELSE ThreadBreak(s.end)
    <3>1. verdict' = [at |-> verdict.at + 1, panic |-> verdict.panic \/ s.end.what = "panic",
                      held |-> Stronger(verdict.held, br)]
      BY <2>4 DEF Folds
    <3>2. verdict.at \in Stages
      BY <2>1, <2>4 DEF Folds, Stages
    <3>3. br \in Nat
      BY <3>2, BreakFacts
    <3> HIDE DEF br
    <3> QED  BY <2>1, <3>1, <3>3 DEF Stronger
  <2> QED  BY <2>2, <2>3, <2>4
<1>3. TypeOK'
  BY <1>1, <1>2 DEF Dropped, Folds, Concludes, IInv, TypeOK
<1>4. Tame(stage, stage')
  BY <1>1 DEF Tame
<1>5. Rest'
  BY <1>1, <1>3, <1>4, AfterLaunch, SameQueue, CollectorKeeps
<1> QED  BY <1>1, <1>3, <1>5 DEF IInv, CutStep, None, ReaderGone

-----------------------------------------------------------------------------
(* The theorems. *)

\* A pipeline begins with no stage born.
LEMMA InitHolds == Init => IInv
<1> SUFFICES ASSUME Init  PROVE IInv
  OBVIOUS
<1>1. PICK kinds \in [Stages -> Kinds] :
        stage = [i \in Stages |-> [kind |-> kinds[i], handle |-> "unborn", end |-> Own("none"),
                                  sent |-> None, sigs |-> {}, edge |-> "held", wrote |-> "no"]]
  BY DEF Init
<1>2. Own("none") \in Ending
  BY DEF Own, End, Ending, Cause
<1>3. stage \in [Stages -> Handle]
  BY <1>1, <1>2 DEF Handle, Cause
<1>4. TypeOK
  BY <1>3 DEF Init, TypeOK, Cause
<1>5. Rest
  BY <1>1 DEF Init, Rest, Early, InOrder, Told, Heeded, Owed
<1> QED  BY <1>4, <1>5 DEF IInv

\* Every step keeps the invariant, and cuts only what is owed.
LEMMA StepKeeps == IInv /\ [Next]_vars => IInv' /\ (CutStep \/ UNCHANGED vars)
<1> SUFFICES ASSUME IInv, [Next]_vars  PROVE IInv' /\ (CutStep \/ UNCHANGED vars)
  OBVIOUS
<1>1. CASE UNCHANGED vars
  BY <1>1 DEF vars, IInv, TypeOK, Rest, Early, InOrder, Told, Heeded, Owed, Manned
<1>2. ASSUME NEW i \in Stages, Launch(i)  PROVE IInv' /\ CutStep
  BY <1>2, LaunchKeeps
<1>3. CASE LaunchFails
  BY <1>3, LaunchFailsKeeps
<1>4. CASE Notices
  BY <1>4, NoticesKeeps
<1>5. CASE Files
  BY <1>5, FilesKeeps
<1>6. CASE HearsWrite
  BY <1>6, HearsWriteKeeps
<1>7. CASE AnchorDied
  BY <1>7, AnchorDiedKeeps
<1>8. CASE Heard
  BY <1>8, HeardKeeps
<1>9. CASE GraceOver \/ ThreadsOver
  BY <1>9, WaitsOverKeeps
<1>10. CASE Joins
  BY <1>10, JoinsKeeps
<1>11. CASE Dropped \/ Folds \/ Concludes
  BY <1>11, FoldKeeps
<1>12. CASE Unwinds
  BY <1>12, UnwindsKeeps
<1>13. CASE Struck \/ Key \/ AnchorReports \/ AnchorDies \/ Gone
  BY <1>13, OutsideKeeps
<1>14. ASSUME NEW i \in Stages, EndsOfItself(i) \/ Dies(i) \/ Polls(i) \/ WritesDead(i)  PROVE IInv' /\ CutStep
  BY <1>14, StagesKeep
<1>15. ASSUME NEW i \in Stages, Writes(i)  PROVE IInv' /\ CutStep
  BY <1>15, WritesKeeps
<1>16. ASSUME NEW i \in Stages, Reports(i)  PROVE IInv' /\ CutStep
  BY <1>16, ReportsKeeps
<1> QED  BY <1>1, <1>2, <1>3, <1>4, <1>5, <1>6, <1>7, <1>8, <1>9, <1>10, <1>11, <1>12, <1>13, <1>14,
            <1>15, <1>16 DEF Next, Collects

\* The inductive invariant holds of every pipeline.
THEOREM Inductive == Spec => []IInv
<1>1. IInv /\ [Next]_vars => IInv'
  BY StepKeeps
<1> QED  BY <1>1, InitHolds, PTL DEF Spec

\* Every variable keeps its type, whatever the length and kinds of the stages:
\* the collector is only ever told of stages of this pipeline.
THEOREM TypeCorrect == Spec => []TypeOK
<1>1. IInv => TypeOK
  BY DEF IInv
<1> QED  BY <1>1, Inductive, PTL

\* Outside a teardown the collector cuts a stage for its reader's absence only
\* once that reader has been filed and the stage was heard to write.
THEOREM CutsOwed == Spec => CutsAreOwed
<1>1. IInv /\ [Next]_vars =>
        [\A i \in Stages : stage[i].sent = None /\ stage'[i].sent = ReaderGone /\ teardown' = None
           => i < Length /\ stage[i + 1].handle = "filed" /\ stage[i].wrote = "told"]_vars
  BY StepKeeps DEF CutStep
<1> QED  BY <1>1, Inductive, PTL DEF Spec, CutsAreOwed

-----------------------------------------------------------------------------
(* The verdict: an account of what every stage was sent, and ended of.       *)

\* A signal is backed by a cause the collector wrote on the stage.
Backs(c, sig) == \/ sig = "KILL" /\ c # None
                 \/ sig = "TERM" /\ c >= Cancelled
                 \/ sig = "INT" /\ c >= Interrupted
Unended == {"none", "running"}

\* A handle is filed once its stage has ended; a thread is sent no signal; who
\* dies of one was sent it; and every signal but a key's is backed.
Sound(s) == /\ s.handle = "unborn" => s.end.what = "none"
            /\ s.handle = "filed" => s.end.what \notin Unended
            /\ s.kind = "thread" => s.sigs = {}
            /\ s.kind = "external" => s.end.what \in Unended \cup {"ok", "err"} \cup Signals
            /\ s.end.what \in Signals => s.end.what \in s.sigs
            /\ \A sig \in s.sigs : sig # "INT" => Backs(s.sent, sig)
AllSound == \A i \in Stages : Sound(stage[i])

\* A key's signal, of which the collector has heard, or will before it folds.
Keyed(s) == "INT" \in s.sigs /\ ~Backs(s.sent, "INT")
Hears == \/ scope >= Interrupted
         \/ pc = "dropped"
         \/ pc \notin {"fold", "done"} /\ (anchor = "told" \/ \E n \in DOMAIN queue : queue[n].what = "heard")
KeysAreHeard == (\E i \in Stages : Keyed(stage[i])) => Hears

\* The channel holds no end that has not come.
NewsIsTrue == \A n \in DOMAIN queue : /\ queue[n].what = "ended" => stage[queue[n].ix].end.what \notin Unended
                                      /\ queue[n].what = "anchor" => "anchor" \in Ops

\* Whoever is about to be killed has been told why; the fold finds every stage
\* of a finished launch filed.
AllTold == pc \in {"grace", "threads"} => \A i \in Stages : stage[i].handle = "live" => stage[i].sent # None
AllFiled == pc \in {"fold", "done"} => \A i \in Stages : stage[i].handle # "live"
AllBorn == launched /\ pc \notin {"launch", "unwinding", "dropped"} => \A i \in Stages : stage[i].handle # "unborn"

\* Where the cause of a teardown came from.
Brought == launched /\ pc \notin {"unwinding", "dropped"} =>
             \/ teardown = None
             \/ teardown <= scope
             \/ teardown = Terminated /\ "anchor" \in Ops
             \/ \E i \in Stages : stage[i].handle = "filed" /\ TearsDownFor(stage[i].end) = teardown

\* The fold so far has what the stages before it earned.
Blank == pc \notin {"fold", "done"} => verdict = [at |-> 1, panic |-> FALSE, held |-> 0]
Panicked == verdict.panic <=> (\E i \in Stages : i < verdict.at /\ stage[i].end.what = "panic")
Halted == \A i \in Stages : i < verdict.at => verdict.held >= Halt(i)
Failed == verdict.held = FailureRank => \E i \in Stages : stage[i].end.what = "err" \/ Outgrown(i)
Exited == verdict.held = ExitRank => \E i \in Stages : Halt(i) = ExitRank
Stopped == verdict.held > StopRank(None) => \/ \E i \in Stages : Halt(i) = verdict.held
                                            \/ verdict.held <= StopRank(scope)
                                            \/ verdict.held = StopRank(Terminated) /\ "anchor" \in Ops
Concluded == pc = "done" => verdict.at > Length /\ (verdict.held = 0 => teardown = None \/ verdict.panic)
Folded == launched /\ pc \in {"fold", "done"} => Panicked /\ Halted /\ Failed /\ Exited /\ Stopped /\ Concluded

Account == /\ AllSound /\ KeysAreHeard /\ NewsIsTrue /\ AllTold /\ AllFiled /\ AllBorn
           /\ Brought /\ Blank /\ Folded

-----------------------------------------------------------------------------
(* What strikes, signals, sweeps and filings make of a handle. *)

\* Its end stays, its causes and signals grow, and what is new is backed.
Succeeds(s, r) == /\ r.kind = s.kind /\ r.end = s.end
                  /\ r.handle = s.handle \/ (r.handle = "filed" /\ s.end.what \notin Unended)
                  /\ s.sent <= r.sent /\ s.sigs \subseteq r.sigs
                  /\ \A sig \in r.sigs : sig \in s.sigs \/ (s.kind = "external" /\ Backs(r.sent, sig))
Follows(a, b) == \A i \in Stages : Succeeds(a[i], b[i])
OurKinds(a) == \A i \in Stages : a[i].kind = stage[i].kind

\* A stronger cause backs what a weaker one does.
LEMMA BacksGrows ==
  ASSUME NEW c \in Cause, NEW d \in Cause, c <= d, NEW sig, Backs(c, sig)
  PROVE  Backs(d, sig)
BY CauseFacts DEF Backs, None, Cancelled, Interrupted

\* A handle stays sound, and no key's signal is new.
LEMMA SoundStays ==
  ASSUME NEW s \in Handle, NEW r \in Handle, Succeeds(s, r), Sound(s)
  PROVE  Sound(r) /\ (Keyed(r) => Keyed(s))
<1>1. s.sent \in Cause /\ r.sent \in Cause
  BY DEF Handle
<1>2. \A sig \in r.sigs : sig \in s.sigs \/ Backs(r.sent, sig)
  BY DEF Succeeds
<1>3. \A sig \in r.sigs : sig # "INT" => Backs(r.sent, sig)
  <2> SUFFICES ASSUME NEW sig \in r.sigs, sig # "INT", sig \in s.sigs  PROVE Backs(r.sent, sig)
    BY <1>2
  <2>1. Backs(s.sent, sig)
    BY DEF Sound
  <2> QED  BY <1>1, <2>1, BacksGrows DEF Succeeds
<1>4. Keyed(r) => Keyed(s)
  <2> SUFFICES ASSUME Keyed(r)  PROVE Keyed(s)
    OBVIOUS
  <2>1. "INT" \in s.sigs
    BY <1>2 DEF Keyed
  <2>2. ~Backs(s.sent, "INT")
    BY <1>1, BacksGrows DEF Keyed, Succeeds
  <2> QED  BY <2>1, <2>2 DEF Keyed
<1>5. r.kind = "thread" => r.sigs = {}
  BY DEF Succeeds, Sound
<1>6. r.end.what \in Signals => r.end.what \in r.sigs
  BY DEF Succeeds, Sound
<1>7. /\ r.handle = "unborn" => r.end.what = "none"
      /\ r.handle = "filed" => r.end.what \notin Unended
      /\ r.kind = "external" => r.end.what \in Unended \cup {"ok", "err"} \cup Signals
  BY DEF Succeeds, Sound
<1> QED  BY <1>3, <1>4, <1>5, <1>6, <1>7 DEF Sound

\* One change after another is one.
LEMMA FollowsOn ==
  ASSUME NEW a \in Arrays, NEW b \in Arrays, NEW c \in Arrays, Follows(a, b), Follows(b, c)
  PROVE  Follows(a, c)
<1> SUFFICES ASSUME NEW i \in Stages  PROVE Succeeds(a[i], c[i])
  BY DEF Follows
<1>1. Succeeds(a[i], b[i]) /\ Succeeds(b[i], c[i])
  BY DEF Follows
<1>2. a[i].sent \in Cause /\ b[i].sent \in Cause /\ c[i].sent \in Cause
  BY DEF Arrays, Handle
<1>3. a[i].sent <= c[i].sent
  BY <1>1, <1>2, CauseFacts DEF Succeeds
<1>4. ASSUME NEW sig \in c[i].sigs  PROVE sig \in a[i].sigs \/ (a[i].kind = "external" /\ Backs(c[i].sent, sig))
  <2>1. CASE sig \in b[i].sigs
    BY <1>1, <1>2, <2>1, BacksGrows DEF Succeeds
  <2>2. CASE sig \notin b[i].sigs
    BY <1>1, <1>4, <2>2 DEF Succeeds
  <2> QED  BY <2>1, <2>2
<1>5. c[i].handle = a[i].handle \/ (c[i].handle = "filed" /\ a[i].end.what \notin Unended)
  BY <1>1 DEF Succeeds
<1>6. c[i].kind = a[i].kind /\ c[i].end = a[i].end /\ a[i].sigs \subseteq c[i].sigs
  BY <1>1 DEF Succeeds
<1> QED  BY <1>3, <1>4, <1>5, <1>6 DEF Succeeds

\* A sweep changes edges.
LEMMA SweptFollows ==
  ASSUME NEW st \in Arrays, NEW t
  PROVE  /\ Follows(st, Swept(st, t)) /\ Swept(st, t) \in Arrays
         /\ \A i \in Stages : Swept(st, t)[i].sent = st[i].sent /\ Swept(st, t)[i].handle = st[i].handle
<1>1. ASSUME NEW i \in Stages  PROVE Succeeds(st[i], Swept(st, t)[i])
  <2>1. st[i] \in Handle
    BY DEF Arrays
  <2>2. \/ Swept(st, t)[i] = st[i]
        \/ Swept(st, t)[i] = [st[i] EXCEPT !.edge = IF t = None \/ st[i].edge = "dead" THEN "dead" ELSE "heard"]
    BY DEF Swept
  <2>3. /\ Swept(st, t)[i].kind = st[i].kind /\ Swept(st, t)[i].end = st[i].end
        /\ Swept(st, t)[i].handle = st[i].handle /\ Swept(st, t)[i].sent = st[i].sent
        /\ Swept(st, t)[i].sigs = st[i].sigs
    BY <2>1, <2>2 DEF Handle
  <2>4. st[i].sent \in Nat
    BY <2>1, CauseFacts DEF Handle
  <2> QED  BY <2>3, <2>4 DEF Succeeds
<1> QED  BY <1>1, SweptFacts DEF Follows

\* A strike writes the cause on every live stage.
LEMMA StruckFollows ==
  ASSUME NEW st \in Arrays, NEW c \in Cause
  PROVE  /\ Follows(st, StruckAll(st, c)) /\ StruckAll(st, c) \in Arrays
         /\ \A i \in Stages : /\ StruckAll(st, c)[i].handle = st[i].handle
                              /\ StruckAll(st, c)[i].kind = st[i].kind
                              /\ st[i].handle = "live" => StruckAll(st, c)[i].sent >= c
<1>1. ASSUME NEW i \in Stages
      PROVE  /\ Succeeds(st[i], StruckAll(st, c)[i])
             /\ StruckAll(st, c)[i].handle = st[i].handle
             /\ StruckAll(st, c)[i].kind = st[i].kind
             /\ st[i].handle = "live" => StruckAll(st, c)[i].sent >= c
  <2>1. st[i] \in Handle
    BY DEF Arrays
  <2>2. StruckAll(st, c)[i] = IF st[i].handle = "live" THEN [st[i] EXCEPT !.sent = Stronger(st[i].sent, c)] ELSE st[i]
    BY DEF StruckAll, Sent
  <2>3. /\ StruckAll(st, c)[i].kind = st[i].kind /\ StruckAll(st, c)[i].end = st[i].end
        /\ StruckAll(st, c)[i].handle = st[i].handle /\ StruckAll(st, c)[i].sigs = st[i].sigs
        /\ StruckAll(st, c)[i].sent = IF st[i].handle = "live" THEN Stronger(st[i].sent, c) ELSE st[i].sent
    BY <2>1, <2>2 DEF Handle
  <2>4. st[i].sent \in Nat /\ c \in Nat
    BY <2>1, CauseFacts DEF Handle
  <2> QED  BY <2>3, <2>4 DEF Succeeds, Stronger
<1> QED  BY <1>1, StruckFacts DEF Follows

\* A signal is delivered to the live externals, whose cause must back it.
LEMMA DeliverFollows ==
  ASSUME NEW st \in Arrays, NEW sig \in Signals, OurKinds(st),
         \A i \in Stages : st[i].handle = "live" => Backs(st[i].sent, sig)
  PROVE  Follows(st, Deliver(st, sig)) /\ Deliver(st, sig) \in Arrays
<1>1. ASSUME NEW i \in Stages  PROVE Succeeds(st[i], Deliver(st, sig)[i])
  <2>1. st[i] \in Handle
    BY DEF Arrays
  <2>2. st[i].sent \in Nat
    BY <2>1, CauseFacts DEF Handle
  <2>3. CASE External(i) /\ st[i].handle = "live"
    <3>1. Deliver(st, sig)[i] = [st[i] EXCEPT !.sigs = st[i].sigs \cup {sig}]
      BY <2>3 DEF Deliver
    <3>2. /\ Deliver(st, sig)[i].kind = st[i].kind /\ Deliver(st, sig)[i].end = st[i].end
          /\ Deliver(st, sig)[i].handle = st[i].handle /\ Deliver(st, sig)[i].sent = st[i].sent
          /\ Deliver(st, sig)[i].sigs = st[i].sigs \cup {sig}
      BY <2>1, <3>1 DEF Handle
    <3>3. st[i].kind = "external" /\ Backs(st[i].sent, sig)
      BY <2>3 DEF External, OurKinds
    <3> QED  BY <2>2, <3>2, <3>3 DEF Succeeds
  <2>4. CASE ~(External(i) /\ st[i].handle = "live")
    <3>1. Deliver(st, sig)[i] = st[i]
      BY <2>4 DEF Deliver
    <3> QED  BY <2>2, <3>1 DEF Succeeds
  <2> QED  BY <2>3, <2>4
<1> QED  BY <1>1, DeliverFacts DEF Follows

\* A kill, of those that were told why.
LEMMA KillFollows ==
  ASSUME NEW st \in Arrays, OurKinds(st), \A i \in Stages : st[i].handle = "live" => st[i].sent # None
  PROVE  Follows(st, KillLive(st)) /\ KillLive(st) \in Arrays
BY DeliverFollows DEF KillLive, Backs, Signals

\* cancel_all strikes every live stage, and its grace signal is backed by that.
LEMMA TearDownFollows ==
  ASSUME TypeOK, NEW st \in Arrays, OurKinds(st), NEW c \in Cause, c # None, TearDown(st, c)
  PROVE  /\ Follows(st, stage')
         /\ \A i \in Stages : stage'[i].handle = "live" => stage'[i].sent # None
         /\ anchor = "told" => anchor' = "told"
<1> DEFINE told == StruckAll(st, c)
           signals == GraceSignal(c) # "none" /\ pressed < c
           opened == IF signals THEN Deliver(told, GraceSignal(c)) ELSE told
<1>1. /\ Follows(st, told) /\ told \in Arrays
      /\ \A i \in Stages : told[i].handle = st[i].handle /\ told[i].kind = st[i].kind
      /\ \A i \in Stages : st[i].handle = "live" => told[i].sent >= c
  BY StruckFollows
<1>2. OurKinds(told) /\ \A i \in Stages : told[i].handle = "live" => told[i].sent >= c
  BY <1>1 DEF OurKinds
<1>3. /\ anchor = "told" => anchor' = "told"
      /\ \/ stage' = Swept(opened, c)
         \/ stage' = Swept(told, c)
         \/ stage' = Swept(KillLive(told), c)
  BY DEF TearDown
<1>4. \A i \in Stages : told[i].sent \in Cause
  BY <1>1 DEF Arrays, Handle
<1>5. Follows(told, opened) /\ opened \in Arrays
  <2>1. CASE signals
    <3>1. GraceSignal(c) \in Signals /\ GraceSignal(c) # "KILL"
      BY <2>1 DEF GraceSignal, Signals
    <3>2. Backs(c, GraceSignal(c))
      BY <2>1 DEF GraceSignal, Backs, None, Cancelled, TimedOut, Terminated, Interrupted
    <3>3. \A i \in Stages : told[i].handle = "live" => Backs(told[i].sent, GraceSignal(c))
      BY <1>2, <1>4, <3>2, BacksGrows, CauseFacts
    <3> HIDE DEF told
    <3> QED  BY <1>1, <1>2, <2>1, <3>1, <3>3, DeliverFollows
  <2>2. CASE ~signals
    <3>1. opened = told
      BY <2>2
    <3>2. \A i \in Stages : told[i].sent <= told[i].sent
      BY <1>4, CauseFacts
    <3> QED  BY <1>1, <3>1, <3>2 DEF Follows, Succeeds
  <2> QED  BY <2>1, <2>2
<1>6. Follows(told, KillLive(told)) /\ KillLive(told) \in Arrays
  <2>1. \A i \in Stages : told[i].handle = "live" => told[i].sent # None
    BY <1>2, <1>4, CauseFacts DEF None
  <2> HIDE DEF told
  <2> QED  BY <1>1, <1>2, <2>1, KillFollows
<1>7. Follows(told, told)
  <2>1. \A i \in Stages : told[i].sent <= told[i].sent
    BY <1>4, CauseFacts
  <2> QED  BY <2>1 DEF Follows, Succeeds
<1> HIDE DEF told, opened
<1>8. PICK a : a \in Arrays /\ Follows(told, a) /\ stage' = Swept(a, c)
  BY <1>1, <1>3, <1>5, <1>6, <1>7
<1>9. Follows(a, stage') /\ stage' \in Arrays
  BY <1>8, SweptFollows
<1>10. Follows(told, stage')
  BY <1>1, <1>8, <1>9, FollowsOn
<1>11. Follows(st, stage')
  BY <1>1, <1>9, <1>10, FollowsOn
<1>12. ASSUME NEW i \in Stages, stage'[i].handle = "live"  PROVE stage'[i].sent # None
  <2>1. told[i].handle = "live" /\ told[i].sent <= stage'[i].sent
    BY <1>10, <1>12 DEF Follows, Succeeds
  <2>2. told[i].sent >= c /\ told[i].sent \in Nat /\ stage'[i].sent \in Nat /\ c \in Nat
    BY <1>2, <1>4, <1>9, <2>1, CauseFacts DEF Arrays, Handle
  <2> QED  BY <2>1, <2>2 DEF None
<1> QED  BY <1>3, <1>11, <1>12

\* So does the pursuit of an effect, unless it lets things be.
LEMMA PursueFollows ==
  ASSUME TypeOK, NEW st \in Arrays, OurKinds(st), NEW c \in Cause, pc \in Waiting, Pursue(st, c)
  PROVE  /\ Follows(st, stage')
         /\ pc' = pc \/ (\A i \in Stages : stage'[i].handle = "live" => stage'[i].sent # None)
         /\ anchor = "told" => anchor' = "told"
         /\ teardown' = teardown \/ teardown' = c
<1>1. teardown \in Nat /\ c \in Nat
  BY CauseFacts DEF TypeOK
<1>2. CASE c <= teardown
  <2>1. stage' = Swept(st, teardown) /\ pc' = pc /\ teardown' = teardown /\ anchor' = anchor
    BY <1>2 DEF Pursue
  <2> QED  BY <2>1, SweptFollows
<1>3. CASE ~(c <= teardown) /\ pc = "drive"
  <2>1. TearDown(st, c) /\ teardown' = c
    BY <1>3 DEF Pursue, TearDown
  <2>2. c # None
    BY <1>1, <1>3 DEF None
  <2> QED  BY <2>1, <2>2, TearDownFollows
<1>4. CASE ~(c <= teardown) /\ pc # "drive"
  <2>1. teardown' = c /\ stage' = Swept(StruckAll(st, c), c) /\ pc' = pc /\ anchor' = anchor
    BY <1>4 DEF Pursue
  <2>2. /\ Follows(st, StruckAll(st, c)) /\ StruckAll(st, c) \in Arrays
    BY StruckFollows
  <2>3. Follows(StruckAll(st, c), stage') /\ stage' \in Arrays
    BY <2>1, <2>2, SweptFollows
  <2>4. Follows(st, stage')
    BY <2>2, <2>3, FollowsOn
  <2> QED  BY <2>1, <2>4
<1> QED  BY <1>2, <1>3, <1>4

-----------------------------------------------------------------------------
(* What a step leaves of the account. *)

\* Every event in the channel was there, or is true.
TrueNews == \A n \in DOMAIN queue' :
  \/ \E m \in DOMAIN queue : queue'[n] = queue[m]
  \/ /\ queue'[n].what = "ended" => stage'[queue'[n].ix].end.what \notin Unended
     /\ queue'[n].what = "anchor" => "anchor" \in Ops

\* An end that has come is not taken back.
LEMMA NewsStays ==
  ASSUME IInv, NewsIsTrue, TrueNews,
         \A i \in Stages : stage[i].end.what \notin Unended => stage'[i].end = stage[i].end
  PROVE  NewsIsTrue'
<1> SUFFICES ASSUME NEW n \in DOMAIN queue'
             PROVE  /\ queue'[n].what = "ended" => stage'[queue'[n].ix].end.what \notin Unended
                    /\ queue'[n].what = "anchor" => "anchor" \in Ops
  BY DEF NewsIsTrue
<1>1. CASE \E m \in DOMAIN queue : queue'[n] = queue[m]
  <2>1. PICK m \in DOMAIN queue : queue'[n] = queue[m]
    BY <1>1
  <2>2. queue[m] \in Events
    BY DEF IInv, TypeOK
  <2>3. queue[m].what = "ended" => queue[m].ix \in Stages
    BY <2>2 DEF Events
  <2> QED  BY <2>1, <2>3 DEF NewsIsTrue
<1> QED  BY <1>1 DEF TrueNews

\* A stage that is filed was known to end, and stays.
LEMMA FiledStays ==
  ASSUME AllSound, NEW i \in Stages, Succeeds(stage[i], stage'[i]), stage[i].handle = "filed"
  PROVE  stage'[i].handle = "filed" /\ stage'[i].end = stage[i].end
BY DEF Succeeds

\* A step of the collector before the fold.
LEMMA WorkKeeps ==
  ASSUME IInv, IInv', Account, pc \notin {"fold", "done"}, pc' \notin {"fold", "done"}, verdict' = verdict,
         Follows(stage, stage'), TrueNews, Hears => Hears',
         pc' \in {"grace", "threads"} => pc' = pc \/ (\A i \in Stages : stage'[i].handle = "live" => stage'[i].sent # None),
         launched' /\ pc' \notin {"launch", "unwinding", "dropped"}
           => /\ launched /\ pc \notin {"launch", "unwinding", "dropped"}
              /\ scope' >= scope
              /\ \/ teardown' = teardown
                 \/ teardown' <= scope'
                 \/ teardown' = Terminated /\ "anchor" \in Ops
                 \/ \E i \in Stages : stage'[i].handle = "filed" /\ TearsDownFor(stage'[i].end) = teardown',
         pc' # "launch"
  PROVE  Account'
<1>1. /\ AllSound /\ KeysAreHeard /\ NewsIsTrue /\ AllTold /\ AllFiled /\ AllBorn
      /\ Brought /\ Blank /\ Folded
  BY DEF Account
<1>2. stage \in Arrays /\ stage' \in Arrays
  BY DEF IInv, TypeOK, Arrays
<1>3. ASSUME NEW i \in Stages
      PROVE  Sound(stage'[i]) /\ (Keyed(stage'[i]) => Keyed(stage[i])) /\ Succeeds(stage[i], stage'[i])
             /\ stage[i].handle \in {"unborn", "live", "filed"}
  <2>1. stage[i] \in Handle /\ stage'[i] \in Handle
    BY <1>2 DEF Arrays
  <2>2. Sound(stage[i]) /\ Succeeds(stage[i], stage'[i])
    BY <1>1 DEF AllSound, Follows
  <2> QED  BY <2>1, <2>2, SoundStays DEF Handle
<1>4. KeysAreHeard'
  BY <1>1, <1>3 DEF KeysAreHeard
<1>5. NewsIsTrue'
  BY <1>1, <1>3, NewsStays DEF Succeeds
<1>6. AllTold'
  <2> SUFFICES ASSUME pc' \in {"grace", "threads"}, NEW i \in Stages, stage'[i].handle = "live"
               PROVE  stage'[i].sent # None
    BY DEF AllTold
  <2>1. CASE pc' = pc
    <3>1. stage[i].handle = "live" /\ stage[i].sent <= stage'[i].sent
      BY <1>3 DEF Succeeds
    <3>2. stage[i].sent # None
      BY <1>1, <2>1, <3>1 DEF AllTold
    <3>3. stage[i].sent \in Nat /\ stage'[i].sent \in Nat
      BY <1>2, CauseFacts DEF Arrays, Handle
    <3> QED  BY <3>1, <3>2, <3>3 DEF None
  <2> QED  BY <2>1
<1>7. AllFiled' /\ Folded'
  BY DEF AllFiled, Folded
<1>8. Blank'
  BY <1>1 DEF Blank
<1>9. AllBorn'
  BY <1>1, <1>3 DEF AllBorn, Succeeds
<1>10. Brought'
  <2> SUFFICES ASSUME launched', pc' \notin {"unwinding", "dropped"}, teardown' = teardown
               PROVE  \/ teardown' = None
                      \/ teardown' <= scope'
                      \/ teardown' = Terminated /\ "anchor" \in Ops
                      \/ \E i \in Stages : stage'[i].handle = "filed" /\ TearsDownFor(stage'[i].end) = teardown'
    BY DEF Brought
  <2>1. \/ teardown = None
        \/ teardown <= scope
        \/ teardown = Terminated /\ "anchor" \in Ops
        \/ \E i \in Stages : stage[i].handle = "filed" /\ TearsDownFor(stage[i].end) = teardown
    BY <1>1 DEF Brought
  <2>2. CASE teardown <= scope
    BY <2>2, CauseFacts DEF IInv, TypeOK
  <2>3. CASE \E i \in Stages : stage[i].handle = "filed" /\ TearsDownFor(stage[i].end) = teardown
    BY <1>1, <1>3, <2>3, FiledStays
  <2> QED  BY <2>1, <2>2, <2>3
<1> QED  BY <1>3, <1>4, <1>5, <1>6, <1>7, <1>8, <1>9, <1>10 DEF Account, AllSound

\* A step of the stages or from outside, which moves neither the collector nor
\* a stage that is not live.
LEMMA ElsewhereKeeps ==
  ASSUME IInv, IInv', Account, AllSound', KeysAreHeard', TrueNews,
         pc' = pc, launched' = launched, teardown' = teardown, verdict' = verdict, scope' >= scope,
         \A i \in Stages : /\ stage'[i].handle = stage[i].handle
                           /\ stage'[i].sent = stage[i].sent
                           /\ stage[i].end.what \notin Unended \/ stage[i].handle # "live" => stage'[i].end = stage[i].end
  PROVE  Account'
<1>1. /\ AllSound /\ KeysAreHeard /\ NewsIsTrue /\ AllTold /\ AllFiled /\ AllBorn
      /\ Brought /\ Blank /\ Folded
  BY DEF Account
<1>2. scope \in Nat /\ scope' \in Nat /\ teardown \in Nat /\ \A i \in Stages : stage[i].sent \in Nat
  BY CauseFacts DEF IInv, TypeOK, Handle
<1>3. NewsIsTrue'
  BY <1>1, NewsStays
<1>4. AllTold' /\ AllFiled' /\ AllBorn' /\ Blank'
  BY <1>1 DEF AllTold, AllFiled, AllBorn, Blank
<1>5. Brought'
  BY <1>1, <1>2 DEF Brought
<1>6. Folded'
  <2> SUFFICES ASSUME launched, pc \in {"fold", "done"}
               PROVE  (Panicked /\ Halted /\ Failed /\ Exited /\ Stopped /\ Concluded)'
    BY DEF Folded
  <2>1. Panicked /\ Halted /\ Failed /\ Exited /\ Stopped /\ Concluded
    BY <1>1 DEF Folded
  <2>2. \A i \in Stages : stage'[i].handle = stage[i].handle /\ stage'[i].end = stage[i].end
    BY <1>1 DEF AllFiled
  <2>3. \A i \in Stages : Halt(i)' = Halt(i)
    BY <2>2 DEF Halt
  <2>4. ASSUME NEW i \in Stages, Outgrown(i)  PROVE Outgrown(i)'
    <3>1. Stronger(scope, stage[i].sent) <= Stronger(scope', stage'[i].sent)
      BY <1>2 DEF Stronger
    <3>2. Stronger(scope', stage'[i].sent) <= Aborted
      BY CauseFacts DEF IInv, TypeOK, Handle, Stronger, Aborted
    <3>3. Stronger(scope, stage[i].sent) \in Nat /\ Stronger(scope', stage'[i].sent) \in Nat
      BY <1>2 DEF Stronger
    <3> QED  BY <2>2, <2>4, <3>1, <3>2, <3>3 DEF Outgrown, Aborted, Interrupted
  <2>5. Panicked' /\ Halted' /\ Exited' /\ Concluded'
    BY <2>1, <2>2, <2>3 DEF Panicked, Halted, Exited, Concluded
  <2>6. Failed'
    BY <2>1, <2>2, <2>4 DEF Failed
  <2>7. Stopped'
    <3>1. verdict.held \in Nat
      BY DEF IInv, TypeOK
    <3> QED  BY <1>2, <2>1, <2>3, <3>1 DEF Stopped, StopRank
  <2> QED  BY <2>5, <2>6, <2>7
<1> QED  BY <1>3, <1>4, <1>5, <1>6 DEF Account

\* A step that posts nothing has no news; what is taken is none either, and
\* leaves the news of a key to come.
LEMMA SameNews ==
  ASSUME queue' = queue
  PROVE  TrueNews
BY DEF TrueNews

LEMMA TakesTrue ==
  ASSUME TypeOK, NEW what, Takes(what)
  PROVE  /\ TrueNews
         /\ what # "heard" /\ (\E n \in DOMAIN queue : queue[n].what = "heard")
              => \E n \in DOMAIN queue' : queue'[n].what = "heard"
<1>1. queue \in Seq(Events) /\ queue # <<>> /\ queue' = Tail(queue) /\ Head(queue).what = what
  BY DEF TypeOK, Takes
<1>2. \A n \in DOMAIN queue' : n + 1 \in DOMAIN queue /\ queue'[n] = queue[n + 1]
  BY <1>1
<1>3. ASSUME what # "heard", NEW n \in DOMAIN queue, queue[n].what = "heard"
      PROVE  \E m \in DOMAIN queue' : queue'[m].what = "heard"
  <2>1. n # 1 /\ n \in 1..Len(queue) /\ Len(queue) \in Nat
    BY <1>1, <1>3
  <2>2. n - 1 \in 1..Len(queue') /\ queue'[n - 1] = queue[n]
    BY <1>1, <2>1
  <2>3. n - 1 \in DOMAIN queue'
    BY <1>1, <2>2
  <2> QED  BY <1>3, <2>2, <2>3
<1> QED  BY <1>2, <1>3 DEF TrueNews

LEMMA PostTrue ==
  ASSUME TypeOK, NEW e, Post(e),
         e.what = "ended" => stage'[e.ix].end.what \notin Unended, e.what = "anchor" => "anchor" \in Ops
  PROVE  /\ TrueNews
         /\ (\E n \in DOMAIN queue : queue[n].what = "heard") \/ e.what = "heard"
              => \E n \in DOMAIN queue' : queue'[n].what = "heard"
<1>1. queue \in Seq(Events) /\ queue' = Append(queue, e)
  BY DEF TypeOK, Post
<1>2. \A n \in DOMAIN queue' : (n \in DOMAIN queue /\ queue'[n] = queue[n]) \/ queue'[n] = e
  BY <1>1
<1>3. \A n \in DOMAIN queue : n \in DOMAIN queue' /\ queue'[n] = queue[n]
  BY <1>1
<1>4. Len(queue) + 1 \in DOMAIN queue' /\ queue'[Len(queue) + 1] = e
  BY <1>1
<1>5. TrueNews
  BY <1>2 DEF TrueNews
<1> QED  BY <1>3, <1>4, <1>5

-----------------------------------------------------------------------------
(* The stages' own steps, and what comes from outside. *)

\* An external dies of what it was sent; a thread of nothing.
LEMMA EndsAccount ==
  ASSUME IInv, IInv', Account, NEW i \in Stages, NEW e \in Ending, Runs(i), Ends(i, e),
         e.what \notin Unended, External(i) => e.what \in {"ok", "err"} \cup Signals,
         e.what \in Signals => e.what \in stage[i].sigs
  PROVE  Account'
<1>1. stage \in [Stages -> Handle] /\ stage[i] \in Handle
  BY DEF IInv, TypeOK
<1>2. stage' = [stage EXCEPT ![i] = [stage[i] EXCEPT !.end = e]]
  BY <1>1 DEF Ends
<1>3. /\ \A j \in Stages : j # i => stage'[j] = stage[j]
      /\ stage'[i] = [stage[i] EXCEPT !.end = e]
  BY <1>1, <1>2
<1>4. /\ stage'[i].handle = stage[i].handle /\ stage'[i].kind = stage[i].kind /\ stage'[i].sent = stage[i].sent
      /\ stage'[i].sigs = stage[i].sigs /\ stage'[i].end = e
  BY <1>1, <1>3 DEF Handle
<1>5. stage[i].handle = "live" /\ stage[i].end.what \in Unended
  BY DEF Runs, Live, Running, End, Unended
<1>6. AllSound /\ KeysAreHeard
  BY DEF Account
<1>7. Sound(stage'[i])
  <2>1. Sound(stage[i])
    BY <1>6 DEF AllSound
  <2> QED  BY <1>4, <1>5, <2>1 DEF Sound, External
<1>8. AllSound'
  BY <1>3, <1>6, <1>7 DEF AllSound
<1>9. Event("ended", i).what = "ended" /\ Event("ended", i).ix = i
  BY DEF Event
<1>10. /\ TrueNews
       /\ (\E n \in DOMAIN queue : queue[n].what = "heard") => \E n \in DOMAIN queue' : queue'[n].what = "heard"
  <2>1. TypeOK /\ Post(Event("ended", i))
    BY DEF IInv, Ends
  <2>2. stage'[Event("ended", i).ix].end.what \notin Unended
    BY <1>4, <1>9
  <2> QED  BY <1>9, <2>1, <2>2, PostTrue
<1>11. KeysAreHeard'
  <2>1. \A j \in Stages : Keyed(stage'[j]) => Keyed(stage[j])
    BY <1>3, <1>4 DEF Keyed
  <2>2. Hears => Hears'
    BY <1>10 DEF Hears, Ends
  <2> QED  BY <1>6, <2>1, <2>2 DEF KeysAreHeard
<1>12. \A j \in Stages : /\ stage'[j].handle = stage[j].handle
                         /\ stage'[j].sent = stage[j].sent
                         /\ stage[j].end.what \notin Unended \/ stage[j].handle # "live" => stage'[j].end = stage[j].end
  BY <1>3, <1>4, <1>5
<1>13. /\ pc' = pc /\ launched' = launched /\ teardown' = teardown /\ verdict' = verdict /\ scope' >= scope
  BY CauseFacts DEF Ends, IInv, TypeOK
<1> QED  BY <1>8, <1>10, <1>11, <1>12, <1>13, ElsewhereKeeps

\* The ways in which it does.
LEMMA StagesAccount ==
  ASSUME IInv, IInv', Account, NEW i \in Stages, EndsOfItself(i) \/ Dies(i) \/ Polls(i) \/ WritesDead(i)
  PROVE  Account'
<1> DEFINE Proper(e) == /\ e \in Ending /\ e.what \notin Unended
                        /\ External(i) => e.what \in {"ok", "err"} \cup Signals
                        /\ e.what \in Signals => e.what \in stage[i].sigs
<1>1. CASE EndsOfItself(i)
  <2>1. \A what \in {"ok", "err", "exit", "panic"} :
          /\ Own(what) \in Ending /\ Own(what).what = what
          /\ what \notin Unended \cup Signals
    BY DEF Own, End, Ending, Cause, Unended, Signals
  <2>2. /\ End("stop", ReaderGone, "nobody") \in Ending /\ End("stop", ReaderGone, "nobody").what = "stop"
        /\ "stop" \notin Unended \cup Signals
    BY DEF End, Ending, Cause, Causes, ReaderGone, Aborted, Unended, Signals
  <2>3. CASE \E what \in IF External(i) THEN {"ok", "err"} ELSE {"ok", "err", "exit", "panic"} : Ends(i, Own(what))
    <3>1. PICK what \in {"ok", "err", "exit", "panic"} : Ends(i, Own(what)) /\ (External(i) => what \in {"ok", "err"})
      BY <2>3
    <3>2. Proper(Own(what))
      BY <2>1, <3>1
    <3> QED  BY <1>1, <3>1, <3>2, EndsAccount DEF EndsOfItself
  <2>4. CASE i = Length /\ Thread(i) /\ Ends(i, End("stop", ReaderGone, "nobody"))
    <3>1. Proper(End("stop", ReaderGone, "nobody"))
      BY <2>2, <2>4 DEF External, Thread
    <3> QED  BY <1>1, <2>4, <3>1, EndsAccount DEF EndsOfItself
  <2> QED  BY <1>1, <2>3, <2>4 DEF EndsOfItself
<1>2. CASE Dies(i)
  <2>1. PICK sig \in stage[i].sigs : Ends(i, Death(sig))
    BY <1>2 DEF Dies
  <2>2. sig \in Signals
    BY DEF IInv, TypeOK, Handle
  <2>3. Death(sig) \in Ending /\ Death(sig).what = sig
    BY <2>2 DEF Death, End, Ending, Cause
  <2>4. Proper(Death(sig))
    BY <2>2, <2>3 DEF Unended, Signals
  <2> QED  BY <1>2, <2>1, <2>4, EndsAccount DEF Dies
<1>3. CASE Polls(i)
  <2>1. scope \in Cause /\ stage[i].sent \in Cause
    BY DEF IInv, TypeOK, Handle
  <2>2. ~External(i)
    BY <1>3 DEF Polls, External, Thread
  <2>3. Proper(End("stop", scope, "above")) /\ Proper(End("stop", stage[i].sent, "stage"))
    BY <2>1, <2>2 DEF End, Ending, Unended, Signals
  <2>4. \E e : Proper(e) /\ Ends(i, e)
    <3>1. CASE scope >= stage[i].sent
      BY <1>3, <2>3, <3>1 DEF Polls
    <3>2. CASE ~(scope >= stage[i].sent)
      BY <1>3, <2>3, <3>2 DEF Polls
    <3> QED  BY <3>1, <3>2
  <2> QED  BY <1>3, <2>4, EndsAccount DEF Polls
<1>4. CASE WritesDead(i)
  <2>1. ~External(i)
    BY <1>4 DEF WritesDead, External, Thread
  <2>2. Proper(End("stop", ReaderGone, "stage"))
    BY <2>1 DEF End, Ending, Cause, Causes, ReaderGone, Aborted, Unended, Signals
  <2> QED  BY <1>4, <2>2, EndsAccount DEF WritesDead
<1> QED  BY <1>1, <1>2, <1>3, <1>4

\* Writes and their reports are no part of it.
LEMMA WritesAccount ==
  ASSUME IInv, IInv', Account, NEW i \in Stages, Writes(i) \/ Reports(i)
  PROVE  Account'
<1>1. stage \in [Stages -> Handle] /\ stage[i] \in Handle
  BY DEF IInv, TypeOK
<1>2. PICK w : stage' = [stage EXCEPT ![i] = [stage[i] EXCEPT !.wrote = w]]
  BY <1>1 DEF Writes, Reports
<1>3. \A j \in Stages : /\ stage'[j].handle = stage[j].handle /\ stage'[j].kind = stage[j].kind
                        /\ stage'[j].sent = stage[j].sent /\ stage'[j].sigs = stage[j].sigs
                        /\ stage'[j].end = stage[j].end
  BY <1>1, <1>2 DEF Handle
<1>4. AllSound /\ KeysAreHeard
  BY DEF Account
<1>5. AllSound'
  BY <1>3, <1>4 DEF AllSound, Sound
<1>6. /\ TrueNews
      /\ (\E n \in DOMAIN queue : queue[n].what = "heard") => \E n \in DOMAIN queue' : queue'[n].what = "heard"
  <2>1. CASE Writes(i)
    BY <2>1, SameNews DEF Writes
  <2>2. CASE Reports(i)
    <3>1. Event("wrote", i).what = "wrote" /\ Post(Event("wrote", i)) /\ TypeOK
      BY <2>2 DEF Reports, Event, IInv
    <3> QED  BY <3>1, PostTrue
  <2> QED  BY <2>1, <2>2
<1>7. KeysAreHeard'
  <2>1. \A j \in Stages : Keyed(stage'[j]) => Keyed(stage[j])
    BY <1>3 DEF Keyed
  <2>2. Hears => Hears'
    BY <1>6 DEF Hears, Writes, Reports
  <2> QED  BY <1>4, <2>1, <2>2 DEF KeysAreHeard
<1>8. pc' = pc /\ launched' = launched /\ teardown' = teardown /\ verdict' = verdict /\ scope' >= scope
  BY CauseFacts DEF Writes, Reports, IInv, TypeOK
<1> QED  BY <1>3, <1>5, <1>6, <1>7, <1>8, ElsewhereKeeps

\* A key's signal reaches the whole group, and its news the channel or the anchor.
LEMMA OutsideAccount ==
  ASSUME IInv, IInv', Account, Struck \/ Key \/ AnchorReports \/ AnchorDies \/ Gone
  PROVE  Account'
<1>1. stage \in Arrays
  BY DEF IInv, TypeOK, Arrays
<1>2. pc' = pc /\ launched' = launched /\ teardown' = teardown /\ verdict' = verdict /\ scope' >= scope
  BY CauseFacts DEF Struck, Key, AnchorReports, AnchorDies, Gone, vars, IInv, TypeOK
<1>3. AllSound /\ KeysAreHeard
  BY DEF Account
<1>4. CASE Key
  <2>1. stage' = Deliver(stage, "INT") /\ anchor' = "told" /\ queue' = queue /\ anchor = "up"
    BY <1>4 DEF Key
  <2>2. ASSUME NEW j \in Stages
        PROVE  /\ stage'[j].handle = stage[j].handle /\ stage'[j].kind = stage[j].kind
               /\ stage'[j].sent = stage[j].sent /\ stage'[j].end = stage[j].end
               /\ Sound(stage'[j])
    <3>1. stage[j] \in Handle /\ Sound(stage[j])
      BY <1>1, <1>3 DEF Arrays, AllSound
    <3>2. CASE External(j) /\ stage[j].handle = "live"
      <4>1. stage'[j] = [stage[j] EXCEPT !.sigs = stage[j].sigs \cup {"INT"}]
        BY <2>1, <3>2 DEF Deliver
      <4>2. /\ stage'[j].handle = stage[j].handle /\ stage'[j].kind = stage[j].kind
            /\ stage'[j].sent = stage[j].sent /\ stage'[j].end = stage[j].end
            /\ stage'[j].sigs = stage[j].sigs \cup {"INT"} /\ stage[j].kind = "external"
        BY <3>1, <3>2, <4>1 DEF Handle, External
      <4>3. Sound(stage'[j])
        BY <3>1, <4>2 DEF Sound
      <4> QED  BY <4>2, <4>3
    <3>3. CASE ~(External(j) /\ stage[j].handle = "live")
      BY <2>1, <3>1, <3>3 DEF Deliver
    <3> QED  BY <3>2, <3>3
  <2>3. AllSound'
    BY <2>2 DEF AllSound
  <2>4. TrueNews
    BY <2>1, SameNews
  <2>5. KeysAreHeard'
    <3>1. CASE pc \notin {"fold", "done"}
      BY <1>2, <2>1, <3>1 DEF KeysAreHeard, Hears
    <3>2. CASE pc \in {"fold", "done"}
      <4>1. \A j \in Stages : stage[j].handle # "live"
        BY <3>2 DEF Account, AllFiled
      <4>2. stage' = stage
        BY <1>1, <2>1, <4>1 DEF Deliver, Arrays
      <4>3. Hears => Hears'
        BY <1>2, <1>4, <3>2 DEF Hears, Key
      <4> QED  BY <1>3, <4>2, <4>3 DEF KeysAreHeard
    <3> QED  BY <3>1, <3>2
  <2> QED  BY <1>2, <2>2, <2>3, <2>4, <2>5, ElsewhereKeeps
<1>5. CASE ~Key
  <2>1. stage' = stage
    BY <1>5 DEF Struck, AnchorReports, AnchorDies, Gone, vars
  <2>2. AllSound'
    BY <1>3, <2>1 DEF AllSound
  <2>3. CASE queue' = queue /\ anchor' = anchor
    <3>1. Hears => Hears'
      <4>1. scope \in Nat /\ scope' \in Nat
        BY CauseFacts DEF IInv, TypeOK
      <4> QED  BY <1>2, <2>3, <4>1 DEF Hears, Interrupted
    <3>2. KeysAreHeard'
      BY <1>3, <2>1, <3>1 DEF KeysAreHeard
    <3> QED  BY <1>2, <2>1, <2>2, <2>3, <3>2, SameNews, ElsewhereKeeps
  <2>4. CASE AnchorReports \/ AnchorDies
    <3>1. PICK what \in {"heard", "anchor"} :
            /\ Post(Event(what, 0)) /\ scope' = scope
            /\ what = "anchor" => "anchor" \in Ops /\ anchor = "up"
      BY <2>4 DEF AnchorReports, AnchorDies
    <3>2. Event(what, 0).what = what
      BY DEF Event
    <3>3. /\ TrueNews
          /\ (\E n \in DOMAIN queue : queue[n].what = "heard") \/ what = "heard"
               => \E n \in DOMAIN queue' : queue'[n].what = "heard"
      BY <3>1, <3>2, PostTrue DEF IInv
    <3>4. Hears => Hears'
      BY <1>2, <3>1, <3>3 DEF Hears
    <3>5. KeysAreHeard'
      BY <1>3, <2>1, <3>4 DEF KeysAreHeard
    <3> QED  BY <1>2, <2>1, <2>2, <3>3, <3>5, ElsewhereKeeps
  <2> QED  BY <1>5, <2>3, <2>4 DEF Struck, Gone, vars
<1> QED  BY <1>4, <1>5

-----------------------------------------------------------------------------
(* The launch and the collector. *)

\* The account, as the steps of the collector use it.
LEMMA Accounts ==
  ASSUME IInv, Account
  PROVE  /\ AllSound /\ KeysAreHeard /\ NewsIsTrue /\ AllTold /\ AllFiled /\ AllBorn /\ Brought /\ Blank /\ Folded
         /\ stage \in Arrays /\ TypeOK /\ OurKinds(stage) /\ Follows(stage, stage)
         /\ scope \in Nat /\ teardown \in Nat
<1>1. \A i \in Stages : stage[i].sent <= stage[i].sent
  BY CauseFacts DEF IInv, TypeOK, Handle
<1> QED  BY <1>1, CauseFacts DEF Account, IInv, TypeOK, Arrays, OurKinds, Follows, Succeeds

\* A stage is born sound, and none is unborn once the last is.
LEMMA LaunchAccount ==
  ASSUME IInv, IInv', Account, NEW i \in Stages, Launch(i)
  PROVE  Account'
<1> DEFINE st == [stage EXCEPT ![i].handle = "live", ![i].end = Running]
<1>1. stage \in [Stages -> Handle] /\ stage[i] \in Handle
  BY DEF IInv, TypeOK
<1>2. Running \in Ending /\ Running.what = "running"
  BY DEF Running, End, Ending, Cause
<1>3. st = [stage EXCEPT ![i] = [stage[i] EXCEPT !.handle = "live", !.end = Running]]
  BY <1>1
<1>4. [stage[i] EXCEPT !.handle = "live", !.end = Running] \in Handle
  BY <1>1, <1>2 DEF Handle
<1>5. st \in Arrays
  BY <1>1, <1>3, <1>4 DEF Arrays
<1>6. /\ \A j \in Stages : j # i => st[j] = stage[j]
      /\ st[i].handle = "live" /\ st[i].end.what = "running" /\ st[i].kind = stage[i].kind
      /\ st[i].sent = stage[i].sent /\ st[i].sigs = stage[i].sigs
  BY <1>1, <1>2, <1>3 DEF Handle
<1>7. stage' = st \/ stage' = Swept(st, teardown)
  BY DEF Launch
<1> HIDE DEF st
<1>8. Follows(st, stage') /\ stage' \in Arrays /\ \A j \in Stages : stage'[j].handle = st[j].handle
  <2>1. \A j \in Stages : st[j].sent <= st[j].sent
    BY <1>5, CauseFacts DEF Arrays, Handle
  <2>2. Follows(st, st)
    BY <2>1 DEF Follows, Succeeds
  <2> QED  BY <1>5, <1>7, <2>2, SweptFollows
<1>9. /\ pc = "launch" /\ pc' \in {"launch", "drive"} /\ (pc' = "drive" => i = Length) /\ queue' = queue /\ scope' = scope
      /\ teardown' = teardown /\ teardown = None /\ launched' = launched /\ verdict' = verdict /\ anchor' = anchor
      /\ stage[i].handle = "unborn" /\ InOrder /\ (i > 1 => stage[i - 1].handle # "unborn")
  BY DEF Launch, IInv, Rest, Early
<1>10. /\ AllSound /\ KeysAreHeard /\ NewsIsTrue /\ Blank
  BY DEF Account
<1>11. stage[i].end.what = "none"
  BY <1>9, <1>10 DEF AllSound, Sound
<1>12. ASSUME NEW j \in Stages
       PROVE  Sound(st[j]) /\ (Keyed(st[j]) => Keyed(stage[j]))
  <2>1. Sound(stage[j])
    BY <1>10 DEF AllSound
  <2>2. CASE j = i
    BY <1>6, <1>11, <2>1, <2>2 DEF Sound, Keyed, Unended, Signals
  <2> QED  BY <1>6, <2>1, <2>2
<1>13. \A j \in Stages : Sound(stage'[j]) /\ (Keyed(stage'[j]) => Keyed(stage[j]))
  BY <1>5, <1>8, <1>12, SoundStays DEF Follows, Arrays
<1>14. KeysAreHeard'
  <2>1. Hears => Hears'
    BY <1>9 DEF Hears
  <2> QED  BY <1>10, <1>13, <2>1 DEF KeysAreHeard
<1>15. NewsIsTrue'
  <2>1. \A j \in Stages : stage[j].end.what \notin Unended => stage'[j].end = stage[j].end
    BY <1>6, <1>8, <1>11 DEF Follows, Succeeds, Unended
  <2> QED  BY <1>9, <1>10, <2>1, SameNews, NewsStays
<1>16. AllBorn'
  <2>1. \A j \in Stages : j < i => stage[j].handle # "unborn"
    <3> SUFFICES ASSUME NEW j \in Stages, j < i  PROVE stage[j].handle # "unborn"
      OBVIOUS
    <3>1. i > 1 /\ i - 1 \in Stages /\ (j = i - 1 \/ j < i - 1)
      BY StagesFacts
    <3> QED  BY <1>9, <3>1 DEF InOrder
  <2>2. i = Length => \A j \in Stages : j = i \/ j < i
    BY StagesFacts
  <2> QED  BY <1>6, <1>8, <1>9, <2>1, <2>2 DEF AllBorn
<1>17. AllTold' /\ AllFiled' /\ Blank' /\ Folded' /\ Brought'
  BY <1>9, <1>10 DEF AllTold, AllFiled, Blank, Folded, Brought
<1> QED  BY <1>13, <1>14, <1>15, <1>16, <1>17 DEF Account, AllSound

\* A launch that failed has no verdict of its own.
LEMMA LaunchFailsAccount ==
  ASSUME IInv, IInv', Account, LaunchFails
  PROVE  Account'
<1>1. pc = "launch" /\ launched' = FALSE /\ queue' = queue /\ scope' = scope /\ verdict' = verdict
  BY DEF LaunchFails
<1>2. /\ Follows(stage, stage') /\ (anchor = "told" => anchor' = "told") /\ pc' \in Waiting
      /\ pc' # "drive" => \A i \in Stages : stage'[i].handle = "live" => stage'[i].sent # None
  <2>1. CASE AnyLive
    <3>1. PICK c \in Cause : c # None /\ TearDown(stage, c)
      <4>1. scope \in Cause /\ Cancelled \in Cause /\ Cancelled # None
        BY CauseFacts DEF IInv, TypeOK, Cancelled, None
      <4> QED  BY <2>1, <4>1 DEF LaunchFails
    <3>2. pc' \in Waiting
      BY <3>1, Accounts, TearDownFacts
    <3> QED  BY <3>1, <3>2, Accounts, TearDownFollows
  <2>2. CASE ~AnyLive
    BY <2>2, Accounts DEF LaunchFails, Waiting
  <2> QED  BY <2>1, <2>2
<1>3. Hears => Hears'
  BY <1>1, <1>2 DEF Hears, Waiting
<1> QED  BY <1>1, <1>2, <1>3, SameNews, WorkKeeps DEF Waiting

\* A step of the collector that pursues what the scope, an ending or the anchor
\* brought, from handles that follow on from what they were.
LEMMA PursueAccount ==
  ASSUME IInv, IInv', Account, NEW a \in Arrays, Follows(stage, a), NEW c \in Cause, Pursue(a, c),
         pc \in Waiting, TrueNews, scope' = scope, verdict' = verdict, launched' = launched,
         (\E n \in DOMAIN queue : queue[n].what = "heard") => \E n \in DOMAIN queue' : queue'[n].what = "heard",
         \/ c <= scope
         \/ c = Terminated /\ "anchor" \in Ops
         \/ \E i \in Stages : a[i].handle = "filed" /\ TearsDownFor(a[i].end) = c
  PROVE  Account'
<1>1. OurKinds(a) /\ TypeOK /\ scope \in Nat /\ scope' \in Nat
  BY Accounts DEF OurKinds, Follows, Succeeds
<1>2. /\ Follows(a, stage')
      /\ pc' = pc \/ (\A i \in Stages : stage'[i].handle = "live" => stage'[i].sent # None)
      /\ anchor = "told" => anchor' = "told"
      /\ teardown' = teardown \/ teardown' = c
  BY <1>1, PursueFollows
<1>3. pc' \in Waiting /\ stage' \in Arrays
  BY <1>1, PursueFacts
<1>4. Follows(stage, stage')
  BY <1>2, <1>3, Accounts, FollowsOn
<1>5. Hears => Hears'
  BY <1>2, <1>3 DEF Hears, Waiting
<1>6. \/ teardown' = teardown
      \/ teardown' <= scope'
      \/ teardown' = Terminated /\ "anchor" \in Ops
      \/ \E i \in Stages : stage'[i].handle = "filed" /\ TearsDownFor(stage'[i].end) = teardown'
  <2>1. CASE \E i \in Stages : a[i].handle = "filed" /\ TearsDownFor(a[i].end) = c
    BY <1>2, <2>1 DEF Follows, Succeeds
  <2> QED  BY <1>2, <2>1
<1>7. /\ pc \notin {"fold", "done"} /\ pc' \notin {"fold", "done"} /\ pc' # "launch" /\ scope' >= scope
      /\ pc \notin {"launch", "unwinding", "dropped"}
  BY <1>1, <1>3 DEF Waiting
<1> QED  BY <1>2, <1>4, <1>5, <1>6, <1>7, WorkKeeps

LEMMA NoticesAccount ==
  ASSUME IInv, IInv', Account, Notices
  PROVE  Account'
<1>1. scope \in Cause /\ scope <= scope /\ pc \in Waiting
  BY CauseFacts DEF IInv, TypeOK, Notices, Waits, Waiting
<1> QED  BY <1>1, Accounts, SameNews, PursueAccount DEF Notices

LEMMA AnchorDiedAccount ==
  ASSUME IInv, IInv', Account, AnchorDied
  PROVE  Account'
<1>1. /\ TrueNews /\ pc \in Waiting /\ Head(queue) = queue[1] /\ 1 \in DOMAIN queue /\ Head(queue).what = "anchor"
      /\ (\E n \in DOMAIN queue : queue[n].what = "heard") => \E n \in DOMAIN queue' : queue'[n].what = "heard"
  BY Accounts, TakesFacts, TakesTrue DEF AnchorDied
<1>2. "anchor" \in Ops
  BY <1>1, Accounts DEF NewsIsTrue
<1>3. PICK c \in Cause : Pursue(stage, c) /\ (c = None \/ c = Terminated)
  BY CauseFacts DEF AnchorDied, Terminated, None
<1>4. c <= scope \/ c = Terminated
  BY <1>3, Accounts DEF None
<1> QED  BY <1>1, <1>2, <1>3, <1>4, Accounts, PursueAccount DEF AnchorDied

LEMMA FilesAccount ==
  ASSUME IInv, IInv', Account, Files
  PROVE  Account'
<1> DEFINE i == Head(queue).ix
           st == [stage EXCEPT ![i].handle = "filed"]
           c == TearsDownFor(stage[i].end)
<1>1. /\ TrueNews /\ pc \in Waiting /\ Head(queue) = queue[1] /\ 1 \in DOMAIN queue /\ Head(queue).what = "ended"
      /\ Head(queue) \in Events
      /\ (\E n \in DOMAIN queue : queue[n].what = "heard") => \E n \in DOMAIN queue' : queue'[n].what = "heard"
  BY Accounts, TakesFacts, TakesTrue DEF Files
<1>2. i \in Stages /\ stage[i].end.what \notin Unended
  BY <1>1, Accounts DEF Events, NewsIsTrue
<1>3. Pursue(st, c)
  BY DEF Files
<1> HIDE DEF i
<1>4. stage \in [Stages -> Handle] /\ stage[i] \in Handle
  BY <1>2 DEF IInv, TypeOK
<1>5. c \in Cause
  BY <1>4, TearsDownForFacts DEF Handle
<1>6. st = [stage EXCEPT ![i] = [stage[i] EXCEPT !.handle = "filed"]]
  BY <1>2, <1>4
<1>7. st \in Arrays
  BY <1>2, <1>4, <1>6 DEF Arrays, Handle
<1>8. \A j \in Stages : /\ st[j].handle = IF j = i THEN "filed" ELSE stage[j].handle
                        /\ st[j].kind = stage[j].kind /\ st[j].end = stage[j].end
                        /\ st[j].sent = stage[j].sent /\ st[j].sigs = stage[j].sigs
  BY <1>2, <1>4, <1>6 DEF Handle
<1>9. c = TearsDownFor(st[i].end) /\ st[i].handle = "filed"
  BY <1>2, <1>8
<1> HIDE DEF st, c
<1>10. Follows(stage, st)
  <2>1. \A j \in Stages : stage[j].sent <= st[j].sent
    BY <1>4, <1>8, CauseFacts DEF Handle
  <2> QED  BY <1>2, <1>8, <2>1 DEF Follows, Succeeds
<1> QED  BY <1>1, <1>2, <1>3, <1>5, <1>7, <1>9, <1>10, PursueAccount DEF Files

\* A cut is backed by the reader's absence.
LEMMA HearsWriteAccount ==
  ASSUME IInv, IInv', Account, HearsWrite
  PROVE  Account'
<1> DEFINE i == Head(queue).ix
           st == IF pc = "drive" /\ Live(i) THEN Cut(i) ELSE stage
<1>1. /\ TrueNews /\ pc \in Waiting /\ Head(queue) \in Events /\ Head(queue).what = "wrote"
      /\ (\E n \in DOMAIN queue : queue[n].what = "heard") => \E n \in DOMAIN queue' : queue'[n].what = "heard"
  BY Accounts, TakesFacts, TakesTrue DEF HearsWrite
<1>2. i \in Stages
  BY <1>1 DEF Events
<1>3. stage' = Swept(st, teardown)
  BY DEF HearsWrite
<1> HIDE DEF i
<1>4. stage \in [Stages -> Handle] /\ stage[i] \in Handle
  BY <1>2 DEF IInv, TypeOK
<1>5. st \in Arrays /\ Follows(stage, st)
  <2>1. CASE st = stage
    BY <2>1, Accounts
  <2>2. CASE st = Cut(i)
    <3> DEFINE s == Sent(stage[i], ReaderGone)
               cut == IF External(i) THEN [s EXCEPT !.sigs = s.sigs \cup {"KILL"}] ELSE s
    <3>1. st = [stage EXCEPT ![i] = cut]
      BY <2>2 DEF Cut
    <3>2. ReaderGone \in Cause /\ stage[i].sent \in Cause
      BY <1>4, CauseFacts DEF ReaderGone, Handle
    <3>3. Sent(stage[i], ReaderGone) = [stage[i] EXCEPT !.sent = Stronger(stage[i].sent, ReaderGone)]
      BY DEF Sent
    <3>4. /\ Stronger(stage[i].sent, ReaderGone) \in Cause
          /\ Stronger(stage[i].sent, ReaderGone) >= stage[i].sent
          /\ Stronger(stage[i].sent, ReaderGone) # None
      BY <3>2, CauseFacts DEF Stronger, ReaderGone, None
    <3>5. s \in Handle
      BY <1>4, <3>3, <3>4 DEF Handle
    <3>6. /\ s.kind = stage[i].kind /\ s.handle = stage[i].handle /\ s.end = stage[i].end
          /\ s.sigs = stage[i].sigs /\ s.sent >= stage[i].sent /\ s.sent # None
      BY <1>4, <3>3, <3>4 DEF Handle
    <3> HIDE DEF s
    <3>7. /\ cut \in Handle /\ cut.kind = s.kind /\ cut.handle = s.handle /\ cut.end = s.end /\ cut.sent = s.sent
          /\ cut.sigs = s.sigs \/ (stage[i].kind = "external" /\ cut.sigs = s.sigs \cup {"KILL"})
      BY <3>5 DEF Handle, Signals, External
    <3> HIDE DEF cut
    <3>8. st \in Arrays
      BY <1>2, <1>4, <3>1, <3>7 DEF Arrays
    <3>9. Succeeds(stage[i], cut)
      <4>1. stage[i].sent <= cut.sent /\ stage[i].sigs \subseteq cut.sigs
        BY <3>2, <3>5, <3>6, <3>7, CauseFacts DEF Handle
      <4>2. \A sig \in cut.sigs : sig \in stage[i].sigs \/ (stage[i].kind = "external" /\ sig = "KILL")
        BY <3>6, <3>7
      <4>3. Backs(cut.sent, "KILL")
        BY <3>6, <3>7 DEF Backs
      <4> QED  BY <3>6, <3>7, <4>1, <4>2, <4>3 DEF Succeeds
    <3>10. \A j \in Stages : Succeeds(stage[j], stage[j])
      BY Accounts DEF Follows
    <3> QED  BY <1>2, <1>4, <3>1, <3>8, <3>9, <3>10 DEF Follows
  <2> QED  BY <2>1, <2>2
<1> HIDE DEF st
<1>6. Follows(stage, stage')
  BY <1>3, <1>5, Accounts, SweptFollows, FollowsOn
<1>7. /\ pc' = pc /\ scope' = scope /\ teardown' = teardown /\ launched' = launched /\ verdict' = verdict
      /\ anchor' = anchor /\ scope' >= scope
  BY Accounts DEF HearsWrite
<1>8. Hears => Hears'
  BY <1>1, <1>7 DEF Hears
<1> QED  BY <1>1, <1>6, <1>7, <1>8, WorkKeeps DEF Waiting

\* A key that is heard is on the scope.
LEMMA HeardAccount ==
  ASSUME IInv, IInv', Account, Heard
  PROVE  Account'
<1>1. TrueNews /\ pc \in Waiting
  BY Accounts, TakesFacts, TakesTrue DEF Heard
<1>2. Follows(stage, stage')
  BY Accounts, SweptFollows DEF Heard
<1>3. /\ pc' = pc /\ teardown' = teardown /\ launched' = launched /\ verdict' = verdict
      /\ scope' >= scope /\ scope' >= Interrupted
  BY Accounts DEF Heard, Stronger, Interrupted
<1>4. Hears'
  BY <1>3 DEF Hears
<1> QED  BY <1>1, <1>2, <1>3, <1>4, WorkKeeps DEF Waiting

\* Whom a wait that is over kills was told of the teardown.
LEMMA WaitsOverAccount ==
  ASSUME IInv, IInv', Account, GraceOver \/ ThreadsOver
  PROVE  Account'
<1>1. /\ pc \in {"grace", "threads"} /\ pc' \in {"threads", "drain"} /\ (pc' = "threads" => pc = "grace")
      /\ UNCHANGED <<scope, queue, teardown, pressed, anchor, launched, verdict>>
      /\ stage' = stage \/ stage' = KillLive(stage)
  BY DEF GraceOver, ThreadsOver
<1>2. \A i \in Stages : stage[i].handle = "live" => stage[i].sent # None
  BY <1>1, Accounts DEF AllTold
<1>3. Follows(stage, stage')
  BY <1>1, <1>2, Accounts, KillFollows
<1>4. Hears => Hears'
  BY <1>1 DEF Hears
<1>5. scope' >= scope
  BY <1>1, Accounts
<1>6. pc' = "threads" => \A i \in Stages : stage'[i].handle = "live" => stage'[i].sent # None
  BY <1>1, <1>2 DEF GraceOver, ThreadsOver
<1> QED  BY <1>1, <1>3, <1>4, <1>5, <1>6, SameNews, WorkKeeps

\* An unwind kills whom it strikes, and concludes nothing.
LEMMA UnwindsAccount ==
  ASSUME IInv, IInv', Account, Unwinds \/ Dropped
  PROVE  Account'
<1>1. Follows(stage, stage')
  <2>1. CASE Unwinds
    <3> DEFINE told == StruckAll(stage, Terminated)
    <3>1. Terminated \in Cause /\ Terminated \in Nat /\ Terminated # None
      BY CauseFacts DEF Terminated, None
    <3>2. /\ Follows(stage, told) /\ told \in Arrays /\ OurKinds(told)
          /\ \A i \in Stages : told[i].handle = "live" => told[i].sent >= Terminated
      BY <3>1, Accounts, StruckFollows DEF OurKinds
    <3>3. \A i \in Stages : told[i].handle = "live" => told[i].sent # None
      BY <3>2 DEF Terminated, None
    <3>4. stage' = KillLive(told)
      BY <2>1 DEF Unwinds
    <3> HIDE DEF told
    <3>5. Follows(told, stage') /\ stage' \in Arrays
      BY <3>2, <3>3, <3>4, KillFollows
    <3> QED  BY <3>2, <3>5, Accounts, FollowsOn
  <2>2. CASE Dropped
    BY <2>2, Accounts DEF Dropped
  <2> QED  BY <2>1, <2>2
<1>2. /\ pc \notin {"fold", "done", "dropped"} /\ pc' \in {"unwinding", "dropped"} /\ queue' = queue /\ verdict' = verdict
      /\ scope' = scope /\ (pc' = "unwinding" => anchor' = anchor)
  BY DEF Unwinds, Dropped
<1>3. Hears => Hears'
  BY <1>2 DEF Hears
<1> QED  BY <1>1, <1>2, <1>3, SameNews, WorkKeeps

\* With every stage filed, the join hears what the anchor had still to say.
LEMMA JoinsAccount ==
  ASSUME IInv, IInv', Account, Joins
  PROVE  Account'
<1>1. /\ pc \in {"drive", "drain"} /\ ~AnyLive /\ pc' = "fold" /\ stage' = stage /\ queue' = <<>>
      /\ teardown' = teardown /\ launched' = launched /\ verdict' = verdict
  BY DEF Joins
<1>2. scope' >= scope /\ (Hears => scope' >= Interrupted) /\ scope' \in Nat
  <2>1. CASE anchor = "told" \/ \E n \in DOMAIN queue : queue[n].what = "heard"
    BY <2>1, Accounts DEF Joins, Stronger, Interrupted
  <2>2. CASE ~(anchor = "told" \/ \E n \in DOMAIN queue : queue[n].what = "heard")
    <3>1. scope' = scope
      BY <2>2 DEF Joins
    <3> QED  BY <1>1, <2>2, <3>1, Accounts DEF Hears
  <2> QED  BY <2>1, <2>2
<1>3. AllSound' /\ KeysAreHeard' /\ NewsIsTrue'
  BY <1>1, <1>2, Accounts DEF AllSound, KeysAreHeard, Hears, NewsIsTrue
<1>4. AllTold' /\ AllFiled' /\ AllBorn'
  BY <1>1, Accounts DEF AllTold, AllFiled, AllBorn, AnyLive, Live
<1>5. Brought'
  BY <1>1, <1>2, Accounts DEF Brought
<1>6. Blank' /\ verdict' = [at |-> 1, panic |-> FALSE, held |-> 0]
  BY <1>1, Accounts DEF Blank
<1>7. Folded'
  <2>1. \A i \in Stages : ~(i < verdict'.at)
    BY <1>6, StagesFacts
  <2>2. Panicked' /\ Halted'
    BY <1>6, <2>1 DEF Panicked, Halted
  <2>3. Failed' /\ Exited' /\ Stopped' /\ Concluded'
    BY <1>1, <1>6 DEF Failed, Exited, Stopped, Concluded, FailureRank, ExitRank, StopRank, None
  <2> QED  BY <2>2, <2>3 DEF Folded
<1> QED  BY <1>3, <1>4, <1>5, <1>6, <1>7 DEF Account

-----------------------------------------------------------------------------
(* The fold. *)

\* What an external is folded to: a failure of its own, or by a signal that no
\* cause in force sends any more; else nothing, or the stop of the scope.
LEMMA ExternalFolds ==
  ASSUME IInv, Account, pc = "fold", NEW i \in Stages, External(i), stage[i].handle = "filed"
  PROVE  LET br == ExternalBreak(stage[i])
         IN  /\ br \in Nat /\ br >= Halt(i)
             /\ br = FailureRank => stage[i].end.what = "err" \/ Outgrown(i)
             /\ br # ExitRank
             /\ br > StopRank(None) => br <= StopRank(scope)
<1> DEFINE s == stage[i]
           cause == Stronger(s.sent, IF scope = ReaderGone THEN None ELSE scope)
           br == ExternalBreak(s)
<1>1. s \in Handle /\ Sound(s) /\ s.kind = "external"
  BY Accounts DEF Arrays, AllSound, External
<1>2. s.end.what \in {"ok", "err"} \cup Signals /\ s.sent \in 0..6 /\ scope \in 0..6
  BY <1>1, CauseFacts DEF Sound, Unended, IInv, TypeOK, Handle
<1>3. CASE s.end.what = "ok"
  <2>1. br = 0
    BY <1>3 DEF ExternalBreak
  <2>2. Halt(i) = 0
    BY <1>3 DEF Halt, ThreadBreak, Signals
  <2> QED  BY <2>1, <2>2 DEF FailureRank, ExitRank, StopRank, None
<1>4. CASE s.end.what = "err"
  <2>1. br = FailureRank
    BY <1>4 DEF ExternalBreak
  <2>2. Halt(i) = FailureRank
    BY <1>4 DEF Halt, ThreadBreak, Signals
  <2> QED  BY <1>4, <2>1, <2>2 DEF FailureRank, ExitRank, StopRank, None
<1>5. CASE s.end.what \in Signals
  <2>1. Halt(i) = 0
    BY <1>5 DEF Halt
  <2>2. br = IF cause = None \/ s.end.what \notin SignalsOf(cause) THEN FailureRank
             ELSE IF s.sent = cause THEN 0 ELSE StopRank(scope)
    BY <1>5 DEF ExternalBreak, Signals
  <2>3. cause \in 0..6 /\ cause >= s.sent /\ cause \in {s.sent, scope, None}
    BY <1>2 DEF Stronger, None
  <2>4. CASE cause = None \/ s.end.what \notin SignalsOf(cause)
    <3>1. br = FailureRank
      BY <2>2, <2>4
    <3>2. s.end.what \in s.sigs
      BY <1>1, <1>5 DEF Sound
    <3>3. CASE s.end.what = "KILL"
      <4>1. s.sent # None
        BY <1>1, <3>2, <3>3 DEF Sound, Backs
      <4>2. cause # None
        BY <1>2, <2>3, <4>1 DEF None
      <4> QED  BY <2>4, <3>3, <4>2 DEF SignalsOf
    <3>4. CASE s.end.what = "TERM"
      <4>1. s.sent >= Cancelled
        BY <1>1, <3>2, <3>4 DEF Sound, Backs
      <4>2. cause \in {Cancelled, TimedOut, Terminated, Aborted} /\ cause # None
        BY <1>2, <2>3, <4>1 DEF Cancelled, TimedOut, Terminated, Aborted, None
      <4>3. cause \in {Cancelled, TimedOut, Terminated} => GraceSignal(cause) = "TERM"
        BY DEF GraceSignal, Cancelled, TimedOut, Terminated, Interrupted
      <4>4. cause = Aborted
        BY <2>4, <3>4, <4>2, <4>3 DEF SignalsOf
      <4>5. Stronger(scope, s.sent) = Aborted
        BY <1>2, <4>4 DEF Stronger, Aborted, None
      <4> QED  BY <2>1, <3>1, <3>4, <4>5 DEF Outgrown, FailureRank, ExitRank, StopRank, None
    <3>5. CASE s.end.what = "INT"
      <4>1. s.sent >= Interrupted \/ scope >= Interrupted
        <5>1. Keyed(s) \/ Backs(s.sent, "INT")
          BY <3>2, <3>5 DEF Keyed
        <5>2. CASE Keyed(s)
          BY <5>2, Accounts DEF KeysAreHeard, Hears
        <5>3. CASE Backs(s.sent, "INT")
          BY <5>3 DEF Backs
        <5> QED  BY <5>1, <5>2, <5>3
      <4>2. cause >= Interrupted /\ cause <= Stronger(scope, s.sent)
        BY <1>2, <4>1 DEF Stronger, Interrupted, ReaderGone, None
      <4>3. cause # Interrupted
        <5>1. GraceSignal(Interrupted) = "INT" /\ Interrupted # None
          BY DEF GraceSignal, Interrupted, Cancelled, TimedOut, Terminated, None
        <5> QED  BY <2>4, <3>5, <5>1 DEF SignalsOf
      <4>4. Stronger(scope, s.sent) > Interrupted
        BY <1>2, <2>3, <4>2, <4>3 DEF Interrupted, Stronger
      <4> QED  BY <2>1, <3>1, <3>5, <4>4 DEF Outgrown, FailureRank, ExitRank, StopRank, None
    <3> QED  BY <1>5, <3>3, <3>4, <3>5 DEF Signals
  <2>5. CASE ~(cause = None \/ s.end.what \notin SignalsOf(cause))
    <3>1. br = 0 \/ br = StopRank(scope)
      BY <2>2, <2>5
    <3> HIDE DEF br
    <3>2. /\ br \in Nat /\ br >= 0 /\ br # FailureRank /\ br # ExitRank
          /\ br > StopRank(None) => br <= StopRank(scope)
      BY <1>2, <3>1 DEF FailureRank, ExitRank, StopRank, None
    <3> QED  BY <2>1, <3>2 DEF br
  <2> QED  BY <2>4, <2>5
<1> QED  BY <1>2, <1>3, <1>4, <1>5

\* A thread is folded to its halt.
LEMMA ThreadFolds ==
  ASSUME IInv, Account, NEW i \in Stages, ~External(i), stage[i].handle = "filed"
  PROVE  LET br == ThreadBreak(stage[i].end)
         IN  /\ br \in Nat /\ br = Halt(i)
             /\ br = FailureRank => stage[i].end.what = "err"
<1>1. stage[i] \in Handle /\ Sound(stage[i]) /\ stage[i].kind = "thread"
  BY Accounts, PipelineAssumption DEF Arrays, AllSound, External, Handle
<1>2. stage[i].end.what \notin Signals
  BY <1>1 DEF Sound
<1>3. stage[i].end.cause \in Nat
  BY <1>1, CauseFacts DEF Handle, Ending
<1>4. ThreadBreak(stage[i].end) = FailureRank => stage[i].end.what = "err"
  BY <1>3 DEF ThreadBreak, FailureRank, ExitRank, StopRank
<1> QED  BY <1>1, <1>2, <1>4, BreakFacts DEF Halt

\* Each stage folded adds what it earned.
LEMMA FoldsAccount ==
  ASSUME IInv, IInv', Account, Folds
  PROVE  Account'
<1> DEFINE i == verdict.at
           s == stage[i]
           br == IF s.handle = "unborn" THEN 0 ELSE IF External(i) THEN ExternalBreak(s) ELSE ThreadBreak(s.end)
<1>1. /\ pc = "fold" /\ pc' = pc
      /\ UNCHANGED <<stage, scope, queue, teardown, pressed, anchor, launched>>
      /\ verdict' = [at |-> i + 1, panic |-> verdict.panic \/ s.end.what = "panic", held |-> Stronger(verdict.held, br)]
  BY DEF Folds
<1>2. verdict.at \in Nat /\ verdict.at \in Stages /\ verdict.held \in Nat
  BY DEF IInv, TypeOK, Folds, Stages
<1>3. AllSound' /\ KeysAreHeard' /\ NewsIsTrue' /\ AllTold' /\ AllFiled' /\ AllBorn' /\ Brought' /\ Blank'
  <2>1. AllSound' /\ NewsIsTrue'
    BY <1>1, Accounts DEF AllSound, NewsIsTrue
  <2>2. Hears' <=> Hears
    BY <1>1 DEF Hears
  <2>3. KeysAreHeard'
    BY <1>1, <2>2, Accounts DEF KeysAreHeard
  <2>4. AllTold' /\ AllFiled' /\ AllBorn' /\ Brought' /\ Blank'
    BY <1>1, Accounts DEF AllTold, AllFiled, AllBorn, Brought, Blank
  <2> QED  BY <2>1, <2>3, <2>4
<1>4. Folded'
  <2> SUFFICES ASSUME launched  PROVE (Panicked /\ Halted /\ Failed /\ Exited /\ Stopped /\ Concluded)'
    BY <1>1 DEF Folded
  <2>1. Panicked /\ Halted /\ Failed /\ Exited /\ Stopped
    BY <1>1, Accounts DEF Folded
  <2>2. s.handle = "filed"
    BY <1>1, <1>2, Accounts DEF AllBorn, AllFiled, Arrays, Handle
  <2>3. /\ br \in Nat /\ br >= Halt(i)
        /\ br = FailureRank => s.end.what = "err" \/ Outgrown(i)
        /\ br = ExitRank => Halt(i) = ExitRank
        /\ br > StopRank(None) => br = Halt(i) \/ br <= StopRank(scope)
    <3>1. CASE External(i)
      <4>1. br = ExternalBreak(s)
        BY <2>2, <3>1
      <4> HIDE DEF br
      <4> QED  BY <1>1, <1>2, <2>2, <3>1, <4>1, ExternalFolds
    <3>2. CASE ~External(i)
      <4>1. br = ThreadBreak(s.end)
        BY <2>2, <3>2
      <4> HIDE DEF br
      <4> QED  BY <1>2, <2>2, <3>2, <4>1, ThreadFolds
    <3> QED  BY <3>1, <3>2
  <2>4. /\ verdict'.at = i + 1 /\ verdict'.held = Stronger(verdict.held, br)
        /\ verdict'.panic = (verdict.panic \/ s.end.what = "panic")
    BY <1>1
  <2>5. /\ verdict'.held \in Nat /\ verdict'.held >= verdict.held /\ verdict'.held >= br
        /\ verdict'.held = verdict.held \/ verdict'.held = br
    BY <1>2, <2>3, <2>4 DEF Stronger
  <2>6. \A j \in Stages : j < i + 1 <=> (j < i \/ j = i)
    BY <1>2, StagesFacts
  <2> HIDE DEF br, i
  <2>7. \A j \in Stages : Halt(j)' = Halt(j) /\ (Outgrown(j)' <=> Outgrown(j))
    BY <1>1 DEF Halt, Outgrown
  <2>8. Panicked'
    <3>1. i \in Stages
      BY <1>2 DEF i
    <3>2. verdict.panic <=> (\E j \in Stages : j < i /\ stage[j].end.what = "panic")
      BY <2>1 DEF Panicked, i
    <3>3. verdict'.panic <=> (verdict.panic \/ stage[i].end.what = "panic")
      BY <2>4
    <3>4. verdict'.panic <=> (\E j \in Stages : j < i + 1 /\ stage[j].end.what = "panic")
      BY <2>6, <3>1, <3>2, <3>3
    <3> QED  BY <1>1, <2>4, <3>4 DEF Panicked
  <2>9. Halted'
    <3> SUFFICES ASSUME NEW j \in Stages, j < i + 1  PROVE verdict'.held >= Halt(j)
      BY <2>4, <2>7 DEF Halted
    <3>1. Halt(j) \in Nat
      BY Accounts, BreakFacts DEF Halt
    <3>2. CASE j < i
      <4>1. verdict.held >= Halt(j)
        BY <2>1, <3>2 DEF Halted, i
      <4> QED  BY <1>2, <2>5, <3>1, <4>1
    <3>3. CASE j = i
      BY <2>3, <2>5, <3>1, <3>3
    <3> QED  BY <2>6, <3>2, <3>3
  <2>10. Failed'
    BY <1>1, <1>2, <2>1, <2>3, <2>5, <2>7 DEF Failed, i
  <2>11. Exited'
    BY <1>1, <1>2, <2>1, <2>3, <2>5, <2>7 DEF Exited, i
  <2>12. Stopped'
    BY <1>1, <1>2, <2>1, <2>3, <2>5, <2>7 DEF Stopped, i
  <2>13. Concluded'
    BY <1>1 DEF Concluded
  <2> QED  BY <2>8, <2>9, <2>10, <2>11, <2>12, <2>13
<1> QED  BY <1>3, <1>4 DEF Account

\* With every stage folded and nothing held, no stage can have brought the
\* teardown about: what tears down also breaks, or panics.
LEMMA ConcludesAccount ==
  ASSUME IInv, IInv', Account, Concludes
  PROVE  Account'
<1> DEFINE idle == teardown # None /\ verdict.held = 0 /\ ~verdict.panic
<1>1. /\ pc = "fold" /\ pc' = "done" /\ verdict.at > Length
      /\ UNCHANGED <<stage, scope, queue, teardown, pressed, anchor, launched>>
      /\ verdict' = [verdict EXCEPT !.held = IF idle THEN StopRank(teardown) ELSE verdict.held]
  BY DEF Concludes
<1>2. verdict \in [at : Nat \ {0}, panic : BOOLEAN, held : Nat] /\ scope \in Nat /\ teardown \in Nat
  BY Accounts DEF TypeOK
<1>3. verdict'.at = verdict.at /\ verdict'.panic = verdict.panic
      /\ verdict'.held = IF idle THEN StopRank(teardown) ELSE verdict.held
  BY <1>1, <1>2
<1>4. AllSound' /\ KeysAreHeard' /\ NewsIsTrue' /\ AllTold' /\ AllFiled' /\ AllBorn' /\ Brought' /\ Blank'
  <2>1. AllSound' /\ NewsIsTrue'
    BY <1>1, Accounts DEF AllSound, NewsIsTrue
  <2>2. Hears' <=> Hears
    BY <1>1 DEF Hears
  <2>3. KeysAreHeard'
    BY <1>1, <2>2, Accounts DEF KeysAreHeard
  <2>4. AllTold' /\ AllFiled' /\ AllBorn' /\ Brought' /\ Blank'
    BY <1>1, Accounts DEF AllTold, AllFiled, AllBorn, Brought, Blank
  <2> QED  BY <2>1, <2>3, <2>4
<1>5. Folded'
  <2> SUFFICES ASSUME launched  PROVE (Panicked /\ Halted /\ Failed /\ Exited /\ Stopped /\ Concluded)'
    BY <1>1 DEF Folded
  <2>1. Panicked /\ Halted /\ Failed /\ Exited /\ Stopped
    BY <1>1, Accounts DEF Folded
  <2>2. \A j \in Stages : Halt(j)' = Halt(j) /\ (Outgrown(j)' <=> Outgrown(j))
    BY <1>1 DEF Halt, Outgrown
  <2>3. Panicked'
    BY <1>1, <1>3, <2>1 DEF Panicked
  <2>4. CASE idle
    <3>1. verdict'.held = StopRank(teardown) /\ StopRank(teardown) > StopRank(None) /\ StopRank(teardown) \in Nat
      BY <1>2, <1>3, <2>4 DEF StopRank, None
    <3>2. \A j \in Stages : j < verdict.at
      BY <1>1, <1>2, StagesFacts
    <3>3. \A j \in Stages : Halt(j) \in Nat
      BY Accounts, BreakFacts DEF Halt
    <3>4. \A j \in Stages : Halt(j) = 0 /\ stage[j].end.what # "panic"
      BY <2>1, <2>4, <3>2, <3>3 DEF Panicked, Halted
    <3>5. teardown <= scope \/ (teardown = Terminated /\ "anchor" \in Ops)
      <4>1. ASSUME NEW j \in Stages, stage[j].handle = "filed", TearsDownFor(stage[j].end) = teardown
            PROVE  FALSE
        <5> DEFINE e == stage[j].end
        <5>1. e.what # "panic" /\ teardown # None
          BY <2>4, <3>4
        <5>2. e.what \in {"exit", "stop"}
          BY <4>1, <5>1 DEF TearsDownFor
        <5>3. e.what \notin Signals
          BY <5>2 DEF Signals
        <5>4. Halt(j) = ThreadBreak(e)
          BY <4>1, <5>3 DEF Halt
        <5>5. e.what = "exit" => ThreadBreak(e) = ExitRank
          BY DEF ThreadBreak
        <5>6. e.what = "stop" => e.owner # "stage"
          BY <4>1, <5>1 DEF TearsDownFor
        <5>7. e.cause \in Nat
          BY Accounts, CauseFacts DEF Arrays, Handle, Ending
        <5>8. e.what = "stop" => ThreadBreak(e) = 1 \/ ThreadBreak(e) = StopRank(e.cause)
          BY <5>6 DEF ThreadBreak
        <5> QED  BY <3>4, <5>2, <5>4, <5>5, <5>7, <5>8 DEF ExitRank, StopRank
      <4> QED  BY <1>1, <2>4, <4>1, Accounts DEF Brought
    <3>6. Stopped'
      BY <1>1, <1>2, <3>1, <3>5 DEF Stopped, StopRank, Terminated
    <3>7. Failed' /\ Exited' /\ Concluded'
      BY <1>1, <1>2, <1>3, <3>1 DEF Failed, Exited, Concluded, StopRank, None, FailureRank, ExitRank
    <3>8. Halted'
      BY <1>1, <2>2, <3>1, <3>4 DEF Halted, StopRank, None
    <3> QED  BY <2>3, <3>6, <3>7, <3>8
  <2>5. CASE ~idle
    <3>1. verdict'.held = verdict.held
      BY <1>3, <2>5
    <3>2. Halted' /\ Failed' /\ Exited'
      BY <1>1, <1>3, <2>1, <2>2, <3>1 DEF Halted, Failed, Exited
    <3>3. Stopped'
      BY <1>1, <1>3, <2>1, <2>2, <3>1 DEF Stopped
    <3>4. Concluded'
      BY <1>1, <1>3, <2>5, <3>1 DEF Concluded
    <3> QED  BY <2>3, <3>2, <3>3, <3>4
  <2> QED  BY <2>4, <2>5
<1> QED  BY <1>4, <1>5 DEF Account

-----------------------------------------------------------------------------
(* The theorem of the verdict. *)

\* Before a stage is born nothing is owed.
LEMMA InitAccount == Init => Account
<1> SUFFICES ASSUME Init  PROVE Account
  OBVIOUS
<1>1. PICK kinds \in [Stages -> Kinds] :
        stage = [i \in Stages |-> [kind |-> kinds[i], handle |-> "unborn", end |-> Own("none"),
                                  sent |-> None, sigs |-> {}, edge |-> "held", wrote |-> "no"]]
  BY DEF Init
<1>2. \A i \in Stages : /\ stage[i].handle = "unborn" /\ stage[i].end.what = "none" /\ stage[i].sigs = {}
  BY <1>1 DEF Own, End
<1>3. AllSound
  BY <1>2 DEF AllSound, Sound, Unended, Signals
<1>4. KeysAreHeard
  BY <1>2 DEF KeysAreHeard, Keyed
<1>5. NewsIsTrue
  BY DEF Init, NewsIsTrue
<1>6. AllTold /\ AllFiled /\ AllBorn /\ Brought /\ Blank /\ Folded
  BY DEF Init, AllTold, AllFiled, AllBorn, Brought, Blank, Folded
<1> QED  BY <1>3, <1>4, <1>5, <1>6 DEF Account

\* Every step keeps the account.
LEMMA StepAccounts == IInv /\ Account /\ [Next]_vars => Account'
<1> SUFFICES ASSUME IInv, Account, [Next]_vars  PROVE Account'
  OBVIOUS
<1>0. IInv'
  BY StepKeeps
<1>1. CASE UNCHANGED vars
  BY <1>1 DEF vars, Account, AllSound, KeysAreHeard, Hears, NewsIsTrue, AllTold, AllFiled, AllBorn,
       Brought, Blank, Folded, Panicked, Halted, Failed, Exited, Stopped, Concluded, Halt, Outgrown
<1>2. ASSUME NEW i \in Stages, Launch(i)  PROVE Account'
  BY <1>0, <1>2, LaunchAccount
<1>3. CASE LaunchFails
  BY <1>0, <1>3, LaunchFailsAccount
<1>4. CASE Notices
  BY <1>0, <1>4, NoticesAccount
<1>5. CASE Files
  BY <1>0, <1>5, FilesAccount
<1>6. CASE HearsWrite
  BY <1>0, <1>6, HearsWriteAccount
<1>7. CASE AnchorDied
  BY <1>0, <1>7, AnchorDiedAccount
<1>8. CASE Heard
  BY <1>0, <1>8, HeardAccount
<1>9. CASE GraceOver \/ ThreadsOver
  BY <1>0, <1>9, WaitsOverAccount
<1>10. CASE Joins
  BY <1>0, <1>10, JoinsAccount
<1>11. CASE Unwinds \/ Dropped
  BY <1>0, <1>11, UnwindsAccount
<1>12. CASE Folds
  BY <1>0, <1>12, FoldsAccount
<1>13. CASE Concludes
  BY <1>0, <1>13, ConcludesAccount
<1>14. CASE Struck \/ Key \/ AnchorReports \/ AnchorDies \/ Gone
  BY <1>0, <1>14, OutsideAccount
<1>15. ASSUME NEW i \in Stages, EndsOfItself(i) \/ Dies(i) \/ Polls(i) \/ WritesDead(i)  PROVE Account'
  BY <1>0, <1>15, StagesAccount
<1>16. ASSUME NEW i \in Stages, Writes(i) \/ Reports(i)  PROVE Account'
  BY <1>0, <1>16, WritesAccount
<1> QED  BY <1>1, <1>2, <1>3, <1>4, <1>5, <1>6, <1>7, <1>8, <1>9, <1>10, <1>11, <1>12, <1>13, <1>14,
            <1>15, <1>16 DEF Next, Collects

\* The verdict of a pipeline that was launched is what its stages and the causes
\* on its scope earned, whatever its length, the kinds of its stages, the causes
\* struck above it and the order in which stages, keys and the anchor come to
\* their ends: the fold never takes a death the collector brought about, or a
\* key it was told of, for a failure, and never loses a panic, a halt or a
\* teardown.
THEOREM VerdictEarned == Spec => []VerdictIsEarned
<1>1. IInv /\ Account => VerdictIsEarned
  <2> SUFFICES ASSUME IInv, Account, pc = "done", launched
               PROVE  /\ verdict.panic <=> (\E i \in Stages : stage[i].end.what = "panic")
                      /\ \A i \in Stages : verdict.held >= Halt(i)
                      /\ verdict.held = 0 => teardown = None \/ verdict.panic
                      /\ Failed /\ Exited /\ Stopped
    BY DEF VerdictIsEarned, Failed, Exited, Stopped
  <2>1. Panicked /\ Halted /\ Failed /\ Exited /\ Stopped /\ Concluded
    BY DEF Account, Folded
  <2>2. verdict.at > Length /\ verdict.at \in Nat
    BY <2>1 DEF Concluded, IInv, TypeOK
  <2> QED  BY <2>1, <2>2, StagesFacts DEF Panicked, Halted, Concluded
<1>2. IInv /\ Account /\ [Next]_vars => Account'
  BY StepAccounts
<1> QED  BY <1>1, <1>2, InitAccount, Inductive, PTL DEF Spec

=============================================================================
