---------------------------- MODULE GatherProofs ----------------------------
(* Theorems about Gather, for every number of workers, gathers and stages:  *)
(* its types, what an owner claims of its children, how a handle moves, that *)
(* nothing a scope started outlives it, and, last, the registry's seats.     *)
EXTENDS Gather, FiniteSetTheorems, FunctionTheorems, TLAPS

Waiting == {"poll", "sweep", "stop", "drain"}

\* What the type invariant needs to be inductive: a handle that is ready has
\* an ending, a thread inside a wait has a verb to wait for, and the frames
\* its verb and place say it has.
ReadyHasEnding == \A w \in Workers : handle[w] = "ready" => ending[w] \in Outcomes

FramesFit(t) ==
  /\ t.pc \in {"poll", "sweep"} => t.verb \in {"await", "race", "exit", "outlive"}
  /\ t.pc \in {"stop", "drain"} => t.verb \in {"race", "exit", "wipe"}
  /\ t.pc \in Waiting /\ t.verb = "exit" => t.frames # <<>>
  /\ t.pc \in Waiting /\ t.verb \in {"outlive", "wipe"} => t.frames = <<>>
  /\ t.pc \in {"idle", "base", "settled", "done"} => t.frames = <<>>

IdleIfUnborn == \A w \in Workers : handle[w] = "unborn" => thread[w].pc = "idle"

Typing == /\ TypeOK
          /\ ReadyHasEnding
          /\ IdleIfUnborn
          /\ \A a \in Actors : FramesFit(thread[a])

LEMMA IdleIsThread == Idle \in Thread
  BY DEF Idle, Thread, Outcomes

LEMMA ConcludedIsThread ==
  ASSUME NEW t \in Thread, NEW o \in Outcomes
  PROVE  /\ Concluded(t, o) \in Thread
         /\ FramesFit(Concluded(t, o))
         /\ Concluded(t, o).frames = t.frames
         /\ Concluded(t, o).verb = "none"
         /\ Concluded(t, o).pc \in {"body", "halt"}
  BY DEF Concluded, Thread, FramesFit, Waiting

LEMMA RestartIsThread ==
  ASSUME NEW t \in Thread, NEW o \in Outcomes, NEW pc \in {"poll", "stop", "drain", "base"}
  PROVE  Restart(t, pc, o) \in Thread
  BY DEF Restart, Thread

LEMMA WaitEndsIsThread ==
  ASSUME NEW t \in Thread, NEW o \in Outcomes,
         t.pc \in {"poll", "sweep"}, FramesFit(t)
  PROVE  /\ WaitEnds(t, o) \in Thread
         /\ FramesFit(WaitEnds(t, o))
         /\ WaitEnds(t, o).pc \in {"body", "halt", "poll", "stop", "base"}
<1>1. CASE t.verb = "await"
  BY <1>1, ConcludedIsThread DEF WaitEnds
<1>2. CASE t.verb = "race"
  BY <1>2 DEF WaitEnds, Restart, Thread, FramesFit, Waiting
<1>3. CASE t.verb = "exit"
  <2>1. CASE o = "ok"
    BY <1>3, <2>1 DEF WaitEnds, NextOne, Thread, FramesFit, Waiting
  <2>2. CASE o # "ok"
    BY <1>3, <2>2 DEF WaitEnds, Restart, Thread, FramesFit, Waiting
  <2> QED BY <2>1, <2>2
<1>4. CASE t.verb = "outlive"
  <2>1. CASE o # "ok"
    BY <1>4, <2>1 DEF WaitEnds, Restart, Thread, FramesFit, Waiting
  <2>2. CASE o = "ok"
    BY <1>4, <2>2 DEF WaitEnds, NextOne, Thread, FramesFit, Waiting
  <2> QED BY <2>1, <2>2
<1> QED BY <1>1, <1>2, <1>3, <1>4 DEF FramesFit

LEMMA LeftIsThread ==
  ASSUME NEW t \in Thread, NEW a \in Actors,
         t.pc \in {"stop", "drain"}, FramesFit(t)
  PROVE  /\ Left(a, t) \in Thread
         /\ FramesFit(Left(a, t))
         /\ Left(a, t).pc \in {"body", "halt", "base", "done"}
<1>1. CASE t.verb = "exit" /\ t.frames = <<a>>
  <2> DEFINE r == Restart(t, "base", t.out)
  <2>1. t.out \in Outcomes
    BY DEF Thread
  <2>2. r \in Thread /\ r.pc = "base"
    BY <2>1, RestartIsThread DEF Restart, Thread
  <2>3. Left(a, t) = [r EXCEPT !.frames = <<>>, !.given = {}, !.todo = {}, !.known = {}]
    BY <1>1 DEF Left
  <2> HIDE DEF r
  <2>4. /\ <<>> \in Seq(Owners) /\ {} \in SUBSET Workers
        /\ Left(a, t).pc = "base" /\ Left(a, t).frames = <<>>
    BY <2>2, <2>3 DEF Thread
  <2>5. Left(a, t) \in Thread
    BY <2>2, <2>3, <2>4 DEF Thread
  <2> QED BY <2>4, <2>5 DEF FramesFit, Waiting
<1>2. CASE t.verb = "exit" /\ t.frames # <<a>>
  <2>1. t.frames \in Seq(Owners) /\ t.frames # <<>>
    BY <1>2 DEF Thread, FramesFit, Waiting
  <2>2. Tail(t.frames) \in Seq(Owners)
    BY <2>1
  <2> DEFINE c == Concluded(t, t.out)
  <2>3. c \in Thread /\ c.frames = t.frames /\ c.pc \in {"body", "halt"}
    BY ConcludedIsThread DEF Thread
  <2>4. Left(a, t) = [c EXCEPT !.frames = Tail(c.frames)]
    BY <1>2, <2>3 DEF Left
  <2> HIDE DEF c
  <2>5. Left(a, t) \in Thread
    BY <2>2, <2>3, <2>4 DEF Thread
  <2>6. Left(a, t).pc \in {"body", "halt"}
    BY <2>3, <2>4 DEF Thread
  <2> QED BY <2>5, <2>6 DEF FramesFit, Waiting
<1>3. CASE t.verb # "exit"
  BY <1>3, IdleIsThread DEF Left, Concluded, Idle, Thread, FramesFit, Waiting
<1> QED BY <1>1, <1>2, <1>3

-----------------------------------------------------------------------------
(* Typing is an invariant. *)

\* Everything but TypeOK's conjuncts on the other variables, for a step that
\* moves one thread and at most claims handles.
LEMMA MovePreserves ==
  ASSUME Typing, NEW a \in Actors, ~At(a, "idle"),
         NEW t \in Thread, FramesFit(t), Move(a, t), ending' = ending,
         \A w \in Workers : /\ handle'[w] = "ready"  => handle[w] = "ready"
                            /\ handle'[w] = "unborn" => handle[w] = "unborn"
  PROVE  /\ thread' \in [Actors -> Thread]
         /\ ReadyHasEnding'
         /\ IdleIfUnborn'
         /\ \A b \in Actors : FramesFit(thread'[b])
<1>1. thread \in [Actors -> Thread]
  BY DEF Typing, TypeOK
<1>2. thread' = [thread EXCEPT ![a] = t]
  BY DEF Move
<1>3. thread' \in [Actors -> Thread]
  BY <1>1, <1>2
<1>4. \A b \in Actors : FramesFit(thread'[b])
  BY <1>1, <1>2 DEF Typing
<1>5. IdleIfUnborn'
  BY <1>1, <1>2 DEF Typing, IdleIfUnborn, At, Actors
<1>6. ReadyHasEnding'
  BY DEF Typing, ReadyHasEnding
<1> QED BY <1>3, <1>4, <1>5, <1>6

\* A step that moves one thread and nothing else.
LEMMA MoveOnly ==
  ASSUME Typing, NEW a \in Actors, ~At(a, "idle"),
         NEW t \in Thread, FramesFit(t), Move(a, t),
         UNCHANGED <<handle, ending, struck, scope, member, kids, roster, undrained>>
  PROVE  Typing'
<1>1. /\ thread' \in [Actors -> Thread]
      /\ ReadyHasEnding'
      /\ IdleIfUnborn'
      /\ \A b \in Actors : FramesFit(thread'[b])
  BY MovePreserves
<1> QED BY <1>1 DEF Typing, TypeOK

LEMMA StrongerIsFlag ==
  ASSUME NEW c \in Flags, NEW d \in Flags PROVE Stronger(c, d) \in Flags
  BY DEF Stronger

LEMMA ClaimAndStopTypes ==
  ASSUME TypeOK, NEW w \in Workers, ClaimAndStop(w)
  PROVE  /\ handle' \in [Workers -> HandleStates]
         /\ struck' \in [Nodes -> Flags]
         /\ \A v \in Workers : /\ handle'[v] = "ready"  => handle[v] = "ready"
                               /\ handle'[v] = "unborn" => handle[v] = "unborn"
                               /\ Claimed(v) => handle'[v] \in {"stopping", "consumed"}
         /\ handle[w] # "unborn" => handle'[w] \in {"stopping", "consumed"}
<1>1. handle \in [Workers -> HandleStates] /\ struck \in [Nodes -> Flags]
  BY DEF TypeOK
<1>2. handle' = [handle EXCEPT ![w] = CASE handle[w] = "running" -> "stopping"
                                       [] handle[w] = "ready"   -> "consumed"
                                       [] OTHER -> handle[w]]
  BY DEF ClaimAndStop
<1>3. "cancelled" \in Flags /\ w \in Nodes
  BY DEF Flags, Causes, Nodes, Actors
<1>4. struck' \in [Nodes -> Flags]
  BY <1>1, <1>3, StrongerIsFlag DEF ClaimAndStop
<1> QED BY <1>1, <1>2, <1>4 DEF HandleStates, Claimed

LEMMA ClaimReadyTypes ==
  ASSUME TypeOK, NEW w \in Workers, ClaimReady(w)
  PROVE  /\ handle' \in [Workers -> HandleStates]
         /\ \A v \in Workers : /\ handle'[v] = "ready"  => handle[v] = "ready"
                               /\ handle'[v] = "unborn" => handle[v] = "unborn"
                               /\ Claimed(v) => handle'[v] \in {"stopping", "consumed"}
         /\ handle'[w] = "consumed"
  BY DEF TypeOK, ClaimReady, HandleStates, Claimed

LEMMA InitTyping == Init => Typing
<1> SUFFICES ASSUME Init PROVE Typing
  OBVIOUS
<1>1. thread \in [Actors -> Thread] /\ \A a \in Actors : FramesFit(thread[a])
  <2>1. [Idle EXCEPT !.pc = "body"] \in Thread /\ FramesFit([Idle EXCEPT !.pc = "body"])
    BY IdleIsThread DEF Idle, Thread, FramesFit, Waiting
  <2>2. FramesFit(Idle)
    BY DEF Idle, FramesFit, Waiting
  <2> QED BY <2>1, <2>2, IdleIsThread DEF Init
<1>2. IdleIfUnborn
  BY NamesAssumption DEF Init, IdleIfUnborn, Idle, Actors
<1>3. ReadyHasEnding
  BY DEF Init, ReadyHasEnding
<1>4. scope \in [Actors \cup Gathers \cup {Session} -> SUBSET Nodes]
  BY DEF Init, Nodes, Actors
<1>5. /\ handle \in [Workers -> HandleStates]
      /\ ending \in [Workers -> Outcomes \cup {"none"}]
      /\ struck \in [Nodes -> Flags]
      /\ member \in [Owners -> {"unused", "open", "closed"}]
      /\ kids \in [Owners -> SUBSET Workers]
      /\ roster \in SUBSET Workers
      /\ undrained \in SUBSET Owners
  BY DEF Init, HandleStates, Flags
<1> QED BY <1>1, <1>2, <1>3, <1>4, <1>5 DEF Typing, TypeOK

LEMMA SpawnTyping ==
  ASSUME Typing, NEW a \in Actors, NEW w \in Workers, Spawn(a, w)
  PROVE  Typing'
<1> DEFINE born   == [Idle EXCEPT !.pc = "body", !.frames = <<w>>, !.known = thread[a].known]
           parent == [thread[a] EXCEPT !.pc = "register", !.given = {w}]
<1>1. thread \in [Actors -> Thread] /\ thread[a] \in Thread /\ w \in Actors /\ w \in Owners
  BY DEF Typing, TypeOK, Actors, Owners
<1>2. thread[w].pc = "idle" /\ thread[a].pc = "body" /\ a # w
  BY DEF Spawn, Typing, IdleIfUnborn, At, NextId
<1>3. born \in Thread /\ FramesFit(born) /\ born.pc = "body"
  <2>1. <<w>> \in Seq(Owners) /\ thread[a].known \in SUBSET Workers
    BY <1>1 DEF Thread
  <2>2. born \in Thread /\ born.pc = "body"
    BY <2>1, IdleIsThread DEF Thread, Idle
  <2> QED BY <2>2 DEF FramesFit, Waiting
<1>4. parent \in Thread /\ FramesFit(parent) /\ parent.pc = "register"
  BY <1>1 DEF Thread, FramesFit, Waiting
<1>5. thread' = [thread EXCEPT ![w] = born, ![a] = parent]
  BY <1>1, <1>2 DEF Spawn
<1> HIDE DEF born, parent
<1>6. /\ thread' \in [Actors -> Thread]
      /\ \A b \in Actors : FramesFit(thread'[b])
  BY <1>1, <1>3, <1>4, <1>5 DEF Typing
<1>7. handle' = [handle EXCEPT ![w] = "running"] /\ ending' = ending
  BY DEF Spawn
<1>8. IdleIfUnborn' /\ ReadyHasEnding' /\ handle' \in [Workers -> HandleStates]
  <2>1. ASSUME NEW v \in Workers, handle'[v] = "unborn"
        PROVE  thread'[v].pc = "idle"
    <3>1. v # w /\ handle[v] = "unborn"
      BY <1>7, <2>1 DEF Typing, TypeOK
    <3>2. thread[v].pc = "idle" /\ v # a
      BY <1>2, <3>1 DEF Typing, IdleIfUnborn
    <3> QED BY <1>1, <1>5, <3>1, <3>2 DEF Actors
  <2> QED BY <2>1, <1>7 DEF Typing, TypeOK, ReadyHasEnding, IdleIfUnborn, HandleStates
<1>9. scope' \in [Actors \cup Gathers \cup {Session} -> SUBSET Nodes]
  <2>1. Cradle(a) \in Actors \cup Gathers \cup {Session}
    <3>1. thread[a].frames \in Seq(Owners) /\ thread[a].cradle \in Owners \cup {Session}
      BY <1>1 DEF Thread
    <3> QED BY <3>1 DEF Cradle, Owners, Actors
  <2>2. BirthScope(a, w) \in SUBSET Nodes
    BY <2>1, <1>1 DEF BirthScope, Typing, TypeOK, Nodes
  <2> QED BY <2>2 DEF Spawn, Typing, TypeOK
<1>10. member' \in [Owners -> {"unused", "open", "closed"}] /\ roster' \in SUBSET Workers
  BY <1>1 DEF Spawn, Typing, TypeOK, Pruned
<1> QED BY <1>6, <1>7, <1>8, <1>9, <1>10 DEF Spawn, Typing, TypeOK

LEMMA LaunchTyping ==
  ASSUME Typing, NEW a \in Actors, NEW s \in Stages, Launch(a, s)
  PROVE  Typing'
<1> DEFINE stage  == [Idle EXCEPT !.pc = "body", !.cradle = Cradle(a), !.known = thread[a].known]
           parent == [thread[a] EXCEPT !.pc = "pipe", !.stage = s]
<1>1. thread \in [Actors -> Thread] /\ thread[a] \in Thread /\ s \in Actors
  BY DEF Typing, TypeOK, Actors
<1>2. thread[s].pc = "idle" /\ thread[a].pc = "body" /\ a # s
  BY DEF Launch, At
<1>3. stage \in Thread /\ FramesFit(stage) /\ stage.pc = "body"
  <2>1. Cradle(a) \in Owners \cup {Session}
    <3>1. thread[a].frames \in Seq(Owners) /\ thread[a].cradle \in Owners \cup {Session}
      BY <1>1 DEF Thread
    <3> QED BY <3>1 DEF Cradle
  <2>2. stage \in Thread /\ stage.pc = "body"
    BY <1>1, <2>1, IdleIsThread DEF Thread, Idle
  <2> QED BY <2>2 DEF FramesFit, Waiting
<1>4. parent \in Thread /\ FramesFit(parent) /\ parent.pc = "pipe"
  BY <1>1 DEF Thread, FramesFit, Waiting
<1>5. thread' = [thread EXCEPT ![s] = stage, ![a] = parent]
  BY <1>1, <1>2 DEF Launch
<1> HIDE DEF stage, parent
<1>6. /\ thread' \in [Actors -> Thread]
      /\ \A b \in Actors : FramesFit(thread'[b])
  BY <1>1, <1>3, <1>4, <1>5 DEF Typing
<1>7. IdleIfUnborn'
  BY <1>1, <1>2, <1>3, <1>5, NamesAssumption DEF Launch, Typing, IdleIfUnborn, Actors
<1>8. scope' \in [Actors \cup Gathers \cup {Session} -> SUBSET Nodes]
  BY <1>1 DEF Launch, Typing, TypeOK, Nodes
<1> QED BY <1>6, <1>7, <1>8 DEF Launch, Typing, TypeOK, ReadyHasEnding

\* A thread of the right type, in its place, ready to be moved.
LEMMA AtThread ==
  ASSUME Typing, NEW a \in Actors
  PROVE  /\ thread \in [Actors -> Thread]
         /\ thread[a] \in Thread
         /\ FramesFit(thread[a])
         /\ thread[a].out \in Outcomes
         /\ thread[a].given \in SUBSET Workers
         /\ thread[a].todo \in SUBSET Workers
         /\ thread[a].frames \in Seq(Owners)
  BY DEF Typing, TypeOK, Thread

LEMMA BirthTyping ==
  ASSUME Typing, NEW a \in Actors, SpawnRefused(a) \/ Register(a) \/ Enrol(a)
  PROVE  Typing'
<1>1. CASE SpawnRefused(a)
  <2>1. /\ thread' \in [Actors -> Thread]
        /\ ReadyHasEnding' /\ IdleIfUnborn'
        /\ \A b \in Actors : FramesFit(thread'[b])
    BY <1>1, AtThread, ConcludedIsThread, MovePreserves DEF SpawnRefused, Outcomes, At
  <2> QED BY <1>1, <2>1 DEF SpawnRefused, Typing, TypeOK, Pruned
<1>2. CASE Register(a)
  <2> DEFINE t == [thread[a] EXCEPT !.pc = "enrol"]
  <2>1. t \in Thread /\ FramesFit(t)
    BY <1>2, AtThread DEF Register, At, Thread, FramesFit, Waiting
  <2>2. /\ thread' \in [Actors -> Thread]
        /\ ReadyHasEnding' /\ IdleIfUnborn'
        /\ \A b \in Actors : FramesFit(thread'[b])
    <3>1. Move(a, t) /\ ~At(a, "idle") /\ ending' = ending /\ handle' = handle
      BY <1>2 DEF Register, At
    <3> HIDE DEF t
    <3> QED BY <2>1, <3>1, MovePreserves
  <2>3. roster' \in SUBSET Workers
    BY <1>2, AtThread DEF Register, Pruned, Typing, TypeOK
  <2> QED BY <1>2, <2>2, <2>3 DEF Register, Typing, TypeOK
<1>3. CASE Enrol(a)
  <2>1. PICK w \in thread[a].given :
          IF Cradle(a) = Session \/ member[Cradle(a)] = "open"
            THEN /\ kids' \in Enrolled(Cradle(a), w)
                 /\ Move(a, [Concluded(thread[a], "ok") EXCEPT !.known = @ \cup {w}])
                 /\ UNCHANGED <<handle, struck>>
            ELSE /\ ClaimAndStop(w)
                 /\ Move(a, Concluded(thread[a], "err"))
                 /\ UNCHANGED kids
    BY <1>3 DEF Enrol
  <2>2. w \in Workers /\ ~At(a, "idle") /\ "ok" \in Outcomes /\ "err" \in Outcomes
    BY <1>3, AtThread DEF Enrol, At, Outcomes
  <2>3. CASE Cradle(a) = Session \/ member[Cradle(a)] = "open"
    <3> DEFINE t == [Concluded(thread[a], "ok") EXCEPT !.known = @ \cup {w}]
    <3>1. t \in Thread /\ FramesFit(t)
      <4>1. Concluded(thread[a], "ok") \in Thread /\ FramesFit(Concluded(thread[a], "ok"))
        BY <2>2, AtThread, ConcludedIsThread
      <4> QED BY <2>2, <4>1 DEF Thread, FramesFit, Waiting
    <3>2. Move(a, t) /\ ending' = ending /\ handle' = handle /\ struck' = struck
      BY <1>3, <2>1, <2>3 DEF Enrol
    <3> HIDE DEF t
    <3>3. /\ thread' \in [Actors -> Thread]
          /\ ReadyHasEnding' /\ IdleIfUnborn'
          /\ \A b \in Actors : FramesFit(thread'[b])
      BY <2>2, <3>1, <3>2, MovePreserves
    <3>4. kids' \in [Owners -> SUBSET Workers]
      <4>1. kids \in [Owners -> SUBSET Workers] /\ \A o \in Owners : Pruned(kids[o]) \in SUBSET Workers
        BY DEF Typing, TypeOK, Pruned
      <4>2. Cradle(a) \in Owners \cup {Session}
        <5>1. thread[a].frames \in Seq(Owners) /\ thread[a].cradle \in Owners \cup {Session}
          BY AtThread DEF Thread
        <5> QED BY <5>1 DEF Cradle
      <4>3. kids' \in Enrolled(Cradle(a), w)
        BY <2>1, <2>3
      <4> QED BY <2>2, <4>1, <4>2, <4>3 DEF Enrolled
    <3> QED BY <1>3, <3>2, <3>3, <3>4 DEF Enrol, Typing, TypeOK
  <2>4. CASE ~(Cradle(a) = Session \/ member[Cradle(a)] = "open")
    <3>1. ClaimAndStop(w) /\ Move(a, Concluded(thread[a], "err")) /\ kids' = kids /\ ending' = ending
      BY <1>3, <2>1, <2>4 DEF Enrol
    <3>2. /\ handle' \in [Workers -> HandleStates] /\ struck' \in [Nodes -> Flags]
          /\ \A v \in Workers : /\ handle'[v] = "ready"  => handle[v] = "ready"
                                /\ handle'[v] = "unborn" => handle[v] = "unborn"
      BY <2>2, <3>1, ClaimAndStopTypes DEF Typing
    <3>3. /\ thread' \in [Actors -> Thread]
          /\ ReadyHasEnding' /\ IdleIfUnborn'
          /\ \A b \in Actors : FramesFit(thread'[b])
      BY <2>2, <3>1, <3>2, AtThread, ConcludedIsThread, MovePreserves
    <3> QED BY <1>3, <3>1, <3>2, <3>3 DEF Enrol, Typing, TypeOK
  <2> QED BY <2>3, <2>4
<1> QED BY <1>1, <1>2, <1>3

LEMMA BodyTyping ==
  ASSUME Typing, NEW a \in Actors,
         \/ \E g \in Gathers : OpenGather(a, g)
         \/ PipeEnd(a) \/ Poll(a) \/ Break(a) \/ Catch(a)
         \/ \E w \in Workers : Cancel(a, w)
  PROVE  Typing'
<1>1. ASSUME NEW g \in Gathers, OpenGather(a, g) PROVE Typing'
  <2> DEFINE t == [thread[a] EXCEPT !.frames = <<g>> \o @]
  <2>1. t \in Thread /\ FramesFit(t)
    <3>1. <<g>> \o thread[a].frames \in Seq(Owners)
      BY AtThread DEF Owners
    <3> QED BY <1>1, <3>1, AtThread DEF OpenGather, At, Thread, FramesFit, Waiting
  <2>2. Move(a, t) /\ ~At(a, "idle") /\ ending' = ending /\ handle' = handle
    BY <1>1 DEF OpenGather, At
  <2> HIDE DEF t
  <2>3. /\ thread' \in [Actors -> Thread]
        /\ ReadyHasEnding' /\ IdleIfUnborn'
        /\ \A b \in Actors : FramesFit(thread'[b])
    BY <2>1, <2>2, MovePreserves
  <2>4. /\ scope' \in [Actors \cup Gathers \cup {Session} -> SUBSET Nodes]
        /\ member' \in [Owners -> {"unused", "open", "closed"}]
    BY <1>1 DEF OpenGather, Typing, TypeOK, Owners
  <2> QED BY <1>1, <2>3, <2>4 DEF OpenGather, Typing, TypeOK
<1>2. CASE PipeEnd(a)
  <2>1. PICK s \in Stages : Move(a, [Concluded(thread[a], thread[s].out) EXCEPT !.stage = Session])
    BY <1>2 DEF PipeEnd
  <2> DEFINE t == [Concluded(thread[a], thread[s].out) EXCEPT !.stage = Session]
  <2>2. t \in Thread /\ FramesFit(t)
    <3>1. thread[s].out \in Outcomes
      BY AtThread DEF Actors
    <3>2. Concluded(thread[a], thread[s].out) \in Thread /\ FramesFit(Concluded(thread[a], thread[s].out))
      BY <3>1, AtThread, ConcludedIsThread
    <3> QED BY <3>2 DEF Thread, FramesFit, Waiting
  <2> HIDE DEF t
  <2> QED BY <1>2, <2>1, <2>2, MoveOnly DEF PipeEnd, At, t
<1>3. CASE Poll(a)
  BY <1>3, AtThread, ConcludedIsThread, MoveOnly DEF Poll, At, Outcomes
<1>4. CASE Break(a)
  BY <1>4, AtThread, ConcludedIsThread, MoveOnly DEF Break, At, Outcomes
<1>5. CASE Catch(a)
  BY <1>5, AtThread, ConcludedIsThread, MoveOnly DEF Catch, At, Outcomes
<1>6. ASSUME NEW w \in Workers, Cancel(a, w) PROVE Typing'
  <2>1. /\ handle' \in [Workers -> HandleStates] /\ struck' \in [Nodes -> Flags]
        /\ \A v \in Workers : /\ handle'[v] = "ready"  => handle[v] = "ready"
                              /\ handle'[v] = "unborn" => handle[v] = "unborn"
    BY <1>6, ClaimAndStopTypes DEF Cancel, Typing
  <2> QED BY <1>6, <2>1 DEF Cancel, Typing, TypeOK, ReadyHasEnding, IdleIfUnborn
<1> QED BY <1>1, <1>2, <1>3, <1>4, <1>5, <1>6

LEMMA WaitTyping ==
  ASSUME Typing, NEW a \in Actors,
         \/ \E w \in Workers : Await(a, w)
         \/ \E v, w \in Workers : Race(a, v, w)
         \/ WaitPoll(a) \/ SweepClaim(a) \/ SweepNone(a)
  PROVE  Typing'
<1> USE AtThread
<1>1. ASSUME NEW w \in Workers, Await(a, w) PROVE Typing'
  <2> DEFINE t == [thread[a] EXCEPT !.pc = "poll", !.verb = "await", !.given = {w},
                                    !.todo = {w}, !.known = @ \ {w}]
  <2>1. t \in Thread /\ FramesFit(t)
    BY DEF Thread, FramesFit, Waiting
  <2>2. Move(a, t) /\ ~At(a, "idle")
    BY <1>1 DEF Await, At
  <2> HIDE DEF t
  <2> QED BY <1>1, <2>1, <2>2, MoveOnly DEF Await
<1>2. ASSUME NEW v \in Workers, NEW w \in Workers, Race(a, v, w) PROVE Typing'
  <2> DEFINE t == [thread[a] EXCEPT !.pc = "poll", !.verb = "race", !.given = {v, w},
                                    !.todo = {v, w}, !.known = @ \ {v, w}]
  <2>1. t \in Thread /\ FramesFit(t)
    BY DEF Thread, FramesFit, Waiting
  <2>2. Move(a, t) /\ ~At(a, "idle")
    BY <1>2 DEF Race, At
  <2> HIDE DEF t
  <2> QED BY <1>2, <2>1, <2>2, MoveOnly DEF Race
<1>3. CASE WaitPoll(a)
  <2>1. ~At(a, "idle") /\ thread[a].pc = "poll"
    BY <1>3 DEF WaitPoll, At
  <2> DEFINE t == [thread[a] EXCEPT !.pc = "sweep"]
  <2>2. t \in Thread /\ FramesFit(t)
    BY <2>1 DEF Thread, FramesFit, Waiting
  <2>3. \A c \in Causes : /\ WaitEnds(thread[a], c) \in Thread
                          /\ FramesFit(WaitEnds(thread[a], c))
    BY <2>1, WaitEndsIsThread DEF Outcomes
  <2>4. Move(a, t) \/ \E c \in Causes : Move(a, WaitEnds(thread[a], c))
    BY <1>3 DEF WaitPoll
  <2>5. UNCHANGED <<handle, ending, struck, scope, member, kids, roster, undrained>>
    BY <1>3 DEF WaitPoll
  <2> HIDE DEF t
  <2> QED BY <2>1, <2>2, <2>3, <2>4, <2>5, MoveOnly
<1>4. CASE SweepClaim(a)
  <2>1. ~At(a, "idle") /\ thread[a].pc = "sweep"
    BY <1>4 DEF SweepClaim, At
  <2>2. PICK w \in Front(thread[a]) : ClaimReady(w) /\ Move(a, WaitEnds(thread[a], Met(thread[a], ending[w])))
    BY <1>4 DEF SweepClaim
  <2>3. w \in Workers
    BY <2>2 DEF Front
  <2> DEFINE o == Met(thread[a], ending[w])
  <2>4. o \in Outcomes
    BY <2>2, <2>3 DEF ClaimReady, Typing, ReadyHasEnding, Met, Outcomes
  <2>5. WaitEnds(thread[a], o) \in Thread /\ FramesFit(WaitEnds(thread[a], o))
    BY <2>1, <2>4, WaitEndsIsThread
  <2>6. /\ handle' \in [Workers -> HandleStates]
        /\ \A v \in Workers : /\ handle'[v] = "ready"  => handle[v] = "ready"
                              /\ handle'[v] = "unborn" => handle[v] = "unborn"
    BY <2>2, <2>3, ClaimReadyTypes DEF Typing
  <2>7. /\ thread' \in [Actors -> Thread]
        /\ ReadyHasEnding' /\ IdleIfUnborn'
        /\ \A b \in Actors : FramesFit(thread'[b])
    BY <1>4, <2>1, <2>2, <2>5, <2>6, MovePreserves DEF SweepClaim
  <2> QED BY <1>4, <2>6, <2>7 DEF SweepClaim, Typing, TypeOK
<1>5. CASE SweepNone(a)
  <2>1. ~At(a, "idle") /\ thread[a].pc = "sweep"
    BY <1>5 DEF SweepNone, At
  <2> DEFINE t == [thread[a] EXCEPT !.pc = "poll"]
  <2>2. t \in Thread /\ FramesFit(t)
    BY <2>1 DEF Thread, FramesFit, Waiting
  <2>3. \A o \in {"err", "ok"} : /\ WaitEnds(thread[a], o) \in Thread
                                /\ FramesFit(WaitEnds(thread[a], o))
    BY <2>1, WaitEndsIsThread DEF Outcomes
  <2>4. Move(a, t) \/ \E o \in {"err", "ok"} : Move(a, WaitEnds(thread[a], o))
    BY <1>5 DEF SweepNone
  <2>5. UNCHANGED <<handle, ending, struck, scope, member, kids, roster, undrained>>
    BY <1>5 DEF SweepNone
  <2> HIDE DEF t
  <2> QED BY <2>1, <2>2, <2>3, <2>4, <2>5, MoveOnly
<1> QED BY <1>1, <1>2, <1>3, <1>4, <1>5

LEMMA ExitTyping ==
  ASSUME Typing, NEW a \in Actors,
         \/ ReturnExit(a) \/ HaltExit(a) \/ JoinDone(a)
         \/ StopOne(a) \/ StopDone(a) \/ Leave(a)
  PROVE  Typing'
<1> USE AtThread
<1>1. ASSUME NEW pc \in {"poll", "stop"}, ~At(a, "idle"), Exiting(a, pc) PROVE Typing'
  <2> DEFINE o == Head(thread[a].frames)
             t == [thread[a] EXCEPT !.pc = pc, !.verb = "exit",
                                    !.given = Pruned(kids[o]), !.todo = Pruned(kids[o])]
  <2>1. o \in Owners /\ thread[a].frames # <<>>
    BY <1>1 DEF Exiting
  <2>2. Pruned(kids[o]) \in SUBSET Workers
    BY <2>1 DEF Pruned, Typing, TypeOK
  <2>3. t \in Thread /\ FramesFit(t)
    BY <2>1, <2>2 DEF Thread, FramesFit, Waiting
  <2>4. Move(a, t) /\ Close(o) /\ UNCHANGED <<handle, ending, struck, scope, roster, undrained>>
    BY <1>1 DEF Exiting
  <2> HIDE DEF t, o
  <2>5. /\ thread' \in [Actors -> Thread]
        /\ ReadyHasEnding' /\ IdleIfUnborn'
        /\ \A b \in Actors : FramesFit(thread'[b])
    BY <1>1, <2>3, <2>4, MovePreserves
  <2>6. /\ member' \in [Owners -> {"unused", "open", "closed"}]
        /\ kids' \in [Owners -> SUBSET Workers]
    BY <2>2, <2>4 DEF Close, Typing, TypeOK
  <2> QED BY <2>4, <2>5, <2>6 DEF Typing, TypeOK
<1>2. CASE ReturnExit(a)
  BY <1>1, <1>2 DEF ReturnExit, At
<1>3. CASE HaltExit(a)
  BY <1>1, <1>3 DEF HaltExit, At
<1>4. CASE JoinDone(a)
  <2> DEFINE t == Restart(thread[a], "drain", "ok")
  <2>1. t \in Thread /\ FramesFit(t)
    BY <1>4 DEF JoinDone, At, Restart, Thread, FramesFit, Waiting, Outcomes
  <2>2. Move(a, t) /\ ~At(a, "idle")
    BY <1>4 DEF JoinDone, At
  <2> HIDE DEF t
  <2> QED BY <1>4, <2>1, <2>2, MoveOnly DEF JoinDone
<1>5. CASE StopOne(a)
  <2>1. PICK w \in Front(thread[a]) : /\ ClaimAndStop(w)
                                      /\ Move(a, [thread[a] EXCEPT !.todo = @ \ {w}])
    BY <1>5 DEF StopOne
  <2> DEFINE t == [thread[a] EXCEPT !.todo = @ \ {w}]
  <2>2. w \in Workers /\ ~At(a, "idle")
    BY <1>5, <2>1 DEF Front, StopOne, At
  <2>3. t \in Thread /\ FramesFit(t)
    BY DEF Thread, FramesFit, Waiting
  <2>4. /\ handle' \in [Workers -> HandleStates] /\ struck' \in [Nodes -> Flags]
        /\ \A v \in Workers : /\ handle'[v] = "ready"  => handle[v] = "ready"
                              /\ handle'[v] = "unborn" => handle[v] = "unborn"
    BY <2>1, <2>2, ClaimAndStopTypes DEF Typing
  <2>5. Move(a, t)
    BY <2>1
  <2> HIDE DEF t
  <2>6. /\ thread' \in [Actors -> Thread]
        /\ ReadyHasEnding' /\ IdleIfUnborn'
        /\ \A b \in Actors : FramesFit(thread'[b])
    BY <1>5, <2>2, <2>3, <2>4, <2>5, MovePreserves DEF StopOne
  <2> QED BY <1>5, <2>4, <2>6 DEF StopOne, Typing, TypeOK
<1>6. CASE StopDone(a)
  <2> DEFINE t == [thread[a] EXCEPT !.pc = "drain"]
  <2>1. t \in Thread /\ FramesFit(t)
    BY <1>6 DEF StopDone, At, Thread, FramesFit, Waiting
  <2>2. Move(a, t) /\ ~At(a, "idle")
    BY <1>6 DEF StopDone, At
  <2> HIDE DEF t
  <2> QED BY <1>6, <2>1, <2>2, MoveOnly DEF StopDone
<1>7. CASE Leave(a)
  <2>1. ~At(a, "idle") /\ thread[a].pc \in {"stop", "drain"}
    BY <1>7 DEF Leave, At
  <2>2. Left(a, thread[a]) \in Thread /\ FramesFit(Left(a, thread[a]))
    BY <2>1, LeftIsThread
  <2>3. /\ thread' \in [Actors -> Thread]
        /\ ReadyHasEnding' /\ IdleIfUnborn'
        /\ \A b \in Actors : FramesFit(thread'[b])
    BY <1>7, <2>1, <2>2, MovePreserves DEF Leave
  <2>4. thread[a].verb = "exit" => Head(thread[a].frames) \in Owners
    BY <2>1 DEF FramesFit, Waiting
  <2>5. undrained' \in SUBSET Owners
    BY <1>7, <2>4 DEF Leave, Typing, TypeOK
  <2> QED BY <1>7, <2>3, <2>5 DEF Leave, Typing, TypeOK
<1> QED BY <1>2, <1>3, <1>4, <1>5, <1>6, <1>7

LEMMA BaseTyping ==
  ASSUME Typing,
         \/ RunReturns \/ OutliveDone \/ RunHalts \/ Wipe
         \/ \E a \in Actors : FinalPoll(a)
         \/ \E s \in Stages : StageEnds(s)
         \/ \E w \in Workers : Publish(w)
  PROVE  Typing'
<1> USE AtThread
<1>0. Main \in Actors /\ Stages \subseteq Actors /\ Workers \subseteq Actors
  BY DEF Actors
<1>m. /\ thread[Main] \in Thread /\ FramesFit(thread[Main]) /\ thread[Main].out \in Outcomes
      /\ thread[Main].frames \in Seq(Owners)
  BY <1>0
<1>1. CASE RunReturns
  <2>1. PICK l \in {{}, {w \in roster : scope[w] = {Root, w} /\ ~Claimed(w)}} :
          Move(Main, [thread[Main] EXCEPT !.pc = "poll", !.verb = "outlive", !.given = l, !.todo = l])
    BY <1>1 DEF RunReturns
  <2> DEFINE t == [thread[Main] EXCEPT !.pc = "poll", !.verb = "outlive", !.given = l, !.todo = l]
  <2>2. l \in SUBSET Workers
    BY DEF Typing, TypeOK
  <2>3. t \in Thread /\ FramesFit(t)
    BY <1>m, <1>1, <2>2 DEF RunReturns, Thread, FramesFit, Waiting
  <2>4. Move(Main, t) /\ ~At(Main, "idle")
    BY <1>1, <2>1 DEF RunReturns, At
  <2> HIDE DEF t
  <2> QED BY <1>0, <1>1, <2>3, <2>4, MoveOnly DEF RunReturns
<1>2. CASE OutliveDone
  <2> DEFINE t == Restart(thread[Main], "base", "ok")
  <2>1. t \in Thread /\ FramesFit(t)
    BY <1>m, <1>2 DEF OutliveDone, At, Restart, Thread, FramesFit, Waiting, Outcomes
  <2>2. Move(Main, t) /\ ~At(Main, "idle")
    BY <1>2 DEF OutliveDone, At
  <2> HIDE DEF t
  <2> QED BY <1>0, <1>2, <2>1, <2>2, MoveOnly DEF OutliveDone
<1>3. CASE RunHalts
  <2> DEFINE t == Restart(thread[Main], "base", thread[Main].out)
  <2>1. t \in Thread /\ FramesFit(t)
    BY <1>m, <1>3 DEF RunHalts, At, Restart, Thread, FramesFit, Waiting
  <2>2. Move(Main, t) /\ ~At(Main, "idle")
    BY <1>3 DEF RunHalts, At
  <2> HIDE DEF t
  <2> QED BY <1>0, <1>3, <2>1, <2>2, MoveOnly DEF RunHalts
<1>4. CASE Wipe
  <2> DEFINE t == [thread[Main] EXCEPT !.pc = "stop", !.verb = "wipe",
                                       !.given = Pruned(roster), !.todo = Pruned(roster)]
  <2>1. Pruned(roster) \in SUBSET Workers
    BY DEF Pruned, Typing, TypeOK
  <2>2. t \in Thread /\ FramesFit(t)
    BY <1>m, <1>4, <2>1 DEF Wipe, At, Thread, FramesFit, Waiting
  <2>3. /\ Move(Main, t) /\ ~At(Main, "idle") /\ roster' = {}
        /\ UNCHANGED <<handle, ending, struck, scope, member, kids, undrained>>
    BY <1>4 DEF Wipe, At
  <2> HIDE DEF t
  <2>4. /\ thread' \in [Actors -> Thread]
        /\ ReadyHasEnding' /\ IdleIfUnborn'
        /\ \A b \in Actors : FramesFit(thread'[b])
    BY <1>0, <2>2, <2>3, MovePreserves
  <2> QED BY <2>3, <2>4 DEF Typing, TypeOK
<1>5. ASSUME NEW a \in Actors, FinalPoll(a) PROVE Typing'
  <2> DEFINE t(o) == [thread[a] EXCEPT !.pc = "settled", !.out = o]
  <2>1. ASSUME NEW o \in Outcomes PROVE t(o) \in Thread /\ FramesFit(t(o))
    BY <1>5, <2>1 DEF FinalPoll, At, Thread, FramesFit, Waiting
  <2>2. \E o \in Outcomes : Move(a, t(o))
    <3>1. \A o \in Outcomes : Switched(a, o) \in Outcomes
      BY DEF Switched, Outcomes
    <3>2. \A o \in Outcomes, c \in Causes : Final(o, c) \in Outcomes
      BY DEF Final, Outcomes
    <3> QED BY <1>5, <3>1, <3>2 DEF FinalPoll
  <2>3. ~At(a, "idle") /\ UNCHANGED <<handle, ending, struck, scope, member, kids, roster, undrained>>
    BY <1>5 DEF FinalPoll, At
  <2> HIDE DEF t
  <2> QED BY <2>1, <2>2, <2>3, MoveOnly
<1>6. ASSUME NEW s \in Stages, StageEnds(s) PROVE Typing'
  <2> DEFINE t == [thread[s] EXCEPT !.pc = "done"]
  <2>1. t \in Thread /\ FramesFit(t)
    <3>1. /\ thread[s] \in Thread /\ FramesFit(thread[s])
      BY <1>0
    <3> QED BY <3>1, <1>6 DEF StageEnds, Thread, FramesFit, Waiting
  <2>2. Move(s, t) /\ ~At(s, "idle")
    BY <1>6 DEF StageEnds, At
  <2> HIDE DEF t
  <2> QED BY <1>0, <1>6, <2>1, <2>2, MoveOnly DEF StageEnds
<1>7. ASSUME NEW w \in Workers, Publish(w) PROVE Typing'
  <2>1. thread' = [thread EXCEPT ![w] = [Idle EXCEPT !.pc = "done"]]
    BY <1>7 DEF Publish, Move
  <2>2. [Idle EXCEPT !.pc = "done"] \in Thread /\ FramesFit([Idle EXCEPT !.pc = "done"])
    BY IdleIsThread DEF Idle, Thread, FramesFit, Waiting
  <2>3. thread' \in [Actors -> Thread] /\ \A b \in Actors : FramesFit(thread'[b])
    BY <1>0, <2>1, <2>2 DEF Typing
  <2>4. /\ handle' = [handle EXCEPT ![w] = IF handle[w] = "running" THEN "ready" ELSE "consumed"]
        /\ ending' = [ending EXCEPT ![w] = thread[w].out]
        /\ UNCHANGED <<struck, scope, member, kids, roster, undrained>>
    BY <1>7 DEF Publish, Published
  <2>5. thread[w].out \in Outcomes
    BY <1>0
  <2>6. /\ handle' \in [Workers -> HandleStates]
        /\ ending' \in [Workers -> Outcomes \cup {"none"}]
        /\ ReadyHasEnding'
    BY <2>4, <2>5 DEF Typing, TypeOK, ReadyHasEnding, HandleStates
  <2>7. IdleIfUnborn'
    BY <1>0, <2>1, <2>4 DEF Typing, TypeOK, IdleIfUnborn
  <2> QED BY <2>3, <2>4, <2>6, <2>7 DEF Typing, TypeOK
<1> QED BY <1>1, <1>2, <1>3, <1>4, <1>5, <1>6, <1>7

LEMMA HostTyping ==
  ASSUME Typing, Interrupt \/ Terminate \/ UNCHANGED vars
  PROVE  Typing'
<1>1. ASSUME NEW n \in Nodes, NEW c \in Causes, Strike(n, c) PROVE Typing'
  <2>1. struck' \in [Nodes -> Flags]
    BY <1>1, StrongerIsFlag DEF Strike, Typing, TypeOK, Flags
  <2> QED BY <1>1, <2>1 DEF Strike, Typing, TypeOK, ReadyHasEnding, IdleIfUnborn
<1>2. Main \in Nodes /\ Root \in Nodes /\ "interrupted" \in Causes /\ "terminated" \in Causes
  BY DEF Nodes, Actors, Causes
<1>3. CASE UNCHANGED vars
  BY <1>3 DEF vars, Typing, TypeOK, ReadyHasEnding, IdleIfUnborn
<1> QED BY <1>1, <1>2, <1>3 DEF Interrupt, Terminate

LEMMA TypingStep == Typing /\ [Next]_vars => Typing'
<1> SUFFICES ASSUME Typing, [Next]_vars PROVE Typing'
  OBVIOUS
<1>1. ASSUME NEW a \in Actors, Step(a) PROVE Typing'
  <2>1. CASE \E w \in Workers : Spawn(a, w)
    BY <2>1, SpawnTyping
  <2>2. CASE \E s \in Stages : Launch(a, s)
    BY <2>2, LaunchTyping
  <2>3. CASE SpawnRefused(a) \/ Register(a) \/ Enrol(a)
    BY <2>3, BirthTyping
  <2>4. CASE \/ \E g \in Gathers : OpenGather(a, g)
             \/ PipeEnd(a) \/ Poll(a) \/ Break(a) \/ Catch(a)
             \/ \E w \in Workers : Cancel(a, w)
    BY <2>4, BodyTyping
  <2>5. CASE \/ \E w \in Workers : Await(a, w)
             \/ \E v, w \in Workers : Race(a, v, w)
             \/ WaitPoll(a) \/ SweepClaim(a) \/ SweepNone(a)
    BY <2>5, WaitTyping
  <2>6. CASE \/ ReturnExit(a) \/ HaltExit(a) \/ JoinDone(a)
             \/ StopOne(a) \/ StopDone(a) \/ Leave(a)
    BY <2>6, ExitTyping
  <2>7. CASE FinalPoll(a)
    BY <2>7, BaseTyping
  <2> QED BY <1>1, <2>1, <2>2, <2>3, <2>4, <2>5, <2>6, <2>7 DEF Step
<1> QED BY <1>1, BaseTyping, HostTyping DEF Next, Gone

\* Every state the program reaches is well typed: each thread's control state,
\* handle, flag and membership stays in the enumeration its Rust type gives it.
THEOREM TypeCorrect == Spec => []TypeOK
<1>1. Typing => TypeOK
  BY DEF Typing
<1> QED BY InitTyping, TypingStep, <1>1, PTL DEF Spec

-----------------------------------------------------------------------------
(* No child is left unclaimed.  The argument: an owner takes its list of    *)
(* children once, after closing the membership (so no child is added behind *)
(* its back), walks every one of them, and leaves its frame last.           *)

\* A thread about to register or enrol a birth, or ending a brood, holds
\* handles of workers that were born.
Holding(b)   == \/ thread[b].pc \in {"register", "enrol"}
                \/ thread[b].verb = "exit" /\ thread[b].pc \in Waiting
HeldBorn(b)  == Holding(b) => thread[b].given \subseteq Born
FramesUsed(b) == \A o \in Elems(thread[b].frames) : member[o] # "unused"

\* Where a thread that ends a brood stands: the brood is closed, its children
\* are among those given, and each one is claimed or still to be reached.
ExitFits(b) ==
  LET o == Head(thread[b].frames)
  IN thread[b].verb = "exit" /\ thread[b].pc \in Waiting =>
       /\ member[o] = "closed"
       /\ kids[o] \subseteq thread[b].given
       /\ thread[b].todo \subseteq thread[b].given
       /\ \A w \in thread[b].given :
            Claimed(w) \/ (w \in thread[b].todo /\ thread[b].pc # "drain")

Sound(b) == HeldBorn(b) /\ FramesUsed(b) /\ ExitFits(b)

KidsBorn     == \A o \in Owners : kids[o] \subseteq Born
UnbornUnused == \A w \in Workers : handle[w] = "unborn" => member[w] = "unused"

Claiming == /\ Typing
            /\ KidsBorn
            /\ UnbornUnused
            /\ \A b \in Actors : Sound(b)
            /\ NoChildUnclaimed

\* What no step takes back.
HandlesKept ==
  \A w \in Workers : (Claimed(w) => Claimed(w)') /\ (w \in Born => w \in Born')
BroodsKept ==
  \A o \in Owners :
    /\ member[o] = "closed" => member'[o] = "closed" /\ kids'[o] \subseteq kids[o]
    /\ member[o] # "unused" => member'[o] # "unused"

LEMMA ElemsOfEmpty == Elems(<<>>) = {}
  BY DEF Elems

LEMMA ElemsOfOne ==
  ASSUME NEW o PROVE Elems(<<o>>) = {o}
  BY DEF Elems

LEMMA ElemsOfPushed ==
  ASSUME NEW s \in Seq(Owners), NEW o \in Owners
  PROVE  Elems(<<o>> \o s) = {o} \cup Elems(s)
<1> DEFINE p == <<o>> \o s
<1>1. /\ p \in Seq(Owners) /\ Len(p) = Len(s) + 1
      /\ p[1] = o /\ \A i \in 1 .. Len(s) : p[i + 1] = s[i]
  OBVIOUS
<1>2. \A i \in 1 .. Len(p) : i = 1 \/ (i - 1 \in 1 .. Len(s) /\ p[i] = s[i - 1])
  BY <1>1
<1>3. DOMAIN p = 1 .. Len(p) /\ DOMAIN s = 1 .. Len(s)
  BY <1>1
<1>4. 1 \in 1 .. Len(p) /\ \A i \in 1 .. Len(s) : i + 1 \in 1 .. Len(p)
  BY <1>1
<1> HIDE DEF p
<1>5. Elems(p) \subseteq {o} \cup Elems(s)
  BY <1>1, <1>2, <1>3 DEF Elems
<1>6. {o} \cup Elems(s) \subseteq Elems(p)
  BY <1>1, <1>3, <1>4 DEF Elems
<1> QED BY <1>5, <1>6 DEF p

LEMMA ElemsOfTail ==
  ASSUME NEW s \in Seq(Owners), s # <<>>
  PROVE  Elems(s) = {Head(s)} \cup Elems(Tail(s))
<1> DEFINE r == Tail(s)
           h == Head(s)
<1>1. /\ r \in Seq(Owners) /\ h \in Owners
      /\ s = <<h>> \o r
  OBVIOUS
<1> HIDE DEF r, h
<1>2. Elems(s) = {h} \cup Elems(r)
  BY <1>1, ElemsOfPushed
<1> QED BY <1>2 DEF r, h

\* The general step: threads that moved are sound again, and a brood's last
\* frame goes only when its children are claimed.
LEMMA ClaimingKept ==
  ASSUME Claiming, Typing', HandlesKept, BroodsKept, KidsBorn', UnbornUnused',
         \A b \in Actors : thread'[b] = thread[b] \/ Sound(b)',
         \A b \in Actors : \A o \in Elems(thread[b].frames) :
            \/ o \in Elems(thread'[b].frames)
            \/ \A w \in kids'[o] : Claimed(w)',
         \A o \in Owners : member'[o] = "closed" => member[o] = "closed" \/ Inside(o)'
  PROVE  Claiming'
<1>1. ASSUME NEW b \in Actors PROVE Sound(b)'
  <2>1. CASE Sound(b)'
    BY <2>1
  <2>2. CASE thread'[b] = thread[b]
    <3>1. /\ Sound(b) /\ thread[b].frames \in Seq(Owners)
          /\ thread[b].given \in SUBSET Workers /\ FramesFit(thread[b])
          /\ Elems(thread[b].frames) \subseteq Owners
      BY AtThread DEF Claiming, Elems
    <3>2. HeldBorn(b)'
      BY <2>2, <3>1 DEF HeldBorn, Holding, Sound, HandlesKept
    <3>3. FramesUsed(b)'
      BY <2>2, <3>1 DEF FramesUsed, Elems, Sound, BroodsKept
    <3>4. ExitFits(b)'
      <4> SUFFICES ASSUME thread[b].verb = "exit", thread[b].pc \in Waiting
                   PROVE  LET o == Head(thread[b].frames)
                          IN /\ member'[o] = "closed"
                             /\ kids'[o] \subseteq thread[b].given
                             /\ thread[b].todo \subseteq thread[b].given
                             /\ \A w \in thread[b].given :
                                  Claimed(w)' \/ (w \in thread[b].todo /\ thread[b].pc # "drain")
        BY <2>2 DEF ExitFits
      <4>1. Head(thread[b].frames) \in Owners
        BY <3>1 DEF FramesFit
      <4> QED BY <3>1, <4>1 DEF Sound, ExitFits, HandlesKept, BroodsKept
    <3> QED BY <3>2, <3>3, <3>4 DEF Sound
  <2> QED BY <2>1, <2>2
<1>2. NoChildUnclaimed'
  <2> SUFFICES ASSUME NEW o \in Owners, HasEnded(o)', NEW w \in kids'[o]
               PROVE  Claimed(w)'
    BY DEF NoChildUnclaimed
  <2>1. member'[o] = "closed" /\ ~Inside(o)' /\ member[o] = "closed" /\ kids'[o] \subseteq kids[o]
    BY DEF HasEnded, BroodsKept
  <2>2. CASE Inside(o)
    <3>1. PICK b \in Actors : o \in Elems(thread[b].frames)
      BY <2>2 DEF Inside
    <3>2. o \notin Elems(thread'[b].frames)
      BY <2>1 DEF Inside
    <3> QED BY <3>1, <3>2
  <2>3. CASE ~Inside(o)
    <3>1. w \in kids[o] /\ kids[o] \in SUBSET Workers
      BY <2>1 DEF Claiming, Typing, TypeOK
    <3> QED BY <2>1, <2>3, <3>1 DEF Claiming, NoChildUnclaimed, HasEnded, HandlesKept
  <2> QED BY <2>2, <2>3
<1> QED BY <1>1, <1>2 DEF Claiming

BirthsSame == \A w \in Workers : handle'[w] = "unborn" <=> handle[w] = "unborn"

\* A thread that holds no newborn and ends no brood.
Aside(t) == /\ t.pc \notin {"register", "enrol"}
            /\ ~(t.verb = "exit" /\ t.pc \in Waiting)

LEMMA HandlesUnmoved ==
  ASSUME handle' = handle PROVE HandlesKept /\ BirthsSame
  BY DEF HandlesKept, BirthsSame, Claimed, Born

LEMMA HandlesClaimed ==
  ASSUME Typing, NEW w \in Workers, ClaimAndStop(w) \/ ClaimReady(w)
  PROVE  HandlesKept /\ BirthsSame
<1>1. handle \in [Workers -> HandleStates]
  BY DEF Typing, TypeOK
<1>2. \A v \in Workers : v # w => handle'[v] = handle[v]
  BY <1>1 DEF ClaimAndStop, ClaimReady
<1>3. /\ handle[w] = "unborn" => handle'[w] = "unborn"
      /\ handle[w] # "unborn" => handle'[w] # "unborn"
      /\ Claimed(w) => handle'[w] \in {"stopping", "consumed"}
  BY <1>1 DEF ClaimAndStop, ClaimReady, Claimed, HandleStates
<1> QED BY <1>2, <1>3 DEF HandlesKept, BirthsSame, Claimed, Born

\* A step in which no brood changes and no frame comes or goes.
LEMMA ClaimingMove ==
  ASSUME Claiming, Typing', NEW a \in Actors,
         \A b \in Actors : b # a => thread'[b] = thread[b],
         thread'[a].frames = thread[a].frames,
         HeldBorn(a)', ExitFits(a)',
         UNCHANGED <<kids, member>>, HandlesKept, BirthsSame
  PROVE  Claiming'
<1>1. BroodsKept /\ \A o \in Owners : member'[o] = "closed" => member[o] = "closed"
  BY DEF BroodsKept
<1>2. KidsBorn' /\ UnbornUnused'
  BY DEF Claiming, KidsBorn, UnbornUnused, HandlesKept, BirthsSame, Typing, TypeOK
<1>3. FramesUsed(a)'
  BY DEF Claiming, Sound, FramesUsed, Elems
<1>4. \A b \in Actors : thread'[b] = thread[b] \/ Sound(b)'
  BY <1>3 DEF Sound
<1>5. \A b \in Actors : \A o \in Elems(thread[b].frames) : o \in Elems(thread'[b].frames)
  OBVIOUS
<1> QED BY <1>1, <1>2, <1>4, <1>5, ClaimingKept

LEMMA AsideMove ==
  ASSUME Claiming, Typing', NEW a \in Actors, NEW t,
         Move(a, t), Aside(t), t.frames = thread[a].frames,
         UNCHANGED <<kids, member>>, HandlesKept, BirthsSame
  PROVE  Claiming'
<1>1. thread' = [thread EXCEPT ![a] = t] /\ thread \in [Actors -> Thread]
  BY DEF Move, Claiming, Typing, TypeOK
<1>2. thread'[a] = t /\ \A b \in Actors : b # a => thread'[b] = thread[b]
  BY <1>1
<1>3. HeldBorn(a)' /\ ExitFits(a)'
  BY <1>2 DEF Aside, HeldBorn, Holding, ExitFits
<1> QED BY <1>2, <1>3, ClaimingMove

LEMMA BodyClaiming ==
  ASSUME Claiming, Typing', NEW a \in Actors,
         \/ SpawnRefused(a) \/ PipeEnd(a) \/ Poll(a) \/ Break(a) \/ Catch(a)
         \/ \E w \in Workers : Await(a, w)
         \/ \E v, w \in Workers : Race(a, v, w)
  PROVE  Claiming'
<1> DEFINE t0 == thread[a]
<1>1. t0 \in Thread
  BY AtThread DEF Claiming
<1>2. \A o : Aside(Concluded(t0, o)) /\ Concluded(t0, o).frames = t0.frames
  BY <1>1 DEF Aside, Concluded, Thread, Waiting
<1>3. \A o : LET t == [Concluded(t0, o) EXCEPT !.stage = Session]
             IN Aside(t) /\ t.frames = t0.frames
  BY <1>1 DEF Aside, Concluded, Thread, Waiting
<1>4. \E t : Move(a, t) /\ Aside(t) /\ t.frames = t0.frames
  <2>1. CASE SpawnRefused(a) \/ Poll(a) \/ Break(a) \/ Catch(a)
    BY <1>2, <2>1 DEF SpawnRefused, Poll, Break, Catch
  <2>2. CASE PipeEnd(a)
    BY <1>3, <2>2 DEF PipeEnd
  <2>3. ASSUME NEW w \in Workers, Await(a, w)
        PROVE  \E t : Move(a, t) /\ Aside(t) /\ t.frames = t0.frames
    <3> DEFINE t == [t0 EXCEPT !.pc = "poll", !.verb = "await", !.given = {w},
                               !.todo = {w}, !.known = @ \ {w}]
    <3>1. Aside(t) /\ t.frames = t0.frames
      BY <1>1 DEF Aside, Thread
    <3>2. Move(a, t)
      BY <2>3 DEF Await
    <3> HIDE DEF t
    <3> QED BY <3>1, <3>2
  <2>4. ASSUME NEW v \in Workers, NEW w \in Workers, Race(a, v, w)
        PROVE  \E t : Move(a, t) /\ Aside(t) /\ t.frames = t0.frames
    <3> DEFINE t == [t0 EXCEPT !.pc = "poll", !.verb = "race", !.given = {v, w},
                               !.todo = {v, w}, !.known = @ \ {v, w}]
    <3>1. Aside(t) /\ t.frames = t0.frames
      BY <1>1 DEF Aside, Thread
    <3>2. Move(a, t)
      BY <2>4 DEF Race
    <3> HIDE DEF t
    <3> QED BY <3>1, <3>2
  <2> QED BY <2>1, <2>2, <2>3, <2>4
<1>5. UNCHANGED <<kids, member>> /\ handle' = handle
  BY DEF SpawnRefused, PipeEnd, Poll, Break, Catch, Await, Race
<1> QED BY <1>4, <1>5, HandlesUnmoved, AsideMove

\* Steps that move no thread.
LEMMA HostClaiming ==
  ASSUME Claiming, Typing',
         \/ Interrupt \/ Terminate \/ UNCHANGED vars
         \/ \E a \in Actors, w \in Workers : Cancel(a, w)
  PROVE  Claiming'
<1>1. thread' = thread /\ UNCHANGED <<kids, member>>
  BY DEF Interrupt, Terminate, Strike, vars, Cancel
<1>2. HandlesKept /\ BirthsSame
  <2>1. CASE Interrupt \/ Terminate \/ UNCHANGED vars
    BY <2>1, HandlesUnmoved DEF Interrupt, Terminate, Strike, vars
  <2>2. ASSUME NEW a \in Actors, NEW w \in Workers, Cancel(a, w)
        PROVE  HandlesKept /\ BirthsSame
    BY <2>2, HandlesClaimed DEF Cancel, Claiming
  <2> QED BY <2>1, <2>2
<1>3. BroodsKept /\ \A o \in Owners : member'[o] = "closed" => member[o] = "closed"
  BY <1>1 DEF BroodsKept
<1>4. KidsBorn' /\ UnbornUnused'
  BY <1>1, <1>2 DEF Claiming, KidsBorn, UnbornUnused, HandlesKept, BirthsSame, Typing, TypeOK
<1>5. /\ \A b \in Actors : thread'[b] = thread[b]
      /\ \A b \in Actors : \A o \in Elems(thread[b].frames) : o \in Elems(thread'[b].frames)
  BY <1>1
<1> QED BY <1>2, <1>3, <1>4, <1>5, ClaimingKept

-----------------------------------------------------------------------------
(* The waits. *)

\* A join takes its children one at a time.
LEMMA FrontIsOne ==
  ASSUME NEW t \in Thread, t.verb # "race", NEW v \in Front(t), NEW w \in Front(t)
  PROVE  v = w
<1>1. v \in Workers /\ w \in Workers /\ v <= w /\ w <= v
  BY DEF Front, Thread
<1> QED BY <1>1, CapAssumption DEF Workers

LEMMA FrontIsGiven ==
  ASSUME NEW t \in Thread PROVE Front(t) \subseteq t.todo /\ t.todo \subseteq Workers
  BY DEF Front, Thread

\* A wait of an owner's join: one more round, the next child, or the stop.
LEMMA ExitMove ==
  ASSUME Claiming, Typing', NEW a \in Actors, NEW t \in Thread, Move(a, t),
         thread[a].verb = "exit", thread[a].pc \in Waiting,
         t.verb = "exit", t.pc \in Waiting,
         t.frames = thread[a].frames, t.given = thread[a].given,
         t.todo \subseteq t.given,
         \A w \in t.given : \/ Claimed(w)'
                            \/ w \in t.todo /\ t.pc # "drain",
         UNCHANGED <<kids, member>>, HandlesKept, BirthsSame
  PROVE  Claiming'
<1>1. thread' = [thread EXCEPT ![a] = t] /\ thread \in [Actors -> Thread]
  BY DEF Move, Claiming, Typing, TypeOK
<1>2. thread'[a] = t /\ \A b \in Actors : b # a => thread'[b] = thread[b]
  BY <1>1
<1>3. /\ Sound(a) /\ Holding(a) /\ thread[a].given \in SUBSET Workers
      /\ thread[a].frames # <<>> /\ Head(thread[a].frames) \in Owners
  BY AtThread DEF Claiming, Holding, FramesFit
<1>4. HeldBorn(a)'
  BY <1>2, <1>3 DEF HeldBorn, Sound, HandlesKept
<1>5. ExitFits(a)'
  BY <1>2, <1>3 DEF ExitFits, Sound
<1> QED BY <1>2, <1>4, <1>5, ClaimingMove

LEMMA WaitEndsClaiming ==
  ASSUME Claiming, Typing', NEW a \in Actors, NEW o \in Outcomes,
         thread[a].pc \in {"poll", "sweep"}, Move(a, WaitEnds(thread[a], o)),
         thread[a].verb = "exit" /\ o = "ok" => \A w \in Front(thread[a]) : Claimed(w)',
         UNCHANGED <<kids, member>>, HandlesKept, BirthsSame
  PROVE  Claiming'
<1> DEFINE t0 == thread[a]
           t  == WaitEnds(t0, o)
<1>1. t0 \in Thread /\ FramesFit(t0) /\ t \in Thread
  BY AtThread, WaitEndsIsThread DEF Claiming
<1>2. CASE t0.verb = "exit"
  <2>1. /\ t.verb = "exit" /\ t.pc \in {"poll", "stop"}
        /\ t.frames = t0.frames /\ t.given = t0.given
        /\ IF o = "ok" THEN t.todo = t0.todo \ Front(t0) ELSE t.todo = t0.given
    <3>1. CASE o = "ok"
      BY <1>1, <1>2, <3>1 DEF WaitEnds, NextOne, Thread
    <3>2. CASE o # "ok"
      BY <1>1, <1>2, <3>2 DEF WaitEnds, Restart, Thread
    <3> QED BY <3>1, <3>2
  <2>2. ExitFits(a) /\ t0.given \in SUBSET Workers
    BY <1>1 DEF Claiming, Sound, Thread
  <2>3. t.todo \subseteq t.given
    BY <1>2, <2>1, <2>2 DEF ExitFits, Waiting
  <2>4. \A w \in t.given : Claimed(w)' \/ w \in t.todo
    BY <1>2, <2>1, <2>2 DEF ExitFits, Waiting, HandlesKept
  <2> HIDE DEF t
  <2> QED BY <1>1, <1>2, <2>1, <2>3, <2>4, ExitMove DEF Waiting, t
<1>3. CASE t0.verb # "exit"
  <2>1. t0.verb \in {"await", "race", "outlive"}
    BY <1>1, <1>3 DEF FramesFit
  <2>2. Aside(t) /\ t.frames = t0.frames
    <3>1. CASE t0.verb = "await"
      BY <1>1, <3>1 DEF WaitEnds, Concluded, Aside, Thread, Waiting
    <3>2. CASE t0.verb = "race"
      BY <1>1, <3>2 DEF WaitEnds, Restart, Aside, Thread, Waiting
    <3>3. CASE t0.verb = "outlive" /\ o # "ok"
      BY <1>1, <3>3 DEF WaitEnds, Restart, Aside, Thread, Waiting
    <3>4. CASE t0.verb = "outlive" /\ o = "ok"
      BY <1>1, <3>4 DEF WaitEnds, NextOne, Aside, Thread, Waiting
    <3> QED BY <2>1, <3>1, <3>2, <3>3, <3>4
  <2> HIDE DEF t
  <2> QED BY <2>2, AsideMove DEF t
<1> QED BY <1>2, <1>3

\* To the sweep, or back to the poll.
LEMMA RoundClaiming ==
  ASSUME Claiming, Typing', NEW a \in Actors, NEW pc \in {"poll", "sweep"},
         thread[a].pc \in {"poll", "sweep"}, Move(a, [thread[a] EXCEPT !.pc = pc]),
         UNCHANGED <<handle, kids, member>>
  PROVE  Claiming'
<1> DEFINE t == [thread[a] EXCEPT !.pc = pc]
<1>1. /\ thread[a] \in Thread /\ t \in Thread
      /\ t.verb = thread[a].verb /\ t.pc = pc /\ t.frames = thread[a].frames
      /\ t.given = thread[a].given /\ t.todo = thread[a].todo
  BY AtThread DEF Claiming, Thread
<1>2. Move(a, t) /\ HandlesKept /\ BirthsSame
  BY HandlesUnmoved
<1> HIDE DEF t
<1>3. CASE thread[a].verb = "exit"
  <2>1. /\ t.todo \subseteq t.given
        /\ \A w \in t.given : Claimed(w)' \/ w \in t.todo
    <3>1. ExitFits(a) /\ t.given \in SUBSET Workers
      BY <1>1 DEF Claiming, Sound, Thread
    <3> QED BY <1>1, <1>2, <1>3, <3>1 DEF ExitFits, Waiting, HandlesKept
  <2> QED BY <1>1, <1>2, <1>3, <2>1, ExitMove DEF Waiting
<1>4. CASE thread[a].verb # "exit"
  <2>1. Aside(t)
    BY <1>1, <1>4 DEF Aside
  <2> QED BY <1>1, <1>2, <2>1, AsideMove
<1> QED BY <1>3, <1>4

LEMMA WaitClaiming ==
  ASSUME Claiming, Typing', NEW a \in Actors,
         WaitPoll(a) \/ SweepClaim(a) \/ SweepNone(a)
  PROVE  Claiming'
<1> DEFINE t0 == thread[a]
<1>1. t0 \in Thread /\ Front(t0) \subseteq t0.todo /\ t0.todo \subseteq Workers
  BY AtThread, FrontIsGiven DEF Claiming
<1>2. CASE WaitPoll(a)
  <2>1. /\ t0.pc = "poll" /\ UNCHANGED <<handle, kids, member>>
        /\ \/ Move(a, [t0 EXCEPT !.pc = "sweep"])
           \/ \E c \in Causes : Move(a, WaitEnds(t0, c))
    BY <1>2 DEF WaitPoll, At
  <2>2. ASSUME NEW c \in Causes, Move(a, WaitEnds(t0, c)) PROVE Claiming'
    <3>1. c \in Outcomes /\ c # "ok"
      BY DEF Outcomes, Causes
    <3> QED BY <2>1, <2>2, <3>1, HandlesUnmoved, WaitEndsClaiming
  <2>3. CASE Move(a, [t0 EXCEPT !.pc = "sweep"])
    BY <2>1, <2>3, RoundClaiming
  <2> QED BY <2>1, <2>2, <2>3
<1>3. CASE SweepClaim(a)
  <2>1. PICK w \in Front(t0) : ClaimReady(w) /\ Move(a, WaitEnds(t0, Met(t0, ending[w])))
    BY <1>3 DEF SweepClaim
  <2>2. t0.pc = "sweep" /\ UNCHANGED <<kids, member>> /\ w \in Workers
    BY <1>1, <1>3, <2>1 DEF SweepClaim, At
  <2>3. Met(t0, ending[w]) \in Outcomes
    BY <2>1, <2>2 DEF ClaimReady, Claiming, Typing, ReadyHasEnding, Met, Outcomes
  <2>4. HandlesKept /\ BirthsSame /\ Claimed(w)'
    BY <2>1, <2>2, HandlesClaimed, ClaimReadyTypes DEF Claiming, Typing, Claimed
  <2>5. t0.verb = "exit" => \A v \in Front(t0) : v = w
    BY <1>1, FrontIsOne
  <2>6. t0.verb = "exit" => \A v \in Front(t0) : Claimed(v)'
    BY <2>4, <2>5
  <2> QED BY <2>1, <2>2, <2>3, <2>4, <2>6, WaitEndsClaiming
<1>4. CASE SweepNone(a)
  <2>1. /\ t0.pc = "sweep" /\ UNCHANGED <<handle, kids, member>>
        /\ \A w \in Front(t0) : handle[w] # "ready"
    BY <1>4 DEF SweepNone, At
  <2>2. CASE \E w \in Front(t0) : handle[w] = "running"
    <3>1. Move(a, [t0 EXCEPT !.pc = "poll"])
      BY <1>4, <2>2 DEF SweepNone
    <3> QED BY <2>1, <3>1, RoundClaiming
  <2>3. CASE ~\E w \in Front(t0) : handle[w] = "running"
    <3>1. PICK o \in {"err", "ok"} : Move(a, WaitEnds(t0, o))
      BY <1>4, <2>3 DEF SweepNone
    <3>2. ASSUME t0.verb = "exit", NEW w \in Front(t0) PROVE Claimed(w)'
      <4>1. w \in Workers /\ w \in t0.given /\ t0.given \subseteq Born
        BY <1>1, <2>1, <3>2 DEF Claiming, Sound, ExitFits, HeldBorn, Holding, Waiting
      <4>2. handle[w] \in HandleStates /\ handle[w] # "unborn"
        BY <4>1 DEF Claiming, Typing, TypeOK, Born
      <4> QED BY <2>1, <2>3, <4>2 DEF HandleStates, Claimed
    <3>3. o \in Outcomes
      BY DEF Outcomes
    <3> QED BY <2>1, <3>1, <3>2, <3>3, HandlesUnmoved, WaitEndsClaiming
  <2> QED BY <2>2, <2>3
<1> QED BY <1>2, <1>3, <1>4

-----------------------------------------------------------------------------
(* Births, and what opens a brood. *)

LEMMA CradleIsOwner ==
  ASSUME Typing, NEW a \in Actors
  PROVE  /\ Cradle(a) \in Owners \cup {Session}
         /\ Session \notin Owners
<1>1. thread[a].frames \in Seq(Owners) /\ thread[a].cradle \in Owners \cup {Session}
  BY AtThread DEF Thread
<1>2. Session \notin Owners
  BY NamesAssumption DEF Owners
<1> QED BY <1>1, <1>2 DEF Cradle

LEMMA EnrolClaiming ==
  ASSUME Claiming, Typing', NEW a \in Actors, Register(a) \/ Enrol(a)
  PROVE  Claiming'
<1> DEFINE t0 == thread[a]
<1>1. /\ t0 \in Thread /\ t0.given \in SUBSET Workers /\ Sound(a)
      /\ thread \in [Actors -> Thread]
  BY AtThread DEF Claiming
<1>2. CASE Register(a)
  <2> DEFINE t == [t0 EXCEPT !.pc = "enrol"]
  <2>1. /\ t.pc = "enrol" /\ t.verb = t0.verb /\ t.given = t0.given
        /\ t.frames = t0.frames /\ t0.pc = "register"
    BY <1>1, <1>2 DEF Thread, Register, At
  <2>2. Move(a, t) /\ handle' = handle /\ UNCHANGED <<kids, member>>
    BY <1>2 DEF Register
  <2> HIDE DEF t
  <2>3. thread'[a] = t /\ \A b \in Actors : b # a => thread'[b] = thread[b]
    BY <1>1, <2>2 DEF Move
  <2>4. HeldBorn(a)' /\ ExitFits(a)'
    BY <1>1, <2>1, <2>2, <2>3 DEF Sound, HeldBorn, Holding, ExitFits, Born, Waiting
  <2> QED BY <2>1, <2>2, <2>3, <2>4, HandlesUnmoved, ClaimingMove
<1>3. CASE Enrol(a)
  <2>1. PICK w \in t0.given :
          IF Cradle(a) = Session \/ member[Cradle(a)] = "open"
            THEN /\ kids' \in Enrolled(Cradle(a), w)
                 /\ Move(a, [Concluded(t0, "ok") EXCEPT !.known = @ \cup {w}])
                 /\ UNCHANGED <<handle, struck>>
            ELSE /\ ClaimAndStop(w)
                 /\ Move(a, Concluded(t0, "err"))
                 /\ UNCHANGED kids
    BY <1>3 DEF Enrol
  <2>2. w \in Workers /\ w \in Born /\ member' = member
    BY <1>1, <1>3 DEF Enrol, At, Sound, HeldBorn, Holding
  <2>3. CASE ~(Cradle(a) = Session \/ member[Cradle(a)] = "open")
    <3>1. ClaimAndStop(w) /\ Move(a, Concluded(t0, "err")) /\ kids' = kids
      BY <2>1, <2>3
    <3>2. Aside(Concluded(t0, "err")) /\ Concluded(t0, "err").frames = t0.frames
      BY <1>1 DEF Aside, Concluded, Thread, Waiting
    <3>3. HandlesKept /\ BirthsSame
      BY <2>2, <3>1, HandlesClaimed DEF Claiming
    <3> QED BY <2>2, <3>1, <3>2, <3>3, AsideMove
  <2>4. CASE Cradle(a) = Session \/ member[Cradle(a)] = "open"
    <3> DEFINE t == [Concluded(t0, "ok") EXCEPT !.known = @ \cup {w}]
    <3>1. t.pc = "body" /\ t.verb = "none" /\ t.frames = t0.frames
      BY <1>1 DEF Concluded, Thread
    <3>2. Move(a, t) /\ handle' = handle /\ kids' \in Enrolled(Cradle(a), w)
      BY <2>1, <2>4
    <3> HIDE DEF t
    <3>3. thread'[a] = t /\ \A b \in Actors : b # a => thread'[b] = thread[b]
      BY <1>1, <3>2 DEF Move
    <3>4. HandlesKept /\ BirthsSame
      BY <3>2, HandlesUnmoved
    <3>5. \A o \in Owners : /\ member[o] = "closed" => kids'[o] \subseteq kids[o]
                            /\ kids'[o] \subseteq kids[o] \cup {w}
      <4>1. kids \in [Owners -> SUBSET Workers] /\ \A o \in Owners : Pruned(kids[o]) \subseteq kids[o]
        BY DEF Claiming, Typing, TypeOK, Pruned
      <4>2. Cradle(a) \in Owners \cup {Session} /\ Session \notin Owners
        BY CradleIsOwner DEF Claiming
      <4> QED BY <2>4, <3>2, <4>1, <4>2 DEF Enrolled
    <3>6. KidsBorn' /\ UnbornUnused'
      BY <2>2, <3>2, <3>4, <3>5 DEF Claiming, KidsBorn, UnbornUnused, HandlesKept, BirthsSame, Born
    <3>7. BroodsKept
      BY <2>2, <3>5 DEF BroodsKept
    <3>8. Sound(a)'
      <4>1. HeldBorn(a)' /\ ExitFits(a)'
        BY <3>1, <3>3 DEF HeldBorn, Holding, ExitFits, Waiting
      <4>2. FramesUsed(a)'
        BY <1>1, <2>2, <3>1, <3>3 DEF Sound, FramesUsed, Elems
      <4> QED BY <4>1, <4>2 DEF Sound
    <3>9. \A b \in Actors : thread'[b] = thread[b] \/ Sound(b)'
      BY <3>3, <3>8
    <3>10. \A b \in Actors : thread'[b].frames = thread[b].frames
      BY <3>1, <3>3
    <3> QED BY <2>2, <3>4, <3>6, <3>7, <3>9, <3>10, ClaimingKept
  <2> QED BY <2>3, <2>4
<1> QED BY <1>2, <1>3

LEMMA OpenClaiming ==
  ASSUME Claiming, Typing', NEW a \in Actors, NEW g \in Gathers, OpenGather(a, g)
  PROVE  Claiming'
<1> DEFINE t0 == thread[a]
           t  == [t0 EXCEPT !.frames = <<g>> \o @]
<1>1. /\ t0 \in Thread /\ t0.frames \in Seq(Owners) /\ Sound(a) /\ g \in Owners
      /\ thread \in [Actors -> Thread] /\ t0.pc = "body" /\ member[g] = "unused"
      /\ member \in [Owners -> {"unused", "open", "closed"}]
  BY AtThread DEF Claiming, OpenGather, At, Owners, Typing, TypeOK
<1>2. t.pc = "body" /\ t.frames = <<g>> \o t0.frames
  BY <1>1 DEF Thread
<1>3. Elems(t.frames) = {g} \cup Elems(t0.frames)
  BY <1>1, <1>2, ElemsOfPushed
<1>4. Move(a, t) /\ handle' = handle /\ kids' = kids /\ member' = [member EXCEPT ![g] = "open"]
  BY DEF OpenGather
<1> HIDE DEF t
<1>5. thread'[a] = t /\ \A b \in Actors : b # a => thread'[b] = thread[b]
  BY <1>1, <1>4 DEF Move
<1>6. HandlesKept /\ BirthsSame
  BY <1>4, HandlesUnmoved
<1>7. /\ BroodsKept
      /\ \A o \in Owners : member'[o] = "closed" => member[o] = "closed"
  BY <1>1, <1>4 DEF BroodsKept
<1>8. KidsBorn' /\ UnbornUnused'
  <2>1. \A w \in Workers : w # g /\ w \in Owners
    BY NamesAssumption DEF Owners
  <2> QED BY <1>1, <1>4, <2>1 DEF Claiming, KidsBorn, UnbornUnused, Born
<1>9. Sound(a)'
  <2>1. HeldBorn(a)' /\ ExitFits(a)'
    BY <1>2, <1>5 DEF HeldBorn, Holding, ExitFits, Waiting
  <2>2. FramesUsed(a)'
    <3>1. Elems(t0.frames) \subseteq Owners
      BY <1>1 DEF Elems
    <3> QED BY <1>1, <1>3, <1>4, <1>5, <3>1 DEF Sound, FramesUsed, Elems
  <2> QED BY <2>1, <2>2 DEF Sound
<1>10. \A b \in Actors : \A o \in Elems(thread[b].frames) : o \in Elems(thread'[b].frames)
  BY <1>3, <1>5
<1>11. \A b \in Actors : thread'[b] = thread[b] \/ Sound(b)'
  BY <1>5, <1>9
<1> QED BY <1>6, <1>7, <1>8, <1>10, <1>11, ClaimingKept

\* A thread that starts: a worker under its own brood, or a stage.
LEMMA SpawnClaiming ==
  ASSUME Claiming, Typing', NEW a \in Actors, NEW w \in Workers, Spawn(a, w)
  PROVE  Claiming'
<1> DEFINE born   == [Idle EXCEPT !.pc = "body", !.frames = <<w>>, !.known = thread[a].known]
           parent == [thread[a] EXCEPT !.pc = "register", !.given = {w}]
<1>1. /\ thread \in [Actors -> Thread] /\ thread[a] \in Thread /\ w \in Actors /\ w \in Owners
      /\ handle \in [Workers -> HandleStates]
      /\ member \in [Owners -> {"unused", "open", "closed"}]
  BY DEF Claiming, Typing, TypeOK, Actors, Owners
<1>2. /\ thread[w].pc = "idle" /\ thread[a].pc = "body" /\ a # w /\ handle[w] = "unborn"
      /\ thread[w].frames = <<>>
  BY <1>1 DEF Spawn, Claiming, Typing, IdleIfUnborn, At, NextId, FramesFit
<1>3. born.pc = "body" /\ born.frames = <<w>>
  BY DEF Idle
<1>4. parent.pc = "register" /\ parent.given = {w} /\ parent.frames = thread[a].frames
  BY <1>1 DEF Thread
<1>5. /\ thread' = [thread EXCEPT ![w] = born, ![a] = parent]
      /\ handle' = [handle EXCEPT ![w] = "running"]
      /\ member' = [member EXCEPT ![w] = "open"]
      /\ kids' = kids
  BY <1>1, <1>2 DEF Spawn
<1> HIDE DEF born, parent
<1>6. /\ thread'[w] = born /\ thread'[a] = parent
      /\ \A b \in Actors : b # a /\ b # w => thread'[b] = thread[b]
  BY <1>1, <1>2, <1>5
<1>7. HandlesKept /\ w \in Born'
  BY <1>1, <1>2, <1>5 DEF HandlesKept, Claimed, Born
<1>8. /\ BroodsKept
      /\ \A o \in Owners : member'[o] = "closed" => member[o] = "closed"
  <2>1. member[w] = "unused"
    BY <1>2 DEF Claiming, UnbornUnused
  <2> QED BY <1>1, <1>5, <2>1 DEF BroodsKept
<1>9. KidsBorn' /\ UnbornUnused'
  <2>1. \A v \in Workers : v \in Owners
    BY DEF Owners
  <2>2. \A v \in Workers : v # w => handle'[v] = handle[v] /\ member'[v] = member[v]
    BY <1>1, <1>5, <2>1
  <2>3. UnbornUnused'
    BY <1>1, <1>5, <2>2 DEF Claiming, UnbornUnused
  <2>4. KidsBorn'
    BY <1>5, <1>7 DEF Claiming, KidsBorn, HandlesKept, Typing, TypeOK
  <2> QED BY <2>3, <2>4
<1>10. Sound(a)'
  <2>1. HeldBorn(a)' /\ ExitFits(a)'
    BY <1>4, <1>6, <1>7 DEF HeldBorn, Holding, ExitFits, Waiting
  <2>2. FramesUsed(a)'
    <3>1. Elems(thread[a].frames) \subseteq Owners
      BY AtThread DEF Claiming, Elems
    <3> QED BY <1>4, <1>6, <1>8, <3>1 DEF Claiming, Sound, FramesUsed, BroodsKept, Elems
  <2> QED BY <2>1, <2>2 DEF Sound
<1>11. Sound(w)'
  <2>1. HeldBorn(w)' /\ ExitFits(w)'
    BY <1>3, <1>6 DEF HeldBorn, Holding, ExitFits, Waiting
  <2>2. FramesUsed(w)'
    <3>1. thread'[w].frames = <<w>> /\ member'[w] = "open"
      BY <1>1, <1>3, <1>5, <1>6
    <3>2. Elems(thread'[w].frames) = {w}
      BY <3>1, ElemsOfOne
    <3> QED BY <3>1, <3>2 DEF FramesUsed, Elems
  <2> QED BY <2>1, <2>2 DEF Sound
<1>12. \A b \in Actors : thread'[b] = thread[b] \/ Sound(b)'
  BY <1>6, <1>10, <1>11
<1>13. \A b \in Actors : \A o \in Elems(thread[b].frames) : o \in Elems(thread'[b].frames)
  <2>1. Elems(thread[w].frames) = {}
    BY <1>2, ElemsOfEmpty
  <2> QED BY <1>4, <1>6, <2>1
<1> QED BY <1>7, <1>8, <1>9, <1>12, <1>13, ClaimingKept

LEMMA LaunchClaiming ==
  ASSUME Claiming, Typing', NEW a \in Actors, NEW s \in Stages, Launch(a, s)
  PROVE  Claiming'
<1> DEFINE stage  == [Idle EXCEPT !.pc = "body", !.cradle = Cradle(a), !.known = thread[a].known]
           parent == [thread[a] EXCEPT !.pc = "pipe", !.stage = s]
<1>1. thread \in [Actors -> Thread] /\ thread[a] \in Thread /\ s \in Actors
  BY DEF Claiming, Typing, TypeOK, Actors
<1>2. thread[s].pc = "idle" /\ thread[a].pc = "body" /\ a # s /\ thread[s].frames = <<>>
  BY <1>1 DEF Launch, At, Claiming, Typing, FramesFit
<1>3. stage.pc = "body" /\ stage.frames = <<>>
  BY DEF Idle
<1>4. parent.pc = "pipe" /\ parent.frames = thread[a].frames
  BY <1>1 DEF Thread
<1>5. /\ thread' = [thread EXCEPT ![s] = stage, ![a] = parent]
      /\ UNCHANGED <<handle, member, kids>>
  BY <1>1, <1>2 DEF Launch
<1> HIDE DEF stage, parent
<1>6. /\ thread'[s] = stage /\ thread'[a] = parent
      /\ \A b \in Actors : b # a /\ b # s => thread'[b] = thread[b]
  BY <1>1, <1>2, <1>5
<1>7. HandlesKept /\ BirthsSame
  BY <1>5, HandlesUnmoved
<1>8. /\ BroodsKept /\ KidsBorn' /\ UnbornUnused'
      /\ \A o \in Owners : member'[o] = "closed" => member[o] = "closed"
  BY <1>5 DEF BroodsKept, Claiming, KidsBorn, UnbornUnused, Born
<1>9. \A b \in Actors : thread'[b].frames = thread[b].frames
  BY <1>2, <1>3, <1>4, <1>6
<1>10. \A b \in {a, s} : Sound(b)'
  <2>1. \A b \in {a, s} : HeldBorn(b)' /\ ExitFits(b)'
    BY <1>3, <1>4, <1>6 DEF HeldBorn, Holding, ExitFits, Waiting
  <2>2. \A b \in {a, s} : FramesUsed(b)'
    BY <1>1, <1>5, <1>9 DEF Claiming, Sound, FramesUsed, Elems
  <2> QED BY <2>1, <2>2 DEF Sound
<1>11. \A b \in Actors : thread'[b] = thread[b] \/ Sound(b)'
  BY <1>6, <1>10
<1> QED BY <1>7, <1>8, <1>9, <1>11, ClaimingKept

-----------------------------------------------------------------------------
(* The end of an owner. *)

\* The close and the list are one step: from here on the list is complete.
LEMMA ExitingClaiming ==
  ASSUME Claiming, Typing', NEW a \in Actors, NEW pc \in {"poll", "stop"}, Exiting(a, pc)
  PROVE  Claiming'
<1> DEFINE t0 == thread[a]
           o  == Head(t0.frames)
           t  == [t0 EXCEPT !.pc = pc, !.verb = "exit",
                            !.given = Pruned(kids[o]), !.todo = Pruned(kids[o])]
<1>1. /\ t0 \in Thread /\ t0.frames \in Seq(Owners) /\ t0.frames # <<>> /\ Sound(a)
      /\ thread \in [Actors -> Thread]
      /\ kids \in [Owners -> SUBSET Workers]
      /\ member \in [Owners -> {"unused", "open", "closed"}]
  BY AtThread DEF Claiming, Exiting, Typing, TypeOK
<1>2. o \in Owners /\ o \in Elems(t0.frames) /\ Elems(t0.frames) \subseteq Owners
  BY <1>1, ElemsOfTail DEF Elems
<1>3. /\ t.pc = pc /\ t.verb = "exit" /\ t.frames = t0.frames
      /\ t.given = Pruned(kids[o]) /\ t.todo = Pruned(kids[o])
  BY <1>1 DEF Thread
<1>4. /\ Move(a, t) /\ handle' = handle
      /\ member' = [member EXCEPT ![o] = "closed"]
      /\ kids' = [kids EXCEPT ![o] = Pruned(kids[o])]
  BY DEF Exiting, Close
<1> HIDE DEF t, o
<1>5. thread'[a] = t /\ \A b \in Actors : b # a => thread'[b] = thread[b]
  BY <1>1, <1>4 DEF Move
<1>6. HandlesKept /\ BirthsSame
  BY <1>4, HandlesUnmoved
<1>7. Pruned(kids[o]) \subseteq kids[o] /\ kids'[o] = Pruned(kids[o]) /\ member'[o] = "closed"
  BY <1>1, <1>2, <1>4 DEF Pruned
<1>8. BroodsKept
  BY <1>1, <1>2, <1>4, <1>7 DEF BroodsKept
<1>9. KidsBorn' /\ UnbornUnused'
  <2>1. KidsBorn'
    BY <1>1, <1>2, <1>4, <1>7 DEF Claiming, KidsBorn, Born
  <2>2. member[o] # "unused"
    BY <1>1, <1>2 DEF Sound, FramesUsed
  <2>3. UnbornUnused'
    BY <1>1, <1>2, <1>4, <2>2 DEF Claiming, UnbornUnused, Owners
  <2> QED BY <2>1, <2>3
<1>10. Sound(a)'
  <2>1. HeldBorn(a)'
    BY <1>2, <1>3, <1>4, <1>5, <1>7 DEF HeldBorn, Claiming, KidsBorn, Born
  <2>2. FramesUsed(a)'
    <3>1. \A x \in Elems(t.frames) : member'[x] # "unused"
      BY <1>1, <1>2, <1>3, <1>8 DEF Sound, FramesUsed, BroodsKept
    <3> QED BY <1>5, <3>1 DEF FramesUsed, Elems
  <2>3. ExitFits(a)'
    <3>1. Head(thread'[a].frames) = o
      BY <1>3, <1>5 DEF o
    <3> QED BY <1>3, <1>5, <1>7, <3>1 DEF ExitFits
  <2> QED BY <2>1, <2>2, <2>3 DEF Sound
<1>11. \A b \in Actors : thread'[b].frames = thread[b].frames
  BY <1>3, <1>5
<1>12. \A x \in Owners : member'[x] = "closed" => member[x] = "closed" \/ Inside(x)'
  <2>1. ASSUME NEW x \in Owners, x = o PROVE Inside(x)'
    <3>1. x \in Elems(thread'[a].frames)
      BY <1>2, <1>11, <2>1
    <3> QED BY <3>1 DEF Inside, Elems
  <2> QED BY <1>1, <1>4, <2>1
<1>13. \A b \in Actors : thread'[b] = thread[b] \/ Sound(b)'
  BY <1>5, <1>10
<1> QED BY <1>6, <1>8, <1>9, <1>11, <1>12, <1>13, ClaimingKept

LEMMA StopClaiming ==
  ASSUME Claiming, Typing', NEW a \in Actors, JoinDone(a) \/ StopOne(a) \/ StopDone(a)
  PROVE  Claiming'
<1> DEFINE t0 == thread[a]
<1>1. /\ t0 \in Thread /\ t0.given \in SUBSET Workers /\ FramesFit(t0)
      /\ Sound(a) /\ Front(t0) \subseteq t0.todo /\ t0.todo \subseteq Workers
  BY AtThread, FrontIsGiven DEF Claiming
<1>2. CASE JoinDone(a)
  <2> DEFINE t == Restart(t0, "drain", "ok")
  <2>1. /\ t \in Thread /\ t.verb = t0.verb /\ t.pc = "drain" /\ t.frames = t0.frames
        /\ t.given = t0.given /\ t.todo = t0.given
    BY <1>1 DEF Restart, Thread, Outcomes
  <2>2. /\ Move(a, t) /\ handle' = handle /\ UNCHANGED <<kids, member>>
        /\ t0.verb = "exit" /\ t0.pc = "poll" /\ t0.todo = {}
    BY <1>2 DEF JoinDone, At, Finished
  <2> HIDE DEF t
  <2>3. HandlesKept /\ BirthsSame /\ \A w \in t.given : Claimed(w)'
    BY <1>1, <2>1, <2>2, HandlesUnmoved DEF Sound, ExitFits, Waiting, HandlesKept
  <2> QED BY <2>1, <2>2, <2>3, ExitMove DEF Waiting
<1>3. CASE StopOne(a)
  <2>1. PICK w \in Front(t0) : ClaimAndStop(w) /\ Move(a, [t0 EXCEPT !.todo = @ \ {w}])
    BY <1>3 DEF StopOne
  <2> DEFINE t == [t0 EXCEPT !.todo = @ \ {w}]
  <2>2. /\ t \in Thread /\ t.verb = t0.verb /\ t.pc = t0.pc /\ t.frames = t0.frames
        /\ t.given = t0.given /\ t.todo = t0.todo \ {w}
    BY <1>1 DEF Thread
  <2>3. t0.pc = "stop" /\ UNCHANGED <<kids, member>> /\ w \in Workers /\ Move(a, t)
    BY <1>1, <1>3, <2>1 DEF StopOne, At
  <2> HIDE DEF t
  <2>4. HandlesKept /\ BirthsSame
    BY <2>1, <2>3, HandlesClaimed DEF Claiming
  <2>5. CASE t0.verb = "exit"
    <3>1. w \in Born /\ t0.todo \subseteq t0.given
      BY <1>1, <2>3, <2>5 DEF Sound, HeldBorn, Holding, ExitFits, Waiting
    <3>2. Claimed(w)'
      BY <2>1, <2>3, <3>1, ClaimAndStopTypes DEF Claiming, Typing, Born, Claimed
    <3>3. \A v \in t.given : Claimed(v)' \/ v \in t.todo
      BY <1>1, <2>2, <2>3, <2>4, <2>5, <3>2 DEF Sound, ExitFits, Waiting, HandlesKept
    <3> QED BY <2>2, <2>3, <2>4, <2>5, <3>1, <3>3, ExitMove DEF Waiting
  <2>6. CASE t0.verb # "exit"
    <3>1. Aside(t)
      BY <2>2, <2>3, <2>6 DEF Aside
    <3> QED BY <2>2, <2>3, <2>4, <3>1, AsideMove
  <2> QED BY <2>5, <2>6
<1>4. CASE StopDone(a)
  <2> DEFINE t == [t0 EXCEPT !.pc = "drain"]
  <2>1. /\ t \in Thread /\ t.verb = t0.verb /\ t.pc = "drain" /\ t.frames = t0.frames
        /\ t.given = t0.given /\ t.todo = t0.todo
    BY <1>1 DEF Thread
  <2>2. /\ Move(a, t) /\ handle' = handle /\ UNCHANGED <<kids, member>>
        /\ t0.pc = "stop" /\ t0.todo = {}
    BY <1>4 DEF StopDone, At, Finished
  <2> HIDE DEF t
  <2>3. HandlesKept /\ BirthsSame
    BY <2>2, HandlesUnmoved
  <2>4. CASE t0.verb = "exit"
    <3>1. \A w \in t.given : Claimed(w)'
      BY <1>1, <2>1, <2>2, <2>3, <2>4 DEF Sound, ExitFits, Waiting, HandlesKept
    <3> QED BY <2>1, <2>2, <2>3, <2>4, <3>1, ExitMove DEF Waiting
  <2>5. CASE t0.verb # "exit"
    <3>1. Aside(t)
      BY <2>1, <2>5 DEF Aside
    <3> QED BY <2>1, <2>2, <2>3, <3>1, AsideMove
  <2> QED BY <2>4, <2>5
<1> QED BY <1>2, <1>3, <1>4

\* The frame goes last, and by then every child on the list was claimed.
LEMMA LeaveClaiming ==
  ASSUME Claiming, Typing', NEW a \in Actors, Leave(a)
  PROVE  Claiming'
<1> DEFINE t0 == thread[a]
           o  == Head(t0.frames)
           t  == Left(a, t0)
<1>1. /\ t0 \in Thread /\ t0.given \in SUBSET Workers /\ t0.frames \in Seq(Owners)
      /\ FramesFit(t0) /\ Sound(a) /\ thread \in [Actors -> Thread]
  BY AtThread DEF Claiming
<1>2. /\ Move(a, t) /\ UNCHANGED <<handle, kids, member>>
      /\ \/ t0.pc = "drain"
         \/ t0.pc = "stop" /\ t0.todo = {} /\ t0.verb = "exit"
  BY DEF Leave, At, Finished, Unwinding
<1>3. thread'[a] = t /\ \A b \in Actors : b # a => thread'[b] = thread[b]
  BY <1>1, <1>2 DEF Move
<1>4. HandlesKept /\ BirthsSame
  BY <1>2, HandlesUnmoved
<1>5. /\ t.pc \in {"body", "halt", "base", "done"}
      /\ IF t0.verb = "exit" THEN t.frames = Tail(t0.frames) ELSE t.frames = t0.frames
  <2>1. CASE t0.verb = "exit" /\ t0.frames = <<a>>
    <3> DEFINE r == Restart(t0, "base", t0.out)
    <3>1. r \in Thread /\ r.pc = "base"
      BY <1>1, AtThread, RestartIsThread DEF Restart, Thread
    <3>2. t = [r EXCEPT !.frames = <<>>, !.given = {}, !.todo = {}, !.known = {}]
      BY <2>1 DEF Left
    <3> HIDE DEF r
    <3>3. t.pc = "base" /\ t.frames = <<>>
      BY <3>1, <3>2 DEF Thread
    <3>4. Tail(t0.frames) = <<>>
      BY <2>1
    <3> QED BY <2>1, <3>3, <3>4
  <2>2. CASE t0.verb = "exit" /\ t0.frames # <<a>>
    BY <1>1, <2>2 DEF Left, Concluded, Thread
  <2>3. CASE t0.verb = "race"
    BY <1>1, <2>3 DEF Left, Concluded, Thread
  <2>4. CASE t0.verb = "wipe"
    <3>1. t0.frames = <<>>
      BY <1>2, <2>4, <1>1 DEF FramesFit, Waiting
    <3> QED BY <2>4, <3>1 DEF Left, Idle
  <2> QED BY <1>1, <1>2, <2>1, <2>2, <2>3, <2>4 DEF FramesFit
<1> HIDE DEF t
<1>6. t0.verb = "exit" => /\ t0.frames # <<>>
                          /\ Elems(t0.frames) = {o} \cup Elems(Tail(t0.frames))
  BY <1>1, <1>2, ElemsOfTail DEF FramesFit, Waiting
<1>7. t0.verb = "exit" => \A w \in kids[o] : Claimed(w)
  BY <1>1, <1>2 DEF Sound, ExitFits, Waiting
<1>8. t0.verb = "exit" => \A w \in kids'[o] : Claimed(w)'
  BY <1>2, <1>7 DEF Claimed
<1> HIDE DEF o
<1>9. \A b \in Actors : \A x \in Elems(thread[b].frames) :
         \/ x \in Elems(thread'[b].frames)
         \/ \A w \in kids'[x] : Claimed(w)'
  BY <1>3, <1>5, <1>6, <1>8
<1>10. Sound(a)'
  <2>1. HeldBorn(a)' /\ ExitFits(a)'
    BY <1>3, <1>5 DEF HeldBorn, Holding, ExitFits, Waiting
  <2>2. Elems(t.frames) \subseteq Elems(t0.frames)
    BY <1>5, <1>6
  <2>3. FramesUsed(a)'
    BY <1>1, <1>2, <1>3, <2>2 DEF Sound, FramesUsed, Elems
  <2> QED BY <2>1, <2>3 DEF Sound
<1>11. BroodsKept /\ KidsBorn' /\ UnbornUnused'
  BY <1>2 DEF BroodsKept, Claiming, KidsBorn, UnbornUnused, Born
<1>12. \A b \in Actors : thread'[b] = thread[b] \/ Sound(b)'
  BY <1>3, <1>10
<1> QED BY <1>2, <1>4, <1>9, <1>11, <1>12, ClaimingKept

LEMMA BaseClaiming ==
  ASSUME Claiming, Typing',
         \/ RunReturns \/ OutliveDone \/ RunHalts \/ Wipe
         \/ \E a \in Actors : FinalPoll(a)
         \/ \E s \in Stages : StageEnds(s)
         \/ \E w \in Workers : Publish(w)
  PROVE  Claiming'
<1>1. Main \in Actors /\ Stages \subseteq Actors /\ Workers \subseteq Actors
  BY DEF Actors
<1>2. thread[Main] \in Thread
  BY <1>1, AtThread DEF Claiming
<1>3. ASSUME RunReturns \/ OutliveDone \/ RunHalts \/ Wipe
      PROVE  \E t : Move(Main, t) /\ Aside(t) /\ t.frames = thread[Main].frames
  <2>1. ASSUME NEW pc \in {"poll", "stop"}, NEW verb \in {"outlive", "wipe"}, NEW l,
               Move(Main, [thread[Main] EXCEPT !.pc = pc, !.verb = verb, !.given = l, !.todo = l])
        PROVE  \E t : Move(Main, t) /\ Aside(t) /\ t.frames = thread[Main].frames
    <3> DEFINE t == [thread[Main] EXCEPT !.pc = pc, !.verb = verb, !.given = l, !.todo = l]
    <3>1. Aside(t) /\ t.frames = thread[Main].frames
      BY <1>2 DEF Aside, Thread
    <3>2. Move(Main, t)
      BY <2>1
    <3> HIDE DEF t
    <3> QED BY <3>1, <3>2
  <2>2. ASSUME NEW o, Move(Main, Restart(thread[Main], "base", o))
        PROVE  \E t : Move(Main, t) /\ Aside(t) /\ t.frames = thread[Main].frames
    <3> DEFINE t == Restart(thread[Main], "base", o)
    <3>1. Aside(t) /\ t.frames = thread[Main].frames
      BY <1>2 DEF Aside, Restart, Thread, Waiting
    <3>2. Move(Main, t)
      BY <2>2
    <3> HIDE DEF t
    <3> QED BY <3>1, <3>2
  <2> QED BY <1>3, <2>1, <2>2 DEF RunReturns, OutliveDone, RunHalts, Wipe
<1>4. CASE RunReturns \/ OutliveDone \/ RunHalts \/ Wipe
  <2>1. UNCHANGED <<kids, member>> /\ handle' = handle
    BY <1>4 DEF RunReturns, OutliveDone, RunHalts, Wipe
  <2> QED BY <1>1, <1>3, <1>4, <2>1, HandlesUnmoved, AsideMove
<1>5. ASSUME NEW a \in Actors, FinalPoll(a) PROVE Claiming'
  <2> DEFINE t(o) == [thread[a] EXCEPT !.pc = "settled", !.out = o]
  <2>1. \A o : Aside(t(o)) /\ t(o).frames = thread[a].frames
    <3>1. thread[a] \in Thread
      BY AtThread DEF Claiming
    <3> QED BY <3>1 DEF Aside, Thread, Waiting
  <2>2. \E o : Move(a, t(o))
    BY <1>5 DEF FinalPoll
  <2>3. UNCHANGED <<kids, member>> /\ handle' = handle
    BY <1>5 DEF FinalPoll
  <2> HIDE DEF t
  <2> QED BY <2>1, <2>2, <2>3, HandlesUnmoved, AsideMove
<1>6. ASSUME NEW s \in Stages, StageEnds(s) PROVE Claiming'
  <2> DEFINE t == [thread[s] EXCEPT !.pc = "done"]
  <2>1. Aside(t) /\ t.frames = thread[s].frames
    <3>1. thread[s] \in Thread
      BY <1>1, AtThread DEF Claiming
    <3> QED BY <3>1 DEF Aside, Thread, Waiting
  <2>2. Move(s, t) /\ UNCHANGED <<kids, member>> /\ handle' = handle
    BY <1>6 DEF StageEnds
  <2> HIDE DEF t
  <2> QED BY <1>1, <2>1, <2>2, HandlesUnmoved, AsideMove
<1>7. ASSUME NEW w \in Workers, Publish(w) PROVE Claiming'
  <2> DEFINE t == [Idle EXCEPT !.pc = "done"]
  <2>1. /\ thread[w].pc = "settled" /\ thread[w].frames = <<>> /\ handle[w] # "unborn"
    BY <1>1, <1>7 DEF Publish, At, Claiming, Typing, FramesFit, IdleIfUnborn
  <2>2. Aside(t) /\ t.frames = thread[w].frames
    BY <2>1 DEF Aside, Idle, Waiting
  <2>3. /\ Move(w, t) /\ UNCHANGED <<kids, member>>
        /\ handle' = [handle EXCEPT ![w] = IF handle[w] = "running" THEN "ready" ELSE "consumed"]
    BY <1>7 DEF Publish, Published
  <2>4. HandlesKept /\ BirthsSame
    BY <2>1, <2>3 DEF HandlesKept, BirthsSame, Claimed, Born, Claiming, Typing, TypeOK
  <2> HIDE DEF t
  <2> QED BY <1>1, <2>2, <2>3, <2>4, AsideMove
<1> QED BY <1>4, <1>5, <1>6, <1>7

-----------------------------------------------------------------------------
LEMMA InitClaiming == Init => Claiming
<1> SUFFICES ASSUME Init PROVE Claiming
  OBVIOUS
<1>1. Typing
  BY InitTyping
<1>2. KidsBorn /\ UnbornUnused
  BY DEF Init, KidsBorn, UnbornUnused, Owners
<1>3. \A b \in Actors : thread[b].frames = <<>> /\ thread[b].pc \in {"idle", "body"}
  BY DEF Init, Idle
<1>4. \A b \in Actors : Sound(b)
  BY <1>3, ElemsOfEmpty DEF Sound, HeldBorn, Holding, FramesUsed, ExitFits, Waiting
<1>5. NoChildUnclaimed
  BY DEF Init, NoChildUnclaimed
<1> QED BY <1>1, <1>2, <1>4, <1>5 DEF Claiming

LEMMA ClaimingStep == Claiming /\ [Next]_vars => Claiming'
<1> SUFFICES ASSUME Claiming, [Next]_vars PROVE Claiming'
  OBVIOUS
<1>1. Typing'
  BY TypingStep DEF Claiming
<1>2. ASSUME NEW a \in Actors, Step(a) PROVE Claiming'
  <2>1. CASE \E w \in Workers : Spawn(a, w)
    BY <1>1, <2>1, SpawnClaiming
  <2>2. CASE \E s \in Stages : Launch(a, s)
    BY <1>1, <2>2, LaunchClaiming
  <2>3. CASE Register(a) \/ Enrol(a)
    BY <1>1, <2>3, EnrolClaiming
  <2>4. CASE \E g \in Gathers : OpenGather(a, g)
    BY <1>1, <2>4, OpenClaiming
  <2>5. CASE \/ SpawnRefused(a) \/ PipeEnd(a) \/ Poll(a) \/ Break(a) \/ Catch(a)
             \/ \E w \in Workers : Await(a, w)
             \/ \E v, w \in Workers : Race(a, v, w)
    BY <1>1, <2>5, BodyClaiming
  <2>6. CASE \E w \in Workers : Cancel(a, w)
    BY <1>1, <2>6, HostClaiming
  <2>7. CASE WaitPoll(a) \/ SweepClaim(a) \/ SweepNone(a)
    BY <1>1, <2>7, WaitClaiming
  <2>8. CASE ReturnExit(a) \/ HaltExit(a)
    BY <1>1, <2>8, ExitingClaiming DEF ReturnExit, HaltExit
  <2>9. CASE JoinDone(a) \/ StopOne(a) \/ StopDone(a)
    BY <1>1, <2>9, StopClaiming
  <2>10. CASE Leave(a)
    BY <1>1, <2>10, LeaveClaiming
  <2>11. CASE FinalPoll(a)
    BY <1>1, <2>11, BaseClaiming
  <2> QED BY <1>2, <2>1, <2>2, <2>3, <2>4, <2>5, <2>6, <2>7, <2>8, <2>9, <2>10, <2>11 DEF Step
<1> QED BY <1>1, <1>2, BaseClaiming, HostClaiming DEF Next, Gone

\* However an owner ends, and whatever the other threads do meanwhile, it
\* leaves no child it accepted without a claimant: the Brood / ScopeOwner
\* protocol of brood.rs and exit_brood, for every number of workers, gathers
\* and stages.
THEOREM OwnersClaimTheirChildren == Spec => []NoChildUnclaimed
<1>1. Claiming => NoChildUnclaimed
  BY DEF Claiming
<1> QED BY InitClaiming, ClaimingStep, <1>1, PTL DEF Spec

-----------------------------------------------------------------------------
(* A handle moves onward only: an action property, from Typing alone. *)

OnwardStep == \A w \in Workers : handle'[w] # handle[w] => handle'[w] \in Onward[handle[w]]

LEMMA ClaimsMoveOnward ==
  ASSUME Typing, NEW w \in Workers, ClaimAndStop(w) \/ ClaimReady(w)
  PROVE  OnwardStep
<1>1. handle \in [Workers -> HandleStates]
  BY DEF Typing, TypeOK
<1>2. \A v \in Workers : v # w => handle'[v] = handle[v]
  BY <1>1 DEF ClaimAndStop, ClaimReady
<1>3. \/ handle[w] = "running" /\ handle'[w] = "stopping"
      \/ handle[w] = "ready" /\ handle'[w] = "consumed"
      \/ handle'[w] = handle[w]
  BY <1>1 DEF ClaimAndStop, ClaimReady, HandleStates
<1> QED BY <1>2, <1>3 DEF OnwardStep, Onward

LEMMA NextMovesOnward == Typing /\ [Next]_vars => OnwardStep
<1> SUFFICES ASSUME Typing, [Next]_vars PROVE OnwardStep
  OBVIOUS
<1>1. handle \in [Workers -> HandleStates]
  BY DEF Typing, TypeOK
<1>2. CASE handle' = handle
  BY <1>2 DEF OnwardStep
<1>3. ASSUME NEW a \in Actors, NEW w \in Workers, Spawn(a, w) PROVE OnwardStep
  <2>1. handle[w] = "unborn" /\ handle' = [handle EXCEPT ![w] = "running"]
    BY <1>3 DEF Spawn, NextId
  <2> QED BY <1>1, <2>1 DEF OnwardStep, Onward
<1>4. ASSUME NEW a \in Actors, NEW w \in Workers, Cancel(a, w) PROVE OnwardStep
  BY <1>4, ClaimsMoveOnward DEF Cancel
<1>5. ASSUME NEW a \in Actors, Enrol(a) PROVE OnwardStep
  <2>1. handle' = handle \/ \E w \in thread[a].given : ClaimAndStop(w)
    BY <1>5 DEF Enrol
  <2>2. thread[a].given \in SUBSET Workers
    BY AtThread
  <2> QED BY <1>2, <2>1, <2>2, ClaimsMoveOnward
<1>6. ASSUME NEW a \in Actors, SweepClaim(a) \/ StopOne(a) PROVE OnwardStep
  <2>1. \E w \in Front(thread[a]) : ClaimAndStop(w) \/ ClaimReady(w)
    BY <1>6 DEF SweepClaim, StopOne
  <2>2. Front(thread[a]) \subseteq Workers
    BY AtThread, FrontIsGiven
  <2> QED BY <2>1, <2>2, ClaimsMoveOnward
<1>7. ASSUME NEW w \in Workers, Publish(w) PROVE OnwardStep
  <2>1. thread[w].pc = "settled" /\ w \in Actors
    BY <1>7 DEF Publish, At, Actors
  <2>2. handle[w] # "unborn"
    BY <2>1 DEF Typing, IdleIfUnborn
  <2>3. handle' = [handle EXCEPT ![w] = IF handle[w] = "running" THEN "ready" ELSE "consumed"]
    BY <1>7 DEF Publish, Published
  <2> QED BY <1>1, <2>2, <2>3 DEF OnwardStep, Onward, HandleStates
<1>8. ASSUME NEW a \in Actors, Step(a) PROVE OnwardStep
  <2>1. \/ handle' = handle
        \/ \E w \in Workers : Spawn(a, w) \/ Cancel(a, w)
        \/ Enrol(a) \/ SweepClaim(a) \/ StopOne(a)
    BY <1>8 DEF Step, Await, Race, OpenGather, Launch, SpawnRefused, Register, PipeEnd, Poll,
                Break, Catch, WaitPoll, SweepNone, ReturnExit, HaltExit, Exiting, JoinDone,
                StopDone, Leave, FinalPoll
  <2> QED BY <1>2, <1>3, <1>4, <1>5, <1>6, <2>1
<1>9. ASSUME \/ \E s \in Stages : StageEnds(s)
             \/ RunReturns \/ OutliveDone \/ RunHalts \/ Wipe
             \/ Interrupt \/ Terminate \/ Gone \/ UNCHANGED vars
      PROVE  handle' = handle
  BY <1>9 DEF StageEnds, RunReturns, OutliveDone, RunHalts, Wipe, Interrupt, Terminate, Strike,
              Gone, vars
<1> QED BY <1>2, <1>7, <1>8, <1>9 DEF Next

\* A result claimed while its worker ran (HandleState::Stopping) is discarded
\* by publish, and no transition of handle.rs is ever undone.
THEOREM HandlesMoveOnward == Spec => HandleMovesOnward
<1>1. Typing /\ [Next]_vars =>
        [\A w \in Workers : handle'[w] # handle[w] => handle'[w] \in Onward[handle[w]]]_vars
  BY NextMovesOnward DEF OnwardStep
<1> QED BY InitTyping, TypingStep, <1>1, PTL DEF Spec, HandleMovesOnward

-----------------------------------------------------------------------------
(* Whose a worker is.  Frames, cradles, chains and launches fit together:    *)
(* scope nodes make a tree, a stage's launcher waits for it, and a live      *)
(* worker is in its parent's hand, loose, its owner's, or forsaken.          *)

\* A thread that was started and is not over.
Active(a) == thread[a].pc \notin {"idle", "done"}

\* A node hung under another's chain, which did not have it.
Under(x, o) == x \notin scope[o] /\ scope[x] = scope[o] \cup {x}

\* A frame is in one place of one thread.
Apart == \A a, b \in Actors : \A i \in DOMAIN thread[a].frames, j \in DOMAIN thread[b].frames :
           thread[a].frames[i] = thread[b].frames[j] => a = b /\ i = j

\* A worker lives as long as its thread, its own brood at the bottom of it.
Homely(w) ==
  /\ Active(w) <=> Live(w)
  /\ handle[w] = "unborn" <=> thread[w].pc = "idle"
  /\ thread[w].pc \notin {"idle", "base", "settled", "done"} =>
       /\ thread[w].frames # <<>>
       /\ thread[w].frames[Len(thread[w].frames)] = w
Homes == \A w \in Workers : Homely(w)

\* Frames are open, but for the one whose thread is ending it; so is the
\* cradle a stage was lent.
Ending(a)     == thread[a].verb = "exit" /\ thread[a].pc \in Waiting
FramesOpen(a) == \A i \in DOMAIN thread[a].frames :
                   member[thread[a].frames[i]] = "open" \/ (i = 1 /\ Ending(a))
CradleFits(a) ==
  /\ thread[a].cradle # Session => a \in Stages
  /\ Active(a) /\ thread[a].cradle # Session => member[thread[a].cradle] = "open"
  /\ thread[a].verb \in {"outlive", "wipe"} => a = Main
  /\ thread[a].verb = "wipe" => thread[a].pc \in {"stop", "drain", "done"}
Cradles == \A a \in Actors : FramesOpen(a) /\ CradleFits(a)

\* A stage that is not over has a launcher waiting for it, of the same cradle.
LaunchedBy(s, a) == /\ At(a, "pipe") /\ thread[a].stage = s
                    /\ thread[s].cradle = Cradle(a) /\ Under(s, a)
Launched == \A s \in Stages : Active(s) => \E a \in Actors : LaunchedBy(s, a)

\* Chains hold nodes of threads that were started, their own among them.
Chains == /\ scope[Session] = {Root} /\ scope[Main] = {Root, Main}
          /\ \A x \in Actors \cup Gathers : \A b \in scope[x] \cap Actors : thread[b].pc # "idle"
          /\ \A a \in Actors : thread[a].pc # "idle" => a \in scope[a]
          /\ \A a \in Actors : \A o \in Elems(thread[a].frames) : scope[o] = scope[a]
\* They make a tree: of any threads, one is under none of the others.
Tree == \A S \in SUBSET Actors : S # {} => \E x \in S : \A y \in S \ {x} : y \notin scope[x]

\* Where a live worker belongs.
InFlight(w)    == \E a \in Actors : /\ thread[a].pc \in {"register", "enrol"}
                                    /\ thread[a].given = {w} /\ Under(w, Cradle(a))
Forsaken(w, o) == w \in kids[o] /\ o \in undrained /\ handle[w] = "stopping"
KeptBy(w, o)   == w \in kids[o] /\ Under(w, o) /\ (Inside(o) \/ Forsaken(w, o))
InCustody(w)   == InFlight(w) \/ scope[w] = {Root, w} \/ \E o \in Owners : KeptBy(w, o)
Custody        == \A w \in Workers : Live(w) => InCustody(w)

\* claim_and_stop strikes what it stops.
StoppedIsStruck == \A w \in Workers : handle[w] = "stopping" => struck[w] # "none"

\* Only a brood that was opened has children.
Childless == \A o \in Owners : member[o] = "unused" => kids[o] = {}

Family == /\ Apart /\ Homes /\ Cradles /\ Launched
          /\ Chains /\ Tree /\ Custody /\ StoppedIsStruck /\ Childless

LEMMA Framed ==
  ASSUME Typing, NEW a \in Actors
  PROVE  /\ thread[a] \in Thread /\ thread[a].frames \in Seq(Owners)
         /\ DOMAIN thread[a].frames = 1 .. Len(thread[a].frames)
         /\ thread[a].frames # <<>> =>
              /\ thread[a].pc \notin {"idle", "base", "settled", "done"}
              /\ thread[a].verb \in {"outlive", "wipe"} => thread[a].pc \notin Waiting
              /\ 1 \in DOMAIN thread[a].frames
              /\ Head(thread[a].frames) = thread[a].frames[1]
              /\ Head(thread[a].frames) \in Elems(thread[a].frames)
              /\ Cradle(a) = Head(thread[a].frames) /\ Cradle(a) \in Owners
         /\ thread[a].frames = <<>> => Cradle(a) = thread[a].cradle
         /\ Elems(thread[a].frames) \subseteq Owners
<1>1. /\ thread[a] \in Thread /\ thread[a].frames \in Seq(Owners) /\ FramesFit(thread[a])
  BY AtThread
<1>2. DOMAIN thread[a].frames = 1 .. Len(thread[a].frames)
  BY <1>1
<1>3. Elems(thread[a].frames) \subseteq Owners
  BY <1>1 DEF Elems
<1>4. ASSUME thread[a].frames # <<>>
      PROVE  /\ 1 \in DOMAIN thread[a].frames /\ Head(thread[a].frames) = thread[a].frames[1]
             /\ Head(thread[a].frames) \in Owners
  BY <1>1, <1>4
<1>5. thread[a].frames # <<>> => Head(thread[a].frames) \in Elems(thread[a].frames)
  BY <1>4 DEF Elems
<1>6. thread[a].frames # <<>> =>
        /\ thread[a].pc \notin {"idle", "base", "settled", "done"}
        /\ thread[a].verb \in {"outlive", "wipe"} => thread[a].pc \notin Waiting
  BY <1>1 DEF FramesFit
<1> QED BY <1>1, <1>2, <1>3, <1>4, <1>5, <1>6 DEF Cradle

\* Threads, owners and the nodes that are neither.
LEMMA Kinds ==
  /\ Main \in Actors /\ Workers \subseteq Actors /\ Stages \subseteq Actors
  /\ Workers \subseteq Owners /\ Gathers \subseteq Owners
  /\ Session \notin Owners /\ Session \notin Actors /\ Root \notin Actors /\ Session \notin Stages
  /\ Main \notin Owners /\ Main \notin Workers /\ Main \notin Stages /\ Main \notin Gathers
  /\ Workers \cap Stages = {} /\ Workers \cap Gathers = {} /\ Actors \cap Gathers = {}
  /\ Stages \cap Owners = {} /\ Actors \subseteq Nodes
BY NamesAssumption DEF Actors, Owners, Nodes

\* Of stages that are not over, one has its launcher among none of them.
LEMMA LauncherOutside ==
  ASSUME Family, NEW A, A \subseteq Stages, A # {}, \A s \in A : Active(s)
  PROVE  \E s \in A : \E a \in Actors \ A : LaunchedBy(s, a)
<1>1. PICK s \in A : \A y \in A \ {s} : y \notin scope[s]
  <2>1. A \in SUBSET Actors
    BY Kinds
  <2> QED BY <2>1 DEF Family, Tree
<1>2. PICK a \in Actors : LaunchedBy(s, a)
  BY DEF Family, Launched
<1>3. a \in scope[a]
  BY <1>2 DEF Family, Chains, LaunchedBy, At
<1>4. a \in scope[s] /\ a # s
  BY <1>2, <1>3 DEF LaunchedBy, Under
<1> QED BY <1>1, <1>2, <1>4

\* The cradle a stage was lent is on top of a thread that waits.
LEMMA CradleHeld ==
  ASSUME Typing, Family, NEW s \in Stages, Active(s), thread[s].cradle # Session
  PROVE  \E b \in Actors : /\ At(b, "pipe") /\ thread[b].frames # <<>>
                           /\ Head(thread[b].frames) = thread[s].cradle
<1> DEFINE A == {x \in Stages : Active(x) /\ thread[x].cradle = thread[s].cradle}
<1>1. PICK x \in A, b \in Actors \ A : LaunchedBy(x, b)
  <2>1. s \in A
    OBVIOUS
  <2> QED BY <2>1, LauncherOutside
<1>2. At(b, "pipe") /\ Cradle(b) = thread[s].cradle
  BY <1>1 DEF LaunchedBy
<1>3. thread[b].frames # <<>>
  <2> SUFFICES ASSUME thread[b].frames = <<>> PROVE FALSE
    OBVIOUS
  <2>1. thread[b].cradle = thread[s].cradle /\ Active(b)
    BY <1>2 DEF Cradle, At, Active
  <2>2. b \in Stages
    BY <2>1 DEF Family, Cradles, CradleFits
  <2> QED BY <1>1, <2>1, <2>2
<1> QED BY <1>2, <1>3 DEF Cradle

\* A birth's cradle has someone inside it, and is open unless it is being ended.
LEMMA CradleInside ==
  ASSUME Typing, Family, NEW a \in Actors, Active(a), Cradle(a) # Session
  PROVE  Cradle(a) \in Owners /\ Inside(Cradle(a)) /\ (~Ending(a) => member[Cradle(a)] = "open")
<1>1. CASE thread[a].frames # <<>>
  BY <1>1, Framed DEF Inside, Family, Cradles, FramesOpen
<1>2. CASE thread[a].frames = <<>>
  <2>1. Cradle(a) = thread[a].cradle /\ a \in Stages /\ member[Cradle(a)] = "open"
    BY <1>2 DEF Cradle, Family, Cradles, CradleFits
  <2>2. PICK b \in Actors : /\ At(b, "pipe") /\ thread[b].frames # <<>>
                            /\ Head(thread[b].frames) = thread[a].cradle
    BY <2>1, CradleHeld
  <2>3. Cradle(a) \in Elems(thread[b].frames) /\ Cradle(a) \in Owners
    BY <2>1, <2>2, Framed
  <2> QED BY <2>1, <2>3 DEF Inside
<1> QED BY <1>1, <1>2

LEMMA FamilyFindsOwnerOpen ==
  ASSUME Typing, Family PROVE BirthsFindOwnerOpen
BY CradleInside DEF BirthsFindOwnerOpen, Active, Ending, Waiting

\* A chain that holds a forsaken worker.
Forlorn(x) == \E y \in scope[x] \cap Workers : \E o \in Owners : Forsaken(y, o)

\* A thread that is neither over nor yet to be started.
Going(a) == Active(a) /\ ~Over(a)

\* Above a thread that goes on nothing is over, but for one forsaken between:
\* else of all such threads the tree has one under none of the others, and
\* what it hangs under is such a thread.
LEMMA OverMeansForsaken ==
  ASSUME Typing, Family, NEW x \in Actors, Going(x),
         NEW p \in Actors, p \in scope[x], Over(p)
  PROVE  Forlorn(x)
<1> SUFFICES ASSUME ~Forlorn(x) PROVE FALSE
  OBVIOUS
<1> DEFINE A == {y \in Actors : /\ Going(y) /\ ~Forlorn(y)
                                /\ \E q \in Actors : q \in scope[y] /\ Over(q)}
<1>1. PICK y \in A : \A z \in A \ {y} : z \notin scope[y]
  <2>1. x \in A
    OBVIOUS
  <2>2. A \in SUBSET Actors
    OBVIOUS
  <2> HIDE DEF A
  <2> QED BY <2>1, <2>2 DEF Family, Tree
<1>2. PICK q \in Actors : q \in scope[y] /\ Over(q)
  OBVIOUS
<1>3. y \in Actors /\ Going(y) /\ ~Forlorn(y) /\ q # y
  BY <1>2 DEF Going
<1>4. \* nothing that goes on may be above it, between it and the one that is over
      ASSUME NEW a \in Actors, Going(a), a # y, scope[a] \subseteq scope[y], q \in scope[a]
      PROVE  FALSE
  <2>1. a \in scope[a]
    BY <1>4 DEF Family, Chains, Going, Active
  <2>2. ~Forlorn(a)
    BY <1>3, <1>4 DEF Forlorn
  <2>3. a \in A
    BY <1>2, <1>4, <2>2
  <2> QED BY <1>1, <1>4, <2>1, <2>3
<1>5. ASSUME NEW o \in Owners, Inside(o), Under(y, o) PROVE FALSE
  <2>1. PICK b \in Actors : o \in Elems(thread[b].frames)
    BY <1>5 DEF Inside
  <2>2. scope[b] = scope[o] /\ thread[b].frames # <<>>
    BY <2>1, ElemsOfEmpty DEF Family, Chains
  <2>3. /\ thread[b].pc \notin {"idle", "base", "settled", "done"}
        /\ thread[b].verb \in {"outlive", "wipe"} => thread[b].pc \notin Waiting
    BY <2>2, Framed
  <2>4. thread[b].verb = "wipe" => thread[b].pc \in {"stop", "drain", "done"}
    BY DEF Family, Cradles, CradleFits
  <2>5. Going(b)
    BY <2>3, <2>4 DEF Going, Active, Over, At, Waiting
  <2>6. b \in scope[b]
    BY <2>3 DEF Family, Chains
  <2>7. b # y /\ scope[b] \subseteq scope[y] /\ q \in scope[b]
    BY <1>2, <1>3, <1>5, <2>2, <2>6 DEF Under
  <2> QED BY <1>4, <2>5, <2>7
<1>6. CASE y = Main
  BY <1>2, <1>3, <1>6, Kinds DEF Family, Chains
<1>7. CASE y \in Stages
  <2>1. PICK a \in Actors : LaunchedBy(y, a)
    BY <1>3, <1>7 DEF Family, Launched, Going
  <2>2. thread[a].verb = "wipe" => thread[a].pc \in {"stop", "drain", "done"}
    BY DEF Family, Cradles, CradleFits
  <2>3. Going(a) /\ a \in scope[a]
    BY <2>1, <2>2 DEF LaunchedBy, Going, Active, Over, At, Family, Chains
  <2>4. a # y /\ scope[a] \subseteq scope[y] /\ q \in scope[a]
    BY <1>2, <1>3, <2>1, <2>3 DEF LaunchedBy, Under
  <2> QED BY <1>4, <2>3, <2>4
<1>8. CASE y \in Workers
  <2>1. Live(y) /\ y \in scope[y]
    BY <1>3, <1>8 DEF Family, Homes, Homely, Going, Chains, Active
  <2>2. InCustody(y)
    BY <1>8, <2>1 DEF Family, Custody
  <2>3. CASE InFlight(y)
    <3>1. PICK a \in Actors : thread[a].pc \in {"register", "enrol"} /\ Under(y, Cradle(a))
      BY <2>3 DEF InFlight
    <3>2. Cradle(a) # Session
      BY <1>2, <1>3, <3>1, Kinds DEF Under, Family, Chains
    <3>3. Cradle(a) \in Owners /\ Inside(Cradle(a))
      BY <3>1, <3>2, CradleInside DEF Active
    <3> QED BY <1>5, <3>1, <3>3
  <2>4. CASE scope[y] = {Root, y}
    BY <1>2, <1>3, <2>4, Kinds
  <2>5. ASSUME NEW o \in Owners, KeptBy(y, o) PROVE FALSE
    <3>1. CASE Inside(o)
      BY <1>5, <2>5, <3>1 DEF KeptBy
    <3>2. CASE Forsaken(y, o)
      BY <1>3, <1>8, <2>1, <3>2 DEF Forlorn
    <3> QED BY <2>5, <3>1, <3>2 DEF KeptBy
  <2> QED BY <2>2, <2>3, <2>4, <2>5 DEF InCustody
<1> QED BY <1>1, <1>6, <1>7, <1>8 DEF Actors

\* A live worker goes on.
LEMMA LiveGoes ==
  ASSUME Family, NEW w \in Workers, Live(w) PROVE w \in Actors /\ Going(w) /\ w \in scope[w]
BY Kinds DEF Family, Homes, Homely, Going, Active, Over, At, Chains

LEMMA FamilyOutlivesNothing ==
  ASSUME Typing, Family PROVE NothingOutlives
<1> SUFFICES ASSUME NEW w \in Workers, Live(w), NEW p \in scope[w] \ {Root, w}, Over(p)
             PROVE  OwnersOf(w) \cap undrained # {}
  BY DEF NothingOutlives
<1>1. p \in Actors
  <2>1. scope[w] \subseteq Nodes
    BY DEF Typing, TypeOK, Actors
  <2> QED BY <2>1 DEF Nodes
<1>2. Forlorn(w)
  BY <1>1, LiveGoes, OverMeansForsaken
<1> QED BY <1>2 DEF Forlorn, Forsaken, OwnersOf

\* Under a worker, stage or run that is over every live worker has a stop in force.
LEMMA OverMeansStruck ==
  ASSUME Typing, Family, NEW w \in Workers, Live(w), NEW p \in scope[w] \ {w}, p \in Actors, Over(p)
  PROVE  Struck(w)
<1>1. Forlorn(w)
  BY LiveGoes, OverMeansForsaken
<1> QED BY <1>1 DEF Forlorn, Forsaken, Struck, Family, StoppedIsStruck

-----------------------------------------------------------------------------
(* Steps. *)

\* At most handles are claimed; who is stopped is struck.
Claims ==
  /\ \A w \in Workers :
       \/ handle'[w] = handle[w]
       \/ handle[w] = "running" /\ handle'[w] = "stopping" /\ struck'[w] # "none"
       \/ handle[w] = "ready" /\ handle'[w] = "consumed"
  /\ \A n \in Nodes : struck[n] # "none" => struck'[n] # "none"

LEMMA StrongerStays ==
  ASSUME NEW c \in Flags, NEW d \in Causes
  PROVE  Stronger(c, d) # "none"
BY DEF Stronger, Rank, Flags, Causes

LEMMA NothingClaimed ==
  ASSUME UNCHANGED <<handle, struck>> PROVE Claims
BY DEF Claims

LEMMA OneClaimed ==
  ASSUME Typing, NEW w \in Workers,
         ClaimAndStop(w) \/ (ClaimReady(w) /\ UNCHANGED struck)
  PROVE  Claims
<1>1. handle \in [Workers -> HandleStates] /\ struck \in [Nodes -> Flags] /\ w \in Nodes
  BY Kinds DEF Typing, TypeOK
<1>2. CASE ClaimReady(w) /\ UNCHANGED struck
  BY <1>1, <1>2 DEF ClaimReady, Claims
<1>3. CASE ClaimAndStop(w)
  <2>1. Stronger(struck[w], "cancelled") # "none"
    BY <1>1, StrongerStays DEF Causes
  <2>2. \A n \in Nodes : struck[n] # "none" => struck'[n] # "none"
    BY <1>1, <1>3, <2>1 DEF ClaimAndStop
  <2>3. handle[w] = "running" => struck'[w] # "none"
    BY <1>1, <1>3, <2>1 DEF ClaimAndStop
  <2>4. handle' = [handle EXCEPT ![w] = CASE handle[w] = "running" -> "stopping"
                                          [] handle[w] = "ready"   -> "consumed"
                                          [] OTHER                 -> handle[w]]
    BY <1>3 DEF ClaimAndStop
  <2>5. \A v \in Workers : v # w => handle'[v] = handle[v]
    BY <1>1, <2>4
  <2>6. handle'[w] = CASE handle[w] = "running" -> "stopping"
                       [] handle[w] = "ready"   -> "consumed"
                       [] OTHER                 -> handle[w]
    BY <1>1, <2>4
  <2> QED BY <2>2, <2>3, <2>5, <2>6 DEF Claims
<1> QED BY <1>2, <1>3

LEMMA StoppedKept ==
  ASSUME Typing, Family, Claims PROVE StoppedIsStruck'
<1> SUFFICES ASSUME NEW w \in Workers, handle'[w] = "stopping" PROVE struck'[w] # "none"
  BY DEF StoppedIsStruck
<1>1. w \in Nodes
  BY Kinds
<1> QED BY <1>1 DEF Claims, Family, StoppedIsStruck

\* No chain grows, no thread starts, and launchers wait for what still runs.
LEMMA LineageKept ==
  ASSUME Typing, Typing', Family, scope' = scope,
         \A a \in Actors : thread'[a].pc = "idle" <=> thread[a].pc = "idle",
         \A a \in Actors : Elems(thread'[a].frames) \subseteq Elems(thread[a].frames),
         \A s \in Stages : Active(s)' => Active(s) /\ thread'[s].cradle = thread[s].cradle,
         \A s \in Stages, a \in Actors :
           Active(s)' /\ LaunchedBy(s, a) => /\ At(a, "pipe")' /\ thread'[a].stage = s
                                             /\ Cradle(a)' = Cradle(a)
  PROVE  Launched' /\ Chains' /\ Tree'
<1>1. Tree'
  BY DEF Family, Tree
<1>2. Chains'
  BY DEF Family, Chains
<1>3. ASSUME NEW s \in Stages, Active(s)' PROVE \E a \in Actors : LaunchedBy(s, a)'
  <2>1. PICK a \in Actors : LaunchedBy(s, a)
    BY <1>3 DEF Family, Launched
  <2>2. LaunchedBy(s, a)'
    BY <1>3, <2>1 DEF LaunchedBy, Under
  <2> QED BY <2>2
<1> QED BY <1>1, <1>2, <1>3 DEF Launched

\* What was claimed stays so, and nothing comes to life.
Onwards == \A w \in Workers : Live(w)' => Live(w) /\ (handle[w] = "stopping" => handle'[w] = "stopping")

LEMMA ClaimsAreOnwards ==
  ASSUME Claims PROVE Onwards
BY DEF Claims, Onwards, Live

\* Broods keep their live children, newborns stay in hand, and an owner that
\* is left has forsaken those of its children that live.
LEMMA CustodyKept ==
  ASSUME Typing, Family, scope' = scope,
         Onwards, undrained \subseteq undrained',
         \A o \in Owners : \A w \in kids[o] : Live(w)' => w \in kids'[o],
         \A o \in Owners : \/ Inside(o) => Inside(o)'
                           \/ \A w \in kids[o] : Live(w)' => o \in undrained' /\ handle'[w] = "stopping",
         \A w \in Workers : InFlight(w) /\ Live(w)' => InCustody(w)'
  PROVE  Custody'
<1> SUFFICES ASSUME NEW w \in Workers, Live(w)' PROVE InCustody(w)'
  BY DEF Custody
<1>1. Live(w) /\ (handle[w] = "stopping" => handle'[w] = "stopping")
  BY DEF Onwards
<1>2. InCustody(w)
  BY <1>1 DEF Family, Custody
<1>3. CASE InFlight(w)
  BY <1>3
<1>4. CASE scope[w] = {Root, w}
  BY <1>4 DEF InCustody
<1>5. ASSUME NEW o \in Owners, KeptBy(w, o) PROVE KeptBy(w, o)'
  <2>1. w \in kids[o] /\ w \in kids'[o] /\ Under(w, o)'
    BY <1>5 DEF KeptBy, Under
  <2>2. CASE Forsaken(w, o)
    BY <1>1, <1>5, <2>1, <2>2 DEF KeptBy, Forsaken
  <2>3. CASE Inside(o)
    BY <1>5, <2>1, <2>3 DEF KeptBy, Forsaken
  <2> QED BY <1>5, <2>1, <2>2, <2>3 DEF KeptBy
<1> QED BY <1>2, <1>3, <1>4, <1>5 DEF InCustody

\* A thread that goes on where it is: neither frame nor cradle, no stage it
\* waits for given up, no ending either.
Calm(a, t) ==
  /\ {thread[a].pc, t.pc} \cap {"idle", "done"} = {}
  /\ thread[a].pc = "pipe" => \A s \in Stages : thread[a].stage = s => ~Active(s)
  /\ t.frames = thread[a].frames /\ t.cradle = thread[a].cradle
  /\ Ending(a) => t.verb = "exit" /\ t.pc \in Waiting
  /\ t.verb \in {"outlive", "wipe"} => a = Main
  /\ t.verb = "wipe" => t.pc \in {"stop", "drain"}
  /\ a \in Workers /\ thread[a].pc \in {"base", "settled"} => t.pc \in {"base", "settled"}
\* And no newborn let go.
Plain(a, t) ==
  /\ Calm(a, t)
  /\ thread[a].pc \in {"register", "enrol"} =>
       t.pc \in {"register", "enrol"} /\ t.given = thread[a].given

LEMMA MovedOne ==
  ASSUME Typing, NEW a \in Actors, NEW t, Move(a, t)
  PROVE  thread'[a] = t /\ \A b \in Actors : b # a => thread'[b] = thread[b]
BY AtThread DEF Move

LEMMA HomesKept ==
  ASSUME Typing, Family, Claims, NEW w \in Workers, Active(w)' <=> Active(w),
         thread'[w].pc = "idle" <=> thread[w].pc = "idle",
         thread'[w].pc \notin {"idle", "base", "settled", "done"} =>
           /\ thread'[w].frames # <<>>
           /\ thread'[w].frames[Len(thread'[w].frames)] = w
  PROVE  Homely(w)'
BY DEF Family, Homes, Homely, Claims, Live

LEMMA CalmThreads ==
  ASSUME Typing, Typing', Family, NEW a \in Actors, NEW t, Calm(a, t), Move(a, t),
         UNCHANGED <<scope, member>>, Claims
  PROVE  Apart' /\ Homes' /\ Cradles' /\ Launched' /\ Chains' /\ Tree' /\ StoppedIsStruck'
<1>1. thread'[a] = t /\ \A b \in Actors : b # a => thread'[b] = thread[b]
  BY MovedOne
<1>2. \A b \in Actors : /\ thread'[b].frames = thread[b].frames /\ thread'[b].cradle = thread[b].cradle
                        /\ thread'[b].pc = "idle" <=> thread[b].pc = "idle"
                        /\ thread'[b].pc = "done" <=> thread[b].pc = "done"
                        /\ Cradle(b)' = Cradle(b)
  BY <1>1 DEF Calm, Cradle
<1>3. Apart'
  BY <1>2 DEF Family, Apart
<1>4. Homes'
  <2> SUFFICES ASSUME NEW w \in Workers PROVE Homely(w)'
    BY DEF Homes
  <2>1. w \in Actors
    BY Kinds
  <2>2. thread'[w].pc \notin {"idle", "base", "settled", "done"} =>
          thread[w].pc \notin {"idle", "base", "settled", "done"}
    BY <1>1, <2>1 DEF Calm
  <2> QED BY <1>2, <2>1, <2>2, HomesKept DEF Family, Homes, Homely, Active
<1>5. Cradles'
  <2> SUFFICES ASSUME NEW b \in Actors PROVE FramesOpen(b)' /\ CradleFits(b)'
    BY DEF Cradles
  <2>1. Ending(b) => Ending(b)'
    BY <1>1 DEF Calm, Ending
  <2>2. FramesOpen(b)'
    BY <1>2, <2>1 DEF Family, Cradles, FramesOpen
  <2>3. CradleFits(b)'
    BY <1>1, <1>2 DEF Family, Cradles, CradleFits, Calm, Active
  <2> QED BY <2>2, <2>3
<1>6. Launched' /\ Chains' /\ Tree'
  <2>1. \A s \in Stages : s \in Actors
    BY Kinds
  <2>2. \A b \in Actors : Elems(thread'[b].frames) = Elems(thread[b].frames)
    BY <1>2 DEF Elems
  <2>3. \A s \in Stages : Active(s)' => Active(s) /\ thread'[s].cradle = thread[s].cradle
    BY <1>2, <2>1 DEF Active
  <2>4. ASSUME NEW s \in Stages, NEW b \in Actors, Active(s)', LaunchedBy(s, b)
        PROVE  At(b, "pipe")' /\ thread'[b].stage = s /\ Cradle(b)' = Cradle(b)
    <3>1. b # a
      BY <2>3, <2>4 DEF LaunchedBy, At, Calm
    <3> QED BY <1>1, <1>2, <2>4, <3>1 DEF LaunchedBy, At
  <2> QED BY <1>2, <2>2, <2>3, <2>4, LineageKept
<1> QED BY <1>3, <1>4, <1>5, <1>6, StoppedKept

LEMMA PlainFamily ==
  ASSUME Typing, Typing', Family, NEW a \in Actors, NEW t, Plain(a, t), Move(a, t),
         UNCHANGED <<scope, member, kids, undrained>>, Claims
  PROVE  Family'
<1>1. thread'[a] = t /\ \A b \in Actors : b # a => thread'[b] = thread[b]
  BY MovedOne
<1>2. \A b \in Actors : thread'[b].frames = thread[b].frames /\ Cradle(b)' = Cradle(b)
  BY <1>1 DEF Plain, Calm, Cradle
<1>3. Apart' /\ Homes' /\ Cradles' /\ Launched' /\ Chains' /\ Tree' /\ StoppedIsStruck'
  BY CalmThreads DEF Plain
<1>4. Custody'
  <2>1. \A o \in Owners : Inside(o) => Inside(o)'
    BY <1>2 DEF Inside, Elems
  <2>2. \A w \in Workers : InFlight(w) => InFlight(w)'
    BY <1>1, <1>2 DEF InFlight, Under, Plain
  <2> QED BY <2>1, <2>2, CustodyKept, ClaimsAreOnwards DEF InCustody
<1>5. Childless'
  BY DEF Family, Childless
<1> QED BY <1>3, <1>4, <1>5 DEF Family

\* Nobody moves: the host strikes, a body cancels.
LEMMA StillFamily ==
  ASSUME Typing, Typing', Family, UNCHANGED <<thread, scope, member, kids, undrained>>, Claims
  PROVE  Family'
<1>1. Apart' /\ Cradles' /\ Launched' /\ Chains' /\ Tree'
  BY DEF Family, Apart, Cradles, FramesOpen, Ending, CradleFits, Active, Launched, LaunchedBy, At, Cradle,
         Under, Chains, Elems, Tree
<1>2. Homes'
  BY HomesKept DEF Homes, Homely, Family, Active
<1>3. Custody'
  <2>1. \A o \in Owners : Inside(o) => Inside(o)'
    BY DEF Inside
  <2>2. \A w \in Workers : InFlight(w) => InFlight(w)'
    BY DEF InFlight, Under, Cradle
  <2> QED BY <2>1, <2>2, CustodyKept, ClaimsAreOnwards DEF InCustody
<1> QED BY <1>1, <1>2, <1>3, StoppedKept DEF Family, Childless

LEMMA ConcludedPlain ==
  ASSUME Typing, NEW a \in Actors, thread[a].pc \in {"body", "halt", "poll", "sweep", "stop", "drain"},
         ~Ending(a), NEW o
  PROVE  Plain(a, Concluded(thread[a], o))
<1>1. thread[a] \in Thread
  BY AtThread
<1> DEFINE t == Concluded(thread[a], o)
<1>2. /\ t.pc \in {"body", "halt"} /\ t.verb = "none"
      /\ t.frames = thread[a].frames /\ t.cradle = thread[a].cradle
  BY <1>1 DEF Concluded, Thread
<1> HIDE DEF t
<1>3. Plain(a, t)
  BY <1>2 DEF Plain, Calm
<1> QED BY <1>3 DEF t

LEMMA WaitEndsPlain ==
  ASSUME Typing, Family, NEW a \in Actors, thread[a].pc \in {"poll", "sweep"}, NEW o
  PROVE  Plain(a, WaitEnds(thread[a], o))
<1> DEFINE t == WaitEnds(thread[a], o)
<1>1. thread[a] \in Thread /\ FramesFit(thread[a]) /\ CradleFits(a)
  BY AtThread DEF Family, Cradles
<1>2. CASE thread[a].verb = "await"
  <2>1. ~Ending(a) /\ t = Concluded(thread[a], o)
    BY <1>2 DEF Ending, WaitEnds
  <2> QED BY <2>1, ConcludedPlain
<1>3. CASE thread[a].verb = "race"
  <2>1. /\ t.pc = "stop" /\ t.verb = "race"
        /\ t.frames = thread[a].frames /\ t.cradle = thread[a].cradle
    BY <1>1, <1>3 DEF WaitEnds, Restart, Thread
  <2> HIDE DEF t
  <2> QED BY <1>3, <2>1 DEF Plain, Calm, Ending, t
<1>4. CASE thread[a].verb = "exit"
  <2>1. /\ t.pc \in {"poll", "stop"} /\ t.verb = "exit"
        /\ t.frames = thread[a].frames /\ t.cradle = thread[a].cradle
    BY <1>1, <1>4 DEF WaitEnds, Restart, NextOne, Thread
  <2> HIDE DEF t
  <2> QED BY <1>4, <2>1 DEF Plain, Calm, Waiting, t
<1>5. CASE thread[a].verb = "outlive"
  <2>1. /\ t.pc \in {"poll", "base"} /\ t.verb = "outlive"
        /\ t.frames = thread[a].frames /\ t.cradle = thread[a].cradle
    BY <1>1, <1>5 DEF WaitEnds, Restart, NextOne, Thread
  <2>2. a = Main
    BY <1>1, <1>5 DEF CradleFits
  <2> HIDE DEF t
  <2> QED BY <1>5, <2>1, <2>2 DEF Plain, Calm, Ending, t
<1> QED BY <1>1, <1>2, <1>3, <1>4, <1>5 DEF FramesFit

\* A thread that changes its place, and perhaps what it holds, but no verb.
LEMMA PlacedPlain ==
  ASSUME Typing, Family, NEW a \in Actors, NEW t,
         \/ thread[a].pc \in {"poll", "sweep", "stop", "drain"} /\ t.pc \in {"poll", "sweep", "stop", "drain"}
         \/ thread[a].pc = "register" /\ t.pc = "enrol" /\ t.given = thread[a].given
         \/ thread[a].pc = "base" /\ t.pc = "settled",
         t.verb = thread[a].verb, t.verb = "wipe" => t.pc \in {"stop", "drain"},
         t.frames = thread[a].frames, t.cradle = thread[a].cradle
  PROVE  Plain(a, t)
BY DEF Plain, Calm, Ending, Waiting, Family, Cradles, CradleFits

LEMMA BodyFamily ==
  ASSUME Typing, Typing', Family, NEW a \in Actors,
         \/ SpawnRefused(a) \/ Register(a) \/ Poll(a) \/ Break(a) \/ Catch(a)
         \/ \E w \in Workers : Await(a, w)
         \/ \E v, w \in Workers : Race(a, v, w)
  PROVE  Family'
<1>1. thread[a] \in Thread
  BY AtThread
<1>2. UNCHANGED <<scope, member, kids, undrained>> /\ Claims
  BY NothingClaimed DEF SpawnRefused, Register, Poll, Break, Catch, Await, Race
<1>3. \E t : Plain(a, t) /\ Move(a, t)
  <2>1. CASE SpawnRefused(a) \/ Poll(a) \/ Break(a) \/ Catch(a)
    <3>1. thread[a].pc \in {"body", "halt"} /\ ~Ending(a)
      BY <2>1 DEF SpawnRefused, Poll, Break, Catch, At, Ending, Waiting
    <3>2. \A o : Plain(a, Concluded(thread[a], o))
      BY <3>1, ConcludedPlain
    <3> QED BY <2>1, <3>2 DEF SpawnRefused, Poll, Break, Catch
  <2>2. CASE Register(a)
    <3> DEFINE t == [thread[a] EXCEPT !.pc = "enrol"]
    <3>1. /\ t.pc = "enrol" /\ t.given = thread[a].given /\ t.verb = thread[a].verb
          /\ t.frames = thread[a].frames /\ t.cradle = thread[a].cradle
      BY <1>1 DEF Thread
    <3>2. Move(a, t) /\ thread[a].pc = "register"
      BY <2>2 DEF Register, At
    <3>3. thread[a].verb # "wipe"
      BY <3>2 DEF Family, Cradles, CradleFits
    <3> HIDE DEF t
    <3> QED BY <3>1, <3>2, <3>3, PlacedPlain
  <2>3. ASSUME NEW w \in Workers, Await(a, w) PROVE \E t : Plain(a, t) /\ Move(a, t)
    <3> DEFINE t == [thread[a] EXCEPT !.pc = "poll", !.verb = "await", !.given = {w},
                                      !.todo = {w}, !.known = @ \ {w}]
    <3>1. /\ t.pc = "poll" /\ t.verb = "await"
          /\ t.frames = thread[a].frames /\ t.cradle = thread[a].cradle
      BY <1>1 DEF Thread
    <3>2. Move(a, t) /\ thread[a].pc = "body"
      BY <2>3 DEF Await, At
    <3> HIDE DEF t
    <3> QED BY <3>1, <3>2 DEF Plain, Calm, Ending, Waiting
  <2>4. ASSUME NEW v \in Workers, NEW w \in Workers, Race(a, v, w) PROVE \E t : Plain(a, t) /\ Move(a, t)
    <3> DEFINE t == [thread[a] EXCEPT !.pc = "poll", !.verb = "race", !.given = {v, w},
                                      !.todo = {v, w}, !.known = @ \ {v, w}]
    <3>1. /\ t.pc = "poll" /\ t.verb = "race"
          /\ t.frames = thread[a].frames /\ t.cradle = thread[a].cradle
      BY <1>1 DEF Thread
    <3>2. Move(a, t) /\ thread[a].pc = "body"
      BY <2>4 DEF Race, At
    <3> HIDE DEF t
    <3> QED BY <3>1, <3>2 DEF Plain, Calm, Ending, Waiting
  <2> QED BY <2>1, <2>2, <2>3, <2>4
<1> QED BY <1>2, <1>3, PlainFamily

LEMMA RoundFamily ==
  ASSUME Typing, Typing', Family, NEW a \in Actors,
         WaitPoll(a) \/ SweepClaim(a) \/ SweepNone(a) \/ JoinDone(a) \/ StopOne(a) \/ StopDone(a)
  PROVE  Family'
<1>1. thread[a] \in Thread /\ FramesFit(thread[a]) /\ Front(thread[a]) \subseteq Workers
  BY AtThread, FrontIsGiven
<1>2. UNCHANGED <<scope, member, kids, undrained>> /\ Claims
  <2>1. CASE SweepClaim(a) \/ StopOne(a)
    BY <1>1, <2>1, OneClaimed DEF SweepClaim, StopOne
  <2>2. CASE WaitPoll(a) \/ SweepNone(a) \/ JoinDone(a) \/ StopDone(a)
    BY <2>2, NothingClaimed DEF WaitPoll, SweepNone, JoinDone, StopDone
  <2> QED BY <2>1, <2>2 DEF SweepClaim, StopOne
<1>3. ASSUME thread[a].pc \in {"poll", "sweep"}, NEW pc \in {"poll", "sweep"}
      PROVE  Plain(a, [thread[a] EXCEPT !.pc = pc])
  <2> DEFINE t == [thread[a] EXCEPT !.pc = pc]
  <2>1. /\ t.pc = pc /\ t.verb = thread[a].verb /\ t.frames = thread[a].frames
        /\ t.cradle = thread[a].cradle
    BY <1>1 DEF Thread
  <2>2. t.verb # "wipe"
    BY <1>1, <1>3, <2>1 DEF FramesFit
  <2> HIDE DEF t
  <2> QED BY <1>3, <2>1, <2>2, PlacedPlain DEF t
<1>4. ASSUME thread[a].pc \in {"poll", "sweep"} PROVE \A o : Plain(a, WaitEnds(thread[a], o))
  BY <1>4, WaitEndsPlain
<1>5. \E t : Plain(a, t) /\ Move(a, t)
  <2>1. CASE WaitPoll(a)
    BY <1>3, <1>4, <2>1 DEF WaitPoll, At
  <2>2. CASE SweepClaim(a)
    BY <1>4, <2>2 DEF SweepClaim, At
  <2>3. CASE SweepNone(a)
    <3>1. /\ thread[a].pc = "sweep"
          /\ \/ Move(a, [thread[a] EXCEPT !.pc = "poll"])
             \/ \E o : Move(a, WaitEnds(thread[a], o))
      BY <2>3 DEF SweepNone, At
    <3> QED BY <1>3, <1>4, <3>1
  <2>4. CASE JoinDone(a)
    <3> DEFINE t == Restart(thread[a], "drain", "ok")
    <3>1. /\ t.pc = "drain" /\ t.verb = thread[a].verb /\ t.frames = thread[a].frames
          /\ t.cradle = thread[a].cradle
      BY <1>1 DEF Restart, Thread
    <3>2. Move(a, t) /\ thread[a].pc = "poll"
      BY <2>4 DEF JoinDone, At
    <3> HIDE DEF t
    <3> QED BY <3>1, <3>2, PlacedPlain
  <2>5. CASE StopOne(a)
    <3>1. PICK w \in Front(thread[a]) : Move(a, [thread[a] EXCEPT !.todo = @ \ {w}])
      BY <2>5 DEF StopOne
    <3> DEFINE t == [thread[a] EXCEPT !.todo = @ \ {w}]
    <3>2. /\ t.pc = thread[a].pc /\ t.verb = thread[a].verb /\ t.frames = thread[a].frames
          /\ t.cradle = thread[a].cradle
      BY <1>1 DEF Thread
    <3>3. thread[a].pc = "stop" /\ Move(a, t)
      BY <2>5, <3>1 DEF StopOne, At
    <3> HIDE DEF t
    <3> QED BY <3>2, <3>3, PlacedPlain
  <2>6. CASE StopDone(a)
    <3> DEFINE t == [thread[a] EXCEPT !.pc = "drain"]
    <3>1. /\ t.pc = "drain" /\ t.verb = thread[a].verb /\ t.frames = thread[a].frames
          /\ t.cradle = thread[a].cradle
      BY <1>1 DEF Thread
    <3>2. Move(a, t) /\ thread[a].pc = "stop"
      BY <2>6 DEF StopDone, At
    <3> HIDE DEF t
    <3> QED BY <3>1, <3>2, PlacedPlain
  <2> QED BY <2>1, <2>2, <2>3, <2>4, <2>5, <2>6
<1> QED BY <1>2, <1>5, PlainFamily

LEMMA BaseFamily ==
  ASSUME Typing, Typing', Family,
         RunReturns \/ OutliveDone \/ RunHalts \/ Wipe \/ \E a \in Actors : FinalPoll(a)
  PROVE  Family'
<1>1. thread[Main] \in Thread /\ Main \in Actors /\ Main \notin Workers
  BY AtThread, Kinds
<1>2. UNCHANGED <<scope, member, kids, undrained>> /\ Claims
  BY NothingClaimed DEF RunReturns, OutliveDone, RunHalts, Wipe, FinalPoll
<1>3. ASSUME NEW t, Move(Main, t), t.pc \in {"poll", "base", "stop"},
             thread[Main].pc \in {"body", "poll", "halt", "settled"}, ~Ending(Main),
             t.verb = "wipe" => t.pc = "stop",
             t.frames = thread[Main].frames, t.cradle = thread[Main].cradle
      PROVE  Family'
  <2>1. Plain(Main, t)
    BY <1>1, <1>3 DEF Plain, Calm
  <2> QED BY <1>1, <1>2, <1>3, <2>1, PlainFamily
<1>4. CASE RunReturns
  <2>1. PICK l : Move(Main, [thread[Main] EXCEPT !.pc = "poll", !.verb = "outlive", !.given = l, !.todo = l])
    BY <1>4 DEF RunReturns
  <2> DEFINE t == [thread[Main] EXCEPT !.pc = "poll", !.verb = "outlive", !.given = l, !.todo = l]
  <2>2. /\ t.pc = "poll" /\ t.verb = "outlive" /\ t.frames = thread[Main].frames
        /\ t.cradle = thread[Main].cradle
    BY <1>1 DEF Thread
  <2>3. thread[Main].pc = "body" /\ ~Ending(Main)
    BY <1>4 DEF RunReturns, At, Ending, Waiting
  <2> HIDE DEF t
  <2> QED BY <1>3, <2>1, <2>2, <2>3 DEF t
<1>5. CASE OutliveDone \/ RunHalts
  <2>1. PICK o : Move(Main, Restart(thread[Main], "base", o))
    BY <1>5 DEF OutliveDone, RunHalts
  <2> DEFINE t == Restart(thread[Main], "base", o)
  <2>2. /\ t.pc = "base" /\ t.verb = thread[Main].verb /\ t.frames = thread[Main].frames
        /\ t.cradle = thread[Main].cradle
    BY <1>1 DEF Restart, Thread
  <2>3. thread[Main].pc \in {"poll", "halt"} /\ ~Ending(Main) /\ thread[Main].verb # "wipe"
    BY <1>1, <1>5 DEF OutliveDone, RunHalts, At, Ending, Waiting, Family, Cradles, CradleFits
  <2> HIDE DEF t
  <2> QED BY <1>3, <2>1, <2>2, <2>3 DEF t
<1>6. CASE Wipe
  <2> DEFINE t == [thread[Main] EXCEPT !.pc = "stop", !.verb = "wipe",
                                       !.given = Pruned(roster), !.todo = Pruned(roster)]
  <2>1. /\ t.pc = "stop" /\ t.frames = thread[Main].frames /\ t.cradle = thread[Main].cradle
    BY <1>1 DEF Thread
  <2>2. Move(Main, t) /\ thread[Main].pc = "settled" /\ ~Ending(Main)
    BY <1>6 DEF Wipe, At, Ending, Waiting
  <2> HIDE DEF t
  <2> QED BY <1>3, <2>1, <2>2 DEF t
<1>7. ASSUME NEW a \in Actors, FinalPoll(a) PROVE Family'
  <2>1. PICK o : Move(a, [thread[a] EXCEPT !.pc = "settled", !.out = o])
    BY <1>7 DEF FinalPoll
  <2> DEFINE t == [thread[a] EXCEPT !.pc = "settled", !.out = o]
  <2>2. /\ t.pc = "settled" /\ t.verb = thread[a].verb /\ t.frames = thread[a].frames
        /\ t.cradle = thread[a].cradle
    BY AtThread DEF Thread
  <2>3. thread[a].pc = "base" /\ thread[a].verb # "wipe"
    BY <1>7 DEF FinalPoll, At, Family, Cradles, CradleFits
  <2> HIDE DEF t
  <2>4. Plain(a, t)
    BY <2>2, <2>3, PlacedPlain
  <2> QED BY <1>2, <2>1, <2>4, PlainFamily DEF t
<1> QED BY <1>4, <1>5, <1>6, <1>7

\* A thread that ends, or a newborn's that is let go with its body's step.
LEMMA PipeFamily ==
  ASSUME Typing, Typing', Family, NEW a \in Actors, PipeEnd(a)
  PROVE  Family'
<1>1. PICK s \in Stages : /\ thread[a].stage = s /\ At(s, "done")
                          /\ Move(a, [Concluded(thread[a], thread[s].out) EXCEPT !.stage = Session])
  BY DEF PipeEnd
<1> DEFINE t == [Concluded(thread[a], thread[s].out) EXCEPT !.stage = Session]
<1>2. /\ t.pc \in {"body", "halt"} /\ t.verb = "none"
      /\ t.frames = thread[a].frames /\ t.cradle = thread[a].cradle
  BY AtThread DEF Concluded, Thread
<1>3. thread[a].pc = "pipe" /\ Move(a, t) /\ ~Active(s)
  BY <1>1 DEF PipeEnd, At, Active
<1> HIDE DEF t
<1>4. Plain(a, t)
  BY <1>1, <1>2, <1>3 DEF Plain, Calm, Ending, Waiting
<1> QED BY <1>3, <1>4, PlainFamily, NothingClaimed DEF PipeEnd

LEMMA EnrolFamily ==
  ASSUME Typing, Typing', Family, NEW a \in Actors, Enrol(a)
  PROVE  Family'
<1>1. Cradle(a) = Session \/ (Cradle(a) \in Owners /\ Inside(Cradle(a)) /\ member[Cradle(a)] = "open")
  BY CradleInside DEF Enrol, At, Active, Ending, Waiting
<1>2. PICK w \in thread[a].given :
         /\ kids' \in Enrolled(Cradle(a), w)
         /\ Move(a, [Concluded(thread[a], "ok") EXCEPT !.known = @ \cup {w}])
         /\ UNCHANGED <<handle, struck>>
  BY <1>1 DEF Enrol
<1> DEFINE t == [Concluded(thread[a], "ok") EXCEPT !.known = @ \cup {w}]
<1>3. /\ t.pc = "body" /\ t.verb = "none"
      /\ t.frames = thread[a].frames /\ t.cradle = thread[a].cradle
  BY AtThread DEF Concluded, Thread
<1>4. /\ thread[a].pc = "enrol" /\ Move(a, t) /\ Claims
      /\ UNCHANGED <<handle, struck, scope, member, undrained>>
  BY <1>2, NothingClaimed DEF Enrol, At
<1> HIDE DEF t
<1>5. Calm(a, t)
  BY <1>3, <1>4 DEF Calm, Ending, Waiting
<1>6. Apart' /\ Homes' /\ Cradles' /\ Launched' /\ Chains' /\ Tree' /\ StoppedIsStruck'
  BY <1>4, <1>5, CalmThreads
<1>7. thread'[a] = t /\ \A b \in Actors : b # a => thread'[b] = thread[b]
  BY <1>4, MovedOne
<1>8. \A b \in Actors : thread'[b].frames = thread[b].frames /\ Cradle(b)' = Cradle(b)
  BY <1>3, <1>7 DEF Cradle
<1>9. kids \in [Owners -> SUBSET Workers]
  BY DEF Typing, TypeOK
<1>10. /\ \A o \in Owners : \A v \in kids[o] : Live(v)' => v \in kids'[o]
       /\ Cradle(a) # Session => w \in kids'[Cradle(a)]
       /\ \A o \in Owners : o # Cradle(a) => kids'[o] = kids[o]
  BY <1>1, <1>2, <1>4, <1>9 DEF Enrolled, Pruned, Live
<1>11. \A o \in Owners : Inside(o) => Inside(o)'
  BY <1>8 DEF Inside, Elems
<1>12. ASSUME NEW v \in Workers, InFlight(v) PROVE InCustody(v)'
  <2>1. PICK b \in Actors : /\ thread[b].pc \in {"register", "enrol"} /\ thread[b].given = {v}
                            /\ Under(v, Cradle(b))
    BY <1>12 DEF InFlight
  <2>2. CASE b # a
    BY <1>4, <1>7, <1>8, <2>1, <2>2 DEF InCustody, InFlight, Under
  <2>3. CASE b = a
    <3>1. v = w
      BY <2>1, <2>3
    <3>2. CASE Cradle(a) = Session
      BY <1>4, <2>1, <2>3, <3>2 DEF InCustody, Under, Family, Chains
    <3>3. CASE Cradle(a) # Session
      <4>1. KeptBy(v, Cradle(a))'
        <5>1. Cradle(a)' = Cradle(a)
          BY <1>8
        <5>2. v \in kids'[Cradle(a)] /\ Under(v, Cradle(a))' /\ Inside(Cradle(a))'
          BY <1>1, <1>4, <1>10, <1>11, <2>1, <2>3, <3>1, <3>3, <5>1 DEF Under
        <5> QED BY <5>1, <5>2 DEF KeptBy
      <4>2. Cradle(a) \in Owners /\ Cradle(a)' = Cradle(a)
        BY <1>1, <1>8, <3>3
      <4> QED BY <4>1, <4>2 DEF InCustody
    <3> QED BY <3>2, <3>3
  <2> QED BY <2>2, <2>3
<1>13. Custody'
  BY <1>4, <1>10, <1>11, <1>12, CustodyKept, ClaimsAreOnwards
<1>14. Childless'
  BY <1>1, <1>4, <1>10, Kinds DEF Family, Childless
<1> QED BY <1>6, <1>13, <1>14 DEF Family

\* A thread with no frame left ends, and with it, if it is a worker's, the worker.
LEMMA EndFamily ==
  ASSUME Typing, Typing', Family, NEW a \in Actors, NEW t, Move(a, t),
         thread[a].pc \in {"body", "halt", "settled", "stop", "drain"}, thread[a].frames = <<>>,
         t.pc = "done", t.frames = <<>>, t.cradle # Session => a \in Stages,
         t.verb \in {"outlive", "wipe"} => a = Main,
         UNCHANGED <<struck, scope, member, kids, undrained>>,
         \A w \in Workers : w # a => handle'[w] = handle[w],
         a \in Workers => handle'[a] \in {"ready", "consumed"}
  PROVE  Family'
<1>1. thread'[a] = t /\ \A b \in Actors : b # a => thread'[b] = thread[b]
  BY MovedOne
<1>2. \A b \in Actors : thread'[b].frames = thread[b].frames
  BY <1>1
<1>3. Apart' /\ Tree' /\ Childless'
  BY <1>2 DEF Family, Apart, Tree, Childless
<1>4. Homes'
  <2> SUFFICES ASSUME NEW w \in Workers PROVE Homely(w)'
    BY DEF Homes
  <2>1. w \in Actors
    BY Kinds
  <2>2. CASE w = a
    BY <1>1, <2>2 DEF Homely, Active, Live
  <2>3. CASE w # a
    BY <1>1, <2>1, <2>3 DEF Family, Homes, Homely, Active, Live
  <2> QED BY <2>2, <2>3
<1>5. Cradles'
  BY <1>1 DEF Family, Cradles, FramesOpen, CradleFits, Active, Ending
<1>6. Launched' /\ Chains'
  <2>1. \A s \in Stages : Active(s)' => Active(s) /\ thread'[s].cradle = thread[s].cradle
    BY <1>1, Kinds DEF Active
  <2>2. \A s \in Stages, b \in Actors :
          LaunchedBy(s, b) => At(b, "pipe")' /\ thread'[b].stage = s /\ Cradle(b)' = Cradle(b)
    BY <1>1 DEF LaunchedBy, At, Cradle
  <2>3. \A b \in Actors : /\ thread'[b].pc = "idle" <=> thread[b].pc = "idle"
                          /\ Elems(thread'[b].frames) = Elems(thread[b].frames)
    BY <1>1, <1>2 DEF Elems
  <2> QED BY <2>1, <2>2, <2>3, LineageKept
<1>7. Custody'
  <2>1. Onwards
    BY DEF Onwards, Live
  <2>2. \A o \in Owners : Inside(o) => Inside(o)'
    BY <1>2 DEF Inside, Elems
  <2>3. \A w \in Workers : InFlight(w) => InFlight(w)'
    BY <1>1 DEF InFlight, Under, Cradle
  <2> QED BY <2>1, <2>2, <2>3, CustodyKept DEF InCustody
<1>8. StoppedIsStruck'
  BY DEF Family, StoppedIsStruck
<1> QED BY <1>3, <1>4, <1>5, <1>6, <1>7, <1>8 DEF Family

LEMMA StageEndsFamily ==
  ASSUME Typing, Typing', Family, NEW s \in Stages, StageEnds(s)
  PROVE  Family'
<1> DEFINE t == [thread[s] EXCEPT !.pc = "done"]
<1>1. s \in Actors /\ s \notin Workers
  BY Kinds
<1>2. t.pc = "done" /\ t.frames = <<>> /\ t.verb = thread[s].verb /\ thread[s].frames = <<>>
  BY <1>1, AtThread DEF StageEnds, Thread
<1>3. /\ Move(s, t) /\ thread[s].pc \in {"body", "halt"}
      /\ UNCHANGED <<handle, struck, scope, member, kids, undrained>>
  BY DEF StageEnds, At
<1>4. t.verb \in {"outlive", "wipe"} => s = Main
  BY <1>1, <1>2 DEF Family, Cradles, CradleFits
<1> HIDE DEF t
<1> QED BY <1>1, <1>2, <1>3, <1>4, EndFamily

LEMMA PublishFamily ==
  ASSUME Typing, Typing', Family, NEW w \in Workers, Publish(w)
  PROVE  Family'
<1> DEFINE t == [Idle EXCEPT !.pc = "done"]
<1>1. w \in Actors
  BY Kinds
<1>2. t.pc = "done" /\ t.frames = <<>> /\ t.verb = "none" /\ t.cradle = Session
  BY DEF Idle
<1>3. /\ Move(w, t) /\ thread[w].pc = "settled"
      /\ UNCHANGED <<struck, scope, member, kids, undrained>>
      /\ handle' = [handle EXCEPT ![w] = Published(handle[w])]
  BY DEF Publish, At
<1>4. thread[w].frames = <<>>
  BY <1>1, <1>3, AtThread DEF FramesFit
<1>5. handle'[w] \in {"ready", "consumed"} /\ \A v \in Workers : v # w => handle'[v] = handle[v]
  BY <1>3 DEF Typing, TypeOK, Published
<1> HIDE DEF t
<1> QED BY <1>1, <1>2, <1>3, <1>4, <1>5, EndFamily

\* A node under threads that were started leaves the tree a tree.
LEMMA TreeGrows ==
  ASSUME Family, NEW x \in Actors, thread[x].pc = "idle",
         \A y \in Actors : y # x => scope'[y] = scope[y]
  PROVE  Tree'
<1> SUFFICES ASSUME NEW S \in SUBSET Actors, S # {}
             PROVE  \E y \in S : \A z \in S \ {y} : z \notin scope'[y]
  BY DEF Tree
<1>1. CASE S \subseteq {x}
  BY <1>1
<1>2. CASE ~(S \subseteq {x})
  <2>1. PICK y \in S \ {x} : \A z \in (S \ {x}) \ {y} : z \notin scope[y]
    <3>1. S \ {x} \in SUBSET Actors /\ S \ {x} # {}
      BY <1>2
    <3> QED BY <3>1 DEF Family, Tree
  <2>2. scope'[y] = scope[y] /\ x \notin scope[y]
    <3>1. y \in Actors
      OBVIOUS
    <3> QED BY <3>1 DEF Family, Chains
  <2> QED BY <2>1, <2>2
<1> QED BY <1>1, <1>2

\* What a thread that asks for a birth, a gather or a stage stands in.
LEMMA CradleChain ==
  ASSUME Claiming, Family, NEW a \in Actors, Active(a)
  PROVE  /\ Cradle(a) \in Owners \cup {Session}
         /\ scope[Cradle(a)] \subseteq Nodes
         /\ \A b \in scope[Cradle(a)] \cap Actors : thread[b].pc # "idle"
         /\ \A w \in Workers : handle[w] = "unborn" => w # Cradle(a) /\ w \notin scope[Cradle(a)]
<1>1. Typing /\ scope \in [Actors \cup Gathers \cup {Session} -> SUBSET Nodes]
  BY DEF Claiming, Typing, TypeOK
<1>2. Cradle(a) # Session => Cradle(a) \in Owners /\ Inside(Cradle(a))
  BY <1>1, CradleInside
<1>3. ASSUME NEW w \in Workers, handle[w] = "unborn" PROVE w # Cradle(a)
  BY <1>2, <1>3, Kinds DEF Inside, Claiming, Sound, FramesUsed, UnbornUnused
<1>4. Owners \subseteq Actors \cup Gathers
  BY DEF Owners, Actors
<1>5. scope[Cradle(a)] \subseteq Nodes /\ \A b \in scope[Cradle(a)] \cap Actors : thread[b].pc # "idle"
  BY <1>1, <1>2, <1>4, Kinds DEF Family, Chains
<1>6. \A w \in Workers : handle[w] = "unborn" => thread[w].pc = "idle"
  BY DEF Family, Homes, Homely
<1> QED BY <1>2, <1>3, <1>5, <1>6, Kinds

LEMMA SpawnFamily ==
  ASSUME Claiming, Typing', Family, NEW a \in Actors, NEW w \in Workers, Spawn(a, w)
  PROVE  Family'
<1> DEFINE born   == [Idle EXCEPT !.pc = "body", !.frames = <<w>>, !.known = thread[a].known]
           parent == [thread[a] EXCEPT !.pc = "register", !.given = {w}]
<1>1. /\ Typing /\ thread \in [Actors -> Thread] /\ thread[a] \in Thread /\ w \in Actors /\ w \in Owners
      /\ handle \in [Workers -> HandleStates]
      /\ scope \in [Actors \cup Gathers \cup {Session} -> SUBSET Nodes]
      /\ member \in [Owners -> {"unused", "open", "closed"}]
  BY Kinds DEF Claiming, Typing, TypeOK
<1>2. thread[w].pc = "idle" /\ thread[a].pc = "body" /\ a # w /\ handle[w] = "unborn" /\ member[w] = "unused"
  BY DEF Spawn, Claiming, Typing, IdleIfUnborn, UnbornUnused, At, NextId
<1>3. /\ born.pc = "body" /\ born.frames = <<w>> /\ born.verb = "none" /\ born.cradle = Session
      /\ born.stage = Session
  BY DEF Idle
<1>4. /\ parent.pc = "register" /\ parent.given = {w} /\ parent.verb = thread[a].verb
      /\ parent.frames = thread[a].frames /\ parent.cradle = thread[a].cradle
  BY <1>1 DEF Thread
<1>5. thread' = [thread EXCEPT ![w] = born, ![a] = parent]
  BY <1>1, <1>2 DEF Spawn
<1> HIDE DEF born, parent
<1>6. /\ thread'[w] = born /\ thread'[a] = parent
      /\ \A b \in Actors : b # a /\ b # w => thread'[b] = thread[b]
  BY <1>1, <1>2, <1>5
<1>7. /\ handle'[w] = "running" /\ \A v \in Workers : v # w => handle'[v] = handle[v]
      /\ member'[w] = "open" /\ \A o \in Owners : o # w => member'[o] = member[o]
      /\ UNCHANGED <<struck, kids, undrained>>
  BY <1>1 DEF Spawn
<1>8. /\ scope'[w] = scope[Cradle(a)] \cup {w}
      /\ \A x \in Actors \cup Gathers \cup {Session} : x # w => scope'[x] = scope[x]
  BY <1>1 DEF Spawn, BirthScope
<1>9. /\ Cradle(a) \in Owners \cup {Session} /\ Cradle(a) # w /\ w \notin scope[Cradle(a)]
      /\ scope[Cradle(a)] \subseteq Nodes
      /\ \A b \in scope[Cradle(a)] \cap Actors : thread[b].pc # "idle"
  BY <1>2, CradleChain DEF Active
<1>10. \A b \in Actors : b # w => /\ thread'[b].frames = thread[b].frames
                                  /\ thread'[b].cradle = thread[b].cradle
                                  /\ thread'[b].verb = thread[b].verb
                                  /\ Cradle(b)' = Cradle(b)
                                  /\ w \notin Elems(thread[b].frames)
                                  /\ Elems(thread'[b].frames) = Elems(thread[b].frames)
  <2>1. ASSUME NEW b \in Actors, b # w
        PROVE  /\ thread'[b].frames = thread[b].frames /\ thread'[b].cradle = thread[b].cradle
               /\ thread'[b].verb = thread[b].verb
    BY <1>4, <1>6, <2>1
  <2>2. \A b \in Actors : w \notin Elems(thread[b].frames)
    BY <1>2 DEF Claiming, Sound, FramesUsed
  <2> QED BY <2>1, <2>2 DEF Cradle, Elems
<1>11. Apart'
  <2>1. \A b \in Actors : b # w => \A i \in DOMAIN thread[b].frames : thread[b].frames[i] # w
    BY <1>10 DEF Elems
  <2>2. DOMAIN <<w>> = {1} /\ <<w>>[1] = w
    OBVIOUS
  <2>3. \A b \in Actors : b # w => thread'[b].frames = thread[b].frames
    BY <1>10
  <2>4. thread'[w].frames = <<w>>
    BY <1>3, <1>6
  <2> SUFFICES ASSUME NEW b \in Actors, NEW c \in Actors,
                      NEW i \in DOMAIN thread'[b].frames, NEW j \in DOMAIN thread'[c].frames,
                      thread'[b].frames[i] = thread'[c].frames[j]
               PROVE  b = c /\ i = j
    BY DEF Apart
  <2>5. CASE b = w /\ c = w
    BY <2>2, <2>4, <2>5
  <2>6. CASE b = w /\ c # w
    BY <2>1, <2>2, <2>3, <2>4, <2>6
  <2>7. CASE b # w /\ c = w
    BY <2>1, <2>2, <2>3, <2>4, <2>7
  <2>8. CASE b # w /\ c # w
    BY <2>3, <2>8 DEF Family, Apart
  <2> QED BY <2>5, <2>6, <2>7, <2>8
<1>12. Homes'
  <2> SUFFICES ASSUME NEW v \in Workers PROVE Homely(v)'
    BY DEF Homes
  <2>1. v \in Actors
    BY Kinds
  <2>2. CASE v = w
    <3>1. thread'[v].frames # <<>> /\ thread'[v].frames[Len(thread'[v].frames)] = w
      <4>1. thread'[v].frames = <<w>>
        BY <1>3, <1>6, <2>2
      <4>2. <<w>> # <<>> /\ Len(<<w>>) = 1 /\ <<w>>[1] = w
        OBVIOUS
      <4> QED BY <4>1, <4>2
    <3> QED BY <1>3, <1>6, <1>7, <2>2, <3>1 DEF Homely, Active, Live
  <2>3. CASE v # w
    BY <1>2, <1>4, <1>6, <1>7, <2>1, <2>3 DEF Family, Homes, Homely, Active, Live
  <2> QED BY <2>2, <2>3
<1>13. Cradles'
  <2> SUFFICES ASSUME NEW b \in Actors PROVE FramesOpen(b)' /\ CradleFits(b)'
    BY DEF Cradles
  <2>1. CASE b = w
    BY <1>3, <1>6, <1>7, <2>1 DEF FramesOpen, CradleFits
  <2>2. CASE b # w
    <3>1. FramesOpen(b) /\ CradleFits(b)
      BY DEF Family, Cradles
    <3>2. Ending(b) => Ending(b)'
      BY <1>2, <1>6, <2>2 DEF Ending, Waiting
    <3>3. FramesOpen(b)'
      <4>1. \A i \in DOMAIN thread[b].frames : thread[b].frames[i] # w /\ thread[b].frames[i] \in Owners
        BY <1>1, <1>10, <2>2, Framed DEF Elems
      <4> QED BY <1>7, <1>10, <2>2, <3>1, <3>2, <4>1 DEF FramesOpen
    <3>4. CradleFits(b)'
      <4>1. Active(b)' => Active(b)
        BY <1>2, <1>6, <2>2 DEF Active
      <4>2. thread[b].cradle \in Owners \cup {Session}
        BY <1>1 DEF Thread
      <4>3. Active(b) /\ thread[b].cradle # Session => thread[b].cradle # w
        BY <1>2, <3>1 DEF CradleFits
      <4>4. thread'[b].verb = "wipe" => thread'[b].pc \in {"stop", "drain", "done"}
        BY <1>2, <1>4, <1>6, <2>2, <3>1 DEF CradleFits
      <4> QED BY <1>7, <1>10, <2>2, <3>1, <4>1, <4>2, <4>3, <4>4 DEF CradleFits
    <3> QED BY <3>3, <3>4
  <2> QED BY <2>1, <2>2
<1>14. Launched'
  <2> SUFFICES ASSUME NEW s \in Stages, Active(s)' PROVE \E b \in Actors : LaunchedBy(s, b)'
    BY DEF Launched
  <2>1. s \in Actors /\ s # w
    BY Kinds
  <2>2. Active(s)
    BY <1>2, <1>6, <2>1 DEF Active
  <2>3. PICK b \in Actors : LaunchedBy(s, b)
    BY <2>2 DEF Family, Launched
  <2>4. b # a /\ b # w
    BY <1>2, <2>3 DEF LaunchedBy, At
  <2>5. LaunchedBy(s, b)'
    BY <1>6, <1>8, <1>10, <2>1, <2>3, <2>4 DEF LaunchedBy, At, Under
  <2> QED BY <2>5
<1>15. Chains'
  <2>1. \A b \in Actors : thread[b].pc # "idle" => thread'[b].pc # "idle"
    BY <1>3, <1>4, <1>6
  <2>2. \A x \in Actors \cup Gathers : \A b \in scope'[x] \cap Actors : thread'[b].pc # "idle"
    BY <1>3, <1>6, <1>8, <1>9, <2>1 DEF Family, Chains
  <2>3. \A b \in Actors : thread'[b].pc # "idle" => b \in scope'[b]
    BY <1>2, <1>6, <1>8 DEF Family, Chains
  <2>4. ASSUME NEW b \in Actors, NEW o \in Elems(thread'[b].frames) PROVE scope'[o] = scope'[b]
    <3>1. CASE b = w
      BY <1>3, <1>6, <2>4, <3>1, ElemsOfOne
    <3>2. CASE b # w
      <4>1. o \in Elems(thread[b].frames) /\ o # w
        BY <1>10, <2>4, <3>2
      <4>2. o \in Actors \cup Gathers
        BY <1>1, <4>1, Framed DEF Owners, Actors
      <4> QED BY <1>8, <3>2, <4>1, <4>2 DEF Family, Chains
    <3> QED BY <3>1, <3>2
  <2>5. scope'[Session] = {Root} /\ scope'[Main] = {Root, Main}
    BY <1>8, Kinds DEF Family, Chains
  <2> QED BY <2>2, <2>3, <2>4, <2>5 DEF Chains
<1>16. Tree'
  BY <1>1, <1>2, <1>8, TreeGrows
<1>17. Custody'
  <2> SUFFICES ASSUME NEW v \in Workers, Live(v)' PROVE InCustody(v)'
    BY DEF Custody
  <2>1. CASE v = w
    <3>1. Cradle(a)' = Cradle(a) /\ scope'[Cradle(a)] = scope[Cradle(a)]
      <4>1. Cradle(a) \in Actors \cup Gathers \cup {Session}
        BY <1>9 DEF Owners, Actors
      <4> QED BY <1>2, <1>8, <1>9, <1>10, <4>1
    <3>2. InFlight(v)'
      BY <1>4, <1>6, <1>8, <1>9, <2>1, <3>1 DEF InFlight, Under
    <3> QED BY <3>2 DEF InCustody
  <2>2. CASE v # w
    <3>1. v \in Actors /\ InCustody(v)
      BY <1>7, <2>2, Kinds DEF Family, Custody, Live
    <3>2. CASE InFlight(v)
      <4>1. PICK b \in Actors : /\ thread[b].pc \in {"register", "enrol"} /\ thread[b].given = {v}
                                /\ Under(v, Cradle(b))
        BY <3>2 DEF InFlight
      <4>2. b # a /\ b # w
        BY <1>2, <4>1
      <4>3. Cradle(b) # w /\ Cradle(b) \in Actors \cup Gathers \cup {Session}
        BY <1>2, <4>1, CradleChain DEF Active, Owners, Actors
      <4> QED BY <1>6, <1>8, <1>10, <2>2, <3>1, <4>1, <4>2, <4>3 DEF InCustody, InFlight, Under
    <3>3. CASE scope[v] = {Root, v}
      BY <1>8, <2>2, <3>1, <3>3 DEF InCustody
    <3>4. ASSUME NEW o \in Owners, KeptBy(v, o) PROVE KeptBy(v, o)'
      <4>1. o # w
        BY <1>2, <3>4 DEF KeptBy, Family, Childless
      <4>2. o \in Actors \cup Gathers
        BY DEF Owners, Actors
      <4>3. Under(v, o)'
        BY <1>8, <2>2, <3>1, <3>4, <4>1, <4>2 DEF KeptBy, Under
      <4>4. Inside(o) => Inside(o)'
        <5>1. \A b \in Actors : o \in Elems(thread[b].frames) => b # w
          BY <1>1, <1>2, Framed, ElemsOfEmpty
        <5> QED BY <1>10, <5>1 DEF Inside
      <4> QED BY <1>7, <2>2, <3>4, <4>3, <4>4 DEF KeptBy, Forsaken
    <3> QED BY <3>1, <3>2, <3>3, <3>4 DEF InCustody
  <2> QED BY <2>1, <2>2
<1>18. StoppedIsStruck' /\ Childless'
  BY <1>7 DEF Family, StoppedIsStruck, Childless
<1> QED BY <1>11, <1>12, <1>13, <1>14, <1>15, <1>16, <1>17, <1>18 DEF Family

LEMMA LaunchFamily ==
  ASSUME Claiming, Typing', Family, NEW a \in Actors, NEW s \in Stages, Launch(a, s)
  PROVE  Family'
<1> DEFINE stage  == [Idle EXCEPT !.pc = "body", !.cradle = Cradle(a), !.known = thread[a].known]
           parent == [thread[a] EXCEPT !.pc = "pipe", !.stage = s]
<1>1. /\ Typing /\ thread \in [Actors -> Thread] /\ thread[a] \in Thread
      /\ s \in Actors /\ s \notin Workers /\ s \notin Owners /\ s # Session /\ s # Main
      /\ scope \in [Actors \cup Gathers \cup {Session} -> SUBSET Nodes]
  BY Kinds DEF Claiming, Typing, TypeOK
<1>2. thread[s].pc = "idle" /\ thread[a].pc = "body" /\ a # s /\ thread[s].frames = <<>>
  BY <1>1, Framed DEF Launch, At
<1>3. /\ stage.pc = "body" /\ stage.frames = <<>> /\ stage.verb = "none" /\ stage.cradle = Cradle(a)
  BY DEF Idle
<1>4. /\ parent.pc = "pipe" /\ parent.stage = s /\ parent.verb = thread[a].verb
      /\ parent.frames = thread[a].frames /\ parent.cradle = thread[a].cradle
  BY <1>1 DEF Thread
<1>5. thread' = [thread EXCEPT ![s] = stage, ![a] = parent]
  BY <1>1, <1>2 DEF Launch
<1> HIDE DEF stage, parent
<1>6. /\ thread'[s] = stage /\ thread'[a] = parent
      /\ \A b \in Actors : b # a /\ b # s => thread'[b] = thread[b]
  BY <1>1, <1>2, <1>5
<1>7. UNCHANGED <<handle, struck, member, kids, undrained>>
  BY DEF Launch
<1>8. /\ scope'[s] = scope[a] \cup {s}
      /\ \A x \in Actors \cup Gathers \cup {Session} : x # s => scope'[x] = scope[x]
  BY <1>1 DEF Launch
<1>9. \A b \in Actors : /\ thread'[b].frames = thread[b].frames
                        /\ b # s => /\ thread'[b].cradle = thread[b].cradle
                                    /\ thread'[b].verb = thread[b].verb /\ Cradle(b)' = Cradle(b)
  <2>1. \A b \in Actors : /\ thread'[b].frames = thread[b].frames
                          /\ b # s => /\ thread'[b].cradle = thread[b].cradle
                                      /\ thread'[b].verb = thread[b].verb
    BY <1>2, <1>3, <1>4, <1>6
  <2> QED BY <2>1 DEF Cradle
<1>10. s \notin scope[a] /\ \A x \in Actors \cup Gathers : s \notin scope[x]
  BY <1>1, <1>2 DEF Family, Chains
<1>11. Cradle(a) # Session => member[Cradle(a)] = "open"
  BY <1>1, <1>2, CradleInside DEF Active, Ending, Waiting
<1>12. Apart'
  BY <1>9 DEF Family, Apart
<1>13. Homes'
  BY <1>1, <1>2, <1>4, <1>6, <1>7, Kinds DEF Family, Homes, Homely, Active, Live
<1>14. Cradles'
  <2> SUFFICES ASSUME NEW b \in Actors PROVE FramesOpen(b)' /\ CradleFits(b)'
    BY DEF Cradles
  <2>1. FramesOpen(b) /\ CradleFits(b)
    BY DEF Family, Cradles
  <2>2. CASE b = s
    BY <1>2, <1>3, <1>6, <1>7, <1>9, <1>11, <2>1, <2>2 DEF FramesOpen, CradleFits
  <2>3. CASE b # s
    <3>1. Ending(b) => Ending(b)'
      BY <1>2, <1>6, <2>3 DEF Ending, Waiting
    <3>2. Active(b)' => Active(b)
      BY <1>2, <1>6, <2>3 DEF Active
    <3>3. thread'[b].verb = "wipe" => thread'[b].pc \in {"stop", "drain", "done"}
      BY <1>2, <1>4, <1>6, <2>1, <2>3 DEF CradleFits
    <3> QED BY <1>7, <1>9, <2>1, <2>3, <3>1, <3>2, <3>3 DEF FramesOpen, CradleFits
  <2> QED BY <2>2, <2>3
<1>15. Launched'
  <2> SUFFICES ASSUME NEW t \in Stages, Active(t)' PROVE \E b \in Actors : LaunchedBy(t, b)'
    BY DEF Launched
  <2>1. t \in Actors
    BY Kinds
  <2>2. CASE t = s
    <3>1. LaunchedBy(s, a)'
      BY <1>2, <1>3, <1>4, <1>6, <1>8, <1>9, <1>10 DEF LaunchedBy, At, Under
    <3> QED BY <2>2, <3>1
  <2>3. CASE t # s
    <3>1. Active(t) /\ thread'[t].cradle = thread[t].cradle
      BY <1>2, <1>6, <1>9, <2>1, <2>3 DEF Active
    <3>2. PICK b \in Actors : LaunchedBy(t, b)
      BY <3>1 DEF Family, Launched
    <3>3. b # a /\ b # s
      BY <1>2, <3>2 DEF LaunchedBy, At
    <3>4. LaunchedBy(t, b)'
      BY <1>6, <1>8, <1>9, <2>1, <2>3, <3>1, <3>2, <3>3 DEF LaunchedBy, At, Under
    <3> QED BY <3>4
  <2> QED BY <2>2, <2>3
<1>16. Chains'
  <2>1. \A b \in Actors : thread[b].pc # "idle" => thread'[b].pc # "idle"
    BY <1>3, <1>4, <1>6
  <2>2. \A x \in Actors \cup Gathers : \A b \in scope'[x] \cap Actors : thread'[b].pc # "idle"
    BY <1>3, <1>6, <1>8, <2>1 DEF Family, Chains
  <2>3. \A b \in Actors : thread'[b].pc # "idle" => b \in scope'[b]
    BY <1>2, <1>6, <1>8 DEF Family, Chains
  <2>4. ASSUME NEW b \in Actors, NEW o \in Elems(thread'[b].frames) PROVE scope'[o] = scope'[b]
    <3>1. o \in Elems(thread[b].frames)
      BY <1>9, <2>4 DEF Elems
    <3>2. b # s
      BY <1>2, <3>1, ElemsOfEmpty
    <3>3. o \in Actors \cup Gathers /\ o # s
      BY <1>1, <3>1, Framed DEF Owners, Actors
    <3> QED BY <1>8, <3>1, <3>2, <3>3 DEF Family, Chains
  <2>5. scope'[Session] = {Root} /\ scope'[Main] = {Root, Main}
    BY <1>1, <1>8, Kinds DEF Family, Chains
  <2> QED BY <2>2, <2>3, <2>4, <2>5 DEF Chains
<1>17. Tree'
  BY <1>1, <1>2, <1>8, TreeGrows
<1>18. Custody'
  <2> SUFFICES ASSUME NEW v \in Workers, Live(v)' PROVE InCustody(v)'
    BY DEF Custody
  <2>1. v \in Actors /\ v # s /\ scope'[v] = scope[v] /\ InCustody(v)
    BY <1>1, <1>7, <1>8, Kinds DEF Family, Custody, Live
  <2>2. CASE InFlight(v)
    <3>1. PICK b \in Actors : /\ thread[b].pc \in {"register", "enrol"} /\ thread[b].given = {v}
                              /\ Under(v, Cradle(b))
      BY <2>2 DEF InFlight
    <3>2. b # a /\ b # s
      BY <1>2, <3>1
    <3>3. Cradle(b) # s /\ Cradle(b) \in Actors \cup Gathers \cup {Session}
      BY <1>1, <3>1, CradleChain DEF Active, Owners, Actors
    <3> QED BY <1>6, <1>8, <1>9, <2>1, <3>1, <3>2, <3>3 DEF InCustody, InFlight, Under
  <2>3. CASE scope[v] = {Root, v}
    BY <2>1, <2>3 DEF InCustody
  <2>4. ASSUME NEW o \in Owners, KeptBy(v, o) PROVE KeptBy(v, o)'
    <3>1. o # s /\ o \in Actors \cup Gathers
      BY <1>1 DEF Owners, Actors
    <3>2. Under(v, o)'
      BY <1>8, <2>1, <2>4, <3>1 DEF KeptBy, Under
    <3>3. Inside(o) => Inside(o)'
      BY <1>9 DEF Inside, Elems
    <3> QED BY <1>7, <2>4, <3>2, <3>3 DEF KeptBy, Forsaken
  <2> QED BY <2>1, <2>2, <2>3, <2>4 DEF InCustody
<1>19. StoppedIsStruck' /\ Childless'
  BY <1>7 DEF Family, StoppedIsStruck, Childless
<1> QED BY <1>12, <1>13, <1>14, <1>15, <1>16, <1>17, <1>18, <1>19 DEF Family

LEMMA OpenFamily ==
  ASSUME Claiming, Typing', Family, NEW a \in Actors, NEW g \in Gathers, OpenGather(a, g)
  PROVE  Family'
<1> DEFINE t == [thread[a] EXCEPT !.frames = <<g>> \o @]
           old == thread[a].frames
<1>1. /\ Typing /\ thread[a] \in Thread /\ g \in Owners /\ g \notin Actors /\ g # Session
      /\ scope \in [Actors \cup Gathers \cup {Session} -> SUBSET Nodes]
      /\ member \in [Owners -> {"unused", "open", "closed"}]
      /\ old \in Seq(Owners)
  BY Kinds, AtThread DEF Claiming, Typing, TypeOK
<1>2. thread[a].pc = "body" /\ member[g] = "unused" /\ Move(a, t)
  BY DEF OpenGather, At
<1>3. /\ t.pc = "body" /\ t.verb = thread[a].verb /\ t.cradle = thread[a].cradle
      /\ t.frames = <<g>> \o old /\ t.stage = thread[a].stage
  BY <1>1, <1>2 DEF Thread
<1>4. thread'[a] = t /\ \A b \in Actors : b # a => thread'[b] = thread[b]
  BY <1>1, <1>2, MovedOne
<1>5. /\ member'[g] = "open" /\ \A o \in Owners : o # g => member'[o] = member[o]
      /\ scope'[g] = scope[a]
      /\ \A x \in Actors \cup Gathers \cup {Session} : x # g => scope'[x] = scope[x]
      /\ UNCHANGED <<handle, struck, kids, undrained>>
  BY <1>1 DEF OpenGather
<1>6. /\ DOMAIN t.frames = 1 .. (Len(old) + 1) /\ Len(t.frames) = Len(old) + 1 /\ Len(old) \in Nat
      /\ DOMAIN old = 1 .. Len(old)
      /\ t.frames[1] = g /\ \A i \in 1 .. Len(old) : t.frames[i + 1] = old[i]
      /\ t.frames # <<>>
  BY <1>1, <1>3
<1>7. Elems(t.frames) = {g} \cup Elems(old)
  BY <1>1, <1>3, ElemsOfPushed
<1>8. \A b \in Actors : g \notin Elems(thread[b].frames)
  BY <1>2 DEF Claiming, Sound, FramesUsed
<1> HIDE DEF t
<1>9. \A b \in Actors : \A i \in DOMAIN thread[b].frames : thread[b].frames[i] # g
  BY <1>8 DEF Elems
<1>10. \* where a frame is found after
       ASSUME NEW i \in DOMAIN t.frames
       PROVE  \/ i = 1 /\ t.frames[i] = g
              \/ i - 1 \in DOMAIN old /\ t.frames[i] = old[i - 1] /\ i > 1
  BY <1>6
<1>11. Apart'
  <2> SUFFICES ASSUME NEW b \in Actors, NEW c \in Actors,
                      NEW i \in DOMAIN thread'[b].frames, NEW j \in DOMAIN thread'[c].frames,
                      thread'[b].frames[i] = thread'[c].frames[j]
               PROVE  b = c /\ i = j
    BY DEF Apart
  <2>1. CASE b = a /\ c = a
    <3>1. i \in DOMAIN t.frames /\ j \in DOMAIN t.frames /\ t.frames[i] = t.frames[j]
      BY <1>4, <2>1
    <3>2. \/ i = 1 /\ j = 1
          \/ i - 1 \in DOMAIN old /\ j - 1 \in DOMAIN old /\ old[i - 1] = old[j - 1]
      BY <1>9, <1>10, <3>1
    <3>3. i \in Nat /\ j \in Nat
      BY <1>6, <3>1
    <3>4. i - 1 \in DOMAIN old /\ j - 1 \in DOMAIN old /\ old[i - 1] = old[j - 1] => i - 1 = j - 1
      BY DEF Family, Apart
    <3> QED BY <2>1, <3>2, <3>3, <3>4
  <2>2. CASE b = a /\ c # a
    <3>1. i \in DOMAIN t.frames /\ j \in DOMAIN thread[c].frames /\ t.frames[i] = thread[c].frames[j]
      BY <1>4, <2>2
    <3>2. i - 1 \in DOMAIN old /\ old[i - 1] = thread[c].frames[j]
      BY <1>9, <1>10, <3>1
    <3> QED BY <2>2, <3>1, <3>2 DEF Family, Apart
  <2>3. CASE b # a /\ c = a
    <3>1. j \in DOMAIN t.frames /\ i \in DOMAIN thread[b].frames /\ t.frames[j] = thread[b].frames[i]
      BY <1>4, <2>3
    <3>2. j - 1 \in DOMAIN old /\ old[j - 1] = thread[b].frames[i]
      BY <1>9, <1>10, <3>1
    <3> QED BY <2>3, <3>1, <3>2 DEF Family, Apart
  <2>4. CASE b # a /\ c # a
    BY <1>4, <2>4 DEF Family, Apart
  <2> QED BY <2>1, <2>2, <2>3, <2>4
<1>12. Homes'
  <2> SUFFICES ASSUME NEW v \in Workers PROVE Homely(v)'
    BY DEF Homes
  <2>1. v \in Actors /\ Homely(v)
    BY Kinds DEF Family, Homes
  <2>2. CASE v = a
    <3>1. old # <<>> /\ old[Len(old)] = v
      BY <1>2, <2>1, <2>2 DEF Homely
    <3>2. Len(old) \in 1 .. Len(old)
      BY <1>1, <3>1
    <3>3. t.frames[Len(t.frames)] = v
      BY <1>6, <3>1, <3>2
    <3> QED BY <1>2, <1>3, <1>4, <1>5, <1>6, <2>1, <2>2, <3>3 DEF Homely, Active, Live
  <2>3. CASE v # a
    BY <1>4, <1>5, <2>1, <2>3 DEF Homely, Active, Live
  <2> QED BY <2>2, <2>3
<1>13. Cradles'
  <2> SUFFICES ASSUME NEW b \in Actors PROVE FramesOpen(b)' /\ CradleFits(b)'
    BY DEF Cradles
  <2>1. FramesOpen(b) /\ CradleFits(b)
    BY DEF Family, Cradles
  <2>2. \A o \in Owners : member[o] = "open" => member'[o] = "open"
    BY <1>2, <1>5
  <2>3. \A i \in DOMAIN thread[b].frames : thread[b].frames[i] \in Owners
    BY <1>1, Framed DEF Elems
  <2>4. CASE b = a
    <3>1. ~Ending(a)
      BY <1>2 DEF Ending, Waiting
    <3>2. \A i \in DOMAIN old : member'[old[i]] = "open"
      BY <2>1, <2>2, <2>3, <2>4, <3>1 DEF FramesOpen
    <3>3. FramesOpen(b)'
      BY <1>4, <1>5, <1>10, <2>4, <3>2 DEF FramesOpen
    <3>4. thread[a].cradle \in Owners \cup {Session}
      BY <1>1 DEF Thread
    <3>5. CradleFits(b)'
      BY <1>2, <1>3, <1>4, <2>1, <2>2, <2>4, <3>4 DEF CradleFits, Active
    <3> QED BY <3>3, <3>5
  <2>5. CASE b # a
    <3>1. thread[b].cradle \in Owners \cup {Session}
      BY <1>1, AtThread DEF Thread
    <3>2. FramesOpen(b)'
      BY <1>4, <2>1, <2>2, <2>3, <2>5 DEF FramesOpen, Ending
    <3>3. CradleFits(b)'
      BY <1>4, <2>1, <2>2, <2>5, <3>1 DEF CradleFits, Active
    <3> QED BY <3>2, <3>3
  <2> QED BY <2>4, <2>5
<1>14. Launched'
  <2> SUFFICES ASSUME NEW s \in Stages, Active(s)' PROVE \E b \in Actors : LaunchedBy(s, b)'
    BY DEF Launched
  <2>1. s \in Actors /\ s # g /\ thread'[s].cradle = thread[s].cradle /\ Active(s)
    BY <1>1, <1>2, <1>3, <1>4, Kinds DEF Active
  <2>2. PICK b \in Actors : LaunchedBy(s, b)
    BY <2>1 DEF Family, Launched
  <2>3. b # a /\ b # g
    BY <1>1, <1>2, <2>2 DEF LaunchedBy, At
  <2>4. LaunchedBy(s, b)'
    BY <1>4, <1>5, <2>1, <2>2, <2>3 DEF LaunchedBy, At, Under, Cradle
  <2> QED BY <2>4
<1>15. Chains'
  <2>1. \A b \in Actors : (thread[b].pc # "idle") <=> (thread'[b].pc # "idle")
    BY <1>2, <1>3, <1>4
  <2>2. \A b \in Actors : scope'[b] = scope[b]
    BY <1>1, <1>5
  <2>3. \A x \in Actors \cup Gathers : \A b \in scope'[x] \cap Actors : thread'[b].pc # "idle"
    BY <1>5, <2>1, <2>2 DEF Family, Chains
  <2>4. ASSUME NEW b \in Actors, NEW o \in Elems(thread'[b].frames) PROVE scope'[o] = scope'[b]
    <3>1. CASE o = g
      <4>1. b = a
        BY <1>4, <1>8, <2>4, <3>1
      <4> QED BY <1>5, <2>2, <3>1, <4>1
    <3>2. CASE o # g
      <4>1. o \in Elems(thread[b].frames)
        BY <1>4, <1>7, <2>4, <3>2
      <4>2. o \in Actors \cup Gathers
        BY <1>1, <4>1, Framed DEF Owners, Actors
      <4> QED BY <1>5, <2>2, <3>2, <4>1, <4>2 DEF Family, Chains
    <3> QED BY <3>1, <3>2
  <2>5. scope'[Session] = {Root} /\ scope'[Main] = {Root, Main}
    BY <1>1, <1>5, Kinds DEF Family, Chains
  <2>6. \A b \in Actors : thread'[b].pc # "idle" => b \in scope'[b]
    BY <2>1, <2>2 DEF Family, Chains
  <2> QED BY <2>3, <2>4, <2>5, <2>6 DEF Chains
<1>16. Tree'
  <2>1. \A S \in SUBSET Actors : \A x \in S : scope'[x] = scope[x]
    BY <1>1, <1>5
  <2> QED BY <2>1 DEF Family, Tree
<1>17. Custody'
  <2> SUFFICES ASSUME NEW v \in Workers, Live(v)' PROVE InCustody(v)'
    BY DEF Custody
  <2>1. v \in Actors /\ v # g /\ scope'[v] = scope[v] /\ InCustody(v)
    BY <1>1, <1>5, Kinds DEF Family, Custody, Live
  <2>2. CASE InFlight(v)
    <3>1. PICK b \in Actors : /\ thread[b].pc \in {"register", "enrol"} /\ thread[b].given = {v}
                              /\ Under(v, Cradle(b))
      BY <2>2 DEF InFlight
    <3>2. b # a
      BY <1>2, <3>1
    <3>3. Cradle(b) # g /\ Cradle(b) \in Actors \cup Gathers \cup {Session}
      <4>1. Cradle(b) # Session => Inside(Cradle(b))
        BY <1>1, <3>1, CradleInside DEF Active
      <4>2. Cradle(b) \in Owners \cup {Session}
        BY <3>1, CradleChain DEF Active
      <4> QED BY <1>1, <1>8, <4>1, <4>2 DEF Inside, Owners, Actors
    <3> QED BY <1>4, <1>5, <2>1, <3>1, <3>2, <3>3 DEF InCustody, InFlight, Under, Cradle
  <2>3. CASE scope[v] = {Root, v}
    BY <2>1, <2>3 DEF InCustody
  <2>4. ASSUME NEW o \in Owners, KeptBy(v, o) PROVE KeptBy(v, o)'
    <3>1. o # g /\ o \in Actors \cup Gathers
      BY <1>2, <2>4 DEF KeptBy, Family, Childless, Owners, Actors
    <3>2. Under(v, o)'
      BY <1>5, <2>1, <2>4, <3>1 DEF KeptBy, Under
    <3>3. Inside(o) => Inside(o)'
      BY <1>4, <1>7 DEF Inside
    <3> QED BY <1>5, <2>4, <3>2, <3>3 DEF KeptBy, Forsaken
  <2> QED BY <2>1, <2>2, <2>3, <2>4 DEF InCustody
<1>18. StoppedIsStruck' /\ Childless'
  BY <1>2, <1>5 DEF Family, StoppedIsStruck, Childless
<1> QED BY <1>11, <1>12, <1>13, <1>14, <1>15, <1>16, <1>17, <1>18 DEF Family

LEMMA ExitingFamily ==
  ASSUME Typing, Typing', Family, NEW a \in Actors, NEW pc \in {"poll", "stop"},
         thread[a].pc \in {"body", "halt"}, Exiting(a, pc)
  PROVE  Family'
<1> DEFINE o == Head(thread[a].frames)
           t == [thread[a] EXCEPT !.pc = pc, !.verb = "exit",
                                  !.given = Pruned(kids[o]), !.todo = Pruned(kids[o])]
<1>1. /\ thread[a] \in Thread /\ thread[a].frames # <<>>
      /\ o \in Owners /\ 1 \in DOMAIN thread[a].frames /\ thread[a].frames[1] = o
      /\ member \in [Owners -> {"unused", "open", "closed"}] /\ kids \in [Owners -> SUBSET Workers]
  BY Framed DEF Exiting, Typing, TypeOK
<1>2. Move(a, t) /\ Close(o) /\ UNCHANGED <<handle, struck, scope, undrained>>
  BY DEF Exiting
<1>3. /\ t.pc = pc /\ t.verb = "exit" /\ t.frames = thread[a].frames /\ t.cradle = thread[a].cradle
  BY <1>1 DEF Thread
<1>4. /\ member'[o] = "closed" /\ \A q \in Owners : q # o => member'[q] = member[q]
      /\ kids'[o] = Pruned(kids[o]) /\ \A q \in Owners : q # o => kids'[q] = kids[q]
  BY <1>1, <1>2 DEF Close
<1> HIDE DEF t, o
<1>5. thread'[a] = t /\ \A b \in Actors : b # a => thread'[b] = thread[b]
  BY <1>2, MovedOne
<1>6. \A b \in Actors : /\ thread'[b].frames = thread[b].frames /\ thread'[b].cradle = thread[b].cradle
                        /\ thread'[b].pc = "idle" <=> thread[b].pc = "idle"
                        /\ thread'[b].pc = "done" <=> thread[b].pc = "done"
                        /\ Cradle(b)' = Cradle(b)
                        /\ Elems(thread'[b].frames) = Elems(thread[b].frames)
  BY <1>3, <1>5 DEF Cradle, Elems
<1>7. Claims
  BY <1>2, NothingClaimed
<1>8. Apart' /\ Tree'
  BY <1>2, <1>6 DEF Family, Apart, Tree
<1>9. Homes'
  <2> SUFFICES ASSUME NEW w \in Workers PROVE Homely(w)'
    BY DEF Homes
  <2>1. w \in Actors
    BY Kinds
  <2>2. thread'[w].pc \notin {"idle", "base", "settled", "done"} =>
          thread[w].pc \notin {"idle", "base", "settled", "done"}
    BY <1>5, <2>1
  <2> QED BY <1>6, <1>7, <2>1, <2>2, HomesKept DEF Family, Homes, Homely, Active
<1>10. Cradles'
  <2> SUFFICES ASSUME NEW b \in Actors PROVE FramesOpen(b)' /\ CradleFits(b)'
    BY DEF Cradles
  <2>1. FramesOpen(b) /\ CradleFits(b)
    BY DEF Family, Cradles
  <2>2. \A i \in DOMAIN thread[b].frames : thread[b].frames[i] \in Owners
    BY Framed DEF Elems
  <2>3. FramesOpen(b)'
    <3> SUFFICES ASSUME NEW i \in DOMAIN thread[b].frames
                 PROVE  member'[thread[b].frames[i]] = "open" \/ (i = 1 /\ Ending(b)')
      BY <1>6 DEF FramesOpen
    <3>1. CASE thread[b].frames[i] = o
      <4>1. b = a /\ i = 1
        BY <1>1, <3>1 DEF Family, Apart
      <4> QED BY <1>3, <1>5, <4>1 DEF Ending, Waiting
    <3>2. CASE thread[b].frames[i] # o
      <4>1. Ending(b) => Ending(b)'
        BY <1>5 DEF Ending, Waiting
      <4> QED BY <1>4, <2>1, <2>2, <3>2, <4>1 DEF FramesOpen
    <3> QED BY <3>1, <3>2
  <2>4. Active(b) => thread[b].cradle # o
    <3> SUFFICES ASSUME Active(b), thread[b].cradle = o PROVE FALSE
      OBVIOUS
    <3>1. thread[b].cradle # Session /\ b \in Stages
      BY <1>1, <2>1, Kinds DEF CradleFits
    <3>2. PICK c \in Actors : /\ At(c, "pipe") /\ thread[c].frames # <<>>
                              /\ Head(thread[c].frames) = o
      BY <3>1, CradleHeld
    <3>3. 1 \in DOMAIN thread[c].frames /\ thread[c].frames[1] = o
      BY <3>2, Framed
    <3>4. c = a
      BY <1>1, <3>3 DEF Family, Apart
    <3> QED BY <3>2, <3>4 DEF At
  <2>5. thread[b].cradle \in Owners \cup {Session}
    BY AtThread DEF Thread
  <2>6. CradleFits(b)'
    BY <1>3, <1>4, <1>5, <1>6, <2>1, <2>4, <2>5 DEF CradleFits, Active
  <2> QED BY <2>3, <2>6
<1>11. Launched' /\ Chains'
  <2>1. \A s \in Stages : s \in Actors
    BY Kinds
  <2>2. \A s \in Stages : Active(s)' => Active(s) /\ thread'[s].cradle = thread[s].cradle
    BY <1>6, <2>1 DEF Active
  <2>3. \A s \in Stages, b \in Actors :
          LaunchedBy(s, b) => At(b, "pipe")' /\ thread'[b].stage = s /\ Cradle(b)' = Cradle(b)
    BY <1>5, <1>6 DEF LaunchedBy, At
  <2> QED BY <1>2, <1>6, <2>2, <2>3, LineageKept
<1>12. Custody'
  <2>1. \A q \in Owners : Inside(q) => Inside(q)'
    BY <1>6 DEF Inside
  <2>2. \A w \in Workers : InFlight(w) => InFlight(w)'
    BY <1>2, <1>5, <1>6 DEF InFlight, Under
  <2>3. \A q \in Owners : \A w \in kids[q] : Live(w)' => w \in kids'[q]
    BY <1>2, <1>4 DEF Pruned, Live
  <2> QED BY <1>2, <1>7, <2>1, <2>2, <2>3, CustodyKept, ClaimsAreOnwards DEF InCustody
<1>13. StoppedIsStruck'
  BY <1>7, StoppedKept
<1>14. Childless'
  BY <1>4 DEF Family, Childless
<1> QED BY <1>8, <1>9, <1>10, <1>11, <1>12, <1>13, <1>14 DEF Family

\* An owner's frame goes, its children all claimed, those that live forsaken.
LEMMA PopFamily ==
  ASSUME Claiming, Typing', Family, NEW a \in Actors, Leave(a), thread[a].verb = "exit"
  PROVE  Family'
<1> DEFINE t   == Left(a, thread[a])
           old == thread[a].frames
           o   == Head(old)
<1>1. Typing /\ thread[a] \in Thread /\ FramesFit(thread[a]) /\ thread[a].pc \in {"stop", "drain"}
  BY AtThread DEF Claiming, Leave, At
<1>2. /\ old \in Seq(Owners) /\ old # <<>> /\ DOMAIN old = 1 .. Len(old) /\ o \in Owners
  BY <1>1, Framed DEF FramesFit, Waiting
<1>3. /\ t.frames = Tail(old) /\ t.verb \in {"none", "exit"} /\ t.cradle = thread[a].cradle
      /\ t.pc = IF old = <<a>> THEN "base" ELSE t.pc
      /\ t.pc \in {"base", "body", "halt"}
  <2>1. CASE old = <<a>>
    <3>1. Tail(<<a>>) = <<>>
      OBVIOUS
    <3>2. t = [Restart(thread[a], "base", thread[a].out) EXCEPT !.frames = <<>>, !.given = {}, !.todo = {},
                                                                !.known = {}]
      BY <2>1 DEF Left
    <3> QED BY <1>1, <2>1, <3>1, <3>2 DEF Restart, Thread
  <2>2. CASE old # <<a>>
    <3> DEFINE c == Concluded(thread[a], thread[a].out)
    <3>1. /\ c.pc \in {"body", "halt"} /\ c.verb = "none" /\ c.frames = old
          /\ c.cradle = thread[a].cradle /\ c \in Thread
      <4>1. thread[a].out \in Outcomes
        BY <1>1 DEF Thread
      <4>2. c \in Thread
        BY <1>1, <4>1, ConcludedIsThread
      <4> QED BY <1>1, <4>1, <4>2 DEF Concluded, Thread
    <3>2. t = [c EXCEPT !.frames = Tail(c.frames)]
      BY <2>2 DEF Left
    <3> HIDE DEF c, t
    <3>3. /\ t.pc = c.pc /\ t.verb = c.verb /\ t.frames = Tail(c.frames) /\ t.cradle = c.cradle
      BY <3>1, <3>2 DEF Thread
    <3> QED BY <2>2, <3>1, <3>3
  <2> QED BY <2>1, <2>2
<1>4. /\ Move(a, t) /\ UNCHANGED <<handle, struck, scope, member, kids>>
      /\ undrained \subseteq undrained'
      /\ ~Drained(thread[a]) => o \in undrained'
  BY DEF Leave
<1>5. /\ Tail(old) \in Seq(Owners) /\ Len(Tail(old)) = Len(old) - 1
      /\ \A i \in 1 .. Len(Tail(old)) : Tail(old)[i] = old[i + 1] /\ i + 1 \in DOMAIN old /\ i \in Nat
      /\ DOMAIN Tail(old) = 1 .. Len(Tail(old))
  BY <1>2
<1>6. Elems(old) = {o} \cup Elems(Tail(old))
  BY <1>2, ElemsOfTail
<1> HIDE DEF t
<1>7. thread'[a] = t /\ \A b \in Actors : b # a => thread'[b] = thread[b]
  BY <1>1, <1>4, MovedOne
<1>8. \* where a frame was found before
      ASSUME NEW b \in Actors, NEW i \in DOMAIN thread'[b].frames
      PROVE  IF b = a THEN i \in Nat /\ i + 1 \in DOMAIN old /\ thread'[b].frames[i] = old[i + 1]
                      ELSE i \in DOMAIN thread[b].frames /\ thread'[b].frames[i] = thread[b].frames[i]
  BY <1>3, <1>5, <1>7, <1>8
<1>9. Apart'
  <2> SUFFICES ASSUME NEW b \in Actors, NEW c \in Actors,
                      NEW i \in DOMAIN thread'[b].frames, NEW j \in DOMAIN thread'[c].frames,
                      thread'[b].frames[i] = thread'[c].frames[j]
               PROVE  b = c /\ i = j
    BY DEF Apart
  <2>1. CASE b = a /\ c = a
    <3>1. i + 1 \in DOMAIN old /\ j + 1 \in DOMAIN old /\ old[i + 1] = old[j + 1] /\ i \in Nat /\ j \in Nat
      BY <1>8, <2>1
    <3>2. i + 1 = j + 1
      BY <3>1 DEF Family, Apart
    <3> QED BY <2>1, <3>1, <3>2
  <2>2. CASE b = a /\ c # a
    BY <1>8, <2>2 DEF Family, Apart
  <2>3. CASE b # a /\ c = a
    BY <1>8, <2>3 DEF Family, Apart
  <2>4. CASE b # a /\ c # a
    BY <1>8, <2>4 DEF Family, Apart
  <2> QED BY <2>1, <2>2, <2>3, <2>4
<1>10. Homes'
  <2> SUFFICES ASSUME NEW w \in Workers PROVE Homely(w)'
    BY DEF Homes
  <2>1. w \in Actors /\ Homely(w)
    BY Kinds DEF Family, Homes
  <2>2. CASE w # a
    BY <1>4, <1>7, <2>1, <2>2 DEF Homely, Active, Live
  <2>3. CASE w = a
    <3>1. old[Len(old)] = w
      BY <1>1, <2>1, <2>3 DEF Homely
    <3>2. CASE old = <<a>>
      BY <1>1, <1>3, <1>4, <1>7, <2>1, <2>3, <3>2 DEF Homely, Active, Live
    <3>3. CASE old # <<a>>
      <4>1. Len(old) # 1
        <5> SUFFICES ASSUME Len(old) = 1 PROVE FALSE
          OBVIOUS
        <5>1. old = <<old[1]>>
          BY <1>2
        <5> QED BY <2>3, <3>1, <3>3, <5>1
      <4>2. Len(Tail(old)) \in 1 .. Len(Tail(old)) /\ Len(Tail(old)) + 1 = Len(old)
        <5>1. Len(old) \in Nat /\ Len(old) # 0
          BY <1>2
        <5> HIDE DEF old
        <5>2. Len(Tail(old)) = Len(old) - 1
          BY <1>5
        <5> QED BY <4>1, <5>1, <5>2
      <4>3. Tail(old) # <<>> /\ Tail(old)[Len(Tail(old))] = w
        BY <1>5, <3>1, <4>2
      <4> QED BY <1>1, <1>3, <1>4, <1>7, <2>1, <2>3, <4>3 DEF Homely, Active, Live
    <3> QED BY <3>2, <3>3
  <2> QED BY <2>2, <2>3
<1>11. Cradles'
  <2> SUFFICES ASSUME NEW b \in Actors PROVE FramesOpen(b)' /\ CradleFits(b)'
    BY DEF Cradles
  <2>1. FramesOpen(b) /\ CradleFits(b)
    BY DEF Family, Cradles
  <2>2. CASE b = a
    <3>1. ASSUME NEW i \in DOMAIN thread'[b].frames PROVE member'[thread'[b].frames[i]] = "open"
      <4>1. i \in Nat /\ i + 1 \in DOMAIN old /\ i + 1 # 1 /\ thread'[b].frames[i] = old[i + 1]
        <5>1. i \in Nat /\ i + 1 \in DOMAIN old /\ thread'[b].frames[i] = old[i + 1] /\ i \in 1 .. Len(Tail(old))
          BY <1>3, <1>5, <1>7, <1>8, <2>2, <3>1
        <5> QED BY <5>1
      <4> QED BY <1>4, <2>1, <2>2, <4>1 DEF FramesOpen
    <3> QED BY <1>1, <1>3, <1>4, <1>7, <2>1, <2>2, <3>1 DEF FramesOpen, CradleFits, Active
  <2>3. CASE b # a
    BY <1>4, <1>7, <2>1, <2>3 DEF FramesOpen, CradleFits, Active, Ending
  <2> QED BY <2>2, <2>3
<1>12. \A b \in Actors : Elems(thread'[b].frames) \subseteq Elems(thread[b].frames)
  BY <1>3, <1>6, <1>7
<1>13. Launched' /\ Chains' /\ Tree'
  <2>1. \A b \in Actors : /\ thread'[b].pc = "idle" <=> thread[b].pc = "idle"
                          /\ thread'[b].pc = "done" <=> thread[b].pc = "done"
                          /\ thread'[b].cradle = thread[b].cradle
    BY <1>1, <1>3, <1>7
  <2>2. \A s \in Stages : Active(s)' => Active(s) /\ thread'[s].cradle = thread[s].cradle
    BY <2>1, Kinds DEF Active
  <2>3. \A s \in Stages, b \in Actors :
          LaunchedBy(s, b) => At(b, "pipe")' /\ thread'[b].stage = s /\ Cradle(b)' = Cradle(b)
    BY <1>1, <1>7 DEF LaunchedBy, At, Cradle
  <2> QED BY <1>1, <1>4, <1>12, <2>1, <2>2, <2>3, LineageKept
<1>14. Custody'
  <2>1. ASSUME NEW w \in kids[o], Live(w)' PROVE o \in undrained' /\ handle'[w] = "stopping"
    <3>1. /\ kids[o] \subseteq thread[a].given
          /\ \A v \in thread[a].given : Claimed(v) \/ (v \in thread[a].todo /\ thread[a].pc # "drain")
      BY <1>1 DEF Claiming, Sound, ExitFits, Waiting
    <3>2. thread[a].pc = "stop" => thread[a].todo = {}
      BY DEF Leave, At, Finished
    <3>3. w \in thread[a].given /\ Claimed(w) /\ Live(w)
      BY <1>1, <1>4, <2>1, <3>1, <3>2 DEF Live
    <3>4. handle[w] = "stopping"
      BY <3>3 DEF Claimed, Live
    <3>5. ~Drained(thread[a])
      BY <3>3, <3>4 DEF Drained, Ended
    <3> QED BY <1>4, <3>4, <3>5
  <2>2. ASSUME NEW q \in Owners, q # o, Inside(q) PROVE Inside(q)'
    <3>1. PICK b \in Actors : q \in Elems(thread[b].frames)
      BY <2>2 DEF Inside
    <3>2. q \in Elems(thread'[b].frames)
      BY <1>3, <1>6, <1>7, <2>2, <3>1
    <3> QED BY <3>2 DEF Inside
  <2>3. \A w \in Workers : InFlight(w) => InFlight(w)'
    BY <1>1, <1>4, <1>7 DEF InFlight, Under, Cradle
  <2>4. Onwards /\ \A q \in Owners : \A w \in kids[q] : w \in kids'[q]
    BY <1>4 DEF Onwards, Live
  <2>5. \A q \in Owners : \/ Inside(q) => Inside(q)'
                          \/ \A w \in kids[q] : Live(w)' => q \in undrained' /\ handle'[w] = "stopping"
    BY <2>1, <2>2
  <2>6. \A w \in Workers : InFlight(w) /\ Live(w)' => InCustody(w)'
    BY <2>3 DEF InCustody
  <2> QED BY <1>1, <1>4, <2>4, <2>5, <2>6, CustodyKept
<1>15. StoppedIsStruck' /\ Childless'
  BY <1>4 DEF Family, StoppedIsStruck, Childless
<1> QED BY <1>9, <1>10, <1>11, <1>13, <1>14, <1>15 DEF Family

LEMMA LeaveFamily ==
  ASSUME Claiming, Typing', Family, NEW a \in Actors, Leave(a)
  PROVE  Family'
<1>1. /\ Typing /\ thread[a] \in Thread /\ FramesFit(thread[a]) /\ thread[a].pc \in {"stop", "drain"}
      /\ thread[a].verb \in {"race", "exit", "wipe"}
  BY AtThread DEF Claiming, Leave, At, FramesFit
<1>2. CASE thread[a].verb = "exit"
  BY <1>2, PopFamily
<1>3. CASE thread[a].verb = "race"
  <2>1. /\ Move(a, Concluded(thread[a], thread[a].out)) /\ Claims
        /\ UNCHANGED <<scope, member, kids, undrained>>
    BY <1>3, NothingClaimed DEF Leave, Left
  <2>2. Plain(a, Concluded(thread[a], thread[a].out))
    BY <1>1, <1>3, ConcludedPlain DEF Ending
  <2> QED BY <1>1, <2>1, <2>2, PlainFamily
<1>4. CASE thread[a].verb = "wipe"
  <2> DEFINE t == [Idle EXCEPT !.pc = "done", !.verb = "wipe"]
  <2>1. t.pc = "done" /\ t.frames = <<>> /\ t.verb = "wipe" /\ t.cradle = Session
    BY DEF Idle
  <2>2. Move(a, t) /\ UNCHANGED <<handle, struck, scope, member, kids, undrained>>
    BY <1>4 DEF Leave, Left
  <2>3. a = Main /\ thread[a].frames = <<>> /\ a \notin Workers
    BY <1>1, <1>4, Kinds DEF Family, Cradles, CradleFits, FramesFit, Waiting
  <2> HIDE DEF t
  <2> QED BY <1>1, <2>1, <2>2, <2>3, EndFamily
<1> QED BY <1>1, <1>2, <1>3, <1>4

LEMMA HostFamily ==
  ASSUME Typing, Typing', Family,
         \/ Interrupt \/ Terminate \/ UNCHANGED vars
         \/ \E a \in Actors, w \in Workers : Cancel(a, w)
  PROVE  Family'
<1>1. ASSUME NEW n \in Nodes, NEW c \in Causes, Strike(n, c) PROVE Family'
  <2>1. struck \in [Nodes -> Flags] /\ Stronger(struck[n], c) # "none"
    BY StrongerStays DEF Typing, TypeOK
  <2>2. Claims
    BY <1>1, <2>1 DEF Strike, Claims
  <2> QED BY <1>1, <2>2, StillFamily DEF Strike
<1>2. Main \in Nodes /\ Root \in Nodes /\ "interrupted" \in Causes /\ "terminated" \in Causes
  BY DEF Nodes, Actors, Causes
<1>3. CASE UNCHANGED vars
  BY <1>3, NothingClaimed, StillFamily DEF vars
<1>4. ASSUME NEW a \in Actors, NEW w \in Workers, Cancel(a, w) PROVE Family'
  BY <1>4, OneClaimed, StillFamily DEF Cancel
<1> QED BY <1>1, <1>2, <1>3, <1>4 DEF Interrupt, Terminate

LEMMA InitFamily == Init => Family
<1> SUFFICES ASSUME Init PROVE Family
  OBVIOUS
<1>1. /\ thread[Main].pc = "body" /\ thread[Main].cradle = Session
      /\ \A a \in Actors : /\ thread[a].frames = <<>> /\ thread[a].verb = "none"
                           /\ thread[a].cradle = Session
                           /\ a # Main => thread[a].pc = "idle"
  BY Kinds DEF Init, Idle
<1>2. /\ \A w \in Workers : handle[w] = "unborn" /\ ~Live(w)
      /\ \A w \in Workers : thread[w].pc = "idle" /\ handle[w] # "stopping"
  BY <1>1, Kinds DEF Init, Live
<1>3. /\ scope[Session] = {Root} /\ scope[Main] = {Root, Main}
      /\ \A x \in Actors \cup Gathers : x # Main => scope[x] = {}
  BY Kinds DEF Init
<1>4. Apart
  BY <1>1 DEF Apart
<1>5. Homes
  BY <1>2, Kinds DEF Homes, Homely, Active
<1>6. Cradles
  BY <1>1 DEF Cradles, FramesOpen, CradleFits
<1>7. Launched
  BY <1>1, Kinds DEF Launched, Active
<1>8. Chains
  BY <1>1, <1>3, ElemsOfEmpty, Kinds DEF Chains
<1>9. Tree
  <2> SUFFICES ASSUME NEW S \in SUBSET Actors, S # {}
               PROVE  \E x \in S : \A y \in S \ {x} : y \notin scope[x]
    BY DEF Tree
  <2>1. CASE S \subseteq {Main}
    BY <2>1
  <2>2. CASE ~(S \subseteq {Main})
    BY <1>3, <2>2
  <2> QED BY <2>1, <2>2
<1>10. Custody /\ StoppedIsStruck /\ Childless
  BY <1>2 DEF Custody, StoppedIsStruck, Childless, Init
<1> QED BY <1>4, <1>5, <1>6, <1>7, <1>8, <1>9, <1>10 DEF Family

LEMMA FamilyStep == Claiming /\ Family /\ [Next]_vars => Family'
<1> SUFFICES ASSUME Claiming, Family, [Next]_vars PROVE Family'
  OBVIOUS
<1>0. Typing /\ Typing'
  BY TypingStep DEF Claiming
<1>1. ASSUME NEW a \in Actors, Step(a) PROVE Family'
  <2>1. CASE \E w \in Workers : Spawn(a, w)
    BY <1>0, <2>1, SpawnFamily
  <2>2. CASE \E s \in Stages : Launch(a, s)
    BY <1>0, <2>2, LaunchFamily
  <2>3. CASE \E g \in Gathers : OpenGather(a, g)
    BY <1>0, <2>3, OpenFamily
  <2>4. CASE \/ SpawnRefused(a) \/ Register(a) \/ Poll(a) \/ Break(a) \/ Catch(a)
             \/ \E w \in Workers : Await(a, w)
             \/ \E v, w \in Workers : Race(a, v, w)
    BY <1>0, <2>4, BodyFamily
  <2>5. CASE Enrol(a)
    BY <1>0, <2>5, EnrolFamily
  <2>6. CASE PipeEnd(a)
    BY <1>0, <2>6, PipeFamily
  <2>7. CASE \E w \in Workers : Cancel(a, w)
    BY <1>0, <2>7, HostFamily
  <2>8. CASE WaitPoll(a) \/ SweepClaim(a) \/ SweepNone(a) \/ JoinDone(a) \/ StopOne(a) \/ StopDone(a)
    BY <1>0, <2>8, RoundFamily
  <2>9. CASE ReturnExit(a) \/ HaltExit(a)
    BY <1>0, <2>9, ExitingFamily DEF ReturnExit, HaltExit, At
  <2>10. CASE Leave(a)
    BY <1>0, <2>10, LeaveFamily
  <2>11. CASE FinalPoll(a)
    BY <1>0, <2>11, BaseFamily
  <2> QED BY <1>1, <2>1, <2>2, <2>3, <2>4, <2>5, <2>6, <2>7, <2>8, <2>9, <2>10, <2>11 DEF Step
<1>2. ASSUME NEW s \in Stages, StageEnds(s) PROVE Family'
  BY <1>0, <1>2, StageEndsFamily
<1>3. ASSUME NEW w \in Workers, Publish(w) PROVE Family'
  BY <1>0, <1>3, PublishFamily
<1>4. CASE RunReturns \/ OutliveDone \/ RunHalts \/ Wipe
  BY <1>0, <1>4, BaseFamily
<1>5. CASE Interrupt \/ Terminate \/ Gone \/ UNCHANGED vars
  BY <1>0, <1>5, HostFamily DEF Gone
<1> QED BY <1>1, <1>2, <1>3, <1>4, <1>5 DEF Next

LEMMA FamilyHolds == Spec => [](Claiming /\ Family)
BY InitClaiming, ClaimingStep, InitFamily, FamilyStep, PTL DEF Spec

\* A birth finds its owner open: the refusal of a closed brood never comes to
\* pass, since whoever shares an owner's cradle is over before it ends, however
\* launches nest (handle/brood.rs Brood::enrol, pipeline stages' cradles).
THEOREM OwnersAreOpenForBirths == Spec => []BirthsFindOwnerOpen
<1>1. Claiming /\ Family => BirthsFindOwnerOpen
  BY FamilyFindsOwnerOpen DEF Claiming
<1> QED BY <1>1, FamilyHolds, PTL

\* Nothing a scope started outlives it, but for what an owner between them
\* forsook, its grace gone or unwound in a panic (birth.rs exit_brood,
\* handle/brood.rs ScopeOwner, run_framed).
THEOREM ScopesOutliveNothing == Spec => []NothingOutlives
<1>1. Claiming /\ Family => NothingOutlives
  BY FamilyOutlivesNothing DEF Claiming
<1> QED BY <1>1, FamilyHolds, PTL

-----------------------------------------------------------------------------
(* The registry: its cap, and the wipe at a session's end.  A live worker    *)
(* sits in the registry or is in the hand of the thread that is registering  *)
(* it, which holds a seat for it; and reserve counts both.                   *)

Registering == {a \in Actors : At(a, "register")}
Seated      == {w \in roster : Live(w)}

\* Only a session's end wipes, and nothing follows it.
WipeLast(t) == t.verb = "wipe" => t.pc \in {"stop", "drain", "done"}

InHand(w) == \E a \in Registering : thread[a].given = {w}
Covered   == \A w \in Workers : Live(w) => w \in roster \/ InHand(w)

Seating ==
  /\ Typing
  /\ roster \subseteq Born
  /\ \A a \in Registering : \E w \in Born : thread[a].given = {w}
  /\ Cardinality(Seated) + Cardinality(Registering) <= Cap
  /\ \A a \in Actors : WipeLast(thread[a])
  /\ thread[Main].verb # "wipe" => Covered

LEMMA FiniteActors ==
  /\ IsFiniteSet(Workers) /\ IsFiniteSet(Actors)
  /\ \A S \in SUBSET Workers : IsFiniteSet(S) /\ Cardinality(S) \in Nat
  /\ \A S \in SUBSET Actors : IsFiniteSet(S) /\ Cardinality(S) \in Nat
<1>1. IsFiniteSet(Workers)
  <2>1. 1 \in Int /\ MaxWorkers \in Int
    BY CapAssumption
  <2> QED BY <2>1, FS_Interval DEF Workers
<1>2. IsFiniteSet(Actors)
  <2>1. IsFiniteSet({Main})
    BY FS_Singleton
  <2>2. IsFiniteSet({Main} \cup Workers)
    BY <1>1, <2>1, FS_Union
  <2> QED BY <2>2, StagesAssumption, FS_Union DEF Actors
<1> QED BY <1>1, <1>2, FS_Subset, FS_CardinalityType

LEMMA InitSeating == Init => Seating
<1> SUFFICES ASSUME Init PROVE Seating
  OBVIOUS
<1>1. Typing
  BY InitTyping
<1>2. /\ roster = {} /\ \A w \in Workers : ~Live(w)
      /\ \A a \in Actors : thread[a].pc # "register" /\ thread[a].verb = "none"
  BY DEF Init, Idle, Live
<1>3. Registering = {} /\ Seated = {}
  BY <1>2 DEF Registering, Seated, At
<1>4. Cardinality(Seated) + Cardinality(Registering) <= Cap
  BY <1>3, CapAssumption, FS_EmptySet
<1>5. \A a \in Actors : WipeLast(thread[a])
  BY <1>2 DEF WipeLast
<1>6. Covered
  BY <1>2 DEF Covered
<1> QED BY <1>1, <1>2, <1>3, <1>4, <1>5, <1>6 DEF Seating

\* A step that gives nobody a seat: no worker comes to life, no thread starts
\* or stops registering, and the registry at most forgets what is over.
LEMMA SeatingKept ==
  ASSUME Seating, Typing',
         \A w \in Workers : /\ Live(w)' => Live(w)
                            /\ handle'[w] = "unborn" => handle[w] = "unborn",
         Registering' = Registering,
         \A a \in Registering : thread'[a].given = thread[a].given,
         \/ roster' = roster \/ roster' = Pruned(roster)
         \/ roster' = {} /\ thread'[Main].verb = "wipe",
         \A a \in Actors : WipeLast(thread'[a]),
         thread[Main].verb = "wipe" => thread'[Main].verb = "wipe"
  PROVE  Seating'
<1>1. roster \subseteq Workers /\ roster' \subseteq roster
  BY DEF Seating, Typing, TypeOK, Pruned
<1>2. Born \subseteq Born'
  BY DEF Born
<1>3. Seated' \subseteq Seated /\ Seated \subseteq Workers
  BY <1>1 DEF Seated
<1>4. Cardinality(Seated') <= Cardinality(Seated)
  BY <1>3, FiniteActors, FS_Subset
<1>5. Cardinality(Seated') + Cardinality(Registering') <= Cap
  <2>1. /\ Cardinality(Seated) \in Nat /\ Cardinality(Seated') \in Nat
        /\ Cardinality(Registering) \in Nat
    BY <1>3, FiniteActors DEF Registering
  <2> QED BY <1>4, <2>1, CapAssumption DEF Seating
<1>6. ASSUME thread'[Main].verb # "wipe" PROVE Covered'
  <2> SUFFICES ASSUME NEW w \in Workers, Live(w)' PROVE w \in roster' \/ InHand(w)'
    BY DEF Covered
  <2>1. Live(w) /\ (w \in roster \/ InHand(w))
    BY <1>6 DEF Seating, Covered
  <2>2. w \in roster => w \in roster'
    BY <1>6, <2>1 DEF Pruned, Live
  <2>3. InHand(w) => InHand(w)'
    BY DEF InHand
  <2> QED BY <2>1, <2>2, <2>3
<1>7. \A a \in Registering' : \E w \in Born' : thread'[a].given = {w}
  BY <1>2 DEF Seating
<1> QED BY <1>1, <1>2, <1>5, <1>6, <1>7 DEF Seating

\* What one thread comes to in a step that registers nothing.
Ordinary(a, t) == /\ t.pc # "register" /\ WipeLast(t)
                  /\ thread[a].verb = "wipe" => t.verb = "wipe"
                  /\ t.verb = "wipe" => thread[a].verb = "wipe" \/ At(a, "settled")

LEMMA OrdinaryMove ==
  ASSUME Typing, \A b \in Actors : WipeLast(thread[b]),
         NEW a \in Actors, ~At(a, "register"), NEW t, Ordinary(a, t), Move(a, t)
  PROVE  /\ Registering' = Registering
         /\ \A b \in Registering : thread'[b].given = thread[b].given
         /\ \A b \in Actors : WipeLast(thread'[b])
         /\ thread[Main].verb = "wipe" => thread'[Main].verb = "wipe"
<1>1. thread \in [Actors -> Thread] /\ Main \in Actors
  BY AtThread DEF Typing, TypeOK, Actors
<1>2. thread'[a] = t /\ \A b \in Actors : b # a => thread'[b] = thread[b]
  BY <1>1 DEF Move
<1>3. a \notin Registering
  BY DEF Registering
<1>4. Registering' = Registering
  BY <1>2 DEF Registering, At, Ordinary
<1>5. \A b \in Registering : thread'[b] = thread[b]
  BY <1>2, <1>3 DEF Registering
<1>6. \A b \in Actors : WipeLast(thread'[b])
  BY <1>2 DEF Ordinary
<1>7. thread[Main].verb = "wipe" => thread'[Main].verb = "wipe"
  BY <1>1, <1>2 DEF Ordinary
<1> QED BY <1>4, <1>5, <1>6, <1>7

NoneRaised == \A w \in Workers : /\ Live(w)' => Live(w)
                                 /\ handle'[w] = "unborn" => handle[w] = "unborn"

LEMMA ClaimsRaiseNone ==
  ASSUME Typing, NEW w \in Workers, ClaimAndStop(w) \/ ClaimReady(w)
  PROVE  NoneRaised
<1>1. handle \in [Workers -> HandleStates]
  BY DEF Typing, TypeOK
<1>2. \A v \in Workers : v # w => handle'[v] = handle[v]
  BY <1>1 DEF ClaimAndStop, ClaimReady
<1>3. \/ handle[w] = "running" /\ handle'[w] = "stopping"
      \/ handle[w] = "ready" /\ handle'[w] = "consumed"
      \/ handle'[w] = handle[w]
  BY <1>1 DEF ClaimAndStop, ClaimReady, HandleStates
<1> QED BY <1>2, <1>3 DEF NoneRaised, Live

\* The body's steps, and the rounds of a wait.
LEMMA BodyIsOrdinary ==
  ASSUME Typing, \A b \in Actors : WipeLast(thread[b]), NEW a \in Actors,
         \/ \E w \in Workers : Await(a, w)
         \/ \E v, w \in Workers : Race(a, v, w)
         \/ \E g \in Gathers : OpenGather(a, g)
         \/ SpawnRefused(a) \/ Enrol(a) \/ PipeEnd(a) \/ Poll(a) \/ Break(a) \/ Catch(a)
         \/ WaitPoll(a) \/ SweepClaim(a) \/ SweepNone(a)
  PROVE  \E t : Ordinary(a, t) /\ Move(a, t)
<1>1. thread[a] \in Thread /\ FramesFit(thread[a]) /\ WipeLast(thread[a])
  BY AtThread
<1>2. thread[a].verb # "wipe"
  BY <1>1 DEF WipeLast, Await, Race, OpenGather, SpawnRefused, Enrol, PipeEnd, Poll, Break, Catch,
              WaitPoll, SweepClaim, SweepNone, At
<1>3. \A o : Ordinary(a, Concluded(thread[a], o))
  BY <1>1, <1>2 DEF Ordinary, WipeLast, Concluded, Thread
<1>4. \A o, k : Ordinary(a, [Concluded(thread[a], o) EXCEPT !.known = k])
  BY <1>1, <1>2 DEF Ordinary, WipeLast, Concluded, Thread
<1>5. \A o, s : Ordinary(a, [Concluded(thread[a], o) EXCEPT !.stage = s])
  BY <1>1, <1>2 DEF Ordinary, WipeLast, Concluded, Thread
<1>6. CASE SpawnRefused(a) \/ Poll(a) \/ Break(a) \/ Catch(a)
  BY <1>3, <1>6 DEF SpawnRefused, Poll, Break, Catch
<1>7. CASE Enrol(a)
  <2>1. \E w \in thread[a].given :
          \/ Move(a, [Concluded(thread[a], "ok") EXCEPT !.known = @ \cup {w}])
          \/ Move(a, Concluded(thread[a], "err"))
    BY <1>7 DEF Enrol
  <2> QED BY <1>3, <1>4, <2>1
<1>8. CASE PipeEnd(a)
  BY <1>5, <1>8 DEF PipeEnd
<1>9. CASE \E w \in Workers : Await(a, w)
  <2>1. PICK w \in Workers : Await(a, w)
    BY <1>9
  <2> DEFINE t == [thread[a] EXCEPT !.pc = "poll", !.verb = "await", !.given = {w},
                                    !.todo = {w}, !.known = @ \ {w}]
  <2>2. Ordinary(a, t)
    BY <1>1, <1>2 DEF Ordinary, WipeLast, Thread
  <2> QED BY <2>1, <2>2 DEF Await
<1>10. CASE \E v, w \in Workers : Race(a, v, w)
  <2>1. PICK v, w \in Workers : Race(a, v, w)
    BY <1>10
  <2> DEFINE t == [thread[a] EXCEPT !.pc = "poll", !.verb = "race", !.given = {v, w},
                                    !.todo = {v, w}, !.known = @ \ {v, w}]
  <2>2. Ordinary(a, t)
    BY <1>1, <1>2 DEF Ordinary, WipeLast, Thread
  <2> QED BY <2>1, <2>2 DEF Race
<1>11. CASE \E g \in Gathers : OpenGather(a, g)
  <2>1. PICK g \in Gathers : OpenGather(a, g)
    BY <1>11
  <2> DEFINE t == [thread[a] EXCEPT !.frames = <<g>> \o @]
  <2>2. Ordinary(a, t)
    <3>1. t.pc = "body" /\ t.verb = thread[a].verb
      BY <1>1, <2>1 DEF OpenGather, At, Thread
    <3> QED BY <1>2, <3>1 DEF Ordinary, WipeLast
  <2> QED BY <2>1, <2>2 DEF OpenGather
<1>12. CASE WaitPoll(a) \/ SweepClaim(a) \/ SweepNone(a)
  <2>1. thread[a].pc \in {"poll", "sweep"}
    BY <1>12 DEF WaitPoll, SweepClaim, SweepNone, At
  <2>2. \A o : Ordinary(a, WaitEnds(thread[a], o))
    <3> SUFFICES ASSUME NEW o PROVE Ordinary(a, WaitEnds(thread[a], o))
      OBVIOUS
    <3>1. CASE thread[a].verb = "await"
      BY <1>3, <3>1 DEF WaitEnds
    <3>2. CASE thread[a].verb # "await"
      <4>1. /\ WaitEnds(thread[a], o).pc \in {"stop", "poll", "base"}
            /\ WaitEnds(thread[a], o).verb = thread[a].verb
        BY <1>1, <3>2 DEF WaitEnds, Restart, NextOne, Thread
      <4> QED BY <1>2, <4>1 DEF Ordinary, WipeLast
    <3> QED BY <3>1, <3>2
  <2>3. \A pc \in {"sweep", "poll"} : Ordinary(a, [thread[a] EXCEPT !.pc = pc])
    BY <1>1, <1>2 DEF Ordinary, WipeLast, Thread
  <2>4. \/ \E pc \in {"sweep", "poll"} : Move(a, [thread[a] EXCEPT !.pc = pc])
        \/ \E o : Move(a, WaitEnds(thread[a], o))
    BY <1>12 DEF WaitPoll, SweepClaim, SweepNone
  <2> QED BY <2>2, <2>3, <2>4
<1> QED BY <1>6, <1>7, <1>8, <1>9, <1>10, <1>11, <1>12

\* An owner's end, a base, a stop.
LEMMA EndIsOrdinary ==
  ASSUME Typing, \A b \in Actors : WipeLast(thread[b]), NEW a \in Actors,
         \/ ReturnExit(a) \/ HaltExit(a) \/ JoinDone(a) \/ StopOne(a) \/ StopDone(a) \/ Leave(a)
         \/ FinalPoll(a) \/ StageEnds(a) \/ Publish(a)
         \/ (a = Main /\ (RunReturns \/ OutliveDone \/ RunHalts \/ Wipe))
  PROVE  \E t : Ordinary(a, t) /\ Move(a, t)
<1>1. thread[a] \in Thread /\ FramesFit(thread[a]) /\ WipeLast(thread[a])
  BY AtThread
<1>2. CASE ReturnExit(a) \/ HaltExit(a)
  <2>1. thread[a].pc \in {"body", "halt"} /\ \E pc \in {"poll", "stop"} : Exiting(a, pc)
    BY <1>2 DEF ReturnExit, HaltExit, At
  <2>2. PICK pc \in {"poll", "stop"} : Exiting(a, pc)
    BY <2>1
  <2> DEFINE g == Pruned(kids[Head(thread[a].frames)])
             t == [thread[a] EXCEPT !.pc = pc, !.verb = "exit", !.given = g, !.todo = g]
  <2>3. Ordinary(a, t)
    BY <1>1, <2>1 DEF Ordinary, WipeLast, Thread
  <2> QED BY <2>2, <2>3 DEF Exiting
<1>3. CASE JoinDone(a)
  BY <1>1, <1>3 DEF JoinDone, Ordinary, WipeLast, Restart, Thread, At
<1>4. CASE StopOne(a) \/ StopDone(a)
  <2>1. \A w : Ordinary(a, [thread[a] EXCEPT !.todo = @ \ {w}])
    <3>1. thread[a].pc = "stop"
      BY <1>4 DEF StopOne, StopDone, At
    <3> QED BY <1>1, <3>1 DEF Ordinary, WipeLast, Thread
  <2>2. Ordinary(a, [thread[a] EXCEPT !.pc = "drain"])
    BY <1>1 DEF Ordinary, WipeLast, Thread
  <2> QED BY <1>4, <2>1, <2>2 DEF StopOne, StopDone
<1>5. CASE Leave(a)
  <2>1. thread[a].pc \in {"stop", "drain"} /\ Move(a, Left(a, thread[a]))
    BY <1>5 DEF Leave, At
  <2>2. thread[a].verb \in {"race", "exit", "wipe"}
    BY <1>1, <2>1 DEF FramesFit
  <2>3. CASE thread[a].verb = "wipe"
    <3>1. Left(a, thread[a]).pc = "done" /\ Left(a, thread[a]).verb = "wipe"
      BY <2>3 DEF Left, Idle
    <3> QED BY <2>1, <2>3, <3>1 DEF Ordinary, WipeLast
  <2>4. CASE thread[a].verb # "wipe"
    <3>1. Left(a, thread[a]).pc # "register" /\ Left(a, thread[a]).verb # "wipe"
      BY <1>1, <2>2, <2>4 DEF Left, Concluded, Restart, Thread
    <3> QED BY <2>1, <2>4, <3>1 DEF Ordinary, WipeLast
  <2> QED BY <2>3, <2>4
<1>6. CASE FinalPoll(a)
  <2>1. \A o : Ordinary(a, [thread[a] EXCEPT !.pc = "settled", !.out = o])
    BY <1>1, <1>6 DEF FinalPoll, At, Ordinary, WipeLast, Thread
  <2>2. \E o : Move(a, [thread[a] EXCEPT !.pc = "settled", !.out = o])
    BY <1>6 DEF FinalPoll
  <2> QED BY <2>1, <2>2
<1>7. CASE StageEnds(a)
  BY <1>1, <1>7 DEF StageEnds, Ordinary, WipeLast, Thread
<1>8. CASE Publish(a)
  BY <1>1, <1>8 DEF Publish, At, Ordinary, WipeLast, Idle
<1>9. CASE a = Main /\ (OutliveDone \/ RunHalts)
  <2>1. thread[a].pc \in {"poll", "halt"}
    BY <1>9 DEF OutliveDone, RunHalts, At
  <2>2. \A o : Ordinary(a, Restart(thread[a], "base", o))
    BY <1>1, <2>1 DEF Ordinary, WipeLast, Restart, Thread
  <2> QED BY <1>9, <2>2 DEF OutliveDone, RunHalts
<1>10. CASE a = Main /\ RunReturns
  <2>1. thread[a].pc = "body"
    BY <1>10 DEF RunReturns, At
  <2>2. \A l : Ordinary(a, [thread[a] EXCEPT !.pc = "poll", !.verb = "outlive", !.given = l, !.todo = l])
    BY <1>1, <2>1 DEF Ordinary, WipeLast, Thread
  <2> QED BY <1>10, <2>2 DEF RunReturns
<1>11. CASE a = Main /\ Wipe
  <2>1. At(a, "settled")
    BY <1>11 DEF Wipe
  <2>2. \A l : Ordinary(a, [thread[a] EXCEPT !.pc = "stop", !.verb = "wipe", !.given = l, !.todo = l])
    BY <1>1, <2>1 DEF Ordinary, WipeLast, Thread
  <2> QED BY <1>11, <2>2 DEF Wipe
<1> QED BY <1>2, <1>3, <1>4, <1>5, <1>6, <1>7, <1>8, <1>9, <1>10, <1>11

\* The steps of a thread that are neither a birth nor a launch nor a strike.
OrdinaryStep(a) ==
  \/ \E w \in Workers : Await(a, w)
  \/ \E v, w \in Workers : Race(a, v, w)
  \/ \E g \in Gathers : OpenGather(a, g)
  \/ SpawnRefused(a) \/ Enrol(a) \/ PipeEnd(a) \/ Poll(a) \/ Break(a) \/ Catch(a)
  \/ WaitPoll(a) \/ SweepClaim(a) \/ SweepNone(a)
  \/ ReturnExit(a) \/ HaltExit(a) \/ JoinDone(a) \/ StopOne(a) \/ StopDone(a) \/ Leave(a)
  \/ FinalPoll(a) \/ (a \in Stages /\ StageEnds(a)) \/ (a \in Workers /\ Publish(a))
  \/ (a = Main /\ (RunReturns \/ OutliveDone \/ RunHalts \/ Wipe))

\* It raises no handle.
LEMMA OrdinaryRaisesNone ==
  ASSUME Typing, NEW a \in Actors, OrdinaryStep(a)
  PROVE  NoneRaised
<1>1. CASE handle' = handle
  BY <1>1 DEF NoneRaised, Live
<1>2. CASE Enrol(a) /\ handle' # handle
  <2>1. \E w \in thread[a].given : ClaimAndStop(w)
    BY <1>2 DEF Enrol
  <2>2. thread[a].given \in SUBSET Workers
    BY AtThread
  <2> QED BY <2>1, <2>2, ClaimsRaiseNone
<1>3. CASE SweepClaim(a) \/ StopOne(a)
  <2>1. \E w \in Front(thread[a]) : ClaimAndStop(w) \/ ClaimReady(w)
    BY <1>3 DEF SweepClaim, StopOne
  <2>2. Front(thread[a]) \subseteq Workers
    BY AtThread, FrontIsGiven
  <2> QED BY <2>1, <2>2, ClaimsRaiseNone
<1>4. CASE a \in Workers /\ Publish(a)
  <2>1. handle[a] # "unborn"
    BY <1>4 DEF Publish, At, Typing, IdleIfUnborn
  <2>2. handle' = [handle EXCEPT ![a] = IF handle[a] = "running" THEN "ready" ELSE "consumed"]
    BY <1>4 DEF Publish, Published
  <2> QED BY <1>4, <2>1, <2>2 DEF Typing, TypeOK, NoneRaised, Live
<1>5. CASE ~(SweepClaim(a) \/ StopOne(a) \/ Enrol(a) \/ (a \in Workers /\ Publish(a)))
  <2>1. handle' = handle
    BY <1>5 DEF OrdinaryStep, Await, Race, OpenGather, SpawnRefused, PipeEnd, Poll, Break, Catch, WaitPoll,
       SweepNone, ReturnExit, HaltExit, Exiting, JoinDone, StopDone, Leave,
       FinalPoll, StageEnds, RunReturns, OutliveDone, RunHalts, Wipe
  <2> QED BY <1>1, <2>1
<1> QED BY <1>1, <1>2, <1>3, <1>4, <1>5

\* Every step of a thread but a birth's and a launch: an ordinary move, no
\* handle raised, and a registry that at most forgets.
LEMMA OrdinarySeating ==
  ASSUME Seating, Typing', NEW a \in Actors,
         OrdinaryStep(a)
  PROVE  Seating'
<1>1. Typing /\ \A b \in Actors : WipeLast(thread[b])
  BY DEF Seating
<1>2. PICK t : Ordinary(a, t) /\ Move(a, t)
  <2>1. CASE (a \in Stages /\ StageEnds(a)) \/ (a \in Workers /\ Publish(a))
    BY <1>1, <2>1, EndIsOrdinary
  <2>2. CASE ~((a \in Stages /\ StageEnds(a)) \/ (a \in Workers /\ Publish(a)))
    BY <1>1, <2>2, BodyIsOrdinary, EndIsOrdinary DEF OrdinaryStep
  <2> QED BY <2>1, <2>2
<1>3. ~At(a, "register")
  BY DEF OrdinaryStep, Await, Race, OpenGather, SpawnRefused, Enrol, PipeEnd, Poll, Break, Catch, WaitPoll,
         SweepClaim, SweepNone, ReturnExit, HaltExit, JoinDone, StopOne, StopDone, Leave,
         FinalPoll, StageEnds, Publish, RunReturns, OutliveDone, RunHalts, Wipe, At
<1>4. /\ Registering' = Registering
      /\ \A b \in Registering : thread'[b].given = thread[b].given
      /\ \A b \in Actors : WipeLast(thread'[b])
      /\ thread[Main].verb = "wipe" => thread'[Main].verb = "wipe"
  BY <1>1, <1>2, <1>3, OrdinaryMove
<1>5. \/ roster' = roster \/ roster' = Pruned(roster)
      \/ roster' = {} /\ thread'[Main].verb = "wipe"
  <2>1. CASE Wipe
    <3>1. Main \in Actors /\ thread \in [Actors -> Thread] /\ thread[Main] \in Thread
      BY <1>1, AtThread DEF Actors
    <3>2. roster' = {} /\ thread'[Main].verb = "wipe"
      BY <2>1, <3>1 DEF Wipe, Move, Thread
    <3> QED BY <3>2
  <2>2. CASE ~Wipe
    BY <2>2 DEF OrdinaryStep, Await, Race, OpenGather, SpawnRefused, Enrol, PipeEnd, Poll, Break, Catch, WaitPoll,
         SweepClaim, SweepNone, ReturnExit, HaltExit, Exiting, JoinDone, StopOne, StopDone, Leave,
         FinalPoll, StageEnds, Publish, RunReturns, OutliveDone, RunHalts
  <2> QED BY <2>1, <2>2
<1>6. NoneRaised
  BY <1>1, OrdinaryRaisesNone
<1> QED BY <1>4, <1>5, <1>6, SeatingKept DEF NoneRaised

\* A step of the host, or none.
LEMMA HostSeating ==
  ASSUME Seating, Typing',
         \/ Interrupt \/ Terminate \/ UNCHANGED vars
         \/ \E a \in Actors, w \in Workers : Cancel(a, w)
  PROVE  Seating'
<1>1. thread' = thread /\ roster' = roster /\ Typing
  BY DEF Interrupt, Terminate, Strike, Cancel, vars, Seating
<1>2. NoneRaised
  <2>1. CASE handle' = handle
    BY <2>1 DEF NoneRaised, Live
  <2>2. CASE \E a \in Actors, w \in Workers : Cancel(a, w)
    BY <1>1, <2>2, ClaimsRaiseNone DEF Cancel
  <2> QED BY <2>1, <2>2 DEF Interrupt, Terminate, Strike, vars
<1>3. Registering' = Registering
  BY <1>1 DEF Registering, At
<1> QED BY <1>1, <1>2, <1>3, SeatingKept DEF NoneRaised, Seating

LEMMA LaunchSeating ==
  ASSUME Seating, Typing', NEW a \in Actors, NEW s \in Stages, Launch(a, s)
  PROVE  Seating'
<1> DEFINE stage  == [Idle EXCEPT !.pc = "body", !.cradle = Cradle(a), !.known = thread[a].known]
           parent == [thread[a] EXCEPT !.pc = "pipe", !.stage = s]
<1>1. /\ thread \in [Actors -> Thread] /\ thread[a] \in Thread /\ s \in Actors /\ Main \in Actors
      /\ s # Main
  BY NamesAssumption DEF Seating, Typing, TypeOK, Actors
<1>2. thread[s].pc = "idle" /\ thread[a].pc = "body" /\ a # s
  BY DEF Launch, At
<1>3. thread' = [thread EXCEPT ![s] = stage, ![a] = parent] /\ roster' = roster /\ handle' = handle
  BY <1>1, <1>2 DEF Launch
<1>4. /\ stage.pc = "body" /\ stage.verb = "none"
      /\ parent.pc = "pipe" /\ parent.verb = thread[a].verb /\ thread[a].verb # "wipe"
  BY <1>1, <1>2 DEF Idle, Thread, Seating, WipeLast
<1> HIDE DEF stage, parent
<1>5. /\ thread'[a] = parent /\ thread'[s] = stage
      /\ \A b \in Actors : b # a /\ b # s => thread'[b] = thread[b]
  BY <1>1, <1>2, <1>3
<1>6. Registering' = Registering /\ \A b \in Registering : thread'[b] = thread[b]
  BY <1>2, <1>4, <1>5 DEF Registering, At
<1>7. /\ \A b \in Actors : WipeLast(thread'[b])
      /\ thread[Main].verb = "wipe" => thread'[Main].verb = "wipe"
  BY <1>1, <1>4, <1>5 DEF Seating, WipeLast
<1>8. \A w \in Workers : /\ Live(w)' => Live(w)
                         /\ handle'[w] = "unborn" => handle[w] = "unborn"
  BY <1>3 DEF Live
<1> QED BY <1>3, <1>6, <1>7, <1>8, SeatingKept

\* A seat is reserved only where there is one, and its worker is new.
LEMMA SpawnSeating ==
  ASSUME Seating, Typing', NEW a \in Actors, NEW w \in Workers, Spawn(a, w)
  PROVE  Seating'
<1> DEFINE born   == [Idle EXCEPT !.pc = "body", !.frames = <<w>>, !.known = thread[a].known]
           parent == [thread[a] EXCEPT !.pc = "register", !.given = {w}]
<1>1. /\ thread \in [Actors -> Thread] /\ thread[a] \in Thread /\ w \in Actors /\ Main \in Actors
      /\ w # Main /\ handle \in [Workers -> HandleStates]
  BY NamesAssumption DEF Seating, Typing, TypeOK, Actors
<1>2. thread[w].pc = "idle" /\ thread[a].pc = "body" /\ a # w /\ handle[w] = "unborn"
  BY DEF Spawn, Seating, Typing, IdleIfUnborn, At, NextId
<1>3. /\ thread' = [thread EXCEPT ![w] = born, ![a] = parent] /\ roster' = Pruned(roster)
      /\ handle' = [handle EXCEPT ![w] = "running"]
  BY <1>1, <1>2 DEF Spawn
<1>4. /\ born.pc = "body" /\ born.verb = "none"
      /\ parent.pc = "register" /\ parent.verb = thread[a].verb /\ parent.given = {w}
      /\ thread[a].verb # "wipe"
  BY <1>1, <1>2 DEF Idle, Thread, Seating, WipeLast
<1> HIDE DEF born, parent
<1>5. /\ thread'[a] = parent /\ thread'[w] = born
      /\ \A b \in Actors : b # a /\ b # w => thread'[b] = thread[b]
  BY <1>1, <1>2, <1>3
<1>6. /\ handle'[w] = "running" /\ \A v \in Workers : v # w => handle'[v] = handle[v]
      /\ roster \subseteq Workers /\ w \notin roster
  BY <1>1, <1>2, <1>3 DEF Seating, Typing, TypeOK, Born
<1>7. Registering' = Registering \cup {a} /\ a \notin Registering
  BY <1>2, <1>4, <1>5 DEF Registering, At
<1>8. \A b \in Registering : b # a /\ b # w /\ thread'[b] = thread[b]
  BY <1>2, <1>5 DEF Registering, At
<1>9. Seated' = Seated
  BY <1>3, <1>6 DEF Seated, Pruned, Live
<1>10. Cardinality(Seated') + Cardinality(Registering') <= Cap
  <2>1. Cardinality(Registering') = Cardinality(Registering) + 1
    BY <1>7, FiniteActors, FS_AddElement DEF Registering
  <2>2. Cardinality(Seated) + Cardinality(Registering) < Cap
    BY DEF Spawn, Occupied, Seated, Registering
  <2>3. Cardinality(Seated) \in Nat /\ Cardinality(Registering) \in Nat
    BY <1>6, FiniteActors DEF Seated, Registering
  <2> QED BY <1>9, <2>1, <2>2, <2>3, CapAssumption
<1>11. Born' = Born \cup {w} /\ roster' \subseteq roster
  BY <1>3, <1>6 DEF Born, Pruned
<1>12. \A b \in Registering' : \E v \in Born' : thread'[b].given = {v}
  BY <1>4, <1>5, <1>7, <1>8, <1>11 DEF Seating
<1>13. \A b \in Actors : WipeLast(thread'[b])
  BY <1>4, <1>5 DEF Seating, WipeLast
<1>14. ASSUME thread'[Main].verb # "wipe" PROVE Covered'
  <2>1. thread[Main].verb # "wipe"
    BY <1>1, <1>4, <1>5, <1>14
  <2> SUFFICES ASSUME NEW v \in Workers, Live(v)' PROVE v \in roster' \/ InHand(v)'
    BY DEF Covered
  <2>2. CASE v = w
    BY <1>4, <1>5, <1>7, <2>2 DEF InHand
  <2>3. CASE v # w
    <3>1. Live(v) /\ (v \in roster \/ InHand(v))
      BY <1>6, <2>1, <2>3 DEF Live, Seating, Covered
    <3>2. v \in roster => v \in roster'
      BY <1>3, <3>1 DEF Pruned, Live
    <3>3. InHand(v) => InHand(v)'
      BY <1>7, <1>8 DEF InHand
    <3> QED BY <3>1, <3>2, <3>3
  <2> QED BY <2>2, <2>3
<1> QED BY <1>10, <1>11, <1>12, <1>13, <1>14 DEF Seating

\* The seat goes from the thread to the entry, or is given back with a worker
\* that is over already.
LEMMA RegisterSeating ==
  ASSUME Seating, Typing', NEW a \in Actors, Register(a)
  PROVE  Seating'
<1> DEFINE t == [thread[a] EXCEPT !.pc = "enrol"]
<1>1. /\ thread \in [Actors -> Thread] /\ thread[a] \in Thread /\ roster \subseteq Workers
      /\ a \in Registering
  BY DEF Seating, Typing, TypeOK, Registering, Register
<1>2. PICK w \in Born : thread[a].given = {w}
  BY <1>1 DEF Seating
<1>3. w \in Workers
  BY DEF Born
<1>4. handle' = handle /\ roster' = roster \cup Pruned({w}) /\ thread' = [thread EXCEPT ![a] = t]
  BY <1>2 DEF Register, Move
<1>5. t.pc = "enrol" /\ t.verb = thread[a].verb
  BY <1>1 DEF Thread
<1> HIDE DEF t
<1>6. thread'[a] = t /\ \A b \in Actors : b # a => thread'[b] = thread[b]
  BY <1>1, <1>4
<1>7. Registering' = Registering \ {a} /\ \A b \in Registering' : thread'[b] = thread[b]
  BY <1>5, <1>6 DEF Registering, At
<1>8. Cardinality(Seated') + Cardinality(Registering') <= Cap
  <2>1. Seated' = Seated \/ Seated' = Seated \cup {w}
    BY <1>4 DEF Seated, Pruned, Live
  <2>2. /\ IsFiniteSet(Seated) /\ Cardinality(Seated) \in Nat
        /\ IsFiniteSet(Registering) /\ Cardinality(Registering) \in Nat
    BY <1>1, FiniteActors DEF Seated, Registering
  <2>3. /\ Cardinality(Seated \cup {w}) <= Cardinality(Seated) + 1
        /\ Cardinality(Seated \cup {w}) \in Nat
    <3>1. Cardinality(Seated \cup {w}) = IF w \in Seated THEN Cardinality(Seated) ELSE Cardinality(Seated) + 1
      BY <2>2, FS_AddElement
    <3> QED BY <2>2, <3>1
  <2>4. Cardinality(Seated') <= Cardinality(Seated) + 1 /\ Cardinality(Seated') \in Nat
    BY <2>1, <2>2, <2>3
  <2>5. Cardinality(Registering') = Cardinality(Registering) - 1
    BY <1>1, <1>7, <2>2, FS_RemoveElement
  <2> QED BY <2>2, <2>4, <2>5, CapAssumption DEF Seating
<1>9. roster' \subseteq Born' /\ Born' = Born
  BY <1>2, <1>4 DEF Seating, Pruned, Born
<1>10. \A b \in Registering' : \E v \in Born' : thread'[b].given = {v}
  BY <1>7, <1>9 DEF Seating
<1>11. \A b \in Actors : WipeLast(thread'[b])
  <2>1. thread[a].verb # "wipe"
    BY <1>1 DEF Seating, WipeLast, Registering, At
  <2> QED BY <1>5, <1>6, <2>1 DEF Seating, WipeLast
<1>12. ASSUME thread'[Main].verb # "wipe" PROVE Covered'
  <2>1. thread[Main].verb # "wipe"
    <3>1. Main \in Actors
      BY DEF Actors
    <3> QED BY <1>5, <1>6, <1>12, <3>1
  <2> SUFFICES ASSUME NEW v \in Workers, Live(v)' PROVE v \in roster' \/ InHand(v)'
    BY DEF Covered
  <2>2. Live(v) /\ (v \in roster \/ InHand(v))
    BY <1>4, <2>1 DEF Live, Seating, Covered
  <2>3. CASE v = w
    BY <1>4, <2>2, <2>3 DEF Pruned, Live
  <2>4. CASE v # w /\ InHand(v)
    <3>1. PICK b \in Registering : thread[b].given = {v}
      BY <2>4 DEF InHand
    <3>2. b # a
      BY <1>2, <2>4, <3>1
    <3> QED BY <1>7, <3>1, <3>2 DEF InHand
  <2> QED BY <1>4, <2>2, <2>3, <2>4
<1> QED BY <1>8, <1>9, <1>10, <1>11, <1>12 DEF Seating

LEMMA SeatingStep == Seating /\ [Next]_vars => Seating'
<1> SUFFICES ASSUME Seating, [Next]_vars PROVE Seating'
  OBVIOUS
<1>1. Typing'
  BY TypingStep DEF Seating
<1>2. Main \in Actors /\ Stages \subseteq Actors /\ Workers \subseteq Actors
  BY DEF Actors
<1>3. ASSUME NEW a \in Actors, Step(a) PROVE Seating'
  <2>1. CASE \E w \in Workers : Spawn(a, w)
    BY <1>1, <2>1, SpawnSeating
  <2>2. CASE \E s \in Stages : Launch(a, s)
    BY <1>1, <2>2, LaunchSeating
  <2>3. CASE Register(a)
    BY <1>1, <2>3, RegisterSeating
  <2>4. CASE \E w \in Workers : Cancel(a, w)
    BY <1>1, <2>4, HostSeating
  <2>5. CASE OrdinaryStep(a)
    BY <1>1, <2>5, OrdinarySeating
  <2> QED BY <1>3, <2>1, <2>2, <2>3, <2>4, <2>5 DEF Step, OrdinaryStep
<1>4. CASE \E s \in Stages : StageEnds(s)
  <2>1. PICK s \in Stages : StageEnds(s)
    BY <1>4
  <2>2. s \in Actors
    BY <1>2
  <2>3. s \in Stages /\ StageEnds(s)
    BY <2>1
  <2>4. OrdinaryStep(s)
    BY <2>3 DEF OrdinaryStep
  <2> QED BY <1>1, <2>2, <2>4, OrdinarySeating
<1>5. CASE \E w \in Workers : Publish(w)
  <2>1. PICK w \in Workers : Publish(w)
    BY <1>5
  <2>2. w \in Actors /\ OrdinaryStep(w)
    BY <1>2, <2>1 DEF OrdinaryStep
  <2> QED BY <1>1, <2>2, OrdinarySeating
<1>6. CASE RunReturns \/ OutliveDone \/ RunHalts \/ Wipe
  <2>1. OrdinaryStep(Main)
    BY <1>6 DEF OrdinaryStep
  <2> QED BY <1>1, <1>2, <2>1, OrdinarySeating
<1>7. CASE Interrupt \/ Terminate \/ Gone \/ UNCHANGED vars
  BY <1>1, <1>7, HostSeating DEF Gone
<1> QED BY <1>3, <1>4, <1>5, <1>6, <1>7 DEF Next

\* A worker in a thread's hand is the only one there.
LEMMA HandsHoldOne ==
  ASSUME Seating
  PROVE  Cardinality({w \in Workers : InHand(w)}) <= Cardinality(Registering)
<1> DEFINE F == {w \in Workers : InHand(w)}
           hand == [w \in F |-> CHOOSE a \in Registering : thread[a].given = {w}]
<1>1. \A w \in F : hand[w] \in Registering /\ thread[hand[w]].given = {w}
  BY DEF InHand
<1>2. hand \in [F -> Registering]
  BY <1>1
<1>3. \A v, w \in F : hand[v] = hand[w] => v = w
  <2> SUFFICES ASSUME NEW v \in F, NEW w \in F, hand[v] = hand[w] PROVE v = w
    OBVIOUS
  <2>1. {v} = {w}
    BY <1>1
  <2> QED BY <2>1
<1>4. IsFiniteSet(Registering)
  BY FiniteActors DEF Registering
<1> HIDE DEF hand
<1>5. hand \in Injection(F, Registering)
  BY <1>2, <1>3, Fun_IsInj
<1> QED BY <1>4, <1>5, FS_Injection

\* The worker cap of the registry holds of live threads, however many births
\* race between the reservation of a seat and the entry that takes it.
THEOREM SeatsBoundWorkers == Spec => []LiveWithinCap
<1>1. Seating => LiveWithinCap
  <2> SUFFICES ASSUME Seating, thread[Main].verb # "wipe"
               PROVE  Cardinality({w \in Workers : Live(w)}) <= Cap
    BY DEF LiveWithinCap
  <2> DEFINE L == {w \in Workers : Live(w)}
             F == {w \in Workers : InHand(w)}
  <2>1. L \subseteq Seated \cup F
    BY DEF Seating, Covered, Seated
  <2>2. Seated \subseteq Workers
    BY DEF Seating, Typing, TypeOK, Seated
  <2>3. /\ IsFiniteSet(Seated) /\ Cardinality(Seated) \in Nat
        /\ IsFiniteSet(F) /\ Cardinality(F) \in Nat
        /\ Cardinality(Registering) \in Nat /\ Cardinality(L) \in Nat
        /\ Cardinality(Seated \cap F) \in Nat
    BY <2>2, FiniteActors DEF Registering
  <2>4. /\ IsFiniteSet(Seated \cup F)
        /\ Cardinality(Seated \cup F) = Cardinality(Seated) + Cardinality(F) - Cardinality(Seated \cap F)
    BY <2>3, FS_Union
  <2>5. Cardinality(L) <= Cardinality(Seated \cup F)
    BY <2>1, <2>4, FS_Subset
  <2>6. Cardinality(F) <= Cardinality(Registering)
    BY HandsHoldOne
  <2>7. Cardinality(Seated) + Cardinality(Registering) <= Cap /\ Cap \in Nat
    BY CapAssumption DEF Seating
  <2> HIDE DEF L, F
  <2>8. Cardinality(L) <= Cap
    BY <2>3, <2>4, <2>5, <2>6, <2>7
  <2> QED BY <2>8 DEF L
<1> QED BY InitSeating, SeatingStep, <1>1, PTL DEF Spec

-----------------------------------------------------------------------------
(* The wipe.  A worker the sweep does not take was in the hand of a thread,  *)
(* which stood in the chain of another worker: its stop is the newborn's.    *)

\* The run is over, or its session is ending.
Wiping   == thread[Main].verb = "wipe"
RunOver  == At(Main, "settled") \/ Wiping

\* A worker on its way to the registry hangs under its parent's cradle.
Handed == \A a \in Registering : \A w \in thread[a].given : Under(w, Cradle(a))

\* While the wipe sweeps, who is not struck is under an entry still to come.
WipeTodo == Wiping => /\ thread[Main].pc # "stop" => thread[Main].todo = {}
                      /\ \A w \in Workers : Live(w) => \/ Struck(w)
                                                       \/ scope[w] \cap thread[Main].todo # {}

\* A live worker above everything in a chain.
Above(x) == \E u \in Workers : Live(u) /\ u \in scope[u] /\ scope[u] \subseteq scope[x]

\* Once the run is over, its thread launches nothing.
LEMMA MainIsQuiet ==
  ASSUME Typing, Family, RunOver
  PROVE  Main \in Actors /\ thread[Main].pc \in {"settled", "stop", "drain", "done"}
BY Kinds DEF RunOver, Wiping, At, Family, Cradles, CradleFits

LEMMA WorkerAbove ==
  ASSUME Family, NEW w \in Workers, Active(w) PROVE Above(w)
<1>1. Live(w) /\ w \in scope[w]
  BY Kinds DEF Family, Homes, Homely, Chains, Active
<1> QED BY <1>1 DEF Above

\* A stage's launchers lead up to a worker.
LEMMA StageAbove ==
  ASSUME Typing, Family, RunOver, NEW s \in Stages, Active(s) PROVE Above(s)
<1> DEFINE A == {x \in Stages : Active(x) /\ scope[x] \subseteq scope[s]}
<1>1. PICK x \in A, a \in Actors \ A : LaunchedBy(x, a)
  <2>1. s \in A
    OBVIOUS
  <2> QED BY <2>1, LauncherOutside
<1>2. At(a, "pipe") /\ scope[a] \subseteq scope[s]
  BY <1>1 DEF LaunchedBy, Under
<1>3. Active(a) /\ a # Main
  BY <1>2, MainIsQuiet DEF At, Active
<1>4. a \in Workers
  BY <1>1, <1>2, <1>3 DEF Actors
<1>5. Above(a)
  BY <1>3, <1>4, WorkerAbove
<1> QED BY <1>2, <1>5 DEF Above

LEMMA ActorAbove ==
  ASSUME Typing, Family, RunOver, NEW a \in Actors, Active(a), a # Main PROVE Above(a)
BY WorkerAbove, StageAbove DEF Actors

\* No stage is left whose births nobody would answer for.
LEMMA LooseStagesGone ==
  ASSUME Typing, Family, RunOver, NEW s \in Stages, Active(s) PROVE thread[s].cradle # Session
<1> SUFFICES ASSUME thread[s].cradle = Session PROVE FALSE
  OBVIOUS
<1> DEFINE A == {x \in Stages : Active(x) /\ thread[x].cradle = Session}
<1>1. PICK x \in A, a \in Actors \ A : LaunchedBy(x, a)
  <2>1. s \in A
    OBVIOUS
  <2> QED BY <2>1, LauncherOutside
<1>2. At(a, "pipe") /\ Cradle(a) = Session
  BY <1>1 DEF LaunchedBy
<1>3. Active(a) /\ a # Main
  BY <1>2, MainIsQuiet DEF At, Active
<1>4. thread[a].frames = <<>> /\ thread[a].cradle = Session
  BY <1>2, Framed, Kinds
<1>5. a \notin Workers
  BY <1>2, <1>4 DEF At, Family, Homes, Homely
<1> QED BY <1>1, <1>3, <1>4, <1>5 DEF Actors

\* Where anything may yet be born there is a worker above it.
LEMMA CradleAbove ==
  ASSUME Typing, Family, RunOver, NEW a \in Actors, thread[a].pc \in {"body", "register"}
  PROVE  Above(Cradle(a))
<1>1. a # Main /\ Active(a)
  BY MainIsQuiet DEF Active
<1>2. CASE thread[a].frames # <<>>
  <2>1. scope[Cradle(a)] = scope[a]
    BY <1>2, Framed DEF Family, Chains
  <2> QED BY <1>1, <2>1, ActorAbove DEF Above
<1>3. CASE thread[a].frames = <<>>
  <2>1. a \in Stages
    BY <1>1, <1>3 DEF Actors, Family, Homes, Homely
  <2>2. thread[a].cradle # Session /\ Cradle(a) = thread[a].cradle
    BY <1>1, <1>3, <2>1, LooseStagesGone, Framed
  <2>3. PICK b \in Actors : /\ At(b, "pipe") /\ thread[b].frames # <<>>
                            /\ Head(thread[b].frames) = thread[a].cradle
    BY <1>1, <2>1, <2>2, CradleHeld
  <2>4. b # Main /\ Active(b)
    BY <2>3, MainIsQuiet DEF At, Active
  <2>5. scope[Cradle(a)] = scope[b]
    BY <2>2, <2>3, Framed DEF Family, Chains
  <2> QED BY <2>4, <2>5, ActorAbove DEF Above
<1> QED BY <1>2, <1>3

\* Of the live workers above one, the topmost is in the registry.
LEMMA SweepCovers ==
  ASSUME Seating, Family, Handed, At(Main, "settled"), ~Wiping, NEW w \in Workers, Live(w)
  PROVE  scope[w] \cap Pruned(roster) # {}
<1>0. Typing /\ RunOver
  BY DEF Seating, RunOver
<1> DEFINE A == {y \in Workers : Live(y) /\ scope[y] \subseteq scope[w]}
<1>1. PICK y \in A : \A z \in A \ {y} : z \notin scope[y]
  <2>1. w \in A /\ A \in SUBSET Actors
    BY Kinds
  <2> HIDE DEF A
  <2> QED BY <2>1 DEF Family, Tree
<1>2. y \in Workers /\ Live(y) /\ y \in scope[y] /\ scope[y] \subseteq scope[w]
  BY LiveGoes
<1>3. y \in roster
  <2> SUFFICES ASSUME y \notin roster PROVE FALSE
    OBVIOUS
  <2>1. PICK a \in Registering : thread[a].given = {y}
    BY <1>2 DEF Seating, Covered, Wiping, InHand
  <2>2. a \in Actors /\ thread[a].pc = "register" /\ Under(y, Cradle(a))
    BY <2>1 DEF Registering, At, Handed
  <2>3. PICK u \in Workers : Live(u) /\ u \in scope[u] /\ scope[u] \subseteq scope[Cradle(a)]
    BY <1>0, <2>2, CradleAbove DEF Above
  <2>4. u # y /\ u \in scope[y] /\ scope[u] \subseteq scope[w]
    BY <1>2, <2>2, <2>3 DEF Under
  <2>5. u \in A
    BY <2>3, <2>4
  <2> HIDE DEF A
  <2> QED BY <1>1, <2>4, <2>5
<1>4. y \in Pruned(roster)
  BY <1>2, <1>3 DEF Pruned, Live
<1> QED BY <1>2, <1>4

\* A stop in force stays in force, and what is not reached yet is still to come.
LEMMA TodoKept ==
  ASSUME Typing, WipeTodo,
         Wiping' => /\ Wiping /\ thread'[Main].todo = thread[Main].todo
                    /\ thread'[Main].pc # "stop" => thread'[Main].todo = {},
         \A w \in Workers : Live(w)' => Live(w) /\ scope'[w] = scope[w],
         \A n \in Nodes : struck[n] # "none" => struck'[n] # "none"
  PROVE  WipeTodo'
<1> SUFFICES ASSUME Wiping'
             PROVE  /\ thread'[Main].pc # "stop" => thread'[Main].todo = {}
                    /\ \A w \in Workers : Live(w)' => \/ Struck(w)'
                                                      \/ scope'[w] \cap thread'[Main].todo # {}
  BY DEF WipeTodo
<1>1. \A w \in Workers : scope[w] \subseteq Nodes
  BY DEF Typing, TypeOK, Actors
<1>2. \A w \in Workers : Live(w)' /\ Struck(w) => Struck(w)'
  BY <1>1 DEF Struck
<1> QED BY <1>2 DEF WipeTodo

\* Flags only rise.
FlagsRise == \A n \in Nodes : struck[n] # "none" => struck'[n] # "none"

LEMMA StrikeRises ==
  ASSUME Typing, NEW n \in Nodes, NEW c \in Causes, Strike(n, c) PROVE FlagsRise
<1>1. struck \in [Nodes -> Flags]
  BY DEF Typing, TypeOK
<1>2. Stronger(struck[n], c) # "none"
  BY <1>1, StrongerStays
<1> QED BY <1>1, <1>2 DEF Strike, FlagsRise

LEMMA OrdinaryFlags ==
  ASSUME Seating, NEW a \in Actors, OrdinaryStep(a) PROVE FlagsRise
<1>1. Typing /\ Front(thread[a]) \subseteq Workers /\ thread[a].given \in SUBSET Workers
  BY AtThread, FrontIsGiven DEF Seating
<1>2. CASE UNCHANGED struck
  BY <1>2 DEF FlagsRise
<1>3. ASSUME NEW w \in Workers, ClaimAndStop(w) PROVE FlagsRise
  BY <1>1, <1>3, OneClaimed DEF Claims, FlagsRise
<1>4. UNCHANGED struck \/ \E w \in Workers : ClaimAndStop(w)
  <2>1. CASE Enrol(a)
    BY <1>1, <2>1 DEF Enrol
  <2>2. CASE StopOne(a)
    BY <1>1, <2>2 DEF StopOne
  <2>3. CASE ~Enrol(a) /\ ~StopOne(a)
    BY <2>3 DEF OrdinaryStep, Await, Race, OpenGather, SpawnRefused, PipeEnd, Poll, Break, Catch, WaitPoll,
         SweepClaim, SweepNone, ReturnExit, HaltExit, Exiting, JoinDone, StopDone, Leave,
         FinalPoll, StageEnds, Publish, RunReturns, OutliveDone, RunHalts, Wipe
  <2> QED BY <2>1, <2>2, <2>3
<1> QED BY <1>2, <1>3, <1>4

\* An ordinary step hangs no worker anywhere else.
LEMMA OrdinaryChains ==
  ASSUME Seating, NEW a \in Actors, OrdinaryStep(a)
  PROVE  /\ scope' = scope \/ \E g \in Gathers : OpenGather(a, g)
         /\ \A x \in Actors \cup {Session} : scope'[x] = scope[x]
<1>1. scope' = scope \/ \E g \in Gathers : OpenGather(a, g)
  BY DEF OrdinaryStep, Await, Race, SpawnRefused, Enrol, PipeEnd, Poll, Break, Catch, WaitPoll,
         SweepClaim, SweepNone, ReturnExit, HaltExit, Exiting, JoinDone, StopOne, StopDone, Leave,
         FinalPoll, StageEnds, Publish, RunReturns, OutliveDone, RunHalts, Wipe
<1>2. ASSUME NEW g \in Gathers, OpenGather(a, g)
      PROVE  \A x \in Actors \cup {Session} : scope'[x] = scope[x]
  <2>1. \A x \in Actors \cup {Session} : x # g
    BY NamesAssumption DEF Actors
  <2>2. scope \in [Actors \cup Gathers \cup {Session} -> SUBSET Nodes]
    BY DEF Seating, Typing, TypeOK
  <2> QED BY <1>2, <2>1, <2>2 DEF OpenGather
<1> QED BY <1>1, <1>2


LEMMA ClaimStrikes ==
  ASSUME Typing, NEW w \in Workers, ClaimAndStop(w), handle[w] = "running"
  PROVE  struck'[w] # "none"
<1>1. struck \in [Nodes -> Flags] /\ w \in Nodes
  BY Kinds DEF Typing, TypeOK
<1>2. Stronger(struck[w], "cancelled") # "none"
  BY <1>1, StrongerStays DEF Causes
<1> QED BY <1>1, <1>2 DEF ClaimAndStop

\* What the run's thread does once the wipe has begun, or to begin it.
LEMMA WipeMoves ==
  ASSUME Seating, OrdinaryStep(Main), Wiping'
  PROVE  Wipe \/ (Wiping /\ (StopOne(Main) \/ StopDone(Main) \/ Leave(Main)))
<1>1. Typing /\ Main \in Actors /\ Main \notin Workers /\ Main \notin Stages
  BY Kinds DEF Seating
<1>2. \A b \in Actors : WipeLast(thread[b])
  BY DEF Seating
<1>3. PICK t : Ordinary(Main, t) /\ Move(Main, t)
  BY <1>1, <1>2, BodyIsOrdinary, EndIsOrdinary DEF OrdinaryStep
<1>4. thread'[Main] = t
  BY <1>1, <1>3, MovedOne
<1>5. CASE Wiping
  <2>1. thread[Main].pc \in {"stop", "drain", "done"}
    BY <1>1, <1>2, <1>5 DEF WipeLast, Wiping
  <2> QED BY <1>1, <1>5, <2>1 DEF OrdinaryStep, Await, Race, OpenGather, SpawnRefused, Enrol, PipeEnd, Poll,
         Break, Catch, WaitPoll, SweepClaim, SweepNone, ReturnExit, HaltExit, JoinDone,
         FinalPoll, RunReturns, OutliveDone, RunHalts, At
<1>6. CASE ~Wiping
  <2>1. thread[Main].pc = "settled"
    BY <1>3, <1>4, <1>6 DEF Ordinary, Wiping, At
  <2> QED BY <1>1, <2>1 DEF OrdinaryStep, Await, Race, OpenGather, SpawnRefused, Enrol, PipeEnd, Poll,
         Break, Catch, WaitPoll, SweepClaim, SweepNone, ReturnExit, HaltExit, JoinDone,
         StopOne, StopDone, Leave, FinalPoll, RunReturns, OutliveDone, RunHalts, At
<1> QED BY <1>5, <1>6

\* One entry of the sweep: what lives under it has a stop in force from here on.
LEMMA SweepStrikes ==
  ASSUME Seating, Family, WipeTodo, Wiping, StopOne(Main)
  PROVE  WipeTodo'
<1>1. Typing /\ thread[Main] \in Thread /\ Main \in Actors /\ Front(thread[Main]) \subseteq Workers
  BY AtThread, FrontIsGiven, Kinds DEF Seating
<1>2. PICK v \in Workers : /\ ClaimAndStop(v)
                           /\ Move(Main, [thread[Main] EXCEPT !.todo = @ \ {v}])
  BY <1>1 DEF StopOne
<1> DEFINE t == [thread[Main] EXCEPT !.todo = @ \ {v}]
<1>3. t.pc = thread[Main].pc /\ t.todo = thread[Main].todo \ {v}
  BY <1>1 DEF Thread
<1>4. thread'[Main] = t
  BY <1>1, <1>2, MovedOne
<1> HIDE DEF t
<1>5. thread[Main].pc = "stop" /\ scope' = scope
  BY DEF StopOne, At
<1>6. Claims
  BY <1>1, <1>2, OneClaimed
<1>7. \A w \in Workers : scope[w] \subseteq Nodes
  BY <1>1 DEF Typing, TypeOK, Actors
<1>8. ASSUME NEW w \in Workers, Live(w)', ~Struck(w)', scope'[w] \cap thread'[Main].todo = {} PROVE FALSE
  <2>1. Live(w)
    BY <1>6, <1>8 DEF Claims, Live
  <2>2. ~Struck(w)
    BY <1>5, <1>6, <1>7, <1>8 DEF Claims, Struck
  <2>3. v \in scope[w]
    BY <1>3, <1>4, <1>5, <1>8, <2>1, <2>2 DEF WipeTodo
  <2>4. v \in Actors /\ v \in Nodes
    BY Kinds
  <2>5. handle[v] # "unborn"
    BY <2>3, <2>4, Kinds DEF Family, Chains, Homes, Homely
  <2>6. CASE handle[v] = "running"
    <3>1. struck'[v] # "none"
      BY <1>1, <1>2, <2>6, ClaimStrikes
    <3> QED BY <1>5, <1>8, <2>3, <3>1 DEF Struck
  <2>7. CASE handle[v] = "stopping"
    BY <2>2, <2>3, <2>7 DEF Family, StoppedIsStruck, Struck
  <2>8. CASE handle[v] \in {"ready", "consumed"}
    <3>1. v # w
      BY <2>1, <2>8 DEF Live
    <3>2. Over(v)
      BY <2>4, <2>5, <2>8 DEF Family, Homes, Homely, Active, Live, Over, At
    <3> QED BY <1>1, <2>1, <2>2, <2>3, <2>4, <3>1, <3>2, OverMeansStruck
  <2> QED BY <1>1, <2>5, <2>6, <2>7, <2>8 DEF Typing, TypeOK, HandleStates
<1> QED BY <1>3, <1>4, <1>5, <1>8 DEF WipeTodo

LEMMA OrdinaryWipe ==
  ASSUME Seating, Family, Handed, WipeTodo, NEW a \in Actors, OrdinaryStep(a)
  PROVE  WipeTodo'
<1>1. Typing /\ Main \in Actors
  BY Kinds DEF Seating
<1>2. FlagsRise /\ NoneRaised /\ \A w \in Workers : scope'[w] = scope[w]
  BY <1>1, OrdinaryFlags, OrdinaryRaisesNone, OrdinaryChains, Kinds
<1>3. \A w \in Workers : Live(w)' => Live(w) /\ scope'[w] = scope[w]
  BY <1>2 DEF NoneRaised
<1>4. CASE a # Main
  <2>1. PICK t : Move(a, t)
    BY <1>1, BodyIsOrdinary, EndIsOrdinary DEF OrdinaryStep, Seating
  <2>2. thread'[Main] = thread[Main]
    BY <1>1, <1>4, <2>1, MovedOne
  <2>3. Wiping' => /\ Wiping /\ thread'[Main].todo = thread[Main].todo
                   /\ thread'[Main].pc # "stop" => thread'[Main].todo = {}
    BY <2>2 DEF Wiping, WipeTodo
  <2> QED BY <1>1, <1>2, <1>3, <2>3, TodoKept DEF FlagsRise
<1>5. CASE a = Main
  <2>1. CASE ~Wiping'
    BY <2>1 DEF WipeTodo
  <2>2. CASE Wiping' /\ Wipe /\ ~Wiping
    <3>1. At(Main, "settled") /\ Move(Main, [thread[Main] EXCEPT !.pc = "stop", !.verb = "wipe",
                                     !.given = Pruned(roster), !.todo = Pruned(roster)])
      BY <2>2 DEF Wipe
    <3>2. thread'[Main].pc = "stop" /\ thread'[Main].todo = Pruned(roster)
      BY <1>1, <3>1, AtThread DEF Move, Thread
    <3>3. \A w \in Workers : Live(w)' => scope[w] \cap Pruned(roster) # {}
      BY <1>3, <2>2, <3>1, SweepCovers
    <3> QED BY <1>3, <3>2, <3>3 DEF WipeTodo
  <2>3. CASE Wiping /\ StopOne(Main)
    BY <2>3, SweepStrikes
  <2>4. CASE Wiping /\ (StopDone(Main) \/ Leave(Main))
    <3>1. FramesFit(thread[Main]) /\ thread[Main] \in Thread /\ thread[Main].verb = "wipe"
      BY <1>1, <2>4, AtThread DEF Wiping
    <3>2. thread[Main].todo = {}
      BY <2>4, <3>1 DEF StopDone, Leave, Finished, Unwinding, WipeTodo, At
    <3>3. CASE StopDone(Main)
      <4>1. thread'[Main].todo = {}
        BY <1>1, <3>1, <3>2, <3>3 DEF StopDone, Move, Typing, TypeOK, Thread
      <4> QED BY <1>1, <1>2, <1>3, <2>4, <3>2, <4>1, TodoKept DEF FlagsRise
    <3>4. CASE Leave(Main)
      <4>1. Move(Main, [Idle EXCEPT !.pc = "done", !.verb = "wipe"])
        BY <3>1, <3>4 DEF Leave, Left
      <4>2. thread'[Main].todo = {}
        <5> DEFINE t == [Idle EXCEPT !.pc = "done", !.verb = "wipe"]
        <5>1. t.todo = {}
          BY DEF Idle
        <5> HIDE DEF t
        <5>2. Move(Main, t)
          BY <4>1 DEF t
        <5> QED BY <1>1, <5>1, <5>2, MovedOne
      <4> QED BY <1>1, <1>2, <1>3, <2>4, <3>2, <4>2, TodoKept DEF FlagsRise
    <3> QED BY <2>4, <3>3, <3>4
  <2>5. Wiping' /\ Wipe => ~Wiping
    BY <1>1 DEF Wipe, At, Wiping, Seating, WipeLast
  <2> QED BY <1>5, <2>1, <2>2, <2>3, <2>4, <2>5, WipeMoves
<1> QED BY <1>4, <1>5

\* A newborn has the stops, and the entries to come, of the worker above it.
LEMMA SpawnWipe ==
  ASSUME Seating, Seating', Family, WipeTodo, NEW a \in Actors, NEW w \in Workers, Spawn(a, w)
  PROVE  WipeTodo'
<1> DEFINE born   == [Idle EXCEPT !.pc = "body", !.frames = <<w>>, !.known = thread[a].known]
           parent == [thread[a] EXCEPT !.pc = "register", !.given = {w}]
<1>1. /\ Typing /\ thread \in [Actors -> Thread] /\ w \in Actors /\ Main \in Actors /\ w # Main
      /\ handle \in [Workers -> HandleStates]
      /\ scope \in [Actors \cup Gathers \cup {Session} -> SUBSET Nodes]
  BY Kinds DEF Seating, Typing, TypeOK
<1>2. thread[w].pc = "idle" /\ thread[a].pc = "body" /\ a # w /\ handle[w] = "unborn"
  BY DEF Spawn, Seating, Typing, IdleIfUnborn, At, NextId
<1>3. /\ thread' = [thread EXCEPT ![w] = born, ![a] = parent]
      /\ handle' = [handle EXCEPT ![w] = "running"] /\ struck' = struck
      /\ scope' = [scope EXCEPT ![w] = scope[Cradle(a)] \cup {w}]
  BY <1>1, <1>2 DEF Spawn, BirthScope
<1>4. parent.pc = "register"
  BY <1>1 DEF Thread
<1> HIDE DEF born, parent
<1>5. CASE ~Wiping'
  BY <1>5 DEF WipeTodo
<1>6. CASE Wiping'
  <2>1. a # Main
    <3> SUFFICES ASSUME a = Main PROVE FALSE
      OBVIOUS
    <3>1. thread'[Main] = parent
      BY <1>1, <1>2, <1>3
    <3> QED BY <1>1, <1>4, <1>6, <3>1 DEF Wiping, Seating, WipeLast
  <2>2. thread'[Main] = thread[Main]
    BY <1>1, <1>3, <2>1
  <2>3. Wiping /\ RunOver
    BY <1>6, <2>2 DEF Wiping, RunOver
  <2>4. PICK u \in Workers : Live(u) /\ scope[u] \subseteq scope[Cradle(a)]
    BY <1>1, <1>2, <2>3, CradleAbove DEF Above
  <2>5. Struck(u) \/ scope[u] \cap thread[Main].todo # {}
    BY <2>3, <2>4 DEF WipeTodo
  <2>6. scope[u] \subseteq scope'[w]
    BY <1>1, <1>3, <2>4
  <2>7. Struck(w)' \/ scope'[w] \cap thread'[Main].todo # {}
    BY <1>3, <2>2, <2>5, <2>6 DEF Struck
  <2>8. \A v \in Workers : v # w /\ Live(v)' => Live(v) /\ scope'[v] = scope[v] /\ Struck(v)' = Struck(v)
    <3>1. \A v \in Workers : v # w => handle'[v] = handle[v] /\ v \in Actors \cup Gathers \cup {Session}
      BY <1>1, <1>3, Kinds
    <3> QED BY <1>1, <1>3, <3>1 DEF Live, Struck
  <2> QED BY <2>2, <2>3, <2>7, <2>8 DEF WipeTodo
<1> QED BY <1>5, <1>6

\* Who is registering still stands where it stood, in a chain no step changes.
LEMMA HandedKept ==
  ASSUME Seating, Handed,
         \A b \in Registering' : b \in Registering /\ thread'[b] = thread[b],
         \A b \in Registering : scope'[Cradle(b)] = scope[Cradle(b)],
         \A w \in Workers : w \in Born => scope'[w] = scope[w]
  PROVE  Handed'
<1> SUFFICES ASSUME NEW b \in Registering', NEW w \in thread'[b].given PROVE Under(w, Cradle(b))'
  BY DEF Handed
<1>1. b \in Registering /\ w \in thread[b].given /\ Cradle(b)' = Cradle(b)
  BY DEF Cradle
<1>2. w \in Born /\ w \in Workers
  BY <1>1 DEF Seating, Born
<1> QED BY <1>1, <1>2 DEF Handed, Under

\* Whoever is registering stands in a cradle that is open, or in none.
LEMMA RegisteringCradle ==
  ASSUME Claiming, Family, NEW b \in Registering
  PROVE  /\ b \in Actors /\ Cradle(b) \in Actors \cup Gathers \cup {Session}
         /\ Cradle(b) \in Owners \cup {Session}
         /\ Cradle(b) # Session => member[Cradle(b)] = "open"
         /\ \A w \in Workers : handle[w] = "unborn" => w # Cradle(b)
<1>1. b \in Actors /\ thread[b].pc = "register" /\ Active(b) /\ ~Ending(b) /\ Typing
  BY DEF Registering, At, Active, Ending, Waiting, Claiming
<1>2. Cradle(b) \in Owners \cup {Session} /\ \A w \in Workers : handle[w] = "unborn" => w # Cradle(b)
  BY <1>1, CradleChain
<1>3. Cradle(b) # Session => member[Cradle(b)] = "open"
  BY <1>1, CradleInside
<1> QED BY <1>1, <1>2, <1>3 DEF Owners, Actors

LEMMA OrdinaryHanded ==
  ASSUME Claiming, Seating, Family, Handed, NEW a \in Actors, OrdinaryStep(a)
  PROVE  Handed'
<1>1. Typing
  BY DEF Seating
<1>2. PICK t : Ordinary(a, t) /\ Move(a, t)
  BY <1>1, BodyIsOrdinary, EndIsOrdinary DEF OrdinaryStep, Seating
<1>3. thread'[a] = t /\ \A b \in Actors : b # a => thread'[b] = thread[b]
  BY <1>1, <1>2, MovedOne
<1>4. \A b \in Registering' : b \in Registering /\ thread'[b] = thread[b]
  BY <1>2, <1>3 DEF Registering, At, Ordinary
<1>5. \A w \in Workers : scope'[w] = scope[w]
  BY OrdinaryChains, Kinds
<1>6. ASSUME NEW b \in Registering PROVE scope'[Cradle(b)] = scope[Cradle(b)]
  <2>1. CASE scope' = scope
    BY <2>1
  <2>2. ASSUME NEW g \in Gathers, OpenGather(a, g) PROVE scope'[Cradle(b)] = scope[Cradle(b)]
    <3>1. Cradle(b) # g
      BY <2>2, RegisteringCradle, Kinds DEF OpenGather
    <3>2. scope \in [Actors \cup Gathers \cup {Session} -> SUBSET Nodes]
      BY <1>1 DEF Typing, TypeOK
    <3> QED BY <2>2, <3>1, <3>2, RegisteringCradle DEF OpenGather
  <2> QED BY <2>1, <2>2, OrdinaryChains
<1> QED BY <1>4, <1>5, <1>6, HandedKept

LEMMA SpawnHanded ==
  ASSUME Claiming, Seating, Family, Handed, NEW a \in Actors, NEW w \in Workers, Spawn(a, w)
  PROVE  Handed'
<1> DEFINE born   == [Idle EXCEPT !.pc = "body", !.frames = <<w>>, !.known = thread[a].known]
           parent == [thread[a] EXCEPT !.pc = "register", !.given = {w}]
<1>1. /\ Typing /\ thread \in [Actors -> Thread] /\ thread[a] \in Thread /\ w \in Actors
      /\ scope \in [Actors \cup Gathers \cup {Session} -> SUBSET Nodes]
  BY Kinds DEF Seating, Typing, TypeOK
<1>2. thread[w].pc = "idle" /\ thread[a].pc = "body" /\ a # w /\ handle[w] = "unborn"
  BY DEF Spawn, Seating, Typing, IdleIfUnborn, At, NextId
<1>3. /\ thread' = [thread EXCEPT ![w] = born, ![a] = parent]
      /\ scope' = [scope EXCEPT ![w] = scope[Cradle(a)] \cup {w}]
  BY <1>1, <1>2 DEF Spawn, BirthScope
<1>4. /\ parent.given = {w} /\ parent.frames = thread[a].frames /\ parent.cradle = thread[a].cradle
      /\ born.pc = "body"
  BY <1>1 DEF Thread, Idle
<1> HIDE DEF born, parent
<1>5. /\ thread'[a] = parent /\ thread'[w] = born
      /\ \A b \in Actors : b # a /\ b # w => thread'[b] = thread[b]
  BY <1>1, <1>2, <1>3
<1>6. /\ Cradle(a) # w /\ w \notin scope[Cradle(a)] /\ Cradle(a) \in Actors \cup Gathers \cup {Session}
  BY <1>2, CradleChain DEF Active, Owners, Actors
<1>7. \A x \in Actors \cup Gathers \cup {Session} : x # w => scope'[x] = scope[x]
  BY <1>1, <1>3
<1> SUFFICES ASSUME NEW b \in Registering', NEW v \in thread'[b].given PROVE Under(v, Cradle(b))'
  BY DEF Handed
<1>8. CASE b = a
  <2>1. v = w /\ Cradle(b)' = Cradle(a)
    BY <1>4, <1>5, <1>8 DEF Cradle
  <2> QED BY <1>1, <1>3, <1>6, <1>7, <2>1 DEF Under
<1>9. CASE b # a
  <2>1. b \in Registering /\ thread'[b] = thread[b]
    BY <1>4, <1>5, <1>9 DEF Registering, At
  <2>2. Under(v, Cradle(b)) /\ v \in Born /\ Cradle(b)' = Cradle(b)
    BY <2>1 DEF Handed, Seating, Cradle
  <2>3. v \in Actors \cup Gathers \cup {Session} /\ v # w
    BY <1>2, <2>2, Kinds DEF Born
  <2>4. Cradle(b) \in Actors \cup Gathers \cup {Session} /\ Cradle(b) # w
    BY <1>2, <2>1, RegisteringCradle
  <2> QED BY <1>7, <2>2, <2>3, <2>4 DEF Under
<1> QED BY <1>8, <1>9

LEMMA LaunchHunt ==
  ASSUME Claiming, Seating, Seating', Family, Handed, WipeTodo,
         NEW a \in Actors, NEW s \in Stages, Launch(a, s)
  PROVE  Handed' /\ WipeTodo'
<1> DEFINE stage  == [Idle EXCEPT !.pc = "body", !.cradle = Cradle(a), !.known = thread[a].known]
           parent == [thread[a] EXCEPT !.pc = "pipe", !.stage = s]
<1>1. /\ Typing /\ thread \in [Actors -> Thread] /\ thread[a] \in Thread /\ s \in Actors /\ Main \in Actors
      /\ s # Main /\ scope \in [Actors \cup Gathers \cup {Session} -> SUBSET Nodes]
  BY Kinds DEF Seating, Typing, TypeOK
<1>2. thread[s].pc = "idle" /\ thread[a].pc = "body" /\ a # s
  BY DEF Launch, At
<1>3. /\ thread' = [thread EXCEPT ![s] = stage, ![a] = parent]
      /\ scope' = [scope EXCEPT ![s] = scope[a] \cup {s}] /\ UNCHANGED <<handle, struck>>
  BY <1>1, <1>2 DEF Launch
<1>4. stage.pc = "body" /\ parent.pc = "pipe"
  BY <1>1 DEF Idle, Thread
<1> HIDE DEF stage, parent
<1>5. /\ thread'[a] = parent /\ thread'[s] = stage
      /\ \A b \in Actors : b # a /\ b # s => thread'[b] = thread[b]
  BY <1>1, <1>2, <1>3
<1>6. \A x \in Actors \cup Gathers \cup {Session} : x # s => scope'[x] = scope[x]
  BY <1>1, <1>3
<1>7. \A w \in Workers : scope'[w] = scope[w]
  BY <1>6, Kinds
<1>8. Handed'
  <2>1. \A b \in Registering' : b \in Registering /\ thread'[b] = thread[b]
    BY <1>4, <1>5 DEF Registering, At
  <2>2. \A b \in Registering : scope'[Cradle(b)] = scope[Cradle(b)]
    <3> SUFFICES ASSUME NEW b \in Registering PROVE Cradle(b) # s /\ Cradle(b) \in Actors \cup Gathers \cup {Session}
      BY <1>6
    <3> QED BY RegisteringCradle, Kinds
  <2> QED BY <1>7, <2>1, <2>2, HandedKept
<1>9. WipeTodo'
  <2>1. Wiping' => /\ Wiping /\ thread'[Main].todo = thread[Main].todo
                   /\ thread'[Main].pc # "stop" => thread'[Main].todo = {}
    <3> SUFFICES ASSUME Wiping' PROVE thread'[Main] = thread[Main]
      BY DEF WipeTodo, Wiping
    <3>1. thread'[Main].pc # "pipe"
      BY <1>1 DEF Seating, WipeLast, Wiping
    <3> QED BY <1>1, <1>4, <1>5, <3>1
  <2> QED BY <1>1, <1>3, <1>7, <2>1, TodoKept DEF Live
<1> QED BY <1>8, <1>9

\* The registering thread takes its seat; the host strikes; a body cancels.
LEMMA OtherHunt ==
  ASSUME Claiming, Seating, Family, Handed, WipeTodo,
         \/ Interrupt \/ Terminate \/ UNCHANGED vars
         \/ \E a \in Actors : Register(a) \/ \E w \in Workers : Cancel(a, w)
  PROVE  Handed' /\ WipeTodo'
<1>1. Typing /\ scope' = scope /\ Main \in Actors /\ Main \in Nodes /\ Root \in Nodes
  BY Kinds DEF Seating, Interrupt, Terminate, Strike, Register, Cancel, vars, Nodes
<1>2. /\ FlagsRise /\ \A w \in Workers : Live(w)' => Live(w)
  <2>1. CASE UNCHANGED <<handle, struck>>
    BY <2>1 DEF FlagsRise, Live
  <2>2. CASE Interrupt \/ Terminate
    BY <1>1, <2>2, StrikeRises DEF Interrupt, Terminate, Strike, Causes, Live
  <2>3. ASSUME NEW a \in Actors, NEW w \in Workers, Cancel(a, w)
        PROVE  FlagsRise /\ \A v \in Workers : Live(v)' => Live(v)
    <3>1. Claims
      BY <1>1, <2>3, OneClaimed DEF Cancel
    <3> QED BY <3>1 DEF Claims, FlagsRise, Live
  <2> QED BY <2>1, <2>2, <2>3 DEF Register, vars
<1>3. /\ \A b \in Registering' : b \in Registering /\ thread'[b] = thread[b]
      /\ thread'[Main].verb = thread[Main].verb /\ thread'[Main].todo = thread[Main].todo
      /\ Wiping => thread'[Main] = thread[Main]
  <2>1. CASE thread' = thread
    BY <2>1 DEF Registering, At, Wiping
  <2>2. ASSUME NEW a \in Actors, Register(a)
        PROVE  /\ \A b \in Registering' : b \in Registering /\ thread'[b] = thread[b]
               /\ thread'[Main].verb = thread[Main].verb /\ thread'[Main].todo = thread[Main].todo
               /\ Wiping => thread'[Main] = thread[Main]
    <3> DEFINE t == [thread[a] EXCEPT !.pc = "enrol"]
    <3>1. Move(a, t) /\ thread[a].pc = "register"
      BY <2>2 DEF Register, At
    <3>2. t.pc = "enrol" /\ t.verb = thread[a].verb /\ t.todo = thread[a].todo
      BY <1>1, AtThread DEF Thread
    <3>3. thread'[a] = t /\ \A b \in Actors : b # a => thread'[b] = thread[b]
      BY <1>1, <3>1, MovedOne
    <3>4. Wiping => a # Main
      BY <1>1, <3>1 DEF Wiping, Seating, WipeLast
    <3> HIDE DEF t
    <3> QED BY <1>1, <3>2, <3>3, <3>4 DEF Registering, At
  <2> QED BY <2>1, <2>2 DEF Interrupt, Terminate, Strike, Cancel, vars
<1>4. Handed'
  BY <1>1, <1>3, HandedKept
<1>5. WipeTodo'
  <2>1. Wiping' => /\ Wiping /\ thread'[Main].todo = thread[Main].todo
                   /\ thread'[Main].pc # "stop" => thread'[Main].todo = {}
    BY <1>3 DEF Wiping, WipeTodo
  <2> QED BY <1>1, <1>2, <2>1, TodoKept DEF FlagsRise
<1> QED BY <1>4, <1>5

LEMMA InitHunt == Init => Handed /\ WipeTodo
<1> SUFFICES ASSUME Init PROVE Handed /\ WipeTodo
  OBVIOUS
<1>1. \A a \in Actors : thread[a].pc # "register" /\ thread[a].verb # "wipe"
  BY DEF Init, Idle
<1> QED BY <1>1, Kinds DEF Handed, Registering, At, WipeTodo, Wiping

LEMMA HuntStep ==
  Claiming /\ Seating /\ Seating' /\ Family /\ Handed /\ WipeTodo /\ [Next]_vars => Handed' /\ WipeTodo'
<1> SUFFICES ASSUME Claiming, Seating, Seating', Family, Handed, WipeTodo, [Next]_vars
             PROVE  Handed' /\ WipeTodo'
  OBVIOUS
<1>1. ASSUME NEW a \in Actors, OrdinaryStep(a) PROVE Handed' /\ WipeTodo'
  BY <1>1, OrdinaryHanded, OrdinaryWipe
<1>2. ASSUME NEW a \in Actors, Step(a) PROVE Handed' /\ WipeTodo'
  <2>1. CASE \E w \in Workers : Spawn(a, w)
    BY <2>1, SpawnHanded, SpawnWipe
  <2>2. CASE \E s \in Stages : Launch(a, s)
    BY <2>2, LaunchHunt
  <2>3. CASE Register(a) \/ \E w \in Workers : Cancel(a, w)
    BY <2>3, OtherHunt
  <2>4. CASE OrdinaryStep(a)
    BY <1>1, <2>4
  <2> QED BY <1>2, <2>1, <2>2, <2>3, <2>4 DEF Step, OrdinaryStep
<1>3. ASSUME NEW s \in Stages, StageEnds(s) PROVE Handed' /\ WipeTodo'
  <2>1. s \in Actors /\ OrdinaryStep(s)
    BY <1>3, Kinds DEF OrdinaryStep
  <2> QED BY <1>1, <2>1
<1>4. ASSUME NEW w \in Workers, Publish(w) PROVE Handed' /\ WipeTodo'
  <2>1. w \in Actors /\ OrdinaryStep(w)
    BY <1>4, Kinds DEF OrdinaryStep
  <2> QED BY <1>1, <2>1
<1>5. CASE RunReturns \/ OutliveDone \/ RunHalts \/ Wipe
  <2>1. Main \in Actors /\ OrdinaryStep(Main)
    BY <1>5, Kinds DEF OrdinaryStep
  <2> QED BY <1>1, <2>1
<1>6. CASE Interrupt \/ Terminate \/ Gone \/ UNCHANGED vars
  BY <1>6, OtherHunt DEF Gone
<1> QED BY <1>2, <1>3, <1>4, <1>5, <1>6 DEF Next

\* Once the wipe's sweep is over no live worker is without a stop in force, a
\* birth in flight that the sweep missed included: it hangs under a worker the
\* sweep reached (state/workers.rs WorkerRegistry::cancel_all, birth.rs).
THEOREM WipesReachAll == Spec => []WipeReachesAll
<1>1. Seating /\ WipeTodo => WipeReachesAll
  BY DEF WipeTodo, Wiping, WipeReachesAll
<1>2. Spec => [](Claiming /\ Family)
  BY FamilyHolds
<1>3. Spec => []Seating
  BY InitSeating, SeatingStep, PTL DEF Spec
<1>4. Spec => [](Handed /\ WipeTodo)
  BY <1>2, <1>3, InitHunt, HuntStep, PTL DEF Spec
<1> QED BY <1>1, <1>3, <1>4, PTL
=============================================================================
