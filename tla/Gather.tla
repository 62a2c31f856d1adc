------------------------------- MODULE Gather -------------------------------
(***************************************************************************)
(* Workers and gathers: who answers for a `spawn`, and how a scope that    *)
(* owns workers ends (core/src/shell/runtime/handle.rs, handle/brood.rs,   *)
(* state/workers.rs, builtins/concurrency/{birth,eliminate}.rs and the     *)
(* Gather rules of evaluator/machine.rs).                                  *)
(*                                                                         *)
(* One action is one critical section of the code: a lock taken and        *)
(* released, or one poll of a scope.  Between two of them every other      *)
(* thread may move.                                                        *)
(*                                                                         *)
(* Abstracted: bytes, values and provenance (an ending is only its kind),  *)
(* thread-start failure, cleanups' shields (module Scopes), retention, and *)
(* the observers `poll`, `is-done`, `first-settled`, which change nothing. *)
(***************************************************************************)
EXTENDS Naturals, Sequences, FiniteSets

CONSTANTS
  MaxWorkers,\* a bound: how many workers may be born
  Gathers,   \* the `gather` forms that may be entered, each at most once
  Stages,    \* the pipeline stages that may be launched, each at most once
  Main,      \* the foreground run's thread, and the run's scope node
  Root,      \* the session's durable cancel root
  Session,   \* the loose cradle: a birth nobody's brood answers for
  Cap,       \* Mooring::worker_cap, the seats of the registry
  Ops        \* a bound: what bodies and the host do in this instance

\* WorkerId::mint counts births, so ids are birth order.
Workers == 1 .. MaxWorkers

ASSUME NamesAssumption ==
  /\ {Main, Root, Session} \cap (Workers \cup Gathers \cup Stages) = {}
  /\ Workers \cap Gathers = {} /\ Workers \cap Stages = {} /\ Gathers \cap Stages = {}
  /\ Main # Root /\ Main # Session /\ Root # Session
ASSUME StagesAssumption == IsFiniteSet(Stages)
ASSUME CapAssumption == Cap \in Nat /\ MaxWorkers \in Nat
ASSUME OpsAssumption ==
  Ops \subseteq {"cancel", "await", "race", "catch", "err", "exit", "panic",
                 "interrupt", "terminate", "wipe"}

Actors == {Main} \cup Workers \cup Stages
Owners == Workers \cup Gathers
Nodes  == {Root} \cup Actors

VARIABLES
  thread,    \* per actor, its control state (a record of Thread)
  handle,    \* HandleState per worker
  ending,    \* the ending a worker published, "none" before
  struck,    \* the flag of each scope node
  scope,     \* chain of nodes an actor polls, and of a cradle's `under`
  member,    \* membership state of each brood
  kids,      \* membership children of each brood
  roster,    \* WorkerRegistry entries
  undrained  \* history: broods left before all their children had ended

vars == <<thread, handle, ending, struck, scope, member, kids, roster, undrained>>

-----------------------------------------------------------------------------
(* The data. *)

Causes   == {"interrupted", "cancelled", "terminated"}
Flags    == Causes \cup {"none"}
Outcomes == Causes \cup {"ok", "err", "exit", "panic"}
HandleStates == {"unborn", "running", "stopping", "ready", "consumed"}

Rank(c) == CASE c = "none" -> 0 [] c = "interrupted" -> 2
             [] c = "cancelled" -> 3 [] c = "terminated" -> 5

\* AtomicU8::fetch_max on a node's flag.
Stronger(c, d) == IF Rank(c) >= Rank(d) THEN c ELSE d

\* The control state of one thread.  `frames` are the Frame::Gather (and, at
\* the bottom, a worker's own ScopeOwner) it is inside, innermost first;
\* `cradle` is where its births hang when it has no frame of its own.  `given`
\* are the handles of the operation under way, `todo` those it has yet to reach.
Thread == [pc     : {"idle", "body", "register", "enrol", "poll", "sweep", "pipe",
                     "halt", "stop", "drain", "base", "settled", "done"},
           verb   : {"none", "await", "race", "exit", "outlive", "wipe"},
           out    : Outcomes,
           given  : SUBSET Workers,
           todo   : SUBSET Workers,
           frames : Seq(Owners),
           cradle : Owners \cup {Session},
           known  : SUBSET Workers,
           stage  : Stages \cup {Session}]

Idle == [pc |-> "idle", verb |-> "none", out |-> "ok", given |-> {}, todo |-> {},
         frames |-> <<>>, cradle |-> Session, known |-> {}, stage |-> Session]

Elems(s) == {s[i] : i \in DOMAIN s}

Live(w)    == handle[w] \in {"running", "stopping"}
Ended(w)   == handle[w] \in {"ready", "consumed"}
Claimed(w) == handle[w] \in {"stopping", "consumed"}

\* Compacting::prune: forget every consumed entry.
Pruned(entries) == {w \in entries : handle[w] # "consumed"}

\* Scope::poll: c is the strongest cause on a's chain.
InForce(a, c) == /\ c \in Causes
                 /\ \E n \in scope[a] : struck[n] = c
                 /\ \A n \in scope[a] : Rank(struck[n]) <= Rank(c)
Struck(a)     == \E n \in scope[a] : struck[n] # "none"

\* LocalState::cradle: the innermost gather, else what the thread was given.
Cradle(a) == IF thread[a].frames = <<>> THEN thread[a].cradle ELSE Head(thread[a].frames)

At(a, pc) == thread[a].pc = pc
Move(a, t) == thread' = [thread EXCEPT ![a] = t]

\* An operation of the body concluded with o: a value continues, a break unwinds.
Concluded(t, o) == [t EXCEPT !.pc = IF o = "ok" THEN "body" ELSE "halt", !.out = o,
                             !.verb = "none", !.given = {}, !.todo = {}]

-----------------------------------------------------------------------------
(* handle.rs: the transitions of one handle, each under its lock. *)

\* claim_and_stop: a running worker is struck before the lock is released; a
\* ready result is discarded; a claimed one is left alone.
ClaimAndStop(w) ==
  /\ handle' = [handle EXCEPT ![w] = CASE @ = "running" -> "stopping"
                                       [] @ = "ready"   -> "consumed"
                                       [] OTHER         -> @]
  /\ struck' = IF handle[w] = "running"
                 THEN [struck EXCEPT ![w] = Stronger(@, "cancelled")]
                 ELSE struck

\* claim_ready, on a result that is there.
ClaimReady(w) == handle[w] = "ready" /\ handle' = [handle EXCEPT ![w] = "consumed"]

\* (A mistake: the publisher does not look whether it was claimed.)
PublishedBlindly(h) == "ready"
\* CompletionPermit::finish -> publish -> install_terminal: a stopping
\* worker's outcome is discarded.
Published(h) == IF h = "running" THEN "ready" ELSE "consumed"

-----------------------------------------------------------------------------
(* birth.rs *)

\* (A mistake: seats reserved but not yet registered are not counted.)
OccupiedByEntries == Cardinality({w \in roster : Live(w)})
\* The measure of WorkerRegistry::reserve: live entries plus seats reserved.
Occupied == Cardinality({w \in roster : Live(w)})
              + Cardinality({a \in Actors : At(a, "register")})

\* (Mistakes: every birth under the session root; under the current scope
\* rather than the cradle's.)
BirthScopeAtRoot(a, w) == {Root, w}
BirthScopeHere(a, w)   == scope[a] \cup {w}
\* The node a birth hangs under: cradle.under.child().
BirthScope(a, w) == scope[Cradle(a)] \cup {w}

Born == {w \in Workers : handle[w] # "unborn"}
NextId(w) == handle[w] = "unborn" /\ \A v \in Workers : v < w => v \in Born

\* spawn_child up to spawn_thread: a seat, the node and the handle; the
\* thread starts with its own brood as cradle, and the closure's environment.
Spawn(a, w) ==
  /\ At(a, "body") /\ NextId(w) /\ Occupied < Cap
  /\ handle' = [handle EXCEPT ![w] = "running"]
  /\ scope' = [scope EXCEPT ![w] = BirthScope(a, w)]
  /\ member' = [member EXCEPT ![w] = "open"]
  /\ roster' = Pruned(roster)
  /\ thread' = [thread EXCEPT ![w] = [Idle EXCEPT !.pc = "body", !.frames = <<w>>,
                                                  !.known = thread[a].known],
                              ![a] = [@ EXCEPT !.pc = "register", !.given = {w}]]
  /\ UNCHANGED <<ending, struck, kids, undrained>>

\* CapReached: no thread, no entry, a failure of the spawn.
SpawnRefused(a) ==
  /\ At(a, "body") /\ Occupied >= Cap
  /\ Born # Workers
  /\ roster' = Pruned(roster)
  /\ Move(a, Concluded(thread[a], "err"))
  /\ UNCHANGED <<handle, ending, struck, scope, member, kids, undrained>>

\* WorkerRegistry::register.
Register(a) ==
  /\ At(a, "register")
  /\ roster' = roster \cup Pruned(thread[a].given)
  /\ Move(a, [thread[a] EXCEPT !.pc = "enrol"])
  /\ UNCHANGED <<handle, ending, struck, scope, member, kids, undrained>>

\* Membership::children after a push, which may sweep first.
Enrolled(o, w) ==
  IF o = Session THEN {kids}
  ELSE {[kids EXCEPT ![o] = kept \cup {w}] : kept \in {kids[o], Pruned(kids[o])}}

\* Brood::enrol, or nothing in a loose cradle; a closed brood claims and
\* stops the newborn, and the spawn fails.
Enrol(a) ==
  /\ At(a, "enrol")
  /\ \E w \in thread[a].given :
       IF Cradle(a) = Session \/ member[Cradle(a)] = "open"
         THEN /\ kids' \in Enrolled(Cradle(a), w)
              /\ Move(a, [Concluded(thread[a], "ok") EXCEPT !.known = @ \cup {w}])
              /\ UNCHANGED <<handle, struck>>
         ELSE /\ ClaimAndStop(w)
              /\ Move(a, Concluded(thread[a], "err"))
              /\ UNCHANGED kids
  /\ UNCHANGED <<ending, scope, member, roster, undrained>>

-----------------------------------------------------------------------------
(* machine.rs: the body of a run, a worker, a stage. *)

\* CompKind::Gather: an owner, and the cradle swapped for it.
OpenGather(a, g) ==
  /\ At(a, "body") /\ member[g] = "unused"
  /\ member' = [member EXCEPT ![g] = "open"]
  /\ scope' = [scope EXCEPT ![g] = scope[a]]
  /\ Move(a, [thread[a] EXCEPT !.frames = <<g>> \o @])
  /\ UNCHANGED <<handle, ending, struck, kids, roster, undrained>>

\* launch_thread_stage: a node under the current scope, the launcher's cradle.
Launch(a, s) ==
  /\ At(a, "body") /\ At(s, "idle")
  /\ scope' = [scope EXCEPT ![s] = scope[a] \cup {s}]
  /\ thread' = [thread EXCEPT ![s] = [Idle EXCEPT !.pc = "body", !.cradle = Cradle(a),
                                                  !.known = thread[a].known],
                              ![a] = [@ EXCEPT !.pc = "pipe", !.stage = s]]
  /\ UNCHANGED <<handle, ending, struck, member, kids, roster, undrained>>

\* (A mistake: the launcher goes on without its stage.)
PipeEndEarly(a) ==
  /\ At(a, "pipe")
  /\ Move(a, [Concluded(thread[a], "err") EXCEPT !.stage = Session])
  /\ UNCHANGED <<handle, ending, struck, scope, member, kids, roster, undrained>>

\* The collector, or ThreadStage's Drop: the launcher goes on only once the
\* stage's thread is done, however either of them ended.
PipeEnd(a) ==
  /\ At(a, "pipe")
  /\ \E s \in Stages :
       /\ thread[a].stage = s /\ At(s, "done")
       /\ Move(a, [Concluded(thread[a], thread[s].out) EXCEPT !.stage = Session])
  /\ UNCHANGED <<handle, ending, struck, scope, member, kids, roster, undrained>>

\* A step's poll finds a stop in force: no `try` catches it.
Poll(a) ==
  /\ At(a, "body")
  /\ \E c \in Causes : InForce(a, c) /\ Move(a, Concluded(thread[a], c))
  /\ UNCHANGED <<handle, ending, struck, scope, member, kids, roster, undrained>>

\* The body raises, exits or panics on its own account.
Break(a) ==
  /\ At(a, "body")
  /\ \E o \in Ops \cap {"err", "exit", "panic"} : Move(a, Concluded(thread[a], o))
  /\ UNCHANGED <<handle, ending, struck, scope, member, kids, roster, undrained>>

\* Frame::Try meets an error; an escape passes it.
Catch(a) ==
  /\ "catch" \in Ops /\ At(a, "halt") /\ thread[a].out = "err"
  /\ Move(a, Concluded(thread[a], "ok"))
  /\ UNCHANGED <<handle, ending, struck, scope, member, kids, roster, undrained>>

\* builtin_cancel.
Cancel(a, w) ==
  /\ "cancel" \in Ops /\ At(a, "body") /\ w \in thread[a].known
  /\ ClaimAndStop(w)
  /\ UNCHANGED <<thread, ending, scope, member, kids, roster, undrained>>

-----------------------------------------------------------------------------
(* eliminate.rs: first_ready and its callers. *)

\* builtin_await, builtin_race (of two handles).  A thread names each handle
\* in one wait only: the bound that keeps a body finite.
Await(a, w) ==
  /\ "await" \in Ops /\ At(a, "body") /\ w \in thread[a].known
  /\ Move(a, [thread[a] EXCEPT !.pc = "poll", !.verb = "await", !.given = {w},
                               !.todo = {w}, !.known = @ \ {w}])
  /\ UNCHANGED <<handle, ending, struck, scope, member, kids, roster, undrained>>

Race(a, v, w) ==
  /\ "race" \in Ops /\ At(a, "body") /\ {v, w} \subseteq thread[a].known /\ v # w
  /\ Move(a, [thread[a] EXCEPT !.pc = "poll", !.verb = "race", !.given = {v, w},
                               !.todo = {v, w}, !.known = @ \ {v, w}])
  /\ UNCHANGED <<handle, ending, struck, scope, member, kids, roster, undrained>>

\* (A mistake: the last of the list left out.)
FinishedShort(t) == \A v, w \in t.todo : v = w
\* The handles an operation is at: a race looks at all it was given, the
\* others at the first in birth order.
Front(t) == IF t.verb = "race" THEN t.todo ELSE {w \in t.todo : \A v \in t.todo : w <= v}

Finished(t) == t.todo = {}
NextOne(t)  == [t EXCEPT !.todo = @ \ Front(t)]
Restart(t, pc, o) == [t EXCEPT !.pc = pc, !.out = o, !.todo = t.given]

\* What each caller of a wait does with its end: `await` concludes; `race`
\* stops and drains all it was given first; an owner's join goes to the next
\* child, or ends the brood; `outlive` (OTHER) leaves on its own poll only.
WaitEnds(t, o) ==
  CASE t.verb = "await"   -> Concluded(t, o)
    [] t.verb = "race"    -> Restart(t, "stop", o)
    [] t.verb = "exit"    -> IF o = "ok" THEN [NextOne(t) EXCEPT !.pc = "poll"]
                                         ELSE Restart(t, "stop", o)
    [] OTHER              -> IF o = "ok" THEN [NextOne(t) EXCEPT !.pc = "poll"]
                                         ELSE Restart(t, "base", o)

\* What a wait makes of an ending it claims: `outlive` drops it.
Met(t, o) == IF t.verb = "outlive" THEN "ok" ELSE o

\* (A mistake: a wait that does not poll its own scope.)
WaitPollDeaf(a) ==
  /\ At(a, "poll") /\ ~Finished(thread[a])
  /\ Move(a, [thread[a] EXCEPT !.pc = "sweep"])
  /\ UNCHANGED <<handle, ending, struck, scope, member, kids, roster, undrained>>

\* The poll that opens each round of first_ready.
WaitPoll(a) ==
  /\ At(a, "poll") /\ ~Finished(thread[a])
  /\ \/ ~Struck(a) /\ Move(a, [thread[a] EXCEPT !.pc = "sweep"])
     \/ \E c \in Causes : InForce(a, c) /\ Move(a, WaitEnds(thread[a], c))
  /\ UNCHANGED <<handle, ending, struck, scope, member, kids, roster, undrained>>

\* The sweep: a ready handle is claimed, and its ending met.  (The list is
\* read handle by handle: an earlier one may have become ready since.)
SweepClaim(a) ==
  /\ At(a, "sweep")
  /\ \E w \in Front(thread[a]) : /\ ClaimReady(w)
                                   /\ Move(a, WaitEnds(thread[a], Met(thread[a], ending[w])))
  /\ UNCHANGED <<ending, struck, scope, member, kids, roster, undrained>>

\* (A mistake: a handle claimed elsewhere is waited for like a running one.)
SweepNoneForever(a) ==
  /\ At(a, "sweep")
  /\ \A w \in Front(thread[a]) : handle[w] # "ready"
  /\ Move(a, [thread[a] EXCEPT !.pc = "poll"])
  /\ UNCHANGED <<handle, ending, struck, scope, member, kids, roster, undrained>>

\* None is ready: another round while one still runs, else every one of them
\* is another claimer's, which fails `await` and `race` and is nothing to a join.
SweepNone(a) ==
  /\ At(a, "sweep")
  /\ \A w \in Front(thread[a]) : handle[w] # "ready"
  /\ Move(a, IF \E w \in Front(thread[a]) : handle[w] = "running"
               THEN [thread[a] EXCEPT !.pc = "poll"]
               ELSE WaitEnds(thread[a], IF thread[a].verb \in {"await", "race"} THEN "err" ELSE "ok"))
  /\ UNCHANGED <<handle, ending, struck, scope, member, kids, roster, undrained>>

-----------------------------------------------------------------------------
(* birth.rs exit_brood and brood.rs ScopeOwner: how an owner ends. *)

\* ScopeOwner::close, the cradle being the outer one again from here on.
Close(o) ==
  /\ member' = [member EXCEPT ![o] = "closed"]
  /\ kids' = [kids EXCEPT ![o] = Pruned(kids[o])]

Exiting(a, pc) ==
  LET o == Head(thread[a].frames)
  IN /\ thread[a].frames # <<>>
     /\ Close(o)
     /\ Move(a, [thread[a] EXCEPT !.pc = pc, !.verb = "exit",
                                  !.given = Pruned(kids[o]), !.todo = Pruned(kids[o])])
     /\ UNCHANGED <<handle, ending, struck, scope, roster, undrained>>

\* The body of the innermost owner returns, and joins; or it halts, and stops.
ReturnExit(a) == At(a, "body") /\ Exiting(a, "poll")
HaltExit(a)   == At(a, "halt") /\ Exiting(a, "stop")

\* Every child was joined: on to the drain.
JoinDone(a) ==
  /\ At(a, "poll") /\ thread[a].verb = "exit" /\ Finished(thread[a])
  /\ Move(a, Restart(thread[a], "drain", "ok"))
  /\ UNCHANGED <<handle, ending, struck, scope, member, kids, roster, undrained>>

\* One claim_and_stop of ScopeOwner::stop, stop_and_drain or cancel_all.
StopOne(a) ==
  /\ At(a, "stop") /\ ~Finished(thread[a])
  /\ \E w \in Front(thread[a]) : /\ ClaimAndStop(w)
                                  /\ Move(a, [thread[a] EXCEPT !.todo = @ \ {w}])
  /\ UNCHANGED <<ending, scope, member, kids, roster, undrained>>

\* A panic unwinds through the owner's Drop, which does not wait.
Unwinding(t) == t.verb = "exit" /\ t.out = "panic"

StopDone(a) ==
  /\ At(a, "stop") /\ Finished(thread[a]) /\ ~Unwinding(thread[a])
  /\ Move(a, [thread[a] EXCEPT !.pc = "drain"])
  /\ UNCHANGED <<handle, ending, struck, scope, member, kids, roster, undrained>>

\* What follows an owner (a worker's base, or a gather), a race, the wipe (OTHER).
Left(a, t) ==
  CASE t.verb = "exit" /\ t.frames = <<a>> -> [Restart(t, "base", t.out) EXCEPT !.frames = <<>>, !.given = {}, !.todo = {},
                                                                !.known = {}]
    [] t.verb = "exit" /\ t.frames # <<a>> -> [Concluded(t, t.out) EXCEPT !.frames = Tail(@)]
    [] t.verb = "race"                     -> Concluded(t, t.out)
    [] OTHER                               -> [Idle EXCEPT !.pc = "done", !.verb = "wipe"]

\* (A mistake: a stopping worker counts as ended.)
DrainedOfRunning(t) == \A w \in t.given : handle[w] # "running"
\* wait_ended, and the registry's own drain: all have ended, or the grace ran out.
Drained(t) == \A w \in t.given : Ended(w)
Leave(a) ==
  /\ \/ At(a, "drain")
     \/ At(a, "stop") /\ Finished(thread[a]) /\ Unwinding(thread[a])
  /\ undrained' = IF thread[a].verb = "exit" /\ ~Drained(thread[a])
                    THEN undrained \cup {Head(thread[a].frames)} ELSE undrained
  /\ Move(a, Left(a, thread[a]))
  /\ UNCHANGED <<handle, ending, struck, scope, member, kids, roster>>

-----------------------------------------------------------------------------
(* Bases: a run's, a worker's, a stage's return clause. *)

\* run_framed: a returning last run first outlives the loose workers
\* (`outlive`: those not yet claimed, in birth order).
RunReturns ==
  /\ At(Main, "body") /\ thread[Main].frames = <<>>
  /\ \E l \in {{}, {w \in roster : scope[w] = {Root, w} /\ ~Claimed(w)}} :
       Move(Main, [thread[Main] EXCEPT !.pc = "poll", !.verb = "outlive", !.given = l, !.todo = l])
  /\ UNCHANGED <<handle, ending, struck, scope, member, kids, roster, undrained>>

OutliveDone ==
  /\ At(Main, "poll") /\ thread[Main].verb = "outlive" /\ Finished(thread[Main])
  /\ Move(Main, Restart(thread[Main], "base", "ok"))
  /\ UNCHANGED <<handle, ending, struck, scope, member, kids, roster, undrained>>

RunHalts ==
  /\ At(Main, "halt") /\ thread[Main].frames = <<>>
  /\ Move(Main, Restart(thread[Main], "base", thread[Main].out))
  /\ UNCHANGED <<handle, ending, struck, scope, member, kids, roster, undrained>>

StageEnds(s) ==
  /\ At(s, "body") \/ At(s, "halt")
  /\ thread[s].frames = <<>>
  /\ Move(s, [thread[s] EXCEPT !.pc = "done"])
  /\ UNCHANGED <<handle, ending, struck, scope, member, kids, roster, undrained>>

\* final_poll: a stop in force outranks a value, an error and a weaker stop.
Final(o, c) == IF o \in {"exit", "panic"} \/ (o \in Causes /\ Rank(o) > Rank(c)) THEN o ELSE c

\* convert_own_stop: a cancel made inside the session is the worker's error.
Switched(a, o) == IF a # Main /\ o = "cancelled" THEN "err" ELSE o

FinalPoll(a) ==
  /\ At(a, "base")
  /\ \/ ~Struck(a) /\ Move(a, [thread[a] EXCEPT !.pc = "settled", !.out = Switched(a, @)])
     \/ \E c \in Causes : /\ InForce(a, c)
                          /\ Move(a, [thread[a] EXCEPT !.pc = "settled", !.out = Switched(a, Final(@, c))])
  /\ UNCHANGED <<handle, ending, struck, scope, member, kids, roster, undrained>>

\* CompletionPermit::finish.
Publish(w) ==
  /\ At(w, "settled")
  /\ handle' = [handle EXCEPT ![w] = Published(@)]
  /\ ending' = [ending EXCEPT ![w] = thread[w].out]
  /\ Move(w, [Idle EXCEPT !.pc = "done"])
  /\ UNCHANGED <<struck, scope, member, kids, roster, undrained>>

\* The session ends, its owned roster drops: cancel_all takes every entry.
Wipe ==
  /\ "wipe" \in Ops /\ At(Main, "settled")
  /\ roster' = {}
  /\ Move(Main, [thread[Main] EXCEPT !.pc = "stop", !.verb = "wipe",
                                     !.given = Pruned(roster), !.todo = Pruned(roster)])
  /\ UNCHANGED <<handle, ending, struck, scope, member, kids, undrained>>

-----------------------------------------------------------------------------
(* The host: an interrupt strikes the run, SIGTERM the root. *)

Strike(n, c) ==
  /\ struck' = [struck EXCEPT ![n] = Stronger(@, c)]
  /\ UNCHANGED <<thread, handle, ending, scope, member, kids, roster, undrained>>

Interrupt == "interrupt" \in Ops /\ struck[Main] = "none" /\ ~At(Main, "done") /\ Strike(Main, "interrupted")
Terminate == "terminate" \in Ops /\ struck[Root] = "none" /\ ~At(Main, "done") /\ Strike(Root, "terminated")

Gone == /\ \A a \in Actors : thread[a].pc \in {"idle", "done"} \cup (IF "wipe" \in Ops THEN {} ELSE {"settled"})
        /\ UNCHANGED vars

Init ==
  /\ thread = [a \in Actors |-> IF a = Main THEN [Idle EXCEPT !.pc = "body"] ELSE Idle]
  /\ handle = [w \in Workers |-> "unborn"]
  /\ ending = [w \in Workers |-> "none"]
  /\ struck = [n \in Nodes |-> "none"]
  /\ scope = [x \in Actors \cup Gathers \cup {Session} |->
                CASE x = Session -> {Root} [] x = Main -> {Root, Main} [] OTHER -> {}]
  /\ member = [o \in Owners |-> "unused"]
  /\ kids = [o \in Owners |-> {}]
  /\ roster = {}
  /\ undrained = {}

Step(a) ==
  \/ \E w \in Workers : Spawn(a, w) \/ Cancel(a, w) \/ Await(a, w)
  \/ \E v, w \in Workers : Race(a, v, w)
  \/ \E g \in Gathers : OpenGather(a, g)
  \/ \E s \in Stages : Launch(a, s)
  \/ SpawnRefused(a) \/ Register(a) \/ Enrol(a)
  \/ PipeEnd(a) \/ Poll(a) \/ Break(a) \/ Catch(a)
  \/ WaitPoll(a) \/ SweepClaim(a) \/ SweepNone(a)
  \/ ReturnExit(a) \/ HaltExit(a) \/ JoinDone(a)
  \/ StopOne(a) \/ StopDone(a) \/ Leave(a) \/ FinalPoll(a)

Next ==
  \/ \E a \in Actors : Step(a)
  \/ \E s \in Stages : StageEnds(s)
  \/ \E w \in Workers : Publish(w)
  \/ RunReturns \/ OutliveDone \/ RunHalts \/ Wipe
  \/ Interrupt \/ Terminate \/ Gone

Spec == Init /\ [][Next]_vars

-----------------------------------------------------------------------------
(* Safety. *)

TypeOK ==
  /\ thread \in [Actors -> Thread]
  /\ handle \in [Workers -> HandleStates]
  /\ ending \in [Workers -> Outcomes \cup {"none"}]
  /\ struck \in [Nodes -> Flags]
  /\ scope \in [Actors \cup Gathers \cup {Session} -> SUBSET Nodes]
  /\ member \in [Owners -> {"unused", "open", "closed"}]
  /\ kids \in [Owners -> SUBSET Workers]
  /\ roster \in SUBSET Workers
  /\ undrained \in SUBSET Owners

\* A brood is left once it is closed and no thread is inside it any more.
Inside(o) == \E a \in Actors : o \in Elems(thread[a].frames)
HasEnded(o)  == member[o] = "closed" /\ ~Inside(o)

\* A birth always finds the brood it hangs under still open: a thread that
\* shares a cradle (a stage) is done before the cradle's owner closes it, so
\* the refusal in Brood::enrol never happens.
BirthsFindOwnerOpen ==
  \A a \in Actors : thread[a].pc \in {"register", "enrol"} /\ Cradle(a) # Session
                      => member[Cradle(a)] = "open"

\* However an owner ended (return, halt, panic, grace gone), no child it
\* accepted is left to itself: each was claimed by someone.
NoChildUnclaimed ==
  \A o \in Owners : HasEnded(o) => \A w \in kids[o] : Claimed(w)

\* Nothing a scope started outlives it: a live worker under the node of a
\* worker, stage or run that is over is there only because some owner
\* between them gave up its drain or unwound in a panic.
Over(p) == At(p, "done") \/ (p = Main /\ (At(p, "settled") \/ thread[p].verb = "wipe"))
OwnersOf(w) == {o \in Owners : o \in scope[w] \/ \E x \in scope[w] : x \in kids[o]}
NothingOutlives ==
  \A w \in Workers : Live(w) =>
    \A p \in scope[w] \ {Root, w} : Over(p) => OwnersOf(w) \cap undrained # {}

\* The worker cap bounds the live threads, whatever births race: until the
\* wipe forgets its entries, no more workers live than there are seats.
LiveWithinCap ==
  thread[Main].verb # "wipe" => Cardinality({w \in Workers : Live(w)}) <= Cap

\* Once the wipe's sweep is over, no live worker is without a stop in force,
\* one whose birth was in flight and missed the sweep included.
WipeReachesAll ==
  thread[Main].verb = "wipe" /\ thread[Main].pc \in {"drain", "done"}
    => \A w \in Workers : Live(w) => Struck(w)

\* A handle only moves forward, and a result claimed while its worker still
\* ran is never handed to anyone: stopping leads to consumed, never to ready.
Onward == [unborn |-> {"running"}, running |-> {"stopping", "ready"},
           stopping |-> {"consumed"}, ready |-> {"consumed"}, consumed |-> {}]
HandleMovesOnward ==
  [][\A w \in Workers : handle'[w] # handle[w] => handle'[w] \in Onward[handle[w]]]_vars

-----------------------------------------------------------------------------
(* Liveness.  Every thread that has a step of its own to take takes it; a   *)
(* body need not ever end, but polls at each of its steps.                  *)

Progress(a) ==
  \/ Register(a) \/ Enrol(a) \/ PipeEnd(a)
  \/ WaitPoll(a) \/ SweepClaim(a) \/ SweepNone(a)
  \/ HaltExit(a) \/ JoinDone(a) \/ StopOne(a) \/ StopDone(a) \/ Leave(a)
  \/ FinalPoll(a)
  \/ a \in Workers /\ Publish(a)
  \/ a \in Stages /\ At(a, "halt") /\ StageEnds(a)
  \/ a = Main /\ (OutliveDone \/ RunHalts \/ Wipe)

Fairness == \A a \in Actors : WF_vars(Progress(a)) /\ SF_vars(Poll(a))
FairSpec == Spec /\ Fairness

\* Bodies that end on their own: no worker serves for ever.
BodyEnds(a) == \/ ReturnExit(a)
               \/ a \in Stages /\ At(a, "body") /\ StageEnds(a)
               \/ a = Main /\ RunReturns
TerminatingSpec == FairSpec /\ \A a \in Actors : WF_vars(BodyEnds(a))

\* A stop reaches all it should: `cancel $h` everything $h started, so that
\* each worker under a stopped one ends, whoever was waiting for whom; SIGTERM
\* on the root the run and every worker.
StopsReachAll ==
  /\ \A v, w \in Workers : (handle[w] = "stopping" /\ w \in scope[v] /\ Live(v)) ~> Ended(v)
  /\ (struck[Root] = "terminated") ~> (\A a \in Actors : At(a, "idle") \/ Over(a))

\* With bodies that end, no circle of joins, awaits and drains is ever
\* closed: every worker born ends.
EveryWorkerEnds == \A w \in Workers : Live(w) ~> Ended(w)

=============================================================================
