------------------------------ MODULE Collector ------------------------------
(* A pipeline from its launch to its verdict: PipeNode in                    *)
(* shell/exec/pipeline.rs and CollectState in pipeline/collect.rs, with the  *)
(* stages' handles, threads and edges.  Stages end in any order, of          *)
(* themselves, at a write to an edge whose reader is gone, or as the         *)
(* collector strikes, signals and kills them; the verdict folds afterwards.  *)
EXTENDS Naturals, Sequences

CONSTANTS Length,    \* bound: stages in the pipeline
          Kinds,     \* what a stage may be: "thread", written in ral, or "external"
          Above,     \* the causes that may be struck on the launcher's scope
          Ops        \* what else may happen: "refuse", "unwind", "anchor", "key"

Stages == 1..Length
None == 0   \* no cause
ReaderGone  == 1
Interrupted == 2
Cancelled   == 3
TimedOut    == 4
Terminated  == 5
Aborted     == 6
Causes == ReaderGone..Aborted

ASSUME PipelineAssumption == /\ Length \in Nat \ {0} /\ Kinds \subseteq {"thread", "external"} /\ Above \subseteq Causes
                             /\ Ops \subseteq {"refuse", "unwind", "anchor", "key"}

VARIABLES
  pc,        \* where the run's thread is in PipeNode::run
  stage,     \* each stage: its handle, its process or thread, its edge
  scope,     \* the strongest cause on the launcher's scope
  queue,     \* the channel of events
  teardown,  \* CollectState::teardown
  pressed,   \* the key the loan has heard
  anchor,    \* the anchor's process: up, told of a key, dead, ended
  launched,  \* whether every stage was launched
  verdict    \* the fold: [at (the next stage), panic, held (a rank and its stage)]

vars == <<pc, stage, scope, queue, teardown, pressed, anchor, launched, verdict>>

-----------------------------------------------------------------------------
(* Stages.  handle: unborn, live, filed.  end: how it ended, with the cause  *)
(* and, of a stop, whether it names the stage's own node, a node above, or   *)
(* nobody.  sent: what the collector wrote on it; a thread's node holds that *)
(* too.  sigs: signals delivered.  edge: its outbound one.  wrote: a write   *)
(* the sentinel hears.                                                       *)

End(what, cause, owner) == [what |-> what, cause |-> cause, owner |-> owner]
Running == End("running", None, "nobody")
Own(what) == End(what, None, "nobody")
Death(sig) == End(sig, None, "nobody")
Signals == {"INT", "TERM", "KILL"}

External(i) == stage[i].kind = "external"
Thread(i) == stage[i].kind = "thread"
Live(i) == i \in Stages /\ stage[i].handle = "live"
Runs(i) == Live(i) /\ stage[i].end = Running
AnyLive == \E i \in Stages : Live(i)
AnyThread == \E i \in Stages : Live(i) /\ Thread(i)

Stronger(a, b) == IF a >= b THEN a ELSE b

\* signal.rs: what opens a teardown, and every signal a death by which is the cause's.
GraceSignal(c) == CASE c = Interrupted -> "INT"
                    [] c \in {Cancelled, TimedOut, Terminated} -> "TERM"
                    [] OTHER -> "none"
SignalsOf(c) == {"KILL", GraceSignal(c)}

\* StageHandle::cancel
Sent(s, c) == [s EXCEPT !.sent = Stronger(@, c)]
\* StageHandle::cut
Cut(i) == LET s == Sent(stage[i], ReaderGone)
          IN  [stage EXCEPT ![i] = IF External(i) THEN [s EXCEPT !.sigs = @ \cup {"KILL"}] ELSE s]
Deliver(st, sig) == [i \in Stages |-> IF External(i) /\ st[i].handle = "live"
                                      THEN [st[i] EXCEPT !.sigs = @ \cup {sig}] ELSE st[i]]
KillLive(st) == Deliver(st, "KILL")

\* abandoned, sweep_edges, StageHandle::listen: an edge whose reader is filed
\* or never came is listened to and, outside a teardown, dead.
\* (A mistake: looks at the neighbour on the other side.)
AbandonedBefore(st) == {i \in Stages : st[i].handle = "live" /\ (i - 1 \in Stages => st[i - 1].handle # "live")}
Abandoned(st) == {i \in Stages : st[i].handle = "live" /\ (i + 1 \in Stages => st[i + 1].handle # "live")}
Swept(st, t) ==
  [i \in Stages |->
     IF i \notin Abandoned(st) \/ i = Length THEN st[i]
     ELSE [st[i] EXCEPT !.edge = IF t = None \/ @ = "dead" THEN "dead" ELSE "heard"]]

Post(event) == queue' = Append(queue, event)
Event(what, i) == [what |-> what, ix |-> i]

Ends(i, e) == /\ stage' = [stage EXCEPT ![i].end = e]
              /\ Post(Event("ended", i))
              /\ UNCHANGED <<pc, scope, teardown, pressed, anchor, launched, verdict>>

\* A stage's end of itself; the last one's standard output may have closed,
\* which stops it in nobody's name.
EndsOfItself(i) ==
  /\ Runs(i)
  /\ External(i) => "KILL" \notin stage[i].sigs
  /\ \/ \E what \in IF External(i) THEN {"ok", "err"} ELSE {"ok", "err", "exit", "panic"} : Ends(i, Own(what))
     \/ i = Length /\ Thread(i) /\ Ends(i, End("stop", ReaderGone, "nobody"))

\* An external dies by a signal it was sent; others it may outlive.
Dies(i) == /\ Runs(i)
           /\ \E sig \in stage[i].sigs : ("KILL" \in stage[i].sigs => sig = "KILL") /\ Ends(i, Death(sig))

\* A thread's poll: the strongest cause on its chain, named for the outermost
\* node that has it.
Polls(i) == /\ Runs(i) /\ Thread(i)
            /\ Stronger(scope, stage[i].sent) # None
            /\ Ends(i, IF scope >= stage[i].sent THEN End("stop", scope, "above")
                                                 ELSE End("stop", stage[i].sent, "stage"))

\* A thread's write to a dead edge.
WritesDead(i) == /\ Runs(i) /\ Thread(i) /\ stage[i].edge = "dead"
                 /\ Ends(i, End("stop", ReaderGone, "stage"))

\* sentinel.rs: a write, by an external or by what a thread started, past what
\* the reader was owed; and the report of it, which may come late.
Writes(i) == /\ Runs(i) /\ stage[i].edge # "held" /\ stage[i].wrote = "no"
             /\ stage' = [stage EXCEPT ![i].wrote = "heard"]
             /\ UNCHANGED <<pc, scope, queue, teardown, pressed, anchor, launched, verdict>>
Reports(i) == /\ stage[i].wrote = "heard"
              /\ stage' = [stage EXCEPT ![i].wrote = "told"]
              /\ Post(Event("wrote", i))
              /\ UNCHANGED <<pc, scope, teardown, pressed, anchor, launched, verdict>>

-----------------------------------------------------------------------------
(* What comes from outside. *)

Struck == \E c \in Above : /\ c > scope /\ pc # "done" /\ scope' = c
                           /\ UNCHANGED <<pc, stage, queue, teardown, pressed, anchor, launched, verdict>>

\* A key on the terminal that was lent: the kernel signals the whole group.
Key == /\ "key" \in Ops /\ anchor = "up" /\ pressed = None
       /\ \A n \in DOMAIN queue : queue[n].what # "heard"
       /\ stage' = Deliver(stage, "INT")
       /\ anchor' = "told"
       /\ UNCHANGED <<pc, scope, queue, teardown, pressed, launched, verdict>>
\* report_signal, read_anchor_reports: it swallows the signal and reports it,
\* which may come after the ends of those that the signal killed.
AnchorReports == /\ anchor = "told"
                 /\ anchor' = "up" /\ Post(Event("heard", 0))
                 /\ UNCHANGED <<pc, stage, scope, teardown, pressed, launched, verdict>>
\* anchor_death
AnchorDies == /\ "anchor" \in Ops /\ anchor = "up"
              /\ anchor' = "dead" /\ Post(Event("anchor", 0))
              /\ UNCHANGED <<pc, stage, scope, teardown, pressed, launched, verdict>>

-----------------------------------------------------------------------------
(* The launch. *)

StruckAll(st, c) == [i \in Stages |-> IF st[i].handle = "live" THEN Sent(st[i], c) ELSE st[i]]

\* cancel_all, from a drive or a rollback: escalate, the grace signal unless
\* the terminal delivered it, and on to the first wait it is due.
TearDown(st, c) ==
  LET told == StruckAll(st, c)
      signals == GraceSignal(c) # "none" /\ pressed < c
      opened == IF signals THEN Deliver(told, GraceSignal(c)) ELSE told
  IN  /\ teardown' = c
      \* The anchor is a member of the group; a loan takes its INT for a key.
      /\ anchor' = IF signals /\ GraceSignal(c) = "INT" /\ anchor = "up" /\ "key" \in Ops
                   THEN "told" ELSE anchor
      /\ \/ GraceSignal(c) # "none" /\ pc' = "grace" /\ stage' = Swept(opened, c)
         \/ GraceSignal(c) = "none" /\ c # Aborted /\ pc' = "threads" /\ stage' = Swept(told, c)
         \/ c = Aborted /\ pc' = "drain" /\ stage' = Swept(KillLive(told), c)

\* Each stage in turn, after a poll.
Launch(i) ==
  /\ pc = "launch" /\ scope = None
  /\ stage[i].handle = "unborn" /\ (i > 1 => stage[i - 1].handle # "unborn")
  /\ LET st == [stage EXCEPT ![i].handle = "live", ![i].end = Running]
     IN  IF i = Length THEN pc' = "drive" /\ stage' = Swept(st, teardown)
                       ELSE stage' = st /\ UNCHANGED pc
  /\ UNCHANGED <<scope, queue, teardown, pressed, anchor, launched, verdict>>

\* The first that fails ends the launch: roll_back.
LaunchFails ==
  /\ pc = "launch" /\ (scope # None \/ "refuse" \in Ops)
  /\ launched' = FALSE
  /\ IF AnyLive THEN TearDown(stage, IF scope = None THEN Cancelled ELSE scope)
                ELSE pc' = "drive" /\ UNCHANGED <<stage, teardown, anchor>>
  /\ UNCHANGED <<scope, queue, pressed, verdict>>

-----------------------------------------------------------------------------
(* The collector: drive, and the waits of a teardown, which are drain_while   *)
(* with a deadline ("grace", "threads") and without ("drain").               *)

Waits == \/ pc \in {"drive", "drain"} /\ AnyLive
         \/ pc = "grace" /\ AnyLive /\ teardown # Aborted
         \/ pc = "threads" /\ AnyThread /\ teardown # Aborted

\* What follows from an effect: a drive tears down, a drain escalates.
Pursue(st, c) ==
  IF c <= teardown THEN stage' = Swept(st, teardown) /\ UNCHANGED <<pc, teardown, anchor>>
  ELSE IF pc = "drive" THEN TearDown(st, c)
  ELSE teardown' = c /\ stage' = Swept(StruckAll(st, c), c) /\ UNCHANGED <<pc, anchor>>

\* recv: a cause on the scope above the teardown comes before any event.
Notices == /\ Waits /\ scope > teardown
           /\ Pursue(stage, scope)
           /\ UNCHANGED <<scope, queue, pressed, launched, verdict>>

\* StageObservation::panicked, tears_down_for
TearsDownFor(e) == CASE e.what = "panic" -> Aborted
                     [] e.what = "exit"  -> Cancelled
                     [] e.what = "stop" /\ e.owner # "stage" -> e.cause
                     [] OTHER -> None

Takes(what) == Waits /\ scope <= teardown /\ queue # <<>> /\ Head(queue).what = what /\ queue' = Tail(queue)

Files == /\ Takes("ended")
         /\ LET i == Head(queue).ix
            IN  Pursue([stage EXCEPT ![i].handle = "filed"], TearsDownFor(stage[i].end))
         /\ UNCHANGED <<scope, pressed, launched, verdict>>

\* on_wrote, KillStage: news of a stage that is filed, or that comes in a
\* teardown, is dropped.
HearsWrite == /\ Takes("wrote")
              /\ LET i == Head(queue).ix
                 IN  stage' = Swept(IF pc = "drive" /\ Live(i) THEN Cut(i) ELSE stage, teardown)
              /\ UNCHANGED <<pc, scope, teardown, pressed, anchor, launched, verdict>>

AnchorDied == /\ Takes("anchor")
              /\ Pursue(stage, IF teardown = None THEN Terminated ELSE None)
              /\ UNCHANGED <<scope, pressed, launched, verdict>>

\* TerminalLoan::hear
Heard == /\ Takes("heard")
         /\ pressed' = Interrupted /\ scope' = Stronger(scope, Interrupted)
         /\ stage' = Swept(stage, teardown)
         /\ UNCHANGED <<pc, teardown, anchor, launched, verdict>>

\* A bounded wait is over: its deadline has passed, nobody is left, or Aborted.
GraceOver == /\ pc = "grace"
             /\ IF teardown < Aborted THEN pc' = "threads" /\ UNCHANGED stage
                                      ELSE pc' = "drain" /\ stage' = KillLive(stage)
             /\ UNCHANGED <<scope, queue, teardown, pressed, anchor, launched, verdict>>
\* (A mistake: takes every stage to have died of the grace signal.)
ThreadsOverSpared == /\ pc = "threads" /\ pc' = "drain"
                     /\ UNCHANGED <<stage, scope, queue, teardown, pressed, anchor, launched, verdict>>
ThreadsOver == /\ pc = "threads"
               /\ pc' = "drain" /\ stage' = KillLive(stage)
               /\ UNCHANGED <<scope, queue, teardown, pressed, anchor, launched, verdict>>

\* (A mistake: what the anchor still reported is lost.)
JoinsDeaf == /\ pc \in {"drive", "drain"} /\ ~AnyLive
             /\ pc' = "fold" /\ anchor' = "ended" /\ queue' = <<>>
             /\ UNCHANGED <<stage, scope, teardown, pressed, launched, verdict>>
\* join: every stage observed, the anchor is ended, and what it still reported
\* is heard (hear_out).
Joins == /\ pc \in {"drive", "drain"} /\ ~AnyLive
         /\ pc' = "fold" /\ anchor' = "ended" /\ queue' = <<>>
         /\ IF anchor = "told" \/ \E n \in DOMAIN queue : queue[n].what = "heard"
            THEN pressed' = Interrupted /\ scope' = Stronger(scope, Interrupted)
            ELSE UNCHANGED <<pressed, scope>>
         /\ UNCHANGED <<stage, teardown, launched, verdict>>

\* A collector dropped by an unwind: CollectState::drop, then each stage's own,
\* which waits for a thread.
Unwinds == /\ "unwind" \in Ops /\ pc \in {"launch", "drive"}
           /\ pc' = "unwinding"
           /\ teardown' = IF AnyLive THEN Stronger(teardown, Terminated) ELSE teardown
           /\ stage' = KillLive(StruckAll(stage, Terminated))
           /\ UNCHANGED <<scope, queue, pressed, anchor, launched, verdict>>
Dropped == /\ pc = "unwinding" /\ \A i \in Stages : ~(Runs(i) /\ Thread(i))
           /\ pc' = "dropped" /\ anchor' = "ended"
           /\ UNCHANGED <<stage, scope, queue, teardown, pressed, launched, verdict>>

-----------------------------------------------------------------------------
(* The fold, in launch order.  Ranks are one above the code's; 0 is no break. *)

FailureRank == 2
ExitRank == 3
StopRank(c) == 4 + c

\* finish_external_settlement, WaitOutcome::classify, Break::cancelled
ExternalBreak(s) ==
  LET cause == Stronger(s.sent, IF scope = ReaderGone THEN None ELSE scope)
  IN  CASE s.end.what = "ok"  -> 0
        [] s.end.what = "err" -> FailureRank
        [] OTHER ->
             IF cause = None \/ s.end.what \notin SignalsOf(cause) THEN FailureRank
             ELSE IF s.sent = cause THEN 0 ELSE StopRank(scope)

\* StageEnd::settle for a thread, and rank
ThreadBreak(e) ==
  LET stopped == e.what = "stop" /\ e.owner # "stage"
      quiet == e.owner = "above" /\ e.cause = ReaderGone
  IN  CASE e.what = "err"  -> FailureRank
        [] e.what = "exit" -> ExitRank
        [] stopped /\ quiet -> 1
        [] stopped /\ ~quiet -> StopRank(e.cause)
        [] OTHER -> 0

Folds == /\ pc = "fold" /\ verdict.at <= Length
         /\ LET s == stage[verdict.at]
                br == IF s.handle = "unborn" THEN 0
                      ELSE IF External(verdict.at) THEN ExternalBreak(s) ELSE ThreadBreak(s.end)
            IN  verdict' = [at |-> verdict.at + 1,
                            panic |-> verdict.panic \/ s.end.what = "panic",
                            held |-> Stronger(verdict.held, br)]
         /\ UNCHANGED <<pc, stage, scope, queue, teardown, pressed, anchor, launched>>

\* A panic goes on unwinding; else a teardown is the verdict if no stage broke.
Concludes == /\ pc = "fold" /\ verdict.at > Length
             /\ pc' = "done"
             /\ verdict' = [verdict EXCEPT !.held = IF teardown # None /\ @ = 0 /\ ~verdict.panic THEN StopRank(teardown) ELSE @]
             /\ UNCHANGED <<stage, scope, queue, teardown, pressed, anchor, launched>>

Final == pc \in {"done", "dropped"}
Gone == Final /\ UNCHANGED vars

-----------------------------------------------------------------------------

Init == /\ pc = "launch"
        /\ \E kinds \in [Stages -> Kinds] :
             stage = [i \in Stages |-> [kind |-> kinds[i], handle |-> "unborn", end |-> Own("none"),
                                        sent |-> None, sigs |-> {}, edge |-> "held", wrote |-> "no"]]
        /\ scope = None /\ queue = <<>> /\ teardown = None /\ pressed = None
        /\ anchor = "up" /\ launched = TRUE
        /\ verdict = [at |-> 1, panic |-> FALSE, held |-> 0]

Collects == \/ \E i \in Stages : Launch(i)
            \/ LaunchFails \/ Notices \/ Files \/ HearsWrite \/ AnchorDied \/ Heard
            \/ GraceOver \/ ThreadsOver \/ Joins \/ Dropped \/ Folds \/ Concludes

Next == \/ Collects \/ Unwinds \/ Struck \/ Key \/ AnchorReports \/ AnchorDies \/ Gone
        \/ \E i \in Stages : \/ EndsOfItself(i) \/ Dies(i) \/ Polls(i)
                             \/ WritesDead(i) \/ Writes(i) \/ Reports(i)

Spec == Init /\ [][Next]_vars

\* The run's thread goes on; a struck thread polls, a shielded one once its
\* grace is over; a kill kills.
FairSpec == /\ Spec /\ WF_vars(Collects)
            /\ \A i \in Stages : WF_vars(Polls(i)) /\ WF_vars("KILL" \in stage[i].sigs /\ Dies(i))

-----------------------------------------------------------------------------
(* Properties. *)

Cause == {None} \cup Causes
Ending == [what : {"none", "running", "ok", "err", "exit", "panic", "stop"} \cup Signals,
           cause : Cause, owner : {"stage", "above", "nobody"}]
Handle == [kind : Kinds, handle : {"unborn", "live", "filed"}, end : Ending, sent : Cause,
           sigs : SUBSET Signals, edge : {"held", "heard", "dead"}, wrote : {"no", "heard", "told"}]
Events == [what : {"ended", "wrote"}, ix : Stages] \cup [what : {"heard", "anchor"}, ix : {0}]

TypeOK ==
  /\ pc \in {"launch", "drive", "grace", "threads", "drain", "fold", "done", "unwinding", "dropped"}
  /\ stage \in [Stages -> Handle]
  /\ queue \in Seq(Events)
  /\ scope \in Cause /\ teardown \in Cause /\ pressed \in Cause
  /\ anchor \in {"up", "told", "dead", "ended"}
  /\ launched \in BOOLEAN
  /\ verdict \in [at : Nat \ {0}, panic : BOOLEAN, held : Nat]

\* What a stage broke with of its own, or for a cause above the pipeline.
Halt(i) == LET e == stage[i].end
           IN  IF stage[i].handle = "unborn" \/ e.what \in Signals THEN 0 ELSE ThreadBreak(e)

\* The signal that killed a stage is one that no cause in force sends any more.
Outgrown(i) == \/ stage[i].end.what = "INT" /\ Stronger(scope, stage[i].sent) > Interrupted
               \/ stage[i].end.what = "TERM" /\ Stronger(scope, stage[i].sent) = Aborted

\* The verdict is none but what some stage, or some cause, earned, and none
\* they earned is lost, in whichever order the stages ended: a panic goes on,
\* no halt is displaced, a teardown is never forgotten; no death the collector
\* brought about, or a key it heard of, is a failure, unless a stronger cause
\* has come since; and nobody is stopped for a cause that was not struck.
VerdictIsEarned ==
  pc = "done" /\ launched =>
    /\ verdict.panic <=> \E i \in Stages : stage[i].end.what = "panic"
    /\ \A i \in Stages : verdict.held >= Halt(i)
    /\ verdict.held = 0 => teardown = None \/ verdict.panic
    /\ verdict.held = FailureRank => \E i \in Stages : stage[i].end.what = "err" \/ Outgrown(i)
    /\ verdict.held = ExitRank => \E i \in Stages : Halt(i) = ExitRank
    /\ verdict.held > StopRank(None) => \/ \E i \in Stages : Halt(i) = verdict.held
                                        \/ verdict.held <= StopRank(scope)
                                        \/ verdict.held = StopRank(Terminated) /\ "anchor" \in Ops

\* A stage is cut for its reader's absence, outside a teardown, only if the
\* reader has been filed and the stage was heard to write: `!{ echo a; exit 3 }
\* | head -1` stays honest.
CutsAreOwed ==
  [][\A i \in Stages : stage[i].sent = None /\ stage'[i].sent = ReaderGone /\ teardown' = None
        => i < Length /\ stage[i + 1].handle = "filed" /\ stage[i].wrote = "told"]_vars

\* A cause that reaches a pipeline, from above it, out of a stage, by the death
\* of its anchor or by an unwind, ends it, with no stage left running.
PipelineEnds ==
  scope # None \/ teardown # None ~> Final /\ \A i \in Stages : stage[i].end # Running
=============================================================================
