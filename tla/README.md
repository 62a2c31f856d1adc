# A TLA+ development of ral

ral is a shell language, an agent host built on it (`exarch`), and the services
around them. This directory models the parts whose correctness rests on the order
in which things happen: threads, signals and deadlines in the core; requests across a
wire that may be cut; a transcript that a crash may cut; agents that start, tell, stop
and join each other. It is written from the source under `src/`; the documents under
`docs/ral-wiki` served to find out what the source is meant to keep.

## 1. Inventory

What each part keeps, what it does, what is hard in it and what makes it right.
The status of each is also in `PROJECT.json`.

| Part | State | Operations | Hard because | Right if | Status |
|---|---|---|---|---|---|
| Workers and gathers (`core/src/shell/runtime/handle*`, `builtins/concurrency`) | a handle's state under its lock; an owner's membership; a thread's cradle | spawn, await, race, cancel, the exit rule of a gather and of a worker | births, claims and exits on several threads, panics | no child is left to itself; nothing outlives the scope it was born in | partly: buffers and observers are left |
| Worker registry (`runtime/state/workers.rs`) | entries, seats reserved, epochs | reserve, register, wipe, retention | a birth is between its seat and its entry | the cap holds; a wipe reaches the births in flight | partly: retention is left |
| Cancellation scopes (`process/cancel.rs`) | a tree of nodes: flag, instant, shield | strike, child, shielded, poll | a lock-free walk; a strike in two writes | a poll tells a cause that was in force meanwhile; a shield delays and never swallows | modelled |
| Ambient causes (`process/cancel.rs`, `process/reaper/unix.rs`) | counters, high-water marks, a self-pipe | raise, kick, scan, register, drop | signal handlers; scans overtake each other | each cause reaches whom it is for, once | modelled |
| Deadlines (`process/deadline.rs`) | a heap, flags, a daemon | arm, disarm, keep, drop, fire | the race for the flag | the last poll of a run knows what its wall did | modelled |
| Run spine (`shell/run*`) | a run's scope, wall and frame | frame, poll, settle | its wall against its verdict | the ending named is the one that happened | partly: the frame's loans are left |
| Abstract machine (`shell/evaluator/machine.rs`) | focus and frames | one step at a time | frames undone by values, halts and panics | the Gather and Try rules keep the exit rule | partly: those rules only |
| Pipelines (`shell/exec/pipeline`) | a slot per stage, the collector's state | launch, observe, cancel, collect | stages settle in any order | one verdict, every stage stopped and joined | partly: a pipeline that owns its group |
| Process groups, jobs, launch, ownership cells (`process/`) | pids watched, the foreground lease, the spawn lock | watch, reap, signal | SIGCHLD, pid reuse | no signal to a pid that is not ours | not modelled |
| Carrier and engine protocol (`core/src/carrier`, `engine.rs`) | parked enquiries, a dispatch in flight, scopes, a severance | dispatch, probe, enquire, answer, strike, detach, sever | two ends, one of which dies | each caller hears once, and the truth | partly: the wire transport |
| Record and context (`exarch/src/record`) | an append-only log and its fold | admit, evict, rewind, fork, resume | a crash between two records | the context sent is always a legal request | partly: the transcript |
| Bus and mailbox (`exarch/src/bus`) | a queue, a job, what is owed | post, take, stop, report | agents rest and end while mail comes | no notice lost, none answered twice | partly: posts, jobs, reports |
| Agents (`exarch/src/agent`) | nursery, lives, an exchange | attend, spawn, join, dismiss, clear, teardown | helpers end as their parents do | no agent left behind, none joined for ever | partly |
| Providers, schedules, enquiries (`exarch/src`) | attempts, timers | retry, re-arm, answer | cancel against answer | one answer; a schedule fires once per instant | not modelled |
| Network gate, machine broker, virtual machines | a ledger, pipes, disks | admit, record, sweep | a failure closes the gate | nothing passes unrecorded | not modelled |
| Authority: grants, policy, guard | a stack of grants | meet, check | an algebra, not an interleaving | a meet never widens | not modelled |
| Front end, type checker, values, io, user interfaces, sandboxes, tooling | terms, screens, operating-system calls | | sequential, or not ours to model | | not modelled |

How the modelled parts meet. A run (`run_framed`) has a scope node under the session's
root, and perhaps a wall: a deadline that strikes its node. Its body is a machine
whose steps poll the innermost scope. A `spawn` takes a seat in the registry, hangs
a new node under the cradle of its thread, starts the worker's thread, files the
handle and enrols it with the cradle's owner: a `gather` form, or the worker whose
body it is. An owner that ends closes its membership, joins its children or stops
them, and drains. A pipeline's stages are threads, each with a node of its own under the run's, and
external processes in one group; its collector hears their ends on one channel, strikes,
signals and kills what is left of them, and folds one verdict. A host hears interrupts and shutdown requests through the ambient
listeners and strikes the run's node or the root.

An agent's tool calls are runs it dispatches to an engine, in this process or behind
a wire. A front has one request in flight; the engine's session thread takes frames and its
worker thread runs. A strike crosses the wire as a frame and lands on the run's
scope; a run that wants something of its host parks an enquiry and waits.

Each agent attends on a thread of its own: it reads what its helpers owe, takes the
next item of its mailbox, deliberates over it with its provider and its tools, records
each step, and rests. A helper reports into its parent's mailbox, and its thread is joined through
its parent's nursery. Whatever an agent says or is told becomes a record; the context
a provider is sent is a fold of these records, which `/rewind`, eviction and `/clear` rewrite by
further records, and from which a helper's own record may be forked by a link.

## 2. Modules

### The core's threads, signals and deadlines

`Gather.tla`: threads, handles, scopes, broods and the roster.

* `thread[a]` is the control state of one thread: the run's (`Main`), a worker's or a
  stage's. `pc` says where it is between two critical sections; `frames` are its
  `Frame::Gather`s with, at the bottom, a worker's own `ScopeOwner`; `given` and `todo`
  are the handles of the wait, stop or drain it is in. A worker's, a gather's and a
  race's ways through join, stop and drain are the same actions (`WaitPoll`,
  `SweepClaim`, `SweepNone`, `StopOne`, `StopDone`, `Leave`), as `first_ready` and
  `stop_and_drain` are the same functions, told apart by `verb`.
* `handle[w]` is `HandleState`, `ending[w]` what the worker published.
* `scope[x]` is the chain of nodes that `x` polls, `struck[n]` the flag of a node. The
  fold of a chain with its shields is a module of its own, `Scopes`; here a chain is a
  set and the cause in force the strongest flag in it.
* `member`, `kids` are the two fields of `Membership`; `roster` the registry's entries.
  A seat reserved is a thread at `register`.
* `undrained` is history: the owners that left with children alive (grace or panic).

`Scopes.tla` is one chain of the scope tree: `resolve` as a fold that a poll takes node
by node, with the two writes of a strike and the clock between. It is separate since
a worker's correctness needs only the strongest flag, and a chain needs no workers.

`Deadline.tla` is the daemon and its callers, with the last poll of a run that has a
wall. `locked` says that the daemon has the heap's lock: it takes it (`Lock`), looks (`Peek`),
and gives it up on popping an entry or as its wait begins (`Doze`); a caller's `Push` needs it
free. A callback that arms a deadline does so on the daemon's thread, which goes on only
when that `arm` is through (`Fire`, `Rearmed`): were the lock kept while firing, that `Push`
would wait for the daemon and the daemon for it, which TLC reports as a deadlock, or as
`DeadlinesConclude` broken when not asked for deadlocks. `Ambient.tla` is the road from a signal handler to a host's callback.

`Collector.tla` is one pipeline from its launch to its verdict.

* `pc` is where the run's thread is in `PipeNode::run`: the launch, `drive`, the waits of
  `cancel_all` (`grace`, `threads`, `drain`), the fold, or an unwind through the Drops.
* `stage[i]` is a stage's handle with what was sent to it, its process or thread and how it
  ended, the signals it was delivered, the fate of its outbound edge (`held`, `heard` by a sentinel,
  `dead`) and a write the sentinel hears. `queue` is the channel of events.
* `scope` is the strongest cause on the run's scope; `teardown` and `pressed` are the fields of
  that name, of the collector and of the terminal's loan; `anchor` is the anchor's process.
* `verdict` is the fold: a rank, as `rank` has it, of the strongest break so far.

### The wire

`Requests.tla` is what the carrier promises a caller, in four variables: requests asked,
done, concluded and how, and whether the connection is known to be cut. `Wire.tla` is
how it keeps the promise, and `KeepsPromise` the refinement
(`asked <- front.id, done <- ran, cut <- severed`).

* `net` is the socket: the frames under way each way, and `shut`. Frames keep their order;
  a write into a socket that is shut is lost and, on the front, latches the severance.
* `front` is the thread in `dispatch_to_report`, `probe`, `await_attached` or `end`; `mail`
  the event channel with the reader that fills it; `session` `SessionState`; `signal` another
  thread's `interrupt`, between its load of the id in flight and its write.
* `engine` is `engine_session`'s reading thread with the busy flag (`busy`, by the id that
  claimed it), the one queued piece of work and the write fault; `scopes` is `Scopes` of
  `engine.rs`; `worker` the engine's thread of work; `parks` the table of parked enquiries.
* `told`, `outcome` and `ran` are history.

### exarch

`Turns.tla` is one session's transcript with its author.

* `log` is `record.jsonl` without what other seams write; `ctx` is `Context`: the turns with
  their locations and addresses, the evictions, the automaton's state. `Judge` and `Step`
  are `judge` and `step_transcript`, with `CutHolds`, `Evict`, `Withdraw`, `Install` and the
  rest of `table.rs` as operators of a context.
* `phase` is the place of the agent's thread between two records: at rest, in a turn, waiting
  for the provider, answering a batch, running a script in one, taking arrivals, ended.
  Each action is one mutation of `session.rs` with the guard its caller has.
* `synced` is what is known to be on disk. `Crash` keeps that and any prefix of the rest;
  `Resume` folds what is there, quiesces it and imports its note.
* `sent` and `wedged` are history.

`Agents.tla` is a fleet: the human's agent and its helpers, each a thread.

* `thread[a]` is the place in the attend loop, a report, a join or the teardown. `Attends`
  is what a thread does of itself, `Works` what its model asks for during an exchange,
  `Outside` and `Ends` what the human, other code and the machine do.
* `cell[a]` is the mailbox's cell and the mail pending in its seam: the queue, whether a
  parent's post is being answered, the open job and its stop mark, and whether the
  exchange's own scope is cut. `line` is the chain of parents up to the human's agent, its
  first the owner; `nursery`, `dead` and `broken` are the helpers not yet joined, the lives
  ended of themselves, and the journals that fail.
* `struck`, `asked` and `sent` are history.

`GatherProofs.tla`, `ScopesProofs.tla`, `DeadlineProofs.tla`, `AmbientProofs.tla`, `WireProofs.tla`,
`CollectorProofs.tla`, `TurnsProofs.tla` and `AgentsProofs.tla` hold the theorems. Operators marked "A mistake" stand before the definition they distort; no
specification uses them. They are bugs the properties have been seen to catch.

### What is abstracted

In `Gather`, `Scopes` and `Ambient`:

* Values, bytes and provenance: an ending is `ok`, `err`, `exit`, `panic` or a cause.
* The grace of a drain: `Leave` may happen at any time, drained or not, which covers
  every grace; what follows from it is stated with `undrained`. So `NothingOutlives` shows
  that the brood knows who left with children alive, and not how long a grace is waited for.
* One thread stage per pipeline at a time. `PipeEnd` waits for the stage's thread,
  as both the collector and `ThreadStage`'s Drop do. A stage's own node is never struck
  here: that is the collector's doing, in `Collector`.
* Threads always start: the failure path of `spawn_thread` releases a seat and nothing else.
* `outlive` reads the roster under one lock and samples each handle under its own;
  the model takes the list in one step. It drops every ending it claims (`Met`), and is
  left early on its own poll alone.
* A body's `await` and `race` name a handle once per thread. This keeps bodies finite and
  hides no step: a second wait for the same handle meets a claimed one, which a wait
  for a handle another thread claimed meets as well.
* A doc comment and `internals/cancellation.md` describe a birth that finds its owner
  closed; `Enrol` has that branch, and `BirthsFindOwnerOpen` shows it is never taken.
* In `Scopes` a poll is one load per node; in the code the fold loads the flag and then
  the instant of a node, and an instant is set once and before its flag.
* In `Ambient` bytes in the self-pipe are one bit, since a read takes up to 64 and a full
  pipe drops what a pending byte already says. The Windows reaper scans on the raising
  thread and has no pipe.

In `Collector`:

* The pipeline owns its group and may have been lent the terminal. A pipeline nested in a stage
  joins that stage's group and addresses its externals by pid; confining envelopes, jails,
  pumps and the Windows console are operating-system detail that adds addresses to a kill.
* An external may ignore any signal but the kill, and dies of none it was not sent. A thread is
  asked to poll by fairness only, which covers a shield's grace.
* A stage's end and its event are one step: an event waits in the queue for as long as it likes,
  so that a stage is struck, signalled or cut after its end all the same.
* The channel is never disconnected while a stage is live: each handle keeps a sender.
* Values and audit fragments are left out. The owner of a stop is the stage's own node, one
  above, or nobody; a stage's panic is a flag of the verdict, since it unwinds past every break.

In `Wire`:

* A frame is written whole or not at all. The channel's own threads, the heartbeat and
  the patience of either side are one action each: `Breaks` for a socket that goes, `Sever`
  for a front that gives up, `Leave` for an engine that does. Whichever clock ran out, this is
  all it does.
* The stash of the front and its channel are one sequence of events. A dispatch's loop
  strikes once for its own scope, as the code's flag has it.
* The local and the process transports share the front's trait and not this code.
* `Late` says whether a forwarded strike may still be unwritten when the next request is
  aimed. The passing run excludes it, the run `late` shows what it does.

In `Turns`:

* Texts, tools and bytes: a record is its kind, its turn, its calls' ids. Which prefix a
  forced eviction takes is a matter of bytes, so any is taken that `plan` could return.
* How many calls a reply makes is the constant `Sizes`; their ids are apart or all the same, as
  the provider pleases.
* A session forks once: its child's log opens with the link and is not forked again.
* The repair of a torn last line drops it; a line that is there is whole.

In `Agents`:

* A critical section is a step. A report alone is several, since it holds its cell's lock
  while it posts to its parent: who needs that lock waits (`Locked`).
* `queue` is both the mail not yet committed and the cell's own. A post says its kind and who
  made it; findings of a worker (`Surface`) may be declined, and are or are not.
* The human's agent converses: it admits anything when at rest, replies to nobody, and
  its life's own end is the fleet root's (`Human`). Only helpers' journals fail.
* A panic comes wherever an exchange does not recover it and no cell is locked (`Exposed`): at
  the top of the loop, with an item in hand, in `/clear`, at a settled report, in the teardown
  between joins. It does not come in the mailbox's wait, inside a report or a join, or after
  the last join.
* Schedules, wakeups, nudges, a cell poisoned by a panic, a thread that does not start, a
  root behind a gate, and the commands but `/clear` are left out.
* `attend`'s rule A6, that a notice opens no job at rest, has no code of its own to model:
  `RestOwesNothing` shows that no notice is there.

## 3. Runs

All bounds are constants of the cfg. `Ops` names what bodies, humans, models and hosts do
in an instance; the passing runs between them use all of it.

| Run | Instance | Shows | States |
|---|---|---|---|
| `exit` | 2 workers, 1 gather; cancel, await, err, exit, panic | `NoChildUnclaimed`, `NothingOutlives`, `HandleMovesOnward` | 1.6M |
| `stage` | 2 workers for 1 seat, 1 gather, 1 stage; err, panic, catch, wipe, terminate | `BirthsFindOwnerOpen`, `LiveWithinCap`, `WipeReachesAll` | 4.4M |
| `fair` | 2 workers, fair; cancel, await, terminate | `StopsReachAll` | 111k |
| `ends` | 2 workers, 1 gather, fair, ending bodies; await, race, err, interrupt | `EveryWorkerEnds` | 263k |
| `collect` | 2 stages of either kind, fair; causes 1 and 6 from above, a key, a refused launch, an anchor's death, an unwind | `VerdictIsEarned`, `CutsAreOwed`, `PipelineEnds` | 590k |
| `scopes` | 3 nodes, 4 instants, graces 1 and 2, causes 2, 5, 6, 2 strikes, fair | `StruckHasInstant`, `PollBetween`, `NestedShieldNeverOutlasts`, `ShieldOnlyDelays` | 240k |
| `walls` | 2 deadlines, 3 instants, one recurring, fair | `FinalPollIsFinal`, `NeverOversleeps`, `EarlyNeverFires`, `DeadlinesConclude` | 37k |
| `signals` | 1 listener, 2 scanners, 2 interrupts, 2 root requests, fair | `SignalsAreOnesOwn`, `GoneIsQuiet`, `SignalsReachListeners` | 309k |
| `record` | batches of 2 calls, 4 turns, logs of 4 records | `LiveRecordsAdmitted`, `InStep`, `RequestIsLegal`, `ForkAgrees`, `NothingIsLost`, `SentIsKept` | 241k |
| `requests` | 2 requests, 1 enquiry, 1 forwarded strike, fair | `KeepsPromise` (the refinement), `SeversFirst`, `BusyOnlyAfterAbandon`, `NothingStaysParked`, `BornCancelled`, `EndIsClean`, `WaitsConclude` | 198k |
| `late` | as `requests`, and a strike may lag | finds `BornCancelled` violated | |
| `fleet` | 2 agents, 2 posts, fair; all of `Ops` | `RestOwesNothing`, `NoticesReachTheirHolder`, `StopIsTheJobs`, `DebtsAreAnsweredOnce`, `EverythingEnds` | 443k |

Why these bounds are enough to meet the hazards.

* `Gather`: two workers give a parent and its child, two siblings, and a sibling's claimer;
  with the run's own thread and a stage that is four threads. In `stage` they are
  more births than seats, and a birth in flight beside one swept. One gather nests within
  a run or a worker.
* `Scopes`: three nodes have one above, one below and one at a shield. `Deadline`: two have one
  due and one sooner, or one that the other arms; a clock of three instants separates
  before, at and after a ceiling. `Ambient`: a scan by the reaper and one by a registration
  suffice to overtake each other; listeners share nothing but the scans.
* `Turns`: four turns let a cut lie within a cut and beside one, with an unclosed turn after
  them, and a batch of two lets results come short. Four records hold a prompt, a reply with calls,
  their results and a cut; a fork starts another log over the turns of the first, so
  that a crash, a resume and a rewrite follow on cuts already made.
* `Wire`: two requests have one abandoned, refused or lost and one after it; one enquiry can
  outlive its run; one forwarded strike can precede, meet or miss its run.
* `Agents`: a parent and a helper are the two ends of every protocol here; two posts let
  one be queued while another is answered, or a message follow a task. What needs three agents is
  not reached: a helper at rest that declines a sibling's message, and two helpers' reports in
  one queue.
* `Collector`: two stages have a writer and its reader, of the same kind or not, settle in either
  order, one of them filed while the other is signalled; the causes from above are the mildest, which
  any other may come to outgrow, and the abort, which has no grace; a key's, a stage's `exit` and a panic's
  are the rest. Two edges share nothing but the teardown.

Deadlock is checked in every run that has an end to rest in: `Gone`, `AllGone` and `Finished`
stutter there. It is not in `scopes`, whose clock and strikes stop at their bounds; in
`record`, which stops when the log is full; and in `requests` and `late`, which
stop when a front that ended, or was dropped, meets an engine that is gone.

### Fairness

* `Gather`: each thread with a step of its own to take takes it (weak fairness of
  `Progress`): threads are the operating system's, no critical section blocks, waits
  sleep a millisecond and look again, a drain's grace runs out. A body polls at every
  step while others move, so its poll is strongly fair. A body need not end; only
  `TerminatingSpec`, the premise of `EveryWorkerEnds`, supposes that it does.
* `Scopes`: the clock goes on, and a strike's second write follows its first.
* `Deadline`: the clock, the daemon, and the callers inside `arm`, `wait` and the last poll.
  The heap's lock is had in the end by a caller that finds it free again and again
  (strong fairness of `Push`): the daemon may wake for nothing, and lock it, for ever. That
  wake is possible and never relied on.
* `Ambient`: handlers return, the reaper, the registrations and the forwarders run, and
  callbacks return, as their contract demands.
* `Collector`: the run's thread goes on, its bounded waits run out, a struck thread polls, a kill
  kills. No stage need end of itself, be it asked by any other signal.
* `Wire`: each thread takes the step it has: the dispatching thread, the reader, the
  engine's loop and its worker. A host answers, as a handler must. A run may go on for ever unless it is
  struck, a probe is soon over. Nobody need sever, detach, interrupt or die. A settlement
  within its bound is not let expire.
* `Agents`: each thread is scheduled (`Attends`), and an exchange ends (`ExchangeEnds`): a model's
  answers are finitely many, and a cancelled exchange is abandoned. No post, stop, idle
  timeout or end need come.

## 4. Proofs

The theorems hold for every value of the constants, under the named assumptions of
the modules: names are distinct, counts are numbers, causes are within their range,
stages are finitely many.

* `GatherProofs!TypeCorrect`: `Typing` adds to `TypeOK` that a ready handle has an ending, that an
  unborn worker's thread is idle, and that frames are a sequence of owners where an owner is
  needed. No run checks `TypeOK` by itself; the theorem is its check, as in `WireProofs` and `CollectorProofs`.
* `OwnersClaimTheirChildren`: an owner's end is many steps of its thread, among steps of all
  others, so `NoChildUnclaimed` is not inductive. `Claiming` says of every thread that is
  ending an owner that each accepted child is claimed, or is still to be joined or
  stopped (`ExitFits`); that frames are owners in use (`FramesUsed`) and the handles it holds
  are born (`HeldBorn`). Membership is closed and listed in one step, so the list is
  complete; a claim is never undone; the frame goes last.
* `HandlesMoveOnward`: from the same typing, by cases on who touches a handle.
* `SeatsBoundWorkers`: a birth counts first as a seat, then as a thread alive in no list, then
  as an entry, so that `LiveWithinCap` is not inductive. `Seating` finds each live worker in
  the roster or in the hand of a thread that holds a seat (`Covered`); such a thread holds one
  worker, so roster and seats together bound the workers, and the reservation bounds
  these. A wipe empties the roster, which is why the property ends there; that no
  thread but the run's wipes is part of the invariant (`WipeLast`).
* `OwnersAreOpenForBirths`, `ScopesOutliveNothing`: both need to know the family. `Family` says that
  the chains of scopes are a tree, a node opened by a thread lying under the thread's own; that who
  launched a stage or runs a gather waits for it; and in whose custody each live worker is: the
  hand of the thread that is registering it, the membership of an owner that is still open or is being
  swept, or nobody's, after a grace or a panic that `undrained` recalls. A birth's owner is on the
  launcher's own frames, which it cannot leave meanwhile.
* `WipesReachAll`: the wipe takes the roster in one step and a birth may be in flight. `Handed`: what is in
  a thread's hand hangs under that thread's node, so under a worker that is itself in the
  roster, or under the run's own. `WipeTodo`: every live worker is still to be stopped, or struck, or lies
  under one that is.
* `StruckNodesHaveInstants`: a strike in progress has set its instant, and no instant is
  ever cleared.
* `NestedShieldsEnd`, `PollsLieBetween`: what a node is found to be in force is a fold along its chain, of any
  length. The provers have no induction over data to offer, but the well-ordering of the
  naturals they have (`LeastOf`, from the library's well-founded minimum), and an argument by least
  counterexample does as well: `WalkExists` and `ResolveWalks` show that the recursive `Resolve` is the
  walk `Folded` makes, and what holds of one turn then holds of the walk. `Rooted`: graces only shorten
  downwards, and shields are never struck, so what passed one shield passes those below it
  (`WalkPasses`). `Reading`: a step only adds to what is in force (`Grown`, `FoldedGrows`, `WalksGrow`), so that a
  poll halfway is sure to end with no less than it began with (`Ahead`), and has found no
  more than is in force by now where it stands (`Behind`).
* `LastPollKnowsTheWall`, `EarlyIsSafe` and `SleepIsNeverTooLong` share one invariant, `Settled`:
  an entry is in one place (its caller's, the heap, the daemon's hand, landed), the
  daemon's hand holds only what is due, and whoever took the flag left it down. `Dozes`: it
  looks with the lock held, and still holds it when about to wait until the soonest entry.
* `ScansDoNotRepeat` and `DropSilences` share `Hearing`: what a listener was told (`Told`) has no more
  interrupts than its high-water mark has passed since it registered, and root requests that
  rise to the mark; the marks of a scan, read before the lock, may be stale, and stale
  marks tell nothing.
* `WireProofs!TypeCorrect`, `ReaderSeversFirst`, `NoEnquiryLeftParked`, `EndReachesEveryRun`: each by an
  inductive invariant of the wire, late strikes included.
* `BusyIsAbandoned`, `EndsClean`: requests arrive in the order they were asked (`InLine`), the engine's
  busy flag names a request that is queued, worked on or about to be let go (`Holding`, `Letting`), and the claim is
  dropped before the report is written, so that a report at the front proves the flag is
  another's (`Past`). A detach is answered only after the worker is settled (`Closing`).
* `StrikesAreHeeded`: once aimed, a strike is on the wire, foretold, landed in the run it names, or its run is over
  (`Heeded`). It supposes `Late = FALSE`, and the run `late` shows why.

* `CollectorProofs!TypeCorrect` and `CutsOwed`: the collector sees an event long after the write it
  reports, so what a cut is owed is kept by `Rest`: outside a teardown an edge is listened to
  only once its reader is filed (`Owed`), and nobody is heard to write on one that is not
  (`Heeded`), nor reported before (`Told`). A reader that never came would break it: stages come
  up in order (`Early`), so that after the launch all have a handle, none is live, or a
  teardown has begun (`Manned`).
* `VerdictEarned`: the verdict is folded when the run's thread is past all waits, from ends that came at
  any time before. `Account` relates each ending to what the stage was sent, and what it was sent to the
  cuts, signals and causes there were. An attempt to prove it found a case the property had
  left out and a run with milder causes had not met: an abort, too, outgrows a cut made before it.
* `StopsStrikeTheirJob`, `NoticesAreHeld`, `RestIsQuiet`, `AnswersOnce`: for any number of agents, so for the
  grandchildren and rival siblings the run is too small for. `Leads`: lines are chains, each helper
  in one nursery or one teardown. `JobsFit`: a job is open where its exchange is, and its stop mark
  is the exchange's strike. `Kept` joins who is kin to whom (`Kinship`), the reports under way
  (`Farewells`), what a report holds its lock for (`HeldBack`) and where each notice lies
  (`NoticesKept`). `Ease`: an agent at rest has no helper to join, so that nothing is owed it. `DebtsFit`
  counts the answers to a parent: owed, under way or given, never two of them.

* `RecordsAdmitted`, `StaysInStep`, `ForksAgree`, `SentStays`: of `Turns`, for replies and logs of any length,
  from one invariant, `Sound`. A context is `Whole` when it is what cuts and withdrawals can make: turns
  in id order (`Sorted`), only the newest owing results (`Paid`, `Asking`), evictions from turn to turn
  with both ends withdrawn or neither (`Anchored`), each nested in a later one or apart from it (`Nested`),
  and each turn and eviction in the context or under the innermost later eviction over it (`Placed`, `Lodged`). Each record
  the fold admits keeps a context whole (`StepKeepsWhole`); an item in the context then lies across no
  eviction (`ItemLies`), so that a planned cut holds (`PlannedCuts`), and the holder a link's reader
  derives is the one the parent stamped (`HolderIs`, `InstallingIs`). The log replays to the context
  (`Replays`), hence every prefix of it to some whole context (`ReplaysLess`), which is what a crash and a resume
  need. `Placing` says where the automaton is for each place of the agent, `Synced` what is on disk.
* `RequestsAreLegal`, `NothingLost`: of `Turns`, from a second invariant on top of `Sound`. `Sound` says where turns
  lie and not what they hold, and it cannot: a legal order of records is a fact of how they came. `Tells`
  (`TurnsTell`) says that the context is the replay of a record whose links were taken from contexts that
  tell, that a line of steering has a turn to stand in, and that a turn under way is still open.
  A context tells (`Telling`) when in each turn calls are followed by the results of the
  same ids (`Chains`), the newest ends as the automaton's state says (`Ends`), and the first turn not withdrawn is
  the user's (`Heads`, with `Level` for the turns an eviction took with it); every record the fold admits keeps that, and so do a prefix and its quiesce, by
  `ReplayedTells` along the replay. Laid end to end, items that are each legal make a legal
  context (`ContextIsLegal`), since only the newest turn may owe anything and it is last (`NewestIsLast`).
  For `NothingLost`, `CoveredOnce` has each turn not withdrawn under exactly one item, from `Placed`, `Lodged`
  and `Nested`. `Tale` follows the replay with what the log has told of each turn so far: an
  address grows by the record that is appended to its turn or comes whole with the link
  (`StepTale`, `LogTale`), so that at the end it is `Recorded`. Both need sums of lengths and the
  order of a finite set: sequences laid end to end (`Flattened`) and items by rank
  (`FrontierIs`) are reasoned about through least counterexamples.

Only model-checked: the liveness properties (`StopsReachAll`, `EveryWorkerEnds`, `PipelineEnds`,
`ShieldOnlyDelays`, `DeadlinesConclude`, `SignalsReachListeners`, `WaitsConclude`, `EverythingEnds`), which need
fairness and `ENABLED`. Every invariant and every action property that a run checks is stated by a theorem.

## Findings

* `late`. `carrier.rs:469` says "A strike can precede its dispatch: the engine opens it born
  cancelled." The engine keeps one foretold strike (`engine.rs:243`). An interrupt that another
  thread aimed at an earlier request, one the engine never took since its run was too large
  for a frame, may be written after the strike that precedes the next dispatch: it overwrites
  what was foretold, and the dispatch opens uncancelled. The front strikes a run once, so
  this cancellation is lost. `BornCancelled` holds where no strike lags (`Late = FALSE`).

Two more were met while modelling, and are part of what a passing run states.

* A batch whose ids repeat. `session.rs:333` takes a record refused in live authorship to be "a
  caller bug". `settle_turn` (`deliberate.rs:208`) records the call ids of a reply as the
  provider gave them; if two calls carry one id, `validate_result_ids` (`state.rs:215`) refuses
  the very results that answer them. `LiveRecordsAdmitted` says that nothing else is refused.
* A death of a signal that no cause in force sends any more. `collect.rs:51` says that a death by
  what the collector sent is the external's stop, consumed as a thread's is. The cause it is
  judged by is the strongest of what was sent and what is in force at the fold; if that has risen
  since the stage died (SIGINT under `Interrupted`, then SIGTERM to the run; or SIGTERM, then an abort,
  which sends SIGKILL), the death is by none of its signals and becomes the stage's failure. `VerdictIsEarned` names this case (`Outgrown`) as
  the only one in which a stage that did not fail is reported to have failed.

## Not modelled, and why

* The language front end, the type checker, values and builtins, paths, the grants' algebra: large,
  sequential and without state between calls. They want tests and proofs about data (unification,
  normalisation, meets), which are for a prover with induction over terms, and which TLC can only
  sample. They are most of the repository's 209 thousand lines, so that a map of its
  concurrent core is a small share of the whole.
* The command line, the REPL, exarch's screens, providers' formats, sandbox back ends, virtual
  machines and the Windows halves: input and output, and calls of an operating system whose
  promises would have to be supposed.
* Within the parts modelled: buffers and observers of handles, the registry's retention and reap
  notices, the frame's loans, machine rules other than gather and try, pipelines nested in a stage,
  the local and process transports, the record's other seams, schedules, wakeups and enquiries'
  consumers, an agent's peers.

## 5. Plan

What is left, in order.

* A2: retention and reap notices in the registry, against the hazard at `workers.rs:409`; an abstract
  specification of a family of workers (who may be alive when) that `Gather` implements, whose
  refinement `Family` already has the parts of.
* C: three agents, with a peer's message refused by a helper at rest; schedules that re-arm,
  and enquiries answered as their run is cancelled.
* E: the reaper's table against the drop of a watch (`reaper/unix.rs:256`), the foreground lease, the
  spawn lock, ownership cells.
* F2: a pipeline nested in a stage, which joins its owner's group and must not signal twice;
  three stages; the composition of `Collector` with `Gather`'s thread stages.
* G: the gate's ledger, which must close on a failed write; the broker's disks; a provider's
  retries against cancellation; the meet of grants over bounded grants.
* Proofs: of what A2, C and F2 add.
