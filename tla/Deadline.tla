------------------------------ MODULE Deadline ------------------------------
(***************************************************************************)
(* The deadline daemon of core/src/process/deadline.rs, the callers that   *)
(* arm, disarm, keep and drop their deadlines while it runs, and the last  *)
(* poll of a run that has a wall (run_framed, core/src/shell/run.rs).      *)
(*                                                                         *)
(* Each deadline has one caller.  The daemon takes the heap's lock, looks, *)
(* and lets go of it, in steps of its own; a caller's section of it, an    *)
(* atomic access of an `armed` flag, and a section of a `fired` lock are   *)
(* one action each.  What fires is only known to have fired.               *)
(***************************************************************************)
EXTENDS Naturals

CONSTANTS
  Deadlines,  \* the deadlines that may be armed, each once
  Recurring,  \* those armed with a callback that arms another (schedules)
  Delays,     \* the `after` a caller may ask for
  MaxTime,    \* a bound: the last tick of the clock
  NoOne       \* no deadline

ASSUME DeadlinesAssumption == Recurring \subseteq Deadlines /\ NoOne \notin Deadlines
ASSUME TimeAssumption == MaxTime \in Nat /\ Delays \subseteq 0 .. MaxTime

Never == MaxTime + 1

VARIABLES
  now,      \* the monotonic clock
  caller,   \* how far each caller is with its deadline
  when,     \* Scheduled::when
  heap,     \* the entries scheduled
  armed,    \* Scheduled::armed
  fired,    \* the actions that have run
  landed,   \* Landed
  locked,   \* the daemon holds the heap's lock
  daemon,   \* the daemon's control state: [pc, due, arms, until]
  saw,      \* history: had it fired at the run's last poll
  early     \* history: the deadlines let go before their ceiling

vars == <<now, caller, when, heap, armed, fired, landed, locked, daemon, saw, early>>

CallerStates == {"new", "push", "notify", "held", "kept", "dropped",
                 "disarmed", "waiting", "polled"}
DaemonStates == {"lock", "peek", "doze", "asleep", "claim", "fire", "rearm", "land"}

Locking == [pc |-> "lock", due |-> NoOne, arms |-> NoOne, until |-> Never]
Dozing(t) == [pc |-> "doze", due |-> NoOne, arms |-> NoOne, until |-> t]
Claiming(d) == [pc |-> "claim", due |-> d, arms |-> NoOne, until |-> Never]
To(d, pc) == caller' = [caller EXCEPT ![d] = pc]

-----------------------------------------------------------------------------
(* The callers. *)

\* arm: the instant is computed before the lock is taken ...
Arm(d, after) ==
  /\ caller[d] = "new" /\ now + after <= MaxTime
  /\ when' = [when EXCEPT ![d] = now + after]
  /\ To(d, "push")
  /\ UNCHANGED <<now, heap, armed, fired, landed, locked, daemon, saw, early>>

\* (A mistake: the daemon is not told of the new entry.)
PushUntold(d) ==
  /\ caller[d] = "push" /\ ~locked
  /\ heap' = heap \cup {d}
  /\ armed' = [armed EXCEPT ![d] = TRUE]
  /\ To(d, "held")
  /\ UNCHANGED <<now, when, fired, landed, locked, daemon, saw, early>>

\* ... the entry pushed under it ...
Push(d) ==
  /\ caller[d] = "push" /\ ~locked
  /\ heap' = heap \cup {d}
  /\ armed' = [armed EXCEPT ![d] = TRUE]
  /\ To(d, "notify")
  /\ UNCHANGED <<now, when, fired, landed, locked, daemon, saw, early>>

\* ... and the daemon, if it waits, notified once it is released.
Notify(d) ==
  /\ caller[d] = "notify"
  /\ daemon' = IF daemon.pc = "asleep" THEN Locking ELSE daemon
  /\ To(d, "held")
  /\ UNCHANGED <<now, when, heap, armed, fired, landed, locked, saw, early>>

\* Deadline::keep.
Keep(d) ==
  /\ caller[d] = "held"
  /\ To(d, "kept")
  /\ UNCHANGED <<now, when, heap, armed, fired, landed, locked, daemon, saw, early>>

\* Deadline's Drop: a store, whatever the daemon has claimed.
Forget(d) ==
  /\ caller[d] = "held"
  /\ armed' = [armed EXCEPT ![d] = FALSE]
  /\ To(d, "dropped")
  /\ early' = IF now < when[d] THEN early \cup {d} ELSE early
  /\ UNCHANGED <<now, when, heap, fired, landed, locked, daemon, saw>>

\* (A mistake: the flag cleared, and a claim not noticed.)
DisarmBlindly(d) ==
  /\ caller[d] = "held"
  /\ armed' = [armed EXCEPT ![d] = FALSE]
  /\ To(d, "disarmed")
  /\ early' = IF now < when[d] THEN early \cup {d} ELSE early
  /\ UNCHANGED <<now, when, heap, fired, landed, locked, daemon, saw>>

\* Deadline::disarm: the swap tells whether the daemon was first.
Disarm(d) ==
  /\ caller[d] = "held"
  /\ armed' = [armed EXCEPT ![d] = FALSE]
  /\ To(d, IF armed[d] THEN "disarmed" ELSE "waiting")
  /\ early' = IF now < when[d] THEN early \cup {d} ELSE early
  /\ UNCHANGED <<now, when, heap, fired, landed, locked, daemon, saw>>

\* Claimed::wait.
Wait(d) ==
  /\ caller[d] = "waiting" /\ landed[d]
  /\ To(d, "disarmed")
  /\ UNCHANGED <<now, when, heap, armed, fired, landed, locked, daemon, saw, early>>

\* run_framed's final_poll, the wall disarmed: a firing is in force by now or
\* never will be.
FinalPoll(d) ==
  /\ caller[d] = "disarmed"
  /\ saw' = [saw EXCEPT ![d] = d \in fired]
  /\ To(d, "polled")
  /\ UNCHANGED <<now, when, heap, armed, fired, landed, locked, daemon, early>>

-----------------------------------------------------------------------------
(* The daemon. *)

\* The heap's lock is taken: at the start, after a wait and after a landing.
Lock ==
  /\ daemon.pc = "lock"
  /\ locked' = TRUE /\ daemon' = [daemon EXCEPT !.pc = "peek"]
  /\ UNCHANGED <<now, caller, when, heap, armed, fired, landed, saw, early>>

Soonest(d) == d \in heap /\ \A e \in heap : when[d] <= when[e]

\* (A mistake: the heap's order not inverted, so the latest entry is peeked.)
PeekLatest ==
  /\ daemon.pc = "peek"
  /\ \/ heap = {} /\ daemon' = Dozing(Never) /\ UNCHANGED <<heap, locked>>
     \/ \E d \in heap :
          /\ \A e \in heap : when[e] <= when[d]
          /\ IF when[d] <= now
               THEN heap' = heap \ {d} /\ daemon' = Claiming(d) /\ locked' = FALSE
               ELSE daemon' = Dozing(when[d]) /\ UNCHANGED <<heap, locked>>
  /\ UNCHANGED <<now, caller, when, armed, fired, landed, saw, early>>

\* A due entry is popped and the lock let go of, else the daemon is about to
\* wait, for the soonest entry or for a notification, with the lock held.
Peek ==
  /\ daemon.pc = "peek"
  /\ \/ heap = {} /\ daemon' = Dozing(Never) /\ UNCHANGED <<heap, locked>>
     \/ \E d \in heap :
          /\ Soonest(d)
          /\ IF when[d] <= now
               THEN heap' = heap \ {d} /\ daemon' = Claiming(d) /\ locked' = FALSE
               ELSE daemon' = Dozing(when[d]) /\ UNCHANGED <<heap, locked>>
  /\ UNCHANGED <<now, caller, when, armed, fired, landed, saw, early>>

\* wait, wait_timeout: the lock is given up as the wait begins.
Doze ==
  /\ daemon.pc = "doze"
  /\ locked' = FALSE /\ daemon' = [daemon EXCEPT !.pc = "asleep"]
  /\ UNCHANGED <<now, caller, when, heap, armed, fired, landed, saw, early>>

\* The wait times out, or wakes for nothing.
Wake ==
  /\ daemon.pc = "asleep"
  /\ daemon' = Locking
  /\ UNCHANGED <<now, caller, when, heap, armed, fired, landed, locked, saw, early>>
TimesOut == Wake /\ daemon.until <= now

\* (A mistake: a due entry fires whatever its flag says.)
ClaimUnasked ==
  /\ daemon.pc = "claim"
  /\ armed' = [armed EXCEPT ![daemon.due] = FALSE]
  /\ daemon' = [daemon EXCEPT !.pc = "fire"]
  /\ UNCHANGED <<now, caller, when, heap, fired, landed, locked, saw, early>>

\* The swap that decides between the daemon and a disarm.
Claim ==
  /\ daemon.pc = "claim"
  /\ armed' = [armed EXCEPT ![daemon.due] = FALSE]
  /\ daemon' = IF armed[daemon.due] THEN [daemon EXCEPT !.pc = "fire"] ELSE Locking
  /\ UNCHANGED <<now, caller, when, heap, fired, landed, locked, saw, early>>

\* Action::fire: a cancel, or a callback, that may be at another `arm` ...
Fire ==
  /\ daemon.pc = "fire"
  /\ fired' = fired \cup {daemon.due}
  /\ \/ daemon' = [daemon EXCEPT !.pc = "land"] /\ UNCHANGED <<when, caller>>
     \/ /\ daemon.due \in Recurring
        /\ \E d \in Deadlines, after \in Delays :
             /\ caller[d] = "new" /\ now + after <= MaxTime
             /\ when' = [when EXCEPT ![d] = now + after]
             /\ To(d, "push") /\ daemon' = [daemon EXCEPT !.pc = "rearm", !.arms = d]
  /\ UNCHANGED <<now, heap, armed, landed, locked, saw, early>>

\* ... whose push and notification are on this thread, and come to an end
\* before the callback does.
Rearmed ==
  /\ daemon.pc = "rearm" /\ caller[daemon.arms] \notin {"push", "notify"}
  /\ daemon' = [daemon EXCEPT !.pc = "land", !.arms = NoOne]
  /\ UNCHANGED <<now, caller, when, heap, armed, fired, landed, locked, saw, early>>

\* The landing is announced, and the heap is locked again.
Land ==
  /\ daemon.pc = "land"
  /\ landed' = [landed EXCEPT ![daemon.due] = TRUE]
  /\ daemon' = Locking
  /\ UNCHANGED <<now, caller, when, heap, armed, fired, locked, saw, early>>

Tick ==
  /\ now < MaxTime
  /\ now' = now + 1
  /\ UNCHANGED <<caller, when, heap, armed, fired, landed, locked, daemon, saw, early>>

Init ==
  /\ now = 0
  /\ caller = [d \in Deadlines |-> "new"]
  /\ when = [d \in Deadlines |-> Never]
  /\ heap = {}
  /\ armed = [d \in Deadlines |-> FALSE]
  /\ fired = {}
  /\ landed = [d \in Deadlines |-> FALSE]
  /\ locked = FALSE
  /\ daemon = Locking
  /\ saw = [d \in Deadlines |-> FALSE]
  /\ early = {}

Calls(d) == Push(d) \/ Notify(d) \/ Wait(d) \/ FinalPoll(d)
Daemon == Lock \/ Peek \/ Doze \/ TimesOut \/ Claim \/ Fire \/ Rearmed \/ Land

Next ==
  \/ \E d \in Deadlines :
       \/ \E after \in Delays : Arm(d, after)
       \/ Calls(d) \/ Keep(d) \/ Forget(d) \/ Disarm(d)
  \/ Daemon \/ Wake \/ Tick

Spec == Init /\ [][Next]_vars

-----------------------------------------------------------------------------
(* Properties. *)

Controls == [pc : DaemonStates, due : Deadlines \cup {NoOne}, arms : Deadlines \cup {NoOne}, until : 0 .. Never]
TypeOK ==
  /\ now \in 0 .. MaxTime
  /\ caller \in [Deadlines -> CallerStates]
  /\ when \in [Deadlines -> 0 .. Never]
  /\ heap \in SUBSET Deadlines
  /\ armed \in [Deadlines -> BOOLEAN]
  /\ fired \in SUBSET Deadlines
  /\ landed \in [Deadlines -> BOOLEAN]
  /\ locked \in BOOLEAN
  /\ daemon \in Controls
  /\ daemon.pc \in {"claim", "fire", "rearm", "land"} => daemon.due \in Deadlines
  /\ daemon.pc = "rearm" => daemon.arms \in Deadlines
  /\ saw \in [Deadlines -> BOOLEAN]
  /\ early \in SUBSET Deadlines

\* "Nothing fires after this poll": what a run's last poll found of its wall,
\* fired or not, stays the truth of it, whoever won the race to the flag.
FinalPollIsFinal == \A d \in Deadlines : caller[d] = "polled" => saw[d] = (d \in fired)

\* The daemon never sleeps past an entry that nobody is about to wake it for.
NeverOversleeps ==
  daemon.pc = "asleep" =>
    \A d \in heap : daemon.until <= when[d] \/ \E e \in Deadlines : caller[e] = "notify"

\* "Work that completes before its ceiling is never cancelled": a deadline
\* dropped or disarmed before it was due never fires.
EarlyNeverFires == early \cap fired = {}

\* The clock goes on, the daemon is a thread, and a caller inside `arm`, `wait`
\* or the last poll goes through with it; a lock that is free again and again
\* is had in the end (the daemon may wake for nothing, and lock it, for ever).
FairSpec ==
  /\ Spec
  /\ WF_vars(Tick) /\ WF_vars(Daemon)
  /\ \A d \in Deadlines : WF_vars(Calls(d)) /\ SF_vars(Push(d))

\* Every deadline comes to its end: one its owner keeps fires, whatever was
\* armed beside it, and a run that lost the race to its wall does not wait for
\* ever.
DeadlinesConclude ==
  \A d \in Deadlines : /\ caller[d] = "kept" ~> d \in fired
                       /\ caller[d] = "waiting" ~> caller[d] = "polled"
=============================================================================
