--------------------------- MODULE DeadlineProofs ---------------------------
(***************************************************************************)
(* Proofs about the deadline daemon, for any deadlines, delays and bound   *)
(* of the clock: who takes the flag decides, once and for all.             *)
(***************************************************************************)
EXTENDS Deadline, TLAPS

Busy == daemon.pc \in {"claim", "fire", "rearm", "land"}

(* An entry is in one place: with its caller before the push, then in the  *)
(* heap, then with the daemon, then landed.                                *)
Placed ==
  \A d \in Deadlines :
    /\ d \in heap \/ landed[d] \/ d \in fired \/ d \in early \/ (Busy /\ daemon.due = d)
         => caller[d] \notin {"new", "push"}
    /\ d \in heap => ~landed[d] /\ ~(Busy /\ daemon.due = d)
    /\ landed[d] => ~(Busy /\ daemon.due = d)

(* The daemon only has entries that are due.                               *)
Due == \A d \in Deadlines : d \in fired \/ (Busy /\ daemon.due = d) => when[d] <= now

(* Whoever took the flag left it down, and an owner who was told that the  *)
(* entry never fires, or let it go early, finds it out of the daemon's hands. *)
Released ==
  \A d \in Deadlines :
    LET firing == daemon.pc = "fire" /\ daemon.due = d
    IN /\ firing \/ caller[d] \in {"waiting", "disarmed", "polled"} \/ d \in early => ~armed[d]
       /\ caller[d] \in {"disarmed", "polled"} \/ d \in early => ~firing

(* It looks with the lock held, and still holds it when about to wait for  *)
(* what is no later than any entry there is.                               *)
Dozes == /\ daemon.pc \in {"peek", "doze"} => locked
         /\ daemon.pc = "doze" => \A d \in heap : daemon.until <= when[d]

Settled == /\ TypeOK /\ Placed /\ Due /\ Released /\ Dozes
           /\ FinalPollIsFinal /\ EarlyNeverFires /\ NeverOversleeps

LEMMA SettledInit == Init => Settled
<1> SUFFICES ASSUME Init PROVE Settled
  OBVIOUS
<1>1. /\ now \in 0 .. MaxTime /\ when \in [Deadlines -> 0 .. Never] /\ caller \in [Deadlines -> CallerStates]
      /\ daemon \in Controls
  BY TimeAssumption DEF Controls, Init, Locking, CallerStates, DaemonStates, Never
<1>2. TypeOK
  BY <1>1 DEF Init, Locking, TypeOK, Controls
<1>3. Placed /\ Due /\ Released /\ Dozes /\ FinalPollIsFinal /\ EarlyNeverFires /\ NeverOversleeps
  BY DEF Init, Placed, Due, Released, Dozes, FinalPollIsFinal, EarlyNeverFires, NeverOversleeps, Busy, Locking
<1> QED
  BY <1>2, <1>3 DEF Settled

(* Every step of a caller keeps Settled.                                   *)
LEMMA CallerKeepsSettled ==
  ASSUME Settled, NEW d \in Deadlines,
         \/ \E after \in Delays : Arm(d, after)
         \/ Calls(d) \/ Keep(d) \/ Forget(d) \/ Disarm(d)
  PROVE  Settled'
<1> USE DeadlinesAssumption, TimeAssumption
        DEF Settled, TypeOK, Placed, Due, Released, Dozes, FinalPollIsFinal, EarlyNeverFires, NeverOversleeps,
            Busy, Never, CallerStates, DaemonStates, To
<1>1. ASSUME NEW after \in Delays, Arm(d, after) PROVE Settled'
  BY <1>1 DEF Arm
<1>2. CASE Push(d)
  BY <1>2 DEF Push
<1>3. CASE Notify(d)
  BY <1>3 DEF Notify, Locking, Controls
<1>4. CASE Wait(d)
  BY <1>4 DEF Wait
<1>5. CASE FinalPoll(d)
  BY <1>5 DEF FinalPoll
<1>6. CASE Keep(d)
  BY <1>6 DEF Keep
<1>7. CASE Forget(d)
  BY <1>7 DEF Forget
<1>8. CASE Disarm(d)
  BY <1>8 DEF Disarm
<1> QED
  BY <1>1, <1>2, <1>3, <1>4, <1>5, <1>6, <1>7, <1>8 DEF Calls

(* So does every step of the daemon and of the clock.                      *)
LEMMA DaemonKeepsSettled ==
  ASSUME Settled, Daemon \/ Wake \/ Tick
  PROVE  Settled'
<1> USE DeadlinesAssumption, TimeAssumption
        DEF Settled, TypeOK, Placed, Due, Released, Dozes, FinalPollIsFinal, EarlyNeverFires, NeverOversleeps,
            Busy, Never, CallerStates, DaemonStates, To, Locking, Dozing, Claiming
<1>1. CASE Peek
  <2>1. daemon.pc = "peek" /\ UNCHANGED <<now, caller, when, armed, fired, landed, saw, early>>
    BY <1>1 DEF Peek
  <2>2. CASE heap = {} /\ daemon' = Dozing(Never) /\ UNCHANGED <<heap, locked>>
    <3>1. daemon'.pc = "doze" /\ daemon' \in Controls
      BY <2>2 DEF Controls
    <3>2. TypeOK'
      BY <2>1, <2>2, <3>1
    <3>3. Placed' /\ Due' /\ Released'
      BY <2>1, <2>2, <3>1
    <3>4. Dozes' /\ FinalPollIsFinal' /\ EarlyNeverFires' /\ NeverOversleeps'
      BY <2>1, <2>2, <3>1
    <3> QED
      BY <3>2, <3>3, <3>4
  <2>3. ASSUME NEW d \in heap, Soonest(d), when[d] <= now,
               heap' = heap \ {d} /\ daemon' = Claiming(d) /\ locked' = FALSE
        PROVE  Settled'
    <3>1. daemon'.pc = "claim" /\ daemon'.due = d /\ d \in Deadlines /\ daemon' \in Controls
      BY <2>3 DEF Controls
    <3> QED
      BY <2>1, <2>3, <3>1
  <2>4. ASSUME NEW d \in heap, Soonest(d), daemon' = Dozing(when[d]), UNCHANGED <<heap, locked>>
        PROVE  Settled'
    <3>1. daemon'.pc = "doze" /\ daemon'.until = when[d] /\ daemon' \in Controls
      BY <2>4 DEF Controls
    <3>2. TypeOK'
      BY <2>1, <2>4, <3>1
    <3>3. Placed' /\ Due' /\ Released'
      BY <2>1, <2>4, <3>1
    <3>4. Dozes' /\ FinalPollIsFinal' /\ EarlyNeverFires' /\ NeverOversleeps'
      BY <2>1, <2>4, <3>1 DEF Soonest
    <3> QED
      BY <3>2, <3>3, <3>4
  <2> QED
    BY <1>1, <2>2, <2>3, <2>4 DEF Peek
<1>2. CASE Claim
  BY <1>2 DEF Claim, Controls
<1>3. CASE Fire
  <2> DEFINE due == daemon.due
             Rearms(e, after) == /\ caller[e] = "new" /\ now + after <= MaxTime
                                 /\ when' = [when EXCEPT ![e] = now + after]
                                 /\ caller' = [caller EXCEPT ![e] = "push"]
                                 /\ daemon' = [daemon EXCEPT !.pc = "rearm", !.arms = e]
  <2>1. /\ daemon.pc = "fire" /\ due \in Deadlines /\ fired' = fired \cup {due}
        /\ due \notin early /\ caller[due] \notin {"new", "push", "polled", "disarmed"}
        /\ UNCHANGED <<now, heap, armed, landed, locked, saw, early>>
    BY <1>3 DEF Fire
  <2>2. CASE daemon' = [daemon EXCEPT !.pc = "land"] /\ UNCHANGED <<when, caller>>
    BY <2>1, <2>2 DEF Controls
  <2>3. ASSUME NEW e \in Deadlines, NEW after \in Delays, Rearms(e, after)
        PROVE  Settled'
    <3>1. e # due /\ e \notin fired /\ e \notin early /\ e \notin heap /\ ~landed[e] /\ after \in Nat
      BY <2>1, <2>3
    <3>5. daemon'.pc = "rearm" /\ daemon'.due = due /\ daemon'.arms = e /\ daemon'.until = daemon.until
      BY <2>3
    <3>6. /\ when' \in [Deadlines -> 0 .. Never] /\ caller' \in [Deadlines -> CallerStates]
      BY <2>3, <3>1
    <3>7. daemon' \in Controls
      BY <2>3 DEF Controls
    <3>2. TypeOK'
      BY <2>1, <3>5, <3>6, <3>7
    <3>3. Placed' /\ Due' /\ Released' /\ Dozes'
      BY <2>1, <2>3, <3>1, <3>5
    <3>4. FinalPollIsFinal' /\ EarlyNeverFires' /\ NeverOversleeps'
      BY <2>1, <2>3, <3>1, <3>5
    <3> QED
      BY <3>2, <3>3, <3>4
  <2> QED
    BY <1>3, <2>2, <2>3 DEF Fire
<1>4. CASE Land
  BY <1>4 DEF Land, Controls
<1>5. CASE Wake
  BY <1>5 DEF Wake, Controls
<1>6. CASE Tick
  BY <1>6 DEF Tick
<1>7. CASE Lock
  BY <1>7 DEF Lock, Controls
<1>8. CASE Doze
  BY <1>8 DEF Doze, Controls
<1>9. CASE Rearmed
  BY <1>9 DEF Rearmed, Controls
<1> QED
  BY <1>1, <1>2, <1>3, <1>4, <1>5, <1>6, <1>7, <1>8, <1>9 DEF Daemon, TimesOut

LEMMA NextKeepsSettled == Settled /\ [Next]_vars => Settled'
<1> SUFFICES ASSUME Settled, [Next]_vars PROVE Settled'
  OBVIOUS
<1>1. CASE Next
  BY <1>1, CallerKeepsSettled, DaemonKeepsSettled DEF Next
<1>2. CASE UNCHANGED vars
  BY <1>2 DEF vars, Settled, TypeOK, Placed, Due, Released, Dozes, FinalPollIsFinal,
              EarlyNeverFires, NeverOversleeps, Busy
<1> QED
  BY <1>1, <1>2

(* What a run's last poll found of its wall (Deadline::disarm, then        *)
(* Claimed::wait, then final_poll in run_framed) stays the truth of it.    *)
THEOREM LastPollKnowsTheWall == Spec => []FinalPollIsFinal
<1>1. Settled => FinalPollIsFinal
  BY DEF Settled
<1> QED
  BY SettledInit, NextKeepsSettled, <1>1, PTL DEF Spec

(* A Deadline dropped or disarmed before its ceiling never fires.          *)
THEOREM EarlyIsSafe == Spec => []EarlyNeverFires
<1>1. Settled => EarlyNeverFires
  BY DEF Settled
<1> QED
  BY SettledInit, NextKeepsSettled, <1>1, PTL DEF Spec

(* A sleeping daemon has no entry to wake for that it does not know of, or *)
(* is about to be notified (arm's push, then its notify_one).              *)
THEOREM SleepIsNeverTooLong == Spec => []NeverOversleeps
<1>1. Settled => NeverOversleeps
  BY DEF Settled
<1> QED
  BY SettledInit, NextKeepsSettled, <1>1, PTL DEF Spec
=============================================================================
