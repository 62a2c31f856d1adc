------------------------------ MODULE Ambient ------------------------------
(***************************************************************************)
(* How a cause raised in a signal handler reaches the hosts: the ambient   *)
(* half of core/src/process/cancel.rs, with the self-pipe and the loop of  *)
(* process/reaper/unix.rs that turn a handler's byte into a scan.          *)
(*                                                                         *)
(* A handler makes two atomic steps (the cause, then the byte); a scan is  *)
(* two loads and one critical section of LISTENERS, run by the reaper and  *)
(* by every registration; a forwarder thread serves each listener.         *)
(***************************************************************************)
EXTENDS Naturals, Sequences, FiniteSets

CONSTANTS
  Listeners,     \* the forward_ambient guards, each registered at most once
  Reaper,        \* the reaper's thread
  Roots,         \* the causes a root request may carry
  MaxInterrupts  \* a bound: interrupts in all

ASSUME ListenersAssumption == Reaper \notin Listeners /\ IsFiniteSet(Listeners)
ASSUME RootsAssumption == Roots \subseteq 1 .. 6 /\ MaxInterrupts \in Nat

Interrupt == 0   \* Ambient::Interrupt; Ambient::Root(c) is c itself
Messages  == {Interrupt} \cup Roots
Scanners  == {Reaper} \cup Listeners

VARIABLES
  interrupts, \* INTERRUPTS
  root,       \* REQUESTED_ROOT
  handlers,   \* signal handlers between their two steps
  woken,      \* is there a byte in the self-pipe
  scan,       \* per scanner, its scan in progress: [pc, ints, root]
  status,     \* the life of each guard
  heard,      \* Listener::interrupts_heard
  rootHeard,  \* Listener::root_heard
  queue,      \* the channel of each listener
  calling,    \* is its callback running
  got,        \* history: what its callback was given
  since       \* history: the interrupts raised when it registered

vars == <<interrupts, root, handlers, woken, scan, status, heard, rootHeard,
          queue, calling, got, since>>
raisers   == <<interrupts, root, handlers>>
listening == <<status, since>>
forwarding == <<calling, got>>

Listed(l) == status[l] \in {"listed", "listening"}
Quiet == [pc |-> "idle", ints |-> 0, root |-> 0]
Become(l, s) == status' = [status EXCEPT ![l] = s]

-----------------------------------------------------------------------------
(* Signal handlers. *)

\* request_interrupt, its read-modify-write.
RaiseInterrupt ==
  /\ interrupts < MaxInterrupts
  /\ interrupts' = interrupts + 1
  /\ handlers' = handlers + 1
  /\ UNCHANGED <<root, woken, scan, heard, rootHeard, queue, listening, forwarding>>

\* request_root_cancel, its fetch_max.  (A bound: a raise that raises.)
RaiseRoot(c) ==
  /\ root < c
  /\ root' = c
  /\ handlers' = handlers + 1
  /\ UNCHANGED <<interrupts, woken, scan, heard, rootHeard, queue, listening, forwarding>>

\* kick: one byte, unless nobody has made the pipe yet.
Kick ==
  /\ handlers > 0
  /\ handlers' = handlers - 1
  /\ woken' = (woken \/ \E l \in Listeners : status[l] # "new")
  /\ UNCHANGED <<interrupts, root, scan, heard, rootHeard, queue, listening, forwarding>>

\* sigchld_handler shares the pipe: a byte with no cause behind it.
Sigchld ==
  /\ woken' = TRUE
  /\ \E l \in Listeners : status[l] # "new"
  /\ UNCHANGED <<raisers, scan, heard, rootHeard, queue, listening, forwarding>>

-----------------------------------------------------------------------------
(* scan_ambient. *)

\* The reaper's read empties the pipe, then it scans.
ReadPipe ==
  /\ woken /\ scan[Reaper].pc = "idle"
  /\ woken' = FALSE
  /\ scan' = [scan EXCEPT ![Reaper].pc = "interrupts"]
  /\ UNCHANGED <<raisers, heard, rootHeard, queue, listening, forwarding>>

LoadInterrupts(x) ==
  /\ scan[x].pc = "interrupts"
  /\ scan' = [scan EXCEPT ![x].pc = "root", ![x].ints = interrupts]
  /\ UNCHANGED <<raisers, woken, heard, rootHeard, queue, listening, forwarding>>

LoadRoot(x) ==
  /\ scan[x].pc = "root"
  /\ scan' = [scan EXCEPT ![x].pc = "pass", ![x].root = root]
  /\ UNCHANGED <<raisers, woken, heard, rootHeard, queue, listening, forwarding>>

\* What a scan has for a listener, beyond its high-water marks.
News(l, s) == [ints |-> s.ints > heard[l], root |-> s.root > rootHeard[l]]

\* (A mistake: the pipe is emptied again once the scan is done.)
PassThenDrain(x) ==
  LET s == scan[x]
      Tell(l) == Listed(l) /\ News(l, s).ints
      TellRoot(l) == Listed(l) /\ News(l, s).root
  IN /\ s.pc = "pass"
     /\ heard' = [l \in Listeners |-> IF Tell(l) THEN s.ints ELSE heard[l]]
     /\ rootHeard' = [l \in Listeners |-> IF TellRoot(l) THEN s.root ELSE rootHeard[l]]
     /\ queue' = [l \in Listeners |-> queue[l] \o (IF Tell(l) THEN <<Interrupt>> ELSE <<>>)
                                               \o (IF TellRoot(l) THEN <<s.root>> ELSE <<>>)]
     /\ scan' = [scan EXCEPT ![x] = Quiet]
     /\ woken' = (woken /\ x # Reaper)
     /\ UNCHANGED <<raisers, listening, forwarding>>

\* The critical section: every listener is passed what it has not heard, the
\* interrupts raised together as one.
Pass(x) ==
  LET s == scan[x]
      Tell(l) == Listed(l) /\ News(l, s).ints
      TellRoot(l) == Listed(l) /\ News(l, s).root
  IN /\ s.pc = "pass"
     /\ heard' = [l \in Listeners |-> IF Tell(l) THEN s.ints ELSE heard[l]]
     /\ rootHeard' = [l \in Listeners |-> IF TellRoot(l) THEN s.root ELSE rootHeard[l]]
     /\ queue' = [l \in Listeners |-> queue[l] \o (IF Tell(l) THEN <<Interrupt>> ELSE <<>>)
                                               \o (IF TellRoot(l) THEN <<s.root>> ELSE <<>>)]
     /\ scan' = [scan EXCEPT ![x] = Quiet]
     /\ UNCHANGED <<raisers, woken, listening, forwarding>>

-----------------------------------------------------------------------------
(* forward_ambient, its forwarder thread, and AmbientForward's Drop. *)

\* The reaper is installed, and the forwarder started.
Start(l) ==
  /\ status[l] = "new"
  /\ Become(l, "thread")
  /\ UNCHANGED <<raisers, woken, scan, heard, rootHeard, queue, forwarding, since>>

\* (A mistake: a listener begins with nothing heard.)
LoadHeardZero(l) ==
  /\ status[l] = "thread"
  /\ since' = [since EXCEPT ![l] = interrupts]
  /\ Become(l, "loaded")
  /\ UNCHANGED <<raisers, woken, scan, heard, rootHeard, queue, forwarding>>

\* The load that says which interrupts are before this listener's time.
LoadHeard(l) ==
  /\ status[l] = "thread"
  /\ heard' = [heard EXCEPT ![l] = interrupts]
  /\ since' = [since EXCEPT ![l] = interrupts]
  /\ Become(l, "loaded")
  /\ UNCHANGED <<raisers, woken, scan, rootHeard, queue, forwarding>>

\* Pushed under the lock; then a scan of its own.
List(l) ==
  /\ status[l] = "loaded"
  /\ Become(l, "listed")
  /\ scan' = [scan EXCEPT ![l].pc = "interrupts"]
  /\ UNCHANGED <<raisers, woken, heard, rootHeard, queue, forwarding, since>>

\* The guard is returned.
Registered(l) ==
  /\ status[l] = "listed" /\ scan[l].pc = "idle"
  /\ Become(l, "listening")
  /\ UNCHANGED <<raisers, woken, scan, heard, rootHeard, queue, forwarding, since>>

\* rx.iter().for_each(forward): a callback begins, and returns.
Forward(l) ==
  /\ queue[l] # <<>> /\ ~calling[l]
  /\ got' = [got EXCEPT ![l] = Append(@, Head(queue[l]))]
  /\ queue' = [queue EXCEPT ![l] = Tail(@)]
  /\ calling' = [calling EXCEPT ![l] = TRUE]
  /\ UNCHANGED <<raisers, woken, scan, heard, rootHeard, listening>>

Forwarded(l) ==
  /\ calling[l]
  /\ calling' = [calling EXCEPT ![l] = FALSE]
  /\ UNCHANGED <<raisers, woken, scan, heard, rootHeard, queue, listening, got>>

\* Drop: the listener is removed under the lock, its sender with it.
Unregister(l) ==
  /\ status[l] = "listening"
  /\ Become(l, "leaving")
  /\ UNCHANGED <<raisers, woken, scan, heard, rootHeard, queue, forwarding, since>>

\* (A mistake: the drop returns without the thread.)
JoinForwarderNot(l) ==
  /\ status[l] = "leaving"
  /\ Become(l, "gone")
  /\ UNCHANGED <<raisers, woken, scan, heard, rootHeard, queue, forwarding, since>>

\* The forwarder's loop ends with the channel drained, and is joined.
JoinForwarder(l) ==
  /\ status[l] = "leaving" /\ queue[l] = <<>> /\ ~calling[l]
  /\ Become(l, "gone")
  /\ UNCHANGED <<raisers, woken, scan, heard, rootHeard, queue, forwarding, since>>

Init ==
  /\ interrupts = 0 /\ root = 0 /\ handlers = 0 /\ woken = FALSE
  /\ scan = [x \in Scanners |-> Quiet]
  /\ status = [l \in Listeners |-> "new"]
  /\ heard = [l \in Listeners |-> 0] /\ rootHeard = [l \in Listeners |-> 0]
  /\ queue = [l \in Listeners |-> <<>>] /\ got = [l \in Listeners |-> <<>>]
  /\ calling = [l \in Listeners |-> FALSE]
  /\ since = [l \in Listeners |-> 0]

Scan(x)     == LoadInterrupts(x) \/ LoadRoot(x) \/ Pass(x)
Register(l) == LoadHeard(l) \/ List(l) \/ Registered(l)
Deliver(l)  == Forward(l) \/ Forwarded(l)
AllGone     == (\A l \in Listeners : status[l] = "gone") /\ UNCHANGED vars

Next ==
  \/ RaiseInterrupt \/ (\E c \in Roots : RaiseRoot(c)) \/ Kick \/ Sigchld
  \/ ReadPipe \/ (\E x \in Scanners : Scan(x))
  \/ \E l \in Listeners :
       Start(l) \/ Register(l) \/ Deliver(l) \/ Unregister(l) \/ JoinForwarder(l)
  \/ AllGone

Spec == Init /\ [][Next]_vars

-----------------------------------------------------------------------------
(* Properties. *)

Sent(l) == got[l] \o queue[l]

\* "A listener registered after it never hears it", and no signal is heard
\* twice, whichever scans overtake each other: a listener is sent at most the
\* interrupts raised since it registered, and root requests in rising order.
SignalsAreOnesOwn ==
  \A l \in Listeners :
    /\ Cardinality({i \in DOMAIN Sent(l) : Sent(l)[i] = Interrupt}) <= interrupts - since[l]
    /\ \A i, j \in DOMAIN Sent(l) :
         i < j /\ Sent(l)[i] # Interrupt /\ Sent(l)[j] # Interrupt => Sent(l)[i] < Sent(l)[j]

\* Once the guard's drop has returned, its callback neither runs nor will.
GoneIsQuiet ==
  \A l \in Listeners : status[l] = "gone" => ~calling[l] /\ queue[l] = <<>>

\* Handlers return, the reaper and the forwarders are threads that run, a
\* registration and a drop go through, and callbacks return.
FairSpec ==
  /\ Spec
  /\ WF_vars(Kick) /\ WF_vars(ReadPipe)
  /\ \A x \in Scanners : WF_vars(Scan(x))
  /\ \A l \in Listeners : WF_vars(Register(l)) /\ WF_vars(Deliver(l)) /\ WF_vars(JoinForwarder(l))

\* "Reaching every listener registered before this instant": no byte is lost
\* between a handler and a scan. A root request reaches "every listener,
\* whenever it registers."
SignalsReachListeners ==
  \A l \in Listeners :
    /\ \A n \in 1 .. MaxInterrupts :
         (Listed(l) /\ interrupts >= n)
           ~> (status[l] = "gone" \/ (heard[l] >= n /\ queue[l] = <<>>) \/ status[l] = "leaving")
    /\ \A c \in Roots :
         (status[l] = "listening" /\ root >= c)
           ~> (status[l] \in {"leaving", "gone"} \/ \E i \in DOMAIN got[l] : got[l][i] >= c)
=============================================================================
