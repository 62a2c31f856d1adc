-------------------------------- MODULE Wire --------------------------------
(* One front-end and one engine across a wire: carrier.rs and                *)
(* carrier/wire/front.rs on this side, carrier/wire/serve.rs and the scopes  *)
(* of engine.rs on that.  Frames arrive in order or the wire is cut; a write *)
(* may fail, a side may fall silent, the engine's process may die.           *)
EXTENDS Naturals, Sequences, Functions

CONSTANTS MaxIds,      \* bound: requests a front makes
          MaxAsks,     \* bound: enquiries an engine makes
          MaxSignals,  \* bound: interrupts that are forwarded to it
          Late         \* whether a forwarded strike may lag into the next request

ASSUME WireAssumption == /\ MaxIds \in Nat /\ MaxAsks \in Nat /\ MaxSignals \in Nat
                         /\ Late \in BOOLEAN

Ids  == 1..MaxIds
Eids == 1..MaxAsks

VARIABLES
  net,      \* [up, down: frames in flight, shut: the socket is shut down]
  front,    \* the dispatching thread: [at, id, probe, struck (by its own loop), eid]
  mail,     \* the event channel, and the reader that fills it: [events, reader]
  severed,  \* Ends::severance is latched
  session,  \* SessionState
  told,     \* history: ids a strike was written for
  signal,   \* the forwarding thread: [id (loaded from in_flight, or 0), left]
  outcome,  \* history: how each request ended for its caller
  engine,   \* engine_session: [loop, end, busy, queued, fault]
  scopes,   \* Scopes: [current, struck (its scope is cancelled), foretold, root]
  worker,   \* the engine's worker thread: [at, id, eid]
  parks,    \* Parks: where each enquiry is
  ran       \* history: ids whose run or probe the worker has finished

frontVars  == <<front, mail, session, told, signal, outcome>>
engineVars == <<engine, scopes, worker, parks, ran>>
vars == <<net, severed, frontVars, engineVars>>

-----------------------------------------------------------------------------
(* channel.rs: write_or_sever.  A frame is on the wire whole; or the write    *)
(* fails, the socket having been shut down before it (Breaks, by a stall or  *)
(* by the peer) or by it.  What nobody will read is not kept.                *)

Heard(way) == IF way = "up" THEN engine.loop \in {"boot", "serving"} ELSE mail.reader = "reading"
Put(n, way, frame) == IF ~n.shut /\ Heard(way) THEN [n EXCEPT ![way] = Append(@, frame)] ELSE n

Breaks == /\ ~net.shut /\ net' = [net EXCEPT !.shut = TRUE]
          /\ UNCHANGED <<severed, frontVars, engineVars>>

FrontWrites(frame) == /\ net' = Put(net, "up", frame)
                      /\ severed' = (severed \/ net.shut)

EngineWrites(frame) == /\ net' = Put(net, "down", frame)
                       /\ UNCHANGED severed
Faulty == engine.fault \/ net.shut

Event(id, what) == [kind |-> what, id |-> id]
Enquiry(id, eid) == [kind |-> "enquiry", id |-> id, eid |-> eid]

-----------------------------------------------------------------------------
(* The front. *)

At(where) == front.at = where

\* await_attached
Attached == /\ At("attaching") /\ session = "attached" /\ ~severed
            /\ front' = [front EXCEPT !.at = "idle"]
            /\ UNCHANGED <<net, severed, mail, session, told, signal, outcome, engineVars>>

\* A severed transport: await_attached and end turn away.
TurnedAway == /\ At("attaching") \/ At("ending")
              /\ severed /\ (At("ending") => session # "ended")
              /\ front' = [front EXCEPT !.at = "idle"]
              /\ UNCHANGED <<net, severed, mail, session, told, signal, outcome, engineVars>>

\* dispatch_to_report and probe mint an id; a dispatch aims controls at it.
Aim(probe) == /\ At("idle") /\ (probe \/ ~severed) /\ front.id < MaxIds
              /\ Late \/ signal.id = 0
              /\ front' = [front EXCEPT !.at = "aimed", !.id = @ + 1, !.probe = probe, !.struck = FALSE]
              /\ UNCHANGED <<net, severed, mail, session, told, signal, outcome, engineVars>>

Struck(id) == told' = IF net.shut THEN told ELSE told \cup {id}

\* The loop of dispatch_to_report finds its scope cancelled, ahead of its
\* dispatch or after it, and strikes once.
Strike == /\ At("aimed") \/ At("wait")
          /\ ~front.probe /\ ~front.struck
          /\ FrontWrites(Event(front.id, "strike")) /\ Struck(front.id)
          /\ front' = [front EXCEPT !.struck = TRUE]
          /\ UNCHANGED <<mail, session, signal, outcome, engineVars>>

\* ControlSender::hear, interrupt, on another thread: the id in flight is
\* loaded, then struck.
SignalLoads == /\ signal.id = 0 /\ signal.left > 0
               /\ front.at \in {"aimed", "wait", "host"} /\ ~front.probe
               /\ signal' = [id |-> front.id, left |-> signal.left - 1]
               /\ UNCHANGED <<net, severed, front, mail, session, told, outcome, engineVars>>

SignalStrikes == /\ signal.id # 0
                 /\ FrontWrites(Event(signal.id, "strike")) /\ Struck(signal.id)
                 /\ signal' = [signal EXCEPT !.id = 0]
                 /\ UNCHANGED <<front, mail, session, outcome, engineVars>>

\* WireTransport::dispatch, and the sending half of probe.
Dispatch == /\ At("aimed")
            /\ FrontWrites(Event(front.id, IF front.probe THEN "probe" ELSE "dispatch"))
            /\ front' = [front EXCEPT !.at = "wait"]
            /\ UNCHANGED <<mail, session, told, signal, outcome, engineVars>>

\* A run too large for a frame is refused on this side, through the stash.
DispatchUnsendable ==
  /\ At("aimed") /\ ~front.probe
  /\ front' = [front EXCEPT !.at = "wait"]
  /\ mail' = [mail EXCEPT !.events = <<Event(front.id, "refused")>> \o @]
  /\ UNCHANGED <<net, severed, session, told, signal, outcome, engineVars>>

Conclude(how) == /\ front' = [front EXCEPT !.at = "idle", !.eid = 0]
                 /\ outcome' = [outcome EXCEPT ![front.id] = how]

\* (A mistake: whatever comes is taken for one's own.)
MineAll == DOMAIN mail.events
\* The first event the waiting thread acts on: a dispatch takes each in turn
\* and drops another's, a probe sets another's aside for later.
Mine == {i \in DOMAIN mail.events : mail.events[i].id = front.id}
Others(n) == IF front.probe THEN [mail EXCEPT !.events = SubSeq(@, 1, n - 1) \o SubSeq(@, n + 1, Len(@))]
                            ELSE [mail EXCEPT !.events = SubSeq(@, n + 1, Len(@))]
Receive ==
  /\ At("wait")
  /\ \E n \in Mine :
       /\ \A m \in Mine : n <= m
       /\ mail' = Others(n)
       /\ LET it == mail.events[n]
          IN  IF it.kind = "enquiry"
              THEN front' = [front EXCEPT !.at = "host", !.eid = it.eid] /\ UNCHANGED outcome
              ELSE Conclude(it.kind)
  /\ UNCHANGED <<net, severed, session, told, signal, engineVars>>

\* The event stream is closed: the severance, which must be there, is the answer.
Lost == /\ At("wait") /\ mail.reader = "gone" /\ Mine = {}
        /\ Conclude("severed")
        /\ UNCHANGED <<net, severed, mail, session, told, signal, engineVars>>

\* Host::enquire, and the answer sent back.
HostAnswers == /\ At("host")
               /\ FrontWrites([kind |-> "answer", eid |-> front.eid])
               /\ front' = [front EXCEPT !.at = "wait", !.eid = 0]
               /\ UNCHANGED <<mail, session, told, signal, outcome, engineVars>>

\* A host's handler panics, and the dispatch unwinds with its run in flight.
HostPanics == /\ At("host") /\ Conclude("abandoned")
              /\ UNCHANGED <<net, severed, mail, session, told, signal, engineVars>>

\* WireTransport::end
Detach == /\ At("idle") /\ ~severed /\ session # "ended"
          /\ FrontWrites([kind |-> "detach"])
          /\ front' = [front EXCEPT !.at = "ending"]
          /\ UNCHANGED <<mail, session, told, signal, outcome, engineVars>>

Ended == /\ At("ending") /\ session = "ended"
         /\ front' = [front EXCEPT !.at = "ended"]
         /\ UNCHANGED <<net, severed, mail, session, told, signal, outcome, engineVars>>

\* (A mistake: the cause is latched and the socket left open.)
SeverLatched == /\ ~severed /\ severed' = TRUE
                /\ UNCHANGED <<net, frontVars, engineVars>>
\* Line::sever: a heartbeat unanswered, a patience run out, another thread.
Sever == /\ ~severed /\ severed' = TRUE /\ net' = [net EXCEPT !.shut = TRUE]
         /\ UNCHANGED <<frontVars, engineVars>>

\* Drop for WireTransport
Drop == /\ front.at \in {"idle", "ended"}
        /\ front' = [front EXCEPT !.at = "dropped"]
        /\ severed' = TRUE /\ net' = [net EXCEPT !.shut = TRUE]
        /\ mail' = [mail EXCEPT !.events = <<>>]
        /\ UNCHANGED << session, told, signal, outcome, engineVars>>

-----------------------------------------------------------------------------
(* spawn_wire_reader *)

Read == /\ mail.reader = "reading" /\ net.down # <<>>
        /\ LET frame == Head(net.down)
               last  == frame.kind \in {"ended", "denied"}
           IN  /\ net' = [net EXCEPT !.down = IF last THEN <<>> ELSE Tail(@)]
               /\ severed' = (severed \/ frame.kind = "denied")
               /\ session' = IF frame.kind \in {"attached", "ended"} THEN frame.kind ELSE session
               /\ mail' = CASE last                    -> [mail EXCEPT !.reader = "leaving"]
                           [] frame.kind = "attached" -> mail
                           [] At("dropped")           -> mail
                           [] OTHER -> [mail EXCEPT !.events = Append(@, frame)]
        /\ UNCHANGED <<front, told, signal, outcome, engineVars>>

ReaderStops == /\ mail' = [mail EXCEPT !.reader = "leaving"] /\ severed' = TRUE
               /\ net' = [net EXCEPT !.down = <<>>]
               /\ UNCHANGED <<front, session, told, signal, outcome, engineVars>>

\* The wire is closed and read to its end; or the reader looks up from a frame
\* and finds the severance.
ReadClosed  == mail.reader = "reading" /\ net.shut /\ net.down = <<>> /\ ReaderStops
ReadSevered == mail.reader = "reading" /\ severed /\ ReaderStops

\* (A mistake: a reader that was told of the end leaves without a word.)
ReaderExitsSilently ==
  /\ mail.reader = "leaving" /\ mail' = [mail EXCEPT !.reader = "gone"]
  /\ UNCHANGED <<net, severed, front, session, told, signal, outcome, engineVars>>
\* SeverOnExit, and only then is the channel's sender dropped.
ReaderExits ==
  /\ \/ mail.reader = "leaving" /\ mail' = [mail EXCEPT !.reader = "latched"] /\ severed' = TRUE
     \/ mail.reader = "latched" /\ mail' = [mail EXCEPT !.reader = "gone"] /\ UNCHANGED severed
  /\ UNCHANGED <<net, front, session, told, signal, outcome, engineVars>>

-----------------------------------------------------------------------------
(* engine.rs: Scopes. *)

\* open: a fresh scope, struck if the root is or if a strike foretold it.
Open(s, id) == [s EXCEPT !.current = id,
                         !.foretold = IF @ = id THEN 0 ELSE @,
                         !.struck = s.root \/ s.foretold = id]

\* (A mistake: a strike that comes before its dispatch strikes nothing.)
AimOnlyCurrent(s, id) == IF s.current = id THEN [s EXCEPT !.struck = TRUE] ELSE s
\* aim: the current dispatch, or foretold.
Aimed(s, id) == IF s.current = id THEN [s EXCEPT !.struck = TRUE]
                                  ELSE [s EXCEPT !.foretold = id]

\* end: the root, and the current dispatch.
Ending(s) == [s EXCEPT !.root = TRUE, !.struck = s.current # 0]

-----------------------------------------------------------------------------
(* engine_session: the reading thread. *)

Serving == engine.loop = "serving" /\ net.up # <<>>
Next1   == Head(net.up)
Taken   == [net EXCEPT !.up = Tail(@)]

\* The process is gone, and with it all it held.
Gone(net1) ==
  /\ net' = [net1 EXCEPT !.shut = TRUE, !.up = <<>>]
  /\ engine' = [loop |-> "gone", end |-> "none", busy |-> 0, queued |-> 0, fault |-> FALSE]
  /\ scopes' = [current |-> 0, struck |-> FALSE, foretold |-> 0, root |-> FALSE]
  /\ worker' = [at |-> "idle", id |-> 0, eid |-> 0]
  /\ parks' = [eid \in Eids |-> "over"]
  /\ UNCHANGED <<severed, frontVars, ran>>

\* The first frame is the attach; the boot may be refused.
Boot == /\ engine.loop = "boot" /\ net.up # <<>> /\ Next1.kind = "attach"
        /\ \/ /\ net' = Put(Taken, "down", [kind |-> "attached"])
              /\ engine' = [engine EXCEPT !.loop = "serving", !.fault = net.shut]
              /\ UNCHANGED <<severed, frontVars, scopes, worker, parks, ran>>
           \/ Gone(Put(Taken, "down", [kind |-> "denied"]))

\* A dispatch or a probe: the busy flag is claimed, or it is refused.
Admit == /\ Serving /\ Next1.kind \in {"dispatch", "probe"} /\ engine.busy = 0
         /\ net' = Taken
         /\ engine' = [engine EXCEPT !.busy = Next1.id, !.queued = Next1.id]
         /\ scopes' = IF Next1.kind = "dispatch" THEN Open(scopes, Next1.id) ELSE scopes
         /\ UNCHANGED <<severed, frontVars, worker, parks, ran>>

Busy == /\ Serving /\ Next1.kind \in {"dispatch", "probe"} /\ engine.busy # 0
        /\ net' = Put(Taken, "down", Event(Next1.id, "refused"))
        /\ engine' = [engine EXCEPT !.fault = Faulty]
        /\ UNCHANGED <<severed, frontVars, scopes, worker, parks, ran>>

\* Parks::fill: an enquiry no longer parked takes no answer.
Fill == /\ Serving /\ Next1.kind = "answer"
        /\ net' = Taken
        /\ parks' = [parks EXCEPT ![Next1.eid] = IF @ = "parked" THEN "filled" ELSE @]
        /\ UNCHANGED <<severed, frontVars, engine, scopes, worker, ran>>

Apply == /\ Serving /\ Next1.kind = "strike"
         /\ net' = Taken /\ scopes' = Aimed(scopes, Next1.id)
         /\ UNCHANGED <<severed, frontVars, engine, worker, parks, ran>>

\* The process's own signal, or a front's terminate, ends the root at any time.
Terminate == /\ engine.loop = "serving" /\ ~scopes.root
             /\ scopes' = Ending(scopes)
             /\ UNCHANGED <<net, severed, frontVars, engine, worker, parks, ran>>

\* The loop ends: detached; or closed, unreadable or silent. Every run is cancelled.
Leave == /\ engine.loop = "serving"
         /\ \E end \in {"detached", "broken"} :
              /\ IF end = "detached" THEN Serving /\ Next1.kind = "detach"
                                     ELSE net.shut \/ ~Serving
              /\ engine' = [engine EXCEPT !.loop = "settling", !.end = end]
         /\ net' = [net EXCEPT !.up = <<>>]
         /\ scopes' = Ending(scopes)
         /\ UNCHANGED <<severed, frontVars, worker, parks, ran>>

Settled == worker.at = "idle" /\ engine.queued = 0

Done(net1) == engine.loop = "settling" /\ Gone(net1)

\* (A mistake: the end is acknowledged as soon as it is asked for.)
AcknowledgeAtOnce == /\ engine.end = "detached" /\ ~engine.fault
                     /\ Done(Put(net, "down", [kind |-> "ended"]))
\* The worker has settled and no write failed: a detach is acknowledged.
Acknowledge == /\ engine.end = "detached" /\ Settled /\ ~engine.fault
               /\ Done(Put(net, "down", [kind |-> "ended"]))

\* Else the process exits without a word, a loose worker or an expired
\* settlement included; or it is killed.
Exit == Done(net)

Killed == engine.loop # "gone" /\ Gone(net)

-----------------------------------------------------------------------------
(* The engine's worker thread, and the desk its run enquires at. *)

Working(where) == engine.loop # "gone" /\ worker.at = where
IsRun     == worker.id = scopes.current
StruckRun == IsRun /\ scopes.struck

Take == /\ Working("idle") /\ engine.queued # 0
        /\ worker' = [worker EXCEPT !.at = "running", !.id = engine.queued]
        /\ engine' = [engine EXCEPT !.queued = 0]
        /\ UNCHANGED <<net, severed, frontVars, scopes, parks, ran>>

\* WireDesk::enquire: parked, then asked; if it cannot be asked, unparked.
Enquire == /\ Working("running") /\ IsRun
           /\ \E eid \in Eids :
                /\ parks[eid] = "free" /\ \A e \in Eids : e < eid => parks[e] # "free"
                /\ EngineWrites(Enquiry(worker.id, eid))
                /\ engine' = [engine EXCEPT !.fault = Faulty]
                /\ parks' = [parks EXCEPT ![eid] = IF net.shut THEN "over" ELSE "parked"]
                /\ worker' = IF net.shut THEN worker
                             ELSE [worker EXCEPT !.at = "parked", !.eid = eid]
           /\ UNCHANGED <<frontVars, scopes, ran>>

Answered == /\ Working("parked") /\ parks[worker.eid] = "filled"
            /\ worker' = [worker EXCEPT !.at = "running", !.eid = 0]
            /\ parks' = [parks EXCEPT ![worker.eid] = "over"]
            /\ UNCHANGED <<net, severed, frontVars, engine, scopes, ran>>

\* (A mistake: the stop leaves its sender in the table.)
StoppedParked == /\ Working("parked") /\ StruckRun
                 /\ worker' = [worker EXCEPT !.at = "running", !.eid = 0]
                 /\ UNCHANGED <<net, severed, frontVars, engine, scopes, parks, ran>>
\* A stop wakes the parked enquiry, and unparks it.
Stopped == /\ Working("parked") /\ StruckRun
           /\ worker' = [worker EXCEPT !.at = "running", !.eid = 0]
           /\ parks' = [parks EXCEPT ![worker.eid] = "over"]
           /\ UNCHANGED <<net, severed, frontVars, engine, scopes, ran>>

\* The run ends, on its own, stopped or panicking: its event is made.
Finish == /\ Working("running")
          /\ worker' = [worker EXCEPT !.at = "made"] /\ ran' = ran \cup {worker.id}
          /\ UNCHANGED <<net, severed, frontVars, engine, scopes, parks>>

\* (A mistake: the event goes out first.)
ReleaseLast ==
  \/ /\ Working("made")
     /\ EngineWrites(Event(worker.id, "report"))
     /\ worker' = [worker EXCEPT !.at = "free"]
     /\ engine' = [engine EXCEPT !.fault = Faulty]
     /\ UNCHANGED <<frontVars, scopes, parks, ran>>
  \/ /\ Working("free")
     /\ worker' = [worker EXCEPT !.at = "idle", !.id = 0]
     /\ engine' = [engine EXCEPT !.busy = 0]
     /\ UNCHANGED <<net, severed, frontVars, scopes, parks, ran>>
\* The claim is dropped, and then the event is written.
ReleaseThenReport ==
  \/ /\ Working("made")
     /\ worker' = [worker EXCEPT !.at = "free"]
     /\ engine' = [engine EXCEPT !.busy = 0]
     /\ UNCHANGED <<net, severed, frontVars, scopes, parks, ran>>
  \/ /\ Working("free")
     /\ EngineWrites(Event(worker.id, "report"))
     /\ worker' = [worker EXCEPT !.at = "idle", !.id = 0]
     /\ engine' = [engine EXCEPT !.fault = Faulty]
     /\ UNCHANGED <<frontVars, scopes, parks, ran>>

-----------------------------------------------------------------------------

Init ==
  /\ net = [up |-> <<[kind |-> "attach"]>>, down |-> <<>>, shut |-> FALSE]
  /\ front = [at |-> "attaching", id |-> 0, probe |-> FALSE, struck |-> FALSE, eid |-> 0]
  /\ mail = [events |-> <<>>, reader |-> "reading"]
  /\ severed = FALSE /\ session = "opening" /\ signal = [id |-> 0, left |-> MaxSignals]
  /\ told = {} /\ ran = {}
  /\ outcome = [id \in Ids |-> "none"]
  /\ engine = [loop |-> "boot", end |-> "none", busy |-> 0, queued |-> 0, fault |-> FALSE]
  /\ scopes = [current |-> 0, struck |-> FALSE, foretold |-> 0, root |-> FALSE]
  /\ worker = [at |-> "idle", id |-> 0, eid |-> 0]
  /\ parks = [eid \in Eids |-> "free"]

FrontNext == \/ Attached \/ TurnedAway \/ (\E p \in BOOLEAN : Aim(p)) \/ Strike \/ SignalLoads \/ SignalStrikes
             \/ Dispatch \/ DispatchUnsendable \/ Receive \/ Lost \/ HostAnswers
             \/ HostPanics \/ Detach \/ Ended \/ Breaks \/ Sever \/ Drop \/ Read \/ ReadClosed \/ ReadSevered \/ ReaderExits

EngineNext == \/ Boot \/ Admit \/ Busy \/ Fill \/ Apply \/ Terminate \/ Leave \/ Acknowledge
              \/ Exit \/ Killed \/ Take \/ Enquire \/ Answered \/ Stopped \/ Finish
              \/ ReleaseThenReport

Next == FrontNext \/ EngineNext

Spec == Init /\ [][Next]_vars

\* Each thread takes the step it has; a run may go on for ever unless stopped,
\* a probe is soon over, nobody need sever, detach or die, and the engine's
\* settlement is not let expire.
Heeds == (StruckRun \/ ~IsRun) /\ Finish
Fairness ==
  /\ WF_vars(Attached \/ TurnedAway \/ Ended) /\ WF_vars(Dispatch \/ DispatchUnsendable)
  /\ WF_vars(Receive \/ Lost \/ HostAnswers)
  /\ WF_vars(Read \/ ReadClosed) /\ WF_vars(ReaderExits)
  /\ WF_vars(Boot \/ Admit \/ Busy \/ Fill \/ Apply \/ (net.shut /\ Leave)
             \/ Acknowledge \/ (Settled /\ Exit))
  /\ WF_vars(Take \/ Answered \/ Stopped \/ Heeds \/ ReleaseThenReport)

FairSpec == Spec /\ Fairness

-----------------------------------------------------------------------------
(* Properties. *)

Events     == [kind : {"report", "refused"}, id : Ids]
              \cup [kind : {"enquiry"}, id : Ids, eid : Eids]
UpFrames   == [kind : {"attach", "detach"}] \cup [kind : {"answer"}, eid : Eids]
              \cup [kind : {"dispatch", "probe", "strike"}, id : Ids]
DownFrames == [kind : {"attached", "denied", "ended"}] \cup Events

NetOK ==
  /\ net \in [up : Seq(UpFrames), down : Seq(DownFrames), shut : BOOLEAN]
  /\ severed \in BOOLEAN

FrontOK ==
  /\ front \in [at : {"attaching", "idle", "aimed", "wait", "host", "ending", "ended", "dropped"},
                id : 0..MaxIds, probe : BOOLEAN, struck : BOOLEAN, eid : 0..MaxAsks]
  /\ mail \in [events : Seq(Events), reader : {"reading", "leaving", "latched", "gone"}]
  /\ session \in {"opening", "attached", "ended"} /\ told \subseteq Ids
  /\ signal \in [id : 0..MaxIds, left : 0..MaxSignals]
  /\ outcome \in [Ids -> {"none", "report", "refused", "severed", "abandoned"}]
  /\ front.at \in {"aimed", "wait", "host"} => front.id \in Ids
  /\ At("host") => front.eid \in Eids

EngineOK ==
  /\ engine \in [loop : {"boot", "serving", "settling", "gone"}, end : {"none", "detached", "broken"},
                 busy : 0..MaxIds, queued : 0..MaxIds, fault : BOOLEAN]
  /\ scopes \in [current : 0..MaxIds, struck : BOOLEAN, foretold : 0..MaxIds, root : BOOLEAN]
  /\ worker \in [at : {"idle", "running", "parked", "made", "free"}, id : 0..MaxIds, eid : 0..MaxAsks]
  /\ parks \in [Eids -> {"free", "parked", "filled", "over"}] /\ ran \subseteq Ids
  /\ worker.at = "idle" <=> worker.id = 0
  /\ worker.at = "parked" => worker.eid \in Eids
  /\ engine.queued # 0 => engine.queued = engine.busy

TypeOK == NetOK /\ FrontOK /\ EngineOK

\* The `expect` on a closed event stream never fires: a cause is always there
\* before the channel closes, however the reader came to leave.
SeversFirst == mail.reader = "gone" => severed

\* A front that asks one thing at a time is never told "engine busy", but for
\* a run it has itself abandoned.
BusyOnlyAfterAbandon ==
  Serving /\ Next1.kind \in {"dispatch", "probe"} /\ engine.busy # 0
    => outcome[engine.busy] = "abandoned"

\* No enquiry stays parked past the run that made it, and none is filled twice.
NothingStaysParked ==
  ~Working("parked") /\ engine.loop # "gone" => \A eid \in Eids : parks[eid] \in {"free", "over"}

\* Once the session is ending, whatever run is in hand is being stopped,
\* admitted before the end or after it.
EndReachesRuns == scopes.root => (scopes.struck \/ scopes.current = 0)

\* "A strike can precede its dispatch: the engine opens it born cancelled."
\* A strike the engine has taken off the wire has struck the run it names.
BornCancelled ==
  engine.loop = "serving" /\ scopes.current \in told
    => \/ scopes.struck
       \/ Event(scopes.current, "strike") \in Range(net.up)

\* An end acknowledged is a whole one: each request the engine took has run to
\* its end, one its caller abandoned included, and each was told the truth.
EndIsClean ==
  At("ended") =>
    \A id \in 1..front.id : IF id \in ran THEN outcome[id] \in {"report", "abandoned"}
                                         ELSE outcome[id] = "refused"

\* Nobody is left waiting. A caller blocked on a cut wire learns of it, and the
\* engine cancels what it runs, parked on an enquiry or not, and leaves; a run
\* whose scope was cancelled is concluded, wherever the strike met it.
WaitsConclude == /\ severed ~> front.at \in {"idle", "ended", "dropped"}
                 /\ net.shut ~> engine.loop = "gone"
                 /\ \A id \in Ids : id \in told ~> outcome[id] # "none"

\* What the caller sees is what Requests promises.
Promised == INSTANCE Requests WITH asked <- front.id, done <- ran, cut <- severed
KeepsPromise == Promised!Spec
=============================================================================
