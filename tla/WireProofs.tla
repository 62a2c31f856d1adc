----------------------------- MODULE WireProofs -----------------------------
(* Theorems about Wire, for every number of requests and enquiries. *)
EXTENDS Wire, TLAPS

NetType == [up : Seq(UpFrames), down : Seq(DownFrames), shut : BOOLEAN]

-----------------------------------------------------------------------------
(* Sequences of frames, by what is in them. *)

LEMMA AppendRange ==
  ASSUME NEW S, NEW s \in Seq(S), NEW e \in S
  PROVE  Append(s, e) \in Seq(S) /\ Range(Append(s, e)) = Range(s) \cup {e}
  BY DEF Range

LEMMA TailRange ==
  ASSUME NEW S, NEW s \in Seq(S), s # <<>>
  PROVE  /\ Head(s) \in S /\ Head(s) \in Range(s)
         /\ Tail(s) \in Seq(S) /\ Range(Tail(s)) \subseteq Range(s)
<1>1. Head(s) \in S /\ Head(s) = s[1] /\ 1 \in DOMAIN s /\ Tail(s) \in Seq(S)
  OBVIOUS
<1>2. \A i \in DOMAIN Tail(s) : i + 1 \in DOMAIN s /\ Tail(s)[i] = s[i + 1]
  OBVIOUS
<1> QED BY <1>1, <1>2 DEF Range

LEMMA SubRange ==
  ASSUME NEW S, NEW s \in Seq(S), NEW n \in DOMAIN s
  PROVE  /\ SubSeq(s, n + 1, Len(s)) \in Seq(S)
         /\ Range(SubSeq(s, n + 1, Len(s))) \subseteq Range(s)
         /\ SubSeq(s, 1, n - 1) \o SubSeq(s, n + 1, Len(s)) \in Seq(S)
         /\ Range(SubSeq(s, 1, n - 1) \o SubSeq(s, n + 1, Len(s))) \subseteq Range(s)
<1> DEFINE a == SubSeq(s, 1, n - 1)
           b == SubSeq(s, n + 1, Len(s))
<1>1. n \in 1..Len(s)
  OBVIOUS
<1>2. /\ b \in Seq(S) /\ Len(b) = Len(s) - n
      /\ \A i \in 1..Len(b) : b[i] = s[n + i] /\ n + i \in DOMAIN s
  BY <1>1
<1>3. /\ a \in Seq(S) /\ Len(a) = n - 1
      /\ \A i \in 1..Len(a) : a[i] = s[i] /\ i \in DOMAIN s
  BY <1>1
<1> HIDE DEF a, b
<1>4. /\ a \o b \in Seq(S)
      /\ \A i \in DOMAIN (a \o b) : \/ i \in 1..Len(a) /\ (a \o b)[i] = a[i]
                                    \/ i - Len(a) \in 1..Len(b) /\ (a \o b)[i] = b[i - Len(a)]
  BY <1>2, <1>3
<1>5. Range(b) \subseteq Range(s)
  BY <1>2 DEF Range
<1>6. Range(a \o b) \subseteq Range(s)
  BY <1>2, <1>3, <1>4 DEF Range
<1> QED BY <1>2, <1>4, <1>5, <1>6 DEF a, b

-----------------------------------------------------------------------------
(* Writes. *)

LEMMA PutUp ==
  ASSUME NEW n \in NetType, NEW f \in UpFrames
  PROVE  /\ Put(n, "up", f) \in NetType
         /\ Put(n, "up", f).down = n.down /\ Put(n, "up", f).shut = n.shut
         /\ Put(n, "up", f).up \in {n.up, Append(n.up, f)}
  BY AppendRange DEF Put, NetType

LEMMA PutDown ==
  ASSUME NEW n \in NetType, NEW f \in DownFrames
  PROVE  /\ Put(n, "down", f) \in NetType
         /\ Put(n, "down", f).up = n.up /\ Put(n, "down", f).shut = n.shut
         /\ Put(n, "down", f).down \in {n.down, Append(n.down, f)}
  BY AppendRange DEF Put, NetType

LEMMA TakenFits ==
  ASSUME NetOK, net.up # <<>>
  PROVE  /\ Taken \in NetType /\ Taken.down = net.down /\ Taken.shut = net.shut
         /\ Taken.up = Tail(net.up) /\ Next1 \in UpFrames /\ Next1 \in Range(net.up)
         /\ Range(Taken.up) \subseteq Range(net.up)
  BY TailRange DEF NetOK, NetType, Taken, Next1

LEMMA FramesFit ==
  /\ \A id \in Ids, what \in {"report", "refused"} :
       Event(id, what) \in Events /\ Event(id, what) \in DownFrames
  /\ \A id \in Ids, what \in {"dispatch", "probe", "strike"} : Event(id, what) \in UpFrames
  /\ \A id \in Ids, eid \in Eids : Enquiry(id, eid) \in Events /\ Enquiry(id, eid) \in DownFrames
  BY DEF Event, Enquiry, Events, UpFrames, DownFrames

-----------------------------------------------------------------------------
(* TypeOK is an invariant. *)

LEMMA FrontStays ==
  ASSUME FrontOK, UNCHANGED frontVars
  PROVE  FrontOK'
  BY DEF FrontOK, frontVars, At

LEMMA EngineStays ==
  ASSUME EngineOK, UNCHANGED engineVars
  PROVE  EngineOK'
  BY DEF EngineOK, engineVars

LEMMA Bounds == /\ 0 \in 0..MaxIds /\ 0 \in 0..MaxAsks /\ 0 \in 0..MaxSignals 
                /\ MaxIds \in Nat /\ MaxAsks \in Nat /\ MaxSignals \in Nat
                /\ MaxSignals \in 0..MaxSignals
  BY WireAssumption

LEMMA InitTypeOK == Init => TypeOK
<1> SUFFICES ASSUME Init PROVE TypeOK
  OBVIOUS
<1>1. NetOK
  <2>1. [kind |-> "attach"] \in UpFrames
    BY DEF UpFrames
  <2>2. <<[kind |-> "attach"]>> \in Seq(UpFrames) /\ <<>> \in Seq(DownFrames)
    BY <2>1
  <2> QED BY <2>2 DEF Init, NetOK
<1>2. FrontOK
  BY Bounds DEF Init, FrontOK, At, Events, Ids
<1>3. EngineOK
  BY Bounds DEF Init, EngineOK, Ids
<1> QED BY <1>1, <1>2, <1>3 DEF TypeOK

FrontType == [at : {"attaching", "idle", "aimed", "wait", "host", "ending", "ended", "dropped"},
              id : 0..MaxIds, probe : BOOLEAN, struck : BOOLEAN, eid : 0..MaxAsks]

\* A front writes a frame: only the wire and the latch can move.
LEMMA FrontWritesFits ==
  ASSUME NetOK, NEW f \in UpFrames, FrontWrites(f)
  PROVE  NetOK'
  BY PutUp DEF NetOK, NetType, FrontWrites

LEMMA EngineWritesFits ==
  ASSUME NetOK, NEW f \in DownFrames, EngineWrites(f)
  PROVE  NetOK'
  BY PutDown DEF NetOK, NetType, EngineWrites

LEMMA MineFits ==
  ASSUME FrontOK, NEW n \in Mine
  PROVE  /\ n \in DOMAIN mail.events /\ mail.events[n] \in Events
         /\ mail.events[n] \in Range(mail.events) /\ mail.events[n].id = front.id
         /\ Others(n) \in [events : Seq(Events), reader : {"reading", "leaving", "latched", "gone"}]
         /\ Others(n).reader = mail.reader
         /\ Range(Others(n).events) \subseteq Range(mail.events)
<1>1. mail.events \in Seq(Events) /\ n \in DOMAIN mail.events /\ mail.events[n].id = front.id
  BY DEF FrontOK, Mine
<1>2. mail.events[n] \in Events /\ mail.events[n] \in Range(mail.events)
  BY <1>1 DEF Range
<1> QED BY <1>1, <1>2, SubRange DEF FrontOK, Others

LEMMA FrontStepTypeOK ==
  ASSUME TypeOK, FrontNext
  PROVE  TypeOK'
<1> USE DEF TypeOK
<1>1. CASE Attached
  <2>1. NetOK'
    BY <1>1 DEF Attached, NetOK
  <2>2. FrontOK'
    BY <1>1, Bounds DEF Attached, FrontOK, At, Ids
  <2>3. EngineOK'
    BY <1>1, EngineStays DEF Attached
  <2> QED BY <2>1, <2>2, <2>3
<1>2. CASE TurnedAway
  <2>1. NetOK'
    BY <1>2 DEF TurnedAway, NetOK
  <2>2. FrontOK'
    BY <1>2, Bounds DEF TurnedAway, FrontOK, At, Ids
  <2>3. EngineOK'
    BY <1>2, EngineStays DEF TurnedAway
  <2> QED BY <2>1, <2>2, <2>3
<1>3. CASE \E p \in BOOLEAN : Aim(p)
  <2>1. PICK p \in BOOLEAN : Aim(p)
    BY <1>3
  <2>2. front.id + 1 \in 0..MaxIds /\ front.id + 1 \in Ids /\ front \in FrontType
    BY <2>1, Bounds DEF Aim, FrontOK, FrontType, Ids
  <2>3. front' \in FrontType /\ front'.at = "aimed" /\ front'.id \in Ids
    BY <2>1, <2>2 DEF Aim, FrontType
  <2>4. FrontOK'
    BY <2>1, <2>3 DEF Aim, FrontOK, FrontType, At
  <2> QED BY <2>1, <2>4, EngineStays DEF Aim, NetOK
<1>4. CASE Strike
  <2>1. NetOK'
    BY <1>4, FrontWritesFits, FramesFit DEF Strike, FrontOK, At
  <2>2. FrontOK'
    BY <1>4, Bounds DEF Strike, FrontOK, At, Ids, Struck
  <2>3. EngineOK'
    BY <1>4, EngineStays DEF Strike
  <2> QED BY <2>1, <2>2, <2>3
<1>5. CASE SignalLoads
  <2>1. NetOK'
    BY <1>5 DEF SignalLoads, NetOK
  <2>2. FrontOK'
    <3>1. front.id \in 0..MaxIds /\ signal.left - 1 \in 0..MaxSignals
      BY <1>5, Bounds DEF SignalLoads, FrontOK
    <3> QED BY <1>5, <3>1 DEF SignalLoads, FrontOK, At
  <2>3. EngineOK'
    BY <1>5, EngineStays DEF SignalLoads
  <2> QED BY <2>1, <2>2, <2>3
<1>6. CASE SignalStrikes
  <2>1. NetOK'
    BY <1>6, FrontWritesFits, FramesFit DEF SignalStrikes, FrontOK, Ids
  <2>2. FrontOK'
    BY <1>6, Bounds DEF SignalStrikes, FrontOK, At, Ids, Struck
  <2>3. EngineOK'
    BY <1>6, EngineStays DEF SignalStrikes
  <2> QED BY <2>1, <2>2, <2>3
<1>7. CASE Dispatch
  <2>1. NetOK'
    BY <1>7, FrontWritesFits, FramesFit DEF Dispatch, FrontOK, At
  <2>2. FrontOK'
    BY <1>7, Bounds DEF Dispatch, FrontOK, At, Ids
  <2>3. EngineOK'
    BY <1>7, EngineStays DEF Dispatch
  <2> QED BY <2>1, <2>2, <2>3
<1>8. CASE DispatchUnsendable
  <2>1. Event(front.id, "refused") \in Events
    BY <1>8, FramesFit DEF DispatchUnsendable, At, FrontOK
  <2>2. <<Event(front.id, "refused")>> \o mail.events \in Seq(Events)
    BY <2>1 DEF FrontOK
  <2>3. FrontOK'
    BY <1>8, <2>2 DEF DispatchUnsendable, FrontOK, At
  <2> QED BY <1>8, <2>3, EngineStays DEF DispatchUnsendable, NetOK
<1>9. CASE Receive
  <2>1. PICK n \in Mine :
          /\ mail' = Others(n)
          /\ IF mail.events[n].kind = "enquiry"
             THEN /\ front' = [front EXCEPT !.at = "host", !.eid = mail.events[n].eid]
                  /\ UNCHANGED outcome
             ELSE Conclude(mail.events[n].kind)
    BY <1>9 DEF Receive
  <2>2. /\ mail.events[n] \in Events /\ front.id \in Ids
        /\ mail' \in [events : Seq(Events), reader : {"reading", "leaving", "latched", "gone"}]
    BY <1>9, <2>1, MineFits DEF Receive, At, FrontOK
  <2>3. CASE mail.events[n].kind = "enquiry"
    <3>1. mail.events[n].eid \in Eids
      BY <2>2, <2>3 DEF Events
    <3> DEFINE e == mail.events[n].eid
    <3>4. e \in 0..MaxAsks /\ front \in FrontType
      BY <3>1, Bounds DEF Eids, FrontOK, FrontType
    <3>5. front' = [front EXCEPT !.at = "host", !.eid = e]
      BY <2>1, <2>3
    <3> HIDE DEF e
    <3>2. front' \in FrontType /\ front'.eid = e /\ front'.id = front.id /\ front'.at = "host"
      BY <3>4, <3>5 DEF FrontType
    <3> USE DEF e
    <3>3. FrontOK'
      BY <1>9, <2>1, <2>2, <2>3, <3>1, <3>2 DEF Receive, FrontOK, FrontType, At
    <3> QED BY <1>9, <3>3, EngineStays DEF Receive, NetOK
  <2>4. CASE mail.events[n].kind # "enquiry"
    <3>1. mail.events[n].kind \in {"report", "refused"}
      BY <2>2, <2>4 DEF Events
    <3>2. front' \in FrontType /\ front'.at = "idle"
      BY <2>1, <2>2, <2>4, Bounds DEF FrontOK, FrontType, Conclude
    <3>3. FrontOK'
      BY <1>9, <2>1, <2>2, <2>4, <3>1, <3>2 DEF Receive, FrontOK, FrontType, At, Conclude
    <3> QED BY <1>9, <3>3, EngineStays DEF Receive, NetOK
  <2> QED BY <2>3, <2>4
<1>10. CASE Lost
  <2>1. /\ front' \in FrontType
        /\ front'.at \notin {"wait", "host"} /\ (front'.at = "aimed" => front'.id \in Ids)
    BY <1>10, Bounds DEF Lost, FrontOK, FrontType, At, Ids, Conclude
  <2>2. FrontOK'
    BY <1>10, <2>1 DEF Lost, FrontOK, FrontType, At, Conclude
  <2> QED BY <1>10, <2>2, EngineStays DEF Lost, NetOK, Conclude
<1>11. CASE HostAnswers
  <2>1. [kind |-> "answer", eid |-> front.eid] \in UpFrames
    BY <1>11 DEF HostAnswers, UpFrames, FrontOK, At
  <2>2. NetOK'
    BY <1>11, <2>1, FrontWritesFits DEF HostAnswers
  <2>3. front' \in FrontType /\ front'.at = "wait" /\ front'.id \in Ids
    BY <1>11, Bounds DEF HostAnswers, FrontOK, FrontType, At
  <2>4. FrontOK'
    BY <1>11, <2>3 DEF HostAnswers, FrontOK, FrontType, At
  <2> QED BY <1>11, <2>2, <2>4, EngineStays DEF HostAnswers
<1>12. CASE HostPanics
  <2>1. /\ front' \in FrontType
        /\ front'.at \notin {"wait", "host"} /\ (front'.at = "aimed" => front'.id \in Ids)
    BY <1>12, Bounds DEF HostPanics, FrontOK, FrontType, At, Ids, Conclude
  <2>2. FrontOK'
    BY <1>12, <2>1 DEF HostPanics, FrontOK, FrontType, At, Conclude
  <2> QED BY <1>12, <2>2, EngineStays DEF HostPanics, NetOK, Conclude
<1>13. CASE Detach
  <2>1. NetOK'
    BY <1>13, FrontWritesFits DEF Detach, UpFrames
  <2>2. FrontOK'
    BY <1>13, Bounds DEF Detach, FrontOK, At, Ids
  <2>3. EngineOK'
    BY <1>13, EngineStays DEF Detach
  <2> QED BY <2>1, <2>2, <2>3
<1>14. CASE Ended
  <2>1. NetOK'
    BY <1>14 DEF Ended, NetOK
  <2>2. FrontOK'
    BY <1>14, Bounds DEF Ended, FrontOK, At, Ids
  <2>3. EngineOK'
    BY <1>14, EngineStays DEF Ended
  <2> QED BY <2>1, <2>2, <2>3
<1>15. CASE Breaks
  <2>1. NetOK'
    BY <1>15 DEF Breaks, NetOK
  <2> QED BY <1>15, <2>1, FrontStays, EngineStays DEF Breaks
<1>16. CASE Sever
  <2>1. NetOK'
    BY <1>16 DEF Sever, NetOK
  <2> QED BY <1>16, <2>1, FrontStays, EngineStays DEF Sever
<1>17. CASE Drop
  <2>1. /\ front' \in FrontType
        /\ front'.at \notin {"wait", "host"} /\ (front'.at = "aimed" => front'.id \in Ids)
    BY <1>17, Bounds DEF Drop, FrontOK, FrontType, At, Ids
  <2>2. FrontOK'
    <3>1. mail' \in [events : Seq(Events), reader : {"reading", "leaving", "latched", "gone"}]
      <4>1. <<>> \in Seq(Events)
        OBVIOUS
      <4> QED BY <1>17, <4>1 DEF Drop, FrontOK
    <3> QED BY <1>17, <2>1, <3>1 DEF Drop, FrontOK, FrontType, At
  <2> QED BY <1>17, <2>2, EngineStays DEF Drop, NetOK
<1>18. CASE Read
  <2> DEFINE f == Head(net.down)
  <2>1. f \in DownFrames /\ Tail(net.down) \in Seq(DownFrames)
    BY <1>18, TailRange DEF Read, NetOK
  <2>2. net' \in NetType
    <3>1. (IF f.kind \in {"ended", "denied"} THEN <<>> ELSE Tail(net.down)) \in Seq(DownFrames)
      BY <2>1
    <3> QED BY <1>18, <3>1 DEF Read, NetOK, NetType
  <2>7. severed' \in BOOLEAN
    BY <1>18 DEF Read, NetOK
  <2>3. f.kind \notin {"attached", "denied", "ended"} => f \in Events
    BY <2>1 DEF DownFrames
  <2>4. f.kind \notin {"attached", "denied", "ended"} => Append(mail.events, f) \in Seq(Events)
    BY <2>3 DEF FrontOK
  <2>5. /\ mail' \in [events : Seq(Events), reader : {"reading", "leaving", "latched", "gone"}]
        /\ session' \in {"opening", "attached", "ended"}
    BY <1>18, <2>4 DEF Read, FrontOK
  <2>6. FrontOK'
    BY <1>18, <2>5 DEF Read, FrontOK, At
  <2> QED BY <1>18, <2>2, <2>6, <2>7, EngineStays DEF Read, NetOK, NetType
<1>19. CASE ReadClosed
  <2>1. NetOK'
    BY <1>19 DEF ReadClosed, NetOK, ReaderStops
  <2>2. FrontOK'
    BY <1>19, Bounds DEF ReadClosed, FrontOK, At, Ids, ReaderStops
  <2>3. EngineOK'
    BY <1>19, EngineStays DEF ReadClosed, ReaderStops
  <2> QED BY <2>1, <2>2, <2>3
<1>20. CASE ReadSevered
  <2>1. NetOK'
    <3>3. ReaderStops
      BY <1>20 DEF ReadSevered
    <3>1. net' \in NetType
      <4>1. <<>> \in Seq(DownFrames) /\ net \in NetType
        BY DEF NetOK, NetType
      <4> QED BY <3>3, <4>1 DEF ReaderStops, NetType
    <3>2. severed' \in BOOLEAN
      BY <1>20 DEF ReadSevered, ReaderStops
    <3> QED BY <3>1, <3>2 DEF NetOK, NetType
  <2>2. FrontOK'
    BY <1>20, Bounds DEF ReadSevered, FrontOK, At, Ids, ReaderStops
  <2>3. EngineOK'
    BY <1>20, EngineStays DEF ReadSevered, ReaderStops
  <2> QED BY <2>1, <2>2, <2>3
<1>21. CASE ReaderExits
  <2>1. NetOK'
    BY <1>21 DEF ReaderExits, NetOK
  <2>2. FrontOK'
    BY <1>21, Bounds DEF ReaderExits, FrontOK, At, Ids
  <2>3. EngineOK'
    BY <1>21, EngineStays DEF ReaderExits
  <2> QED BY <2>1, <2>2, <2>3
<1> QED
  BY <1>1, <1>2, <1>3, <1>4, <1>5, <1>6, <1>7, <1>8, <1>9, <1>10, <1>11, <1>12, <1>13, <1>14, <1>15, <1>16, <1>17, <1>18, <1>19, <1>20, <1>21 DEF FrontNext

EngineType == [loop : {"boot", "serving", "settling", "gone"}, end : {"none", "detached", "broken"},
               busy : 0..MaxIds, queued : 0..MaxIds, fault : BOOLEAN]
ScopesType == [current : 0..MaxIds, struck : BOOLEAN, foretold : 0..MaxIds, root : BOOLEAN]
WorkerType == [at : {"idle", "running", "parked", "made", "free"}, id : 0..MaxIds, eid : 0..MaxAsks]

\* What the type invariant needs to be inductive: the claim on the engine is
\* the worker's own until it drops it.
Claimed == worker.at \in {"running", "parked", "made"}
             => engine.queued = 0 /\ engine.busy = worker.id

LEMMA GoneFits ==
  ASSUME NetOK, FrontOK, EngineOK, NEW n \in NetType, Gone(n)
  PROVE  /\ NetOK' /\ FrontOK' /\ EngineOK' /\ Claimed'
         /\ net'.up = <<>> /\ net'.down = n.down
<1>1. net' \in NetType /\ net'.up = <<>> /\ net'.down = n.down
  <2>1. <<>> \in Seq(UpFrames)
    OBVIOUS
  <2> QED BY <2>1 DEF Gone, NetType
<1>2. EngineOK'
  BY Bounds DEF Gone, EngineOK
<1>3. Claimed'
  BY DEF Gone, Claimed
<1>4. FrontOK'
  BY FrontStays DEF Gone
<1> QED BY <1>1, <1>2, <1>3, <1>4 DEF Gone, NetOK, NetType

LEMMA ScopesFit ==
  ASSUME NEW s \in ScopesType, NEW id \in Ids
  PROVE  Open(s, id) \in ScopesType /\ Aimed(s, id) \in ScopesType /\ Ending(s) \in ScopesType
<1>1. id \in 0..MaxIds /\ 0 \in 0..MaxIds
  BY Bounds DEF Ids
<1>2. (s.root \/ s.foretold = id) \in BOOLEAN /\ (s.current # 0) \in BOOLEAN
  OBVIOUS
<1>3. Open(s, id) \in ScopesType
  BY <1>1, <1>2 DEF Open, ScopesType
<1>4. Aimed(s, id) \in ScopesType
  BY <1>1 DEF Aimed, ScopesType
<1>5. Ending(s) \in ScopesType
  BY <1>2 DEF Ending, ScopesType
<1> QED BY <1>3, <1>4, <1>5

LEMMA EndingFits ==
  ASSUME NEW s \in ScopesType
  PROVE  Ending(s) \in ScopesType
<1>1. (s.current # 0) \in BOOLEAN
  OBVIOUS
<1> QED BY <1>1 DEF Ending, ScopesType

LEMMA FaultyFits ==
  ASSUME NetOK, EngineOK
  PROVE  Faulty \in BOOLEAN /\ [engine EXCEPT !.fault = Faulty] \in EngineType
<1>1. Faulty \in BOOLEAN
  BY DEF Faulty
<1> QED BY <1>1 DEF EngineOK, EngineType

LEMMA EngineStepTypeOK ==
  ASSUME TypeOK, Claimed, EngineNext
  PROVE  TypeOK' /\ Claimed'
<1> USE DEF TypeOK
<1>1. CASE Boot
  <2>1. Taken \in NetType /\ [kind |-> "attached"] \in DownFrames /\ [kind |-> "denied"] \in DownFrames
    BY <1>1, TakenFits DEF Boot, DownFrames
  <2>2. CASE Gone(Put(Taken, "down", [kind |-> "denied"]))
    BY <2>1, <2>2, GoneFits, PutDown
  <2>3. CASE /\ net' = Put(Taken, "down", [kind |-> "attached"])
             /\ engine' = [engine EXCEPT !.loop = "serving", !.fault = net.shut]
             /\ UNCHANGED <<severed, frontVars, scopes, worker, parks, ran>>
    <3>1. NetOK'
      BY <2>1, <2>3, PutDown DEF NetOK, NetType
    <3>2. net.shut \in BOOLEAN
      BY DEF NetOK
    <3>3. EngineOK' /\ Claimed'
      BY <2>3, <3>2 DEF EngineOK, Claimed
    <3> QED BY <2>3, <3>1, <3>3, FrontStays
  <2> QED BY <1>1, <2>2, <2>3 DEF Boot
<1>2. CASE Admit
  <2>1. Taken \in NetType /\ Next1 \in UpFrames
    BY <1>2, TakenFits DEF Admit, Serving
  <2>2. Next1.id \in Ids /\ Next1.id \in 0..MaxIds
    BY <1>2, <2>1, Bounds DEF Admit, UpFrames, Ids
  <2>3. scopes' \in ScopesType
    BY <1>2, <2>2, ScopesFit DEF Admit, EngineOK, ScopesType
  <2>4. engine' \in EngineType /\ engine'.queued = engine'.busy
    BY <1>2, <2>2 DEF Admit, EngineOK, EngineType
  <2>5. worker.at \notin {"running", "parked", "made"}
    BY <1>2, Bounds DEF Admit, Claimed, EngineOK
  <2>6. EngineOK' /\ Claimed'
    BY <1>2, <2>3, <2>4, <2>5 DEF Admit, EngineOK, EngineType, ScopesType, Claimed
  <2>7. NetOK'
    BY <1>2, <2>1 DEF Admit, NetOK, NetType
  <2> QED BY <1>2, <2>6, <2>7, FrontStays DEF Admit
<1>3. CASE Busy
  <2>1. Taken \in NetType /\ Next1 \in UpFrames
    BY <1>3, TakenFits DEF Busy, Serving
  <2>2. Event(Next1.id, "refused") \in DownFrames
    BY <1>3, <2>1, FramesFit DEF Busy, UpFrames
  <2>3. NetOK'
    BY <1>3, <2>1, <2>2, PutDown DEF Busy, NetOK, NetType
  <2>4. EngineOK' /\ Claimed'
    BY <1>3, FaultyFits DEF Busy, EngineOK, EngineType, Claimed
  <2> QED BY <1>3, <2>3, <2>4, FrontStays DEF Busy
<1>4. CASE Fill
  <2>1. Taken \in NetType
    BY <1>4, TakenFits DEF Fill, Serving
  <2>2. NetOK'
    BY <1>4, <2>1 DEF Fill, NetOK, NetType
  <2>3. EngineOK' /\ Claimed'
    BY <1>4 DEF Fill, EngineOK, Claimed
  <2> QED BY <1>4, <2>2, <2>3, FrontStays DEF Fill
<1>5. CASE Apply
  <2>1. Taken \in NetType /\ Next1 \in UpFrames
    BY <1>5, TakenFits DEF Apply, Serving
  <2>2. Next1.id \in Ids
    BY <1>5, <2>1 DEF Apply, UpFrames
  <2>3. scopes' \in ScopesType
    BY <1>5, <2>2, ScopesFit DEF Apply, EngineOK, ScopesType
  <2>4. NetOK'
    BY <1>5, <2>1 DEF Apply, NetOK, NetType
  <2>5. EngineOK' /\ Claimed'
    BY <1>5, <2>3 DEF Apply, EngineOK, ScopesType, Claimed
  <2> QED BY <1>5, <2>4, <2>5, FrontStays DEF Apply
<1>6. CASE Terminate
  <2>1. EngineOK' /\ Claimed'
    BY <1>6, EndingFits DEF Terminate, EngineOK, ScopesType, Claimed
  <2> QED BY <1>6, <2>1, FrontStays DEF Terminate, NetOK
<1>7. CASE Leave
  <2>1. PICK end \in {"detached", "broken"} : engine' = [engine EXCEPT !.loop = "settling", !.end = end]
    BY <1>7 DEF Leave
  <2>2. EngineOK' /\ Claimed'
    BY <1>7, <2>1, EndingFits DEF Leave, EngineOK, ScopesType, Claimed
  <2>3. NetOK'
    <3>1. <<>> \in Seq(UpFrames)
      OBVIOUS
    <3> QED BY <1>7, <3>1 DEF Leave, NetOK
  <2> QED BY <1>7, <2>2, <2>3, FrontStays DEF Leave
<1>8. CASE Acknowledge
  <2>1. [kind |-> "ended"] \in DownFrames /\ net \in NetType
    BY DEF DownFrames, NetOK, NetType
  <2> QED BY <1>8, <2>1, PutDown, GoneFits DEF Acknowledge, Done
<1>9. CASE Exit \/ Killed
  <2>1. net \in NetType
    BY DEF NetOK, NetType
  <2> QED BY <1>9, <2>1, GoneFits DEF Exit, Killed, Done
<1>10. CASE Take
  <2>1. engine.queued \in Ids
    BY <1>10, Bounds DEF Take, EngineOK, Ids
  <2>2. worker' \in WorkerType /\ worker'.at = "running" /\ worker'.id = engine.queued
    BY <1>10 DEF Take, EngineOK, WorkerType
  <2>3. engine' \in EngineType /\ engine'.queued = 0 /\ engine'.busy = engine.queued
    BY <1>10, Bounds DEF Take, EngineOK, EngineType
  <2>4. engine.queued # 0
    BY <1>10 DEF Take
  <2>5. EngineOK' /\ Claimed'
    BY <1>10, <2>2, <2>3, <2>4 DEF Take, EngineOK, EngineType, WorkerType, Claimed
  <2> QED BY <1>10, <2>5, FrontStays DEF Take, NetOK
<1>11. CASE Enquire
  <2>1. PICK eid \in Eids :
          /\ EngineWrites(Enquiry(worker.id, eid))
          /\ engine' = [engine EXCEPT !.fault = Faulty]
          /\ parks' = [parks EXCEPT ![eid] = IF net.shut THEN "over" ELSE "parked"]
          /\ worker' = IF net.shut THEN worker ELSE [worker EXCEPT !.at = "parked", !.eid = eid]
    BY <1>11 DEF Enquire
  <2>2. worker.id \in Ids /\ worker.at = "running" /\ eid \in 0..MaxAsks
    BY <1>11, Bounds DEF Enquire, Working, EngineOK, Ids, Eids
  <2>3. NetOK'
    BY <2>1, <2>2, FramesFit, EngineWritesFits
  <2>4. /\ worker' \in WorkerType /\ worker'.id = worker.id /\ worker'.at \in {"running", "parked"}
        /\ worker'.at = "parked" => worker'.eid = eid
    BY <2>1, <2>2 DEF EngineOK, WorkerType
  <2>5. engine' \in EngineType /\ engine'.queued = engine.queued /\ engine'.busy = engine.busy
    BY <2>1, FaultyFits DEF EngineOK
  <2>6. parks' \in [Eids -> {"free", "parked", "filled", "over"}]
    BY <2>1 DEF EngineOK
  <2>7. EngineOK' /\ Claimed'
    <3>1. scopes' = scopes /\ ran' = ran
      BY <1>11 DEF Enquire
    <3>2. Claimed'
      BY <2>2, <2>4, <2>5 DEF Claimed
    <3> QED BY <2>2, <2>4, <2>5, <2>6, <3>1, <3>2 DEF EngineOK, EngineType, WorkerType
  <2> QED BY <1>11, <2>3, <2>7, FrontStays DEF Enquire
<1>12. CASE Answered \/ Stopped
  <2>1. /\ worker' = [worker EXCEPT !.at = "running", !.eid = 0]
        /\ parks' = [parks EXCEPT ![worker.eid] = "over"]
        /\ UNCHANGED <<net, severed, frontVars, engine, scopes, ran>> /\ worker.at = "parked"
    BY <1>12 DEF Answered, Stopped, Working
  <2>2. worker' \in WorkerType /\ worker'.id = worker.id /\ worker'.at = "running"
    BY <2>1, Bounds DEF EngineOK, WorkerType
  <2>3. EngineOK' /\ Claimed'
    BY <2>1, <2>2 DEF EngineOK, WorkerType, Claimed
  <2> QED BY <2>1, <2>3, FrontStays DEF NetOK
<1>13. CASE Finish
  <2>1. worker.id \in Ids
    BY <1>13, Bounds DEF Finish, Working, EngineOK, Ids
  <2>2. worker' \in WorkerType /\ worker'.id = worker.id /\ worker'.at = "made"
    BY <1>13 DEF Finish, EngineOK, WorkerType
  <2>3. EngineOK' /\ Claimed'
    BY <1>13, <2>1, <2>2 DEF Finish, Working, EngineOK, WorkerType, Claimed
  <2> QED BY <1>13, <2>3, FrontStays DEF Finish, NetOK
<1>14. CASE ReleaseThenReport
  <2>1. CASE worker.at = "made"
    <3>1. /\ worker' = [worker EXCEPT !.at = "free"] /\ engine' = [engine EXCEPT !.busy = 0]
          /\ UNCHANGED <<net, severed, frontVars, scopes, parks, ran>>
      BY <1>14, <2>1 DEF ReleaseThenReport, Working
    <3>2. /\ worker' \in WorkerType /\ worker'.at = "free" /\ worker'.id = worker.id
          /\ engine' \in EngineType /\ engine'.queued = 0
      BY <2>1, <3>1, Bounds DEF EngineOK, EngineType, WorkerType, Claimed
    <3>3. EngineOK' /\ Claimed'
      BY <2>1, <3>1, <3>2 DEF EngineOK, EngineType, WorkerType, Claimed
    <3> QED BY <3>1, <3>3, FrontStays DEF NetOK
  <2>2. CASE worker.at = "free"
    <3>1. /\ EngineWrites(Event(worker.id, "report")) /\ worker' = [worker EXCEPT !.at = "idle", !.id = 0]
          /\ engine' = [engine EXCEPT !.fault = Faulty] /\ UNCHANGED <<frontVars, scopes, parks, ran>>
      BY <1>14, <2>2 DEF ReleaseThenReport, Working
    <3>2. worker.id \in Ids
      BY <2>2, Bounds DEF EngineOK, Ids
    <3>3. NetOK'
      BY <3>1, <3>2, FramesFit, EngineWritesFits
    <3>4. worker' \in WorkerType /\ worker'.at = "idle" /\ worker'.id = 0
      BY <3>1, Bounds DEF EngineOK, WorkerType
    <3>5. engine' \in EngineType /\ engine'.queued = engine.queued /\ engine'.busy = engine.busy
      BY <3>1, FaultyFits DEF EngineOK
    <3>6. EngineOK' /\ Claimed'
      BY <3>1, <3>4, <3>5 DEF EngineOK, EngineType, WorkerType, Claimed
    <3> QED BY <3>1, <3>3, <3>6, FrontStays
  <2> QED BY <1>14, <2>1, <2>2 DEF ReleaseThenReport, Working
<1> QED
  BY <1>1, <1>2, <1>3, <1>4, <1>5, <1>6, <1>7, <1>8, <1>9, <1>10, <1>11, <1>12, <1>13, <1>14
  DEF EngineNext

LEMMA FrontStepEngine ==
  ASSUME FrontNext
  PROVE  UNCHANGED engineVars
  BY DEF FrontNext, Attached, TurnedAway, Aim, Strike, SignalLoads, SignalStrikes, Dispatch,
     DispatchUnsendable, Receive, Lost, HostAnswers, HostPanics, Detach, Ended, Breaks, Sever,
     Drop, Read, ReadClosed, ReadSevered, ReaderStops, ReaderExits

LEMMA FrontStepClaimed ==
  ASSUME Claimed, FrontNext
  PROVE  Claimed'
  BY FrontStepEngine DEF Claimed, engineVars

LEMMA TypeInvariant == Spec => [](TypeOK /\ Claimed)
<1>1. Init => TypeOK /\ Claimed
  BY InitTypeOK DEF Init, Claimed
<1>2. TypeOK /\ Claimed /\ [Next]_vars => TypeOK' /\ Claimed'
  <2> SUFFICES ASSUME TypeOK, Claimed, [Next]_vars PROVE TypeOK' /\ Claimed'
    OBVIOUS
  <2>1. CASE FrontNext
    BY <2>1, FrontStepTypeOK, FrontStepClaimed
  <2>2. CASE EngineNext
    BY <2>2, EngineStepTypeOK
  <2>3. CASE UNCHANGED vars
    BY <2>3, FrontStays, EngineStays DEF vars, TypeOK, NetOK, Claimed, engineVars
  <2> QED BY <2>1, <2>2, <2>3 DEF Next
<1> QED BY <1>1, <1>2, PTL DEF Spec

\* Every variable keeps its type, whatever comes over the wire, and the frames
\* on it are the ones each side knows how to read.
THEOREM TypeCorrect == Spec => []TypeOK
  BY TypeInvariant, PTL

-----------------------------------------------------------------------------
(* The reader's severance, the parked enquiries and the ended scopes. *)

\* SeverOnExit is ahead of the channel's sender, and no step takes a latch back.
LatchedFirst == mail.reader \in {"latched", "gone"} => severed

\* An enquiry is in the table only while its own run waits for it.
ParkedByOwner ==
  \A eid \in Eids : parks[eid] \in {"parked", "filled"}
                      => worker.at = "parked" /\ worker.eid = eid

Sound == LatchedFirst /\ ParkedByOwner /\ EndReachesRuns

LEMMA FrontStepSound ==
  ASSUME TypeOK, Sound, FrontNext
  PROVE  Sound'
<1>1. ParkedByOwner' /\ EndReachesRuns'
  BY FrontStepClaimed, FrontStepEngine DEF Sound, ParkedByOwner, EndReachesRuns, engineVars
<1>2. LatchedFirst'
  <2>1. CASE UNCHANGED <<mail, severed>>
    BY <2>1 DEF Sound, LatchedFirst
  <2>2. CASE Strike \/ SignalStrikes \/ Dispatch \/ HostAnswers \/ Detach
    BY <2>2 DEF Sound, LatchedFirst, Strike, SignalStrikes, Dispatch, HostAnswers, Detach, FrontWrites
  <2>3. CASE DispatchUnsendable
    BY <2>3 DEF Sound, LatchedFirst, DispatchUnsendable, TypeOK, FrontOK
  <2>4. CASE Receive
    <3>1. PICK n \in Mine : mail' = Others(n)
      BY <2>4 DEF Receive
    <3> QED BY <2>4, <3>1, MineFits DEF Sound, LatchedFirst, Receive, TypeOK
  <2>5. CASE Sever \/ Drop
    BY <2>5 DEF LatchedFirst, Sever, Drop
  <2>6. CASE Read
    BY <2>6 DEF LatchedFirst, Read, TypeOK, FrontOK
  <2>7. CASE ReadClosed \/ ReadSevered \/ ReaderExits
    BY <2>7 DEF Sound, LatchedFirst, ReadClosed, ReadSevered, ReaderStops, ReaderExits, TypeOK, FrontOK
  <2>8. CASE Attached \/ TurnedAway \/ (\E p \in BOOLEAN : Aim(p)) \/ SignalLoads \/ Lost
             \/ HostPanics \/ Ended \/ Breaks
    BY <2>1, <2>8 DEF Attached, TurnedAway, Aim, SignalLoads, Lost, HostPanics, Ended, Breaks, frontVars
  <2> QED BY <2>2, <2>3, <2>4, <2>5, <2>6, <2>7, <2>8 DEF FrontNext
<1> QED BY <1>1, <1>2 DEF Sound

LEMMA GoneSound ==
  ASSUME Sound, NEW n, Gone(n)
  PROVE  Sound'
<1>1. LatchedFirst' /\ EndReachesRuns'
  BY DEF Sound, LatchedFirst, EndReachesRuns, Gone, frontVars
<1>2. \A eid \in Eids : parks'[eid] = "over"
  BY DEF Gone
<1> QED BY <1>1, <1>2 DEF Sound, ParkedByOwner

LEMMA EngineStepSound ==
  ASSUME TypeOK, Claimed, Sound, EngineNext
  PROVE  Sound'
<1> USE DEF Sound
<1>1. CASE \E n : Gone(n)
  BY <1>1, GoneSound
<1>2. CASE Boot \/ Acknowledge \/ Exit \/ Killed
  <2>1. (\E n : Gone(n)) \/ UNCHANGED <<severed, frontVars, scopes, worker, parks, ran>>
    BY <1>2 DEF Boot, Acknowledge, Exit, Killed, Done
  <2> QED BY <1>1, <2>1 DEF LatchedFirst, ParkedByOwner, EndReachesRuns, frontVars
<1>3. LatchedFirst' \/ (Boot \/ Acknowledge \/ Exit \/ Killed)
  <2>1. UNCHANGED <<severed, frontVars>> \/ (Boot \/ Acknowledge \/ Exit \/ Killed)
    BY DEF EngineNext, Admit, Busy, Fill, Apply, Terminate, Leave, Take, Enquire, Answered,
           Stopped, Finish, ReleaseThenReport, EngineWrites
  <2> QED BY <2>1 DEF LatchedFirst, frontVars
<1>4. CASE Admit
  <2>1. EndReachesRuns'
    BY <1>4 DEF Admit, EndReachesRuns, Open, TypeOK, EngineOK
  <2>2. ParkedByOwner'
    BY <1>4 DEF Admit, ParkedByOwner
  <2> QED BY <1>2, <1>3, <2>1, <2>2
<1>5. CASE Apply
  <2>1. EndReachesRuns'
    BY <1>5 DEF Apply, EndReachesRuns, Aimed, TypeOK, EngineOK
  <2>2. ParkedByOwner'
    BY <1>5 DEF Apply, ParkedByOwner
  <2> QED BY <1>2, <1>3, <2>1, <2>2
<1>6. CASE Terminate \/ Leave
  <2>1. EndReachesRuns'
    BY <1>6 DEF Terminate, Leave, EndReachesRuns, Ending, TypeOK, EngineOK
  <2>2. ParkedByOwner'
    BY <1>6 DEF Terminate, Leave, ParkedByOwner
  <2> QED BY <1>2, <1>3, <2>1, <2>2
<1>7. CASE Busy
  BY <1>2, <1>3, <1>7 DEF Busy, ParkedByOwner, EndReachesRuns
<1>8. CASE Fill
  <2>1. ParkedByOwner'
    BY <1>8 DEF Fill, ParkedByOwner, TypeOK, EngineOK
  <2> QED BY <1>2, <1>3, <1>8, <2>1 DEF Fill, EndReachesRuns
<1>9. CASE Take
  <2>1. ParkedByOwner'
    BY <1>9 DEF Take, Working, ParkedByOwner
  <2> QED BY <1>2, <1>3, <1>9, <2>1 DEF Take, EndReachesRuns
<1>10. CASE Enquire
  <2>1. PICK eid \in Eids :
          /\ parks' = [parks EXCEPT ![eid] = IF net.shut THEN "over" ELSE "parked"]
          /\ worker' = IF net.shut THEN worker ELSE [worker EXCEPT !.at = "parked", !.eid = eid]
    BY <1>10 DEF Enquire
  <2>2. \A e \in Eids : parks[e] \notin {"parked", "filled"}
    BY <1>10 DEF Enquire, Working, ParkedByOwner
  <2>3. ParkedByOwner'
    BY <2>1, <2>2 DEF ParkedByOwner, TypeOK, EngineOK
  <2> QED BY <1>2, <1>3, <1>10, <2>3 DEF Enquire, EndReachesRuns
<1>11. CASE Answered \/ Stopped
  <2>1. parks' = [parks EXCEPT ![worker.eid] = "over"] /\ scopes' = scopes
    BY <1>11 DEF Answered, Stopped
  <2>2. \A e \in Eids : parks'[e] \notin {"parked", "filled"}
    BY <2>1 DEF ParkedByOwner, TypeOK, EngineOK
  <2>3. ParkedByOwner'
    BY <2>2 DEF ParkedByOwner
  <2> QED BY <1>2, <1>3, <1>11, <2>1, <2>3 DEF EndReachesRuns
<1>12. CASE Finish \/ ReleaseThenReport
  <2>1. ParkedByOwner'
    BY <1>12 DEF Finish, ReleaseThenReport, Working, ParkedByOwner
  <2> QED BY <1>2, <1>3, <1>12, <2>1 DEF Finish, ReleaseThenReport, EndReachesRuns
<1> QED
  BY <1>2, <1>4, <1>5, <1>6, <1>7, <1>8, <1>9, <1>10, <1>11, <1>12 DEF EngineNext

LEMMA SoundAlways == Spec => []Sound
<1>1. Init => Sound
  BY DEF Init, Sound, LatchedFirst, ParkedByOwner, EndReachesRuns
<1>2. TypeOK /\ Claimed /\ Sound /\ [Next]_vars => Sound'
  <2> SUFFICES ASSUME TypeOK, Claimed, Sound, [Next]_vars PROVE Sound'
    OBVIOUS
  <2>1. CASE UNCHANGED vars
    BY <2>1 DEF vars, frontVars, engineVars, Sound, LatchedFirst, ParkedByOwner, EndReachesRuns
  <2> QED BY <2>1, FrontStepSound, EngineStepSound DEF Next
<1> QED BY <1>1, <1>2, TypeInvariant, PTL DEF Spec

\* However the reader left, a cause was latched before its channel closed: the
\* `expect` of dispatch_to_report and of probe never fires.
THEOREM ReaderSeversFirst == Spec => []SeversFirst
<1>1. Sound => SeversFirst
  BY DEF Sound, LatchedFirst, SeversFirst
<1> QED BY <1>1, SoundAlways, PTL

\* No entry is left in the table of parked enquiries by a run that was
\* answered, stopped, or could not ask.
THEOREM NoEnquiryLeftParked == Spec => []NothingStaysParked
<1>1. TypeOK /\ Sound => NothingStaysParked
  BY DEF Sound, ParkedByOwner, NothingStaysParked, Working, TypeOK, EngineOK
<1> QED BY <1>1, SoundAlways, TypeCorrect, PTL

\* Whichever of a dispatch and the end of the session the engine hears first,
\* the run is cancelled.
THEOREM EndReachesEveryRun == Spec => []EndReachesRuns
  BY SoundAlways, PTL DEF Sound

-----------------------------------------------------------------------------
(* What is said of a request, and where it is: the refinement's invariant. *)

Asks(f)     == f.kind \in {"dispatch", "probe"}
Distinct(s) == \A i, j \in DOMAIN s : Asks(s[i]) /\ Asks(s[j]) /\ s[i].id = s[j].id => i = j

InUp(r)      == \E f \in Range(net.up) : Asks(f) /\ f.id = r
InHand(r)    == \/ engine.queued = r
                \/ worker.id = r /\ worker.at \in {"running", "parked"}
Said(how, r) == \E f \in Range(net.down) \cup Range(mail.events) : f.kind = how /\ f.id = r
Sent(r)      == r <= front.id /\ (front.at = "aimed" => r # front.id)
Waits        == front.at \in {"aimed", "wait", "host"}

\* The caller is told of one request at a time, in order.
OneOpen == \A r \in Ids : (outcome[r] = "none") <=> (r > front.id \/ (Waits /\ r = front.id))

\* A request that is yet to be done is in one place, and nothing is said of
\* it; a refusal is of one that never will be, a report of one that was.
ToldTruly(r) ==
  /\ InUp(r) => Sent(r) /\ r \notin ran /\ ~InHand(r)
  /\ InHand(r) => Sent(r) /\ r \notin ran
  /\ (InUp(r) \/ InHand(r)) => ~Said("refused", r) /\ outcome[r] # "refused"
  /\ (Said("refused", r) \/ outcome[r] = "refused") => Sent(r) /\ r \notin ran
  /\ Said("report", r) => r \in ran
  /\ r \in ran => Sent(r)

Honest == /\ Distinct(net.up)
          /\ \A r \in Ids : ToldTruly(r)
          /\ worker.at \in {"made", "free"} => worker.id \in ran

LEMMA DistinctTail ==
  ASSUME NEW S, NEW s \in Seq(S), s # <<>>, Distinct(s)
  PROVE  /\ Distinct(Tail(s))
         /\ Asks(Head(s)) => \A f \in Range(Tail(s)) : Asks(f) => f.id # Head(s).id
<1>1. /\ Head(s) = s[1] /\ 1 \in DOMAIN s
      /\ \A i \in DOMAIN Tail(s) : i \in Nat /\ i > 0 /\ i + 1 \in DOMAIN s /\ Tail(s)[i] = s[i + 1]
  OBVIOUS
<1>2. Distinct(Tail(s))
  BY <1>1 DEF Distinct
<1>3. \A i \in DOMAIN Tail(s) : Asks(Head(s)) /\ Asks(Tail(s)[i]) => Tail(s)[i].id # Head(s).id
  BY <1>1 DEF Distinct
<1> QED BY <1>2, <1>3 DEF Range

LEMMA DistinctAppend ==
  ASSUME NEW S, NEW s \in Seq(S), NEW e \in S, Distinct(s),
         Asks(e) => \A f \in Range(s) : Asks(f) => f.id # e.id
  PROVE  Distinct(Append(s, e))
<1>1. /\ DOMAIN Append(s, e) = DOMAIN s \cup {Len(s) + 1} /\ Append(s, e)[Len(s) + 1] = e
      /\ \A i \in DOMAIN s : Append(s, e)[i] = s[i]
  OBVIOUS
<1>2. \A i \in DOMAIN s : s[i] \in Range(s)
  BY DEF Range
<1> QED BY <1>1, <1>2 DEF Distinct

\* A step after which nothing new is on its way, in hand, or said.
LEMMA Quiet ==
  ASSUME Honest, Distinct(net.up)', ran' = ran, outcome' = outcome, front'.id = front.id,
         front'.at = "aimed" <=> front.at = "aimed",
         \A r \in Ids : /\ InUp(r)' => InUp(r)
                        /\ InHand(r)' => InHand(r)
                        /\ Said("report", r)' => Said("report", r)
                        /\ Said("refused", r)' => Said("refused", r),
         worker'.at \in {"made", "free"} => worker'.id \in ran
  PROVE  Honest'
  BY DEF Honest, ToldTruly, Sent

LEMMA UpWritten ==
  ASSUME NetOK, Honest, NEW f \in UpFrames, FrontWrites(f), ~Asks(f)
  PROVE  /\ Distinct(net.up)' /\ net'.down = net.down
         /\ \A r \in Ids : InUp(r)' => InUp(r)
<1>1. net \in NetType
  BY DEF NetOK, NetType
<1>2. /\ net'.down = net.down
      /\ net'.up = net.up \/ net'.up = Append(net.up, f)
  BY <1>1, PutUp DEF FrontWrites
<1>3. Distinct(net'.up)
  BY <1>1, <1>2, DistinctAppend DEF Honest, NetType
<1>4. Range(net'.up) \subseteq Range(net.up) \cup {f}
  <2>1. net.up \in Seq(UpFrames)
    BY DEF NetOK
  <2>2. Range(Append(net.up, f)) = Range(net.up) \cup {f}
    BY <2>1, AppendRange
  <2> QED BY <1>2, <2>2
<1> QED BY <1>2, <1>3, <1>4 DEF InUp

LEMMA UpTaken ==
  ASSUME NetOK, Honest, net.up # <<>>
  PROVE  /\ Distinct(Taken.up) /\ Taken.down = net.down /\ Taken.shut = net.shut
         /\ Taken \in NetType /\ Next1 \in Range(net.up) /\ Next1 \in UpFrames
         /\ Range(Taken.up) \subseteq Range(net.up)
         /\ Asks(Next1) => \A f \in Range(Taken.up) : Asks(f) => f.id # Next1.id
<1>1. net.up \in Seq(UpFrames) /\ Distinct(net.up)
  BY DEF NetOK, Honest
<1> QED BY <1>1, TakenFits, DistinctTail DEF Next1

LEMMA DownWritten ==
  ASSUME NEW n \in NetType, NEW f \in DownFrames, net' = Put(n, "down", f)
  PROVE  net'.up = n.up /\ Range(net'.down) \subseteq Range(n.down) \cup {f}
<1>1. n.down \in Seq(DownFrames)
  BY DEF NetType
<1>2. Range(Append(n.down, f)) = Range(n.down) \cup {f}
  BY <1>1, AppendRange
<1> QED BY <1>2, PutDown

-----------------------------------------------------------------------------
(* The front's steps. *)

\* A front that neither asks, hears nor gives up.
LEMMA FrontQuiet ==
  ASSUME TypeOK, Honest, OneOpen, UNCHANGED engineVars, outcome' = outcome, front'.id = front.id,
         front'.at = "aimed" <=> front.at = "aimed", Waits' <=> Waits,
         Distinct(net.up)', \A r \in Ids : InUp(r)' => InUp(r),
         Range(net'.down) \cup Range(mail'.events) \subseteq Range(net.down) \cup Range(mail.events)
  PROVE  Honest' /\ OneOpen'
<1>1. \A r \in Ids : InHand(r)' => InHand(r)
  BY DEF InHand, engineVars
<1>2. \A r \in Ids, how \in {"report", "refused"} : Said(how, r)' => Said(how, r)
  BY DEF Said
<1>3. Honest'
  BY <1>1, <1>2, Quiet DEF Honest, engineVars
<1>4. OneOpen'
  BY DEF OneOpen
<1> QED BY <1>3, <1>4

LEMMA FrontQuietSteps ==
  ASSUME TypeOK, Honest, OneOpen,
         \/ Attached \/ TurnedAway \/ Strike \/ SignalLoads \/ SignalStrikes \/ HostAnswers
         \/ Detach \/ Ended \/ Breaks \/ Sever \/ Drop \/ Read \/ ReadClosed \/ ReadSevered
         \/ ReaderExits
  PROVE  Honest' /\ OneOpen' /\ UNCHANGED <<outcome, ran>> /\ front'.id = front.id
<1> USE DEF TypeOK
<1>1. UNCHANGED engineVars /\ UNCHANGED ran
  BY FrontStepEngine DEF FrontNext, engineVars
<1>2. ASSUME UNCHANGED <<front, outcome, mail>>, net'.up = net.up, net'.down = net.down
      PROVE  Honest' /\ OneOpen' /\ UNCHANGED <<outcome, ran>> /\ front'.id = front.id
  BY <1>1, <1>2, FrontQuiet DEF InUp, Distinct, Waits, Honest
<1>3. CASE Attached \/ TurnedAway \/ Ended
  <2>1. /\ front'.id = front.id /\ front'.at \in {"idle", "ended"}
        /\ front.at \in {"attaching", "ending"} /\ UNCHANGED <<net, mail, outcome>>
    BY <1>3 DEF Attached, TurnedAway, Ended, At, FrontOK
  <2> QED BY <1>1, <2>1, FrontQuiet DEF InUp, Distinct, Waits, Honest
<1>4. CASE Strike
  <2>1. Event(front.id, "strike") \in UpFrames /\ ~Asks(Event(front.id, "strike"))
    BY <1>4, FramesFit DEF Strike, At, FrontOK, Asks, Event
  <2>2. FrontWrites(Event(front.id, "strike")) /\ UNCHANGED <<mail, outcome>>
    BY <1>4 DEF Strike
  <2>3. front'.id = front.id /\ front'.at = front.at
    BY <1>4 DEF Strike, FrontOK
  <2> QED BY <1>1, <2>1, <2>2, <2>3, UpWritten, FrontQuiet DEF Waits
<1>5. CASE SignalStrikes
  <2>1. Event(signal.id, "strike") \in UpFrames /\ ~Asks(Event(signal.id, "strike"))
    <3>1. signal.id \in Ids
      BY <1>5, Bounds DEF SignalStrikes, FrontOK, Ids
    <3> QED BY <3>1, FramesFit DEF Asks, Event
  <2>2. FrontWrites(Event(signal.id, "strike")) /\ UNCHANGED <<front, mail, outcome>>
    BY <1>5 DEF SignalStrikes
  <2> QED BY <1>1, <2>1, <2>2, UpWritten, FrontQuiet DEF Waits
<1>6. CASE HostAnswers
  <2> DEFINE f == [kind |-> "answer", eid |-> front.eid]
  <2>1. f \in UpFrames /\ ~Asks(f)
    BY <1>6 DEF HostAnswers, UpFrames, FrontOK, At, Asks
  <2>2. FrontWrites(f) /\ UNCHANGED <<mail, outcome>>
    BY <1>6 DEF HostAnswers
  <2>3. front'.id = front.id /\ front'.at = "wait" /\ front.at = "host"
    BY <1>6 DEF HostAnswers, FrontOK, At
  <2> HIDE DEF f
  <2> QED BY <1>1, <2>1, <2>2, <2>3, UpWritten, FrontQuiet DEF Waits
<1>7. CASE Detach
  <2> DEFINE f == [kind |-> "detach"]
  <2>1. f \in UpFrames /\ ~Asks(f)
    BY DEF UpFrames, Asks
  <2>2. FrontWrites(f) /\ UNCHANGED <<mail, outcome>>
    BY <1>7 DEF Detach
  <2>3. front'.id = front.id /\ front'.at = "ending" /\ front.at = "idle"
    BY <1>7 DEF Detach, FrontOK, At
  <2> HIDE DEF f
  <2> QED BY <1>1, <2>1, <2>2, <2>3, UpWritten, FrontQuiet DEF Waits
<1>8. CASE SignalLoads \/ Breaks \/ Sever
  BY <1>2, <1>8 DEF SignalLoads, Breaks, Sever, frontVars, NetOK
<1>9. CASE Drop
  <2>1. /\ front'.id = front.id /\ front'.at = "dropped" /\ front.at \in {"idle", "ended"}
        /\ net'.up = net.up /\ net'.down = net.down /\ mail'.events = <<>> /\ outcome' = outcome
    BY <1>9 DEF Drop, FrontOK, NetOK
  <2>2. Range(mail'.events) = {}
    BY <2>1 DEF Range
  <2> QED BY <1>1, <2>1, <2>2, FrontQuiet DEF InUp, Distinct, Waits, Honest
<1>10. CASE Read
  <2> DEFINE f == Head(net.down)
             down == IF f.kind \in {"ended", "denied"} THEN <<>> ELSE Tail(net.down)
  <2>1. f \in DownFrames /\ f \in Range(net.down) /\ Range(Tail(net.down)) \subseteq Range(net.down)
    BY <1>10, TailRange DEF Read, NetOK
  <2>2. net'.up = net.up /\ net'.down = down /\ UNCHANGED <<front, outcome>>
    BY <1>10 DEF Read, NetOK
  <2>3. Range(down) \subseteq Range(net.down)
    BY <2>1 DEF Range
  <2>4. mail'.events \in {mail.events, Append(mail.events, f)}
        /\ (mail'.events # mail.events => f \in Events)
    BY <1>10, <2>1 DEF Read, FrontOK, DownFrames
  <2>5. Range(mail'.events) \subseteq Range(mail.events) \cup {f}
    <3>1. mail.events \in Seq(Events)
      BY DEF FrontOK
    <3>2. f \in Events => Range(Append(mail.events, f)) = Range(mail.events) \cup {f}
      BY <3>1, AppendRange
    <3> QED BY <2>4, <3>2
  <2> HIDE DEF f, down
  <2> QED BY <1>1, <2>1, <2>2, <2>3, <2>5, FrontQuiet DEF InUp, Distinct, Waits, Honest
<1>11. CASE ReadClosed \/ ReadSevered
  <2>1. ReaderStops
    BY <1>11 DEF ReadClosed, ReadSevered
  <2>2. /\ net'.up = net.up /\ net'.down = <<>> /\ mail'.events = mail.events
        /\ UNCHANGED <<front, outcome>>
    BY <2>1 DEF ReaderStops, NetOK, FrontOK
  <2>3. Range(net'.down) = {}
    BY <2>2 DEF Range
  <2> QED BY <1>1, <2>2, <2>3, FrontQuiet DEF InUp, Distinct, Waits, Honest
<1>12. CASE ReaderExits
  <2>1. /\ net' = net /\ mail'.events = mail.events /\ UNCHANGED <<front, outcome>>
    BY <1>12 DEF ReaderExits, FrontOK
  <2> QED BY <1>1, <2>1, FrontQuiet DEF InUp, Distinct, Waits, Honest
<1> QED
  BY <1>3, <1>4, <1>5, <1>6, <1>7, <1>8, <1>9, <1>10, <1>11, <1>12

LEMMA AimTruly ==
  ASSUME TypeOK, Honest, OneOpen, NEW p \in BOOLEAN, Aim(p)
  PROVE  /\ Honest' /\ OneOpen' /\ UNCHANGED <<outcome, ran, severed>>
         /\ front'.id = front.id + 1 /\ front'.id \in Ids
         /\ front.id > 0 => outcome[front.id] # "none"
<1> USE DEF TypeOK
<1>1. front.id + 1 \in Ids /\ front.id \in Nat /\ front.at = "idle"
  BY Bounds DEF Aim, FrontOK, Ids, At
<1>2. front'.id = front.id + 1 /\ front'.at = "aimed"
  BY <1>1 DEF Aim, FrontOK
<1>3. UNCHANGED <<net, severed, mail, outcome, engineVars>>
  BY DEF Aim
<1>4. \A r \in Ids : r \in Nat /\ (Sent(r)' <=> Sent(r))
  BY <1>1, <1>2 DEF Sent, Ids
<1>5. Honest'
  BY <1>3, <1>4 DEF Honest, ToldTruly, InUp, InHand, Said, engineVars
<1>6. OneOpen'
  BY <1>1, <1>2, <1>3 DEF OneOpen, Waits, Ids
<1>7. front.id > 0 => outcome[front.id] # "none"
  BY <1>1, Bounds DEF OneOpen, Waits, Ids
<1> QED BY <1>1, <1>2, <1>3, <1>5, <1>6, <1>7 DEF engineVars

\* Its request goes out: the one place it is, and nothing was said of it.
LEMMA DispatchTruly ==
  ASSUME TypeOK, Honest, OneOpen, Dispatch
  PROVE  Honest' /\ OneOpen' /\ UNCHANGED <<outcome, ran>> /\ front'.id = front.id
<1> DEFINE q == front.id
           f == Event(q, IF front.probe THEN "probe" ELSE "dispatch")
<1> USE DEF TypeOK
<1>1. q \in Ids /\ front.at = "aimed"
  BY DEF Dispatch, At, FrontOK
<1>2. f \in UpFrames /\ Asks(f) /\ f.id = q
  BY <1>1, FramesFit DEF Event, Asks
<1>3. front'.id = q /\ front'.at = "wait" /\ UNCHANGED <<mail, outcome, engineVars>>
  BY DEF Dispatch, FrontOK
<1>4. net \in NetType /\ net.up \in Seq(UpFrames) /\ FrontWrites(f)
  BY DEF Dispatch, NetOK, NetType
<1> HIDE DEF f
<1>5. net'.down = net.down /\ net'.up \in {net.up, Append(net.up, f)}
  BY <1>2, <1>4, PutUp DEF FrontWrites
<1>6. Range(Append(net.up, f)) = Range(net.up) \cup {f}
  BY <1>2, <1>4, AppendRange
<1>7. /\ ~InUp(q) /\ ~InHand(q) /\ q \notin ran /\ ~Said("refused", q) /\ ~Said("report", q)
      /\ outcome[q] = "none"
  <2>1. ~Sent(q) /\ outcome[q] = "none"
    BY <1>1 DEF Sent, OneOpen, Waits
  <2> QED BY <1>1, <2>1 DEF Honest, ToldTruly
<1>8. Distinct(net'.up)
  <2>1. \A g \in Range(net.up) : Asks(g) => g.id # f.id
    BY <1>2, <1>7 DEF InUp
  <2>2. Distinct(Append(net.up, f))
    BY <1>2, <1>4, <2>1, DistinctAppend DEF Honest
  <2> QED BY <1>5, <2>2 DEF Honest
<1>9. \A r \in Ids : /\ InUp(r)' => InUp(r) \/ r = q
                     /\ InHand(r)' <=> InHand(r)
                     /\ Sent(r)' <=> (Sent(r) \/ r = q)
  <2>1. \A r \in Ids : InUp(r)' => InUp(r) \/ r = q
    BY <1>2, <1>5, <1>6 DEF InUp
  <2>2. \A r \in Ids : Sent(r)' <=> (Sent(r) \/ r = q)
    BY <1>1, <1>3 DEF Sent, Ids
  <2> QED BY <1>3, <2>1, <2>2 DEF InHand, engineVars
<1>10. \A r \in Ids : /\ Said("report", r)' <=> Said("report", r)
                      /\ Said("refused", r)' <=> Said("refused", r)
  BY <1>3, <1>5 DEF Said
<1>11. UNCHANGED <<outcome, ran, worker>>
  BY <1>3 DEF engineVars
<1>12. Honest'
  BY <1>1, <1>7, <1>8, <1>9, <1>10, <1>11 DEF Honest, ToldTruly
<1>13. OneOpen'
  BY <1>1, <1>3 DEF OneOpen, Waits
<1> QED BY <1>3, <1>11, <1>12, <1>13

LEMMA UnsendableTruly ==
  ASSUME TypeOK, Honest, OneOpen, DispatchUnsendable
  PROVE  Honest' /\ OneOpen' /\ UNCHANGED <<outcome, ran, severed>> /\ front'.id = front.id
<1> DEFINE q == front.id
           f == Event(q, "refused")
<1> USE DEF TypeOK
<1>1. q \in Ids /\ front.at = "aimed"
  BY DEF DispatchUnsendable, At, FrontOK
<1>2. f.id = q /\ f.kind = "refused" /\ f \in Events
  BY <1>1, FramesFit DEF Event
<1>3. /\ front'.id = q /\ front'.at = "wait" /\ UNCHANGED <<net, severed, outcome, engineVars>>
      /\ mail'.events = <<f>> \o mail.events
  BY DEF DispatchUnsendable, FrontOK
<1> HIDE DEF f
<1>4. Range(mail'.events) \subseteq Range(mail.events) \cup {f}
  <2>1. mail.events \in Seq(Events)
    BY DEF FrontOK
  <2>2. /\ \A i \in DOMAIN mail'.events : i = 1 \/ (i - 1 \in DOMAIN mail.events
                                                    /\ mail'.events[i] = mail.events[i - 1])
        /\ mail'.events[1] = f
    BY <1>2, <1>3, <2>1
  <2> QED BY <2>2 DEF Range
<1>5. ~InUp(q) /\ ~InHand(q) /\ q \notin ran /\ outcome[q] = "none"
  <2>1. ~Sent(q) /\ outcome[q] = "none"
    BY <1>1 DEF Sent, OneOpen, Waits
  <2> QED BY <1>1, <2>1 DEF Honest, ToldTruly
<1>6. \A r \in Ids : /\ (InUp(r)' <=> InUp(r)) /\ (InHand(r)' <=> InHand(r))
                     /\ Sent(r)' <=> (Sent(r) \/ r = q)
                     /\ Said("report", r)' => Said("report", r)
                     /\ Said("refused", r)' => Said("refused", r) \/ r = q
  <2>1. \A r \in Ids : /\ Said("report", r)' => Said("report", r)
                       /\ Said("refused", r)' => Said("refused", r) \/ r = q
    BY <1>2, <1>3, <1>4 DEF Said
  <2>2. \A r \in Ids : Sent(r)' <=> (Sent(r) \/ r = q)
    BY <1>1, <1>3 DEF Sent, Ids
  <2> QED BY <1>3, <2>1, <2>2 DEF InUp, InHand, engineVars
<1>7. UNCHANGED <<outcome, ran, worker>>
  BY <1>3 DEF engineVars
<1>8. Honest'
  BY <1>1, <1>3, <1>5, <1>6, <1>7 DEF Honest, ToldTruly
<1>9. OneOpen'
  BY <1>1, <1>3 DEF OneOpen, Waits
<1> QED BY <1>3, <1>7, <1>8, <1>9

\* The waiting thread concludes its request: with what was said of it, or
\* with what takes no word of the engine's.
LEMMA ConcludeTruly ==
  ASSUME TypeOK, Honest, OneOpen, Waits, front.at # "aimed",
         NEW how \in {"report", "refused", "severed", "abandoned"}, Conclude(how),
         how \in {"report", "refused"} => Said(how, front.id),
         UNCHANGED <<net, severed, engineVars>>, Range(mail'.events) \subseteq Range(mail.events)
  PROVE  /\ Honest' /\ OneOpen' /\ front'.id = front.id /\ UNCHANGED <<ran, severed>>
         /\ front.id \in Ids /\ outcome[front.id] = "none"
         /\ outcome' = [outcome EXCEPT ![front.id] = how]
         /\ how = "report" => front.id \in ran
         /\ how = "refused" => front.id \notin ran
<1> DEFINE q == front.id
<1> USE DEF TypeOK
<1>1. q \in Ids /\ outcome[q] = "none"
  BY DEF Waits, FrontOK, OneOpen
<1>2. front'.id = q /\ front'.at = "idle" /\ outcome' = [outcome EXCEPT ![q] = how]
  BY DEF Conclude, FrontOK
<1>3. /\ how = "report" => q \in ran
      /\ how = "refused" => Said("refused", q) /\ q \notin ran
  BY <1>1 DEF Honest, ToldTruly
<1>4. \A r \in Ids : /\ (InUp(r)' <=> InUp(r)) /\ (InHand(r)' <=> InHand(r)) /\ (Sent(r)' <=> Sent(r))
                     /\ Said("report", r)' => Said("report", r)
                     /\ Said("refused", r)' => Said("refused", r)
  BY <1>2 DEF InUp, InHand, Sent, Said, engineVars
<1>5. \A r \in Ids : outcome'[r] = IF r = q THEN how ELSE outcome[r]
  BY <1>1, <1>2 DEF FrontOK
<1>6. UNCHANGED <<ran, worker>>
  BY DEF engineVars
<1>7. Honest'
  BY <1>1, <1>3, <1>4, <1>5, <1>6 DEF Honest, ToldTruly
<1>8. OneOpen'
  BY <1>1, <1>2, <1>5 DEF OneOpen, Waits, Ids
<1> QED BY <1>1, <1>2, <1>3, <1>6, <1>7, <1>8

-----------------------------------------------------------------------------
(* The engine's steps. *)

LEMMA EngineQuiet ==
  ASSUME TypeOK, Honest, OneOpen, UNCHANGED <<frontVars, ran>>,
         Distinct(net.up)', Range(net'.up) \subseteq Range(net.up),
         \A r \in Ids : /\ InHand(r)' => InHand(r)
                        /\ Said("report", r)' => Said("report", r)
                        /\ Said("refused", r)' => Said("refused", r),
         worker'.at \in {"made", "free"} => worker'.id \in ran
  PROVE  Honest' /\ OneOpen'
<1>1. \A r \in Ids : InUp(r)' => InUp(r)
  BY DEF InUp
<1>2. UNCHANGED <<outcome, front>>
  BY DEF frontVars
<1>3. Honest'
  BY <1>1, <1>2, Quiet
<1> QED BY <1>2, <1>3 DEF OneOpen, Waits

\* What is written neither reports nor refuses.
LEMMA QuietWrite ==
  ASSUME NEW n \in NetType, NEW f \in DownFrames, f.kind \notin {"report", "refused"},
         Range(n.down) \subseteq Range(net.down), mail' = mail,
         Range(net'.down) \subseteq Range(n.down) \cup {f}
  PROVE  \A r \in Ids : /\ Said("report", r)' => Said("report", r)
                        /\ Said("refused", r)' => Said("refused", r)
  BY DEF Said

LEMMA GoneTruly ==
  ASSUME TypeOK, Honest, OneOpen, NEW n \in NetType, Gone(n),
         NEW f \in DownFrames, f.kind \notin {"report", "refused"},
         Range(n.down) \subseteq Range(net.down) \cup {f}
  PROVE  Honest' /\ OneOpen' /\ UNCHANGED <<ran, severed, frontVars>>
<1>1. net'.up = <<>> /\ net'.down = n.down
  BY GoneFits DEF TypeOK
<1>2. Range(net'.up) = {} /\ Distinct(net.up)'
  BY <1>1 DEF Range, Distinct
<1>3. \A r \in Ids : ~InHand(r)'
  BY DEF InHand, Gone, Ids
<1>4. UNCHANGED <<ran, severed, frontVars>> /\ mail' = mail /\ worker'.at = "idle"
  BY DEF Gone, frontVars
<1>5. \A r \in Ids : /\ Said("report", r)' => Said("report", r)
                     /\ Said("refused", r)' => Said("refused", r)
  BY <1>1, <1>4 DEF Said
<1> QED BY <1>2, <1>3, <1>4, <1>5, EngineQuiet

LEMMA EngineQuietSteps ==
  ASSUME TypeOK, Claimed, Honest, OneOpen,
         \/ Boot \/ Fill \/ Apply \/ Terminate \/ Leave \/ Acknowledge \/ Exit \/ Killed
         \/ Enquire \/ Answered \/ Stopped
  PROVE  Honest' /\ OneOpen' /\ UNCHANGED <<ran, severed, frontVars>>
<1> USE DEF TypeOK
<1>1. net \in NetType /\ [kind |-> "ended"] \in DownFrames
  BY DEF NetOK, NetType, DownFrames
<1>2. CASE Exit \/ Killed
  BY <1>1, <1>2, GoneTruly DEF Exit, Killed, Done
<1>3. CASE Acknowledge
  <2> DEFINE n == Put(net, "down", [kind |-> "ended"])
  <2>1. n \in NetType /\ Range(n.down) \subseteq Range(net.down) \cup {[kind |-> "ended"]}
    <3>1. net.down \in Seq(DownFrames)
      BY <1>1 DEF NetType
    <3>2. Range(Append(net.down, [kind |-> "ended"])) = Range(net.down) \cup {[kind |-> "ended"]}
      BY <1>1, <3>1, AppendRange
    <3> QED BY <1>1, <3>2, PutDown
  <2>2. Gone(n)
    BY <1>3 DEF Acknowledge, Done
  <2> HIDE DEF n
  <2> QED BY <1>1, <2>1, <2>2, GoneTruly
<1>4. CASE Boot
  <2>1. net.up # <<>>
    BY <1>4 DEF Boot
  <2>2. /\ Taken \in NetType /\ Distinct(Taken.up) /\ Taken.down = net.down
        /\ Range(Taken.up) \subseteq Range(net.up)
    BY <2>1, UpTaken
  <2>3. CASE Gone(Put(Taken, "down", [kind |-> "denied"]))
    <3> DEFINE f == [kind |-> "denied"]
               n == Put(Taken, "down", f)
    <3>1. f \in DownFrames /\ net.down \in Seq(DownFrames)
      BY <1>1 DEF DownFrames, NetType
    <3>2. Range(Append(net.down, f)) = Range(net.down) \cup {f}
      BY <3>1, AppendRange
    <3>3. n \in NetType /\ Range(n.down) \subseteq Range(net.down) \cup {f}
      BY <2>2, <3>1, <3>2, PutDown
    <3> QED BY <2>3, <3>1, <3>3, GoneTruly
  <2>4. CASE /\ net' = Put(Taken, "down", [kind |-> "attached"])
             /\ engine' = [engine EXCEPT !.loop = "serving", !.fault = net.shut]
             /\ UNCHANGED <<severed, frontVars, scopes, worker, parks, ran>>
    <3> DEFINE f == [kind |-> "attached"]
    <3>1. f \in DownFrames /\ f.kind \notin {"report", "refused"}
      BY DEF DownFrames
    <3>2. net'.up = Taken.up /\ Range(net'.down) \subseteq Range(Taken.down) \cup {f}
      BY <2>2, <2>4, <3>1, DownWritten
    <3>3. \A r \in Ids : InHand(r)' => InHand(r)
      BY <2>4 DEF InHand, EngineOK
    <3>4. mail' = mail /\ worker' = worker
      BY <2>4 DEF frontVars
    <3> HIDE DEF f
    <3>5. \A r \in Ids : /\ Said("report", r)' => Said("report", r)
                         /\ Said("refused", r)' => Said("refused", r)
      BY <2>2, <3>1, <3>2, <3>4, QuietWrite
    <3> QED BY <2>2, <2>4, <3>2, <3>3, <3>4, <3>5, EngineQuiet DEF Honest
  <2> QED BY <1>4, <2>3, <2>4 DEF Boot
<1>5. CASE Fill \/ Apply
  <2>1. net' = Taken /\ net.up # <<>> /\ UNCHANGED <<severed, frontVars, engine, worker, ran>>
    BY <1>5 DEF Fill, Apply, Serving
  <2>2. Distinct(Taken.up) /\ Taken.down = net.down /\ Range(Taken.up) \subseteq Range(net.up)
    BY <2>1, UpTaken
  <2>3. \A r \in Ids : /\ InHand(r)' => InHand(r)
                       /\ Said("report", r)' => Said("report", r)
                       /\ Said("refused", r)' => Said("refused", r)
    BY <2>1, <2>2 DEF InHand, Said, frontVars
  <2> QED BY <2>1, <2>2, <2>3, EngineQuiet DEF Honest
<1>6. CASE Terminate
  <2>1. UNCHANGED <<net, severed, frontVars, engine, worker, ran>>
    BY <1>6 DEF Terminate
  <2>2. \A r \in Ids : /\ InHand(r)' => InHand(r)
                       /\ Said("report", r)' => Said("report", r)
                       /\ Said("refused", r)' => Said("refused", r)
    BY <2>1 DEF InHand, Said, frontVars
  <2> QED BY <2>1, <2>2, EngineQuiet DEF Honest, Distinct
<1>7. CASE Leave
  <2>1. /\ UNCHANGED <<severed, frontVars, worker, ran>> /\ engine'.queued = engine.queued
        /\ net'.up = <<>> /\ net'.down = net.down
    BY <1>7 DEF Leave, EngineOK, NetOK
  <2>2. Range(net'.up) = {} /\ Distinct(net.up)'
    BY <2>1 DEF Range, Distinct
  <2>3. \A r \in Ids : /\ InHand(r)' => InHand(r)
                       /\ Said("report", r)' => Said("report", r)
                       /\ Said("refused", r)' => Said("refused", r)
    BY <2>1 DEF InHand, Said, frontVars
  <2> QED BY <2>1, <2>2, <2>3, EngineQuiet DEF Honest
<1>8. CASE Enquire
  <2>1. PICK eid \in Eids :
          /\ EngineWrites(Enquiry(worker.id, eid))
          /\ engine' = [engine EXCEPT !.fault = Faulty]
          /\ worker' = IF net.shut THEN worker ELSE [worker EXCEPT !.at = "parked", !.eid = eid]
    BY <1>8 DEF Enquire
  <2> DEFINE f == Enquiry(worker.id, eid)
  <2>2. worker.id \in Ids /\ worker.at = "running"
    <3>1. worker.at = "running"
      BY <1>8 DEF Enquire, Working
    <3>2. worker.id \in 0..MaxIds
      BY DEF EngineOK
    <3>3. worker.id # 0
      BY <3>1 DEF EngineOK
    <3> QED BY <3>1, <3>2, <3>3, Bounds DEF Ids
  <2>3. f \in DownFrames /\ f.kind \notin {"report", "refused"}
    BY <2>2, FramesFit DEF Enquiry
  <2> HIDE DEF f
  <2>4. net'.up = net.up /\ Range(net'.down) \subseteq Range(net.down) \cup {f}
    BY <1>1, <2>1, <2>3, DownWritten DEF EngineWrites, f
  <2>5. UNCHANGED <<severed, frontVars, ran>> /\ mail' = mail
    BY <1>8, <2>1 DEF Enquire, EngineWrites, frontVars
  <2>6. \A r \in Ids : /\ Said("report", r)' => Said("report", r)
                       /\ Said("refused", r)' => Said("refused", r)
    BY <1>1, <2>3, <2>4, <2>5, QuietWrite
  <2>7. worker'.id = worker.id /\ worker'.at \in {"running", "parked"} /\ engine'.queued = engine.queued
    BY <2>1, <2>2 DEF EngineOK
  <2>8. \A r \in Ids : InHand(r)' => InHand(r)
    BY <2>2, <2>7 DEF InHand
  <2> QED BY <2>4, <2>5, <2>6, <2>7, <2>8, EngineQuiet DEF Honest, Distinct
<1>9. CASE Answered \/ Stopped
  <2>1. /\ UNCHANGED <<net, severed, frontVars, engine, ran>> /\ worker.at = "parked"
        /\ worker' = [worker EXCEPT !.at = "running", !.eid = 0]
    BY <1>9 DEF Answered, Stopped, Working
  <2>2. worker'.id = worker.id /\ worker'.at = "running"
    BY <2>1 DEF EngineOK
  <2>3. \A r \in Ids : /\ InHand(r)' => InHand(r)
                       /\ Said("report", r)' => Said("report", r)
                       /\ Said("refused", r)' => Said("refused", r)
    BY <2>1, <2>2 DEF InHand, Said, frontVars
  <2> QED BY <2>1, <2>2, <2>3, EngineQuiet DEF Honest, Distinct
<1> QED BY <1>2, <1>3, <1>4, <1>5, <1>6, <1>7, <1>8, <1>9

\* A request is taken off the wire, and is in hand or refused.
LEMMA AnsweredTruly ==
  ASSUME TypeOK, Claimed, Honest, OneOpen, Admit \/ Busy
  PROVE  Honest' /\ OneOpen' /\ UNCHANGED <<ran, severed, frontVars>>
<1> DEFINE q == Next1.id
<1> USE DEF TypeOK
<1>1. net.up # <<>> /\ Asks(Next1)
  BY DEF Admit, Busy, Serving, Asks
<1>2. /\ Distinct(Taken.up) /\ Taken.down = net.down /\ Taken \in NetType
      /\ Next1 \in Range(net.up) /\ Next1 \in UpFrames
      /\ Range(Taken.up) \subseteq Range(net.up)
      /\ \A f \in Range(Taken.up) : Asks(f) => f.id # q
  BY <1>1, UpTaken
<1>3. q \in Ids /\ InUp(q)
  BY <1>1, <1>2 DEF InUp, Asks, UpFrames
<1>4. Sent(q) /\ q \notin ran /\ ~InHand(q) /\ ~Said("refused", q) /\ outcome[q] # "refused"
  BY <1>3 DEF Honest, ToldTruly
<1>5. UNCHANGED <<ran, severed, frontVars, worker>>
  BY DEF Admit, Busy
<1>6. UNCHANGED <<mail, front, outcome>>
  BY <1>5 DEF frontVars
<1>7. OneOpen'
  BY <1>6 DEF OneOpen, Waits
<1>8. CASE Admit
  <2>1. net' = Taken /\ engine'.queued = q
    BY <1>8 DEF Admit, EngineOK
  <2>2. \A r \in Ids : /\ InUp(r)' => InUp(r) /\ r # q
                       /\ InHand(r)' => InHand(r) \/ r = q
                       /\ Said("report", r)' <=> Said("report", r)
                       /\ Said("refused", r)' <=> Said("refused", r)
                       /\ Sent(r)' <=> Sent(r)
    BY <1>2, <1>5, <1>6, <2>1 DEF InUp, InHand, Said, Sent
  <2> QED BY <1>2, <1>4, <1>5, <1>6, <1>7, <2>1, <2>2 DEF Honest, ToldTruly
<1>9. CASE Busy
  <2> DEFINE f == Event(q, "refused")
  <2>1. f \in DownFrames /\ f.kind = "refused" /\ f.id = q
    BY <1>3, FramesFit DEF Event
  <2>2. net' = Put(Taken, "down", f)
    BY <1>9 DEF Busy
  <2> HIDE DEF f
  <2>3. net'.up = Taken.up /\ Range(net'.down) \subseteq Range(net.down) \cup {f}
    BY <1>2, <2>1, <2>2, DownWritten
  <2>4. engine'.queued = engine.queued
    BY <1>9 DEF Busy, EngineOK
  <2>5. \A r \in Ids : /\ InUp(r)' => InUp(r) /\ r # q
                       /\ InHand(r)' <=> InHand(r)
                       /\ Said("report", r)' => Said("report", r)
                       /\ Said("refused", r)' => Said("refused", r) \/ r = q
                       /\ Sent(r)' <=> Sent(r)
    BY <1>2, <1>5, <1>6, <2>1, <2>3, <2>4 DEF InUp, InHand, Said, Sent
  <2> QED BY <1>2, <1>4, <1>5, <1>6, <1>7, <2>3, <2>5 DEF Honest, ToldTruly
<1> QED BY <1>5, <1>7, <1>8, <1>9

\* The worker takes it, does it, and reports it.
LEMMA WorkedTruly ==
  ASSUME TypeOK, Claimed, Honest, OneOpen, Take \/ Finish \/ ReleaseThenReport
  PROVE  /\ Honest' /\ OneOpen' /\ UNCHANGED <<severed, frontVars>>
         /\ \/ ran' = ran
            \/ \E r \in Ids : /\ r <= front.id /\ r \notin ran /\ outcome[r] # "refused"
                              /\ ran' = ran \cup {r}
<1> USE DEF TypeOK
<1>1. UNCHANGED <<severed, frontVars>>
  BY DEF Take, Finish, ReleaseThenReport, EngineWrites
<1>2. UNCHANGED <<mail, front, outcome>>
  BY <1>1 DEF frontVars
<1>3. OneOpen' /\ \A r \in Ids : Sent(r)' <=> Sent(r)
  BY <1>2 DEF OneOpen, Waits, Sent
<1>4. CASE Take
  <2>1. /\ UNCHANGED <<net, ran>> /\ engine.queued # 0 /\ worker.at = "idle"
        /\ worker'.at = "running" /\ worker'.id = engine.queued /\ engine'.queued = 0
    BY <1>4 DEF Take, Working, EngineOK
  <2>2. \A r \in Ids : InHand(r)' => InHand(r)
    BY <2>1 DEF InHand, Ids
  <2>3. \A r \in Ids : /\ Said("report", r)' => Said("report", r)
                       /\ Said("refused", r)' => Said("refused", r)
    BY <1>2, <2>1 DEF Said
  <2> QED BY <1>1, <1>3, <2>1, <2>2, <2>3, EngineQuiet DEF Honest, Distinct
<1>5. CASE Finish
  <2> DEFINE q == worker.id
  <2>1. /\ UNCHANGED <<net, engine>> /\ worker.at = "running" /\ q \in Ids
        /\ worker'.at = "made" /\ worker'.id = q /\ ran' = ran \cup {q}
    BY <1>5, Bounds DEF Finish, Working, EngineOK, Ids
  <2>2. InHand(q) /\ engine.queued = 0
    BY <2>1 DEF InHand, Claimed
  <2>3. /\ Sent(q) /\ q \notin ran /\ ~InUp(q) /\ ~Said("refused", q) /\ outcome[q] # "refused"
    BY <2>1, <2>2 DEF Honest, ToldTruly
  <2>4. \A r \in Ids : /\ InUp(r)' <=> InUp(r)
                       /\ ~InHand(r)'
                       /\ Said("report", r)' <=> Said("report", r)
                       /\ Said("refused", r)' <=> Said("refused", r)
    BY <1>2, <2>1, <2>2 DEF InUp, InHand, Said, Ids
  <2>5. Honest'
    BY <1>2, <1>3, <2>1, <2>3, <2>4 DEF Honest, ToldTruly, Distinct
  <2>6. q <= front.id
    BY <2>3 DEF Sent
  <2> QED BY <1>1, <1>3, <2>1, <2>3, <2>5, <2>6
<1>6. CASE ReleaseThenReport /\ worker.at = "made"
  <2>1. /\ UNCHANGED <<net, ran>> /\ worker'.at = "free" /\ worker'.id = worker.id
        /\ engine'.queued = engine.queued
    BY <1>6 DEF ReleaseThenReport, Working, EngineOK
  <2>2. \A r \in Ids : /\ InHand(r)' => InHand(r)
                       /\ Said("report", r)' => Said("report", r)
                       /\ Said("refused", r)' => Said("refused", r)
    BY <1>2, <1>6, <2>1 DEF InHand, Said
  <2> QED BY <1>1, <1>3, <1>6, <2>1, <2>2, EngineQuiet DEF Honest, Distinct
<1>7. CASE ReleaseThenReport /\ worker.at = "free"
  <2> DEFINE q == worker.id
             f == Event(q, "report")
  <2>1. q \in Ids /\ q \in ran
    BY <1>7, Bounds DEF EngineOK, Honest, Ids
  <2>2. f \in DownFrames /\ f.kind = "report" /\ f.id = q
    BY <2>1, FramesFit DEF Event
  <2>3. /\ net' = Put(net, "down", f) /\ ran' = ran /\ worker'.at = "idle" /\ worker'.id = 0
        /\ engine'.queued = engine.queued
    BY <1>7 DEF ReleaseThenReport, Working, EngineWrites, EngineOK
  <2>4. net \in NetType
    BY DEF NetOK, NetType
  <2> HIDE DEF f
  <2>5. net'.up = net.up /\ Range(net'.down) \subseteq Range(net.down) \cup {f}
    BY <2>2, <2>3, <2>4, DownWritten
  <2>6. \A r \in Ids : /\ InUp(r)' <=> InUp(r)
                       /\ InHand(r)' => InHand(r)
                       /\ Said("report", r)' => Said("report", r) \/ r = q
                       /\ Said("refused", r)' => Said("refused", r)
    BY <1>2, <2>2, <2>3, <2>5 DEF InUp, InHand, Said, Ids
  <2>7. Honest'
    BY <1>2, <1>3, <2>1, <2>3, <2>5, <2>6 DEF Honest, ToldTruly, Distinct
  <2> QED BY <1>1, <1>3, <2>3, <2>7
<1> QED BY <1>4, <1>5, <1>6, <1>7 DEF ReleaseThenReport, Working

-----------------------------------------------------------------------------
(* The refinement. *)

Kept == TypeOK /\ Claimed /\ Sound /\ Honest /\ OneOpen

LEMMA InitKept == Init => Kept
<1> SUFFICES ASSUME Init PROVE Honest /\ OneOpen /\ Sound /\ Claimed
  BY InitTypeOK DEF Kept
<1>1. /\ net.up = <<[kind |-> "attach"]>> /\ net.down = <<>> /\ mail.events = <<>>
      /\ engine.queued = 0 /\ worker.id = 0 /\ worker.at = "idle" /\ ran = {}
      /\ front.at = "attaching" /\ front.id = 0 /\ outcome = [id \in Ids |-> "none"]
  BY DEF Init
<1>2. Range(net.up) = {[kind |-> "attach"]} /\ Range(net.down) = {} /\ Range(mail.events) = {}
  BY <1>1 DEF Range
<1>3. \A r \in Ids : ~InUp(r) /\ ~InHand(r) /\ ~Said("report", r) /\ ~Said("refused", r)
  BY <1>1, <1>2 DEF InUp, InHand, Said, Asks, Ids
<1>4. Distinct(net.up)
  BY <1>1 DEF Distinct, Asks
<1>5. Honest
  BY <1>1, <1>3, <1>4 DEF Honest, ToldTruly
<1>6. OneOpen
  BY <1>1 DEF OneOpen, Waits, Ids
<1>7. Sound /\ Claimed
  BY DEF Init, Sound, LatchedFirst, ParkedByOwner, EndReachesRuns, Claimed
<1> QED BY <1>5, <1>6, <1>7

LEMMA FrontStepPromised ==
  ASSUME Kept, FrontNext
  PROVE  Honest' /\ OneOpen' /\ [Promised!Next]_(Promised!vars)
<1> USE DEF Kept
<1>1. UNCHANGED ran
  BY FrontStepEngine DEF engineVars
<1>2. severed' = severed \/ severed' = TRUE
  BY DEF FrontNext, Attached, TurnedAway, Aim, Strike, SignalLoads, SignalStrikes, Dispatch,
     DispatchUnsendable, Receive, Lost, HostAnswers, HostPanics, Detach, Ended, Breaks, Sever,
     Drop, Read, ReadClosed, ReadSevered, ReaderStops, ReaderExits, FrontWrites, TypeOK, NetOK
<1>3. ASSUME UNCHANGED outcome, front'.id = front.id
      PROVE  [Promised!Next]_(Promised!vars)
  BY <1>1, <1>2, <1>3 DEF Promised!Next, Promised!Cut, Promised!vars
<1>4. CASE \E p \in BOOLEAN : Aim(p)
  <2>1. PICK p \in BOOLEAN : Aim(p)
    BY <1>4
  <2>2. /\ Honest' /\ OneOpen' /\ UNCHANGED <<outcome, ran, severed>>
        /\ front'.id = front.id + 1 /\ front'.id \in Ids
        /\ front.id > 0 => outcome[front.id] # "none"
    BY <2>1, AimTruly
  <2>3. front.id < MaxIds
    BY <2>1 DEF Aim
  <2> QED BY <2>2, <2>3 DEF Promised!Next, Promised!Ask
<1>5. CASE Dispatch
  BY <1>3, <1>5, DispatchTruly
<1>6. CASE DispatchUnsendable
  BY <1>3, <1>6, UnsendableTruly
<1>7. ASSUME NEW how \in {"report", "refused", "severed", "abandoned"},
             Honest', OneOpen', front'.id = front.id, UNCHANGED <<ran, severed>>,
             front.id \in Ids, outcome[front.id] = "none",
             outcome' = [outcome EXCEPT ![front.id] = how],
             how = "report" => front.id \in ran, how = "refused" => front.id \notin ran,
             how = "severed" => severed
      PROVE  Honest' /\ OneOpen' /\ [Promised!Next]_(Promised!vars)
  <2>1. Promised!Open(front.id)
    BY <1>7 DEF Promised!Open
  <2>2. Promised!Conclude(front.id, how)
    BY <1>7, <2>1 DEF Promised!Conclude
  <2>3. \/ Promised!Report(front.id) \/ Promised!Refuse(front.id)
        \/ Promised!Lose(front.id) \/ Promised!Abandon(front.id)
    BY <1>7, <2>2 DEF Promised!Report, Promised!Refuse, Promised!Lose, Promised!Abandon
  <2>4. front.id \in Promised!Ids
    BY <1>7 DEF Promised!Ids, Ids
  <2> QED BY <1>7, <2>3, <2>4 DEF Promised!Next
<1>8. CASE Receive
  <2>1. PICK n \in Mine :
          /\ mail' = Others(n)
          /\ IF mail.events[n].kind = "enquiry"
             THEN /\ front' = [front EXCEPT !.at = "host", !.eid = mail.events[n].eid]
                  /\ UNCHANGED outcome
             ELSE Conclude(mail.events[n].kind)
    BY <1>8 DEF Receive
  <2>2. /\ mail.events[n] \in Events /\ mail.events[n] \in Range(mail.events)
        /\ mail.events[n].id = front.id
        /\ Range(Others(n).events) \subseteq Range(mail.events)
    BY MineFits DEF TypeOK
  <2>3. Range(mail'.events) \subseteq Range(mail.events)
    BY <2>1, <2>2
  <2>4. UNCHANGED <<net, severed, engineVars>> /\ front.at = "wait"
    BY <1>8 DEF Receive, At
  <2>5. CASE mail.events[n].kind = "enquiry"
    <3>1. front'.id = front.id /\ front'.at = "host" /\ UNCHANGED outcome
      BY <2>1, <2>5 DEF TypeOK, FrontOK
    <3>2. Honest' /\ OneOpen'
      BY <2>3, <2>4, <3>1, FrontQuiet DEF Waits, InUp, Distinct, Honest
    <3> QED BY <1>3, <3>1, <3>2
  <2>6. CASE mail.events[n].kind # "enquiry"
    <3> DEFINE how == mail.events[n].kind
    <3>1. how \in {"report", "refused"} /\ Said(how, front.id)
      BY <2>2, <2>6 DEF Events, Said
    <3>2. Conclude(how)
      BY <2>1, <2>6
    <3> HIDE DEF how
    <3>3. /\ Honest' /\ OneOpen' /\ front'.id = front.id /\ UNCHANGED <<ran, severed>>
          /\ front.id \in Ids /\ outcome[front.id] = "none"
          /\ outcome' = [outcome EXCEPT ![front.id] = how]
          /\ how = "report" => front.id \in ran
          /\ how = "refused" => front.id \notin ran
      BY <2>3, <2>4, <3>1, <3>2, ConcludeTruly DEF Waits
    <3> QED BY <1>7, <3>1, <3>3
  <2> QED BY <2>5, <2>6
<1>9. CASE Lost \/ HostPanics
  <2>1. PICK how \in {"severed", "abandoned"} :
          Conclude(how) /\ (how = "severed" => mail.reader = "gone")
    BY <1>9 DEF Lost, HostPanics
  <2>2. how = "severed" => severed
    BY <2>1 DEF Sound, LatchedFirst
  <2>3. UNCHANGED <<net, severed, mail, engineVars>> /\ front.at \in {"wait", "host"}
    BY <1>9 DEF Lost, HostPanics, At
  <2>4. /\ Honest' /\ OneOpen' /\ front'.id = front.id /\ UNCHANGED <<ran, severed>>
        /\ front.id \in Ids /\ outcome[front.id] = "none"
        /\ outcome' = [outcome EXCEPT ![front.id] = how]
    BY <2>1, <2>3, ConcludeTruly DEF Waits
  <2> QED BY <1>7, <2>2, <2>4
<1>10. CASE \/ Attached \/ TurnedAway \/ Strike \/ SignalLoads \/ SignalStrikes \/ HostAnswers
            \/ Detach \/ Ended \/ Breaks \/ Sever \/ Drop \/ Read \/ ReadClosed \/ ReadSevered
            \/ ReaderExits
  BY <1>3, <1>10, FrontQuietSteps
<1> QED BY <1>4, <1>5, <1>6, <1>8, <1>9, <1>10 DEF FrontNext

LEMMA EngineStepPromised ==
  ASSUME Kept, EngineNext
  PROVE  Honest' /\ OneOpen' /\ [Promised!Next]_(Promised!vars)
<1> USE DEF Kept
<1>1. CASE \/ Boot \/ Fill \/ Apply \/ Terminate \/ Leave \/ Acknowledge \/ Exit \/ Killed
           \/ Enquire \/ Answered \/ Stopped \/ Admit \/ Busy
  <2>1. Honest' /\ OneOpen' /\ UNCHANGED <<ran, severed, frontVars>>
    BY <1>1, EngineQuietSteps, AnsweredTruly
  <2>2. UNCHANGED <<outcome, front>>
    BY <2>1 DEF frontVars
  <2> QED BY <2>1, <2>2 DEF Promised!vars
<1>2. CASE Take \/ Finish \/ ReleaseThenReport
  <2>1. /\ Honest' /\ OneOpen' /\ UNCHANGED <<severed, frontVars>>
        /\ \/ ran' = ran
           \/ \E r \in Ids : /\ r <= front.id /\ r \notin ran /\ outcome[r] # "refused"
                             /\ ran' = ran \cup {r}
    BY <1>2, WorkedTruly
  <2>2. UNCHANGED <<outcome, front>>
    BY <2>1 DEF frontVars
  <2>3. CASE ran' = ran
    BY <2>1, <2>2, <2>3 DEF Promised!vars
  <2>4. CASE \E r \in Ids : Promised!Do(r)
    BY <2>1, <2>4 DEF Promised!Next, Promised!Ids, Ids
  <2> QED BY <2>1, <2>2, <2>3, <2>4 DEF Promised!Do
<1> QED BY <1>1, <1>2 DEF EngineNext

LEMMA StepKept == Kept /\ [Next]_vars => Kept' /\ [Promised!Next]_(Promised!vars)
<1> SUFFICES ASSUME Kept, [Next]_vars PROVE Kept' /\ [Promised!Next]_(Promised!vars)
  OBVIOUS
<1>1. CASE FrontNext
  BY <1>1, FrontStepPromised, FrontStepTypeOK, FrontStepClaimed, FrontStepSound DEF Kept
<1>2. CASE EngineNext
  BY <1>2, EngineStepPromised, EngineStepTypeOK, EngineStepSound DEF Kept
<1>3. CASE UNCHANGED vars
  <2>1. UNCHANGED <<net, severed, front, mail, session, told, signal, outcome,
                    engine, scopes, worker, parks, ran>>
    BY <1>3 DEF vars, frontVars, engineVars
  <2>2. TypeOK'
    BY <2>1, FrontStays, EngineStays DEF Kept, TypeOK, NetOK, frontVars, engineVars
  <2>3. Claimed' /\ Sound' /\ OneOpen'
    BY <2>1 DEF Kept, Claimed, Sound, LatchedFirst, ParkedByOwner, EndReachesRuns, OneOpen, Waits
  <2>4. Honest'
    BY <2>1 DEF Kept, Honest, ToldTruly, Distinct, InUp, InHand, Said, Sent
  <2> QED BY <2>1, <2>2, <2>3, <2>4 DEF Kept, Promised!vars
<1> QED BY <1>1, <1>2, <1>3 DEF Next

LEMMA KeptAlways == Spec => []Kept
  BY InitKept, StepKept, PTL DEF Spec

\* What a caller sees of a wire is what Requests promises it: one conclusion
\* for each request, a report only of what was done, a refusal only of what
\* never is, and a loss only with the connection.
THEOREM PromiseKept == Spec => KeepsPromise
<1>1. Init => Promised!Init
  BY DEF Init, Promised!Init, Promised!Ids, Ids
<1> QED BY <1>1, InitKept, StepKept, PTL DEF Spec, KeepsPromise, Promised!Spec

-----------------------------------------------------------------------------
(* What a step may do to the wire, for the invariants that follow. *)

Has(how) == \E f \in Range(net.down) : f.kind = how

\* The front writes at the end of its way, to a socket that is not shut, and
\* takes from the other.
LEMMA FrontFlow ==
  ASSUME TypeOK, FrontNext
  PROVE  /\ net.shut => net'.shut
         /\ Range(net'.down) \subseteq Range(net.down)
         /\ severed => severed'
         /\ severed' => severed \/ net'.shut \/ Has("denied") \/ mail.reader = "leaving"
         /\ mail'.reader # "reading" => mail.reader # "reading" \/ net.shut \/ severed
                                         \/ Has("ended") \/ Has("denied")
         /\ session' = "ended" => session = "ended" \/ Has("ended")
<1> USE DEF TypeOK
<1>1. net \in NetType /\ net.down \in Seq(DownFrames)
  BY DEF NetOK, NetType
<1>2. ASSUME NEW f \in UpFrames, FrontWrites(f)
      PROVE  net'.shut = net.shut /\ net'.down = net.down
  BY <1>1, <1>2, PutUp DEF FrontWrites
<1>3. CASE Strike \/ SignalStrikes \/ Dispatch \/ HostAnswers \/ Detach
  <2>1. \E f \in UpFrames : FrontWrites(f)
    <3>1. CASE SignalStrikes
      <4>1. signal.id \in Ids
        BY <3>1, Bounds DEF SignalStrikes, FrontOK, Ids
      <4> QED BY <3>1, <4>1, FramesFit DEF SignalStrikes
    <3>2. CASE Strike \/ Dispatch
      <4>1. front.id \in Ids
        BY <3>2 DEF Strike, Dispatch, At, FrontOK
      <4> QED BY <3>2, <4>1, FramesFit DEF Strike, Dispatch
    <3>3. CASE HostAnswers \/ Detach
      BY <3>3 DEF HostAnswers, Detach, UpFrames, FrontOK, At
    <3> QED BY <1>3, <3>1, <3>2, <3>3
  <2>2. net'.shut = net.shut /\ net'.down = net.down
    BY <1>2, <2>1
  <2>3. UNCHANGED <<mail, session>> /\ (severed' <=> severed \/ net.shut)
    BY <1>3 DEF Strike, SignalStrikes, Dispatch, HostAnswers, Detach, FrontWrites
  <2> QED BY <2>2, <2>3
<1>4. CASE \/ Attached \/ TurnedAway \/ (\E p \in BOOLEAN : Aim(p)) \/ SignalLoads \/ Lost
           \/ HostPanics \/ Ended
  <2>1. UNCHANGED <<net, mail, session, severed>>
    BY <1>4 DEF Attached, TurnedAway, Aim, SignalLoads, Lost, HostPanics, Ended
  <2> QED BY <2>1
<1>5. CASE Breaks \/ Sever \/ Drop
  BY <1>1, <1>5 DEF Breaks, Sever, Drop, frontVars, NetType, FrontOK
<1>6. CASE DispatchUnsendable \/ Receive \/ ReaderExits
  <2>1. /\ UNCHANGED <<net, session>> /\ (severed => severed')
        /\ severed' => severed \/ mail.reader = "leaving"
    <3>1. CASE DispatchUnsendable \/ Receive
      <4>1. UNCHANGED <<net, session, severed>>
        BY <3>1 DEF DispatchUnsendable, Receive
      <4> QED BY <4>1
    <3>2. CASE ReaderExits
      BY <3>2 DEF ReaderExits
    <3> QED BY <1>6, <3>1, <3>2
  <2>2. mail'.reader # "reading" => mail.reader # "reading"
    BY <1>6, MineFits DEF DispatchUnsendable, Receive, ReaderExits, FrontOK
  <2> QED BY <2>1, <2>2
<1>7. CASE Read
  <2>1. Head(net.down) \in Range(net.down) /\ Range(Tail(net.down)) \subseteq Range(net.down)
    BY <1>1, <1>7, TailRange DEF Read
  <2>2. Range(<<>>) = {}
    BY DEF Range
  <2>3. net'.shut = net.shut /\ Range(net'.down) \subseteq Range(net.down)
    BY <1>1, <1>7, <2>1, <2>2 DEF Read, NetType
  <2>4. /\ severed' = (severed \/ Head(net.down).kind = "denied")
        /\ session' \in {session, Head(net.down).kind}
        /\ mail'.reader # "reading" => Head(net.down).kind \in {"ended", "denied"}
    BY <1>7 DEF Read, FrontOK
  <2> QED BY <2>1, <2>3, <2>4 DEF Has
<1>8. CASE ReadClosed \/ ReadSevered
  <2>1. Range(<<>>) = {}
    BY DEF Range
  <2>2. net'.shut = net.shut /\ net'.down = <<>> /\ session' = session /\ severed'
    BY <1>1, <1>8 DEF ReadClosed, ReadSevered, ReaderStops, NetType
  <2>3. net.shut \/ severed
    BY <1>8 DEF ReadClosed, ReadSevered
  <2> QED BY <2>1, <2>2, <2>3
<1> QED BY <1>3, <1>4, <1>5, <1>6, <1>7, <1>8 DEF FrontNext

\* What it may write.
LEMMA FrontUp ==
  ASSUME TypeOK, FrontNext
  PROVE  \/ net'.up = net.up
         \/ ~net.shut /\ \E f \in UpFrames :
              /\ net'.up = Append(net.up, f)
              /\ \/ Asks(f) /\ f.id = front.id /\ Dispatch
                 \/ f.kind = "strike" /\ f.id = front.id /\ Strike
                 \/ f.kind = "strike" /\ f.id = signal.id /\ SignalStrikes
                 \/ f.kind = "answer"
                 \/ f.kind = "detach" /\ Detach
<1> USE DEF TypeOK
<1>1. net \in NetType
  BY DEF NetOK, NetType
<1>2. ASSUME NEW f \in UpFrames, FrontWrites(f)
      PROVE  net'.up = net.up \/ (~net.shut /\ net'.up = Append(net.up, f))
  BY <1>1, <1>2 DEF FrontWrites, Put, NetType
<1>3. CASE Dispatch
  <2>1. PICK f \in UpFrames : Asks(f) /\ f.id = front.id /\ FrontWrites(f)
    BY <1>3, FramesFit DEF Dispatch, At, FrontOK, Asks, Event
  <2> QED BY <1>2, <1>3, <2>1
<1>4. CASE Strike
  <2>1. PICK f \in UpFrames : f.kind = "strike" /\ f.id = front.id /\ FrontWrites(f)
    BY <1>4, FramesFit DEF Strike, At, FrontOK, Event
  <2> QED BY <1>2, <1>4, <2>1
<1>5. CASE SignalStrikes
  <2>1. signal.id \in Ids
    BY <1>5, Bounds DEF SignalStrikes, FrontOK, Ids
  <2>2. PICK f \in UpFrames : f.kind = "strike" /\ f.id = signal.id /\ FrontWrites(f)
    BY <1>5, <2>1, FramesFit DEF SignalStrikes, Event
  <2> QED BY <1>2, <1>5, <2>2
<1>6. CASE HostAnswers
  <2>1. PICK f \in UpFrames : f.kind = "answer" /\ FrontWrites(f)
    BY <1>6 DEF HostAnswers, UpFrames, FrontOK, At
  <2> QED BY <1>2, <2>1
<1>7. CASE Detach
  <2>1. PICK f \in UpFrames : f.kind = "detach" /\ FrontWrites(f)
    BY <1>7 DEF Detach, UpFrames
  <2> QED BY <1>2, <1>7, <2>1
<1>8. CASE \/ Attached \/ TurnedAway \/ (\E p \in BOOLEAN : Aim(p)) \/ SignalLoads \/ Lost
           \/ HostPanics \/ Ended \/ DispatchUnsendable \/ Receive \/ ReaderExits
  BY <1>8 DEF Attached, TurnedAway, Aim, SignalLoads, Lost, HostPanics, Ended, DispatchUnsendable,
     Receive, ReaderExits
<1>9. CASE Breaks \/ Sever \/ Drop \/ Read \/ ReadClosed \/ ReadSevered
  BY <1>1, <1>9 DEF Breaks, Sever, Drop, Read, ReadClosed, ReadSevered, ReaderStops, NetType
<1> QED BY <1>3, <1>4, <1>5, <1>6, <1>7, <1>8, <1>9 DEF FrontNext

\* What becomes of the request it waits on.
LEMMA FrontOutcomes ==
  ASSUME TypeOK, FrontNext
  PROVE  \/ UNCHANGED outcome /\ front'.id = front.id /\ (front'.at = "aimed" => front.at = "aimed")
         \/ /\ UNCHANGED outcome /\ front.at = "idle" /\ front'.at = "aimed" /\ front'.id = front.id + 1
            /\ \E p \in BOOLEAN : Aim(p)
         \/ \E how \in {"report", "refused", "severed", "abandoned"} :
              /\ front.at \in {"wait", "host"} /\ front'.at = "idle" /\ front'.id = front.id
              /\ front.id \in Ids
              /\ outcome' = [outcome EXCEPT ![front.id] = how]
              /\ \/ how \in {"report", "refused"} /\ Said(how, front.id)
                 \/ how = "severed" /\ Lost
                 \/ how = "abandoned" /\ HostPanics
<1> USE DEF TypeOK
<1>1. CASE \E p \in BOOLEAN : Aim(p)
  BY <1>1 DEF Aim, At, FrontOK
<1>2. CASE Receive
  <2>1. PICK n \in Mine :
          IF mail.events[n].kind = "enquiry"
          THEN /\ front' = [front EXCEPT !.at = "host", !.eid = mail.events[n].eid]
               /\ UNCHANGED outcome
          ELSE Conclude(mail.events[n].kind)
    BY <1>2 DEF Receive
  <2>2. /\ mail.events[n] \in Events /\ mail.events[n] \in Range(mail.events)
        /\ mail.events[n].id = front.id
    BY MineFits
  <2>3. front.at = "wait" /\ front.id \in Ids
    BY <1>2 DEF Receive, At, FrontOK
  <2>4. CASE mail.events[n].kind = "enquiry"
    BY <2>1, <2>4 DEF FrontOK
  <2>5. CASE mail.events[n].kind # "enquiry"
    <3> DEFINE how == mail.events[n].kind
    <3>1. how \in {"report", "refused"} /\ Said(how, front.id) /\ Conclude(how)
      BY <2>1, <2>2, <2>5 DEF Events, Said
    <3> HIDE DEF how
    <3> QED BY <2>3, <3>1 DEF Conclude, FrontOK
  <2> QED BY <2>4, <2>5
<1>3. CASE Lost \/ HostPanics
  BY <1>3 DEF Lost, HostPanics, Conclude, At, FrontOK
<1>4. CASE Attached \/ TurnedAway \/ Strike \/ Dispatch \/ DispatchUnsendable \/ HostAnswers
           \/ Detach \/ Ended \/ Drop
  BY <1>4 DEF Attached, TurnedAway, Strike, Dispatch, DispatchUnsendable, HostAnswers, Detach, Ended,
     Drop, At, FrontOK
<1>5. CASE SignalLoads \/ SignalStrikes \/ Breaks \/ Sever \/ Read \/ ReadClosed \/ ReadSevered
           \/ ReaderExits
  BY <1>5 DEF SignalLoads, SignalStrikes, Breaks, Sever, Read, ReadClosed, ReadSevered, ReaderStops,
     ReaderExits, frontVars
<1> QED BY <1>1, <1>2, <1>3, <1>4, <1>5 DEF FrontNext

\* The engine takes what comes in order, and writes at the end of its own way.
LEMMA EngineFlow ==
  ASSUME TypeOK, Claimed, EngineNext
  PROVE  /\ UNCHANGED <<severed, frontVars>>
         /\ net.shut => net'.shut
         /\ \/ net'.up = net.up /\ engine'.loop # "gone"
            \/ net.up # <<>> /\ net'.up = Tail(net.up) /\ (Boot \/ Admit \/ Busy \/ Fill \/ Apply)
            \/ net'.up = <<>>
         /\ engine.loop # "gone" /\ (engine'.loop = "gone" => net'.shut)
         /\ \A f \in Range(net'.down) :
              \/ f \in Range(net.down)
              \/ f.kind = "attached"
              \/ f.kind = "denied" /\ engine'.loop = "gone"
              \/ f.kind = "ended" /\ engine'.loop = "gone" /\ Acknowledge
              \/ f.kind = "refused" /\ f.id = Next1.id /\ Busy
              \/ f.kind = "enquiry" /\ f.id = worker.id /\ worker.at = "running" /\ Enquire
              \/ f.kind = "report" /\ f.id = worker.id /\ worker.at = "free" /\ ReleaseThenReport
<1> USE DEF TypeOK
<1>1. net \in NetType /\ net.down \in Seq(DownFrames)
  BY DEF NetOK, NetType
<1>2. ASSUME NEW n \in NetType, NEW f \in DownFrames
      PROVE  /\ Put(n, "down", f).up = n.up /\ Put(n, "down", f).shut = n.shut
             /\ \A g \in Range(Put(n, "down", f).down) : g \in Range(n.down) \/ g = f
             /\ Put(n, "down", f) \in NetType
  <2>1. Put(n, "down", f).down \in {n.down, Append(n.down, f)} /\ n.down \in Seq(DownFrames)
    BY PutDown DEF NetType
  <2>2. Range(Append(n.down, f)) = Range(n.down) \cup {f}
    BY <2>1, AppendRange
  <2> QED BY <2>1, <2>2, PutDown
<1>3. net.up # <<>> => /\ Taken \in NetType /\ Taken.down = net.down /\ Taken.shut = net.shut
                       /\ Taken.up = Tail(net.up) /\ Next1 \in UpFrames
  BY TakenFits
<1>4. ASSUME NEW n \in NetType, Gone(n)
      PROVE  /\ net'.up = <<>> /\ net'.down = n.down /\ net'.shut /\ engine'.loop = "gone"
             /\ UNCHANGED <<severed, frontVars>>
  BY <1>4 DEF Gone, NetType
<1>5. [kind |-> "attached"] \in DownFrames /\ [kind |-> "denied"] \in DownFrames /\ [kind |-> "ended"] \in DownFrames
  BY DEF DownFrames
<1>6. CASE Boot
  <2>1. net.up # <<>> /\ engine.loop = "boot"
    BY <1>6 DEF Boot
  <2>2. CASE Gone(Put(Taken, "down", [kind |-> "denied"]))
    <3> DEFINE n == Put(Taken, "down", [kind |-> "denied"])
    <3>1. n \in NetType /\ \A g \in Range(n.down) : g \in Range(net.down) \/ g = [kind |-> "denied"]
      BY <1>2, <1>3, <1>5, <2>1
    <3>2. Gone(n)
      BY <2>2
    <3> HIDE DEF n
    <3> QED BY <1>4, <2>1, <3>1, <3>2
  <2>3. CASE /\ net' = Put(Taken, "down", [kind |-> "attached"])
             /\ engine' = [engine EXCEPT !.loop = "serving", !.fault = net.shut]
             /\ UNCHANGED <<severed, frontVars, scopes, worker, parks, ran>>
    <3>1. /\ net'.up = Tail(net.up) /\ net'.shut = net.shut
          /\ \A g \in Range(net'.down) : g \in Range(net.down) \/ g = [kind |-> "attached"]
      BY <1>2, <1>3, <1>5, <2>1, <2>3
    <3>2. engine'.loop = "serving"
      BY <2>3 DEF EngineOK
    <3> QED BY <1>6, <2>1, <2>3, <3>1, <3>2
  <2> QED BY <1>6, <2>2, <2>3 DEF Boot
<1>7. CASE Admit \/ Fill \/ Apply
  <2>1. net.up # <<>> /\ net' = Taken /\ engine.loop = "serving" /\ engine'.loop = "serving"
    BY <1>7 DEF Admit, Fill, Apply, Serving, EngineOK
  <2>2. UNCHANGED <<severed, frontVars>>
    BY <1>7 DEF Admit, Fill, Apply
  <2> QED BY <1>3, <1>7, <2>1, <2>2
<1>8. CASE Busy
  <2>1. net.up # <<>> /\ engine.loop = "serving" /\ engine'.loop = "serving"
    BY <1>8 DEF Busy, Serving, EngineOK
  <2>2. Next1.id \in Ids
    BY <1>3, <1>8, <2>1 DEF Busy, UpFrames
  <2>3. net' = Put(Taken, "down", Event(Next1.id, "refused")) /\ UNCHANGED <<severed, frontVars>>
    BY <1>8 DEF Busy
  <2>4. Event(Next1.id, "refused") \in DownFrames
    BY <2>2, FramesFit
  <2>5. /\ net'.up = Tail(net.up) /\ net'.shut = net.shut
        /\ \A g \in Range(net'.down) : g \in Range(net.down) \/ g = Event(Next1.id, "refused")
    BY <1>2, <1>3, <2>1, <2>3, <2>4
  <2> QED BY <1>8, <2>1, <2>3, <2>5 DEF Event
<1>9. CASE Terminate \/ Leave
  <2>1. /\ engine.loop = "serving" /\ engine'.loop # "gone" /\ net'.shut = net.shut /\ net'.down = net.down
        /\ net'.up = net.up \/ net'.up = <<>>
        /\ UNCHANGED <<severed, frontVars>>
    BY <1>1, <1>9 DEF Terminate, Leave, EngineOK, NetType
  <2> QED BY <2>1
<1>10. CASE Acknowledge
  <2> DEFINE n == Put(net, "down", [kind |-> "ended"])
  <2>1. n \in NetType /\ \A g \in Range(n.down) : g \in Range(net.down) \/ g = [kind |-> "ended"]
    BY <1>1, <1>2, <1>5
  <2>2. Gone(n) /\ engine.loop = "settling"
    BY <1>10 DEF Acknowledge, Done
  <2> HIDE DEF n
  <2> QED BY <1>4, <1>10, <2>1, <2>2
<1>11. CASE Exit \/ Killed
  <2>1. Gone(net) /\ engine.loop # "gone"
    BY <1>11 DEF Exit, Killed, Done
  <2> QED BY <1>1, <1>4, <2>1
<1>12. CASE Take \/ Answered \/ Stopped \/ Finish
  <2>1. net' = net /\ engine.loop # "gone" /\ engine'.loop = engine.loop /\ UNCHANGED <<severed, frontVars>>
    BY <1>12 DEF Take, Answered, Stopped, Finish, Working, EngineOK
  <2> QED BY <2>1
<1>13. CASE Enquire
  <2>1. worker.at = "running" /\ engine.loop # "gone" /\ engine'.loop = engine.loop /\ UNCHANGED <<severed, frontVars>>
    BY <1>13 DEF Enquire, Working, EngineOK, EngineWrites
  <2>2. PICK eid \in Eids : net' = Put(net, "down", Enquiry(worker.id, eid))
    BY <1>13 DEF Enquire, EngineWrites
  <2>3. worker.id \in Ids
    BY <2>1, Bounds DEF EngineOK, Ids
  <2>4. Enquiry(worker.id, eid) \in DownFrames
    BY <2>3, FramesFit
  <2>5. /\ net'.up = net.up /\ net'.shut = net.shut
        /\ \A g \in Range(net'.down) : g \in Range(net.down) \/ g = Enquiry(worker.id, eid)
    BY <1>1, <1>2, <2>2, <2>4
  <2> QED BY <1>13, <2>1, <2>5 DEF Enquiry
<1>14. CASE ReleaseThenReport
  <2>1. engine.loop # "gone" /\ engine'.loop = engine.loop /\ UNCHANGED <<severed, frontVars>>
    BY <1>14 DEF ReleaseThenReport, Working, EngineOK, EngineWrites
  <2>2. CASE net' = net
    BY <2>1, <2>2
  <2>3. CASE worker.at = "free" /\ net' = Put(net, "down", Event(worker.id, "report"))
    <3>1. worker.id \in Ids
      BY <2>3, Bounds DEF EngineOK, Ids
    <3>2. Event(worker.id, "report") \in DownFrames
      BY <3>1, FramesFit
    <3>3. /\ net'.up = net.up /\ net'.shut = net.shut
          /\ \A g \in Range(net'.down) : g \in Range(net.down) \/ g = Event(worker.id, "report")
      BY <1>1, <1>2, <2>3, <3>2
    <3> QED BY <1>14, <2>1, <2>3, <3>3 DEF Event
  <2> QED BY <1>14, <2>2, <2>3 DEF ReleaseThenReport, Working, EngineWrites
<1> QED BY <1>6, <1>7, <1>8, <1>9, <1>10, <1>11, <1>12, <1>13, <1>14 DEF EngineNext

-----------------------------------------------------------------------------
(* A cut wire, and one that is severed. *)

\* Whoever severed did so on a socket that is shut, or shuts it; an engine that
\* has gone, and the news of it, come with a socket that is shut.
Shutting == /\ severed => net.shut
            /\ mail.reader # "reading" => net.shut
            /\ engine.loop = "gone" => net.shut
            /\ Has("ended") \/ Has("denied") => engine.loop = "gone"
            /\ session = "ended" => engine.loop = "gone"

LEMMA StepShutting ==
  ASSUME TypeOK, Claimed, Shutting, FrontNext \/ EngineNext
  PROVE  Shutting'
<1>1. CASE FrontNext
  <2>1. engine' = engine
    BY <1>1, FrontStepEngine DEF engineVars
  <2>2. \A how : Has(how)' => Has(how)
    BY <1>1, FrontFlow DEF Has
  <2> QED BY <1>1, <2>1, <2>2, FrontFlow DEF Shutting
<1>2. CASE EngineNext
  <2>1. UNCHANGED <<severed, mail, session>>
    BY <1>2, EngineFlow DEF frontVars
  <2>2. Has("ended")' \/ Has("denied")' => engine'.loop = "gone"
    BY <1>2, EngineFlow DEF Has, Shutting
  <2> QED BY <1>2, <2>1, <2>2, EngineFlow DEF Shutting
<1> QED BY <1>1, <1>2

\* What the waiting thread can come to hear: what was said, or that its own run
\* could not be sent.
LEMMA MailFlow ==
  ASSUME TypeOK, FrontNext
  PROVE  \A f \in Range(mail'.events) : \/ f \in Range(net.down) \cup Range(mail.events)
                                        \/ f.kind = "refused" /\ f.id = front.id
<1> USE DEF TypeOK
<1>1. mail.events \in Seq(Events) /\ net.down \in Seq(DownFrames)
  BY DEF NetOK, FrontOK
<1>2. CASE DispatchUnsendable
  <2> DEFINE e == Event(front.id, "refused")
  <2>1. mail'.events = <<e>> \o mail.events /\ e.kind = "refused" /\ e.id = front.id
    BY <1>2 DEF DispatchUnsendable, FrontOK, Event
  <2> HIDE DEF e
  <2>2. /\ \A i \in DOMAIN mail'.events : i = 1 \/ (i - 1 \in DOMAIN mail.events
                                                    /\ mail'.events[i] = mail.events[i - 1])
        /\ mail'.events[1] = e
    BY <1>1, <2>1
  <2> QED BY <2>1, <2>2 DEF Range
<1>3. CASE Receive
  <2>1. PICK n \in Mine : mail' = Others(n)
    BY <1>3 DEF Receive
  <2>2. Range(Others(n).events) \subseteq Range(mail.events)
    BY MineFits
  <2> QED BY <2>1, <2>2
<1>4. CASE Read
  <2> DEFINE f == Head(net.down)
  <2>1. f \in Range(net.down) /\ f \in DownFrames
    BY <1>1, <1>4, TailRange DEF Read
  <2>2. mail'.events \in {mail.events, Append(mail.events, f)} /\ (mail'.events # mail.events => f \in Events)
    BY <1>4, <2>1 DEF Read, FrontOK, DownFrames
  <2>3. f \in Events => Range(Append(mail.events, f)) = Range(mail.events) \cup {f}
    BY <1>1, AppendRange
  <2> HIDE DEF f
  <2> QED BY <2>1, <2>2, <2>3
<1>5. CASE Drop
  <2>1. mail'.events = <<>>
    BY <1>5 DEF Drop, FrontOK
  <2> QED BY <2>1 DEF Range
<1>6. CASE ReadClosed \/ ReadSevered \/ ReaderExits
  <2>1. mail'.events = mail.events
    BY <1>6 DEF ReadClosed, ReadSevered, ReaderStops, ReaderExits, FrontOK
  <2> QED BY <2>1
<1>7. CASE \/ Attached \/ TurnedAway \/ (\E p \in BOOLEAN : Aim(p)) \/ Strike \/ SignalLoads \/ SignalStrikes
           \/ Dispatch \/ Lost \/ HostAnswers \/ HostPanics \/ Detach \/ Ended \/ Breaks \/ Sever
  <2>1. mail' = mail
    BY <1>7 DEF Attached, TurnedAway, Aim, Strike, SignalLoads, SignalStrikes, Dispatch, Lost, HostAnswers,
       HostPanics, Detach, Ended, Breaks, Sever, frontVars
  <2> QED BY <2>1
<1> QED BY <1>2, <1>3, <1>4, <1>5, <1>6, <1>7 DEF FrontNext

-----------------------------------------------------------------------------
(* The claim on the engine, and the requests in line for it. *)

InLine(s) == \A i, j \in DOMAIN s : i < j /\ Asks(s[i]) /\ Asks(s[j]) => s[i].id < s[j].id
Reported(r) == Said("report", r) \/ outcome[r] = "report"

\* Requests come in the order they were made, all of them later than the one
\* that has the engine; which has it until its report is made, and before that
\* is written; and a request is lost only with all that might come after it.
Holding == engine.busy # 0 => \/ engine.busy = engine.queued
                              \/ worker.id = engine.busy /\ worker.at \in {"running", "parked", "made"}
Behind  == engine.busy # 0 => \A r \in Ids : InUp(r) => engine.busy < r
Letting == worker.at = "free" => engine.busy # worker.id
Past(r) == /\ Reported(r) => r \in ran /\ engine.busy # r
           /\ outcome[r] = "severed" => severed /\ \A d \in Ids : InUp(d) => d <= r
Claims == InLine(net.up) /\ Holding /\ Behind /\ Letting /\ \A r \in Ids : Past(r)

LEMMA InLineAppend ==
  ASSUME NEW S, NEW s \in Seq(S), NEW e \in S, InLine(s),
         Asks(e) => \A f \in Range(s) : Asks(f) => f.id < e.id
  PROVE  InLine(Append(s, e))
<1>1. /\ DOMAIN Append(s, e) = DOMAIN s \cup {Len(s) + 1} /\ Append(s, e)[Len(s) + 1] = e
      /\ \A i \in DOMAIN s : Append(s, e)[i] = s[i] /\ i < Len(s) + 1 /\ i \in Nat
      /\ Len(s) \in Nat
  OBVIOUS
<1>2. \A i \in DOMAIN s : s[i] \in Range(s)
  BY DEF Range
<1> QED BY <1>1, <1>2 DEF InLine

LEMMA InLineTail ==
  ASSUME NEW S, NEW s \in Seq(S), s # <<>>, InLine(s)
  PROVE  /\ InLine(Tail(s))
         /\ Asks(Head(s)) => \A f \in Range(Tail(s)) : Asks(f) => Head(s).id < f.id
<1>1. /\ Head(s) = s[1] /\ 1 \in DOMAIN s
      /\ \A i \in DOMAIN Tail(s) : i \in Nat /\ i > 0 /\ i + 1 \in DOMAIN s /\ Tail(s)[i] = s[i + 1]
  OBVIOUS
<1>2. InLine(Tail(s))
  BY <1>1 DEF InLine
<1>3. \A i \in DOMAIN Tail(s) : Asks(Head(s)) /\ Asks(Tail(s)[i]) => Head(s).id < Tail(s)[i].id
  BY <1>1 DEF InLine
<1> QED BY <1>2, <1>3 DEF Range

\* The front's steps: the line grows by its own request, the latest.
LEMMA FrontStepClaims ==
  ASSUME Kept, Shutting, Claims, FrontNext
  PROVE  Claims'
<1> USE DEF Kept
<1>1. UNCHANGED <<engine, worker, ran>>
  BY FrontStepEngine DEF engineVars
<1>2. net.up \in Seq(UpFrames) /\ front.id \in Nat /\ \A r \in Ids : r \in Nat
  BY Bounds DEF TypeOK, NetOK, FrontOK, Ids
<1>3. \A r \in Ids : Said("report", r)' => Said("report", r)
  <2>1. Range(net'.down) \subseteq Range(net.down)
    BY FrontFlow
  <2> QED BY <2>1, MailFlow DEF Said
<1>4. CASE net'.up = net.up
  <2>1. \A r \in Ids : InUp(r)' <=> InUp(r)
    BY <1>4 DEF InUp
  <2>2. InLine(net'.up) /\ Holding' /\ Behind' /\ Letting'
    BY <1>1, <1>4, <2>1 DEF Claims, Holding, Behind, Letting
  <2>3. ASSUME NEW r \in Ids PROVE Past(r)'
    <3>1. Past(r) /\ (severed => severed')
      BY FrontFlow DEF Claims
    <3>2. CASE UNCHANGED outcome
      BY <1>1, <1>3, <2>1, <3>1, <3>2 DEF Past, Reported
    <3>3. ASSUME NEW how \in {"report", "refused", "severed", "abandoned"}, front.id \in Ids,
                 outcome' = [outcome EXCEPT ![front.id] = how],
                 how \in {"report", "refused"} => Said(how, front.id), how = "severed" => Lost
          PROVE  Past(r)'
      <4>1. outcome'[r] = IF r = front.id THEN how ELSE outcome[r]
        BY <3>3 DEF TypeOK, FrontOK
      <4>2. how = "severed" => severed
        BY <3>3 DEF Lost, Sound, LatchedFirst
      <4>3. \A d \in Ids : InUp(d) => d <= front.id
        BY DEF Honest, ToldTruly, Sent
      <4>4. Reported(r)' => Reported(r)
        BY <1>3, <3>3, <4>1 DEF Reported
      <4> QED BY <1>1, <2>1, <3>1, <4>1, <4>2, <4>3, <4>4 DEF Past
    <3> QED BY <3>2, <3>3, FrontOutcomes
  <2> QED BY <2>2, <2>3 DEF Claims
<1>5. ASSUME ~net.shut, NEW f \in UpFrames, net'.up = Append(net.up, f),
             Asks(f) => f.id = front.id /\ Dispatch
      PROVE  Claims'
  <2>1. Range(net'.up) = Range(net.up) \cup {f}
    BY <1>2, <1>5, AppendRange
  <2>2. \A r \in Ids : InUp(r)' => InUp(r) \/ (r = front.id /\ Dispatch)
    BY <1>5, <2>1 DEF InUp
  <2>3. Dispatch => \A r \in Ids : Sent(r) => r < front.id
    BY <1>2 DEF Dispatch, At, Sent
  <2>4. Asks(f) => \A g \in Range(net.up) : Asks(g) => g.id < f.id
    <3> SUFFICES ASSUME Asks(f), NEW g \in Range(net.up), Asks(g) PROVE g.id < f.id
      OBVIOUS
    <3>1. g \in UpFrames
      BY <1>2 DEF Range
    <3>2. g.id \in Ids
      BY <3>1 DEF Asks, UpFrames
    <3>3. InUp(g.id)
      BY DEF InUp
    <3>4. Sent(g.id)
      BY <3>2, <3>3 DEF Honest, ToldTruly
    <3> QED BY <1>5, <2>3, <3>2, <3>4
  <2>5. InLine(net'.up)
    BY <1>2, <1>5, <2>4, InLineAppend DEF Claims
  <2>6. Behind'
    <3> SUFFICES ASSUME engine.busy # 0, NEW r \in Ids, InUp(r)' PROVE engine.busy < r
      BY <1>1 DEF Behind
    <3>1. CASE InUp(r)
      BY <3>1 DEF Claims, Behind
    <3>2. CASE r = front.id /\ Dispatch
      <4>1. engine.busy \in Ids
        BY Bounds DEF TypeOK, EngineOK, Ids
      <4>2. InHand(engine.busy) \/ engine.busy \in ran
        BY DEF Claims, Holding, Honest, InHand
      <4>3. Sent(engine.busy)
        BY <4>1, <4>2 DEF Honest, ToldTruly
      <4> QED BY <2>3, <3>2, <4>1, <4>3
    <3> QED BY <2>2, <3>1, <3>2
  <2>7. outcome' = outcome \/ ~Dispatch
    BY DEF Dispatch
  <2>8. ~severed
    BY <1>5 DEF Shutting
  <2>9. \A r \in Ids : outcome'[r] # "severed"
    <3>1. \A r \in Ids : outcome[r] # "severed"
      BY <2>8 DEF Claims, Past
    <3>2. ~Lost
      BY <2>8 DEF Lost, Sound, LatchedFirst
    <3> QED BY <3>1, <3>2, FrontOutcomes DEF TypeOK, FrontOK
  <2>10. \A r \in Ids : Reported(r)' => Reported(r)
    <3>1. \A r \in Ids : outcome'[r] = "report" => outcome[r] = "report" \/ Said("report", r)
      BY FrontOutcomes DEF TypeOK, FrontOK
    <3> QED BY <1>3, <3>1 DEF Reported
  <2>11. \A r \in Ids : Past(r)'
    BY <1>1, <2>9, <2>10 DEF Past, Claims
  <2> QED BY <1>1, <2>5, <2>6, <2>11 DEF Claims, Holding, Letting
<1> QED BY <1>4, <1>5, FrontUp DEF Asks

\* The claim, and the worker, over a step of the engine.
LEMMA EngineClaim ==
  ASSUME TypeOK, Claimed, EngineNext
  PROVE  \/ engine'.busy = 0 /\ worker'.at = "idle" /\ engine'.loop = "gone" /\ ran' = ran
         \/ /\ engine'.busy = engine.busy /\ engine'.queued = engine.queued /\ worker'.id = worker.id
            /\ worker'.at = worker.at \/ {worker.at, worker'.at} \subseteq {"running", "parked"}
            /\ ran' = ran
         \/ /\ Admit /\ engine.busy = 0 /\ engine'.busy = Next1.id /\ engine'.queued = Next1.id
            /\ worker' = worker /\ ran' = ran /\ net'.up = Tail(net.up) /\ net.up # <<>> /\ Asks(Next1)
         \/ /\ Take /\ engine'.busy = engine.busy /\ engine.queued # 0 /\ worker'.id = engine.queued
            /\ worker'.at = "running" /\ net' = net /\ ran' = ran /\ engine'.queued = 0
         \/ /\ Finish /\ engine' = engine /\ worker.at = "running" /\ worker'.at = "made"
            /\ worker'.id = worker.id /\ net' = net /\ ran' = ran \cup {worker.id}
         \/ /\ ReleaseThenReport /\ worker.at = "made" /\ worker'.at = "free" /\ worker'.id = worker.id
            /\ engine'.busy = 0 /\ engine'.queued = engine.queued /\ net' = net /\ ran' = ran
         \/ /\ ReleaseThenReport /\ worker.at = "free" /\ worker'.at = "idle" /\ worker'.id = 0
            /\ engine'.busy = engine.busy /\ engine'.queued = engine.queued /\ ran' = ran
<1> USE DEF TypeOK
<1>1. ASSUME NEW n, Gone(n)
      PROVE  engine'.busy = 0 /\ worker'.at = "idle" /\ engine'.loop = "gone" /\ ran' = ran
  BY <1>1 DEF Gone
<1>2. CASE Exit \/ Killed \/ Acknowledge
  BY <1>1, <1>2 DEF Exit, Killed, Acknowledge, Done
<1>3. CASE Boot
  <2>1. CASE Gone(Put(Taken, "down", [kind |-> "denied"]))
    BY <1>1, <2>1
  <2>2. CASE /\ engine' = [engine EXCEPT !.loop = "serving", !.fault = net.shut]
             /\ UNCHANGED <<worker, ran>>
    BY <2>2 DEF EngineOK
  <2> QED BY <1>3, <2>1, <2>2 DEF Boot
<1>4. CASE Busy \/ Fill \/ Apply \/ Terminate \/ Leave
  <2>1. engine'.busy = engine.busy /\ engine'.queued = engine.queued /\ UNCHANGED <<worker, ran>>
    BY <1>4 DEF Busy, Fill, Apply, Terminate, Leave, EngineOK
  <2> QED BY <2>1
<1>5. CASE Enquire \/ Answered \/ Stopped
  <2>1. engine'.busy = engine.busy /\ engine'.queued = engine.queued /\ ran' = ran
    BY <1>5 DEF Enquire, Answered, Stopped, EngineOK
  <2>2. worker'.id = worker.id /\ {worker.at, worker'.at} \subseteq {"running", "parked"}
    BY <1>5 DEF Enquire, Answered, Stopped, Working, EngineOK
  <2> QED BY <2>1, <2>2
<1>6. CASE Admit
  <2>1. net.up # <<>> /\ Asks(Next1) /\ engine.busy = 0 /\ UNCHANGED <<worker, ran>> /\ net' = Taken
    BY <1>6 DEF Admit, Serving, Asks
  <2>2. net'.up = Tail(net.up)
    BY <2>1, TakenFits
  <2>3. engine'.busy = Next1.id /\ engine'.queued = Next1.id
    BY <1>6 DEF Admit, EngineOK
  <2> QED BY <1>6, <2>1, <2>2, <2>3
<1>7. CASE Take
  BY <1>7 DEF Take, EngineOK
<1>8. CASE Finish
  BY <1>8 DEF Finish, Working, EngineOK
<1>9. CASE ReleaseThenReport /\ worker.at = "made"
  BY <1>9 DEF ReleaseThenReport, Working, EngineOK
<1>10. CASE ReleaseThenReport /\ worker.at = "free"
  BY <1>10 DEF ReleaseThenReport, Working, EngineOK
<1> QED BY <1>2, <1>3, <1>4, <1>5, <1>6, <1>7, <1>8, <1>9, <1>10 DEF EngineNext, ReleaseThenReport, Working

\* The engine's: it takes the head of the line once it is free, and lets go of
\* a request before it says that it is done.
LEMMA EngineStepClaims ==
  ASSUME Kept, Shutting, Claims, EngineNext
  PROVE  Claims'
<1> USE DEF Kept
<1>1. UNCHANGED <<severed, mail, outcome, front>>
  BY EngineFlow DEF frontVars
<1>2. net.up \in Seq(UpFrames)
  BY DEF TypeOK, NetOK
<1>3. InLine(net'.up) /\ Range(net'.up) \subseteq Range(net.up)
  <2>1. net.up # <<>> => Range(Tail(net.up)) \subseteq Range(net.up) /\ InLine(Tail(net.up))
    BY <1>2, TailRange, InLineTail DEF Claims
  <2>2. Range(<<>>) = {} /\ InLine(<<>>)
    BY DEF Range, InLine
  <2> QED BY <2>1, <2>2, EngineFlow DEF Claims
<1>4. \A r \in Ids : InUp(r)' => InUp(r)
  BY <1>3 DEF InUp
<1>5. \A r \in Ids : Reported(r)' => \/ Reported(r)
                                     \/ r = worker.id /\ worker.at = "free"
  BY <1>1, EngineFlow DEF Reported, Said
<1>6. ran \subseteq ran' /\ (worker.at = "free" => worker.id \in ran)
  BY EngineClaim DEF Honest
<1>7. \A r \in Ids : outcome'[r] = "severed" => severed' /\ \A d \in Ids : InUp(d)' => d <= r
  BY <1>1, <1>4 DEF Claims, Past
<1>8. ASSUME engine'.busy \in {0, engine.busy}
      PROVE  Behind' /\ \A r \in Ids : Past(r)'
  <2>1. Behind'
    BY <1>4, <1>8 DEF Claims, Behind
  <2>2. ASSUME NEW r \in Ids, Reported(r)' PROVE r \in ran' /\ engine'.busy # r
    <3>1. r \in ran /\ engine.busy # r
      BY <1>5, <1>6, <2>2 DEF Claims, Past, Letting
    <3> QED BY <1>6, <1>8, <3>1 DEF Ids
  <2> QED BY <1>7, <2>1, <2>2 DEF Past
<1>9. CASE engine'.busy = 0 /\ worker'.at = "idle"
  BY <1>3, <1>8, <1>9 DEF Claims, Holding, Letting
<1>10. CASE /\ engine'.busy = engine.busy /\ engine'.queued = engine.queued /\ worker'.id = worker.id
            /\ worker'.at = worker.at \/ {worker.at, worker'.at} \subseteq {"running", "parked"}
  <2>1. worker'.at = "free" => worker.at = "free"
    BY <1>10
  <2>2. Holding' /\ Letting'
    BY <1>10, <2>1 DEF Claims, Holding, Letting
  <2> QED BY <1>3, <1>8, <1>10, <2>2 DEF Claims
<1>11. CASE /\ engine.busy = 0 /\ engine'.busy = Next1.id /\ engine'.queued = Next1.id
            /\ worker' = worker /\ net'.up = Tail(net.up) /\ net.up # <<>> /\ Asks(Next1)
  <2> DEFINE q == Next1.id
  <2>1. q \in Ids /\ InUp(q)
    <3>1. Next1 \in UpFrames /\ Next1 \in Range(net.up)
      BY <1>11, TakenFits DEF TypeOK
    <3> QED BY <1>11, <3>1 DEF InUp, Asks, UpFrames
  <2>2. \A r \in Ids : InUp(r)' => q < r
    BY <1>2, <1>11, InLineTail DEF Claims, InUp, Next1
  <2>3. q \notin ran
    BY <2>1 DEF Honest, ToldTruly
  <2>4. Behind' /\ Holding'
    BY <1>11, <2>2 DEF Behind, Holding
  <2>5. Letting'
    BY <1>6, <1>11, <2>3 DEF Letting
  <2>6. ASSUME NEW r \in Ids, Reported(r)' PROVE r \in ran' /\ engine'.busy # r
    <3>1. r \in ran
      BY <1>5, <1>6, <2>6 DEF Claims, Past
    <3> QED BY <1>6, <1>11, <2>3, <3>1
  <2> QED BY <1>3, <1>7, <2>4, <2>5, <2>6 DEF Claims, Past
<1>12. CASE /\ engine'.busy = engine.busy /\ engine.queued # 0 /\ worker'.id = engine.queued
            /\ worker'.at = "running"
  <2>1. Holding' /\ Letting'
    BY <1>12 DEF Holding, Letting, TypeOK, EngineOK
  <2> QED BY <1>3, <1>8, <1>12, <2>1 DEF Claims
<1>13. CASE engine' = engine /\ worker.at = "running" /\ worker'.at = "made" /\ worker'.id = worker.id
  <2>1. Holding' /\ Letting'
    BY <1>13 DEF Holding, Letting, Claims
  <2> QED BY <1>3, <1>8, <1>13, <2>1 DEF Claims
<1>14. CASE worker'.at = "free" /\ worker'.id = worker.id /\ engine'.busy = 0 /\ worker.at = "made"
  <2>1. worker.id # 0
    BY <1>14 DEF TypeOK, EngineOK
  <2>2. Holding' /\ Letting'
    BY <1>14, <2>1 DEF Holding, Letting
  <2> QED BY <1>3, <1>8, <1>14, <2>2 DEF Claims
<1>15. CASE /\ worker.at = "free" /\ worker'.at = "idle" /\ engine'.busy = engine.busy
            /\ engine'.queued = engine.queued
  <2>1. Holding' /\ Letting'
    BY <1>15 DEF Holding, Letting, Claims
  <2> QED BY <1>3, <1>8, <1>15, <2>1 DEF Claims
<1> QED BY <1>9, <1>10, <1>11, <1>12, <1>13, <1>14, <1>15, EngineClaim

LEMMA InitClaims == Init => Shutting /\ Claims
<1> SUFFICES ASSUME Init PROVE Shutting /\ Claims
  OBVIOUS
<1>1. /\ net.up = <<[kind |-> "attach"]>> /\ net.down = <<>> /\ mail.events = <<>> /\ ~net.shut
      /\ mail.reader = "reading" /\ session = "opening" /\ ~severed /\ engine.loop = "boot"
      /\ engine.busy = 0 /\ worker.at = "idle" /\ outcome = [id \in Ids |-> "none"]
  BY DEF Init
<1>2. Range(net.up) = {[kind |-> "attach"]} /\ Range(net.down) = {} /\ Range(mail.events) = {}
  BY <1>1 DEF Range
<1>3. \A r \in Ids : ~InUp(r) /\ ~Reported(r) /\ outcome[r] # "severed"
  BY <1>1, <1>2 DEF InUp, Reported, Said, Asks
<1>4. InLine(net.up)
  BY <1>1 DEF InLine, Asks
<1> QED BY <1>1, <1>2, <1>3, <1>4 DEF Shutting, Claims, Holding, Behind, Letting, Past, Has

LEMMA StepClaims ==
  Kept /\ Shutting /\ Claims /\ [Next]_vars => Shutting' /\ Claims'
<1> SUFFICES ASSUME Kept, Shutting, Claims, [Next]_vars PROVE Shutting' /\ Claims'
  OBVIOUS
<1>1. CASE Next
  BY <1>1, StepShutting, FrontStepClaims, EngineStepClaims DEF Next, Kept
<1>2. CASE UNCHANGED vars
  <2>1. UNCHANGED <<net, severed, mail, session, outcome, engine, worker, ran>>
    BY <1>2 DEF vars, frontVars, engineVars
  <2> QED BY <2>1 DEF Shutting, Claims, Holding, Behind, Letting, Past, Has, Reported, Said, InUp
<1> QED BY <1>1, <1>2

LEMMA ClaimsAlways == Spec => [](Kept /\ Shutting /\ Claims)
  BY InitKept, StepKept, InitClaims, StepClaims, PTL DEF Spec

\* A front that asks one thing at a time is told "engine busy" only of a run it
\* abandoned: serve.rs drops the claim before it writes the report.
THEOREM BusyIsAbandoned == Spec => []BusyOnlyAfterAbandon
<1>1. Kept /\ Shutting /\ Claims => BusyOnlyAfterAbandon
  <2> SUFFICES ASSUME Kept, Shutting, Claims,
                      Serving, Asks(Next1), engine.busy # 0
               PROVE  outcome[engine.busy] = "abandoned"
    BY DEF BusyOnlyAfterAbandon, Asks
  <2> DEFINE b == engine.busy
             d == Next1.id
  <2>1. d \in Ids /\ InUp(d)
    <3>1. Next1 \in UpFrames /\ Next1 \in Range(net.up)
      BY TakenFits DEF Kept, TypeOK, Serving
    <3> QED BY <3>1 DEF InUp, Asks, UpFrames
  <2>2. b \in Ids /\ b < d /\ Sent(d)
    <3>1. b \in 0..MaxIds /\ b # 0
      BY DEF Kept, TypeOK, EngineOK
    <3> QED BY <2>1, <3>1, Bounds DEF Claims, Behind, Kept, Honest, ToldTruly, Ids
  <2>3. outcome[b] # "none"
    BY <2>1, <2>2, Bounds DEF Sent, Kept, OneOpen, Ids, TypeOK, FrontOK
  <2>4. outcome[b] # "report" /\ outcome[b] # "severed"
    <3>1. Past(b)
      BY <2>2 DEF Claims
    <3>2. d > b
      BY <2>2, Bounds DEF Ids
    <3> QED BY <2>1, <2>2, <3>1, <3>2, Bounds DEF Past, Reported, Ids
  <2>5. outcome[b] # "refused"
    <3>1. InHand(b) \/ b \in ran
      BY DEF Claims, Holding, Kept, Honest, InHand
    <3> QED BY <2>2, <3>1 DEF Kept, Honest, ToldTruly
  <2>6. outcome[b] \in {"none", "report", "refused", "severed", "abandoned"}
    BY <2>2 DEF Kept, TypeOK, FrontOK
  <2> QED BY <2>3, <2>4, <2>5, <2>6
<1> QED BY <1>1, ClaimsAlways, PTL

-----------------------------------------------------------------------------
(* The end of a session. *)

Clean     == \A id \in 1..front.id : IF id \in ran THEN outcome[id] \in {"report", "abandoned"}
                                                 ELSE outcome[id] = "refused"
Detaching == (\E f \in Range(net.up) : f.kind = "detach") \/ engine.end = "detached"
Acked     == Has("ended") \/ session = "ended"
Closes    == front.at \in {"ending", "ended"}

\* A detach is under way only while its front waits for the end of it, or has
\* lost the wire; a front that waits has lost no request; and once the engine
\* has acknowledged, there is none it has in hand.
Closing ==
  /\ Detaching \/ Acked => Closes \/ severed
  /\ Closes => \A r \in Ids : outcome[r] # "severed"
  /\ front.at = "ended" \/ (front.at = "ending" /\ Acked) => Clean
  /\ front.at = "ended" => engine.loop = "gone"

\* A run that enquires, or was abandoned at its enquiry, is one the engine took.
Asker(r)  == Said("enquiry", r) \/ outcome[r] = "abandoned" \/ (front.at = "host" /\ front.id = r)
Asking    == engine.loop # "gone" => \A r \in Ids : Asker(r) => r \in ran \/ InHand(r)

\* Where the front may come to be.
LEMMA FrontMoves ==
  ASSUME TypeOK, FrontNext
  PROVE  /\ front'.at = "ending" => front.at = "ending" \/ Detach
         /\ front'.at = "ended" => front.at = "ended" \/ (front.at = "ending" /\ session = "ended")
         /\ Closes => Closes' \/ severed'
         /\ Closes => front'.id = front.id /\ outcome' = outcome
         /\ front'.at = "host" => \/ front.at = "host" /\ front'.id = front.id
                                  \/ Said("enquiry", front.id) /\ front'.id = front.id
<1> USE DEF TypeOK
<1>1. CASE \E p \in BOOLEAN : Aim(p)
  BY <1>1 DEF Aim, At, FrontOK, Closes
<1>2. CASE Receive
  <2>1. PICK n \in Mine :
          IF mail.events[n].kind = "enquiry"
          THEN front' = [front EXCEPT !.at = "host", !.eid = mail.events[n].eid]
          ELSE Conclude(mail.events[n].kind)
    BY <1>2 DEF Receive
  <2>2. front.at = "wait" /\ mail.events[n] \in Range(mail.events) /\ mail.events[n].id = front.id
    BY <1>2, MineFits DEF Receive, At
  <2>3. CASE mail.events[n].kind = "enquiry"
    <3>1. front'.at = "host" /\ front'.id = front.id /\ Said("enquiry", front.id)
      BY <2>1, <2>2, <2>3 DEF FrontOK, Said
    <3> QED BY <2>2, <3>1 DEF Closes
  <2>4. CASE mail.events[n].kind # "enquiry"
    <3>1. front'.at = "idle"
      BY <2>1, <2>4 DEF Conclude, FrontOK
    <3> QED BY <2>2, <3>1 DEF Closes
  <2> QED BY <2>3, <2>4
<1>3. CASE Lost \/ HostPanics
  BY <1>3 DEF Lost, HostPanics, Conclude, At, FrontOK, Closes
<1>4. CASE Detach
  BY <1>4 DEF Detach, At, FrontOK, Closes
<1>5. CASE Attached \/ Ended \/ Strike \/ Dispatch \/ DispatchUnsendable \/ HostAnswers
  BY <1>5 DEF Attached, Ended, Strike, Dispatch, DispatchUnsendable, HostAnswers, At, FrontOK, Closes
<1>6. CASE TurnedAway \/ Drop
  <2>1. severed' /\ front'.at \in {"idle", "dropped"} /\ front'.id = front.id /\ outcome' = outcome
    <3>1. CASE TurnedAway
      BY <3>1 DEF TurnedAway, FrontOK
    <3>2. CASE Drop
      BY <3>2 DEF Drop, FrontOK
    <3> QED BY <1>6, <3>1, <3>2
  <2> QED BY <2>1
<1>7. CASE SignalLoads \/ SignalStrikes \/ Breaks \/ Sever \/ Read \/ ReadClosed \/ ReadSevered
           \/ ReaderExits
  <2>1. UNCHANGED <<front, outcome>>
    BY <1>7 DEF SignalLoads, SignalStrikes, Breaks, Sever, Read, ReadClosed, ReadSevered, ReaderStops,
       ReaderExits, frontVars
  <2> QED BY <2>1 DEF Closes
<1> QED BY <1>1, <1>2, <1>3, <1>4, <1>5, <1>6, <1>7 DEF FrontNext

LEMMA StepAsking ==
  ASSUME Kept, Asking, FrontNext \/ EngineNext
  PROVE  Asking'
<1> USE DEF Kept
<1> SUFFICES ASSUME engine'.loop # "gone", NEW r \in Ids, Asker(r)' PROVE r \in ran' \/ InHand(r)'
  BY DEF Asking
<1>1. CASE FrontNext
  <2>1. UNCHANGED <<engine, worker, ran>>
    BY <1>1, FrontStepEngine DEF engineVars
  <2>2. Said("enquiry", r)' => Said("enquiry", r)
    <3>1. Range(net'.down) \subseteq Range(net.down)
      BY <1>1, FrontFlow
    <3> QED BY <1>1, <3>1, MailFlow DEF Said
  <2>3. front'.at = "host" /\ front'.id = r => Asker(r)
    BY <1>1, FrontMoves DEF Asker
  <2>4. outcome'[r] = "abandoned" => Asker(r)
    <3>1. HostPanics => front.at = "host"
      BY DEF HostPanics, At
    <3> QED BY <1>1, <3>1, FrontOutcomes DEF Asker, TypeOK, FrontOK
  <2>5. Asker(r)
    BY <2>2, <2>3, <2>4 DEF Asker
  <2> QED BY <2>1, <2>5 DEF Asking, InHand
<1>2. CASE EngineNext
  <2>1. UNCHANGED <<mail, front, outcome>> /\ engine.loop # "gone"
    BY <1>2, EngineFlow DEF frontVars
  <2>2. Said("enquiry", r)' => Said("enquiry", r) \/ (r = worker.id /\ worker.at = "running" /\ Enquire)
    BY <1>2, <2>1, EngineFlow DEF Said
  <2>3. Asker(r) \/ (r = worker.id /\ worker.at = "running")
    BY <2>1, <2>2 DEF Asker
  <2>4. r \in ran \/ InHand(r)
    BY <2>1, <2>3 DEF Asking, InHand
  <2>5. ran \subseteq ran'
    BY <1>2, EngineClaim
  <2>6. InHand(r) => r \in ran' \/ InHand(r)'
    <3> SUFFICES ASSUME InHand(r) PROVE r \in ran' \/ InHand(r)'
      OBVIOUS
    <3>1. /\ r # 0 /\ (engine.queued # 0 => worker.at \notin {"running", "parked", "made"})
          /\ engine.queued # 0 => engine.queued = engine.busy
      BY DEF Claimed, Ids, TypeOK, EngineOK
    <3> QED BY <1>2, <3>1, EngineClaim DEF InHand
  <2> QED BY <2>4, <2>5, <2>6
<1> QED BY <1>1, <1>2

\* A front that is ending has heard of every request it made, so that the engine,
\* once it has settled, has told the truth of each.
LEMMA SettledClean ==
  ASSUME Kept, Claims, Asking, engine.loop # "gone", Settled, Closes,
         \A r \in Ids : outcome[r] # "severed"
  PROVE  Clean
<1> USE DEF Kept
<1> SUFFICES ASSUME NEW r \in 1..front.id
             PROVE  IF r \in ran THEN outcome[r] \in {"report", "abandoned"} ELSE outcome[r] = "refused"
  BY DEF Clean
<1>1. r \in Ids /\ r <= front.id
  BY Bounds DEF TypeOK, FrontOK, Ids
<1>2. outcome[r] \in {"report", "refused", "abandoned"}
  <2>1. outcome[r] # "none"
    BY <1>1, Bounds DEF OneOpen, Waits, Closes, Ids, TypeOK, FrontOK
  <2> QED BY <1>1, <2>1 DEF TypeOK, FrontOK
<1>3. ~InHand(r)
  BY <1>1 DEF InHand, Settled, Ids
<1>4. outcome[r] = "report" => r \in ran
  BY <1>1 DEF Claims, Past, Reported
<1>5. outcome[r] = "abandoned" => r \in ran
  BY <1>1, <1>3 DEF Asking, Asker
<1>6. outcome[r] = "refused" => r \notin ran
  BY <1>1 DEF Honest, ToldTruly
<1> QED BY <1>2, <1>4, <1>5, <1>6

LEMMA FrontStepClosing ==
  ASSUME Kept, Shutting, Claims, Closing, FrontNext
  PROVE  Closing'
<1> USE DEF Kept
<1>1. UNCHANGED <<engine, ran>>
  BY FrontStepEngine DEF engineVars
<1>2. Acked' => Acked
  <2>1. Has("ended")' => Has("ended")
    BY FrontFlow DEF Has
  <2> QED BY <2>1, FrontFlow DEF Acked
<1>3. Detaching' => Detaching \/ Detach
  <2>1. \A f \in Range(net'.up) : f.kind = "detach" => f \in Range(net.up) \/ Detach
    <3>1. net.up \in Seq(UpFrames)
      BY DEF TypeOK, NetOK
    <3>2. \A f \in UpFrames : Range(Append(net.up, f)) = Range(net.up) \cup {f}
      BY <3>1, AppendRange
    <3> QED BY <3>2, FrontUp DEF Asks
  <2> QED BY <1>1, <2>1 DEF Detaching
<1>4. Detach => ~severed /\ front.at = "idle" /\ front'.at = "ending" /\ outcome' = outcome
  BY DEF Detach, At, TypeOK, FrontOK
<1>5. Detaching' \/ Acked' => Closes' \/ severed'
  <2>1. severed => severed'
    BY FrontFlow
  <2> QED BY <1>2, <1>3, <1>4, <2>1, FrontMoves DEF Closing, Closes
<1>6. Closes' => \A r \in Ids : outcome'[r] # "severed"
  <2>1. Closes' => Closes \/ Detach
    BY FrontMoves DEF Closes
  <2>2. CASE Detach
    BY <1>4, <2>2 DEF Claims, Past
  <2>3. CASE Closes
    BY <2>3, FrontMoves DEF Closing
  <2> QED BY <2>1, <2>2, <2>3
<1>7. front'.at = "ended" \/ (front'.at = "ending" /\ Acked') => Clean'
  <2>1. Detach => ~Acked
    BY <1>4 DEF Closing, Closes
  <2>2. front'.at = "ended" \/ (front'.at = "ending" /\ Acked')
          => front.at = "ended" \/ (front.at = "ending" /\ Acked)
    BY <1>2, <2>1, FrontMoves DEF Acked
  <2>3. Clean /\ Closes => Clean'
    BY <1>1, FrontMoves DEF Clean
  <2> QED BY <2>2, <2>3 DEF Closing, Closes
<1>8. front'.at = "ended" => engine'.loop = "gone"
  BY <1>1, FrontMoves DEF Closing, Shutting
<1> QED BY <1>5, <1>6, <1>7, <1>8 DEF Closing

LEMMA EngineStepClosing ==
  ASSUME Kept, Shutting, Claims, Asking, Closing, EngineNext
  PROVE  Closing'
<1> USE DEF Kept
<1>1. UNCHANGED <<severed, session, front, outcome>> /\ engine.loop # "gone"
  BY EngineFlow DEF frontVars
<1>2. ~Acked
  BY <1>1 DEF Shutting, Acked
<1>3. Acked' => Acknowledge
  BY <1>1, <1>2, EngineFlow DEF Acked, Has
<1>4. Detaching' => Detaching
  <2>1. Range(net'.up) \subseteq Range(net.up)
    <3>1. net.up # <<>> => Range(Tail(net.up)) \subseteq Range(net.up)
      BY TailRange DEF TypeOK, NetOK
    <3>2. Range(<<>>) = {}
      BY DEF Range
    <3> QED BY <3>1, <3>2, EngineFlow
  <2>2. engine'.end = "detached" => \/ engine.end = "detached"
                                    \/ \E f \in Range(net.up) : f.kind = "detach"
    <3>1. CASE Leave
      <4>1. engine'.end = "detached" => Serving /\ Next1.kind = "detach"
        BY <3>1 DEF Leave, TypeOK, EngineOK
      <4>2. Serving => Next1 \in Range(net.up)
        BY TakenFits DEF TypeOK, Serving
      <4> QED BY <4>1, <4>2
    <3>2. ASSUME NEW n, Gone(n) PROVE engine'.end = "none"
      BY <3>2 DEF Gone
    <3>3. CASE Acknowledge \/ Exit \/ Killed
      BY <3>2, <3>3 DEF Acknowledge, Exit, Killed, Done
    <3>4. CASE Boot
      <4>1. CASE Gone(Put(Taken, "down", [kind |-> "denied"]))
        BY <3>2, <4>1
      <4>2. CASE engine' = [engine EXCEPT !.loop = "serving", !.fault = net.shut]
        BY <4>2 DEF TypeOK, EngineOK
      <4> QED BY <3>4, <4>1, <4>2 DEF Boot
    <3>5. CASE \/ Admit \/ Busy \/ Fill \/ Apply \/ Terminate \/ Take \/ Enquire \/ Answered \/ Stopped \/ Finish
               \/ ReleaseThenReport
      <4>1. engine'.end = engine.end
        BY <3>5 DEF Admit, Busy, Fill, Apply, Terminate, Take, Enquire, Answered, Stopped, Finish,
           ReleaseThenReport, TypeOK, EngineOK
      <4> QED BY <4>1
    <3> QED BY <3>1, <3>3, <3>4, <3>5 DEF EngineNext
  <2> QED BY <2>1, <2>2 DEF Detaching
<1>5. Acknowledge => Detaching /\ Settled /\ ran' = ran
  BY DEF Acknowledge, Detaching, Done, Gone
<1>6. Detaching' \/ Acked' => Closes' \/ severed'
  BY <1>1, <1>3, <1>4, <1>5 DEF Closing, Closes
<1>7. Closes' => \A r \in Ids : outcome'[r] # "severed"
  BY <1>1 DEF Closing, Closes
<1>8. front.at = "ending" /\ Acked' => Clean'
  <2> SUFFICES ASSUME front.at = "ending", Acked' PROVE Clean'
    OBVIOUS
  <2>1. Closes /\ Settled /\ ran' = ran
    BY <1>3, <1>5 DEF Closes
  <2>2. Clean
    BY <1>1, <2>1, SettledClean DEF Closing
  <2> QED BY <1>1, <2>1, <2>2 DEF Clean
<1>9. front.at # "ended"
  BY <1>1 DEF Closing
<1> QED BY <1>1, <1>6, <1>7, <1>8, <1>9 DEF Closing

LEMMA EndAlways == Spec => [](Closing /\ Asking)
<1>1. Init => Closing /\ Asking
  <2> SUFFICES ASSUME Init PROVE Closing /\ Asking
    OBVIOUS
  <2>1. /\ net.up = <<[kind |-> "attach"]>> /\ net.down = <<>> /\ mail.events = <<>>
        /\ session = "opening" /\ engine.end = "none" /\ front.at = "attaching"
        /\ outcome = [id \in Ids |-> "none"]
    BY DEF Init
  <2>2. Range(net.up) = {[kind |-> "attach"]} /\ Range(net.down) = {} /\ Range(mail.events) = {}
    BY <2>1 DEF Range
  <2> QED BY <2>1, <2>2 DEF Closing, Closes, Detaching, Acked, Has, Asking, Asker, Said
<1>2. /\ Kept /\ Shutting /\ Claims
      /\ Closing /\ Asking /\ [Next]_vars
      => Closing' /\ Asking'
  <2> SUFFICES ASSUME Kept, Shutting, Claims, Closing, Asking, [Next]_vars
               PROVE  Closing' /\ Asking'
    OBVIOUS
  <2>1. CASE Next
    BY <2>1, StepAsking, FrontStepClosing, EngineStepClosing DEF Next
  <2>2. CASE UNCHANGED vars
    <3>1. UNCHANGED <<net, severed, mail, session, front, outcome, engine, worker, ran>>
      BY <2>2 DEF vars, frontVars, engineVars
    <3> QED BY <3>1 DEF Closing, Closes, Detaching, Acked, Clean, Has, Asking, Asker, Said, InHand
  <2> QED BY <2>1, <2>2
<1> QED BY <1>1, <1>2, ClaimsAlways, PTL DEF Spec

\* An end that was acknowledged is whole: serve.rs settles the worker before
\* it writes `ended`, so that each request it took was run to its end, and each
\* that was made was concluded for what it was.
THEOREM EndsClean == Spec => []EndIsClean
<1>1. Closing => EndIsClean
  BY DEF Closing, EndIsClean, At, Clean
<1> QED BY <1>1, EndAlways, PTL

-----------------------------------------------------------------------------
(* Strikes, where none is forwarded late. *)

Named(f)    == f.kind \in {"dispatch", "probe", "strike"}
Rising(s)   == \A i, j \in DOMAIN s : i < j /\ Named(s[i]) /\ Named(s[j]) => s[i].id <= s[j].id
StrikeUp(r) == Event(r, "strike") \in Range(net.up)
Over(r)     == Sent(r) /\ ~InUp(r) /\ scopes.current # r

\* A strike that was written is on its way, or has struck its run, or is
\* foretold, or names a run that is over: what is on the wire comes in the order
\* of the requests, so that a later strike supersedes only one that is over.
Heeded(r) == StrikeUp(r) \/ (scopes.current = r /\ scopes.struck) \/ scopes.foretold = r \/ Over(r)
Striking ==
  /\ signal.id \in {0, front.id}
  /\ Rising(net.up)
  /\ \A f \in Range(net.up) : Named(f) =>
       f.id <= front.id /\ scopes.foretold <= f.id /\ scopes.current <= f.id
  /\ scopes.foretold <= front.id
  /\ scopes.current # 0 => Sent(scopes.current) /\ ~InUp(scopes.current)
  /\ scopes.foretold # 0 => scopes.foretold # scopes.current
  /\ engine.loop \in {"boot", "serving"} => \A r \in told : Heeded(r)

LEMMA RisingAppend ==
  ASSUME NEW S, NEW s \in Seq(S), NEW e \in S, Rising(s),
         Named(e) => \A f \in Range(s) : Named(f) => f.id <= e.id
  PROVE  Rising(Append(s, e))
<1>1. /\ DOMAIN Append(s, e) = DOMAIN s \cup {Len(s) + 1} /\ Append(s, e)[Len(s) + 1] = e
      /\ \A i \in DOMAIN s : Append(s, e)[i] = s[i] /\ i < Len(s) + 1 /\ i \in Nat
      /\ Len(s) \in Nat
  OBVIOUS
<1>2. \A i \in DOMAIN s : s[i] \in Range(s)
  BY DEF Range
<1> QED BY <1>1, <1>2 DEF Rising

LEMMA RisingTail ==
  ASSUME NEW S, NEW s \in Seq(S), s # <<>>, Rising(s)
  PROVE  /\ Rising(Tail(s))
         /\ Named(Head(s)) => \A f \in Range(Tail(s)) : Named(f) => Head(s).id <= f.id
         /\ \A f \in Range(s) : f = Head(s) \/ f \in Range(Tail(s))
<1>1. /\ Head(s) = s[1] /\ 1 \in DOMAIN s
      /\ \A i \in DOMAIN Tail(s) : i \in Nat /\ i > 0 /\ i + 1 \in DOMAIN s /\ Tail(s)[i] = s[i + 1]
      /\ \A i \in DOMAIN s : i = 1 \/ (i - 1 \in DOMAIN Tail(s) /\ Tail(s)[i - 1] = s[i])
  OBVIOUS
<1>2. Rising(Tail(s))
  BY <1>1 DEF Rising
<1>3. \A i \in DOMAIN Tail(s) : Named(Head(s)) /\ Named(Tail(s)[i]) => Head(s).id <= Tail(s)[i].id
  BY <1>1 DEF Rising
<1>4. \A f \in Range(s) : f = Head(s) \/ f \in Range(Tail(s))
  <2> TAKE f \in Range(s)
  <2>1. PICK i \in DOMAIN s : f = s[i]
    BY DEF Range
  <2>2. i = 1 \/ (i - 1 \in DOMAIN Tail(s) /\ Tail(s)[i - 1] = f)
    BY <1>1, <2>1
  <2> QED BY <1>1, <2>1, <2>2 DEF Range
<1> QED BY <1>2, <1>3, <1>4 DEF Range

LEMMA FrontStepStriking ==
  ASSUME ~Late, Kept, Striking, FrontNext
  PROVE  Striking'
<1> USE DEF Kept
<1>1. UNCHANGED <<engine, scopes>>
  BY FrontStepEngine DEF engineVars
<1>2. net.up \in Seq(UpFrames) /\ front.id \in Nat /\ \A r \in Ids : r \in Nat
  BY Bounds DEF TypeOK, NetOK, FrontOK, Ids
<1>3. front.id <= front'.id /\ \A r \in Ids : Sent(r) => Sent(r)'
  BY <1>2, FrontOutcomes DEF Sent
<1>4. signal'.id \in {0, front'.id}
  <2>1. CASE \E p \in BOOLEAN : Aim(p)
    BY <2>1 DEF Aim
  <2>2. CASE ~\E p \in BOOLEAN : Aim(p)
    <3>1. front'.id = front.id
      BY <2>2, FrontOutcomes
    <3>2. signal' = signal \/ signal'.id \in {0, front.id}
      <4>1. CASE SignalLoads \/ SignalStrikes
        BY <4>1 DEF SignalLoads, SignalStrikes, TypeOK, FrontOK
      <4>2. CASE ~(SignalLoads \/ SignalStrikes)
        BY <4>2 DEF FrontNext, Attached, TurnedAway, Aim, Strike, Dispatch, DispatchUnsendable, Receive,
           Lost, HostAnswers, HostPanics, Detach, Ended, Breaks, Sever, Drop, Read, ReadClosed,
           ReadSevered, ReaderStops, ReaderExits, frontVars
      <4> QED BY <4>1, <4>2
    <3> QED BY <3>1, <3>2 DEF Striking
  <2> QED BY <2>1, <2>2
<1>5. scopes.current <= front.id
  <2>1. CASE scopes.current = 0
    BY <1>2, <2>1
  <2> QED BY <2>1 DEF Striking, Sent
<1>6. /\ Rising(net'.up)
      /\ \A f \in Range(net'.up) : Named(f) =>
           f.id <= front.id /\ scopes.foretold <= f.id /\ scopes.current <= f.id
      /\ Range(net.up) \subseteq Range(net'.up)
      /\ \A f \in Range(net'.up) : Asks(f) => f \in Range(net.up) \/ (f.id = front.id /\ Dispatch)
  <2>1. CASE net'.up = net.up
    BY <2>1 DEF Striking
  <2>2. ASSUME NEW f \in UpFrames, net'.up = Append(net.up, f),
               Named(f) => f.id = front.id, Asks(f) => Dispatch
        PROVE  /\ Rising(net'.up)
               /\ \A g \in Range(net'.up) : Named(g) =>
                    g.id <= front.id /\ scopes.foretold <= g.id /\ scopes.current <= g.id
               /\ Range(net.up) \subseteq Range(net'.up)
               /\ \A g \in Range(net'.up) : Asks(g) => g \in Range(net.up) \/ (g.id = front.id /\ Dispatch)
    <3>1. Range(net'.up) = Range(net.up) \cup {f}
      BY <1>2, <2>2, AppendRange
    <3>2. Rising(net'.up)
      BY <1>2, <2>2, RisingAppend DEF Striking
    <3>3. Asks(f) => Named(f)
      BY DEF Asks, Named
    <3>4. Named(f) => f.id <= front.id /\ scopes.foretold <= f.id /\ scopes.current <= f.id
      BY <1>2, <1>5, <2>2 DEF Striking
    <3> QED BY <2>2, <3>1, <3>2, <3>3, <3>4 DEF Striking
  <2>3. SignalStrikes => signal.id = front.id
    BY DEF SignalStrikes, Striking
  <2> QED BY <2>1, <2>2, <2>3, FrontUp DEF Asks, Named
<1>7. \A r \in Ids : InUp(r)' => InUp(r) \/ (r = front.id /\ Dispatch)
  BY <1>6 DEF InUp
<1>8. Dispatch => front.at = "aimed"
  BY DEF Dispatch, At
<1>9. \A r \in Ids : Sent(r) /\ ~InUp(r) => Sent(r)' /\ ~InUp(r)'
  BY <1>3, <1>7, <1>8 DEF Sent
<1>10. scopes.current # 0 => Sent(scopes.current)' /\ ~InUp(scopes.current)'
  <2>1. scopes.current # 0 => scopes.current \in Ids
    BY Bounds DEF TypeOK, EngineOK, Ids
  <2> QED BY <1>1, <1>9, <2>1 DEF Striking
<1>11. ASSUME engine.loop \in {"boot", "serving"}, NEW r \in told' PROVE Heeded(r)'
  <2>1. r \in told => r \in Ids /\ Heeded(r)
    BY <1>11 DEF Striking, TypeOK, FrontOK
  <2>2. r \in told => Heeded(r)'
    BY <1>1, <1>6, <1>9, <2>1 DEF Heeded, StrikeUp, Over
  <2>3. CASE told' = told
    BY <2>2, <2>3
  <2>4. ASSUME NEW id \in Ids, FrontWrites(Event(id, "strike")), Struck(id)
        PROVE  Heeded(r)'
    <3>1. CASE net.shut
      BY <2>2, <2>4, <3>1 DEF Struck
    <3>2. CASE ~net.shut
      <4>1. net'.up = Append(net.up, Event(id, "strike"))
        BY <1>11, <2>4, <3>2 DEF FrontWrites, Put, Heard, TypeOK, NetOK
      <4>2. Event(id, "strike") \in Range(net'.up)
        BY <1>2, <4>1, FramesFit, AppendRange
      <4> QED BY <2>2, <2>4, <4>2 DEF Struck, Heeded, StrikeUp
    <3> QED BY <3>1, <3>2
  <2>5. CASE Strike
    BY <2>4, <2>5 DEF Strike, At, TypeOK, FrontOK
  <2>6. CASE SignalStrikes
    <3>1. signal.id \in Ids
      BY <2>6, Bounds DEF SignalStrikes, TypeOK, FrontOK, Ids
    <3> QED BY <2>4, <2>6, <3>1 DEF SignalStrikes
  <2> QED BY <2>3, <2>5, <2>6 DEF FrontNext, Attached, TurnedAway, Aim, SignalLoads, Dispatch,
     DispatchUnsendable, Receive, Lost, HostAnswers, HostPanics, Detach, Ended, Breaks, Sever,
     Drop, Read, ReadClosed, ReadSevered, ReaderStops, ReaderExits, frontVars
<1>12. /\ \A f \in Range(net'.up) : Named(f) =>
            f.id <= front'.id /\ scopes.foretold <= f.id /\ scopes.current <= f.id
       /\ scopes.foretold <= front'.id
  <2>1. \A f \in Range(net'.up) : Named(f) => f.id \in Nat
    <3>1. net'.up \in Seq(UpFrames)
      BY FrontStepTypeOK DEF TypeOK, NetOK
    <3> QED BY <1>2, <3>1 DEF Range, Named, UpFrames
  <2>2. front'.id \in Nat /\ scopes.foretold \in Nat
    BY FrontStepTypeOK, Bounds DEF TypeOK, FrontOK, EngineOK
  <2> QED BY <1>2, <1>3, <1>6, <2>1, <2>2 DEF Striking
<1> QED BY <1>1, <1>4, <1>6, <1>10, <1>11, <1>12 DEF Striking

LEMMA EngineStepStriking ==
  ASSUME Kept, Striking, EngineNext
  PROVE  Striking'
<1> USE DEF Kept
<1>1. UNCHANGED <<front, signal, told>> /\ engine.loop # "gone"
  BY EngineFlow DEF frontVars
<1>2. /\ net.up \in Seq(UpFrames) /\ scopes \in ScopesType /\ front.id \in Nat
      /\ scopes.current \in Nat /\ scopes.foretold \in Nat
  BY Bounds DEF TypeOK, NetOK, EngineOK, ScopesType, FrontOK
<1>3. \A f \in Range(net.up) : Named(f) => f.id \in Ids /\ f.id \in Nat
  BY <1>2, Bounds DEF Range, Named, UpFrames, Ids
<1>4. told \subseteq Ids
  BY DEF TypeOK, FrontOK
<1>5. ASSUME net'.up = <<>>, engine'.loop \notin {"boot", "serving"},
             scopes'.current \in {0, scopes.current}, scopes'.foretold \in {0, scopes.foretold},
             scopes'.foretold # 0 => scopes'.current = scopes.current
      PROVE  Striking'
  <2>1. Range(net'.up) = {} /\ Rising(net'.up) /\ \A r : ~InUp(r)'
    BY <1>5 DEF Range, Rising, InUp
  <2>2. scopes'.current # 0 => Sent(scopes.current)'
    BY <1>1, <1>5 DEF Striking, Sent
  <2> QED BY <1>1, <1>2, <1>5, <2>1, <2>2 DEF Striking
<1>6. ASSUME NEW n, Gone(n), net'.up = <<>>
      PROVE  Striking'
  BY <1>5, <1>6 DEF Gone
<1>7. CASE Acknowledge \/ Exit \/ Killed
  <2>1. PICK n : Gone(n) /\ n \in NetType
    <3>1. net \in NetType /\ [kind |-> "ended"] \in DownFrames
      BY DEF TypeOK, NetOK, NetType, DownFrames
    <3> QED BY <1>7, <3>1, PutDown DEF Acknowledge, Exit, Killed, Done
  <2>2. net'.up = <<>>
    BY <2>1, GoneFits DEF TypeOK
  <2> QED BY <1>6, <2>1, <2>2
<1>8. CASE Leave
  <2>1. /\ net'.up = <<>> /\ scopes' = Ending(scopes) /\ engine'.loop = "settling"
    BY <1>8 DEF Leave, TypeOK, NetOK, EngineOK
  <2>2. scopes'.current = scopes.current /\ scopes'.foretold = scopes.foretold
    BY <1>2, <2>1 DEF Ending, ScopesType
  <2> QED BY <1>5, <2>1, <2>2
\* Nothing that names a run is taken.
<1>9. ASSUME engine'.loop \in {"boot", "serving"} => engine.loop \in {"boot", "serving"},
             net'.up = net.up \/ (net.up # <<>> /\ net'.up = Tail(net.up) /\ Next1.kind # "strike"),
             scopes'.current = scopes.current, scopes'.foretold = scopes.foretold,
             scopes.struck /\ scopes.current # 0 => scopes'.struck
      PROVE  Striking'
  <2>1. /\ Rising(net'.up) /\ Range(net'.up) \subseteq Range(net.up)
        /\ \A f \in Range(net.up) : f \in Range(net'.up) \/ f = Next1
    BY <1>2, <1>9, RisingTail, TailRange DEF Striking, Next1
  <2>2. \A r : InUp(r)' => InUp(r)
    BY <2>1 DEF InUp
  <2>3. \A r : StrikeUp(r) => StrikeUp(r)'
    BY <1>9, <2>1 DEF StrikeUp, Event
  <2>4. \A r \in Ids : Heeded(r) => Heeded(r)'
    BY <1>1, <1>9, <2>2, <2>3 DEF Heeded, Over, Sent, Ids
  <2>5. scopes.current # 0 => Sent(scopes.current)' /\ ~InUp(scopes.current)'
    BY <1>1, <1>9, <2>2 DEF Striking, Sent
  <2> QED BY <1>1, <1>4, <1>9, <2>1, <2>4, <2>5 DEF Striking
<1>10. CASE Boot
  <2>1. net.up # <<>> /\ Next1.kind = "attach"
    BY <1>10 DEF Boot
  <2>2. Taken.up = Tail(net.up) /\ Taken \in NetType
    BY <2>1, TakenFits DEF TypeOK
  <2>3. CASE Gone(Put(Taken, "down", [kind |-> "denied"]))
    <3>1. Put(Taken, "down", [kind |-> "denied"]) \in NetType
      BY <2>2, PutDown DEF DownFrames
    <3>2. net'.up = <<>>
      BY <2>3, <3>1, GoneFits DEF TypeOK
    <3> QED BY <1>6, <2>3, <3>2
  <2>4. CASE net' = Put(Taken, "down", [kind |-> "attached"]) /\ scopes' = scopes
    <3>1. net'.up = Tail(net.up) /\ engine.loop = "boot"
      BY <1>10, <2>2, <2>4, PutDown DEF DownFrames, Boot
    <3> QED BY <1>9, <2>1, <2>4, <3>1
  <2> QED BY <1>10, <2>3, <2>4 DEF Boot
<1>11. CASE Busy \/ Fill \/ (Admit /\ Next1.kind = "probe")
  <2>1. net.up # <<>> /\ Next1.kind # "strike" /\ scopes' = scopes /\ engine.loop = "serving"
    BY <1>11 DEF Busy, Fill, Admit, Serving
  <2>2. Taken.up = Tail(net.up) /\ Taken \in NetType /\ Next1 \in UpFrames
    BY <2>1, TakenFits DEF TypeOK
  <2>3. net'.up = Tail(net.up)
    <3>1. CASE Busy
      <4>1. Next1.id \in Ids
        BY <2>2, <3>1 DEF Busy, UpFrames
      <4> QED BY <2>2, <3>1, <4>1, FramesFit, PutDown DEF Busy
    <3>2. CASE Fill \/ Admit
      BY <2>2, <3>2 DEF Fill, Admit
    <3> QED BY <1>11, <3>1, <3>2
  <2> QED BY <1>9, <2>1, <2>3
<1>12. CASE Terminate
  <2>1. scopes' = Ending(scopes) /\ net' = net /\ engine' = engine
    BY <1>12 DEF Terminate
  <2>2. /\ scopes'.current = scopes.current /\ scopes'.foretold = scopes.foretold
        /\ scopes'.struck = (scopes.current # 0)
    BY <1>2, <2>1 DEF Ending, ScopesType
  <2> QED BY <1>9, <2>1, <2>2
<1>13. CASE Take \/ Enquire \/ Answered \/ Stopped \/ Finish \/ ReleaseThenReport
  <2>1. scopes' = scopes /\ engine'.loop = engine.loop
    BY <1>13 DEF Take, Enquire, Answered, Stopped, Finish, ReleaseThenReport, TypeOK, EngineOK
  <2>2. net'.up = net.up
    <3>1. ASSUME NEW f \in DownFrames, EngineWrites(f) PROVE net'.up = net.up
      <4>1. net \in NetType
        BY DEF TypeOK, NetOK, NetType
      <4> QED BY <3>1, <4>1, PutDown DEF EngineWrites
    <3>2. worker.at \in {"running", "free"} => worker.id \in Ids
      BY Bounds DEF TypeOK, EngineOK, Ids
    <3> QED BY <1>13, <3>1, <3>2, FramesFit DEF Take, Enquire, Answered, Stopped, Finish, ReleaseThenReport, Working
  <2> QED BY <1>9, <2>1, <2>2
\* What a request or a strike is taken from.
<1>14. ASSUME net.up # <<>>, net' = Taken, Named(Next1)
       PROVE  /\ Next1.id \in Ids /\ Next1.id <= front.id
              /\ scopes.foretold <= Next1.id /\ scopes.current <= Next1.id
              /\ Rising(net'.up) /\ Range(net'.up) \subseteq Range(net.up)
              /\ \A f \in Range(net'.up) : Named(f) => Next1.id <= f.id
              /\ \A f \in Range(net.up) : f \in Range(net'.up) \/ f = Next1
              /\ \A r : InUp(r)' => InUp(r)
  <2>1. net'.up = Tail(net.up) /\ Next1 \in Range(net.up)
    BY <1>14, TakenFits DEF TypeOK
  <2>2. Range(net'.up) \subseteq Range(net.up)
    BY <1>2, <1>14, <2>1, TailRange
  <2>3. \A r : InUp(r)' => InUp(r)
    BY <2>2 DEF InUp
  <2> QED BY <1>2, <1>3, <1>14, <2>1, <2>2, <2>3, RisingTail DEF Striking, Next1
<1>15. CASE Admit /\ Next1.kind = "dispatch"
  <2>0. PICK q : q = Next1.id
    OBVIOUS
  <2>1. /\ net.up # <<>> /\ net' = Taken /\ Named(Next1) /\ Asks(Next1) /\ scopes' = Open(scopes, q)
        /\ engine.loop = "serving"
    BY <1>15, <2>0 DEF Admit, Serving, Named, Asks
  <2>2. /\ scopes'.current = q /\ scopes'.foretold = (IF scopes.foretold = q THEN 0 ELSE scopes.foretold)
        /\ scopes.foretold = q => scopes'.struck
    BY <1>2, <2>1 DEF Open, ScopesType
  <2>3. InUp(q) /\ q \in Ids
    BY <1>14, <2>0, <2>1, TakenFits DEF InUp, TypeOK
  <2>4. Sent(q) /\ ~InUp(q)'
    <3>1. Sent(q)
      BY <2>3 DEF Honest, ToldTruly
    <3> QED BY <2>0, <2>1, <3>1, UpTaken DEF TypeOK, InUp
  <2>5. ASSUME NEW r \in told, Heeded(r) PROVE Heeded(r)'
    <3>1. StrikeUp(r) => StrikeUp(r)'
      BY <1>14, <1>15, <2>1 DEF StrikeUp, Event
    <3>2. Sent(r)' <=> Sent(r)
      BY <1>1 DEF Sent
    <3>3. CASE r = q
      BY <2>2, <2>3, <2>5, <3>1, <3>3 DEF Heeded, Over, Striking, Ids
    <3>4. CASE r # q
      <4>1. r # 0
        BY <1>4 DEF Ids
      <4> QED BY <1>14, <2>1, <2>2, <2>5, <3>1, <3>2, <3>4, <4>1 DEF Heeded, Over, Striking
    <3> QED BY <3>3, <3>4
  <2>6. Sent(q)'
    BY <1>1, <2>4 DEF Sent
  <2>7. /\ scopes'.foretold <= front.id /\ (scopes'.foretold # 0 => scopes'.foretold # scopes'.current)
        /\ \A f \in Range(net'.up) : Named(f) =>
             f.id <= front.id /\ scopes'.foretold <= f.id /\ scopes'.current <= f.id
    BY <1>2, <1>3, <1>14, <2>0, <2>1, <2>2 DEF Striking
  <2> QED BY <1>1, <1>14, <2>1, <2>2, <2>4, <2>5, <2>6, <2>7 DEF Striking
<1>16. CASE Apply
  <2> DEFINE q == Next1.id
  <2>1. net.up # <<>> /\ net' = Taken /\ Named(Next1) /\ scopes' = Aimed(scopes, q) /\ engine.loop = "serving"
    BY <1>16 DEF Apply, Serving, Named
  <2>2. /\ scopes'.current = scopes.current
        /\ scopes.current = q => scopes'.struck /\ scopes'.foretold = scopes.foretold
        /\ scopes.current # q => scopes'.struck = scopes.struck /\ scopes'.foretold = q
    BY <1>2, <2>1 DEF Aimed, ScopesType
  <2>3. q \in Ids /\ q \in Nat /\ q # 0
    BY <1>14, <2>1, Bounds DEF Ids
  <2>4. ASSUME NEW r \in told, Heeded(r) PROVE Heeded(r)'
    <3>1. StrikeUp(r) => StrikeUp(r)' \/ r = q
      BY <1>14, <2>1 DEF StrikeUp, Event
    <3>2. Sent(r)' <=> Sent(r)
      BY <1>1 DEF Sent
    <3>3. CASE r = q
      BY <2>2, <3>3 DEF Heeded
    <3>4. CASE scopes.foretold = r /\ r # q
      <4>1. r \in Nat /\ r < q /\ r # 0
        BY <1>2, <1>4, <1>14, <2>1, <2>3, <3>4 DEF Ids
      <4>2. ~InUp(r)'
        <5>1. \A f \in Range(net'.up) : Asks(f) => Named(f) /\ q <= f.id /\ f.id \in Nat
          BY <1>3, <1>14, <2>1 DEF Asks, Named
        <5> QED BY <2>3, <4>1, <5>1 DEF InUp
      <4>3. Sent(r)
        BY <1>2, <1>14, <2>1, <2>3, <4>1 DEF Sent
      <4>4. scopes'.current # r
        BY <2>2, <3>4, <4>1 DEF Striking
      <4> QED BY <3>2, <4>2, <4>3, <4>4 DEF Heeded, Over
    <3>5. CASE scopes.current = r /\ scopes.struck
      BY <2>2, <3>3, <3>5 DEF Heeded
    <3>6. CASE Over(r)
      BY <1>14, <2>1, <2>2, <3>2, <3>6 DEF Heeded, Over
    <3> QED BY <2>4, <3>1, <3>3, <3>4, <3>5, <3>6 DEF Heeded
  <2>5. scopes'.current # 0 => Sent(scopes.current)' /\ ~InUp(scopes.current)'
    BY <1>1, <1>14, <2>1, <2>2 DEF Striking, Sent
  <2>6. /\ scopes'.foretold <= front.id /\ (scopes'.foretold # 0 => scopes'.foretold # scopes'.current)
        /\ \A f \in Range(net'.up) : Named(f) =>
             f.id <= front.id /\ scopes'.foretold <= f.id /\ scopes'.current <= f.id
    BY <1>14, <2>1, <2>2 DEF Striking
  <2> QED BY <1>1, <1>14, <2>1, <2>4, <2>5, <2>6 DEF Striking
<1> QED BY <1>7, <1>8, <1>10, <1>11, <1>12, <1>13, <1>15, <1>16 DEF EngineNext, Admit

\* Where the forwarding thread is not late, a strike the engine has taken off the
\* wire has struck the run it names, aimed at it or foretold: carrier.rs
\* writes it before the dispatch or after, and Scopes::open heeds either.
THEOREM StrikesAreHeeded == ASSUME ~Late PROVE Spec => []BornCancelled
<1>1. Init => Striking
  <2> SUFFICES ASSUME Init PROVE Striking
    OBVIOUS
  <2>1. /\ net.up = <<[kind |-> "attach"]>> /\ signal.id = 0 /\ told = {} /\ front.id = 0
        /\ scopes.current = 0 /\ scopes.foretold = 0
    BY DEF Init
  <2>2. Range(net.up) = {[kind |-> "attach"]} /\ Rising(net.up)
    BY <2>1 DEF Range, Rising, Named
  <2> QED BY <2>1, <2>2 DEF Striking, Named
<1>2. Kept /\ Striking /\ [Next]_vars => Striking'
  <2> SUFFICES ASSUME Kept, Striking, [Next]_vars PROVE Striking'
    OBVIOUS
  <2>1. CASE Next
    BY <2>1, FrontStepStriking, EngineStepStriking DEF Next
  <2>2. CASE UNCHANGED vars
    <3>1. UNCHANGED <<net, front, told, signal, engine, scopes>>
      BY <2>2 DEF vars, frontVars, engineVars
    <3> QED BY <3>1 DEF Striking, Heeded, StrikeUp, Over, Sent, InUp
  <2> QED BY <2>1, <2>2
<1>3. Kept /\ Striking => BornCancelled
  <2> SUFFICES ASSUME Kept, Striking, engine.loop = "serving", scopes.current \in told
               PROVE  scopes.struck \/ StrikeUp(scopes.current)
    BY DEF BornCancelled, StrikeUp
  <2>1. scopes.current # 0
    BY DEF Kept, TypeOK, FrontOK, Ids
  <2> QED BY <2>1 DEF Striking, Heeded, Over
<1> QED BY <1>1, <1>2, <1>3, KeptAlways, PTL DEF Spec

=============================================================================
