------------------------------- MODULE Agents -------------------------------
(* An agent and its helpers, each attending on a thread of its own: their    *)
(* mailboxes (bus/mailbox.rs, record/mail.rs), the attend loop and its       *)
(* teardown (agent/attend.rs, arrival.rs, spawn.rs), the nursery that joins  *)
(* helpers (agent/nursery.rs) and the desk that starts, tells, stops and     *)
(* dismisses them (agent/desk/agents.rs).                                    *)
EXTENDS Naturals, Sequences, FiniteSets

CONSTANTS MaxAgents,  \* bound: agents born; 1 is the human's, the others helpers
          MaxPosts,   \* bound: posts made by the human, by agents, by workers
          Ops         \* what the human, the models and the machine do

ASSUME AgentsAssumption == MaxAgents \in Nat \ {0} /\ MaxPosts \in Nat

Agents  == 1..MaxAgents
Helpers == Agents \ {1}
Human   == 0

VARIABLES
  thread,   \* [pc, after (a report, a join), awaits (joined), pending (Rest), item (in hand), says]
  cell,     \* [queue, answering, job, stopped, cut (the exchange is cancelled)]
  owner,    \* each helper's parent, 0 before it is born
  line,     \* the lives each one's own hangs on, itself among them
  nursery,  \* each agent's unjoined helpers
  dead,     \* lives cancelled on their own account; Human is the fleet's root
  broken,   \* journals that fail
  noticed,  \* helpers that have told of a failed report
  posts,    \* posts made
  jobs,     \* jobs opened: the newest one's id
  struck,   \* history: jobs stopped while they were open
  asked,    \* history: helpers told something by their parent and not yet answered for it
  sent      \* history: helpers sent away, by a dismissal or a clear

kin   == <<owner, line>>
vars  == <<thread, cell, kin, nursery, dead, broken, noticed, posts, jobs, struck, asked, sent>>
fleet == <<kin, nursery, dead, broken, noticed, posts>>
books == <<jobs, struck, asked, sent>>

-----------------------------------------------------------------------------
(* Lives, debts and queues. *)

\* A helper's life is a child of its parent's, for good.
Under(a, h) == {h} \cup line[a]
Live(a) == line[a] \cap dead = {}
Cut(a)  == cell[a].cut \/ ~Live(a)

At(a, pc) == thread[a].pc = pc
Over(a)   == At(a, "over")
Born(a)   == ~At(a, "unborn")
\* (A mistake: the report lets its cell go before the parent's post.)
LockedNever(a) == FALSE

\* A report holds its helper's cell until its parent has the notice.
Locked(a) == At(a, "posting")

ByParent(a, item) == a # 1 /\ item.from = owner[a] /\ item.kind \in {"Task", "Message"}
Asks(a)           == \E i \in DOMAIN cell[a].queue : ByParent(a, cell[a].queue[i])
Owes(a)           == a # 1 /\ (cell[a].answering \/ Asks(a))

Item(kind, from) == [kind |-> kind, from |-> from]
NoItem           == Item("none", Human)

\* The queue at some of its places, in order.
Keeping(queue, places) ==
  [j \in 1..Cardinality(places) |-> queue[CHOOSE i \in places : Cardinality({k \in places : k <= i}) = j]]
Leaving(a, taken) == Keeping(cell[a].queue, DOMAIN cell[a].queue \ taken)
Without(a, kinds) == Leaving(a, {i \in DOMAIN cell[a].queue : cell[a].queue[i].kind \in kinds})
Posts == {"Human", "Task", "Message", "Child", "Surface", "Clear"}

\* Cell::admitted, next_index
Admitted(a, item) ==
  \/ item.kind \in {"Gone", "Clear", "Child"} \/ cell[a].job # 0
  \/ a = 1 \/ item.kind = "Human" \/ ByParent(a, item)
\* (A mistake: a thread that has ended is joined ahead of the queue.)
AdmissibleGonesFirst(a) ==
  LET gones == {i \in DOMAIN cell[a].queue : cell[a].queue[i].kind = "Gone"}
  IN  IF gones # {} THEN gones
      ELSE {i \in DOMAIN cell[a].queue : Admitted(a, cell[a].queue[i])}
Admissible(a) == {i \in DOMAIN cell[a].queue : Admitted(a, cell[a].queue[i])}

Idle == [pc |-> "top", after |-> "none", awaits |-> {}, pending |-> FALSE, item |-> NoItem, says |-> "none"]
Go(a, pc)             == [thread EXCEPT ![a] = [Idle EXCEPT !.pc = pc]]
Hold(a, item)         == [thread EXCEPT ![a] = [Idle EXCEPT !.pc = "taken", !.item = item]]
Join(a, helpers, after) ==
  [thread EXCEPT ![a] = [Idle EXCEPT !.pc = "joining", !.awaits = helpers, !.after = after]]

-----------------------------------------------------------------------------
(* Posts.  What is refused changes nothing. *)

\* A resting helper refuses a peer's message.
Accepts(a, item) ==
  /\ Live(a) /\ ~Locked(a)
  /\ ~(item.kind = "Message" /\ a # 1 /\ cell[a].job = 0 /\ ~ByParent(a, item))

Queued(a, item) == [cell EXCEPT ![a].queue = Append(@, item)]
Post(a, item) ==
  /\ Born(a) /\ posts < MaxPosts /\ Accepts(a, item)
  /\ cell' = Queued(a, item) /\ posts' = posts + 1
  /\ asked' = IF ByParent(a, item) THEN asked \cup {a} ELSE asked

\* The human's text, or a command; a worker's batch of findings.
Steer(a) == \E kind \in {"Human"} \cup ({"Clear", "Surface"} \cap Ops) :
  /\ Post(a, Item(kind, Human))
  /\ UNCHANGED <<thread, kin, nursery, dead, broken, noticed, jobs, struck, sent>>

\* stop: the job it names, if that is the open one; a human's takes back what
\* is unread.
Stop(a, job, recalls) ==
  /\ ~Locked(a) /\ Live(a) /\ cell[a].job # 0 /\ cell[a].job = job
  /\ cell' = [cell EXCEPT ![a].stopped = TRUE, ![a].cut = TRUE,
                          ![a].queue = IF recalls THEN Without(a, {"Human"}) ELSE @]
  /\ struck' = [struck EXCEPT ![a] = @ \cup {job}]

\* The human names a job as the roster showed it, by now perhaps settled.
HumanStops(a) == /\ "stop" \in Ops /\ \E job \in 1..jobs[a] : Stop(a, job, TRUE)
                 /\ UNCHANGED <<thread, fleet, jobs, asked, sent>>

\* A life is ended from outside: a helper's, or the whole fleet's with Human, on
\* whose life hangs the human's one agent.
Ends(a) == /\ a \notin dead /\ (a # Human => "end" \in Ops /\ Born(a) /\ ~Locked(a))
           /\ dead' = dead \cup {a}
           /\ UNCHANGED <<thread, cell, kin, nursery, broken, noticed, posts, books>>

\* A helper's stable storage fails, and ends the life that writes to it. (The
\* human's agent owes no report, and its own failing is its end.)
Breaks(a) == /\ "break" \in Ops /\ a \in Helpers \ broken /\ Born(a) /\ ~Over(a)
             /\ broken' = broken \cup {a} /\ dead' = dead \cup {a}
             /\ UNCHANGED <<thread, cell, kin, nursery, noticed, posts, books>>

-----------------------------------------------------------------------------
(* Reports. *)

\* The status settles the debt; an ended life withdraws what it never read.
\* Where storage fails the commit may not have been made, or made and not synced.
Settles(a) ==
  \/ a \in broken /\ UNCHANGED cell
  \/ cell' = [cell EXCEPT ![a].answering = FALSE, ![a].queue = IF Live(a) THEN @ ELSE Without(a, Posts)]
\* A debt is told of, but a failed report only once.
\* (A mistake: each report that fails is told of.)
TellsEachTime(a) == Owes(a)
Tells(a) == Owes(a) /\ (a \in broken => a \notin noticed)

\* Txn::report: the cell stays locked from the status to the parent's notice.
Report(a, after) ==
  /\ Settles(a)
  /\ thread' = IF Tells(a) THEN [thread EXCEPT ![a] = [Idle EXCEPT !.pc = "posting", !.after = after]]
               ELSE Go(a, after)
  /\ noticed' = IF Tells(a) /\ a \in broken THEN noticed \cup {a} ELSE noticed
  /\ UNCHANGED <<kin, nursery, broken, posts, books>>

\* The parent's post, under the helper's cell and then the parent's own.
Deliver(a) ==
  /\ At(a, "posting") /\ ~Locked(owner[a])
  /\ cell' = IF Live(owner[a]) THEN Queued(owner[a], Item("Child", a)) ELSE cell
  /\ asked' = IF Asks(a) /\ a \notin noticed THEN asked ELSE asked \ {a}
  /\ thread' = Go(a, thread[a].after)
  /\ UNCHANGED <<fleet, jobs, struck, sent>>

-----------------------------------------------------------------------------
(* The attend loop. *)

\* rest: what the unjoined helpers owe, each read under its own cell.
ReadRest(a) ==
  /\ At(a, "top")
  /\ \E pending \in BOOLEAN :
       /\ IF pending THEN \E h \in nursery[a] : Owes(h) /\ ~Locked(h)
          ELSE \A h \in nursery[a] : ~Owes(h) /\ ~Locked(h)
       /\ thread' = [thread EXCEPT ![a] = [Idle EXCEPT !.pc = "next", !.pending = pending]]
  /\ UNCHANGED <<cell, fleet, books>>

\* A run of human posts is one input: those that follow the first, up to
\* another post.
RunFrom(a, i) ==
  LET queue  == cell[a].queue
      Aside(j) == queue[j].kind \in {"Human", "Gone"}
  IN  {i} \cup IF queue[i].kind # "Human" THEN {}
               ELSE {j \in i..Len(queue) : queue[j].kind = "Human" /\ \A k \in i..j : Aside(k)}

\* What a take leaves of the cell: a parent's post is now being answered.
Taken(a, taken) ==
  [cell EXCEPT ![a].queue = Leaving(a, taken),
               ![a].answering = @ \/ \E i \in taken : ByParent(a, cell[a].queue[i])]

NextEnded(a) == /\ At(a, "next") /\ ~Live(a) /\ thread' = Go(a, "down")
                /\ UNCHANGED <<cell, fleet, books>>

NextItem(a) ==
  /\ At(a, "next") /\ Live(a) /\ Admissible(a) # {}
  /\ LET i    == CHOOSE i \in Admissible(a) : \A j \in Admissible(a) : i <= j
         item == cell[a].queue[i]
     IN  CASE item.kind = "Gone"  -> /\ cell' = Taken(a, {i})
                                     /\ nursery' = [nursery EXCEPT ![a] = @ \ {item.from}]
                                     /\ thread' = Go(a, "top")
           [] item.kind = "Clear" -> /\ cell' = Taken(a, {i}) /\ UNCHANGED nursery
                                     /\ thread' = Go(a, "clear")
           [] OTHER -> /\ cell' = [Taken(a, RunFrom(a, i)) EXCEPT ![a].cut = FALSE]
                       /\ thread' = Hold(a, item) /\ UNCHANGED nursery
  /\ UNCHANGED <<kin, dead, broken, noticed, posts, books>>

\* A job settles once nothing is queued and, as Rest was read, nothing is owed
\* it. The wait keeps the Rest it came with: what ends a debt leaves an item.
NextSettled(a) ==
  /\ At(a, "next") /\ Live(a) /\ Admissible(a) = {}
  /\ cell[a].job # 0 /\ ~thread[a].pending
  /\ cell' = [cell EXCEPT ![a].job = 0]
  /\ thread' = IF Owes(a) THEN [thread EXCEPT ![a] = [Idle EXCEPT !.pc = "settled",
                                  !.says = IF cell[a].stopped THEN "Stopped" ELSE "Failed"]]
               ELSE Go(a, "top")
  /\ UNCHANGED <<fleet, books>>

\* A helper rests for its idle interval and no longer.
NextIdles(a) ==
  /\ At(a, "next") /\ Live(a) /\ Admissible(a) = {} /\ a # 1 /\ cell[a].job = 0
  /\ dead' = dead \cup {a} /\ thread' = Go(a, "down")
  /\ UNCHANGED <<cell, kin, nursery, broken, noticed, posts, books>>

Settled(a) == At(a, "settled") /\ Report(a, "top") /\ UNCHANGED dead

\* admit: a notice from no helper, or findings of an engine since replaced or
\* already claimed, open nothing.
Declined(a) == LET item == thread[a].item
               IN  \/ item.kind = "Child" /\ item.from \notin nursery[a]
                   \/ item.kind = "Surface"
Decline(a) == /\ At(a, "taken") /\ Declined(a) /\ thread' = Go(a, "top")
              /\ UNCHANGED <<cell, fleet, books>>

\* begin: the first exchange of a busy period opens its job.
\* (A mistake: the mark outlives the job it was made on.)
OpenedStillMarked(a) == [cell EXCEPT ![a].job = jobs[a] + 1]
Opened(a) == [cell EXCEPT ![a].job = jobs[a] + 1, ![a].stopped = FALSE]
Begin(a) ==
  /\ At(a, "taken") /\ (thread[a].item.kind = "Surface" \/ ~Declined(a))
  /\ IF ~Live(a) THEN thread' = Go(a, "down") /\ UNCHANGED <<cell, jobs>>
     ELSE /\ thread' = Go(a, "work")
          /\ IF cell[a].job # 0 THEN UNCHANGED <<cell, jobs>>
             ELSE cell' = Opened(a) /\ jobs' = [jobs EXCEPT ![a] = @ + 1]
  /\ UNCHANGED <<fleet, struck, asked, sent>>

\* /clear: its helpers are ended and joined, and what they left is withdrawn.
ClearEnds(a) ==
  /\ At(a, "clear") /\ \A h \in nursery[a] : ~Locked(h)
  /\ dead' = dead \cup nursery[a] /\ thread' = Join(a, nursery[a], "cleared")
  /\ nursery' = [nursery EXCEPT ![a] = {}] /\ sent' = sent \cup nursery[a]
  /\ UNCHANGED <<cell, kin, broken, noticed, posts, jobs, struck, asked>>
Cleared(a) ==
  /\ At(a, "cleared") /\ thread' = Go(a, "top")
  /\ cell' = IF a \in broken THEN cell
             ELSE [cell EXCEPT ![a].queue = Without(a, {"Child", "Surface", "Gone"})]
  /\ UNCHANGED <<fleet, books>>

Joins(a) == /\ At(a, "joining") /\ \A h \in thread[a].awaits : Over(h)
            /\ thread' = Go(a, thread[a].after) /\ UNCHANGED <<cell, fleet, books>>

-----------------------------------------------------------------------------
(* The exchange: the model's calls through the desk, and the drain between them. *)

Unborn == {h \in Helpers : At(h, "unborn")}
\* A helper is adopted with its task queued, unless its line has ended.
Spawn(a) ==
  /\ At(a, "work") /\ Unborn # {}
  /\ LET h == CHOOSE h \in Unborn : \A g \in Unborn : h <= g
     IN  /\ owner' = [owner EXCEPT ![h] = a] /\ line' = [line EXCEPT ![h] = Under(a, h)]
         /\ nursery' = [nursery EXCEPT ![a] = @ \cup {h}]
         /\ thread' = Go(h, "top")
         /\ cell' = IF Live(a) THEN Queued(h, Item("Task", a)) ELSE cell
         /\ asked' = IF Live(a) THEN asked \cup {h} ELSE asked
  /\ UNCHANGED <<dead, broken, noticed, posts, jobs, struck, sent>>

Tell(a) == /\ At(a, "work") /\ \E b \in Agents \ {a} : ~Over(b) /\ Post(b, Item("Message", a))
           /\ UNCHANGED <<thread, kin, nursery, dead, broken, noticed, jobs, struck, sent>>

\* A descendant's open job, whichever it is; its queue is left to it.
AgentStops(a) ==
  /\ At(a, "work") /\ "stop" \in Ops
  /\ \E b \in Helpers \ {a} : Born(b) /\ a \in line[b] /\ Stop(b, cell[b].job, FALSE)
  /\ UNCHANGED <<thread, fleet, jobs, asked, sent>>

Dismiss(a) ==
  /\ At(a, "work") /\ "dismiss" \in Ops
  /\ \E h \in nursery[a] :
       /\ ~Locked(h) /\ dead' = dead \cup {h}
       /\ nursery' = [nursery EXCEPT ![a] = @ \ {h}]
       /\ thread' = Join(a, {h}, "work") /\ sent' = sent \cup {h}
  /\ UNCHANGED <<cell, kin, broken, noticed, posts, jobs, struck, asked>>

\* A reply ends the exchange; a cancelled batch's is dropped.
Replies(a) == At(a, "work") /\ a # 1 /\ ~Cut(a) /\ Report(a, "top") /\ UNCHANGED dead

\* What has come meanwhile is taken up in order, as far as a rewrite.
Drain(a) ==
  LET queue  == cell[a].queue
      prefix == {i \in DOMAIN queue : \A k \in 1..i : queue[k].kind # "Clear"}
      gones  == {queue[i].from : i \in {j \in prefix : queue[j].kind = "Gone"}}
  IN  /\ At(a, "work") /\ ~Cut(a) /\ prefix # {}
      /\ cell' = Taken(a, prefix)
      /\ nursery' = [nursery EXCEPT ![a] = @ \ gones]
      /\ UNCHANGED <<thread, kin, dead, broken, noticed, posts, books>>

ExchangeEnds(a) == /\ At(a, "work") /\ thread' = Go(a, "top")
                   /\ UNCHANGED <<cell, fleet, books>>

-----------------------------------------------------------------------------
(* The end of a life. *)

\* teardown, before its joins.
Down(a) == /\ At(a, "down") /\ dead' = dead \cup {a}
           /\ IF Owes(a) THEN Report(a, "leaving")
              ELSE thread' = Go(a, "leaving") /\ UNCHANGED <<cell, kin, nursery, broken, noticed, posts, books>>

\* dismiss_all: every unjoined helper, already ended with this life.
Leave(a) == /\ At(a, "leaving") /\ thread' = Join(a, nursery[a], "gone")
            /\ nursery' = [nursery EXCEPT ![a] = {}]
            /\ dead' = dead \cup nursery[a] /\ \A h \in nursery[a] : ~Locked(h)
            /\ UNCHANGED <<cell, kin, broken, noticed, posts, books>>

\* Where a panic is not the exchange's to recover, and no cell is locked.
Exposed == {"top", "taken", "clear", "cleared", "settled", "down", "leaving"}

\* (A mistake: the nursery is dropped before the mailbox, and joins helpers
\* whose lives go on.)
PanicsBodyFirst(a) ==
  /\ "panic" \in Ops /\ thread[a].pc \in Exposed
  /\ thread' = Join(a, nursery[a], "unwound") /\ nursery' = [nursery EXCEPT ![a] = {}]
  /\ UNCHANGED <<cell, kin, dead, broken, noticed, posts, books>>

\* Outside the exchange's recovery a panic unwinds the loop: the mailbox's drop
\* ends the life, the nursery's joins the helpers, and the thread then reports.
Panics(a) == /\ "panic" \in Ops /\ thread[a].pc \in Exposed
             /\ dead' = dead \cup {a} /\ thread' = Join(a, nursery[a], "unwound")
             /\ nursery' = [nursery EXCEPT ![a] = {}]
             /\ UNCHANGED <<cell, kin, broken, noticed, posts, books>>
Unwound(a) == At(a, "unwound") /\ Report(a, "gone") /\ UNCHANGED dead

\* The terminal's drop: Gone, last of all.
Gone(a) ==
  LET heard == a # 1 /\ Live(owner[a])
  IN  /\ At(a, "gone") /\ thread' = Go(a, "over")
      /\ heard => ~Locked(owner[a])
      /\ cell' = IF heard THEN Queued(owner[a], Item("Gone", a)) ELSE cell
      /\ UNCHANGED <<fleet, books>>

-----------------------------------------------------------------------------
Init ==
  /\ thread = [a \in Agents |-> [Idle EXCEPT !.pc = IF a = 1 THEN "top" ELSE "unborn"]]
  /\ cell = [a \in Agents |-> [queue |-> <<>>, answering |-> FALSE, job |-> 0, stopped |-> FALSE, cut |-> FALSE]]
  /\ owner = [h \in Helpers |-> 0] /\ line = [a \in Agents |-> IF a = 1 THEN {1, Human} ELSE {a}]
  /\ nursery = [a \in Agents |-> {}]
  /\ dead = {} /\ broken = {} /\ noticed = {} /\ posts = 0
  /\ jobs = [a \in Agents |-> 0] /\ struck = [a \in Agents |-> {}] /\ asked = {} /\ sent = {}

\* What a thread does of itself, once it is scheduled.
Attends(a) == \/ ReadRest(a) \/ NextEnded(a) \/ NextItem(a) \/ NextSettled(a)
              \/ Settled(a) \/ Decline(a) \/ Begin(a) \/ ClearEnds(a) \/ Cleared(a) \/ Joins(a)
              \/ Deliver(a) \/ Down(a) \/ Leave(a) \/ Unwound(a) \/ Gone(a)
\* What its model asks for.
Works(a)   == Spawn(a) \/ Tell(a) \/ AgentStops(a) \/ Dismiss(a) \/ Replies(a) \/ Drain(a)
Outside(a) == Steer(a) \/ HumanStops(a) \/ Breaks(a) \/ Panics(a) \/ NextIdles(a)

Finished == Over(1) /\ UNCHANGED vars

Next == \/ \E a \in Agents : Attends(a) \/ Works(a) \/ ExchangeEnds(a) \/ Outside(a)
        \/ \E a \in Helpers \cup {Human} : Ends(a)
        \/ Finished

Spec == Init /\ [][Next]_vars

\* Every thread is scheduled, and every exchange comes to an end: a model's
\* answers are finitely many and a cancelled one is abandoned.
FairSpec == Spec /\ \A a \in Agents : WF_vars(Attends(a)) /\ WF_vars(ExchangeEnds(a))

-----------------------------------------------------------------------------
(* Properties. *)

\* A job at rest owes nothing and is owed nothing: once an agent's job has
\* settled no helper of its still owes it a report, and none has left one in
\* its queue, so no notice opens a job of its own (A10; the report's lock).
Resting(a) == Born(a) /\ Live(a) /\ cell[a].job = 0 /\ thread[a].pc \in {"top", "next"}
RestOwesNothing ==
  \A a \in Agents : Resting(a) =>
    /\ \A h \in nursery[a] : ~Owes(h) /\ ~Locked(h)
    /\ \A i \in DOMAIN cell[a].queue : cell[a].queue[i].kind # "Child"

\* A helper's notice finds its holder: queued or in hand it precedes the Gone
\* that joins its helper, so only one sent away is ever dropped unread (A5, A8).
Holds(a, h) == h \in nursery[a] \cup sent
NoticesReachTheirHolder ==
  \A a \in Agents, h \in Helpers : Live(a) =>
    /\ \A i \in DOMAIN cell[a].queue : cell[a].queue[i] = Item("Child", h) =>
         Holds(a, h) /\ \A j \in 1..i : cell[a].queue[j] # Item("Gone", h)
    /\ thread[a].item = Item("Child", h) => Holds(a, h)

\* A stop strikes the job it names and no other: a settled job is reported as
\* stopped exactly when it was stopped while open, however late the human's
\* stop came or however the queue went on (A4).
StopIsTheJobs ==
  \A a \in Agents : At(a, "settled") =>
    (thread[a].says = "Stopped" <=> jobs[a] \in struck[a])

\* A parent is answered once for what it asked: a notice is posted only by a
\* helper that was asked since its last one, and no helper's thread ends with
\* a question unanswered, whether it replied, was stopped, panicked, lost its
\* journal or was dismissed (A5).
DebtsAreAnsweredOnce ==
  [][\A h \in Helpers : /\ Locked(h) /\ ~Locked(h)' => h \in asked
                        /\ ~Over(h) /\ Over(h)' => h \notin asked]_vars

\* Nobody waits on everybody: a job that is open settles or its agent ends,
\* and a fleet whose root life is ended ends, thread by thread (A3, A10).
EverythingEnds ==
  /\ \A a \in Agents : cell[a].job # 0 ~> cell[a].job = 0 \/ Over(a)
  /\ \A a \in Agents : Human \in dead ~> Over(a) \/ At(a, "unborn")
=============================================================================
