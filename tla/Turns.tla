-------------------------------- MODULE Turns --------------------------------
(* One exarch session: the record it appends, the context folded from it,    *)
(* the agent that authors both, and the crash that cuts the record short.    *)
(* record/context.rs with its table, fold, state and transcript;             *)
(* record/session.rs; agent/deliberate.rs and agent/attend.rs as callers.    *)
EXTENDS Naturals, Sequences, FiniteSets, SequencesExt

CONSTANTS Sizes,     \* how many tools a reply may call at once
          MaxTurns,  \* bound: turns opened
          MaxLog     \* bound: transcript records in one session's log

ASSUME SizesAssumption == Sizes \subseteq Nat \ {0}
ASSUME BoundsAssumption == MaxTurns \in Nat /\ MaxLog \in Nat

\* The call ids of a reply, in order, as the provider gave them: two may be one.
Batches == UNION {{[i \in 1..n |-> i], [i \in 1..n |-> 1]} : n \in Sizes}

VARIABLES
  log,     \* record.jsonl: the transcript records, in order
  ctx,     \* Context: the turns, the evictions, the automaton's state
  phase,   \* where the agent's thread is between two records
  synced,  \* records known to be on disk
  sent,    \* history: records folded into the newest request sent
  wedged   \* history: the fold refused a record this log authored

vars == <<log, ctx, phase, synced, sent, wedged>>

-----------------------------------------------------------------------------
(* state.rs: the sequencing automaton. *)

Ready == [at |-> "ready", pending |-> <<>>]

Advance(s, r) ==
  CASE r.kind \in {"UserPrompt", "Steering"} -> [at |-> "afterUser", pending |-> <<>>]
    [] r.kind = "AssistantMessage" -> [at |-> IF r.pending = <<>> THEN "ready" ELSE "awaiting",
                                       pending |-> r.pending]
    [] r.kind = "ToolResults" -> [at |-> "afterResults", pending |-> <<>>]
    [] OTHER -> s

\* resting: where the automaton rests after a turn's records.
Resting(records) ==
  LET at[n \in 0..Len(records)] == IF n = 0 THEN Ready ELSE Advance(at[n - 1], records[n])
  IN  at[Len(records)]

AdmitsNewTurn(s) == s.at # "awaiting"
\* (A mistake: the whole of a turn, whatever it still owes.)
AdmissiblePrefixWhole(records) == records
\* The longest prefix of a turn's records that owes no tool result.
AdmissiblePrefix(records) ==
  LET ends == {n \in 1..Len(records) : AdmitsNewTurn(Resting(SubSeq(records, 1, n)))}
  IN  SubSeq(records, 1, Max(ends \cup {0}))

ValidResults(pending, ids) == /\ Len(ids) = Len(pending)
                              /\ ToSet(ids) \subseteq ToSet(pending)
                              /\ IsInjective(ids)

Admissible(s, r) ==
  \/ /\ r.kind \in {"UserPrompt", "Steering", "Import", "Rewound", "Cleared"}
     /\ AdmitsNewTurn(s)
  \/ r.kind = "AssistantMessage" /\ s.at \in {"afterUser", "afterResults"}
  \/ r.kind = "ToolResults" /\ s.at = "awaiting" /\ ValidResults(s.pending, r.ids)
  \/ r.kind \in {"Evicted", "Inherited"}

-----------------------------------------------------------------------------
(* span.rs, table.rs: turns, evictions, and where each of them is. *)

Single(id)       == <<id, id>>
Within(s, outer) == outer[1] <= s[1] /\ s[2] <= outer[2]
Width(s)         == s[2] - s[1]

\* Location: in the context, withdrawn, or under the eviction over this span.
Resident  == <<>>
Withdrawn == <<0, 0>>

NewContext == [turns |-> <<>>, evictions |-> <<>>, state |-> Ready]

Reach(c)    == IF c.turns = <<>> THEN 0 ELSE Last(c.turns).id
\* (A mistake: numbered by what is in the context.)
NextIdInContext(c) == Cardinality({t \in ToSet(c.turns) : t.loc = <<>>}) + 1
NextId(c)   == Reach(c) + 1
Ids(c)      == {t.id : t \in ToSet(c.turns)}
Row(c, id)  == CHOOSE t \in ToSet(c.turns) : t.id = id

\* An eviction `id` lies strictly inside of, past its `from`.
Straddled(c, id) == \E e \in ToSet(c.evictions) : e.span[1] < id /\ id <= e.span[2]
\* A turn's records wherever they are: at the address it keeps, else here.
Address(t) == IF t.kept THEN t.at ELSE t.records

\* A turn that departs keeps the address of its records.
Left(t, loc) == [t EXCEPT !.loc = loc, !.kept = TRUE, !.at = Address(t), !.records = <<>>]
\* Every item `Leaving` names departs to `loc`; only a withdrawal moves one
\* that has departed before.
Depart(c, Leaving(_), loc) ==
  LET Goes(span, was) == Leaving(span) /\ (loc = Withdrawn \/ was = Resident)
  IN  [c EXCEPT
        !.turns = [i \in DOMAIN @ |->
          IF Goes(Single(@[i].id), @[i].loc) THEN Left(@[i], loc) ELSE @[i]],
        !.evictions = [i \in DOMAIN @ |->
          IF Goes(@[i].span, @[i].loc) THEN [@[i] EXCEPT !.loc = loc] ELSE @[i]]]
\* (A mistake: only turns depart.)
EvictTurns(c, span) ==
  LET d == Depart(c, LAMBDA s : Within(s, span), span)
  IN  [d EXCEPT !.evictions = Append(c.evictions, [span |-> span, loc |-> Resident])]
Evict(c, span) ==
  LET d == Depart(c, LAMBDA s : Within(s, span), span)
  IN  [d EXCEPT !.evictions = Append(@, [span |-> span, loc |-> Resident])]

Withdraw(c, from) == Depart(c, LAMBDA s : from <= s[1], Withdrawn)
\* (A mistake: the largest span.)
HolderWidest(span, later) ==
  LET over == {s \in later : Within(span, s)}
  IN  IF over = {} THEN Resident
      ELSE CHOOSE s \in over : \A o \in over : Width(s) >= Width(o)
\* The smallest of `later` spans that contains `span`, or none.
Holder(span, later) ==
  LET over == {s \in later : Within(span, s)}
  IN  IF over = {} THEN Resident
      ELSE CHOOSE s \in over : \A o \in over : Width(s) <= Width(o)

Open(c, id, user) ==
  [c EXCEPT !.turns = Append(@, [id |-> id, user |-> user, loc |-> Resident, kept |-> FALSE,
                                 at |-> <<>>, records |-> <<>>])]

Told(t, r)   == [t EXCEPT !.records = Append(@, r)]
Absorb(c, r) == LET n == Len(c.turns)
                IN  [c EXCEPT !.turns = [c.turns EXCEPT ![n] = Told(c.turns[n], r)]]

\* What is resident.
Items(c) == {[span |-> Single(t.id), turn |-> TRUE, records |-> t.records] :
               t \in {t \in ToSet(c.turns) : t.loc = Resident}}
            \cup {[span |-> e.span, turn |-> FALSE, records |-> <<>>] :
               e \in {e \in ToSet(c.evictions) : e.loc = Resident}}
\* items: by `from`, a wider span first, the turn last.
Precedes(a, b) == \/ a.span[1] < b.span[1]
                  \/ a.span[1] = b.span[1] /\ b.span[2] < a.span[2]
                  \/ a.span = b.span /\ ~a.turn /\ b.turn
\* The frontier: what is resident, in that order.
Frontier(c) ==
  [n \in 1..Cardinality(Items(c)) |->
     CHOOSE i \in Items(c) : Cardinality({j \in Items(c) : Precedes(j, i)}) = n - 1]
\* rendered: a turn as it lies, an eviction as its one note.
Messages(c) ==
  LET items == Frontier(c)
  IN  FlattenSeq([i \in DOMAIN items |-> IF items[i].turn THEN items[i].records
                                         ELSE <<[kind |-> "Note"]>>])

\* The newest turn, while it is being written; 0 for none.
UnclosedTurn(c) ==
  IF c.turns # <<>> /\ Last(c.turns).loc = Resident /\ c.state.at # "ready"
  THEN Last(c.turns).id ELSE 0

-----------------------------------------------------------------------------
(* fold.rs: what may follow, and what it does. *)

\* resolve_cut
CutHolds(c, span) ==
  /\ \A id \in {span[1], span[2]} : id \in Ids(c) /\ Row(c, id).loc # Withdrawn
  /\ ~(UnclosedTurn(c) # 0 /\ Within(Single(UnclosedTurn(c)), span))
  /\ ~Straddled(c, span[1]) /\ ~Straddled(c, span[2] + 1)

AnchorHolds(c, anchor) == /\ anchor \in Ids(c) /\ Row(c, anchor).loc # Withdrawn
                          /\ ~Straddled(c, anchor)

\* A link: rows in id order, evictions over rows it carries, nested or apart
\* as they came, each row where its evictions say.
LinkHolds(r) ==
  LET rows  == ToSet(r.turns)
      Ev(i) == r.evictions[i]
  IN  /\ \A i \in 1..(Len(r.turns) - 1) : r.turns[i].id < r.turns[i + 1].id
      /\ \A e \in ToSet(r.evictions) : {e[1], e[2]} \subseteq {t.id : t \in rows}
      /\ \A i, j \in DOMAIN r.evictions :
           i < j => \/ Within(Ev(i), Ev(j)) \/ Ev(i)[2] < Ev(j)[1] \/ Ev(j)[2] < Ev(i)[1]
      /\ \A t \in rows : t.loc \in {Withdrawn, Holder(Single(t.id), ToSet(r.evictions))}

OpensTurn(r)   == r.kind \in {"UserPrompt", "AssistantMessage", "Import"}
ExtendsTurn(r) == r.kind \in {"Steering", "ToolResults"}

\* judge
Judge(c, len, r) ==
  /\ Admissible(c.state, r)
  /\ OpensTurn(r) => r.turn > Reach(c)
  /\ r.kind = "Inherited" => len = 0 /\ LinkHolds(r)
  /\ r.kind = "Rewound" => AnchorHolds(c, r.anchor)
  /\ r.kind = "Evicted" => CutHolds(c, r.span)
  /\ r.kind = "Steering" => c.turns # <<>>
  /\ ExtendsTurn(r) /\ c.turns # <<>> => Last(c.turns).loc = Resident
\* Table::install, over seeds read back through the link's addresses.
Install(c, r) ==
  LET Gone(e)  == \E t \in ToSet(r.turns) : t.id = e[1] /\ t.loc = Withdrawn
      Later(i) == {r.evictions[j] : j \in (i + 1)..Len(r.evictions)}
  IN  [c EXCEPT
        !.turns = [i \in DOMAIN r.turns |->
          [id |-> r.turns[i].id, user |-> r.turns[i].user, loc |-> r.turns[i].loc,
           kept |-> TRUE, at |-> r.turns[i].at,
           records |-> IF r.turns[i].loc = Resident THEN AdmissiblePrefix(r.turns[i].at)
                                                    ELSE <<>>]],
        !.evictions = [i \in DOMAIN r.evictions |->
          [span |-> r.evictions[i],
           loc |-> IF Gone(r.evictions[i]) THEN Withdrawn
                   ELSE Holder(r.evictions[i], Later(i))]]]

\* Where the automaton rests after a withdrawal: where the newest resident
\* turn leaves it.
RestingState(c) ==
  LET here == {i \in DOMAIN c.turns : c.turns[i].loc = Resident}
  IN  IF here = {} THEN Ready ELSE Resting(c.turns[Max(here)].records)

\* step_transcript
Step(c, r) ==
  LET on == [c EXCEPT !.state = Advance(@, r)]
      Rested(d) == [d EXCEPT !.state = RestingState(d)]
  IN  CASE r.kind = "Inherited"        -> Install(on, r)
        [] r.kind = "Evicted"          -> Evict(on, r.span)
        [] r.kind = "Rewound"          -> Rested(Withdraw(c, r.anchor))
        [] r.kind = "Cleared"          -> Rested(Withdraw(c, 0))
        [] r.kind = "UserPrompt"       -> Absorb(Open(on, r.turn, TRUE), r)
        [] r.kind = "Import"           -> Absorb(Open(on, r.turn, TRUE), r)
        [] r.kind = "AssistantMessage" -> Absorb(Open(on, r.turn, FALSE), r)
        [] OTHER                       -> Absorb(on, r)
\* The spans a forced eviction may plan: a prefix of the frontier short of its
\* newest item, with more to shed than one eviction.  Which prefix is a matter
\* of bytes.
Planned(c) ==
  LET items == Items(c)
      Material(m) == {i \in items : i.span[1] <= m.span[1] /\ (i.turn => i.records # <<>>)}
      Sheds(m) == \E i \in Material(m) : i.turn \/ Material(m) # {i}
      Oldest(i) == \A j \in items : i.span[1] <= j.span[1]
      Newest(i) == \A j \in items : j.span[1] <= i.span[1]
  IN  {<<i.span[1], m.span[2]>> : i \in {i \in items : Oldest(i)},
                                 m \in {m \in items : ~Newest(m) /\ Sheds(m)}}
\* (A mistake: only a reply owes anything.)
QuiesceRecordsReply(c, reason) ==
  IF reason = "replied" /\ c.state.at # "ready"
  THEN <<[kind |-> "AssistantMessage", turn |-> NextId(c), pending |-> <<>>]>> ELSE <<>>
\* The records a quiesce still owes.
QuiesceRecords(c, reason) ==
  LET owed == IF c.state.at = "awaiting" THEN <<[kind |-> "ToolResults", ids |-> c.state.pending]>>
              ELSE <<>>
      capstone == IF reason = "replied" /\ c.state.at # "ready"
                  THEN <<[kind |-> "AssistantMessage", turn |-> NextId(c), pending |-> <<>>]>>
                  ELSE <<>>
  IN  owed \o capstone

\* The nearest user turn at or before the newest; 0 for none.
CurrentPrompt(c) == Max({t.id : t \in {t \in ToSet(c.turns) : t.user}} \cup {0})
LivePrompt(c) == IF c.turns # <<>> /\ Last(c.turns).loc = Resident THEN CurrentPrompt(c) ELSE 0

\* A fork's link to its parent's table.
Link(c) == [kind  |-> "Inherited",
            turns |-> [i \in DOMAIN c.turns |->
                         [id |-> c.turns[i].id, user |-> c.turns[i].user,
                          loc |-> c.turns[i].loc, at |-> Address(c.turns[i])]],
            evictions |-> [i \in DOMAIN c.evictions |-> c.evictions[i].span]]

-----------------------------------------------------------------------------
(* session.rs: each mutation appends a record, then steps the fold. *)

\* record_transcript: the record is on file before the fold sees it, and a
\* refusal is a panic.
Recording(acc, r) ==
  IF ~acc.ok THEN acc
  ELSE [ok  |-> Judge(acc.ctx, Len(acc.log), r),
        log |-> Append(acc.log, r),
        ctx |-> IF Judge(acc.ctx, Len(acc.log), r) THEN Step(acc.ctx, r) ELSE acc.ctx]

Emitted(from, records) ==
  LET after[n \in 0..Len(records)] ==
        IF n = 0 THEN from ELSE Recording(after[n - 1], records[n])
  IN  after[Len(records)]

\* The fold of a whole log, as resume takes it.
Folded(records) == Emitted([ok |-> TRUE, log |-> <<>>, ctx |-> NewContext], records)

Emit(records) ==
  LET e == Emitted([ok |-> TRUE, log |-> log, ctx |-> ctx], records)
  IN  /\ ~wedged /\ Len(e.log) <= MaxLog /\ Len(e.ctx.turns) <= MaxTurns
      /\ log' = e.log /\ ctx' = e.ctx /\ wedged' = ~e.ok

Goes(from, to) == phase \in from /\ phase' = to

\* append_user
UserRecord(continues) ==
  IF continues # 0 /\ LivePrompt(ctx) = continues THEN [kind |-> "Steering"]
  ELSE [kind |-> "UserPrompt", turn |-> NextId(ctx)]

\* An accepted input opens an exchange.
Prompt == /\ Goes({"rest"}, "turn") /\ AdmitsNewTurn(ctx.state)
          /\ Emit(<<UserRecord(0)>>)
          /\ UNCHANGED <<synced, sent>>

\* An exchange that ended short of its reply is nudged on.
Nudge == /\ Goes({"ended"}, "turn") /\ AdmitsNewTurn(ctx.state) /\ CurrentPrompt(ctx) # 0
         /\ Emit(<<UserRecord(CurrentPrompt(ctx))>>)
         /\ UNCHANGED <<synced, sent>>

\* The turn boundary, and an overflow's relief: force_eviction.
ForceEvict == \E span \in Planned(ctx) :
  /\ Goes({"turn", "sent"}, "turn") /\ AdmitsNewTurn(ctx.state) /\ CutHolds(ctx, span)
  /\ Emit(<<[kind |-> "Evicted", span |-> span]>>)
  /\ UNCHANGED <<synced, sent>>
\* (A mistake: sent first, synced at the boundary.)
SendUnsynced == /\ Goes({"turn"}, "sent") /\ ctx.state.at \in {"afterUser", "afterResults"}
                /\ ~wedged
                /\ sent' = Len(log)
                /\ UNCHANGED <<log, ctx, synced, wedged>>
\* round_trip: what a request is rendered from is synced before it is sent.
Send == /\ Goes({"turn"}, "sent") /\ ctx.state.at \in {"afterUser", "afterResults"}
        /\ ~wedged
        /\ synced' = Len(log) /\ sent' = Len(log)
        /\ UNCHANGED <<log, ctx, wedged>>

\* settle_turn
Reply(batch) ==
  /\ Goes({"sent"}, IF batch = <<>> THEN "ended" ELSE "batch")
  /\ ctx.state.at \in {"afterUser", "afterResults"}
  /\ Emit(<<[kind |-> "AssistantMessage", turn |-> NextId(ctx), pending |-> batch]>>)
  /\ UNCHANGED <<synced, sent>>
\* A tool call that runs a script syncs the record first.
RunCall == /\ Goes({"batch", "running"}, "running") /\ ~wedged
           /\ synced' = Len(log)
           /\ UNCHANGED <<log, ctx, sent, wedged>>

\* exarch-context `evict, from within a script: the model's own cut.
ModelEvict == \E from, to \in Ids(ctx) :
  /\ Goes({"running"}, "running") /\ from <= to /\ CutHolds(ctx, <<from, to>>)
  /\ Emit(<<[kind |-> "Evicted", span |-> <<from, to>>]>>)
  /\ UNCHANGED <<synced, sent>>

\* append_tool_results.  A refusal is a fault: abort_unready then quiesces.
Answer ==
  /\ IF ValidResults(ctx.state.pending, ctx.state.pending)
     THEN Goes({"batch", "running"}, "arrivals")
     ELSE Goes({"batch", "running"}, "over")
  /\ Emit(<<[kind |-> "ToolResults", ids |-> ctx.state.pending]>>)
  /\ UNCHANGED <<synced, sent>>

\* append_steering: arrivals, and the reminders after them.
Steer == /\ Goes({"arrivals"}, "arrivals")
         /\ ctx.state.at \in {"afterUser", "afterResults"} /\ UnclosedTurn(ctx) # 0
         /\ Emit(<<[kind |-> "Steering"]>>)
         /\ UNCHANGED <<synced, sent>>

Continue == /\ Goes({"arrivals"}, "turn") /\ ~wedged
            /\ UNCHANGED <<log, ctx, synced, sent, wedged>>

\* A deliberation that ends early: on its reply, cancelled, failed by the
\* provider, or panicked.  Every way out leaves the log ready.
Quiesce(from, to, reason) == /\ Goes(from, to)
                             /\ Emit(QuiesceRecords(ctx, reason))
                             /\ UNCHANGED <<synced, sent>>
Replied == Quiesce({"arrivals"}, "ended", "replied")
Halted  == Quiesce({"turn", "sent", "arrivals"}, "over", "cancelled")
Failed  == Quiesce({"sent"}, "ended", "aborted")
Panics  == Quiesce({"turn", "sent", "batch", "running", "arrivals"}, "over", "aborted")

\* The top of the attend loop certifies the boundary.
Certify == /\ Goes({"ended", "over"}, "rest") /\ ~wedged
           /\ synced' = Len(log)
           /\ UNCHANGED <<log, ctx, sent, wedged>>

\* The commands that rewrite a context at rest.
Rewind == \E anchor \in Ids(ctx) :
  /\ Goes({"rest"}, "over") /\ AnchorHolds(ctx, anchor) /\ AdmitsNewTurn(ctx.state)
  /\ Emit(<<[kind |-> "Rewound", anchor |-> anchor]>>)
  /\ UNCHANGED <<synced, sent>>

Clear == /\ Goes({"rest"}, "over") /\ AdmitsNewTurn(ctx.state) /\ ctx.turns # <<>>
         /\ Emit(<<[kind |-> "Cleared"]>>)
         /\ UNCHANGED <<synced, sent>>

EvictCommand == \E span \in Planned(ctx) :
  /\ Goes({"rest"}, "over") /\ AdmitsNewTurn(ctx.state) /\ CutHolds(ctx, span)
  /\ Emit(<<[kind |-> "Evicted", span |-> span]>>)
  /\ UNCHANGED <<synced, sent>>

\* A fork with its parent's memory, from a script or by the human: the model
\* goes on with the child, whose log opens with the link.
Fork == /\ Goes({"running", "rest"}, "over") /\ ~wedged
        /\ ctx.turns # <<>> /\ \A r \in ToSet(log) : r.kind # "Inherited"
        /\ log' = <<Link(ctx)>> /\ ctx' = Folded(<<Link(ctx)>>).ctx
        /\ wedged' = ~Folded(<<Link(ctx)>>).ok
        /\ synced' = 0 /\ sent' = 0
\* The process, or the machine, dies: what was synced is on disk, and any
\* prefix of the rest; a torn line is no record.
Crash == /\ phase # "down" /\ phase' = "down" /\ ~wedged
         /\ \E n \in synced..Len(log) : log' = SubSeq(log, 1, n)
         /\ ctx' = NewContext /\ synced' = Len(log')
         /\ UNCHANGED <<sent, wedged>>

\* resume, reopen and the resume note.
Resume ==
  /\ Goes({"down"}, "over") /\ ~wedged
  /\ LET f == Folded(log)
         q == Emitted([ok |-> f.ok, log |-> log, ctx |-> f.ctx],
                      QuiesceRecords(f.ctx, "aborted"))
         e == Emitted(q, <<[kind |-> "Import", turn |-> NextId(q.ctx)]>>)
     IN  /\ Len(e.log) <= MaxLog /\ Len(e.ctx.turns) <= MaxTurns
         /\ log' = e.log /\ ctx' = e.ctx /\ wedged' = ~e.ok
  /\ UNCHANGED <<synced, sent>>

-----------------------------------------------------------------------------

Init == /\ log = <<>> /\ ctx = NewContext /\ phase = "over"
        /\ synced = 0 /\ sent = 0 /\ wedged = FALSE

Next == \/ Prompt \/ Nudge \/ ForceEvict \/ Send \/ RunCall \/ ModelEvict \/ Answer
        \/ Steer \/ Continue \/ Replied \/ Halted \/ Failed \/ Panics \/ Certify
        \/ Rewind \/ Clear \/ EvictCommand \/ Fork \/ Crash \/ Resume
        \/ \E b \in Batches \cup {<<>>} : Reply(b)

Spec == Init /\ [][Next]_vars

-----------------------------------------------------------------------------
(* Properties. *)

Kinds == {"UserPrompt", "Steering", "Import", "AssistantMessage", "ToolResults"}

\* The fold never refuses a record this log authors, live or on resume, which
\* session.rs calls "a caller bug": none but the results of a batch in which
\* the provider gave two calls one id.
LiveRecordsAdmitted ==
  wedged => ctx.state.at = "awaiting" /\ ~IsInjective(ctx.state.pending)

\* The agent's place and the transcript's state agree, so that no mutation of
\* the deliberation is refused: a request is rendered only when a reply is
\* due, a batch is answered only when it is owed, an exchange opens only when
\* none is, and a forced eviction plans only what resolve_cut admits.
InStep ==
  ~wedged => /\ phase \in {"turn", "sent", "arrivals"}
                  => ctx.state.at \in {"afterUser", "afterResults"}
             /\ phase = "arrivals" => UnclosedTurn(ctx) # 0
             /\ phase \in {"batch", "running"} => ctx.state.at = "awaiting"
             /\ phase \in {"rest", "ended", "over"} => AdmitsNewTurn(ctx.state)
             /\ AdmitsNewTurn(ctx.state) => \A span \in Planned(ctx) : CutHolds(ctx, span)

Calls(m) == m.kind = "AssistantMessage" /\ m.pending # <<>>

\* What is sent is a legal request, after any edits, forks and crashes: every
\* batch of calls is followed by its own results, no results stand without
\* their calls, and the model is not asked to follow itself.
RequestIsLegal ==
  phase \in {"turn", "sent"} =>
    LET m == Messages(ctx)
    IN  /\ m # <<>> /\ Last(m).kind # "AssistantMessage"
        /\ \A i \in DOMAIN m :
             /\ Calls(m[i]) => /\ i < Len(m) /\ m[i + 1].kind = "ToolResults"
                               /\ ToSet(m[i + 1].ids) = ToSet(m[i].pending)
             /\ m[i].kind = "ToolResults" => i > 1 /\ Calls(m[i - 1])

\* A link taken at any moment is one the child's judge admits, and the child
\* derives from it the location of every turn and every eviction as its parent
\* had stamped them one by one.
ForkAgrees ==
  LET r == Link(ctx)
      child == Step(NewContext, r)
  IN  ctx.turns # <<>> /\ phase # "down" =>
        /\ Judge(NewContext, 0, r)
        /\ \A i \in DOMAIN ctx.turns : child.turns[i].loc = ctx.turns[i].loc
        /\ \A i \in DOMAIN ctx.evictions : child.evictions[i] = ctx.evictions[i]

\* The records of turn `id` by the log alone: what a link carried, and
\* everything since that was recorded while it was the newest.
OpenedBy(r) == IF OpensTurn(r) THEN {r.turn}
               ELSE IF r.kind = "Inherited" THEN {t.id : t \in ToSet(r.turns)} ELSE {}
NewestAt(n) == Max({0} \cup UNION {OpenedBy(log[m]) : m \in 1..n})
Brings(r, id, newest) ==
  IF r.kind = "Inherited" /\ id \in OpenedBy(r)
  THEN (CHOOSE t \in ToSet(r.turns) : t.id = id).at
  ELSE IF r.kind \in Kinds /\ newest = id THEN <<r>> ELSE <<>>
Recorded(id) == FlattenSeq([n \in DOMAIN log |-> Brings(log[n], id, NewestAt(n))])

\* Nothing is sent twice and nothing is forgotten, whatever was cut, withdrawn
\* and forked. The frontier's items are apart, cover every turn that is not
\* withdrawn, and open "with a user-role item"; and each turn's address, where
\* its cut left it, reads back all that was recorded on it.
NothingIsLost ==
  LET items == Frontier(ctx)
  IN  /\ items = <<>> \/ ~items[1].turn \/ Row(ctx, items[1].span[1]).user
      /\ \A t \in ToSet(ctx.turns) :
           LET over == {i \in Items(ctx) : Within(Single(t.id), i.span)}
           IN  /\ Cardinality(over) <= 1
               /\ over = {} => t.loc = Withdrawn
               /\ ~wedged /\ phase # "down" => Address(t) = Recorded(t.id)

\* What left the process is on disk: no crash takes back a record that a
\* request was rendered from, nor one a fork's link may point at, which is
\* every record that lies on a turn while a link can be taken.
SentIsKept ==
  /\ sent <= Len(log)
  /\ phase \in {"rest", "running"} =>
       \A i \in (synced + 1)..Len(log) : log[i].kind \notin Kinds
=============================================================================
