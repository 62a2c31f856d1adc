------------------------------ MODULE Requests ------------------------------
(* What the carrier promises its caller: of the runs and probes asked of an  *)
(* engine, one at a time, each is done at most once and concluded at most    *)
(* once; a report is of work that was done, a refusal of work that never     *)
(* will be, and a request is lost only with the connection.                  *)
EXTENDS Naturals

CONSTANT MaxIds

Ids == 1..MaxIds

VARIABLES asked,    \* how many requests have been made
          done,     \* those whose work the engine has done
          outcome,  \* how each was concluded, or "none"
          cut       \* whether the connection is known to be down

vars == <<asked, done, outcome, cut>>

Open(r) == r = asked /\ outcome[r] = "none"

Ask == /\ asked < MaxIds /\ (asked > 0 => outcome[asked] # "none")
       /\ asked' = asked + 1
       /\ UNCHANGED <<done, outcome, cut>>

Do(r) == /\ r <= asked /\ r \notin done /\ outcome[r] # "refused"
         /\ done' = done \cup {r}
         /\ UNCHANGED <<asked, outcome, cut>>

Conclude(r, how) == /\ Open(r)
                    /\ outcome' = [outcome EXCEPT ![r] = how]
                    /\ UNCHANGED <<asked, done, cut>>

Report(r)  == r \in done /\ Conclude(r, "report")
Refuse(r)  == r \notin done /\ Conclude(r, "refused")
Lose(r)    == cut /\ Conclude(r, "severed")
Abandon(r) == Conclude(r, "abandoned")

Cut == cut' = TRUE /\ UNCHANGED <<asked, done, outcome>>

Init == asked = 0 /\ done = {} /\ outcome = [r \in Ids |-> "none"] /\ cut = FALSE

Next == \/ Ask \/ Cut
        \/ \E r \in Ids : Do(r) \/ Report(r) \/ Refuse(r) \/ Lose(r) \/ Abandon(r)

Spec == Init /\ [][Next]_vars
=============================================================================
