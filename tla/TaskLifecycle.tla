--------------------------- MODULE TaskLifecycle ---------------------------
(***************************************************************************)
(* What the task outbox promises to the code that enqueues a task: the     *)
(* life of one row of task_outbox with the drains, their leases, clocks    *)
(* and tokens abstracted away.  TaskOutbox implements this module.         *)
(*                                                                         *)
(* "held" is a row in status processing whose runner is still there, and   *)
(* "lost" one whose runner died or could not write its result down.        *)
(***************************************************************************)
EXTENDS Naturals

CONSTANTS Tasks,        \* the (type, dedupeKey) pairs callers enqueue
          MaxAttempts   \* the attempts the handler entry of a task grants

ASSUME MaxAttemptsAssumption == MaxAttempts \in [Tasks -> Nat \ {0}]

VARIABLES state,        \* where the row of each task stands
          tries         \* attempts that were recorded on the row

vars == <<state, tries>>

Terminal == {"done", "skipped", "failed"}
States == {"absent", "waiting", "held", "lost"} \cup Terminal

TypeOK == /\ state \in [Tasks -> States]
          /\ tries \in [Tasks -> Nat]

Init == /\ state = [t \in Tasks |-> "absent"]
        /\ tries = [t \in Tasks |-> 0]

Enqueue(t) == /\ state[t] = "absent"
              /\ state' = [state EXCEPT ![t] = "waiting"]
              /\ tries' = [tries EXCEPT ![t] = 0]

Take(t) == /\ state[t] = "waiting"
           /\ state' = [state EXCEPT ![t] = "held"]
           /\ UNCHANGED tries

(* Seeded defect: one retry too many.                                      *)
Retry_OffByOne(t) == /\ state[t] = "held"
                     /\ tries[t] + 1 <= MaxAttempts[t]
                     /\ state' = [state EXCEPT ![t] = "waiting"]
                     /\ tries' = [tries EXCEPT ![t] = @ + 1]

Retry(t) == /\ state[t] = "held"
            /\ tries[t] + 1 < MaxAttempts[t]
            /\ state' = [state EXCEPT ![t] = "waiting"]
            /\ tries' = [tries EXCEPT ![t] = @ + 1]

(* A success, a deliberate skip, or giving up: on the last attempt, or on  *)
(* an error that no further attempt can change.                            *)
Conclude(t) == /\ state[t] = "held"
               /\ \E s \in Terminal : state' = [state EXCEPT ![t] = s]
               /\ tries' = [tries EXCEPT ![t] = @ + 1]

Lose(t) == /\ state[t] = "held"
           /\ state' = [state EXCEPT ![t] = "lost"]
           /\ UNCHANGED tries

(* Lease recovery hands rows back without spending an attempt, whether     *)
(* their runner died or is merely slow.                                    *)
Reclaim(S) == /\ \A t \in S : state[t] \in {"held", "lost"}
              /\ state' = [t \in Tasks |-> IF t \in S THEN "waiting" ELSE state[t]]
              /\ UNCHANGED tries

Purge(S) == /\ \A t \in S : state[t] \in Terminal
            /\ state' = [t \in Tasks |-> IF t \in S THEN "absent" ELSE state[t]]
            /\ tries' = [t \in Tasks |-> IF t \in S THEN 0 ELSE tries[t]]

Next == \/ \E t \in Tasks : Enqueue(t) \/ Take(t) \/ Retry(t) \/ Conclude(t) \/ Lose(t)
        \/ \E S \in SUBSET Tasks : Reclaim(S) \/ Purge(S)

Spec == Init /\ [][Next]_vars

-----------------------------------------------------------------------------

(* The drain runs every minute, so a due row is claimed and a lost one is  *)
(* recovered.  A task is not promised more than this: its attempts are not *)
(* all cut short, so an attempt that is made over and over is recorded.    *)
Fairness == \A t \in Tasks : /\ WF_vars(Take(t))
                             /\ WF_vars(state[t] = "lost" /\ Reclaim({t}))
                             /\ SF_vars(Retry(t) \/ Conclude(t))

FairSpec == Spec /\ Fairness

(* An enqueued task is not forgotten and not tried for ever: it reaches a  *)
(* terminal status however often its runner dies in between, as long as    *)
(* not every attempt does.  (enqueueTask: "work that must survive a        *)
(* process restart".)                                                      *)
EveryTaskConcludes == \A t \in Tasks : state[t] = "waiting" ~> state[t] \in Terminal

(* The attempts recorded on a row never exceed what its handler entry      *)
(* grants, and only a concluded row has used them all up: a row can not be *)
(* parked as pending with nothing left to try.                             *)
AttemptsWithinGrant ==
    \A t \in Tasks : /\ tries[t] <= MaxAttempts[t]
                     /\ tries[t] = MaxAttempts[t] => state[t] \in Terminal
=============================================================================
