------------------------------ MODULE JobRunners ------------------------------
(***************************************************************************)
(* The processes that run the job outbox:drain (scheduler.ts, cron.ts) and *)
(* the advisory lock they run it under (runWithJobLock), over the tasks of *)
(* TaskLifecycle: its fairness is a promise these processes have to keep.  *)
(*                                                                         *)
(* A process does not overlap its own runs.  A run tries the lock, which   *)
(* its transaction holds: it is gone with the run, with the process, or    *)
(* when the transaction's time is up while the run goes on.                *)
(*                                                                         *)
(* Abstracted: time (a timer fires, a lease goes stale, a transaction is   *)
(* out of time at any moment); a pass has one batch of all that waits      *)
(* (TaskOutbox has its budget, limit, tokens and delays).  Faults, slow    *)
(* leases and stops are bounded together by MaxFaults.                     *)
(***************************************************************************)
EXTENDS TaskLifecycle, FiniteSets

CONSTANTS Procs, NoProc,
          MaxFaults  \* bound

ASSUME RunnersAssumption == NoProc \notin Procs /\ MaxFaults \in Nat

VARIABLES process,   \* of each process: "up", "stopping" or "down"
          run,       \* of each process: the step its run is at, or "none"
          lock,      \* the process whose transaction holds the lock
          batch,     \* of each process: tasks its run has still to try
          runner,    \* of each task: the process whose token is on its row
          faults,
          outran     \* history: processes whose run outlived its transaction

runners == <<process, run, lock, batch, runner, faults, outran>>
jobVars == <<state, tries, runners>>

JobInit == /\ Init
           /\ process = [p \in Procs |-> "up"] /\ run = [p \in Procs |-> "none"]
           /\ lock = NoProc /\ batch = [p \in Procs |-> {}]
           /\ runner = [t \in Tasks |-> NoProc]
           /\ faults = 0 /\ outran = {}

-----------------------------------------------------------------------------
to(p, step) == run' = [run EXCEPT ![p] = step]
fault == faults < MaxFaults /\ faults' = faults + 1
released(p) == IF lock = p THEN NoProc ELSE lock

enqueueTask(t) == Enqueue(t) /\ UNCHANGED runners

(* The timer, which croner keeps from overlapping a run of its own. *)
tick(p) == /\ process[p] = "up" /\ run[p] = "none" /\ to(p, "locking")
           /\ UNCHANGED <<state, tries, process, lock, batch, runner, faults, outran>>

(* pg_try_advisory_xact_lock: a run that does not get the lock is skipped. *)
tryLock(p) == /\ run[p] = "locking"
              /\ IF lock = NoProc THEN lock' = p /\ to(p, "recover")
                 ELSE to(p, "none") /\ UNCHANGED lock
              /\ UNCHANGED <<state, tries, process, batch, runner, faults, outran>>

(* Prisma rolls the transaction back, and the job goes on without it. *)
transactionExpires(p) == /\ lock = p /\ lock' = NoProc
                         /\ outran' = outran \cup {p}
                         /\ UNCHANGED <<state, tries, process, run, batch, runner, faults>>

(* recoverStaleLeases: rows of dead runners; a fault of a slow one's, too. *)
recover(p) ==
  LET gone == {t \in Tasks : state[t] = "lost"}
  IN /\ run[p] = "recover" /\ to(p, "fetch")
     /\ \/ Reclaim(gone) /\ UNCHANGED faults
        \/ \E t \in Tasks : state[t] = "held" /\ fault /\ Reclaim(gone \cup {t})
     /\ runner' = [t \in Tasks |-> IF state'[t] = "waiting" THEN NoProc ELSE runner[t]]
     /\ UNCHANGED <<process, lock, batch, outran>>

fetch(p) == /\ run[p] = "fetch" /\ to(p, "work")
            /\ batch' = [batch EXCEPT ![p] = {t \in Tasks : state[t] = "waiting"}]
            /\ UNCHANGED <<state, tries, process, lock, runner, faults, outran>>

(* claimTask: a row another pass was faster to take is passed over. *)
take(p, t) ==
  /\ run[p] = "work" /\ t \in batch[p]
  /\ batch' = [batch EXCEPT ![p] = @ \ {t}]
  /\ IF state[t] = "waiting"
     THEN Take(t) /\ to(p, "attempt") /\ runner' = [runner EXCEPT ![t] = p]
     ELSE UNCHANGED <<state, tries, run, runner>>
  /\ UNCHANGED <<process, lock, faults, outran>>

holds(p) == {t \in Tasks : runner[t] = p}

(* Seeded defect: the result is written without asking for the token. *)
report_Unfenced(p) ==
  /\ run[p] = "attempt" /\ to(p, "work")
  /\ \E t \in Tasks : \E s \in Terminal :
       /\ state[t] \in {"held", "waiting"}
       /\ state' = [state EXCEPT ![t] = s] /\ tries' = [tries EXCEPT ![t] = @ + 1]
       /\ runner' = [runner EXCEPT ![t] = NoProc]
  /\ UNCHANGED <<process, lock, batch, faults, outran>>

(* completeTask and recordFailure ask for the token of the row: a runner   *)
(* that lost it changes nothing.                                           *)
report(p) ==
  /\ run[p] = "attempt" /\ to(p, "work")
  /\ IF holds(p) = {} THEN UNCHANGED <<state, tries, runner>>
     ELSE \E t \in holds(p) : /\ Retry(t) \/ Conclude(t)
                              /\ runner' = [runner EXCEPT ![t] = NoProc]
  /\ UNCHANGED <<process, lock, batch, faults, outran>>

(* The result can not be written: the row stays as it is. *)
reportFails(p) ==
  /\ run[p] = "attempt" /\ to(p, "work") /\ fault
  /\ \E t \in holds(p) : Lose(t) /\ runner' = [runner EXCEPT ![t] = NoProc]
  /\ UNCHANGED <<process, lock, batch, outran>>

(* The batch is done, old rows are swept, and the transaction ends. *)
finish(p) ==
  /\ run[p] = "work" /\ batch[p] = {} /\ to(p, "none")
  /\ \E S \in SUBSET {t \in Tasks : state[t] \in Terminal} : Purge(S)
  /\ lock' = released(p) /\ outran' = outran \ {p}
  /\ UNCHANGED <<process, batch, runner, faults>>

-----------------------------------------------------------------------------
(* SIGTERM: the timers stop. *)
stop(p) == /\ process[p] = "up" /\ process' = [process EXCEPT ![p] = "stopping"] /\ fault
           /\ UNCHANGED <<state, tries, run, lock, batch, runner, outran>>

(* Seeded defect: the process ends without waiting for its runs. *)
exit_AtOnce(p) == /\ process[p] = "stopping"
                  /\ process' = [process EXCEPT ![p] = "down"]
                  /\ to(p, "none") /\ lock' = released(p)
                  /\ batch' = [batch EXCEPT ![p] = {}] /\ outran' = outran \ {p}
                  /\ UNCHANGED <<state, tries, runner, faults>>

exit(p) == /\ process[p] = "stopping" /\ run[p] = "none"
           /\ process' = [process EXCEPT ![p] = "down"]
           /\ UNCHANGED <<state, tries, run, lock, batch, runner, faults, outran>>

(* Seeded defect: the lock outlives the process that held it. *)
crash_KeepsLock(p) ==
  /\ process[p] # "down" /\ process' = [process EXCEPT ![p] = "down"] /\ fault
  /\ IF holds(p) = {} THEN UNCHANGED <<state, tries>> ELSE \E t \in holds(p) : Lose(t)
  /\ runner' = [t \in Tasks |-> IF runner[t] = p THEN NoProc ELSE runner[t]]
  /\ to(p, "none") /\ batch' = [batch EXCEPT ![p] = {}] /\ outran' = outran \ {p}
  /\ UNCHANGED lock

(* A crash: the database ends the transaction, and the lock with it. *)
crash(p) ==
  /\ process[p] # "down" /\ process' = [process EXCEPT ![p] = "down"] /\ fault
  /\ IF holds(p) = {} THEN UNCHANGED <<state, tries>> ELSE \E t \in holds(p) : Lose(t)
  /\ runner' = [t \in Tasks |-> IF runner[t] = p THEN NoProc ELSE runner[t]]
  /\ to(p, "none") /\ batch' = [batch EXCEPT ![p] = {}] /\ outran' = outran \ {p}
  /\ lock' = released(p)

(* The process is supervised. *)
restart(p) == /\ process[p] = "down" /\ process' = [process EXCEPT ![p] = "up"]
              /\ UNCHANGED <<state, tries, run, lock, batch, runner, faults, outran>>

step(p) == \/ tryLock(p) \/ recover(p) \/ fetch(p) \/ report(p) \/ finish(p) \/ exit(p)
           \/ \E t \in Tasks : take(p, t)

JobNext == \/ \E t \in Tasks : enqueueTask(t)
           \/ \E p \in Procs : \/ tick(p) \/ step(p) \/ transactionExpires(p) \/ reportFails(p)
                               \/ stop(p) \/ crash(p) \/ restart(p)

(* Timers fire, a run goes on - a handler has a deadline, so an attempt    *)
(* ends -, and a process that is down is started again.                    *)
JobFairness == \A p \in Procs : WF_jobVars(tick(p)) /\ WF_jobVars(step(p)) /\ WF_jobVars(restart(p))

JobSpec == JobInit /\ [][JobNext]_jobVars /\ JobFairness

-----------------------------------------------------------------------------
Steps == {"none", "locking", "recover", "fetch", "work", "attempt"}

JobTypeOK == /\ TypeOK
             /\ process \in [Procs -> {"up", "stopping", "down"}] /\ run \in [Procs -> Steps]
             /\ lock \in Procs \cup {NoProc} /\ batch \in [Procs -> SUBSET Tasks]
             /\ runner \in [Tasks -> Procs \cup {NoProc}] /\ faults \in 0 .. MaxFaults
             /\ outran \subseteq Procs

(* A scheduled job is run by one process at a time unless a run outlived   *)
(* its lock; and a row that is being processed has its runner: a process   *)
(* that stops does not leave a job half-done.                              *)
NoRunIsCutOff ==
  /\ Cardinality({p \in Procs : run[p] \notin {"none", "locking"}} \ outran) <= 1
  /\ \A t \in Tasks : state[t] = "held" => runner[t] # NoProc /\ run[runner[t]] = "attempt"

(* The processes keep what TaskLifecycle promises, its fairness included:  *)
(* every waiting task is taken, every lost one is recovered, and attempts  *)
(* are not cut short for ever.                                             *)
KeepsTheLifecycle == FairSpec
=============================================================================
