----------------------------- MODULE TaskOutbox -----------------------------
(***************************************************************************)
(* The transactional outbox: backend/src/outbox/{store,drain,retry-policy} *)
(* over the task_outbox table.                                             *)
(*                                                                         *)
(* Any number of drain passes run at once, each an async function that     *)
(* gives way at every database statement, so every statement is an action  *)
(* of its own.  All processes read one clock.  A pass reads it once        *)
(* (passNow: what is due, which leases are stale) and once more for every  *)
(* attempt (since: when the attempt starts, what a retry is counted from). *)
(*                                                                         *)
(* Abstracted: payloads and error texts; the order of the rows inside one  *)
(* batch (any order); the metrics.  A row id is a number that grows with   *)
(* every insert under the same key and a processing token is a number that *)
(* is never handed out twice for that key, for uuids that never repeat.    *)
(* A stamp of a row is kept while the code may read it: due (scheduledFor) *)
(* until the row is terminal, touched (updatedAt) while it is processing,  *)
(* settled (processedAt) while it is terminal.                             *)
(***************************************************************************)
EXTENDS Integers, FiniteSets

CONSTANTS Tasks,        \* (type, dedupeKey) pairs, all of a type with a handler
          Drains,       \* drain passes that may be in progress at once
          MaxAttempts,  \* per task, the entry's maxAttempts
          Limit,        \* rows fetched per loop (TASK_OUTBOX_BATCH_LIMIT)
          MaxLoops,     \* refills of the batch in one pass
          MaxRuntime,   \* budget of one pass
          LeaseStale,   \* configured lease, before the floor
          Deadline,     \* the slowest handler's deadline
          Stall,        \* longest delay between a claim's commit and its handler
          Retention,    \* how long terminal rows are kept
          BaseDelay,    \* first retry delay
          MaxDelay,     \* cap of the retry delay, before jitter
          Cooldown,     \* the window two attempts must not share
          NoTask,
          MaxTime,      \* bound: the clock stops here
          MaxFaults     \* bound: crashes and failed writes

ASSUME NoTaskAssumption == NoTask \notin Tasks
ASSUME MaxAttemptsAssumption == MaxAttempts \in [Tasks -> Nat \ {0}]
ASSUME BudgetsAssumption == /\ Limit \in Nat /\ MaxLoops \in Nat /\ MaxRuntime \in Nat
                            /\ Retention \in Nat /\ MaxTime \in Nat /\ MaxFaults \in Nat
(* A claim comes back well inside one deadline (15s).                      *)
ASSUME TimingAssumption == /\ LeaseStale \in Nat \ {0} /\ Deadline \in Nat \ {0}
                           /\ Stall \in 0 .. Deadline
ASSUME DelaysAssumption == /\ BaseDelay \in Nat \ {0} /\ MaxDelay \in Nat \ {0}
                           /\ MaxDelay <= 16 * BaseDelay
                           /\ Cooldown \in Nat

VARIABLES now, rows, minted, pc, passNow, loop, batch, snapId, snapAttempts,
          cur, token, attempt, since, outcome, lastStart, faults

passVars == <<passNow, loop, batch, snapId, snapAttempts>>
runVars == <<cur, token, attempt, since, outcome>>
vars == <<now, rows, minted, pc, passNow, loop, batch, snapId, snapAttempts,
          cur, token, attempt, since, outcome, lastStart, faults>>

terminalStatuses == {"done", "skipped", "failed"}
Statuses == {"absent", "pending", "processing"} \cup terminalStatuses
Pcs == {"idle", "recover", "scan", "claimed", "run", "report", "sweep"}
NoToken == 0
Never == -1

Row == [id : Nat, status : Statuses, attempts : Nat, token : Nat, due : Nat,
        touched : Nat, settled : Nat]

absentRow(id) == [id |-> id, status |-> "absent", attempts |-> 0, token |-> NoToken,
                  due |-> 0, touched |-> 0, settled |-> 0]
pendingRow(id, attempts, due) ==
    [id |-> id, status |-> "pending", attempts |-> attempts, token |-> NoToken,
     due |-> due, touched |-> 0, settled |-> 0]
claimedRow(row, tok) ==
    [id |-> row.id, status |-> "processing", attempts |-> row.attempts, token |-> tok,
     due |-> row.due, touched |-> now, settled |-> 0]
terminalRow(id, status, attempts, at) ==
    [id |-> id, status |-> status, attempts |-> attempts, token |-> NoToken,
     due |-> 0, touched |-> 0, settled |-> at]

-----------------------------------------------------------------------------
(* retry-policy.ts *)

Least(a, b) == IF a <= b THEN a ELSE b

(* 2 ** (n - 1) up to where MaxDelay takes over (DelaysAssumption).        *)
growth(n) == CASE n = 1 -> 1 [] n = 2 -> 2 [] n = 3 -> 4 [] n = 4 -> 8 [] OTHER -> 16

(* Seeded defect: classic equal jitter, which halves the delay.            *)
nextAttemptDelays_EqualJitter(n) ==
    LET capped == Least(BaseDelay * growth(n), MaxDelay)
    IN  (capped \div 2) .. capped

(* Doubling from BaseDelay, capped; jitter adds up to half, never          *)
(* subtracts.                                                              *)
nextAttemptDelays(n) ==
    LET capped == Least(BaseDelay * growth(n), MaxDelay)
    IN  capped .. (capped + capped \div 2)

(* Seeded defect: one attempt too many.                                    *)
isFinalAttempt_OffByOne(n, t) == n > MaxAttempts[t]

isFinalAttempt(n, t) == n >= MaxAttempts[t]

(* Seeded defect: the configured lease is taken as it is.                  *)
resolveLeaseStale_NoFloor == LeaseStale

resolveLeaseStale == IF LeaseStale >= 2 * Deadline THEN LeaseStale ELSE 2 * Deadline

-----------------------------------------------------------------------------

Init == /\ now = 0
        /\ rows = [t \in Tasks |-> absentRow(0)]
        /\ minted = [t \in Tasks |-> NoToken]
        /\ pc = [d \in Drains |-> "idle"]
        /\ passNow = [d \in Drains |-> 0]
        /\ loop = [d \in Drains |-> 0]
        /\ batch = [d \in Drains |-> {}]
        /\ snapId = [d \in Drains |-> [t \in Tasks |-> 0]]
        /\ snapAttempts = [d \in Drains |-> [t \in Tasks |-> 0]]
        /\ cur = [d \in Drains |-> NoTask]
        /\ token = [d \in Drains |-> NoToken]
        /\ attempt = [d \in Drains |-> 0]
        /\ since = [d \in Drains |-> 0]
        /\ outcome = [d \in Drains |-> "none"]
        /\ lastStart = [t \in Tasks |-> Never]
        /\ faults = 0

(* The clock.  A handler does not outlive its deadline (withDeadline), and *)
(* a claimed row is started promptly.  Everything else may stall.          *)
Tick == /\ now < MaxTime
        /\ \A d \in Drains : /\ pc[d] = "claimed" => now < since[d] + Stall
                             /\ pc[d] = "run" => now < since[d] + Deadline
        /\ now' = now + 1
        /\ UNCHANGED <<rows, minted, pc, passVars, runVars, lastStart, faults>>

(* insertTask: one row per key.  Enqueueing a key whose row exists changes *)
(* nothing, so it is not a step.                                           *)
insertTask(t) ==
    /\ rows[t].status = "absent"
    /\ rows' = [rows EXCEPT ![t] = pendingRow(rows[t].id + 1, 0, now)]
    /\ lastStart' = [lastStart EXCEPT ![t] = Never]
    /\ UNCHANGED <<now, minted, pc, passVars, runVars, faults>>

beginPass(d) ==
    /\ pc[d] = "idle"
    /\ pc' = [pc EXCEPT ![d] = "recover"]
    /\ passNow' = [passNow EXCEPT ![d] = now]
    /\ loop' = [loop EXCEPT ![d] = 0]
    /\ UNCHANGED <<now, rows, minted, batch, snapId, snapAttempts, runVars, lastStart, faults>>

leaseIsStale(t, at) == rows[t].status = "processing" /\ rows[t].touched + resolveLeaseStale < at

(* The row is due at the pass clock and keeps its attempts.                *)
recoveredRow(row, at) == pendingRow(row.id, row.attempts, at)

recoverStaleLeases(d) ==
    /\ pc[d] = "recover"
    /\ pc' = [pc EXCEPT ![d] = "scan"]
    /\ rows' = [t \in Tasks |->
                  IF leaseIsStale(t, passNow[d])
                  THEN recoveredRow(rows[t], passNow[d])
                  ELSE rows[t]]
    /\ UNCHANGED <<now, minted, passVars, runVars, lastStart, faults>>

claimable(at) == {t \in Tasks : rows[t].status = "pending" /\ rows[t].due <= at}

withinBudget(d) == now < passNow[d] + MaxRuntime

(* At most Limit rows, the ones that came due first.                       *)
Batches(at) ==
    {B \in SUBSET claimable(at) :
        /\ Cardinality(B) = Least(Limit, Cardinality(claimable(at)))
        /\ \A s \in B, t \in claimable(at) \ B : rows[s].due <= rows[t].due}

mayFetch(d) == /\ loop[d] < MaxLoops
               /\ withinBudget(d)
               /\ claimable(passNow[d]) # {}

(* The pass keeps the attempts it read here until it claims the row.       *)
findClaimableTasks(d) ==
    /\ pc[d] = "scan" /\ batch[d] = {}
    /\ mayFetch(d)
    /\ \E B \in Batches(passNow[d]) :
         /\ batch' = [batch EXCEPT ![d] = B]
         /\ snapId' = [snapId EXCEPT ![d] = [t \in Tasks |-> IF t \in B THEN rows[t].id ELSE 0]]
         /\ snapAttempts' = [snapAttempts EXCEPT ![d] =
                               [t \in Tasks |-> IF t \in B THEN rows[t].attempts ELSE 0]]
    /\ loop' = [loop EXCEPT ![d] = @ + 1]
    /\ UNCHANGED <<now, rows, minted, pc, passNow, runVars, lastStart, faults>>

mayClaim(d, t) == /\ rows[t].id = snapId[d][t]
                  /\ rows[t].status = "pending"
                  /\ rows[t].due <= passNow[d]

claimTask(d, t) ==
    /\ pc[d] = "scan" /\ t \in batch[d]
    /\ withinBudget(d)
    /\ mayClaim(d, t)
    /\ batch' = [batch EXCEPT ![d] = @ \ {t}]
    /\ minted' = [minted EXCEPT ![t] = @ + 1]
    /\ rows' = [rows EXCEPT ![t] = claimedRow(rows[t], minted[t] + 1)]
    /\ pc' = [pc EXCEPT ![d] = "claimed"]
    /\ cur' = [cur EXCEPT ![d] = t]
    /\ token' = [token EXCEPT ![d] = minted[t] + 1]
    /\ attempt' = [attempt EXCEPT ![d] = snapAttempts[d][t] + 1]
    /\ since' = [since EXCEPT ![d] = now]
    /\ UNCHANGED <<now, passNow, loop, snapId, snapAttempts, outcome, lastStart, faults>>

(* The update matched nothing: another pass was faster.  Next candidate.   *)
claimLost(d, t) ==
    /\ pc[d] = "scan" /\ t \in batch[d]
    /\ withinBudget(d)
    /\ ~mayClaim(d, t)
    /\ batch' = [batch EXCEPT ![d] = @ \ {t}]
    /\ UNCHANGED <<now, rows, minted, pc, passNow, loop, snapId, snapAttempts, runVars,
                   lastStart, faults>>

(* The attempt's own clock is read after the claim came back.              *)
startHandler(d) ==
    /\ pc[d] = "claimed"
    /\ pc' = [pc EXCEPT ![d] = "run"]
    /\ since' = [since EXCEPT ![d] = now]
    /\ lastStart' = [lastStart EXCEPT ![cur[d]] = now]
    /\ UNCHANGED <<now, rows, minted, passVars, cur, token, attempt, outcome, faults>>

(* Nothing returned counts as done.                                        *)
handlerReturns(d) ==
    /\ pc[d] = "run"
    /\ pc' = [pc EXCEPT ![d] = "report"]
    /\ \E o \in {"done", "skipped"} : outcome' = [outcome EXCEPT ![d] = o]
    /\ UNCHANGED <<now, rows, minted, passVars, cur, token, attempt, since, lastStart, faults>>

(* An error or the deadline is retried unless this was the last attempt; a *)
(* TerminalTaskError gives up at once.                                     *)
handlerThrows(d) ==
    /\ pc[d] = "run"
    /\ pc' = [pc EXCEPT ![d] = "report"]
    /\ \E terminal \in BOOLEAN :
         outcome' = [outcome EXCEPT ![d] =
                       IF terminal \/ isFinalAttempt(attempt[d], cur[d]) THEN "failed" ELSE "retry"]
    /\ UNCHANGED <<now, rows, minted, passVars, cur, token, attempt, since, lastStart, faults>>

(* Seeded defect: the completing write is not fenced on the token.         *)
owns_Unfenced(d, t) == rows[t].status = "processing"

owns(d, t) == rows[t].status = "processing" /\ rows[t].token = token[d]

(* The locals of runClaimedTask end with it.                               *)
forgetRun(d) == /\ cur' = [cur EXCEPT ![d] = NoTask]
                /\ token' = [token EXCEPT ![d] = NoToken]
                /\ attempt' = [attempt EXCEPT ![d] = 0]
                /\ since' = [since EXCEPT ![d] = 0]
                /\ outcome' = [outcome EXCEPT ![d] = "none"]

(* The row as completeTask leaves it; a retry is due at nextAt.            *)
settledRow(d, id, nextAt) ==
    IF outcome[d] = "retry" THEN pendingRow(id, attempt[d], nextAt)
                            ELSE terminalRow(id, outcome[d], attempt[d], since[d])

(* Seeded defect: a retry is counted from the start of the pass.           *)
retriedFrom_PassClock(d) == passNow[d]

(* A retry is counted from the start of its attempt.                       *)
retriedFrom(d) == since[d]

(* One write, fenced on the token.  It matches nothing when the lease went *)
(* stale and the row was handed back.                                      *)
completeTask(d) ==
    /\ pc[d] = "report"
    /\ IF owns(d, cur[d])
       THEN \E delay \in nextAttemptDelays(attempt[d]) :
              rows' = [rows EXCEPT ![cur[d]] =
                         settledRow(d, rows[cur[d]].id, retriedFrom(d) + delay)]
       ELSE UNCHANGED rows
    /\ pc' = [pc EXCEPT ![d] = "scan"]
    /\ forgetRun(d)
    /\ UNCHANGED <<now, minted, passVars, lastStart, faults>>

(* The write itself failed: swallowed, and the row stays processing.       *)
completeTaskFails(d) ==
    /\ pc[d] = "report"
    /\ faults < MaxFaults
    /\ faults' = faults + 1
    /\ pc' = [pc EXCEPT ![d] = "scan"]
    /\ forgetRun(d)
    /\ UNCHANGED <<now, rows, minted, passVars, lastStart>>

(* The locals of a pass end with it.                                       *)
forgetPass(d) == /\ passNow' = [passNow EXCEPT ![d] = 0]
                 /\ loop' = [loop EXCEPT ![d] = 0]
                 /\ batch' = [batch EXCEPT ![d] = {}]
                 /\ snapId' = [snapId EXCEPT ![d] = [t \in Tasks |-> 0]]
                 /\ snapAttempts' = [snapAttempts EXCEPT ![d] = [t \in Tasks |-> 0]]

endLoops(d) ==
    /\ pc[d] = "scan"
    /\ \/ batch[d] = {} /\ ~mayFetch(d)
       \/ ~withinBudget(d)
    /\ IF withinBudget(d)
       THEN pc' = [pc EXCEPT ![d] = "sweep"] /\ UNCHANGED passVars
       ELSE pc' = [pc EXCEPT ![d] = "idle"] /\ forgetPass(d)
    /\ UNCHANGED <<now, rows, minted, runVars, lastStart, faults>>

(* Read, then delete by id.  A terminal row cannot change in between and   *)
(* ids are not reused, so the two statements are one step.                 *)
deleteExpiredTasks(d) ==
    /\ pc[d] = "sweep"
    /\ pc' = [pc EXCEPT ![d] = "idle"]
    /\ forgetPass(d)
    /\ rows' = [t \in Tasks |->
                  IF rows[t].status \in terminalStatuses /\ rows[t].settled + Retention < passNow[d]
                  THEN absentRow(rows[t].id)
                  ELSE rows[t]]
    /\ UNCHANGED <<now, minted, runVars, lastStart, faults>>

(* The process dies, or a statement outside the fenced write throws out of *)
(* the pass: whatever it held stays as it is in the table.                 *)
crash(d) ==
    /\ pc[d] # "idle"
    /\ faults < MaxFaults
    /\ faults' = faults + 1
    /\ pc' = [pc EXCEPT ![d] = "idle"]
    /\ forgetPass(d)
    /\ forgetRun(d)
    /\ UNCHANGED <<now, rows, minted, lastStart>>

pass(d) == \/ beginPass(d)
           \/ recoverStaleLeases(d)
           \/ findClaimableTasks(d)
           \/ \E t \in Tasks : claimTask(d, t) \/ claimLost(d, t)
           \/ startHandler(d)
           \/ handlerReturns(d)
           \/ handlerThrows(d)
           \/ completeTask(d)
           \/ completeTaskFails(d)
           \/ endLoops(d)
           \/ deleteExpiredTasks(d)
           \/ crash(d)

Next == \/ Tick
        \/ \E t \in Tasks : insertTask(t)
        \/ \E d \in Drains : pass(d)

Spec == Init /\ [][Next]_vars
-----------------------------------------------------------------------------

TypeOK ==
    /\ now \in Nat
    /\ rows \in [Tasks -> Row]
    /\ minted \in [Tasks -> Nat]
    /\ pc \in [Drains -> Pcs]
    /\ passNow \in [Drains -> Nat]
    /\ loop \in [Drains -> Nat]
    /\ batch \in [Drains -> SUBSET Tasks]
    /\ snapId \in [Drains -> [Tasks -> Nat]]
    /\ snapAttempts \in [Drains -> [Tasks -> Nat]]
    /\ cur \in [Drains -> Tasks \cup {NoTask}]
    /\ token \in [Drains -> Nat]
    /\ attempt \in [Drains -> Nat]
    /\ since \in [Drains -> Nat]
    /\ outcome \in [Drains -> {"none", "done", "skipped", "retry", "failed"}]
    /\ lastStart \in [Tasks -> Nat \cup {Never}]
    /\ faults \in Nat

(* Two handlers never work on the same row inside their deadlines: a lease *)
(* can not expire under a runner that is still entitled to it.  This is    *)
(* what the floor under the configured lease is for (retry-policy.ts,      *)
(* resolveLeaseStaleMs).                                                   *)
NoConcurrentAttempts ==
    \A c, d \in Drains : pc[c] = "run" /\ pc[d] = "run" /\ cur[c] = cur[d] => c = d

Busy == {"claimed", "run", "report"}

Holds(d, t) == /\ pc[d] \in Busy /\ cur[d] = t
               /\ rows[t].status = "processing" /\ rows[t].token = token[d]

(* A row is numbered by the attempts a pass read BEFORE it claimed the     *)
(* row, and another pass may have claimed, failed and released the row in  *)
(* between.  Whoever holds a row nevertheless works on the attempt that    *)
(* follows the last recorded one: a row that went back to pending after    *)
(* the read is due after the clock the reader claims by.                   *)
HolderHasFreshAttempt ==
    \A d \in Drains, t \in Tasks : Holds(d, t) => attempt[d] = rows[t].attempts + 1

(* The strengthening that makes the two invariants above inductive.        *)

ClocksAreRead == \A d \in Drains : passNow[d] <= now /\ since[d] <= now

TokensAreFresh == /\ \A t \in Tasks : rows[t].token <= minted[t]
                  /\ \A d \in Drains : pc[d] \in Busy => token[d] \in 1 .. minted[cur[d]]

TokensAreUnique ==
    \A c, d \in Drains :
       pc[c] \in Busy /\ pc[d] \in Busy /\ cur[c] = cur[d] /\ token[c] = token[d] => c = d

(* What a pass read is still true of any row it can still claim; a row     *)
(* claimed by another since was touched after this pass read its clock.    *)
SnapshotsAreSafe ==
    \A d \in Drains :
       /\ pc[d] \in {"idle", "recover"} => batch[d] = {}
       /\ \A t \in batch[d] :
            /\ snapId[d][t] <= rows[t].id
            /\ snapId[d][t] = rows[t].id =>
                 /\ rows[t].status = "pending" /\ rows[t].due <= passNow[d] =>
                       rows[t].attempts = snapAttempts[d][t]
                 /\ rows[t].status = "processing" => passNow[d] <= rows[t].touched

HoldersReadTheClockLater ==
    \A d \in Drains, t \in Tasks : Holds(d, t) => rows[t].touched <= since[d]

(* Inside its deadline a runner still holds its row.                       *)
RunnersKeepTheirRow ==
    \A d \in Drains :
       /\ pc[d] = "claimed" =>
            /\ Holds(d, cur[d])
            /\ since[d] = rows[cur[d]].touched
            /\ now <= since[d] + Stall
       /\ pc[d] = "run" =>
            /\ Holds(d, cur[d])
            /\ since[d] <= rows[cur[d]].touched + Stall
            /\ now <= since[d] + Deadline

LeaseInv == /\ ClocksAreRead
            /\ TokensAreFresh
            /\ TokensAreUnique
            /\ SnapshotsAreSafe
            /\ HoldersReadTheClockLater
            /\ RunnersKeepTheirRow
            /\ HolderHasFreshAttempt

(* A processing row changes only by the report of the pass whose token it  *)
(* carries, or by lease recovery after the lease really ran out; a pass    *)
(* that lost its row writes nothing over the result of the one that did    *)
(* the work.                                                               *)
OnlyHolderOrExpiry ==
    [][\A t \in Tasks :
         rows[t].status = "processing" /\ rows'[t] # rows[t] =>
            \/ \E d \in Drains : pc[d] = "report" /\ Holds(d, t) /\ pc'[d] # "report"
            \/ rows[t].touched + resolveLeaseStale < now]_vars

(* The settings under which attempts are spaced: the retry delays outlast  *)
(* the cooldown, and so does the lease by a slow claim.  The defaults do   *)
(* (120s and 120s against 60s and at most 15s); an operator's own lease    *)
(* may not (it counts as 30s at least, and the cooldown is 60s).           *)
SettingsOutlastCooldown == /\ Cooldown < BaseDelay /\ Cooldown < MaxDelay
                           /\ \/ Cooldown + Stall <= LeaseStale
                              \/ Cooldown + Stall <= 2 * Deadline

(* Two attempts at one row never start within Cooldown of each other,      *)
(* whatever ended the first: its failure, its deadline or a crash.  A      *)
(* password reset retried inside its cooldown would be taken for a         *)
(* repeated request, skipped, and the link lost.                           *)
AttemptsAreSpaced ==
    [][\A d \in Drains :
         pc[d] = "claimed" /\ pc'[d] = "run" =>
            \/ lastStart[cur[d]] = Never
            \/ now - lastStart[cur[d]] > Cooldown]_vars

Held(t) == \E d \in Drains : Holds(d, t)

(* The refinement mapping onto the life of a task.                         *)
lifeOf(t) == CASE rows[t].status = "pending" -> "waiting"
               [] rows[t].status = "processing" -> IF Held(t) THEN "held" ELSE "lost"
               [] OTHER -> rows[t].status

lives == [t \in Tasks |-> lifeOf(t)]
recorded == [t \in Tasks |-> rows[t].attempts]

Lifecycle == INSTANCE TaskLifecycle WITH state <- lives, tries <- recorded

(* Drains, leases and tokens implement the promised life of every task:    *)
(* no step of any pass, late or early, takes a row where TaskLifecycle     *)
(* does not, and a row given up on has spent its grant or met an error no  *)
(* retry can change.                                                       *)
ImplementsLifecycle == Lifecycle!Spec
=============================================================================
