-------------------------- MODULE TaskOutboxProofs --------------------------
(***************************************************************************)
(* Proofs about TaskOutbox for every number of tasks, drains, clock value  *)
(* and setting that satisfies the assumptions of that module.              *)
(***************************************************************************)
EXTENDS TaskOutbox, TLAPS

(* Every retry delay is a positive number: jitter never takes a delay back *)
(* to zero (nextAttemptDelayMs).                                           *)
LEMMA DelaysArePositive ==
    ASSUME NEW n \in Nat, NEW delay \in nextAttemptDelays(n)
    PROVE  delay \in Nat \ {0}
<1>1. growth(n) \in Nat \ {0}
  BY DEF growth
<1>2. Least(BaseDelay * growth(n), MaxDelay) \in Nat \ {0}
  <2>1. BaseDelay * growth(n) \in Nat \ {0}
    BY <1>1, DelaysAssumption
  <2> QED BY <2>1, DelaysAssumption DEF Least
<1> QED BY <1>2 DEF nextAttemptDelays

(* The lease outlasts a slow claim and the slowest handler together.       *)
LEMMA LeaseOutlastsAttempt ==
    /\ resolveLeaseStale \in Nat
    /\ Stall + Deadline <= resolveLeaseStale
BY TimingAssumption DEF resolveLeaseStale

-----------------------------------------------------------------------------

(* A pass in the middle of a task knows which one, and has an outcome when *)
(* it comes to report one.                                                 *)
RunsAreWellFormed ==
    \A d \in Drains : /\ pc[d] \in Busy => cur[d] \in Tasks
                      /\ pc[d] = "report" => outcome[d] # "none"

TypeInv == TypeOK /\ RunsAreWellFormed

LEMMA TypeInvInit == Init => TypeInv
BY NoTaskAssumption DEF Init, TypeInv, TypeOK, RunsAreWellFormed, Row, Statuses,
   terminalStatuses, Pcs, NoToken, Never, Busy, absentRow

LEMMA TypeInvStep == TypeInv /\ [Next]_vars => TypeInv'
<1> SUFFICES ASSUME TypeInv, [Next]_vars PROVE TypeInv'
  OBVIOUS
<1> USE DEF TypeInv, TypeOK, RunsAreWellFormed, Row, Statuses, terminalStatuses, Pcs, NoToken, Busy,
            absentRow, pendingRow, claimedRow, terminalRow
<1>1. CASE Tick
  BY <1>1 DEF Tick, passVars, runVars
<1>2. ASSUME NEW t \in Tasks, insertTask(t) PROVE TypeInv'
  BY <1>2 DEF insertTask, passVars, runVars
<1>3. ASSUME NEW d \in Drains, pass(d) PROVE TypeInv'
  <2>1. CASE beginPass(d)
    BY <2>1 DEF beginPass, runVars
  <2>2. CASE recoverStaleLeases(d)
    <3>1. rows' \in [Tasks -> Row]
      BY <2>2 DEF recoverStaleLeases, recoveredRow
    <3> QED BY <2>2, <3>1 DEF recoverStaleLeases, passVars, runVars
  <2>3. CASE findClaimableTasks(d)
    BY <2>3 DEF findClaimableTasks, Batches, claimable, runVars
  <2>4. ASSUME NEW t \in Tasks, claimTask(d, t) PROVE TypeInv'
    <3>1. claimedRow(rows[t], minted[t] + 1) \in Row
      OBVIOUS
    <3> QED BY <2>4, <3>1 DEF claimTask
  <2>5. CASE startHandler(d)
    BY <2>5 DEF startHandler, passVars
  <2>6. CASE handlerReturns(d)
    BY <2>6 DEF handlerReturns, passVars
  <2>7. CASE handlerThrows(d)
    BY <2>7 DEF handlerThrows, passVars
  <2>8. CASE completeTask(d)
    <3>1. cur[d] \in Tasks /\ outcome[d] \in {"done", "skipped", "retry", "failed"}
      BY <2>8 DEF completeTask
    <3>2. ASSUME NEW delay \in nextAttemptDelays(attempt[d])
          PROVE  settledRow(d, rows[cur[d]].id, retriedFrom(d) + delay) \in Row
      <4>1. delay \in Nat
        BY <3>2, DelaysArePositive
      <4> QED BY <3>1, <4>1 DEF settledRow, retriedFrom
    <3>3. rows' \in [Tasks -> Row]
      <4>1. CASE owns(d, cur[d])
        <5>1. PICK delay \in nextAttemptDelays(attempt[d]) :
                rows' = [rows EXCEPT ![cur[d]] =
                           settledRow(d, rows[cur[d]].id, retriedFrom(d) + delay)]
          BY <2>8, <4>1 DEF completeTask
        <5> QED BY <3>1, <3>2, <5>1
      <4>2. CASE ~owns(d, cur[d])
        BY <2>8, <4>2 DEF completeTask
      <4> QED BY <4>1, <4>2
    <3> QED BY <2>8, <3>3 DEF completeTask, forgetRun, passVars
  <2>9. CASE completeTaskFails(d)
    BY <2>9 DEF completeTaskFails, forgetRun, passVars
  <2>10. CASE endLoops(d)
    <3>1. CASE withinBudget(d)
      BY <2>10, <3>1 DEF endLoops, runVars, passVars
    <3>2. CASE ~withinBudget(d)
      <4>1. /\ pc' = [pc EXCEPT ![d] = "idle"]
            /\ forgetPass(d)
            /\ UNCHANGED <<now, rows, minted, runVars, lastStart, faults>>
        BY <2>10, <3>2 DEF endLoops
      <4> QED BY <4>1 DEF forgetPass, runVars
    <3> QED BY <3>1, <3>2
  <2>11. CASE deleteExpiredTasks(d)
    <3>1. rows' \in [Tasks -> Row]
      BY <2>11 DEF deleteExpiredTasks
    <3> QED BY <2>11, <3>1 DEF deleteExpiredTasks, forgetPass, runVars
  <2>12. CASE crash(d)
    BY <2>12 DEF crash, forgetPass, forgetRun
  <2>13. ASSUME NEW t \in Tasks, claimLost(d, t) PROVE TypeInv'
    BY <2>13 DEF claimLost, runVars
  <2> QED BY <1>3, <2>1, <2>2, <2>3, <2>4, <2>5, <2>6, <2>7, <2>8, <2>9, <2>10, <2>11, <2>12, <2>13
          DEF pass
<1>4. CASE UNCHANGED vars
  BY <1>4 DEF vars
<1> QED BY <1>1, <1>2, <1>3, <1>4 DEF Next

(* Every reachable state is well typed.                                    *)
THEOREM TypeCorrect == Spec => []TypeOK
<1>1. TypeInv => TypeOK
  BY DEF TypeInv
<1> QED BY <1>1, TypeInvInit, TypeInvStep, PTL DEF Spec

-----------------------------------------------------------------------------

LEMMA LeaseInvInit == Init => LeaseInv
BY NoTaskAssumption DEF Init, LeaseInv, ClocksAreRead, TokensAreFresh, TokensAreUnique,
   SnapshotsAreSafe, HoldersReadTheClockLater, RunnersKeepTheirRow, HolderHasFreshAttempt,
   Holds, Busy, NoToken, absentRow

(* Every statement of every pass keeps the invariant, whatever the other   *)
(* passes are in the middle of.                                            *)
LEMMA LeaseInvStep == TypeInv /\ TypeInv' /\ LeaseInv /\ [Next]_vars => LeaseInv'
<1> SUFFICES ASSUME TypeInv, TypeInv', LeaseInv, [Next]_vars PROVE LeaseInv'
  OBVIOUS
<1>a. rows \in [Tasks -> Row] /\ minted \in [Tasks -> Nat] /\ pc \in [Drains -> Pcs]
  BY DEF TypeInv, TypeOK
<1>b. now \in Nat /\ passNow \in [Drains -> Nat] /\ since \in [Drains -> Nat]
  BY DEF TypeInv, TypeOK
<1>c. batch \in [Drains -> SUBSET Tasks] /\ cur \in [Drains -> Tasks \cup {NoTask}]
  BY DEF TypeInv, TypeOK
<1>d. /\ token \in [Drains -> Nat] /\ attempt \in [Drains -> Nat]
      /\ \A d \in Drains : pc[d] \in Busy => cur[d] \in Tasks
  BY DEF TypeInv, TypeOK, RunsAreWellFormed
<1>e. snapId \in [Drains -> [Tasks -> Nat]] /\ snapAttempts \in [Drains -> [Tasks -> Nat]]
  BY DEF TypeInv, TypeOK
<1> USE DEF LeaseInv, ClocksAreRead, TokensAreFresh, TokensAreUnique, SnapshotsAreSafe,
            HoldersReadTheClockLater, RunnersKeepTheirRow, HolderHasFreshAttempt, Holds, Busy,
            TypeInv, TypeOK, RunsAreWellFormed, Row, Pcs
<1>1. CASE Tick
  BY <1>1, TimingAssumption DEF Tick, passVars, runVars
<1>2. ASSUME NEW t \in Tasks, insertTask(t) PROVE LeaseInv'
  BY <1>2 DEF insertTask, passVars, runVars, pendingRow, NoToken
<1>3. ASSUME NEW d \in Drains, pass(d) PROVE LeaseInv'
  <2>1. CASE beginPass(d)
    BY <2>1 DEF beginPass, runVars
  <2>2. CASE recoverStaleLeases(d)
    <3>1. \A t \in Tasks :
             \/ /\ rows[t].status = "processing"
                /\ rows[t].touched + resolveLeaseStale < passNow[d]
                /\ rows'[t] = pendingRow(rows[t].id, rows[t].attempts, passNow[d])
             \/ rows'[t] = rows[t]
      BY <2>2 DEF recoverStaleLeases, leaseIsStale, recoveredRow
    <3>2. /\ pc[d] = "recover" /\ pc' = [pc EXCEPT ![d] = "scan"]
          /\ UNCHANGED <<now, minted, passVars, runVars, lastStart, faults>>
      BY <2>2 DEF recoverStaleLeases
    <3>3. \A t \in Tasks :
             /\ rows'[t].id = rows[t].id /\ rows'[t].attempts = rows[t].attempts
             /\ rows'[t].token \in {0, rows[t].token}
             /\ \/ /\ rows[t].status = "processing" /\ rows'[t].status = "pending"
                   /\ rows[t].touched + resolveLeaseStale < passNow[d]
                   /\ rows'[t].due = passNow[d]
                \/ rows'[t] = rows[t]
      BY <3>1 DEF pendingRow, NoToken
    <3> HIDE DEF LeaseInv, ClocksAreRead, TokensAreFresh, TokensAreUnique, SnapshotsAreSafe,
                 HoldersReadTheClockLater, RunnersKeepTheirRow, HolderHasFreshAttempt, Holds, Busy,
                 TypeInv, TypeOK, RunsAreWellFormed, Row, Pcs
    <3> USE DEF passVars, runVars
    <3>4. ClocksAreRead'
      BY <1>a, <1>b, <1>c, <1>d, <3>2, <3>3, LeaseOutlastsAttempt DEF LeaseInv, ClocksAreRead, Row
    <3>5. TokensAreFresh'
      BY <1>a, <1>b, <1>c, <1>d, <3>2, <3>3, LeaseOutlastsAttempt DEF LeaseInv, TokensAreFresh, Busy, Row
    <3>6. TokensAreUnique'
      BY <1>a, <1>b, <1>c, <1>d, <3>2, <3>3, LeaseOutlastsAttempt DEF LeaseInv, TokensAreUnique, TokensAreFresh, Busy, Row
    <3>7. SnapshotsAreSafe'
      <4>1. ASSUME NEW c \in Drains PROVE pc'[c] \in {"idle", "recover"} => batch'[c] = {}
        BY <1>a, <1>c, <3>2, <3>3, LeaseOutlastsAttempt DEF LeaseInv, SnapshotsAreSafe
      <4>2. ASSUME NEW c \in Drains, NEW t \in batch'[c]
           PROVE  /\ snapId'[c][t] <= rows'[t].id
                  /\ snapId'[c][t] = rows'[t].id =>
                       /\ rows'[t].status = "pending" /\ rows'[t].due <= passNow'[c] =>
                             rows'[t].attempts = snapAttempts'[c][t]
                       /\ rows'[t].status = "processing" => passNow'[c] <= rows'[t].touched
        <5>1. /\ t \in Tasks /\ t \in batch[c] /\ passNow'[c] = passNow[c]
              /\ snapId'[c] = snapId[c] /\ snapAttempts'[c] = snapAttempts[c]
          BY <1>b, <1>c, <1>e, <4>2, <3>2, <3>3, LeaseOutlastsAttempt
        <5>2. /\ snapId[c][t] <= rows[t].id
              /\ snapId[c][t] = rows[t].id =>
                   /\ rows[t].status = "pending" /\ rows[t].due <= passNow[c] =>
                         rows[t].attempts = snapAttempts[c][t]
                   /\ rows[t].status = "processing" => passNow[c] <= rows[t].touched
          BY <5>1 DEF LeaseInv, SnapshotsAreSafe
        <5>3. /\ rows[t].touched \in Nat /\ rows[t].due \in Nat /\ rows[t].id \in Nat
              /\ passNow[c] \in Nat /\ snapId[c][t] \in Nat /\ since \in [Drains -> Nat]
          BY <1>a, <1>b, <1>e, <5>1 DEF Row
        <5>4. CASE rows'[t] = rows[t]
          BY <5>1, <5>2, <5>4
        <5>5. CASE rows'[t] # rows[t]
          <6>1. /\ rows'[t].id = rows[t].id /\ rows[t].status = "processing"
                /\ rows'[t].status = "pending" /\ rows'[t].due = passNow[d]
                /\ rows[t].touched + resolveLeaseStale < passNow[d]
            BY <5>1, <5>5, <3>3
          <6>2. passNow[d] \in Nat /\ resolveLeaseStale \in Nat
            BY <1>b, LeaseOutlastsAttempt
          <6> QED BY <5>1, <5>2, <5>3, <6>1, <6>2
        <5> QED BY <5>4, <5>5
      <4> QED BY <4>1, <4>2 DEF SnapshotsAreSafe
    <3>8. HoldersReadTheClockLater'
      BY <1>a, <1>b, <1>c, <1>d, <3>2, <3>3, LeaseOutlastsAttempt DEF LeaseInv, HoldersReadTheClockLater, Holds, Busy, Row
    <3>9. RunnersKeepTheirRow'
      BY <1>a, <1>b, <1>c, <1>d, <3>2, <3>3, LeaseOutlastsAttempt, TimingAssumption DEF LeaseInv, RunnersKeepTheirRow, TokensAreUnique, ClocksAreRead, Holds, Busy, Row
    <3>10. HolderHasFreshAttempt'
      BY <1>a, <1>b, <1>c, <1>d, <3>2, <3>3, LeaseOutlastsAttempt DEF LeaseInv, HolderHasFreshAttempt, Holds, Busy, Row
    <3> QED BY <3>4, <3>5, <3>6, <3>7, <3>8, <3>9, <3>10 DEF LeaseInv
  <2>3. CASE findClaimableTasks(d)
    BY <2>3 DEF findClaimableTasks, Batches, claimable, runVars
  <2>4. ASSUME NEW t \in Tasks, claimTask(d, t) PROVE LeaseInv'
    BY <2>4, TimingAssumption DEF claimTask, mayClaim, claimedRow
  <2>5. CASE startHandler(d)
    BY <2>5, TimingAssumption DEF startHandler, passVars
  <2>6. CASE handlerReturns(d)
    BY <2>6 DEF handlerReturns, passVars
  <2>7. CASE handlerThrows(d)
    BY <2>7 DEF handlerThrows, passVars
  <2>8. CASE completeTask(d)
    <3>1. CASE owns(d, cur[d])
      <4>1. PICK delay \in nextAttemptDelays(attempt[d]) :
              rows' = [rows EXCEPT ![cur[d]] = settledRow(d, rows[cur[d]].id, retriedFrom(d) + delay)]
        BY <2>8, <3>1 DEF completeTask
      <4>2. delay \in Nat \ {0}
        BY <4>1, DelaysArePositive
      <4>3. /\ rows[cur[d]].status = "processing" /\ rows[cur[d]].token = token[d]
            /\ rows'[cur[d]].status # "processing"
            /\ rows'[cur[d]].id = rows[cur[d]].id /\ rows'[cur[d]].token = 0
            /\ rows'[cur[d]].status = "pending" => since[d] < rows'[cur[d]].due
            /\ \A t \in Tasks : t # cur[d] => rows'[t] = rows[t]
        <5>1. cur[d] \in Tasks /\ outcome[d] \in {"done", "skipped", "failed", "retry"}
          BY <2>8 DEF completeTask
        <5>2. CASE outcome[d] = "retry"
          BY <3>1, <4>1, <4>2, <5>1, <5>2 DEF owns, settledRow, retriedFrom, pendingRow, NoToken
        <5>3. CASE outcome[d] # "retry"
          BY <3>1, <4>1, <5>1, <5>3 DEF owns, settledRow, terminalRow, NoToken
        <5> QED BY <5>2, <5>3
      <4>4. pc' = [pc EXCEPT ![d] = "scan"] /\ forgetRun(d)
            /\ UNCHANGED <<now, minted, passVars, lastStart, faults>>
        BY <2>8 DEF completeTask
      <4>5. pc[d] = "report" /\ cur[d] \in Tasks
        BY <2>8 DEF completeTask
      <4> HIDE DEF LeaseInv, ClocksAreRead, TokensAreFresh, TokensAreUnique, SnapshotsAreSafe,
                 HoldersReadTheClockLater, RunnersKeepTheirRow, HolderHasFreshAttempt, Holds, Busy,
                 TypeInv, TypeOK, RunsAreWellFormed, Row, Pcs
      <4> USE DEF forgetRun, passVars
      <4>6. ClocksAreRead'
        BY <1>a, <1>b, <1>c, <1>d, <4>3, <4>4, <4>5 DEF LeaseInv, ClocksAreRead, Row
      <4>7. TokensAreFresh'
        BY <1>a, <1>b, <1>c, <1>d, <4>3, <4>4, <4>5 DEF LeaseInv, TokensAreFresh, Busy, Row
      <4>8. TokensAreUnique'
        BY <1>a, <1>b, <1>c, <1>d, <4>3, <4>4, <4>5 DEF LeaseInv, TokensAreUnique, TokensAreFresh, Busy, Row
      <4>9. SnapshotsAreSafe'
        <5>1. ASSUME NEW c \in Drains PROVE pc'[c] \in {"idle", "recover"} => batch'[c] = {}
          BY <1>a, <1>c, <4>3, <4>4, <4>5 DEF LeaseInv, SnapshotsAreSafe
        <5>2. ASSUME NEW c \in Drains, NEW t \in batch'[c]
             PROVE  /\ snapId'[c][t] <= rows'[t].id
                    /\ snapId'[c][t] = rows'[t].id =>
                         /\ rows'[t].status = "pending" /\ rows'[t].due <= passNow'[c] =>
                               rows'[t].attempts = snapAttempts'[c][t]
                         /\ rows'[t].status = "processing" => passNow'[c] <= rows'[t].touched
          <6>1. /\ t \in Tasks /\ t \in batch[c] /\ passNow'[c] = passNow[c]
                /\ snapId'[c] = snapId[c] /\ snapAttempts'[c] = snapAttempts[c]
            BY <1>b, <1>c, <1>e, <5>2, <4>3, <4>4, <4>5
          <6>2. /\ snapId[c][t] <= rows[t].id
                /\ snapId[c][t] = rows[t].id =>
                     /\ rows[t].status = "pending" /\ rows[t].due <= passNow[c] =>
                           rows[t].attempts = snapAttempts[c][t]
                     /\ rows[t].status = "processing" => passNow[c] <= rows[t].touched
            BY <6>1 DEF LeaseInv, SnapshotsAreSafe
          <6>3. /\ rows[t].touched \in Nat /\ rows[t].due \in Nat /\ rows[t].id \in Nat
                /\ passNow[c] \in Nat /\ snapId[c][t] \in Nat /\ since \in [Drains -> Nat]
            BY <1>a, <1>b, <1>e, <6>1 DEF Row
          <6>4. CASE t # cur[d]
            BY <6>1, <6>2, <6>4, <4>3
          <6>5. CASE t = cur[d]
            <7>1. rows[t].touched <= since[d] /\ since[d] \in Nat
              BY <6>1, <6>3, <6>5, <4>3, <4>5 DEF LeaseInv, HoldersReadTheClockLater, Holds, Busy
            <7>2. rows'[t].status = "pending" => since[d] < rows'[t].due
              BY <6>5, <4>3
            <7>3. rows'[t].due \in Nat
              BY <1>a, <6>1 DEF TypeInv, TypeOK, Row
            <7> QED BY <6>1, <6>2, <6>3, <6>5, <7>1, <7>2, <7>3, <4>3
          <6> QED BY <6>4, <6>5
        <5> QED BY <5>1, <5>2 DEF SnapshotsAreSafe
      <4>10. HoldersReadTheClockLater'
        BY <1>a, <1>b, <1>c, <1>d, <4>3, <4>4, <4>5 DEF LeaseInv, HoldersReadTheClockLater, Holds, Busy, Row
      <4>11. RunnersKeepTheirRow'
        BY <1>a, <1>b, <1>c, <1>d, <4>3, <4>4, <4>5, TimingAssumption DEF LeaseInv, RunnersKeepTheirRow, TokensAreUnique, ClocksAreRead, Holds, Busy, Row
      <4>12. HolderHasFreshAttempt'
        BY <1>a, <1>b, <1>c, <1>d, <4>3, <4>4, <4>5 DEF LeaseInv, HolderHasFreshAttempt, Holds, Busy, Row
      <4> QED BY <4>6, <4>7, <4>8, <4>9, <4>10, <4>11, <4>12 DEF LeaseInv
    <3>2. CASE ~owns(d, cur[d])
      BY <2>8, <3>2 DEF completeTask, forgetRun, passVars
    <3> QED BY <3>1, <3>2
  <2>9. CASE completeTaskFails(d)
    BY <2>9 DEF completeTaskFails, forgetRun, passVars
  <2>10. CASE endLoops(d)
    <3>1. CASE withinBudget(d)
      <4>1. /\ pc[d] = "scan" /\ pc' = [pc EXCEPT ![d] = "sweep"]
            /\ UNCHANGED <<now, rows, minted, passVars, runVars, lastStart, faults>>
        BY <2>10, <3>1 DEF endLoops
      <4> USE DEF runVars, passVars
      <4>2. ClocksAreRead'
        BY <4>1
      <4>3. TokensAreFresh'
        BY <4>1
      <4>4. TokensAreUnique'
        BY <4>1
      <4>5. SnapshotsAreSafe'
        BY <4>1
      <4>6. HoldersReadTheClockLater'
        BY <4>1
      <4>7. RunnersKeepTheirRow'
        BY <4>1
      <4>8. HolderHasFreshAttempt'
        BY <4>1
      <4> QED BY <4>2, <4>3, <4>4, <4>5, <4>6, <4>7, <4>8
    <3>2. CASE ~withinBudget(d)
      <4>1. /\ pc[d] = "scan" /\ pc' = [pc EXCEPT ![d] = "idle"]
            /\ forgetPass(d)
            /\ UNCHANGED <<now, rows, minted, runVars, lastStart, faults>>
        BY <2>10, <3>2 DEF endLoops
      <4> QED BY <4>1 DEF forgetPass, runVars
    <3> QED BY <3>1, <3>2
  <2>11. CASE deleteExpiredTasks(d)
    <3>1. \A t \in Tasks :
             \/ rows[t].status # "processing" /\ rows'[t] = absentRow(rows[t].id)
             \/ rows'[t] = rows[t]
      BY <2>11 DEF deleteExpiredTasks, terminalStatuses
    <3>2. /\ pc[d] = "sweep" /\ pc' = [pc EXCEPT ![d] = "idle"]
          /\ forgetPass(d)
          /\ UNCHANGED <<now, minted, runVars, lastStart, faults>>
      BY <2>11 DEF deleteExpiredTasks
    <3>3. \A t \in Tasks :
             /\ rows'[t].id = rows[t].id
             /\ rows'[t].token \in {0, rows[t].token}
             /\ \/ rows[t].status # "processing" /\ rows'[t].status = "absent"
                \/ rows'[t] = rows[t]
      BY <3>1 DEF absentRow, NoToken
    <3> HIDE DEF LeaseInv, ClocksAreRead, TokensAreFresh, TokensAreUnique, SnapshotsAreSafe,
                 HoldersReadTheClockLater, RunnersKeepTheirRow, HolderHasFreshAttempt, Holds, Busy,
                 TypeInv, TypeOK, RunsAreWellFormed, Row, Pcs
    <3> USE DEF forgetPass, runVars
    <3>4. ClocksAreRead'
      BY <1>a, <1>b, <1>c, <1>d, <3>2, <3>3 DEF LeaseInv, ClocksAreRead, Row
    <3>5. TokensAreFresh'
      BY <1>a, <1>b, <1>c, <1>d, <3>2, <3>3 DEF LeaseInv, TokensAreFresh, Busy, Row
    <3>6. TokensAreUnique'
      BY <1>a, <1>b, <1>c, <1>d, <3>2, <3>3 DEF LeaseInv, TokensAreUnique, TokensAreFresh, Busy, Row
    <3>7. SnapshotsAreSafe'
      <4>1. ASSUME NEW c \in Drains PROVE pc'[c] \in {"idle", "recover"} => batch'[c] = {}
        BY <1>a, <1>c, <3>2, <3>3 DEF LeaseInv, SnapshotsAreSafe
      <4>2. ASSUME NEW c \in Drains, NEW t \in batch'[c]
           PROVE  /\ snapId'[c][t] <= rows'[t].id
                  /\ snapId'[c][t] = rows'[t].id =>
                       /\ rows'[t].status = "pending" /\ rows'[t].due <= passNow'[c] =>
                             rows'[t].attempts = snapAttempts'[c][t]
                       /\ rows'[t].status = "processing" => passNow'[c] <= rows'[t].touched
        <5>1. /\ t \in Tasks /\ t \in batch[c] /\ passNow'[c] = passNow[c]
              /\ snapId'[c] = snapId[c] /\ snapAttempts'[c] = snapAttempts[c]
          BY <1>b, <1>c, <1>e, <4>2, <3>2, <3>3
        <5>2. /\ snapId[c][t] <= rows[t].id
              /\ snapId[c][t] = rows[t].id =>
                   /\ rows[t].status = "pending" /\ rows[t].due <= passNow[c] =>
                         rows[t].attempts = snapAttempts[c][t]
                   /\ rows[t].status = "processing" => passNow[c] <= rows[t].touched
          BY <5>1 DEF LeaseInv, SnapshotsAreSafe
        <5>3. /\ rows[t].touched \in Nat /\ rows[t].due \in Nat /\ rows[t].id \in Nat
              /\ passNow[c] \in Nat /\ snapId[c][t] \in Nat /\ since \in [Drains -> Nat]
          BY <1>a, <1>b, <1>e, <5>1 DEF Row
        <5> QED BY <5>1, <5>2, <5>3, <3>2, <3>3
      <4> QED BY <4>1, <4>2 DEF SnapshotsAreSafe
    <3>8. HoldersReadTheClockLater'
      BY <1>a, <1>b, <1>c, <1>d, <3>2, <3>3 DEF LeaseInv, HoldersReadTheClockLater, Holds, Busy, Row
    <3>9. RunnersKeepTheirRow'
      BY <1>a, <1>b, <1>c, <1>d, <3>2, <3>3, TimingAssumption DEF LeaseInv, RunnersKeepTheirRow, TokensAreUnique, ClocksAreRead, Holds, Busy, Row
    <3>10. HolderHasFreshAttempt'
      BY <1>a, <1>b, <1>c, <1>d, <3>2, <3>3 DEF LeaseInv, HolderHasFreshAttempt, Holds, Busy, Row
    <3> QED BY <3>4, <3>5, <3>6, <3>7, <3>8, <3>9, <3>10 DEF LeaseInv
  <2>12. CASE crash(d)
    BY <2>12 DEF crash, forgetPass, forgetRun
  <2>13. ASSUME NEW t \in Tasks, claimLost(d, t) PROVE LeaseInv'
    BY <2>13 DEF claimLost, runVars
  <2> QED BY <1>3, <2>1, <2>2, <2>3, <2>4, <2>5, <2>6, <2>7, <2>8, <2>9, <2>10, <2>11, <2>12, <2>13
          DEF pass
<1>4. CASE UNCHANGED vars
  BY <1>4 DEF vars
<1> QED BY <1>1, <1>2, <1>3, <1>4 DEF Next

-----------------------------------------------------------------------------

(* The tokens, the snapshots, the clocks and the leases of all passes stay *)
(* consistent: the inductive invariant behind the two theorems below.      *)
THEOREM LeaseInvariant == Spec => []LeaseInv
<1>1. Init => TypeInv /\ LeaseInv
  BY TypeInvInit, LeaseInvInit
<1>2. TypeInv /\ LeaseInv /\ [Next]_vars => (TypeInv /\ LeaseInv)'
  BY TypeInvStep, LeaseInvStep
<1> QED BY <1>1, <1>2, PTL DEF Spec

(* The attempt a pass numbers a claimed row with, taken from a read that   *)
(* preceded the claim, is never stale, for any number of passes, settings  *)
(* and interleavings.                                                      *)
THEOREM AttemptsAreFresh == Spec => []HolderHasFreshAttempt
<1>1. LeaseInv => HolderHasFreshAttempt
  BY DEF LeaseInv
<1> QED BY <1>1, LeaseInvariant, PTL

(* With the lease floored at twice the slowest deadline, no two handlers   *)
(* are ever inside their deadlines on one row (resolveLeaseStaleMs).       *)
THEOREM AttemptsAreExclusive == Spec => []NoConcurrentAttempts
<1>1. LeaseInv => NoConcurrentAttempts
  BY DEF LeaseInv, NoConcurrentAttempts, RunnersKeepTheirRow, TokensAreUnique, Holds, Busy
<1> QED BY <1>1, LeaseInvariant, PTL

-----------------------------------------------------------------------------

(* A processing row changes only by the report of the pass that holds it   *)
(* or by the recovery of a lease that really ran out, whatever the pass    *)
(* clocks of the recovering passes are (completeTask, recoverStaleLeases). *)
LEMMA OnlyHolderOrExpiryStep ==
    ASSUME TypeInv, LeaseInv, [Next]_vars, NEW t \in Tasks,
           rows[t].status = "processing", rows'[t] # rows[t]
    PROVE  \/ \E d \in Drains : pc[d] = "report" /\ Holds(d, t) /\ pc'[d] # "report"
           \/ rows[t].touched + resolveLeaseStale < now
<1>1. /\ rows \in [Tasks -> Row] /\ pc \in [Drains -> Pcs]
      /\ now \in Nat /\ passNow \in [Drains -> Nat]
  BY DEF TypeInv, TypeOK
<1>2. ~UNCHANGED rows
  OBVIOUS
<1>3. ~Tick /\ ~UNCHANGED vars
  BY <1>2 DEF Tick, vars
<1>4. ASSUME NEW s \in Tasks PROVE ~insertTask(s)
  <2>1. SUFFICES ASSUME insertTask(s) PROVE FALSE
    OBVIOUS
  <2>2. rows[s].status = "absent" /\ rows' = [rows EXCEPT ![s] = pendingRow(rows[s].id + 1, 0, now)]
    BY <2>1 DEF insertTask
  <2> QED BY <1>1, <2>2
<1>5. PICK d \in Drains : pass(d)
  BY <1>3, <1>4 DEF Next
<1>6. CASE recoverStaleLeases(d)
  <2>1. leaseIsStale(t, passNow[d])
    BY <1>1, <1>6 DEF recoverStaleLeases
  <2>2. passNow[d] <= now
    BY DEF LeaseInv, ClocksAreRead
  <2>3. rows[t].touched \in Nat /\ passNow[d] \in Nat /\ resolveLeaseStale \in Nat
    BY <1>1, LeaseOutlastsAttempt DEF Row
  <2> QED BY <1>1, <2>1, <2>2, <2>3 DEF leaseIsStale
<1>7. ASSUME NEW s \in Tasks, claimTask(d, s) PROVE FALSE
  <2>1. rows[s].status = "pending" /\ rows' = [rows EXCEPT ![s] = claimedRow(rows[s], minted[s] + 1)]
    BY <1>7 DEF claimTask, mayClaim
  <2> QED BY <1>1, <2>1
<1>8. CASE completeTask(d)
  <2>1. owns(d, cur[d])
    BY <1>2, <1>8 DEF completeTask
  <2>2. PICK row : rows' = [rows EXCEPT ![cur[d]] = row]
    BY <1>8, <2>1 DEF completeTask
  <2>3. cur[d] = t
    BY <1>1, <2>2
  <2>4. pc[d] = "report" /\ pc'[d] # "report"
    BY <1>1, <1>8 DEF completeTask
  <2> QED BY <2>1, <2>3, <2>4 DEF owns, Holds, Busy
<1>9. ~deleteExpiredTasks(d)
  BY DEF deleteExpiredTasks, terminalStatuses
<1>10. /\ ~beginPass(d) /\ ~findClaimableTasks(d) /\ ~startHandler(d) /\ ~handlerReturns(d)
       /\ ~handlerThrows(d) /\ ~completeTaskFails(d) /\ ~endLoops(d) /\ ~crash(d)
       /\ \A s \in Tasks : ~claimLost(d, s)
  BY <1>2 DEF beginPass, findClaimableTasks, startHandler, handlerReturns, handlerThrows,
              completeTaskFails, endLoops, crash, claimLost
<1> QED BY <1>5, <1>6, <1>7, <1>8, <1>9, <1>10 DEF pass

(* No pass writes over a row that another pass is still entitled to.       *)
THEOREM RowsHaveOneWriter == Spec => OnlyHolderOrExpiry
<1>1. Init => TypeInv /\ LeaseInv
  BY TypeInvInit, LeaseInvInit
<1>2. TypeInv /\ LeaseInv /\ [Next]_vars => (TypeInv /\ LeaseInv)'
  BY TypeInvStep, LeaseInvStep
<1>3. TypeInv /\ LeaseInv /\ [Next]_vars =>
        [\A t \in Tasks :
           rows[t].status = "processing" /\ rows'[t] # rows[t] =>
              \/ \E d \in Drains : pc[d] = "report" /\ Holds(d, t) /\ pc'[d] # "report"
              \/ rows[t].touched + resolveLeaseStale < now]_vars
  BY OnlyHolderOrExpiryStep
<1> QED BY <1>1, <1>2, <1>3, PTL DEF Spec, OnlyHolderOrExpiry

-----------------------------------------------------------------------------

(* The last start of an attempt lies Cooldown before the row comes due, or *)
(* inside the lease of the claim it belongs to; and a claim that has not   *)
(* started yet came Cooldown after the start before it.                    *)
WaitingIsSpaced ==
    \A t \in Tasks : lastStart[t] # Never =>
        /\ rows[t].status = "pending" => lastStart[t] + Cooldown < rows[t].due
        /\ rows[t].status = "processing" => lastStart[t] <= rows[t].touched + Stall

ClaimsAreSpaced ==
    \A d \in Drains : pc[d] = "claimed" /\ lastStart[cur[d]] # Never =>
        lastStart[cur[d]] + Cooldown < since[d]

HoldersStartedLast ==
    \A d \in Drains, t \in Tasks :
        Holds(d, t) /\ pc[d] \in {"run", "report"} => lastStart[t] = since[d]

SpacingInv == WaitingIsSpaced /\ ClaimsAreSpaced /\ HoldersStartedLast

LEMMA SpacingInvInit == Init => SpacingInv
BY DEF Init, SpacingInv, WaitingIsSpaced, ClaimsAreSpaced, HoldersStartedLast, Holds, Busy, Never

(* Every retry delay outlasts the cooldown.                                *)
LEMMA DelaysOutlastCooldown ==
    ASSUME SettingsOutlastCooldown, NEW n \in Nat, NEW delay \in nextAttemptDelays(n)
    PROVE  Cooldown < delay
<1>1. growth(n) \in {1, 2, 4, 8, 16}
  BY DEF growth
<1>2. BaseDelay * growth(n) \in Nat /\ BaseDelay <= BaseDelay * growth(n)
  BY <1>1, DelaysAssumption
<1>3. /\ Least(BaseDelay * growth(n), MaxDelay) \in Nat
      /\ Cooldown < Least(BaseDelay * growth(n), MaxDelay)
  BY <1>2, DelaysAssumption DEF Least, SettingsOutlastCooldown
<1> QED BY <1>3, DelaysAssumption DEF nextAttemptDelays

LEMMA SpacingInvStep ==
    ASSUME SettingsOutlastCooldown, TypeInv, TypeInv', LeaseInv, SpacingInv, [Next]_vars
    PROVE  SpacingInv'
<1>a. /\ rows \in [Tasks -> Row] /\ pc \in [Drains -> Pcs] /\ now \in Nat
      /\ passNow \in [Drains -> Nat] /\ since \in [Drains -> Nat]
      /\ cur \in [Drains -> Tasks \cup {NoTask}] /\ token \in [Drains -> Nat]
      /\ lastStart \in [Tasks -> Nat \cup {Never}]
      /\ \A d \in Drains : pc[d] \in Busy => cur[d] \in Tasks
      /\ minted \in [Tasks -> Nat] /\ attempt \in [Drains -> Nat]
  BY DEF TypeInv, TypeOK, RunsAreWellFormed
<1>b. Stall \in Nat /\ Cooldown \in Nat /\ resolveLeaseStale \in Nat
      /\ Cooldown + Stall <= resolveLeaseStale
  BY TimingAssumption, DelaysAssumption DEF SettingsOutlastCooldown, resolveLeaseStale
<1>c. /\ ClocksAreRead /\ TokensAreFresh /\ TokensAreUnique /\ RunnersKeepTheirRow
      /\ WaitingIsSpaced /\ ClaimsAreSpaced /\ HoldersStartedLast
  BY DEF LeaseInv, SpacingInv
<1> USE DEF SpacingInv, WaitingIsSpaced, ClaimsAreSpaced, HoldersStartedLast, Holds, Busy, Never, Row
<1>1. CASE Tick
  BY <1>1, <1>a, <1>c DEF Tick, passVars, runVars
<1>2. ASSUME NEW t \in Tasks, insertTask(t) PROVE SpacingInv'
  BY <1>2, <1>a, <1>c DEF insertTask, passVars, runVars, pendingRow, RunnersKeepTheirRow
<1>3. ASSUME NEW d \in Drains, pass(d) PROVE SpacingInv'
  <2>1. CASE beginPass(d)
    BY <2>1, <1>a, <1>c DEF beginPass, runVars
  <2>2. CASE recoverStaleLeases(d)
    <3>1. \A t \in Tasks :
             \/ /\ rows[t].status = "processing"
                /\ rows[t].touched + resolveLeaseStale < passNow[d]
                /\ rows'[t].status = "pending" /\ rows'[t].due = passNow[d]
             \/ rows'[t] = rows[t]
      BY <2>2, <1>a DEF recoverStaleLeases, leaseIsStale, recoveredRow, pendingRow
    <3>2. /\ pc[d] = "recover" /\ pc' = [pc EXCEPT ![d] = "scan"]
          /\ UNCHANGED <<cur, token, since, lastStart>>
      BY <2>2 DEF recoverStaleLeases, runVars
    <3>3. WaitingIsSpaced'
      <4> SUFFICES ASSUME NEW t \in Tasks, lastStart[t] # Never
                   PROVE  /\ rows'[t].status = "pending" => lastStart[t] + Cooldown < rows'[t].due
                          /\ rows'[t].status = "processing" => lastStart[t] <= rows'[t].touched + Stall
        BY <3>2
      <4>1. lastStart[t] \in Nat /\ rows[t].touched \in Nat /\ passNow[d] \in Nat
        BY <1>a
      <4> QED BY <4>1, <3>1, <1>b, <1>c
    <3>4. ClaimsAreSpaced' /\ HoldersStartedLast'
      BY <3>1, <3>2, <1>a, <1>c
    <3> QED BY <3>3, <3>4
  <2>3. CASE findClaimableTasks(d)
    BY <2>3, <1>a, <1>c DEF findClaimableTasks, runVars
  <2>4. ASSUME NEW t \in Tasks, claimTask(d, t) PROVE SpacingInv'
    <3>1. /\ pc[d] = "scan" /\ rows[t].status = "pending" /\ rows[t].due <= passNow[d]
          /\ rows' = [rows EXCEPT ![t] = claimedRow(rows[t], minted[t] + 1)]
          /\ pc' = [pc EXCEPT ![d] = "claimed"] /\ cur' = [cur EXCEPT ![d] = t]
          /\ token' = [token EXCEPT ![d] = minted[t] + 1]
          /\ since' = [since EXCEPT ![d] = now] /\ UNCHANGED <<now, lastStart>>
      BY <2>4 DEF claimTask, mayClaim
    <3>2. /\ rows'[t].status = "processing" /\ rows'[t].touched = now
          /\ rows'[t].token = minted[t] + 1
          /\ \A s \in Tasks : s # t => rows'[s] = rows[s]
      BY <3>1, <1>a DEF claimedRow
    <3>3. lastStart[t] # Never => lastStart[t] \in Nat /\ lastStart[t] + Cooldown < now
      BY <3>1, <1>a, <1>b, <1>c DEF ClocksAreRead
    <3>4. WaitingIsSpaced'
      BY <3>1, <3>2, <3>3, <1>a, <1>b, <1>c
    <3>5. ClaimsAreSpaced'
      <4> SUFFICES ASSUME NEW c \in Drains, pc'[c] = "claimed", lastStart[cur'[c]] # Never
                   PROVE  lastStart[cur'[c]] + Cooldown < since'[c]
        BY <3>1
      <4> QED BY <3>1, <3>3, <1>a, <1>c
    <3>6. HoldersStartedLast'
      <4> SUFFICES ASSUME NEW c \in Drains, NEW s \in Tasks, Holds(c, s)',
                          pc'[c] \in {"run", "report"}
                   PROVE  lastStart[s] = since'[c]
        BY <3>1
      <4>1. c # d /\ pc[c] = pc'[c] /\ cur[c] = s /\ token[c] = token'[c] /\ since'[c] = since[c]
        BY <3>1, <1>a
      <4>2. s # t
        BY <4>1, <3>1, <3>2, <1>a, <1>c DEF TokensAreFresh
      <4> QED BY <4>1, <4>2, <3>2, <1>a, <1>c
    <3> QED BY <3>4, <3>5, <3>6
  <2>5. CASE startHandler(d)
    <3>1. /\ pc[d] = "claimed" /\ pc' = [pc EXCEPT ![d] = "run"]
          /\ since' = [since EXCEPT ![d] = now]
          /\ lastStart' = [lastStart EXCEPT ![cur[d]] = now]
          /\ UNCHANGED <<now, rows, cur, token>>
      BY <2>5 DEF startHandler
    <3>2. cur[d] \in Tasks /\ Holds(d, cur[d]) /\ now <= rows[cur[d]].touched + Stall
      BY <3>1, <1>a, <1>c DEF RunnersKeepTheirRow
    <3>3. WaitingIsSpaced'
      BY <3>1, <3>2, <1>a, <1>c
    <3>4. \A c \in Drains : Holds(c, cur[d]) => c = d
      BY <3>1, <3>2, <1>a, <1>c DEF TokensAreUnique
    <3>5. ClaimsAreSpaced'
      BY <3>1, <3>2, <3>4, <1>a, <1>c DEF RunnersKeepTheirRow
    <3>6. HoldersStartedLast'
      BY <3>1, <3>2, <3>4, <1>a, <1>c
    <3> QED BY <3>3, <3>5, <3>6
  <2>6. CASE handlerReturns(d)
    BY <2>6, <1>a, <1>c DEF handlerReturns
  <2>7. CASE handlerThrows(d)
    BY <2>7, <1>a, <1>c DEF handlerThrows
  <2>8. CASE completeTask(d)
    <3>1. /\ pc[d] = "report" /\ pc' = [pc EXCEPT ![d] = "scan"] /\ cur[d] \in Tasks
          /\ cur' = [cur EXCEPT ![d] = NoTask] /\ token' = [token EXCEPT ![d] = NoToken]
          /\ since' = [since EXCEPT ![d] = 0] /\ UNCHANGED <<now, lastStart>>
      BY <2>8, <1>a DEF completeTask, forgetRun
    <3>2. ASSUME NEW t \in Tasks
          PROVE  \/ rows'[t] = rows[t]
                 \/ /\ t = cur[d] /\ owns(d, t) /\ rows'[t].status # "processing"
                    /\ rows'[t].status = "pending" =>
                          \E delay \in nextAttemptDelays(attempt[d]) : rows'[t].due = since[d] + delay
      <4>1. CASE ~owns(d, cur[d])
        BY <2>8, <4>1 DEF completeTask
      <4>2. CASE owns(d, cur[d])
        <5>1. PICK delay \in nextAttemptDelays(attempt[d]) :
                rows' = [rows EXCEPT ![cur[d]] = settledRow(d, rows[cur[d]].id, retriedFrom(d) + delay)]
          BY <2>8, <4>2 DEF completeTask
        <5>2. CASE t # cur[d]
          BY <5>1, <5>2, <1>a
        <5>3. CASE t = cur[d]
          <6>1. rows'[t] = settledRow(d, rows[t].id, retriedFrom(d) + delay)
            BY <5>1, <5>3, <1>a
          <6>2. outcome[d] \in {"done", "skipped", "retry", "failed"}
            BY <3>1 DEF TypeInv, TypeOK, RunsAreWellFormed
          <6>3. CASE outcome[d] = "retry"
            BY <4>2, <5>3, <6>1, <6>3 DEF settledRow, pendingRow, retriedFrom
          <6>4. CASE outcome[d] # "retry"
            BY <4>2, <5>3, <6>1, <6>2, <6>4 DEF settledRow, terminalRow
          <6> QED BY <6>3, <6>4
        <5> QED BY <5>2, <5>3
      <4> QED BY <4>1, <4>2
    <3>3. WaitingIsSpaced'
      <4> SUFFICES ASSUME NEW t \in Tasks, lastStart[t] # Never
                   PROVE  /\ rows'[t].status = "pending" => lastStart[t] + Cooldown < rows'[t].due
                          /\ rows'[t].status = "processing" => lastStart[t] <= rows'[t].touched + Stall
        BY <3>1
      <4>1. CASE rows'[t] = rows[t]
        BY <4>1, <1>c
      <4>2. CASE rows'[t] # rows[t]
        <5>1. t = cur[d] /\ owns(d, t) /\ rows'[t].status # "processing"
          BY <3>2, <4>2
        <5>2. lastStart[t] = since[d]
          BY <5>1, <3>1, <1>c DEF owns
        <5>3. ASSUME rows'[t].status = "pending" PROVE lastStart[t] + Cooldown < rows'[t].due
          <6>1. PICK delay \in nextAttemptDelays(attempt[d]) : rows'[t].due = since[d] + delay
            BY <3>2, <4>2, <5>3
          <6>2. delay \in Nat /\ Cooldown < delay
            BY <1>a, DelaysArePositive, DelaysOutlastCooldown
          <6> QED BY <5>2, <6>1, <6>2, <1>a, <1>b
        <5> QED BY <5>1, <5>3
      <4> QED BY <4>1, <4>2
    <3>4. ClaimsAreSpaced'
      BY <3>1, <1>a, <1>c
    <3>5. HoldersStartedLast'
      BY <3>1, <3>2, <1>a, <1>c
    <3> QED BY <3>3, <3>4, <3>5
  <2>9. CASE completeTaskFails(d)
    BY <2>9, <1>a, <1>c DEF completeTaskFails, forgetRun
  <2>10. CASE endLoops(d)
    <3>1. pc[d] = "scan" /\ pc' \in {[pc EXCEPT ![d] = "sweep"], [pc EXCEPT ![d] = "idle"]}
          /\ UNCHANGED <<rows, cur, token, since, lastStart>>
      BY <2>10 DEF endLoops, runVars
    <3> QED BY <3>1, <1>a, <1>c
  <2>11. CASE deleteExpiredTasks(d)
    <3>1. \A t \in Tasks : \/ rows'[t].status = "absent"
                           \/ rows'[t] = rows[t]
      BY <2>11, <1>a DEF deleteExpiredTasks, absentRow
    <3>2. pc[d] = "sweep" /\ pc' = [pc EXCEPT ![d] = "idle"]
          /\ UNCHANGED <<cur, token, since, lastStart>>
      BY <2>11 DEF deleteExpiredTasks, runVars
    <3> QED BY <3>1, <3>2, <1>a, <1>c
  <2>12. CASE crash(d)
    BY <2>12, <1>a, <1>c DEF crash, forgetRun
  <2>13. ASSUME NEW t \in Tasks, claimLost(d, t) PROVE SpacingInv'
    BY <2>13, <1>a, <1>c DEF claimLost, runVars
  <2> QED BY <1>3, <2>1, <2>2, <2>3, <2>4, <2>5, <2>6, <2>7, <2>8, <2>9, <2>10, <2>11, <2>12, <2>13
          DEF pass
<1>4. CASE UNCHANGED vars
  BY <1>4, <1>c DEF vars
<1> QED BY <1>1, <1>2, <1>3, <1>4 DEF Next

(* Only startHandler takes a pass from its claim to its handler.           *)
LEMMA StartsAreSpaced ==
    ASSUME TypeInv, LeaseInv, SpacingInv, [Next]_vars,
           NEW d \in Drains, pc[d] = "claimed", pc'[d] = "run"
    PROVE  lastStart[cur[d]] = Never \/ now - lastStart[cur[d]] > Cooldown
<1>1. /\ cur[d] \in Tasks /\ lastStart[cur[d]] \in Nat \cup {Never}
      /\ since[d] \in Nat /\ now \in Nat /\ since[d] <= now
  BY DEF TypeInv, TypeOK, RunsAreWellFormed, Busy, LeaseInv, ClocksAreRead
<1>2. lastStart[cur[d]] # Never => lastStart[cur[d]] + Cooldown < since[d]
  BY DEF SpacingInv, ClaimsAreSpaced
<1> QED BY <1>1, <1>2, DelaysAssumption DEF Never

(* Attempts at one row keep the cooldown between them, whatever ended the  *)
(* first, as long as the delays and the lease outlast it.                  *)
THEOREM AttemptsKeepTheCooldown ==
    ASSUME SettingsOutlastCooldown
    PROVE  Spec => AttemptsAreSpaced
<1>1. Init => TypeInv /\ LeaseInv /\ SpacingInv
  BY TypeInvInit, LeaseInvInit, SpacingInvInit
<1>2. TypeInv /\ LeaseInv /\ SpacingInv /\ [Next]_vars => (TypeInv /\ LeaseInv /\ SpacingInv)'
  BY TypeInvStep, LeaseInvStep, SpacingInvStep
<1>3. TypeInv /\ LeaseInv /\ SpacingInv /\ [Next]_vars =>
        [\A d \in Drains :
           pc[d] = "claimed" /\ pc'[d] = "run" =>
              \/ lastStart[cur[d]] = Never
              \/ now - lastStart[cur[d]] > Cooldown]_vars
  BY StartsAreSpaced
<1> QED BY <1>1, <1>2, <1>3, PTL DEF Spec, AttemptsAreSpaced

-----------------------------------------------------------------------------

(* The step simulation: which step of TaskLifecycle every statement of a   *)
(* pass is, and that all others are none.                                  *)

(* A retry has been decided on only while the handler entry grants one     *)
(* more attempt.                                                           *)
RetriesAreGranted ==
    \A d \in Drains : pc[d] = "report" /\ outcome[d] = "retry" =>
        attempt[d] < MaxAttempts[cur[d]]

LEMMA RetriesAreGrantedStep ==
    ASSUME TypeInv, RetriesAreGranted, [Next]_vars
    PROVE  RetriesAreGranted'
<1>a. /\ pc \in [Drains -> Pcs] /\ attempt \in [Drains -> Nat] /\ MaxAttempts \in [Tasks -> Nat]
      /\ cur \in [Drains -> Tasks \cup {NoTask}]
      /\ outcome \in [Drains -> {"none", "done", "skipped", "retry", "failed"}]
      /\ \A d \in Drains : pc[d] \in Busy => cur[d] \in Tasks
  BY MaxAttemptsAssumption DEF TypeInv, TypeOK, RunsAreWellFormed
<1> USE DEF RetriesAreGranted
<1>1. CASE Tick
  BY <1>1, <1>a DEF Tick, runVars
<1>2. ASSUME NEW t \in Tasks, insertTask(t) PROVE RetriesAreGranted'
  BY <1>2, <1>a DEF insertTask, runVars
<1>3. ASSUME NEW d \in Drains, pass(d) PROVE RetriesAreGranted'
  <2>1. CASE beginPass(d) \/ recoverStaleLeases(d) \/ findClaimableTasks(d)
    BY <2>1, <1>a DEF beginPass, recoverStaleLeases, findClaimableTasks, runVars
  <2>2. ASSUME NEW t \in Tasks, claimTask(d, t) \/ claimLost(d, t) PROVE RetriesAreGranted'
    BY <2>2, <1>a DEF claimTask, claimLost, runVars
  <2>3. CASE startHandler(d) \/ handlerReturns(d)
    BY <2>3, <1>a DEF startHandler, handlerReturns
  <2>4. CASE handlerThrows(d)
    BY <2>4, <1>a DEF handlerThrows, isFinalAttempt, Busy
  <2>5. CASE completeTask(d) \/ completeTaskFails(d) \/ crash(d)
    BY <2>5, <1>a DEF completeTask, completeTaskFails, crash, forgetRun
  <2>6. CASE endLoops(d) \/ deleteExpiredTasks(d)
    BY <2>6, <1>a DEF endLoops, deleteExpiredTasks, runVars
  <2> QED BY <1>3, <2>1, <2>2, <2>3, <2>4, <2>5, <2>6 DEF pass
<1>4. CASE UNCHANGED vars
  BY <1>4 DEF vars
<1> QED BY <1>1, <1>2, <1>3, <1>4 DEF Next

(* Rows that stay as they are, in the hands they are in, are a stutter.    *)
LEMMA SameHandsStutter ==
    ASSUME UNCHANGED rows, \A t \in Tasks : Held(t)' <=> Held(t)
    PROVE  UNCHANGED Lifecycle!vars
<1>1. \A t \in Tasks : lifeOf(t)' = lifeOf(t)
  BY DEF lifeOf
<1>2. lives' = lives /\ recorded' = recorded
  BY <1>1 DEF lives, recorded
<1> QED BY <1>2 DEF Lifecycle!vars

(* While a pass stays inside or outside a run and keeps its locals, it     *)
(* holds what it held.                                                     *)
LEMMA SameRunsStutter ==
    ASSUME UNCHANGED <<rows, cur, token>>, \A d \in Drains : pc'[d] \in Busy <=> pc[d] \in Busy
    PROVE  UNCHANGED Lifecycle!vars
<1>1. \A t \in Tasks : Held(t)' <=> Held(t)
  BY DEF Held, Holds, Busy
<1> QED BY <1>1, SameHandsStutter

(* A run that ends without its write loses the row it held, if it still    *)
(* held one.                                                               *)
LEMMA RunLost ==
    ASSUME TypeInv, TokensAreUnique, UNCHANGED rows, NEW d \in Drains,
           pc' \in {[pc EXCEPT ![d] = "scan"], [pc EXCEPT ![d] = "idle"]}, forgetRun(d)
    PROVE  [Lifecycle!Next]_(Lifecycle!vars)
<1>1. /\ pc \in [Drains -> Pcs] /\ cur \in [Drains -> Tasks \cup {NoTask}]
      /\ token \in [Drains -> Nat] /\ \A c \in Drains : pc[c] \in Busy => cur[c] \in Tasks
  BY DEF TypeInv, TypeOK, RunsAreWellFormed
<1>2. /\ pc'[d] \notin Busy
      /\ \A c \in Drains : c # d => pc'[c] = pc[c] /\ cur'[c] = cur[c] /\ token'[c] = token[c]
  BY <1>1 DEF forgetRun, Busy
<1>3. \A t \in Tasks : Held(t)' <=> \E c \in Drains : c # d /\ Holds(c, t)
  BY <1>2 DEF Held, Holds
<1>4. CASE \A t \in Tasks : ~Holds(d, t)
  <2>1. \A t \in Tasks : Held(t)' <=> Held(t)
    BY <1>3, <1>4 DEF Held
  <2> QED BY <2>1, SameHandsStutter
<1>5. ASSUME NEW t \in Tasks, Holds(d, t) PROVE Lifecycle!Lose(t)
  <2>1. \A s \in Tasks : s # t => (Held(s)' <=> Held(s))
    BY <1>3, <1>5 DEF Held, Holds
  <2>2. Held(t) /\ ~Held(t)'
    BY <1>3, <1>5 DEF Held, Holds, TokensAreUnique
  <2>3. rows[t].status = "processing"
    BY <1>5 DEF Holds
  <2>4. lifeOf(t) = "held" /\ lifeOf(t)' = "lost"
    BY <2>2, <2>3 DEF lifeOf
  <2>5. \A s \in Tasks : s # t => lifeOf(s)' = lifeOf(s)
    BY <2>1 DEF lifeOf
  <2>6. lives' = [lives EXCEPT ![t] = "lost"] /\ recorded' = recorded
    BY <2>4, <2>5 DEF lives, recorded
  <2>7. lives[t] = "held"
    BY <2>4 DEF lives
  <2> QED BY <2>6, <2>7 DEF Lifecycle!Lose
<1> QED BY <1>4, <1>5 DEF Lifecycle!Next

(* Lease recovery takes its rows from whoever holds them, or from nobody.  *)
LEMMA RecoveryReclaims ==
    ASSUME TypeInv, NEW d \in Drains, recoverStaleLeases(d)
    PROVE  [Lifecycle!Next]_(Lifecycle!vars)
<1> DEFINE S == {t \in Tasks : leaseIsStale(t, passNow[d])}
<1>1. rows \in [Tasks -> Row] /\ pc \in [Drains -> Pcs]
  BY DEF TypeInv, TypeOK
<1>2. /\ pc[d] = "recover" /\ pc' = [pc EXCEPT ![d] = "scan"] /\ UNCHANGED <<cur, token>>
      /\ \A t \in Tasks : rows'[t] = IF t \in S THEN recoveredRow(rows[t], passNow[d]) ELSE rows[t]
  BY DEF recoverStaleLeases, runVars
<1>3. \A c \in Drains : pc'[c] \in Busy <=> pc[c] \in Busy
  BY <1>1, <1>2 DEF Busy
<1>4. ASSUME NEW t \in Tasks, t \in S
      PROVE  lifeOf(t) \in {"held", "lost"} /\ lifeOf(t)' = "waiting"
  <2>1. rows[t].status = "processing"
    BY <1>4 DEF leaseIsStale
  <2>2. rows'[t] = recoveredRow(rows[t], passNow[d])
    BY <1>2, <1>4
  <2>3. rows'[t].status = "pending"
    BY <2>2 DEF recoveredRow, pendingRow
  <2> QED BY <2>1, <2>3 DEF lifeOf
<1>5. ASSUME NEW t \in Tasks, t \notin S PROVE lifeOf(t)' = lifeOf(t)
  <2>1. rows'[t] = rows[t]
    BY <1>2, <1>5
  <2>2. Held(t)' <=> Held(t)
    BY <1>2, <1>3, <2>1 DEF Held, Holds
  <2> QED BY <2>1, <2>2 DEF lifeOf
<1>6. \A t \in Tasks : rows'[t].attempts = rows[t].attempts
  <2> SUFFICES ASSUME NEW t \in Tasks PROVE rows'[t].attempts = rows[t].attempts
    OBVIOUS
  <2>1. rows'[t] = recoveredRow(rows[t], passNow[d]) \/ rows'[t] = rows[t]
    BY <1>2
  <2>2. recoveredRow(rows[t], passNow[d]).attempts = rows[t].attempts
    BY DEF recoveredRow, pendingRow
  <2> QED BY <2>1, <2>2
<1>7. \A t \in S : lives[t] \in {"held", "lost"}
  BY <1>4 DEF lives
<1>8. lives' = [t \in Tasks |-> IF t \in S THEN "waiting" ELSE lives[t]]
  BY <1>4, <1>5 DEF lives
<1>9. recorded' = recorded
  BY <1>6 DEF recorded
<1>10. Lifecycle!Reclaim(S)
  BY <1>7, <1>8, <1>9 DEF Lifecycle!Reclaim
<1> QED BY <1>10 DEF Lifecycle!Next

(* The sweep purges concluded rows only.                                   *)
LEMMA SweepPurges ==
    ASSUME TypeInv, NEW d \in Drains, deleteExpiredTasks(d)
    PROVE  [Lifecycle!Next]_(Lifecycle!vars)
<1> DEFINE S == {t \in Tasks : rows[t].status \in terminalStatuses
                              /\ rows[t].settled + Retention < passNow[d]}
<1>1. rows \in [Tasks -> Row] /\ pc \in [Drains -> Pcs]
  BY DEF TypeInv, TypeOK
<1>2. /\ pc[d] = "sweep" /\ pc' = [pc EXCEPT ![d] = "idle"] /\ UNCHANGED <<cur, token>>
      /\ \A t \in Tasks : rows'[t] = IF t \in S THEN absentRow(rows[t].id) ELSE rows[t]
  BY DEF deleteExpiredTasks, runVars
<1>3. \A c \in Drains : pc'[c] \in Busy <=> pc[c] \in Busy
  BY <1>1, <1>2 DEF Busy
<1>4. ASSUME NEW t \in Tasks, t \in S
      PROVE  lifeOf(t) \in Lifecycle!Terminal /\ lifeOf(t)' = "absent" /\ rows'[t].attempts = 0
  <2>1. rows[t].status \in terminalStatuses
    BY <1>4
  <2>2. rows'[t] = absentRow(rows[t].id)
    BY <1>2, <1>4
  <2>3. rows'[t].status = "absent" /\ rows'[t].attempts = 0
    BY <2>2 DEF absentRow
  <2> QED BY <2>1, <2>3 DEF lifeOf, terminalStatuses, Lifecycle!Terminal
<1>5. ASSUME NEW t \in Tasks, t \notin S PROVE lifeOf(t)' = lifeOf(t) /\ rows'[t] = rows[t]
  <2>1. rows'[t] = rows[t]
    BY <1>2, <1>5
  <2>2. Held(t)' <=> Held(t)
    BY <1>2, <1>3, <2>1 DEF Held, Holds
  <2> QED BY <2>1, <2>2 DEF lifeOf
<1>6. \A t \in S : lives[t] \in Lifecycle!Terminal
  BY <1>4 DEF lives
<1>7. lives' = [t \in Tasks |-> IF t \in S THEN "absent" ELSE lives[t]]
  BY <1>4, <1>5 DEF lives
<1>8. recorded' = [t \in Tasks |-> IF t \in S THEN 0 ELSE recorded[t]]
  BY <1>4, <1>5 DEF recorded
<1>9. Lifecycle!Purge(S)
  BY <1>6, <1>7, <1>8 DEF Lifecycle!Purge
<1> QED BY <1>9 DEF Lifecycle!Next

LEMMA ClaimTakes ==
    ASSUME TypeInv, NEW d \in Drains, NEW t \in Tasks, claimTask(d, t)
    PROVE  Lifecycle!Take(t)
<1>1. /\ rows \in [Tasks -> Row] /\ pc \in [Drains -> Pcs]
      /\ cur \in [Drains -> Tasks \cup {NoTask}] /\ token \in [Drains -> Nat]
  BY DEF TypeInv, TypeOK
<1>2. /\ pc[d] = "scan" /\ rows[t].status = "pending"
      /\ rows' = [rows EXCEPT ![t] = claimedRow(rows[t], minted[t] + 1)]
      /\ pc' = [pc EXCEPT ![d] = "claimed"] /\ cur' = [cur EXCEPT ![d] = t]
      /\ token' = [token EXCEPT ![d] = minted[t] + 1]
  BY DEF claimTask, mayClaim
<1>3. /\ rows'[t].status = "processing" /\ rows'[t].token = minted[t] + 1
      /\ rows'[t].attempts = rows[t].attempts
  BY <1>1, <1>2 DEF claimedRow
<1>4. Holds(d, t)'
  BY <1>1, <1>2, <1>3 DEF Holds, Busy
<1>5. lifeOf(t) = "waiting" /\ lifeOf(t)' = "held"
  BY <1>2, <1>3, <1>4 DEF lifeOf, Held
<1>6. ASSUME NEW s \in Tasks, s # t PROVE lifeOf(s)' = lifeOf(s) /\ rows'[s] = rows[s]
  <2>1. rows'[s] = rows[s]
    BY <1>1, <1>2, <1>6
  <2>2. \A c \in Drains : Holds(c, s)' <=> Holds(c, s)
    BY <1>1, <1>2, <1>6, <2>1 DEF Holds, Busy
  <2> QED BY <2>1, <2>2 DEF lifeOf, Held
<1>7. lives[t] = "waiting" /\ lives' = [lives EXCEPT ![t] = "held"]
  BY <1>5, <1>6 DEF lives
<1>8. recorded' = recorded
  BY <1>3, <1>6 DEF recorded
<1> QED BY <1>7, <1>8 DEF Lifecycle!Take

(* The fenced write concludes the row or returns it, with the attempt it   *)
(* made recorded; without the token it writes nothing.                     *)
LEMMA ReportConcludes ==
    ASSUME TypeInv, LeaseInv, RetriesAreGranted, NEW d \in Drains, completeTask(d)
    PROVE  [Lifecycle!Next]_(Lifecycle!vars)
<1>1. /\ rows \in [Tasks -> Row] /\ pc \in [Drains -> Pcs]
      /\ cur \in [Drains -> Tasks \cup {NoTask}] /\ token \in [Drains -> Nat]
      /\ pc[d] = "report" /\ cur[d] \in Tasks
      /\ outcome[d] \in {"done", "skipped", "retry", "failed"}
      /\ MaxAttempts \in [Tasks -> Nat]
  BY MaxAttemptsAssumption DEF TypeInv, TypeOK, RunsAreWellFormed, completeTask, Busy
<1>2. pc' = [pc EXCEPT ![d] = "scan"] /\ forgetRun(d)
  BY DEF completeTask
<1>3. CASE ~owns(d, cur[d])
  <2>1. UNCHANGED rows
    BY <1>3 DEF completeTask
  <2> QED BY <1>2, <2>1, RunLost DEF LeaseInv
<1>4. CASE owns(d, cur[d])
  <2>1. PICK t \in Tasks : t = cur[d]
    BY <1>1
  <2>2. PICK delay \in nextAttemptDelays(attempt[d]) :
          rows' = [rows EXCEPT ![t] = settledRow(d, rows[t].id, retriedFrom(d) + delay)]
    BY <1>4, <2>1 DEF completeTask
  <2>3. Holds(d, t) /\ rows[t].status = "processing"
    BY <1>1, <1>4, <2>1 DEF owns, Holds, Busy
  <2>4. attempt[d] = rows[t].attempts + 1
    BY <2>3 DEF LeaseInv, HolderHasFreshAttempt
  <2>5. lifeOf(t) = "held"
    BY <2>3 DEF lifeOf, Held
  <2>6. rows'[t] = settledRow(d, rows[t].id, retriedFrom(d) + delay)
    BY <1>1, <2>2
  <2>7. ASSUME NEW s \in Tasks, s # t PROVE lifeOf(s)' = lifeOf(s) /\ rows'[s] = rows[s]
    <3>1. rows'[s] = rows[s]
      BY <1>1, <2>2, <2>7
    <3>2. ASSUME NEW c \in Drains PROVE Holds(c, s)' <=> Holds(c, s)
      <4>1. CASE c = d
        BY <1>1, <1>2, <2>1, <2>7, <4>1 DEF Holds, Busy
      <4>2. CASE c # d
        BY <1>1, <1>2, <3>1, <4>2 DEF Holds, forgetRun
      <4> QED BY <4>1, <4>2
    <3> QED BY <3>1, <3>2 DEF lifeOf, Held
  <2>8. lives[t] = "held" /\ recorded[t] = rows[t].attempts
    BY <2>5 DEF lives, recorded
  <2>9. CASE outcome[d] = "retry"
    <3>1. rows'[t].status = "pending" /\ rows'[t].attempts = rows[t].attempts + 1
      BY <2>4, <2>6, <2>9 DEF settledRow, pendingRow
    <3>2. lifeOf(t)' = "waiting"
      BY <3>1 DEF lifeOf
    <3>3. lives' = [lives EXCEPT ![t] = "waiting"]
      BY <2>7, <3>2 DEF lives
    <3>4. recorded' = [recorded EXCEPT ![t] = @ + 1]
      BY <2>7, <2>8, <3>1 DEF recorded
    <3>5. recorded[t] + 1 < MaxAttempts[t]
      BY <1>1, <2>1, <2>4, <2>8, <2>9 DEF RetriesAreGranted
    <3>6. Lifecycle!Retry(t)
      BY <2>8, <3>3, <3>4, <3>5 DEF Lifecycle!Retry
    <3> QED BY <3>6 DEF Lifecycle!Next
  <2>10. CASE outcome[d] # "retry"
    <3>1. rows'[t].status = outcome[d] /\ rows'[t].attempts = rows[t].attempts + 1
      BY <2>4, <2>6, <2>10 DEF settledRow, terminalRow
    <3>2. lifeOf(t)' = outcome[d]
      BY <1>1, <2>10, <3>1 DEF lifeOf
    <3>3. lives' = [lives EXCEPT ![t] = outcome[d]]
      BY <2>7, <3>2 DEF lives
    <3>4. recorded' = [recorded EXCEPT ![t] = @ + 1]
      BY <2>7, <2>8, <3>1 DEF recorded
    <3>5. outcome[d] \in Lifecycle!Terminal
      BY <1>1, <2>10 DEF Lifecycle!Terminal
    <3>6. Lifecycle!Conclude(t)
      BY <2>8, <3>3, <3>4, <3>5 DEF Lifecycle!Conclude
    <3> QED BY <3>6 DEF Lifecycle!Next
  <2> QED BY <2>9, <2>10
<1> QED BY <1>3, <1>4

LEMMA InsertEnqueues ==
    ASSUME TypeInv, NEW t \in Tasks, insertTask(t)
    PROVE  Lifecycle!Enqueue(t)
<1>1. rows \in [Tasks -> Row]
  BY DEF TypeInv, TypeOK
<1>2. /\ rows[t].status = "absent" /\ rows'[t].status = "pending" /\ rows'[t].attempts = 0
      /\ \A s \in Tasks : s # t => rows'[s] = rows[s]
      /\ UNCHANGED <<pc, cur, token>>
  BY <1>1 DEF insertTask, pendingRow, runVars
<1>3. lifeOf(t) = "absent" /\ lifeOf(t)' = "waiting"
  BY <1>2 DEF lifeOf
<1>4. \A s \in Tasks : s # t => lifeOf(s)' = lifeOf(s)
  BY <1>2 DEF lifeOf, Held, Holds
<1>5. lives[t] = "absent" /\ lives' = [lives EXCEPT ![t] = "waiting"]
  BY <1>3, <1>4 DEF lives
<1>6. recorded' = [recorded EXCEPT ![t] = 0]
  BY <1>2 DEF recorded
<1> QED BY <1>5, <1>6 DEF Lifecycle!Enqueue

LEMMA EveryStepIsALifeStep ==
    ASSUME TypeInv, LeaseInv, RetriesAreGranted, [Next]_vars
    PROVE  [Lifecycle!Next]_(Lifecycle!vars)
<1>a. pc \in [Drains -> Pcs]
  BY DEF TypeInv, TypeOK
<1>1. CASE Tick \/ UNCHANGED vars
  BY <1>1, SameRunsStutter DEF Tick, vars, runVars
<1>2. ASSUME NEW t \in Tasks, insertTask(t) PROVE [Lifecycle!Next]_(Lifecycle!vars)
  BY <1>2, InsertEnqueues DEF Lifecycle!Next
<1>3. ASSUME NEW d \in Drains, pass(d) PROVE [Lifecycle!Next]_(Lifecycle!vars)
  <2>1. CASE recoverStaleLeases(d)
    BY <2>1, RecoveryReclaims
  <2>2. ASSUME NEW t \in Tasks, claimTask(d, t) PROVE [Lifecycle!Next]_(Lifecycle!vars)
    BY <2>2, ClaimTakes DEF Lifecycle!Next
  <2>3. CASE completeTask(d)
    BY <2>3, ReportConcludes
  <2>4. CASE completeTaskFails(d) \/ crash(d)
    BY <2>4, RunLost DEF completeTaskFails, crash, LeaseInv
  <2>5. CASE deleteExpiredTasks(d)
    BY <2>5, SweepPurges
  <2>6. CASE beginPass(d) \/ findClaimableTasks(d) \/ endLoops(d)
    <3>1. UNCHANGED <<rows, cur, token>>
      BY <2>6 DEF beginPass, findClaimableTasks, endLoops, runVars
    <3>2. \A c \in Drains : pc'[c] \in Busy <=> pc[c] \in Busy
      BY <2>6, <1>a DEF beginPass, findClaimableTasks, endLoops, Busy
    <3> QED BY <3>1, <3>2, SameRunsStutter
  <2>7. CASE startHandler(d) \/ handlerReturns(d) \/ handlerThrows(d)
    <3>1. UNCHANGED <<rows, cur, token>>
      BY <2>7 DEF startHandler, handlerReturns, handlerThrows
    <3>2. \A c \in Drains : pc'[c] \in Busy <=> pc[c] \in Busy
      BY <2>7, <1>a DEF startHandler, handlerReturns, handlerThrows, Busy
    <3> QED BY <3>1, <3>2, SameRunsStutter
  <2>8. ASSUME NEW t \in Tasks, claimLost(d, t) PROVE [Lifecycle!Next]_(Lifecycle!vars)
    BY <2>8, SameRunsStutter DEF claimLost, runVars
  <2> QED BY <1>3, <2>1, <2>2, <2>3, <2>4, <2>5, <2>6, <2>7, <2>8 DEF pass
<1> QED BY <1>1, <1>2, <1>3 DEF Next

(* Drains, leases and tokens implement the promised life of every task.    *)
THEOREM OutboxImplementsLifecycle == Spec => ImplementsLifecycle
<1>1. Init => Lifecycle!Init
  <2>1. Init => lives = [t \in Tasks |-> "absent"] /\ recorded = [t \in Tasks |-> 0]
    BY DEF Init, lives, lifeOf, recorded, absentRow
  <2> QED BY <2>1 DEF Lifecycle!Init
<1>2. Init => TypeInv /\ LeaseInv /\ RetriesAreGranted
  BY TypeInvInit, LeaseInvInit DEF Init, RetriesAreGranted
<1>3. TypeInv /\ LeaseInv /\ RetriesAreGranted /\ [Next]_vars =>
        (TypeInv /\ LeaseInv /\ RetriesAreGranted)'
  BY TypeInvStep, LeaseInvStep, RetriesAreGrantedStep
<1>4. TypeInv /\ LeaseInv /\ RetriesAreGranted /\ [Next]_vars => [Lifecycle!Next]_(Lifecycle!vars)
  BY EveryStepIsALifeStep
<1> QED BY <1>1, <1>2, <1>3, <1>4, PTL DEF Spec, ImplementsLifecycle, Lifecycle!Spec

(* Only a concluded row can have used up its grant.                        *)
GrantInv ==
    \A t \in Tasks : /\ recorded[t] <= MaxAttempts[t]
                     /\ recorded[t] = MaxAttempts[t] => lives[t] \in Lifecycle!Terminal

LEMMA GrantInvStep ==
    ASSUME TypeInv, GrantInv, [Lifecycle!Next]_(Lifecycle!vars)
    PROVE  GrantInv'
<1>1. /\ \A t \in Tasks : recorded[t] \in Nat
      /\ MaxAttempts \in [Tasks -> Nat \ {0}]
      /\ DOMAIN lives = Tasks /\ DOMAIN recorded = Tasks
      /\ lives = [t \in Tasks |-> lives[t]] /\ recorded = [t \in Tasks |-> recorded[t]]
  BY MaxAttemptsAssumption DEF TypeInv, TypeOK, Row, recorded, lives
<1>2. Lifecycle!Terminal = {"done", "skipped", "failed"}
  BY DEF Lifecycle!Terminal
<1>3. CASE UNCHANGED Lifecycle!vars
  BY <1>3 DEF GrantInv, Lifecycle!vars
<1>4. ASSUME NEW t \in Tasks, Lifecycle!Enqueue(t) PROVE GrantInv'
  <2>1. /\ recorded'[t] = 0 /\ \A s \in Tasks : s # t => recorded'[s] = recorded[s]
        /\ \A s \in Tasks : s # t => lives'[s] = lives[s]
    BY <1>1, <1>4 DEF Lifecycle!Enqueue
  <2>2. MaxAttempts[t] \in Nat \ {0}
    BY <1>1
  <2> QED BY <2>1, <2>2 DEF GrantInv
<1>5. ASSUME NEW t \in Tasks, Lifecycle!Take(t) PROVE GrantInv'
  BY <1>1, <1>2, <1>5 DEF GrantInv, Lifecycle!Take
<1>6. ASSUME NEW t \in Tasks, Lifecycle!Retry(t) PROVE GrantInv'
  <2>1. /\ recorded'[t] = recorded[t] + 1 /\ recorded[t] + 1 < MaxAttempts[t]
        /\ \A s \in Tasks : s # t => recorded'[s] = recorded[s] /\ lives'[s] = lives[s]
    BY <1>1, <1>6 DEF Lifecycle!Retry
  <2>2. MaxAttempts[t] \in Nat /\ recorded[t] \in Nat
    BY <1>1
  <2> QED BY <2>1, <2>2 DEF GrantInv
<1>7. ASSUME NEW t \in Tasks, Lifecycle!Conclude(t) PROVE GrantInv'
  <2>1. PICK end \in Lifecycle!Terminal : lives' = [lives EXCEPT ![t] = end]
    BY <1>7 DEF Lifecycle!Conclude
  <2>2. /\ recorded'[t] = recorded[t] + 1 /\ lives'[t] \in Lifecycle!Terminal
        /\ \A s \in Tasks : s # t => recorded'[s] = recorded[s] /\ lives'[s] = lives[s]
    BY <1>1, <1>7, <2>1 DEF Lifecycle!Conclude
  <2>3. lives[t] = "held"
    BY <1>7 DEF Lifecycle!Conclude
  <2>4. recorded[t] < MaxAttempts[t]
    BY <1>1, <1>2, <2>3 DEF GrantInv
  <2>5. MaxAttempts[t] \in Nat /\ recorded[t] \in Nat
    BY <1>1
  <2> QED BY <2>2, <2>4, <2>5 DEF GrantInv
<1>8. ASSUME NEW t \in Tasks, Lifecycle!Lose(t) PROVE GrantInv'
  BY <1>1, <1>2, <1>8 DEF GrantInv, Lifecycle!Lose
<1>9. ASSUME NEW S \in SUBSET Tasks, Lifecycle!Reclaim(S) PROVE GrantInv'
  BY <1>1, <1>2, <1>9 DEF GrantInv, Lifecycle!Reclaim
<1>10. ASSUME NEW S \in SUBSET Tasks, Lifecycle!Purge(S) PROVE GrantInv'
  BY <1>1, <1>10 DEF GrantInv, Lifecycle!Purge
<1> QED BY <1>3, <1>4, <1>5, <1>6, <1>7, <1>8, <1>9, <1>10 DEF Lifecycle!Next

(* Through the refinement: no row ever records more attempts than its      *)
(* handler entry grants, and none is parked with nothing left to try.      *)
THEOREM AttemptsStayWithinGrant == Spec => []Lifecycle!AttemptsWithinGrant
<1>1. Init => TypeInv /\ GrantInv
  <2>1. Init => \A t \in Tasks : recorded[t] = 0
    BY DEF Init, recorded, absentRow
  <2>2. \A t \in Tasks : MaxAttempts[t] \in Nat \ {0}
    BY MaxAttemptsAssumption
  <2> QED BY <2>1, <2>2, TypeInvInit DEF GrantInv
<1>2. TypeInv /\ LeaseInv /\ RetriesAreGranted /\ GrantInv /\ [Next]_vars =>
        (TypeInv /\ LeaseInv /\ RetriesAreGranted /\ GrantInv)'
  BY TypeInvStep, LeaseInvStep, RetriesAreGrantedStep, EveryStepIsALifeStep, GrantInvStep
<1>3. Init => LeaseInv /\ RetriesAreGranted
  BY LeaseInvInit DEF Init, RetriesAreGranted
<1>4. GrantInv => Lifecycle!AttemptsWithinGrant
  BY DEF GrantInv, Lifecycle!AttemptsWithinGrant
<1> QED BY <1>1, <1>2, <1>3, <1>4, PTL DEF Spec
=============================================================================
