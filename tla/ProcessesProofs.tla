--------------------------- MODULE ProcessesProofs ---------------------------
(***************************************************************************)
(* What the run of the processes checks, for any number of processes,      *)
(* tasks, requests, deferred tasks and calls: jobs and shutdowns are       *)
(* orderly, every step of the jobs is one of the promised life of a task,  *)
(* and each repetition of a command is accounted for.                      *)
(***************************************************************************)
EXTENDS MCProcesses, FiniteSetTheorems, TLAPS

-----------------------------------------------------------------------------
(* The jobs: every step is one of a task's life, and nothing is cut off.   *)
(***************************************************************************)

busy(p) == run[p] \notin {"none", "locking"}

(* Who is at work holds the lock, unless its transaction is over.          *)
UnderLock == \A p \in Procs : busy(p) /\ p \notin outran => lock = p

(* A row is held exactly while a process attempts it, one at a time.       *)
HeldByRunners ==
    /\ \A t \in Tasks : state[t] = "held" <=> runner[t] # NoProc
    /\ \A t \in Tasks : runner[t] # NoProc => run[runner[t]] = "attempt"
    /\ \A t, u \in Tasks : runner[t] # NoProc /\ runner[t] = runner[u] => t = u

JobsInv == JobTypeOK /\ AttemptsWithinGrant /\ UnderLock /\ HeldByRunners

LEMMA JobsStart == JobInit => JobsInv
  <1> SUFFICES ASSUME JobInit PROVE JobsInv
    OBVIOUS
  <1>1. JobTypeOK
    BY RunnersAssumption
    DEF JobInit, Init, JobTypeOK, TypeOK, States, Terminal, Steps
  <1>2. AttemptsWithinGrant
    <2>1. \A t \in Tasks : 0 <= MaxAttempts[t] /\ 0 # MaxAttempts[t]
      BY MaxAttemptsAssumption
    <2>2. \A t \in Tasks : tries[t] = 0
      BY Zenon DEF JobInit, Init
    <2> QED
      BY <2>1, <2>2, Zenon DEF AttemptsWithinGrant
  <1>3. UnderLock /\ HeldByRunners
    BY DEF JobInit, Init, UnderLock, busy, HeldByRunners
  <1> QED
    BY <1>1, <1>2, <1>3 DEF JobsInv

(* A step of the processes is a step of a task's life, or of none.         *)
LEMMA JobsSimulate == [JobNext]_jobVars => [Next]_vars
  <1> SUFFICES ASSUME [JobNext]_jobVars PROVE [Next]_vars
    OBVIOUS
  <1>1. ASSUME NEW t \in Tasks, enqueueTask(t) PROVE Next
    BY <1>1 DEF enqueueTask, Next
  <1>2. ASSUME NEW p \in Procs, recover(p) PROVE Next
    <2>1. \E S \in SUBSET Tasks : Reclaim(S)
      BY <1>2, Zenon DEF recover
    <2> QED
      BY <2>1 DEF Next
  <1>3. ASSUME NEW p \in Procs, report(p) \/ reportFails(p) \/ crash(p) PROVE [Next]_vars
    <2>1. \/ UNCHANGED vars
          \/ \E t \in Tasks : Retry(t) \/ Conclude(t) \/ Lose(t)
      BY <1>3, Zenon DEF report, reportFails, crash, holds, vars
    <2> QED
      BY <2>1 DEF Next
  <1>4. ASSUME NEW p \in Procs, finish(p) PROVE Next
    <2>1. \E S \in SUBSET Tasks : Purge(S)
      BY <1>4, Zenon DEF finish
    <2> QED
      BY <2>1 DEF Next
  <1>5. ASSUME NEW p \in Procs, NEW t \in Tasks, take(p, t) PROVE [Next]_vars
    BY <1>5 DEF take, Next, vars
  <1>6. ASSUME NEW p \in Procs,
               \/ tick(p) \/ tryLock(p) \/ transactionExpires(p) \/ fetch(p) \/ stop(p)
               \/ exit(p) \/ restart(p)
        PROVE  UNCHANGED vars
    BY <1>6 DEF tick, tryLock, transactionExpires, fetch, stop, exit, restart, vars
  <1>7. CASE UNCHANGED jobVars
    BY <1>7 DEF jobVars, vars
  <1> QED
    BY <1>1, <1>2, <1>3, <1>4, <1>5, <1>6, <1>7 DEF JobNext, step

LEMMA LifeTyped == TypeOK /\ [Next]_vars => TypeOK'
  <1> SUFFICES ASSUME TypeOK, [Next]_vars PROVE TypeOK'
    OBVIOUS
  <1> USE DEF TypeOK, States, Terminal
  <1>1. ASSUME NEW t \in Tasks, Enqueue(t) \/ Take(t) \/ Retry(t) \/ Conclude(t) \/ Lose(t)
        PROVE  TypeOK'
    BY <1>1 DEF Enqueue, Take, Retry, Conclude, Lose
  <1>2. ASSUME NEW S \in SUBSET Tasks, Reclaim(S) \/ Purge(S) PROVE TypeOK'
    BY <1>2 DEF Reclaim, Purge
  <1>3. CASE UNCHANGED vars
    BY <1>3 DEF vars
  <1> QED
    BY <1>1, <1>2, <1>3 DEF Next

LEMMA LifeWithinGrant ==
    TypeOK /\ AttemptsWithinGrant /\ [Next]_vars => AttemptsWithinGrant'
  <1> SUFFICES ASSUME TypeOK, AttemptsWithinGrant, [Next]_vars PROVE AttemptsWithinGrant'
    OBVIOUS
  <1>m. MaxAttempts \in [Tasks -> Nat \ {0}] /\ tries \in [Tasks -> Nat]
    BY MaxAttemptsAssumption DEF TypeOK
  <1> USE <1>m DEF AttemptsWithinGrant, TypeOK, States, Terminal
  <1>1. ASSUME NEW t \in Tasks, Enqueue(t) \/ Take(t) \/ Lose(t) PROVE AttemptsWithinGrant'
    BY <1>1 DEF Enqueue, Take, Lose
  <1>2. ASSUME NEW t \in Tasks, Retry(t) \/ Conclude(t) PROVE AttemptsWithinGrant'
    BY <1>2 DEF Retry, Conclude
  <1>3. ASSUME NEW S \in SUBSET Tasks, Reclaim(S) \/ Purge(S) PROVE AttemptsWithinGrant'
    BY <1>3 DEF Reclaim, Purge
  <1>4. CASE UNCHANGED vars
    BY <1>4 DEF vars
  <1> QED
    BY <1>1, <1>2, <1>3, <1>4 DEF Next

LEMMA JobsTyped == JobTypeOK /\ [JobNext]_jobVars => JobTypeOK'
  <1> SUFFICES ASSUME JobTypeOK, [JobNext]_jobVars PROVE JobTypeOK'
    OBVIOUS
  <1>0. TypeOK'
    BY JobsSimulate, LifeTyped DEF JobTypeOK
  <1> USE <1>0, RunnersAssumption DEF JobTypeOK, Steps, to, released, fault
  <1>1. ASSUME NEW t \in Tasks, enqueueTask(t) PROVE JobTypeOK'
    BY <1>1 DEF enqueueTask, runners
  <1>2. ASSUME NEW p \in Procs, tick(p) \/ tryLock(p) \/ transactionExpires(p) \/ fetch(p)
        PROVE  JobTypeOK'
    BY <1>2 DEF tick, tryLock, transactionExpires, fetch
  <1>3. ASSUME NEW p \in Procs, recover(p) PROVE JobTypeOK'
    <2>1. \/ faults' = faults
          \/ faults < MaxFaults /\ faults' = faults + 1
      BY <1>3, Zenon DEF recover
    <2>2. /\ runner' = [t \in Tasks |-> IF state'[t] = "waiting" THEN NoProc ELSE runner[t]]
          /\ run' = [run EXCEPT ![p] = "fetch"]
          /\ UNCHANGED <<process, lock, batch, outran>>
      BY <1>3, Zenon DEF recover, to
    <2>3. faults' \in 0 .. MaxFaults
      BY <2>1
    <2> QED
      BY <2>2, <2>3
  <1>4. ASSUME NEW p \in Procs, NEW t \in Tasks, take(p, t) PROVE JobTypeOK'
    BY <1>4 DEF take
  <1>5. ASSUME NEW p \in Procs, report(p) \/ reportFails(p) PROVE JobTypeOK'
    BY <1>5 DEF report, reportFails, holds
  <1>6. ASSUME NEW p \in Procs, finish(p) \/ stop(p) \/ exit(p) \/ restart(p) PROVE JobTypeOK'
    BY <1>6 DEF finish, stop, exit, restart
  <1>7. ASSUME NEW p \in Procs, crash(p) PROVE JobTypeOK'
    BY <1>7 DEF crash
  <1>8. CASE UNCHANGED jobVars
    BY <1>8 DEF jobVars, runners
  <1> QED
    BY <1>1, <1>2, <1>3, <1>4, <1>5, <1>6, <1>7, <1>8 DEF JobNext, step

(* The lock passes to a process only when nobody has it: whoever else is   *)
(* at work then is known to have outrun its transaction.                   *)
LEMMA UnderLockStep == JobTypeOK /\ UnderLock /\ [JobNext]_jobVars => UnderLock'
  <1> SUFFICES ASSUME JobTypeOK, UnderLock, [JobNext]_jobVars PROVE UnderLock'
    OBVIOUS
  <1>r. /\ run \in [Procs -> Steps] /\ lock \in Procs \cup {NoProc} /\ NoProc \notin Procs
        /\ outran \subseteq Procs
    BY RunnersAssumption DEF JobTypeOK
  <1> USE <1>r DEF UnderLock, busy, to, released, fault
  <1>1. ASSUME NEW t \in Tasks, enqueueTask(t) PROVE UnderLock'
    BY <1>1 DEF enqueueTask, runners
  <1>2. ASSUME NEW p \in Procs, tick(p) \/ tryLock(p) \/ transactionExpires(p) PROVE UnderLock'
    BY <1>2 DEF tick, tryLock, transactionExpires
  <1>3. ASSUME NEW p \in Procs, recover(p) \/ fetch(p) PROVE UnderLock'
    BY <1>3 DEF recover, fetch
  <1>4. ASSUME NEW p \in Procs, NEW t \in Tasks, take(p, t) PROVE UnderLock'
    BY <1>4 DEF take
  <1>5. ASSUME NEW p \in Procs, report(p) \/ reportFails(p) PROVE UnderLock'
    BY <1>5 DEF report, reportFails
  <1>6. ASSUME NEW p \in Procs, finish(p) \/ crash(p) PROVE UnderLock'
    BY <1>6 DEF finish, crash
  <1>7. ASSUME NEW p \in Procs, stop(p) \/ exit(p) \/ restart(p) PROVE UnderLock'
    BY <1>7 DEF stop, exit, restart
  <1>8. CASE UNCHANGED jobVars
    BY <1>8 DEF jobVars, runners
  <1> QED
    BY <1>1, <1>2, <1>3, <1>4, <1>5, <1>6, <1>7, <1>8 DEF JobNext, step

(* A process takes a row with its hands free, and whatever ends an attempt *)
(* takes its name off the row.                                             *)
LEMMA HeldStep == JobTypeOK /\ HeldByRunners /\ [JobNext]_jobVars => HeldByRunners'
  <1> SUFFICES ASSUME JobTypeOK, HeldByRunners, [JobNext]_jobVars PROVE HeldByRunners'
    OBVIOUS
  <1>r. /\ run \in [Procs -> Steps] /\ runner \in [Tasks -> Procs \cup {NoProc}]
        /\ NoProc \notin Procs /\ state \in [Tasks -> States]
    BY RunnersAssumption DEF JobTypeOK, TypeOK
  <1>t. "waiting" \notin Terminal /\ "held" \notin Terminal
    BY DEF Terminal
  <1> USE <1>r, <1>t DEF HeldByRunners, to
  <1>1. ASSUME NEW t \in Tasks, enqueueTask(t) PROVE HeldByRunners'
    BY <1>1 DEF enqueueTask, runners, Enqueue
  <1>2. ASSUME NEW p \in Procs, tick(p) \/ tryLock(p) \/ fetch(p) \/ exit(p)
        PROVE  HeldByRunners'
    BY <1>2 DEF tick, tryLock, fetch, exit
  <1>3. ASSUME NEW p \in Procs, recover(p) PROVE HeldByRunners'
    <2>1. PICK S \in SUBSET Tasks : Reclaim(S)
      BY <1>3, Zenon DEF recover
    <2>2. /\ run[p] = "recover" /\ run' = [run EXCEPT ![p] = "fetch"]
          /\ runner' = [t \in Tasks |-> IF state'[t] = "waiting" THEN NoProc ELSE runner[t]]
      BY <1>3, Zenon DEF recover
    <2>3. \A t \in Tasks : state'[t] = IF t \in S THEN "waiting" ELSE state[t]
      BY <2>1 DEF Reclaim
    <2>4. \A t \in Tasks : /\ runner'[t] # NoProc => runner'[t] = runner[t] /\ state'[t] = state[t]
                           /\ state'[t] = "held" <=> runner'[t] # NoProc
      BY <2>2, <2>3
    <2> QED
      BY <2>2, <2>4
  <1>4. ASSUME NEW p \in Procs, NEW t \in Tasks, take(p, t) PROVE HeldByRunners'
    BY <1>4 DEF take, Take
  <1>5. ASSUME NEW p \in Procs, NEW t \in Tasks, run[p] = "attempt", runner[t] = p,
               Retry(t) \/ Conclude(t) \/ Lose(t),
               runner' = [runner EXCEPT ![t] = NoProc], to(p, "work")
        PROVE  HeldByRunners'
    <2>1. \A u \in Tasks : u # t => state'[u] = state[u] /\ runner'[u] = runner[u]
      BY <1>5 DEF Retry, Conclude, Lose
    <2>2. state'[t] # "held" /\ runner'[t] = NoProc
      BY <1>5 DEF Retry, Conclude, Lose
    <2>3. \A u \in Tasks : u # t /\ runner[u] # NoProc => runner[u] # p
      BY <1>5
    <2> QED
      BY <1>5, <2>1, <2>2, <2>3
  <1>6. ASSUME NEW p \in Procs, report(p) \/ reportFails(p) PROVE HeldByRunners'
    <2>1. CASE holds(p) = {} /\ UNCHANGED <<state, runner>>
      BY <1>6, <2>1 DEF report, reportFails, holds
    <2>2. CASE ~(holds(p) = {} /\ UNCHANGED <<state, runner>>)
      BY <1>5, <1>6, <2>2, Zenon DEF report, reportFails, holds
    <2> QED
      BY <2>1, <2>2
  <1>7. ASSUME NEW p \in Procs, finish(p) PROVE HeldByRunners'
    BY <1>7 DEF finish, Purge
  <1>8. ASSUME NEW p \in Procs, crash(p) PROVE HeldByRunners'
    <2>1. /\ run' = [run EXCEPT ![p] = "none"]
          /\ runner' = [t \in Tasks |-> IF runner[t] = p THEN NoProc ELSE runner[t]]
      BY <1>8 DEF crash
    <2>2. \A t \in Tasks : state'[t] = IF runner[t] = p THEN "lost" ELSE state[t]
      BY <1>8 DEF crash, holds, Lose
    <2> QED
      BY <2>1, <2>2
  <1>9. ASSUME NEW p \in Procs, transactionExpires(p) \/ stop(p) \/ restart(p)
        PROVE  HeldByRunners'
    BY <1>9 DEF transactionExpires, stop, restart
  <1>10. CASE UNCHANGED jobVars
    BY <1>10 DEF jobVars, runners
  <1> QED
    BY <1>1, <1>2, <1>3, <1>4, <1>6, <1>7, <1>8, <1>9, <1>10 DEF JobNext, step

LEMMA JobsStep == JobsInv /\ [JobNext]_jobVars => JobsInv'
  <1>1. JobTypeOK => TypeOK
    BY DEF JobTypeOK
  <1> QED
    BY <1>1, JobsTyped, JobsSimulate, LifeWithinGrant, UnderLockStep, HeldStep DEF JobsInv

LEMMA RunsAreWhole == JobsInv => NoRunIsCutOff
  <1> SUFFICES ASSUME JobsInv PROVE NoRunIsCutOff
    OBVIOUS
  <1> DEFINE atWork == {p \in Procs : run[p] \notin {"none", "locking"}} \ outran
  <1>1. atWork \subseteq {lock}
    BY DEF JobsInv, UnderLock, busy
  <1>2. IsFiniteSet({lock}) /\ Cardinality({lock}) = 1
    BY FS_Singleton
  <1>3. Cardinality(atWork) <= 1
    BY <1>1, <1>2, FS_Subset
  <1>4. \A t \in Tasks : state[t] = "held" => runner[t] # NoProc /\ run[runner[t]] = "attempt"
    BY DEF JobsInv, HeldByRunners
  <1> QED
    BY <1>3, <1>4 DEF NoRunIsCutOff

-----------------------------------------------------------------------------
(* The shutdown: nothing is cut short within the grace period.             *)
(***************************************************************************)

(* Once the server has stopped no request is open, one that was cut off    *)
(* was cut off by the deadline, and the database is left after the tasks.  *)
ApiInv ==
    /\ Api!TypeOK
    /\ phase \in {"closing", "closed"} => Api!inFlight = {}
    /\ \A h \in Handlers : handler[h] = "cut" => overdue
    /\ phase = "closed" /\ ~overdue => Api!pending = {}

LEMMA ApiStart == Api!Init => ApiInv
  BY DEF Api!Init, ApiInv, Api!TypeOK, Api!inFlight, Api!pending

LEMMA ApiStep == ApiInv /\ [Api!Next]_(Api!vars) => ApiInv'
  <1> SUFFICES ASSUME ApiInv, [Api!Next]_(Api!vars) PROVE ApiInv'
    OBVIOUS
  <1> USE DEF ApiInv, Api!TypeOK, Api!inFlight, Api!pending
  <1>1. ASSUME NEW h \in Handlers, Api!accept(h) \/ Api!respond(h) PROVE ApiInv'
    BY <1>1 DEF Api!accept, Api!respond
  <1>2. ASSUME NEW h \in Handlers, NEW d \in Deferred, Api!defer(h, d) PROVE ApiInv'
    BY <1>2 DEF Api!defer
  <1>3. ASSUME NEW d \in Deferred, Api!settle(d) \/ Api!abort(d) PROVE ApiInv'
    BY <1>3 DEF Api!settle, Api!abort
  <1>4. CASE Api!shutdown \/ Api!deadline
    BY <1>4 DEF Api!shutdown, Api!deadline
  <1>5. CASE Api!stopServer
    BY <1>5 DEF Api!stopServer
  <1>6. CASE Api!close
    BY <1>6 DEF Api!close
  <1>7. CASE UNCHANGED Api!vars
    BY <1>7 DEF Api!vars
  <1> QED
    BY <1>1, <1>2, <1>3, <1>4, <1>5, <1>6, <1>7 DEF Api!Next

LEMMA NothingIsLeft == ApiInv => Api!NothingIsCutShort
  BY DEF ApiInv, Api!NothingIsCutShort, Api!inFlight, Api!pending

-----------------------------------------------------------------------------
(* The commands under a key: each repetition of a mutation is accounted    *)
(* for, and replays are real.                                              *)
(***************************************************************************)

LEMMA CallsAreFinite == IsFiniteSet(Calls)
  BY CommandsAssumption, Zenon DEF Key!CallsAreApart, Key!IsFiniteSet, IsFiniteSet

LEMMA NamesAreApart ==
    /\ Unknown \notin Calls /\ NoRecord \notin Calls /\ NoRecord # Unknown
    /\ NoRecord \notin Key!Record
  BY CommandsAssumption, Zenon DEF Key!CallsAreApart

LEMMA OneCardinality == \A S : Key!Cardinality(S) = Cardinality(S)
  BY Zenon DEF Key!Cardinality, Cardinality

(* A call holds a claim on the key from its reservation until it lets go   *)
(* of the key, and for ever once its mutation is committed.                *)
Claimants == effects \cup {c \in Calls : pc[c] \in {"run", "release"}}

(* Every claim beyond the first was paid for by a takeover or by a release *)
(* after the commit, and a free key has no claim that was not.             *)
paid == takeovers + releases
ClaimsAreCounted == /\ Cardinality(Claimants) <= paid + 1
                    /\ record = NoRecord => Cardinality(Claimants) <= paid

(* A call that committed is on its way out and does not begin again, and   *)
(* only such a call records a result.                                      *)
CommittedAreDone ==
    /\ \A c \in effects : \/ pc[c] \in {"complete", "mark", "release", "dead"}
                          \/ pc[c] = "answered" /\ answer[c].kind \in {"own", "error"}
    /\ \A c \in Calls : pc[c] \in {"complete", "mark"} => c \in effects

ClaimInv == Key!TypeOK /\ CommittedAreDone /\ ClaimsAreCounted

-----------------------------------------------------------------------------
(* Counting *)

LEMMA CountSubset ==
    ASSUME NEW S, NEW T, IsFiniteSet(S), T \subseteq S
    PROVE  IsFiniteSet(T) /\ Cardinality(T) <= Cardinality(S) /\ Cardinality(S) \in Nat
           /\ Cardinality(T) \in Nat
  BY FS_Subset, FS_CardinalityType

LEMMA CountOneMore ==
    ASSUME NEW S, NEW T, NEW c, IsFiniteSet(S), T \subseteq S \cup {c}
    PROVE  Cardinality(T) <= Cardinality(S) + 1
  <1>1. /\ IsFiniteSet(S \cup {c})
        /\ Cardinality(S) \in Nat
        /\ Cardinality(S \cup {c}) <= Cardinality(S) + 1
    BY FS_AddElement, FS_CardinalityType
  <1>2. Cardinality(T) <= Cardinality(S \cup {c}) /\ Cardinality(S \cup {c}) \in Nat
        /\ Cardinality(T) \in Nat
    BY <1>1, CountSubset
  <1> QED BY <1>1, <1>2

LEMMA CountOneLess ==
    ASSUME NEW S, NEW T, NEW c \in S, IsFiniteSet(S), T \subseteq S \ {c}
    PROVE  Cardinality(T) <= Cardinality(S) - 1
  <1>1. /\ IsFiniteSet(S \ {c})
        /\ Cardinality(S) \in Nat
        /\ Cardinality(S \ {c}) = Cardinality(S) - 1
    BY FS_RemoveElement, FS_CardinalityType
  <1>2. Cardinality(T) <= Cardinality(S \ {c})
    BY <1>1, CountSubset
  <1> QED BY <1>1, <1>2

-----------------------------------------------------------------------------
(* Types *)

LEMMA CommandsInit == Key!Init => Key!TypeOK
  BY DEF Key!Init, Key!TypeOK, Key!Pcs, Key!Answers, Key!answered

LEMMA RecordsAreTyped ==
    ASSUME NEW c \in Calls, now \in Nat
    PROVE  \A s \in {"reserved", "completed"}, r \in Calls \cup {Unknown, NoRecord} :
              [state |-> s, hash |-> Payload[c], result |-> r,
               touched |-> now] \in Key!Record
  BY DEF Key!Record

LEMMA CommandsStep == Key!TypeOK /\ [Key!Next]_(Key!vars) => Key!TypeOK'
  <1> SUFFICES ASSUME Key!TypeOK, [Key!Next]_(Key!vars) PROVE Key!TypeOK'
    OBVIOUS
  <1> USE DEF Key!TypeOK, Key!Pcs
  <1>1. CASE Key!Tick
    BY <1>1 DEF Key!Tick
  <1>2. ASSUME NEW c \in Calls, Key!begin(c) PROVE Key!TypeOK'
    BY <1>2 DEF Key!begin, Key!goTo
  <1>3. ASSUME NEW c \in Calls, Key!create(c) PROVE Key!TypeOK'
    BY <1>3, RecordsAreTyped DEF Key!create, Key!goTo
  <1>r. ASSUME NEW c \in Calls, NEW k, NEW r, Key!reply(c, k, r),
               k \in {"inProgress", "conflict", "error", "own", "replay"},
               r \in Calls \cup {Unknown, NoRecord}
        PROVE  /\ pc' \in [Calls -> Key!Pcs] /\ answer' \in [Calls -> Key!Answers]
               /\ started' \in [Calls -> Nat] /\ rounds' \in [Calls -> 0 .. 1]
    <2>1. Key!answered(k, r) \in Key!Answers
      BY <1>r DEF Key!answered, Key!Answers
    <2> QED BY <1>r, <2>1 DEF Key!reply, Key!goTo, Key!forget
  <1>n. ASSUME NEW c \in Calls, Key!nextRound(c)
        PROVE  /\ pc' \in [Calls -> Key!Pcs] /\ answer' \in [Calls -> Key!Answers]
               /\ started' \in [Calls -> Nat] /\ rounds' \in [Calls -> 0 .. 1]
    BY <1>n, <1>r DEF Key!nextRound, Key!goTo
  <1>4. ASSUME NEW c \in Calls, Key!read(c) PROVE Key!TypeOK'
    <2>1. record # NoRecord => record.result \in Calls \cup {Unknown, NoRecord}
      BY DEF Key!Record
    <2> QED BY <1>4, <1>r, <1>n, <2>1 DEF Key!read, Key!goTo
  <1>5. ASSUME NEW c \in Calls, Key!deleteStale(c) PROVE Key!TypeOK'
    BY <1>5, <1>n DEF Key!deleteStale
  <1>6. ASSUME NEW c \in Calls,
               Key!runCommits(c) \/ Key!runFails(c) \/ Key!runThrowsLate(c)
        PROVE  Key!TypeOK'
    BY <1>6 DEF Key!runCommits, Key!runFails, Key!runThrowsLate, Key!goTo
  <1>7. ASSUME NEW c \in Calls, Key!complete(c) PROVE Key!TypeOK'
    BY <1>7, <1>r, RecordsAreTyped DEF Key!complete, Key!recordResult, Key!goTo
  <1>8. ASSUME NEW c \in Calls, Key!mark(c) PROVE Key!TypeOK'
    BY <1>8, <1>r, RecordsAreTyped DEF Key!mark, Key!recordResult
  <1>9. ASSUME NEW c \in Calls, Key!release(c) PROVE Key!TypeOK'
    BY <1>9, <1>r DEF Key!release
  <1>10. ASSUME NEW c \in Calls, Key!writeFails(c) PROVE Key!TypeOK'
    BY <1>10, <1>r DEF Key!writeFails, Key!goTo
  <1>11. ASSUME NEW c \in Calls, Key!crash(c) PROVE Key!TypeOK'
    BY <1>11 DEF Key!crash, Key!goTo, Key!forget
  <1>12. ASSUME NEW c \in Calls, Key!retry(c) PROVE Key!TypeOK'
    BY <1>12 DEF Key!retry, Key!goTo, Key!answered, Key!Answers
  <1>13. CASE UNCHANGED Key!vars
    BY <1>13 DEF Key!vars
  <1> QED
    BY <1>1, <1>2, <1>3, <1>4, <1>5, <1>6, <1>7, <1>8, <1>9, <1>10, <1>11, <1>12, <1>13
    DEF Key!Next, Key!step

(* Every reachable state of a key and its calls is well typed.             *)
THEOREM CommandsAreTyped == Key!Spec => []Key!TypeOK
  BY CommandsInit, CommandsStep, PTL DEF Key!Spec

-----------------------------------------------------------------------------
(* Repeats are accounted for *)

LEMMA CommittedInit == Key!Init => CommittedAreDone
  BY DEF Key!Init, CommittedAreDone

LEMMA CommittedStep ==
  Key!TypeOK /\ CommittedAreDone /\ [Key!Next]_(Key!vars) => CommittedAreDone'
  <1> SUFFICES ASSUME Key!TypeOK, CommittedAreDone, [Key!Next]_(Key!vars)
      PROVE  CommittedAreDone'
    OBVIOUS
  <1>a. /\ pc \in [Calls -> Key!Pcs] /\ answer \in [Calls -> Key!Answers]
        /\ effects \subseteq Calls
    BY DEF Key!TypeOK
  <1> USE DEF CommittedAreDone, Key!goTo, Key!reply, Key!answered
  <1>1. CASE Key!Tick \/ UNCHANGED Key!vars
    BY <1>1 DEF Key!Tick, Key!vars
  <1>2. ASSUME NEW c \in Calls,
               Key!begin(c) \/ Key!create(c) \/ Key!runCommits(c) \/ Key!runFails(c)
                            \/ Key!runThrowsLate(c)
        PROVE  CommittedAreDone'
    BY <1>2, <1>a DEF Key!begin, Key!create, Key!runCommits, Key!runFails, Key!runThrowsLate
  <1>3. ASSUME NEW c \in Calls,
               Key!read(c) \/ Key!deleteStale(c)
        PROVE  CommittedAreDone'
    BY <1>3, <1>a DEF Key!read, Key!deleteStale, Key!nextRound
  <1>4. ASSUME NEW c \in Calls,
               Key!complete(c) \/ Key!mark(c) \/ Key!release(c)
        PROVE  CommittedAreDone'
    BY <1>4, <1>a DEF Key!complete, Key!mark, Key!release
  <1>5. ASSUME NEW c \in Calls, Key!writeFails(c) PROVE CommittedAreDone'
    BY <1>5, <1>a DEF Key!writeFails
  <1>6. ASSUME NEW c \in Calls, Key!crash(c) \/ Key!retry(c) PROVE CommittedAreDone'
    BY <1>6, <1>a DEF Key!crash, Key!retry
  <1> QED
    BY <1>1, <1>2, <1>3, <1>4, <1>5, <1>6 DEF Key!Next, Key!step

LEMMA ClaimInvInit == Key!Init => ClaimInv
  <1> SUFFICES ASSUME Key!Init PROVE ClaimInv
    OBVIOUS
  <1>1. Claimants = {}
    BY DEF Key!Init, Claimants
  <1>2. ClaimsAreCounted
    BY <1>1, FS_EmptySet DEF Key!Init, ClaimsAreCounted, paid
  <1> QED BY <1>2, CommandsInit, CommittedInit DEF ClaimInv

LEMMA ClaimInvStep == ClaimInv /\ [Key!Next]_(Key!vars) => ClaimInv'
  <1> SUFFICES ASSUME ClaimInv, [Key!Next]_(Key!vars) PROVE ClaimsAreCounted'
    BY CommandsStep, CommittedStep DEF ClaimInv
  <1>a. /\ pc \in [Calls -> Key!Pcs] /\ effects \subseteq Calls /\ paid \in Nat
        /\ takeovers \in Nat /\ releases \in Nat
        /\ CommittedAreDone /\ now \in Nat
    BY DEF ClaimInv, Key!TypeOK, paid
  <1>b. IsFiniteSet(Claimants) /\ Cardinality(Claimants) \in Nat
    <2>1. Claimants \subseteq Calls
      BY <1>a DEF Claimants
    <2> QED BY <2>1, CallsAreFinite, CountSubset
  <1>c. /\ Cardinality(Claimants) <= paid + 1
        /\ record = NoRecord => Cardinality(Claimants) <= paid
    BY DEF ClaimInv, ClaimsAreCounted
  (* A step that adds no claim, and frees no row unless it counts one.     *)
  <1>d. ASSUME Claimants' \subseteq Claimants,
               \/ paid' = paid /\ (record' = NoRecord => record = NoRecord)
               \/ paid' = paid + 1
        PROVE  ClaimsAreCounted'
    <2>1. /\ Cardinality(Claimants') <= Cardinality(Claimants)
          /\ Cardinality(Claimants') \in Nat
      BY <1>b, <1>d, CountSubset
    <2> QED BY <1>a, <1>b, <1>c, <1>d, <2>1 DEF ClaimsAreCounted
  <1>1. CASE Key!Tick \/ UNCHANGED Key!vars
    <2>1. Claimants' = Claimants /\ record' = record /\ paid' = paid
      BY <1>1 DEF Key!Tick, Key!vars, Claimants, paid
    <2> QED BY <2>1, <1>d
  <1>2. ASSUME NEW c \in Calls,
               \/ Key!begin(c) \/ Key!read(c) \/ Key!runCommits(c)
               \/ Key!runFails(c) \/ Key!runThrowsLate(c)
               \/ Key!crash(c) \/ Key!retry(c)
        PROVE  ClaimsAreCounted'
    <2>1. Claimants' \subseteq Claimants
      BY <1>2, <1>a
         DEF Key!begin, Key!read, Key!nextRound, Key!runCommits, Key!runFails,
             Key!runThrowsLate, Key!crash, Key!retry, Key!goTo, Key!reply, Claimants
    <2>2. record' = record /\ paid' = paid
      BY <1>2
         DEF Key!begin, Key!read, Key!runCommits, Key!runFails, Key!runThrowsLate,
             Key!crash, Key!retry, paid
    <2> QED BY <2>1, <2>2, <1>d
  <1>3. ASSUME NEW c \in Calls, Key!create(c) PROVE ClaimsAreCounted'
    <2>1. CASE record = NoRecord
      <3>1. Claimants' \subseteq Claimants \cup {c}
        BY <1>3, <1>a, <2>1 DEF Key!create, Key!goTo, Claimants
      <3>2. Cardinality(Claimants') <= Cardinality(Claimants) + 1
        BY <3>1, <1>b, CountOneMore
      <3>3. Cardinality(Claimants') \in Nat
        BY <3>1, <1>b, CountSubset, FS_AddElement, FS_CardinalityType
      <3>4. record' # NoRecord /\ paid' = paid
        BY <1>3, <1>a, <2>1, RecordsAreTyped, NamesAreApart DEF Key!create, paid
      <3> QED BY <3>2, <3>3, <3>4, <2>1, <1>a, <1>b, <1>c DEF ClaimsAreCounted
    <2>2. CASE record # NoRecord
      <3>1. Claimants' \subseteq Claimants
        BY <1>3, <1>a, <2>2 DEF Key!create, Key!goTo, Claimants
      <3>2. record' = record /\ paid' = paid
        BY <1>3, <2>2 DEF Key!create, paid
      <3> QED BY <3>1, <3>2, <1>d
    <2> QED BY <2>1, <2>2
  <1>4. ASSUME NEW c \in Calls, Key!deleteStale(c) PROVE ClaimsAreCounted'
    <2>1. Claimants' \subseteq Claimants
      BY <1>4, <1>a
         DEF Key!deleteStale, Key!nextRound, Key!goTo, Key!reply, Claimants
    <2>2. \/ paid' = paid /\ record = NoRecord
          \/ paid' = paid + 1
      BY <1>4, <1>a DEF Key!deleteStale, paid
    <2> QED BY <2>1, <2>2, <1>d
  <1>5. ASSUME NEW c \in Calls,
               Key!complete(c) \/ Key!mark(c) \/ Key!writeFails(c)
        PROVE  ClaimsAreCounted'
    <2>1. Claimants' \subseteq Claimants
      BY <1>5, <1>a
         DEF Key!complete, Key!mark, Key!writeFails, Key!goTo, Key!reply, Claimants
    <2>2. (record' = NoRecord => record = NoRecord) /\ paid' = paid
      BY <1>5, <1>a, RecordsAreTyped, NamesAreApart
      DEF Key!complete, Key!mark, Key!writeFails, Key!recordResult, paid
    <2> QED BY <2>1, <2>2, <1>d
  (* A call that left nothing behind gives its claim up with the key; one  *)
  (* that committed keeps it, and the release is counted.                  *)
  <1>6. ASSUME NEW c \in Calls, Key!release(c) PROVE ClaimsAreCounted'
    <2>1. CASE c \in effects
      <3>1. Claimants' \subseteq Claimants
        BY <1>6, <1>a, <2>1 DEF Key!release, Key!goTo, Key!reply, Claimants
      <3>2. \/ paid' = paid /\ (record' = NoRecord => record = NoRecord)
            \/ paid' = paid + 1
        BY <1>6, <1>a, <2>1 DEF Key!release, paid
      <3> QED BY <3>1, <3>2, <1>d
    <2>2. CASE c \notin effects
      <3>1. c \in Claimants
        BY <1>6, <1>a DEF Key!release, Claimants
      <3>2. Claimants' \subseteq Claimants \ {c}
        BY <1>6, <1>a, <2>2 DEF Key!release, Key!goTo, Key!reply, Claimants
      <3>3. Cardinality(Claimants') <= Cardinality(Claimants) - 1
        BY <1>b, <3>1, <3>2, CountOneLess
      <3>4. Cardinality(Claimants') \in Nat
        BY <1>b, <3>2, CountSubset
      <3>5. paid' = paid
        BY <1>6, <2>2 DEF Key!release, paid
      <3> QED BY <3>3, <3>4, <3>5, <1>a, <1>b, <1>c DEF ClaimsAreCounted
    <2> QED BY <2>1, <2>2
  <1> QED
    BY <1>1, <1>2, <1>3, <1>4, <1>5, <1>6 DEF Key!Next, Key!step

(* Each repetition of a committed mutation was paid for: by the takeover   *)
(* of an abandoned reservation, or by a call that threw after its commit   *)
(* and released the key.  Nothing else that fails, is lost or dies does.   *)
THEOREM RepeatsAreCounted == Key!Spec => []Key!RepeatsAreAccounted
  <1>1. ClaimInv => Key!RepeatsAreAccounted
    <2> SUFFICES ASSUME ClaimInv PROVE Key!RepeatsAreAccounted
      OBVIOUS
    <2>1. /\ effects \subseteq Claimants /\ Claimants \subseteq Calls
          /\ takeovers \in Nat /\ releases \in Nat
      BY DEF Claimants, ClaimInv, Key!TypeOK
    <2>2. IsFiniteSet(Claimants)
      BY <2>1, CallsAreFinite, CountSubset
    <2>3. /\ Cardinality(effects) <= Cardinality(Claimants)
          /\ Cardinality(effects) \in Nat /\ Cardinality(Claimants) \in Nat
      BY <2>1, <2>2, CountSubset
    <2>4. Cardinality(Claimants) <= takeovers + releases + 1
      BY DEF ClaimInv, ClaimsAreCounted, paid
    <2> QED BY <2>1, <2>3, <2>4, OneCardinality DEF Key!RepeatsAreAccounted
  <1> QED BY <1>1, ClaimInvInit, ClaimInvStep, PTL DEF Key!Spec

-----------------------------------------------------------------------------
(* Replays are real *)

isReal(result, hash, S) == IF result = Unknown THEN \E e \in S : Payload[e] = hash
                                               ELSE result \in S /\ Payload[result] = hash

StoredIsReal ==
    record # NoRecord /\ record.state = "completed"
       => isReal(record.result, record.hash, effects)

AnswersAreReal ==
    \A c \in Calls : answer[c].kind = "replay"
       => isReal(answer[c].result, Payload[c], effects)

ReplayInv == StoredIsReal /\ AnswersAreReal

LEMMA ReplayInvInit == Key!Init => ReplayInv
  BY DEF Key!Init, ReplayInv, StoredIsReal, AnswersAreReal, Key!answered

LEMMA ReplayInvStep ==
  Key!TypeOK /\ CommittedAreDone /\ ReplayInv /\ [Key!Next]_(Key!vars) => ReplayInv'
  <1> SUFFICES ASSUME Key!TypeOK, CommittedAreDone, ReplayInv, [Key!Next]_(Key!vars)
      PROVE  ReplayInv'
    OBVIOUS
  <1>a. /\ pc \in [Calls -> Key!Pcs] /\ answer \in [Calls -> Key!Answers]
        /\ effects \subseteq Calls
        /\ \A c \in Calls : pc[c] \in {"complete", "mark"} => c \in effects
    BY DEF Key!TypeOK, CommittedAreDone
  <1>b. StoredIsReal /\ AnswersAreReal
    BY DEF ReplayInv
  <1>c. effects \subseteq effects'
    BY DEF Key!Next, Key!vars, Key!step, Key!Tick, Key!begin, Key!create, Key!read,
           Key!deleteStale, Key!runCommits, Key!runFails, Key!runThrowsLate,
           Key!complete, Key!mark, Key!release, Key!retry, Key!writeFails, Key!crash
  (* A real result stays real.                                             *)
  <1>d. ASSUME NEW r, NEW h, isReal(r, h, effects) PROVE isReal(r, h, effects')
    BY <1>c, <1>d DEF isReal
  <1>e. ASSUME record' = record \/ record' = NoRecord \/ record'.state = "reserved"
        PROVE  StoredIsReal'
    BY <1>b, <1>d, <1>e DEF StoredIsReal
  <1>f. ASSUME NEW c \in Calls, answer' = [answer EXCEPT ![c] = answer'[c]],
               answer'[c].kind = "replay" => isReal(answer'[c].result, Payload[c], effects)
        PROVE  AnswersAreReal'
    BY <1>a, <1>b, <1>d, <1>f DEF AnswersAreReal
  <1>g. ASSUME UNCHANGED answer
        PROVE  AnswersAreReal'
    BY <1>b, <1>d, <1>g DEF AnswersAreReal
  <1>1. CASE Key!Tick \/ UNCHANGED Key!vars
    BY <1>1, <1>e, <1>g DEF Key!Tick, Key!vars, ReplayInv
  <1>2. ASSUME NEW c \in Calls,
               Key!begin(c) \/ Key!runCommits(c) \/ Key!runFails(c)
                            \/ Key!runThrowsLate(c) \/ Key!crash(c)
        PROVE  ReplayInv'
    BY <1>2, <1>e, <1>g
       DEF Key!begin, Key!runCommits, Key!runFails, Key!runThrowsLate, Key!crash,
           ReplayInv
  <1>3. ASSUME NEW c \in Calls, Key!create(c) PROVE ReplayInv'
    BY <1>3, <1>e, <1>g DEF Key!create, ReplayInv
  <1>4. ASSUME NEW c \in Calls, Key!read(c) PROVE ReplayInv'
    <2>1. \/ UNCHANGED answer
          \/ /\ answer' = [answer EXCEPT ![c] = Key!answered("replay", record.result)]
             /\ record # NoRecord /\ record.state = "completed" /\ record.hash = Payload[c]
          \/ answer' = [answer EXCEPT ![c] = Key!answered("conflict", NoRecord)]
          \/ answer' = [answer EXCEPT ![c] = Key!answered("inProgress", NoRecord)]
      BY <1>4 DEF Key!read, Key!nextRound, Key!reply, Key!sameRequest
    <2>2. AnswersAreReal'
      BY <2>1, <1>a, <1>b, <1>f, <1>g DEF StoredIsReal, Key!answered
    <2> QED BY <1>4, <2>2, <1>e DEF Key!read, ReplayInv
  <1>5. ASSUME NEW c \in Calls,
               Key!deleteStale(c) \/ Key!release(c) \/ Key!retry(c) \/
               Key!writeFails(c)
        PROVE  ReplayInv'
    <2>1. \/ UNCHANGED answer
          \/ \E kind \in {"inProgress", "error", "own", "none"}, r \in {NoRecord, c} :
                answer' = [answer EXCEPT ![c] = Key!answered(kind, r)]
      BY <1>5
         DEF Key!deleteStale, Key!nextRound, Key!release, Key!retry, Key!writeFails,
             Key!reply
    <2>2. AnswersAreReal'
      BY <2>1, <1>a, <1>f, <1>g DEF Key!answered
    <2> QED BY <1>5, <2>2, <1>e
      DEF Key!deleteStale, Key!release, Key!retry, Key!writeFails, ReplayInv
  <1>6. ASSUME NEW c \in Calls, Key!complete(c) \/ Key!mark(c) PROVE ReplayInv'
    <2>1. UNCHANGED answer \/ answer' = [answer EXCEPT ![c] = Key!answered("own", c)]
      BY <1>6 DEF Key!complete, Key!mark, Key!reply
    <2>2. AnswersAreReal'
      BY <2>1, <1>a, <1>f, <1>g DEF Key!answered
    <2>3. c \in effects' /\ Unknown # c
      BY <1>6, <1>a, <1>c, NamesAreApart DEF Key!complete, Key!mark
    <2>4. \/ record' = record
          \/ record' = [state |-> "completed", hash |-> Payload[c], result |-> c,
                        touched |-> now]
          \/ record' = [state |-> "completed", hash |-> Payload[c], result |-> Unknown,
                        touched |-> now]
      BY <1>6 DEF Key!complete, Key!mark, Key!recordResult
    <2>5. StoredIsReal'
      BY <2>3, <2>4, <1>e DEF StoredIsReal, isReal
    <2> QED BY <2>2, <2>5 DEF ReplayInv
  <1> QED
    BY <1>1, <1>2, <1>3, <1>4, <1>5, <1>6 DEF Key!Next, Key!step

(* A replay always stands for a committed mutation with the payload of the *)
(* call it is handed to, also after results were recorded late, lost or    *)
(* replaced by the marker.                                                 *)
THEOREM ReplaysStandForMutations == Key!Spec => []Key!ReplaysAreReal
  <1>1. ReplayInv => Key!ReplaysAreReal
    BY DEF ReplayInv, AnswersAreReal, Key!ReplaysAreReal, isReal
  <1>2. Key!Init => Key!TypeOK /\ CommittedAreDone /\ ReplayInv
    BY CommandsInit, CommittedInit, ReplayInvInit
  <1>3. Key!TypeOK /\ CommittedAreDone /\ ReplayInv /\ [Key!Next]_(Key!vars)
        => (Key!TypeOK /\ CommittedAreDone /\ ReplayInv)'
    BY CommandsStep, CommittedStep, ReplayInvStep
  <1> QED BY <1>1, <1>2, <1>3, PTL DEF Key!Spec

-----------------------------------------------------------------------------
(* The run's properties: each system goes its own way or stands still.     *)
(***************************************************************************)

LEMMA JobsBeside == MCSpec => JobInit /\ [][JobNext]_jobVars
  <1>1. MCInit => JobInit
    BY Zenon DEF MCInit
  <1>2. [MCNext]_mcVars => [JobNext]_jobVars
    BY Zenon DEF MCNext, mcVars, apiVars, commandVars, jobVars
  <1> QED
    BY <1>1, <1>2, PTL DEF MCSpec

LEMMA ApiBeside == MCSpec => Api!Init /\ [][Api!Next]_(Api!vars)
  <1>1. MCInit => Api!Init
    BY Zenon DEF MCInit
  <1>2. [MCNext]_mcVars => [Api!Next]_(Api!vars)
    BY Zenon DEF MCNext, mcVars, apiVars, Api!vars
  <1> QED
    BY <1>1, <1>2, PTL DEF MCSpec

LEMMA CommandsBeside == MCSpec => Key!Spec
  <1>1. MCInit => Key!Init
    BY Zenon DEF MCInit
  <1>2. [MCNext]_mcVars => [Key!Next]_(Key!vars)
    BY Zenon DEF MCNext, mcVars, commandVars, Key!vars
  <1> QED
    BY <1>1, <1>2, PTL DEF MCSpec, Key!Spec

LEMMA JobsInvariant == MCSpec => []JobsInv
  BY JobsBeside, JobsStart, JobsStep, PTL

LEMMA ApiInvariant == MCSpec => []ApiInv
  BY ApiBeside, ApiStart, ApiStep, PTL

(* Jobs, the API process and commands are always well typed, and a task is *)
(* never tried more often than its handler entry grants.                   *)
THEOREM ProcessesAreTyped == MCSpec => []TypesHold
  <1>1. JobsInv /\ ApiInv /\ Key!TypeOK => TypesHold
    BY DEF JobsInv, ApiInv, TypesHold
  <1> QED
    BY <1>1, JobsInvariant, ApiInvariant, CommandsBeside, CommandsAreTyped, PTL

(* However many processes run the jobs: one at a time is at it unless it   *)
(* outran its transaction, every row in work has its runner, and within    *)
(* the grace period the API process leaves nothing it promised undone.     *)
THEOREM StopsStayOrderly == MCSpec => []StopsAreOrderly
  <1>1. JobsInv /\ ApiInv => StopsAreOrderly
    BY RunsAreWhole, NothingIsLeft DEF StopsAreOrderly
  <1> QED
    BY <1>1, JobsInvariant, ApiInvariant, PTL

(* The safety half of KeepsTheLifecycle: every step of the processes, with *)
(* stops, crashes and lost locks, is a step of the promised life of a task *)
(* or leaves it alone.                                                     *)
THEOREM JobsImplementTheLifecycle == MCSpec => Spec
  <1>1. JobInit => Init
    BY DEF JobInit
  <1> QED
    BY <1>1, JobsBeside, JobsSimulate, PTL DEF Spec

(* Of the run: no repetition without a takeover, or a release of the key   *)
(* by a call that committed and threw.                                     *)
THEOREM RepeatsAreAlwaysAccounted == MCSpec => []RepeatsAreAccounted
  BY CommandsBeside, RepeatsAreCounted, PTL DEF RepeatsAreAccounted

(* Of the run: replays stand for committed mutations.                      *)
THEOREM ReplaysAlwaysStand == MCSpec => []ReplaysAreReal
  BY CommandsBeside, ReplaysStandForMutations, PTL DEF ReplaysAreReal
=============================================================================
