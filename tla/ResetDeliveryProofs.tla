------------------------ MODULE ResetDeliveryProofs ------------------------
(***************************************************************************)
(* Proofs about ResetDelivery, for any tasks, attempts, windows and any    *)
(* bound of the clock: the types, the spacing of the links, the retries    *)
(* the cooldown does not swallow, and the link that a task given up does   *)
(* not leave behind.                                                       *)
(***************************************************************************)
EXTENDS ResetDelivery, TLAPS

born(a) == tokens[a].row # "unborn"

(* An attempt has a task once it began, a token once it minted, and began  *)
(* in the past.                                                            *)
AttemptInv == \A a \in Attempts :
                /\ of[a] = None <=> pc[a] = "idle"
                /\ pc[a] = "idle" => a \notin aborted
                /\ pc[a] \in {"idle", "mint"} => ~born(a)
                /\ tokens[a].row # "deleted"
                /\ startedAt[a] <= now

(* A task is processing as long as it has a runner, one of its attempts,   *)
(* and is never tried once too often.                                      *)
TaskInv == \A k \in Tasks :
             /\ status[k] = "processing" <=> runner[k] # None
             /\ runner[k] # None => of[runner[k]] = k
             /\ status[k] \in {"unasked", "pending", "processing"} => attempts[k] < MaxAttempts
             /\ status[k] = "unasked" => \A a \in Attempts : of[a] # k

Lucky == Tasks \ unlucky

(* Of a task without a mishap only the runner is under way, within its     *)
(* deadline; the other attempts are over.                                  *)
RunInv == \A a \in Attempts : of[a] \in Lucky =>
            /\ a \notin aborted
            /\ pc[a] \in InFlight \cup {"over"}
            /\ pc[a] \in InFlight => /\ runner[of[a]] = a
                                     /\ now <= startedAt[a] + Deadline
                                     /\ born(a) => tokens[a].createdAt <= startedAt[a] + Deadline

(* Its earlier tokens cooled down before the next attempt may begin, or    *)
(* began.                                                                  *)
CooledInv == \A t \in Attempts : of[t] \in Lucky /\ pc[t] = "over" /\ born(t) =>
               /\ status[of[t]] = "pending" => tokens[t].createdAt + Cooldown < due[of[t]]
               /\ status[of[t]] = "processing" =>
                    tokens[t].createdAt + Cooldown < startedAt[runner[of[t]]]

(* So whoever was skipped met the token of another task.                   *)
SkippedInv == \A a \in Attempts : of[a] \in Lucky /\ pc[a] = "skipped" =>
                \E b \in Attempts : of[b] \notin {of[a], None} /\ born(b)

(* An attempt past its mint has used up the earlier tokens of its task,    *)
(* and one that threw for good its own.                                    *)
UsedInv == \A a \in Attempts : of[a] \in Lucky =>
             /\ pc[a] \in {"send", "compensate", "done", "thrown"} =>
                  \A t \in Attempts \ {a} : of[t] = of[a] => ~outstanding(t)
             /\ pc[a] = "thrown" =>
                  ~outstanding(a) \/ (~finalAttempt(a) /\ failure[a] # "terminal")

DeliveryInv == /\ TypeOK /\ AttemptInv /\ TaskInv
               /\ RunInv /\ CooledInv /\ SkippedInv /\ UsedInv
               /\ CooldownHolds /\ GivenUpLeavesNoLink
-----------------------------------------------------------------------------
(* The statements on the tokens.  Only a mint gives birth to a token or    *)
(* leaves one outstanding that was not.                                    *)
KeepsTokens == \A t \in Tokens : /\ tokens'[t].createdAt = tokens[t].createdAt
                                 /\ tokens'[t].row = "unborn" <=> tokens[t].row = "unborn"
                                 /\ tokens'[t].row = "unused" => tokens[t].row = "unused"
                                 /\ tokens'[t].row = "deleted" <=> tokens[t].row = "deleted"

LEMMA UsingUp == ASSUME tokens \in [Tokens -> Token], NEW t \in Tokens
                 PROVE  /\ usedUp(t) \in Token
                        /\ usedUp(t).createdAt = tokens[t].createdAt
                        /\ usedUp(t).row = "unborn" <=> tokens[t].row = "unborn"
                        /\ usedUp(t).row # "unused"
                        /\ usedUp(t).row = "deleted" <=> tokens[t].row = "deleted"
  BY DEF usedUp, outstanding, inRow, Token

LEMMA UsingAllUp ==
    ASSUME tokens \in [Tokens -> Token], tokens' = allUsed
    PROVE  /\ tokens' \in [Tokens -> Token]
           /\ KeepsTokens
           /\ \A t \in Tokens : tokens'[t].row # "unused"
<1>1. \A t \in Tokens : tokens'[t] = usedUp(t) /\ usedUp(t) \in Token
  BY UsingUp DEF allUsed
<1>2. tokens' \in [Tokens -> Token]
  BY <1>1 DEF allUsed
<1> QED BY <1>1, <1>2, UsingUp DEF KeepsTokens

LEMMA TakingBack ==
    ASSUME tokens \in [Tokens -> Token], NEW a \in Tokens, tokens' = without(a)
    PROVE  /\ tokens' \in [Tokens -> Token]
           /\ KeepsTokens
           /\ tokens'[a].row # "unused"
<1>1. \A t \in Tokens : tokens'[t] = IF t = a THEN usedUp(a) ELSE tokens[t]
  BY DEF without
<1>2. tokens' \in [Tokens -> Token]
  BY UsingUp DEF without
<1> QED BY <1>1, <1>2, UsingUp DEF KeepsTokens

LEMMA Minting ==
    ASSUME now \in Nat, tokens \in [Tokens -> Token],
           NEW a \in Tokens, NEW at \in Nat, tokens' = withNew(a, at)
    PROVE  /\ tokens' \in [Tokens -> Token]
           /\ tokens'[a].row = "unused" /\ tokens'[a].createdAt = now
           /\ \A t \in Tokens \ {a} :
                /\ tokens'[t].createdAt = tokens[t].createdAt
                /\ tokens'[t].row = "unborn" <=> tokens[t].row = "unborn"
                /\ tokens'[t].row # "unused"
                /\ tokens'[t].row = "deleted" <=> tokens[t].row = "deleted"
<1>1. newToken(at) \in Token /\ newToken(at).row = "unused" /\ newToken(at).createdAt = now
  BY TokenWindowsAssumption DEF newToken, Token
<1>2. /\ tokens'[a] = newToken(at)
      /\ \A t \in Tokens \ {a} : tokens'[t] = usedUp(t)
  BY DEF withNew, allUsed
<1>3. \A t \in Tokens : usedUp(t) \in Token
  BY UsingUp
<1>4. tokens' \in [Tokens -> Token]
  BY <1>1, <1>3 DEF withNew, allUsed
<1> QED BY <1>1, <1>2, <1>4, UsingUp

LEMMA TokenSteps ==
    ASSUME TypeOK, Next, \A a \in Attempts : ~mint(a)
    PROVE  tokens' \in [Tokens -> Token] /\ KeepsTokens
<1>1. CASE tokens' = tokens
  BY <1>1 DEF TypeOK, KeepsTokens
<1>2. CASE redeem
  BY <1>2, UsingAllUp DEF redeem, TypeOK
<1>3. ASSUME NEW a \in Attempts, compensate(a)
      PROVE  tokens' \in [Tokens -> Token] /\ KeepsTokens
  BY <1>3, TakingBack, AttemptsAssumption DEF compensate, TypeOK
<1> QED
  BY <1>1, <1>2, <1>3 DEF Next, deliver, drain, Tick, request, recover, claim, report,
     deadlinePasses, abandonedEnds, crash, cooledDown, mintFails, sendSucceeds, sendFails,
     compensateFails

-----------------------------------------------------------------------------
(* The parts of the invariant, one lemma each.  A hypothesis holds of the  *)
(* state before the step.                                                  *)
LEMMA InFlightIsLucky ==
    ASSUME TypeOK, AttemptInv, TaskInv, RunInv,
           NEW a \in Attempts, of[a] \in Lucky, pc[a] \in InFlight
    PROVE  runner[of[a]] = a /\ status[of[a]] = "processing" /\ a \notin aborted
  BY AttemptsAssumption DEF TypeOK, TaskInv, RunInv, Lucky

LEMMA TypesNext == ASSUME TypeOK, AttemptInv, TaskInv, Next PROVE TypeOK'
<1> USE AttemptsAssumption, DeliveryAssumption DEF TypeOK
<1>1. CASE Tick BY <1>1 DEF Tick, task, attempt
<1>2. CASE redeem BY <1>2, UsingAllUp DEF redeem, task, attempt
<1>3. ASSUME NEW k \in Tasks, request(k) PROVE TypeOK'
  BY <1>3 DEF request, attempt
<1>4. ASSUME NEW k \in Tasks, recover(k) PROVE TypeOK'
  BY <1>4 DEF recover, attempt
<1>5. ASSUME NEW a \in Attempts, mint(a) PROVE TypeOK'
  BY <1>5, Minting DEF mint, task, goTo, InFlight
<1>6. ASSUME NEW a \in Attempts, cooledDown(a) PROVE TypeOK'
  BY <1>6 DEF cooledDown, task, goTo, InFlight
<1>7. ASSUME NEW a \in Attempts, mintFails(a) PROVE TypeOK'
  BY <1>7 DEF mintFails, throws, task, goTo, InFlight, AttemptInv
<1>8. ASSUME NEW a \in Attempts, sendSucceeds(a) PROVE TypeOK'
  BY <1>8 DEF sendSucceeds, task, goTo, InFlight
<1>9. ASSUME NEW a \in Attempts, sendFails(a) PROVE TypeOK'
  BY <1>9 DEF sendFails, task, goTo, InFlight
<1>10. ASSUME NEW a \in Attempts, compensate(a) PROVE TypeOK'
  BY <1>10, TakingBack DEF compensate, task, goTo, InFlight
<1>11. ASSUME NEW a \in Attempts, compensateFails(a) PROVE TypeOK'
  BY <1>11 DEF compensateFails, throws, task, goTo, InFlight, AttemptInv
<1>12. ASSUME NEW a \in Attempts, claim(a) PROVE TypeOK'
  BY <1>12 DEF claim, goTo, InFlight, TaskInv
<1>13. ASSUME NEW a \in Attempts, report(a) PROVE TypeOK'
  <2>1. of[a] \in Tasks BY <1>13 DEF report, AttemptInv
  <2>2. status' \in [Tasks -> {"unasked", "pending", "processing"} \cup Terminal] /\ due' \in [Tasks -> Nat]
    BY <1>13, <2>1 DEF report, failed, retryAt, Terminal
  <2> QED BY <1>13, <2>1, <2>2 DEF report, concluded, ends, goTo, InFlight
<1>14. ASSUME NEW a \in Attempts, deadlinePasses(a) PROVE TypeOK'
  <2>1. of[a] \in Tasks BY <1>14 DEF deadlinePasses, Waited, InFlight, AttemptInv
  <2>2. status' \in [Tasks -> {"unasked", "pending", "processing"} \cup Terminal] /\ due' \in [Tasks -> Nat]
    BY <1>14, <2>1 DEF deadlinePasses, failed, retryAt, Terminal
  <2> QED BY <1>14, <2>1, <2>2 DEF deadlinePasses, concluded
<1>15. ASSUME NEW a \in Attempts, abandonedEnds(a) PROVE TypeOK'
  BY <1>15 DEF abandonedEnds, ends, goTo, InFlight, task
<1>16. ASSUME NEW a \in Attempts, crash(a) PROVE TypeOK'
  BY <1>16 DEF crash, goTo, InFlight, AttemptInv, task
<1> QED BY <1>1, <1>2, <1>3, <1>4, <1>5, <1>6, <1>7, <1>8, <1>9, <1>10, <1>11, <1>12, <1>13,
           <1>14, <1>15, <1>16 DEF Next, deliver, drain

LEMMA AttemptsNext == ASSUME TypeOK, AttemptInv, Next PROVE AttemptInv'
<1> USE AttemptsAssumption, DeliveryAssumption DEF TypeOK, AttemptInv
<1>1. ASSUME NEW m \in Attempts, mint(m) PROVE AttemptInv'
  BY <1>1, Minting DEF mint, goTo, born, task
<1>2. CASE \A a \in Attempts : ~mint(a)
  <2>1. \A a \in Attempts : /\ born(a)' <=> born(a)
                            /\ tokens'[a].row # "deleted"
    BY <1>2, TokenSteps DEF KeepsTokens, born
  <2>2. CASE Tick \/ redeem BY <2>1, <2>2 DEF Tick, redeem, attempt
  <2>3. ASSUME NEW k \in Tasks, request(k) \/ recover(k) PROVE AttemptInv'
    BY <2>1, <2>3 DEF request, recover, attempt
  <2>4. ASSUME NEW a \in Attempts, deliver(a) PROVE AttemptInv'
    <3>1. CASE cooledDown(a) BY <2>1, <3>1 DEF cooledDown, goTo
    <3>2. CASE mintFails(a) \/ compensateFails(a)
      BY <2>1, <3>2 DEF mintFails, compensateFails, throws, goTo
    <3>3. CASE sendSucceeds(a) BY <2>1, <3>3 DEF sendSucceeds, goTo
    <3>4. CASE sendFails(a) BY <2>1, <3>4 DEF sendFails, goTo
    <3>5. CASE compensate(a) BY <2>1, <3>5 DEF compensate, goTo
    <3> QED BY <1>2, <2>4, <3>1, <3>2, <3>3, <3>4, <3>5 DEF deliver
  <2>5. ASSUME NEW a \in Attempts, drain(a) PROVE AttemptInv'
    <3>1. CASE claim(a) BY <2>1, <3>1 DEF claim, goTo
    <3>2. CASE report(a) BY <2>1, <3>2 DEF report, ends, goTo
    <3>3. CASE deadlinePasses(a) BY <2>1, <3>3 DEF deadlinePasses, Waited, InFlight
    <3>4. CASE abandonedEnds(a) BY <2>1, <3>4 DEF abandonedEnds, ends, goTo
    <3>5. CASE crash(a) BY <2>1, <3>5 DEF crash, goTo, InFlight
    <3> QED BY <2>5, <3>1, <3>2, <3>3, <3>4, <3>5 DEF drain
  <2> QED BY <2>2, <2>3, <2>4, <2>5 DEF Next
<1> QED BY <1>1, <1>2

LEMMA TasksNext == ASSUME TypeOK, AttemptInv, TaskInv, Next PROVE TaskInv'
<1> USE AttemptsAssumption, DeliveryAssumption DEF TypeOK, TaskInv
<1>1. CASE Tick \/ redeem BY <1>1 DEF Tick, redeem, attempt, task
<1>2. ASSUME NEW k \in Tasks, request(k) PROVE TaskInv'
  BY <1>2 DEF request, attempt
<1>3. ASSUME NEW k \in Tasks, recover(k) PROVE TaskInv'
  BY <1>3 DEF recover, attempt
<1>4. ASSUME NEW a \in Attempts, deliver(a) PROVE TaskInv'
  BY <1>4 DEF deliver, mint, cooledDown, mintFails, sendSucceeds, sendFails, compensate,
     compensateFails, throws, task
<1>5. ASSUME NEW a \in Attempts, claim(a) PROVE TaskInv'
  BY <1>5 DEF claim, AttemptInv
<1>6. ASSUME NEW a \in Attempts, report(a) PROVE TaskInv'
  <2>1. of[a] \in Tasks BY <1>6 DEF report, AttemptInv
  <2>2. /\ status' \in [Tasks -> {"unasked", "pending", "processing"} \cup Terminal]
        /\ \A k \in Tasks : k # of[a] => status'[k] = status[k]
        /\ status'[of[a]] \in {"pending", "done", "skipped", "failed"}
        /\ status'[of[a]] = "pending" => number[a] < MaxAttempts
    BY <1>6, <2>1 DEF report, failed, finalAttempt, Terminal
  <2>3. /\ runner' = [runner EXCEPT ![of[a]] = None]
        /\ attempts' = [attempts EXCEPT ![of[a]] = number[a]] /\ UNCHANGED of
    BY <1>6 DEF report, concluded
  <2> QED BY <2>1, <2>2, <2>3
<1>7. ASSUME NEW a \in Attempts, deadlinePasses(a) PROVE TaskInv'
  <2>1. of[a] \in Tasks BY <1>7 DEF deadlinePasses, Waited, InFlight, AttemptInv
  <2>2. /\ status' \in [Tasks -> {"unasked", "pending", "processing"} \cup Terminal]
        /\ \A k \in Tasks : k # of[a] => status'[k] = status[k]
        /\ status'[of[a]] \in {"pending", "failed"}
        /\ status'[of[a]] = "pending" => number[a] < MaxAttempts
    BY <1>7, <2>1 DEF deadlinePasses, failed, finalAttempt, Terminal
  <2>3. /\ runner' = [runner EXCEPT ![of[a]] = None]
        /\ attempts' = [attempts EXCEPT ![of[a]] = number[a]] /\ UNCHANGED of
    BY <1>7 DEF deadlinePasses, concluded
  <2> QED BY <2>1, <2>2, <2>3
<1>8. ASSUME NEW a \in Attempts, abandonedEnds(a) \/ crash(a) PROVE TaskInv'
  BY <1>8 DEF abandonedEnds, crash, task
<1> QED BY <1>1, <1>2, <1>3, <1>4, <1>5, <1>6, <1>7, <1>8 DEF Next, drain

LEMMA RunsNext ==
    ASSUME TypeOK, AttemptInv, TaskInv, RunInv, Next PROVE RunInv'
<1> USE AttemptsAssumption, DeliveryAssumption DEF TypeOK, RunInv, Lucky
<1>1. ASSUME NEW m \in Attempts, mint(m) PROVE RunInv'
  BY <1>1, Minting DEF mint, goTo, born, task, InFlight
<1>2. CASE \A a \in Attempts : ~mint(a)
  <2>1. \A a \in Attempts : /\ born(a)' <=> born(a)
                            /\ tokens'[a].createdAt = tokens[a].createdAt
                            /\ tokens[a].createdAt \in Nat
    BY <1>2, TokenSteps DEF KeepsTokens, born, Token
  <2>2. CASE Tick BY <2>1, <2>2 DEF Tick, attempt, task, Waited
  <2>3. CASE redeem BY <2>1, <2>3 DEF redeem, attempt, task
  <2>4. ASSUME NEW k \in Tasks, request(k) PROVE RunInv'
    BY <2>1, <2>4 DEF request, attempt
  <2>5. ASSUME NEW k \in Tasks, recover(k) PROVE RunInv'
    BY <2>1, <2>5 DEF recover, attempt, TaskInv, InFlight
  <2>6. ASSUME NEW a \in Attempts, deliver(a) PROVE RunInv'
    <3>1. CASE cooledDown(a) BY <2>1, <3>1 DEF cooledDown, goTo, task, InFlight
    <3>2. CASE mintFails(a) \/ compensateFails(a)
      BY <2>1, <3>2 DEF mintFails, compensateFails, throws, goTo, task, InFlight
    <3>3. CASE sendSucceeds(a) BY <2>1, <3>3 DEF sendSucceeds, goTo, task, InFlight
    <3>4. CASE sendFails(a) BY <2>1, <3>4 DEF sendFails, goTo, task, InFlight
    <3>5. CASE compensate(a) BY <2>1, <3>5 DEF compensate, goTo, task, InFlight
    <3> QED BY <1>2, <2>6, <3>1, <3>2, <3>3, <3>4, <3>5 DEF deliver
  <2>7. ASSUME NEW a \in Attempts, drain(a) PROVE RunInv'
    <3>1. CASE claim(a)
      <4>1. PICK k \in Tasks :
              /\ status[k] = "pending" /\ pc[a] = "idle"
              /\ runner' = [runner EXCEPT ![k] = a] /\ of' = [of EXCEPT ![a] = k]
              /\ startedAt' = [startedAt EXCEPT ![a] = now] /\ pc' = [pc EXCEPT ![a] = "mint"]
              /\ UNCHANGED <<now, tokens, aborted, unlucky>>
        BY <3>1 DEF claim, goTo
      <4> QED BY <2>1, <4>1 DEF InFlight, AttemptInv, TaskInv
    <3>2. CASE report(a) BY <2>1, <3>2 DEF report, concluded, ends, goTo, InFlight, AttemptInv
    <3>3. CASE deadlinePasses(a)
      BY <2>1, <3>3 DEF deadlinePasses, concluded, Waited, AttemptInv, InFlight
    <3>4. CASE abandonedEnds(a) BY <2>1, <3>4 DEF abandonedEnds, ends, goTo, task, InFlight
    <3>5. CASE crash(a) BY <2>1, <3>5 DEF crash, goTo, InFlight, task
    <3> QED BY <2>7, <3>1, <3>2, <3>3, <3>4, <3>5 DEF drain
  <2> QED BY <2>2, <2>3, <2>4, <2>5, <2>6, <2>7 DEF Next
<1> QED BY <1>1, <1>2

LEMMA CooledNext ==
    ASSUME TypeOK, AttemptInv, TaskInv, RunInv, CooledInv, Next PROVE CooledInv'
<1> USE AttemptsAssumption, DeliveryAssumption, TokenWindowsAssumption
    DEF TypeOK, CooledInv, Lucky
<1>1. ASSUME NEW m \in Attempts, mint(m) PROVE CooledInv'
  BY <1>1, Minting DEF mint, goTo, born, task
<1>2. CASE \A a \in Attempts : ~mint(a)
  <2>1. \A a \in Attempts : /\ born(a)' <=> born(a)
                            /\ tokens'[a].createdAt = tokens[a].createdAt
                            /\ tokens[a].createdAt \in Nat
    BY <1>2, TokenSteps DEF KeepsTokens, born, Token
  <2>2. CASE Tick \/ redeem BY <2>1, <2>2 DEF Tick, redeem, attempt, task
  <2>3. ASSUME NEW k \in Tasks, request(k) PROVE CooledInv'
    BY <2>1, <2>3 DEF request, attempt, TaskInv
  <2>4. ASSUME NEW k \in Tasks, recover(k) PROVE CooledInv'
    BY <2>1, <2>4 DEF recover, attempt, TaskInv, RunInv, InFlight
  <2>5. ASSUME NEW a \in Attempts, deliver(a) PROVE CooledInv'
    <3>1. CASE cooledDown(a) BY <2>1, <3>1 DEF cooledDown, goTo, task
    <3>2. CASE mintFails(a) \/ compensateFails(a)
      BY <2>1, <3>2 DEF mintFails, compensateFails, throws, goTo, task
    <3>3. CASE sendSucceeds(a) BY <2>1, <3>3 DEF sendSucceeds, goTo, task
    <3>4. CASE sendFails(a) BY <2>1, <3>4 DEF sendFails, goTo, task
    <3>5. CASE compensate(a) BY <2>1, <3>5 DEF compensate, goTo, task
    <3> QED BY <1>2, <2>5, <3>1, <3>2, <3>3, <3>4, <3>5 DEF deliver
  <2>6. ASSUME NEW a \in Attempts, claim(a) PROVE CooledInv'
    <3>1. PICK k \in Tasks :
            /\ status[k] = "pending" /\ due[k] <= now /\ pc[a] = "idle"
            /\ status' = [status EXCEPT ![k] = "processing"]
            /\ runner' = [runner EXCEPT ![k] = a] /\ of' = [of EXCEPT ![a] = k]
            /\ startedAt' = [startedAt EXCEPT ![a] = now] /\ pc' = [pc EXCEPT ![a] = "mint"]
            /\ UNCHANGED <<now, tokens, due, unlucky>>
      BY <2>6 DEF claim, goTo
    <3> SUFFICES ASSUME NEW t \in Attempts, of'[t] \in Tasks \ unlucky', pc'[t] = "over", born(t)'
                 PROVE  /\ status'[of'[t]] = "pending" => tokens'[t].createdAt + Cooldown < due'[of'[t]]
                        /\ status'[of'[t]] = "processing" =>
                             tokens'[t].createdAt + Cooldown < startedAt'[runner'[of'[t]]]
      OBVIOUS
    <3>2. t # a /\ of'[t] = of[t] /\ pc[t] = "over" /\ of[t] \in Tasks \ unlucky /\ born(t)
      BY <2>1, <3>1
    <3>3. CASE of[t] = k
      BY <2>1, <3>1, <3>2, <3>3
    <3>4. CASE of[t] # k
      <4>1. runner[of[t]] # a
        BY <3>1, <3>2, <3>4 DEF AttemptInv, TaskInv
      <4>2. status[of[t]] = "processing" => runner[of[t]] \in Attempts
        BY <3>2 DEF TaskInv
      <4> QED BY <2>1, <3>1, <3>2, <3>4, <4>1, <4>2
    <3> QED BY <3>3, <3>4
  <2>7. ASSUME NEW a \in Attempts, report(a) PROVE CooledInv'
    <3>1. /\ of[a] \in Tasks /\ runner[of[a]] = a /\ pc[a] \in {"done", "skipped", "thrown"}
          /\ status[of[a]] = "processing"
      BY <2>7 DEF report, AttemptInv, TaskInv
    <3>2. /\ \A k \in Tasks : k # of[a] => status'[k] = status[k] /\ due'[k] = due[k]
          /\ status'[of[a]] # "processing"
          /\ status'[of[a]] = "pending" => due'[of[a]] = startedAt[a] + Delay
      BY <2>7, <3>1 DEF report, failed, retryAt
    <3>3. /\ runner' = [runner EXCEPT ![of[a]] = None] /\ UNCHANGED <<of, tokens, unlucky>>
          /\ startedAt' = [startedAt EXCEPT ![a] = 0] /\ pc' = [pc EXCEPT ![a] = "over"]
      BY <2>7 DEF report, concluded, ends, goTo
    <3> SUFFICES ASSUME NEW t \in Attempts, of'[t] \in Tasks \ unlucky', pc'[t] = "over", born(t)'
                 PROVE  /\ status'[of'[t]] = "pending" => tokens'[t].createdAt + Cooldown < due'[of'[t]]
                        /\ status'[of'[t]] = "processing" =>
                             tokens'[t].createdAt + Cooldown < startedAt'[runner'[of'[t]]]
      OBVIOUS
    <3>4. of'[t] = of[t] /\ of[t] \in Tasks \ unlucky /\ born(t)
      BY <2>1, <3>3
    <3>5. CASE t = a
      <4>1. tokens[a].createdAt <= startedAt[a] + Deadline
        BY <3>1, <3>4, <3>5 DEF RunInv, InFlight
      <4> QED BY <2>1, <3>2, <3>4, <3>5, <4>1
    <3>6. CASE t # a /\ of[t] = of[a]
      <4>1. tokens[t].createdAt + Cooldown < startedAt[a]
        BY <3>1, <3>3, <3>4, <3>6
      <4> QED BY <2>1, <3>2, <3>4, <3>6, <4>1
    <3>7. CASE t # a /\ of[t] # of[a]
      <4>1. runner[of[t]] # a
        BY <3>1, <3>4, <3>7 DEF TaskInv
      <4>2. status[of[t]] = "processing" => runner[of[t]] \in Attempts
        BY <3>4 DEF TaskInv
      <4> QED BY <2>1, <3>2, <3>3, <3>4, <3>7, <4>1, <4>2
    <3> QED BY <3>5, <3>6, <3>7
  <2>8. ASSUME NEW a \in Attempts, deadlinePasses(a) PROVE CooledInv'
    <3>1. of[a] \in Tasks
      BY <2>8 DEF deadlinePasses, Waited, InFlight, AttemptInv
    <3>2. /\ \A k \in Tasks \ {of[a]} : /\ status'[k] = status[k] /\ due'[k] = due[k]
                                        /\ runner'[k] = runner[k]
          /\ of[a] \in unlucky' /\ unlucky \subseteq unlucky' /\ UNCHANGED <<tokens, pc, of, startedAt>>
      BY <2>8, <3>1 DEF deadlinePasses, failed, concluded
    <3> QED BY <2>1, <3>1, <3>2
  <2>9. ASSUME NEW a \in Attempts, abandonedEnds(a) PROVE CooledInv'
    <3>1. of[a] \notin Lucky
      BY <2>9 DEF abandonedEnds, RunInv
    <3>2. /\ startedAt' = [startedAt EXCEPT ![a] = 0] /\ pc' = [pc EXCEPT ![a] = "over"]
          /\ UNCHANGED <<tokens, task, of, unlucky>>
      BY <2>9 DEF abandonedEnds, ends, goTo
    <3>3. \A k \in Tasks \ unlucky : runner[k] # a
      BY <3>1 DEF TaskInv
    <3> QED BY <2>1, <3>1, <3>2, <3>3 DEF task, TaskInv
  <2>10. ASSUME NEW a \in Attempts, crash(a) PROVE CooledInv'
    BY <2>1, <2>10 DEF crash, goTo, task
  <2> QED BY <2>2, <2>3, <2>4, <2>5, <2>6, <2>7, <2>8, <2>9, <2>10 DEF Next, drain
<1> QED BY <1>1, <1>2

(* The token an attempt meets in its cooldown is of another task.          *)
LEMMA WhomItMeets ==
    ASSUME TypeOK, AttemptInv, TaskInv, RunInv, CooledInv,
           NEW a \in Attempts, of[a] \in Lucky, cooledDown(a)
    PROVE  \E b \in Attempts : of[b] \notin {of[a], None} /\ born(b)
<1> USE AttemptsAssumption, DeliveryAssumption, TokenWindowsAssumption DEF TypeOK
<1>1. PICK t \in Attempts : stored(t) /\ tokens[t].createdAt >= startedAt[a] - Cooldown
  BY DEF cooledDown, recentAt
<1>2. born(t) /\ t # a /\ of[t] # None /\ tokens[t].createdAt \in Nat
  BY <1>1 DEF stored, born, cooledDown, AttemptInv, Token
<1>3. runner[of[a]] = a /\ status[of[a]] = "processing"
  BY InFlightIsLucky DEF cooledDown, InFlight
<1>4. ASSUME of[t] = of[a] PROVE FALSE
  <2>1. pc[t] = "over"
    BY <1>2, <1>3, <1>4 DEF RunInv
  <2>2. tokens[t].createdAt + Cooldown < startedAt[a]
    BY <1>2, <1>3, <1>4, <2>1 DEF CooledInv
  <2> QED BY <1>1, <1>2, <2>2
<1> QED BY <1>2, <1>4

LEMMA SkipsNext ==
    ASSUME TypeOK, AttemptInv, TaskInv, RunInv, CooledInv, SkippedInv, Next PROVE SkippedInv'
<1> USE AttemptsAssumption DEF TypeOK, Lucky
<1> SUFFICES ASSUME NEW s \in Attempts, of'[s] \in Tasks \ unlucky', pc'[s] = "skipped"
             PROVE  \E b \in Attempts : of'[b] \notin {of'[s], None} /\ tokens'[b].row # "unborn"
  BY Zenon DEF SkippedInv, born, Lucky
<1>1. \A t \in Attempts : tokens[t].row # "unborn" => tokens'[t].row # "unborn"
  <2>1. ASSUME NEW m \in Attempts, mint(m) PROVE tokens'[m].row # "unborn" /\
                 \A t \in Attempts \ {m} : tokens'[t].row = "unborn" <=> tokens[t].row = "unborn"
    BY <2>1, Minting DEF mint
  <2> QED BY <2>1, TokenSteps DEF KeepsTokens
<1>2. /\ unlucky \subseteq unlucky' /\ of' \in [Attempts -> Tasks \cup {None}]
      /\ \A t \in Attempts : of[t] # None => of'[t] = of[t]
  BY DEF Next, deliver, drain, Tick, redeem, request, recover, claim, report, deadlinePasses,
     abandonedEnds, crash, mint, cooledDown, mintFails, sendSucceeds, sendFails, compensate,
     compensateFails, throws, attempt, AttemptInv
<1>3. pc[s] = "skipped" \/ cooledDown(s)
  BY DEF Next, deliver, drain, Tick, redeem, request, recover, claim, report, deadlinePasses,
     abandonedEnds, crash, mint, cooledDown, mintFails, sendSucceeds, sendFails, compensate,
     compensateFails, throws, ends, goTo, attempt
<1>4. of[s] \in Lucky /\ of'[s] = of[s]
  BY <1>2, <1>3 DEF AttemptInv, cooledDown
<1>5. PICK b \in Attempts : of[b] \notin {of[s], None} /\ born(b)
  BY <1>3, <1>4, WhomItMeets DEF SkippedInv
<1> QED BY <1>1, <1>2, <1>4, <1>5 DEF born

LEMMA UsesNext ==
    ASSUME TypeOK, AttemptInv, TaskInv, RunInv, UsedInv, Next PROVE UsedInv'
<1> USE AttemptsAssumption, DeliveryAssumption DEF TypeOK, UsedInv, Lucky, outstanding, finalAttempt
<1>1. ASSUME NEW m \in Attempts, mint(m) PROVE UsedInv'
  <2>1. /\ \A t \in Attempts \ {m} : tokens'[t].row # "unused"
        /\ pc[m] = "mint" /\ pc' = [pc EXCEPT ![m] = "send"]
        /\ UNCHANGED <<of, unlucky, number, failure>>
    BY <1>1, Minting DEF mint, goTo
  <2>2. \A a \in Attempts \ {m} : of[a] = of[m] /\ of[a] \in Lucky => pc[a] \notin InFlight
    BY <2>1 DEF RunInv, InFlight
  <2> QED BY <2>1, <2>2 DEF InFlight
<1>2. CASE \A a \in Attempts : ~mint(a)
  <2>1. \A a \in Attempts : tokens'[a].row = "unused" => tokens[a].row = "unused"
    BY <1>2, TokenSteps DEF KeepsTokens
  <2>2. CASE Tick \/ redeem BY <2>1, <2>2 DEF Tick, redeem, attempt, task
  <2>3. ASSUME NEW k \in Tasks, request(k) \/ recover(k) PROVE UsedInv'
    BY <2>1, <2>3 DEF request, recover, attempt
  <2>4. ASSUME NEW a \in Attempts, deliver(a) PROVE UsedInv'
    <3>1. CASE cooledDown(a) BY <2>1, <3>1 DEF cooledDown, goTo
    <3>2. CASE mintFails(a) \/ compensateFails(a)
      BY <2>1, <3>2 DEF mintFails, compensateFails, throws, goTo
    <3>3. CASE sendSucceeds(a) BY <2>1, <3>3 DEF sendSucceeds, goTo
    <3>4. CASE sendFails(a) BY <2>1, <3>4 DEF sendFails, goTo, compensates
    <3>5. CASE compensate(a)
      BY <2>1, <3>5, TakingBack DEF compensate, goTo
    <3> QED BY <1>2, <2>4, <3>1, <3>2, <3>3, <3>4, <3>5 DEF deliver
  <2>5. ASSUME NEW a \in Attempts, claim(a) PROVE UsedInv'
    <3>1. PICK k \in Tasks :
            /\ status[k] = "pending" /\ pc[a] = "idle"
            /\ of' = [of EXCEPT ![a] = k] /\ pc' = [pc EXCEPT ![a] = "mint"]
            /\ number' = [number EXCEPT ![a] = attempts[k] + 1]
            /\ UNCHANGED <<tokens, failure, unlucky>>
      BY <2>5 DEF claim, goTo
    <3>2. \A b \in Attempts : of[b] = k /\ k \notin unlucky => pc[b] = "over"
      BY <3>1 DEF RunInv, TaskInv
    <3>3. \A b \in Attempts \ {a} : of'[b] = of[b] /\ pc'[b] = pc[b] /\ number'[b] = number[b]
      BY <3>1
    <3> QED BY <2>1, <3>1, <3>2, <3>3
  <2>6. ASSUME NEW a \in Attempts, report(a) \/ abandonedEnds(a) PROVE UsedInv'
    BY <2>1, <2>6 DEF report, abandonedEnds, ends, goTo
  <2>7. ASSUME NEW a \in Attempts, deadlinePasses(a) \/ crash(a) PROVE UsedInv'
    BY <2>1, <2>7 DEF deadlinePasses, crash, goTo
  <2> QED BY <2>2, <2>3, <2>4, <2>5, <2>6, <2>7 DEF Next, drain
<1> QED BY <1>1, <1>2

LEMMA SpacingNext ==
    ASSUME TypeOK, AttemptInv, LinksAreSpaced, Next PROVE LinksAreSpaced'
<1> USE AttemptsAssumption, TokenWindowsAssumption DEF TypeOK, LinksAreSpaced
<1>1. \A t \in Tokens : tokens[t].createdAt \in Nat
  BY DEF Token
<1>2. ASSUME NEW m \in Attempts, mint(m) PROVE LinksAreSpaced'
  <2>1. \A t \in Tokens : tokens[t].row # "unborn" => tokens[t].createdAt + Cooldown < now
    <3>1. \A t \in Tokens : tokens[t].row # "unborn" => stored(t)
      BY DEF AttemptInv, stored, Token
    <3>2. \A t \in Tokens : stored(t) => ~(tokens[t].createdAt >= startedAt[m] - Cooldown)
      BY <1>2 DEF mint, recentAt
    <3> QED BY <1>1, <3>1, <3>2 DEF AttemptInv
  <2>2. /\ tokens'[m].createdAt = now
        /\ \A t \in Tokens \ {m} : /\ tokens'[t].createdAt = tokens[t].createdAt
                                   /\ tokens'[t].row = "unborn" <=> tokens[t].row = "unborn"
    BY <1>2, Minting DEF mint
  <2> QED BY <1>1, <2>1, <2>2
<1>3. CASE \A a \in Attempts : ~mint(a)
  BY <1>3, TokenSteps DEF KeepsTokens
<1> QED BY <1>2, <1>3

LEMMA RetriesNext ==
    ASSUME TypeOK, AttemptInv, SkippedInv, RetriesAreNotSwallowed, Next
    PROVE  RetriesAreNotSwallowed'
<1> USE AttemptsAssumption DEF TypeOK, Lucky
<1> SUFFICES ASSUME NEW k \in Tasks, status'[k] = "skipped", k \notin unlucky'
             PROVE  \E b \in Attempts : of'[b] \notin {k, None} /\ tokens'[b].row # "unborn"
  BY Zenon DEF RetriesAreNotSwallowed
<1>1. \A t \in Attempts : tokens[t].row # "unborn" => tokens'[t].row # "unborn"
  <2>1. ASSUME NEW m \in Attempts, mint(m) PROVE tokens'[m].row # "unborn" /\
                 \A t \in Attempts \ {m} : tokens'[t].row = "unborn" <=> tokens[t].row = "unborn"
    BY <2>1, Minting DEF mint
  <2> QED BY <2>1, TokenSteps DEF KeepsTokens
<1>2. /\ unlucky \subseteq unlucky' /\ of' \in [Attempts -> Tasks \cup {None}]
      /\ \A t \in Attempts : of[t] # None => of'[t] = of[t]
  BY DEF Next, deliver, drain, Tick, redeem, request, recover, claim, report, deadlinePasses,
     abandonedEnds, crash, mint, cooledDown, mintFails, sendSucceeds, sendFails, compensate,
     compensateFails, throws, attempt, AttemptInv
<1>3. status[k] = "skipped" \/ \E a \in Attempts : of[a] = k /\ pc[a] = "skipped"
  <2>1. ASSUME NEW a \in Attempts, report(a)
        PROVE  status[k] = "skipped" \/ (of[a] = k /\ pc[a] = "skipped")
    BY <2>1 DEF report, failed
  <2> QED BY <2>1 DEF Next, deliver, drain, Tick, redeem, request, recover, claim, deadlinePasses,
     failed, abandonedEnds, crash, mint, cooledDown, mintFails, sendSucceeds, sendFails, compensate,
     compensateFails, throws, task
<1>4. PICK b \in Attempts : of[b] \notin {k, None} /\ tokens[b].row # "unborn"
  BY <1>2, <1>3 DEF SkippedInv, RetriesAreNotSwallowed, born
<1> QED BY <1>1, <1>2, <1>4

LEMMA GivenUpNext ==
    ASSUME TypeOK, AttemptInv, TaskInv, RunInv, UsedInv, GivenUpLeavesNoLink, Next
    PROVE  GivenUpLeavesNoLink'
<1> USE AttemptsAssumption DEF TypeOK, Lucky, outstanding
<1> SUFFICES ASSUME NEW t \in Attempts, of'[t] \in Tasks \ unlucky', status'[of'[t]] = "failed"
             PROVE  tokens'[t].row # "unused"
  <2>1. of' \in [Attempts -> Tasks \cup {None}]
    BY TypesNext DEF TypeOK
  <2> QED BY <2>1 DEF GivenUpLeavesNoLink
<1>1. ASSUME NEW m \in Attempts, mint(m) PROVE tokens'[t].row # "unused"
  <2>1. \A x \in Attempts \ {m} : tokens'[x].row # "unused"
    BY <1>1, Minting DEF mint
  <2>2. /\ pc[m] \in InFlight /\ of[m] # None
        /\ UNCHANGED <<of, status, unlucky>>
    BY <1>1 DEF mint, task, InFlight, AttemptInv
  <2>3. t # m
    BY <2>2, InFlightIsLucky
  <2> QED BY <2>1, <2>3
<1>2. CASE \A a \in Attempts : ~mint(a)
  <2>1. tokens'[t].row = "unused" => tokens[t].row = "unused"
    BY <1>2, TokenSteps DEF KeepsTokens
  <2>2. unlucky \subseteq unlucky'
    BY DEF Next, deliver, drain, Tick, redeem, request, recover, claim, report, deadlinePasses,
       abandonedEnds, crash, mint, cooledDown, mintFails, sendSucceeds, sendFails, compensate,
       compensateFails, throws
  <2>3. CASE of'[t] = of[t] /\ status[of[t]] = "failed"
    BY <2>1, <2>2, <2>3 DEF GivenUpLeavesNoLink
  <2>4. ASSUME NEW a \in Attempts, report(a), of'[t] = of[a]
        PROVE  tokens'[t].row # "unused"
    <3>1. of[a] = of[t] /\ of[a] \in Lucky /\ pc[a] \in {"done", "skipped", "thrown"}
      BY <2>2, <2>4 DEF report, AttemptInv
    <3>2. pc[a] = "thrown" /\ (finalAttempt(a) \/ failure[a] = "terminal")
      BY <2>4, <3>1 DEF report, failed
    <3>3. tokens[t].row # "unused"
      BY <3>1, <3>2 DEF UsedInv
    <3> QED BY <2>1, <3>3
  <2>5. ASSUME NEW a \in Attempts, deadlinePasses(a) PROVE of'[t] # of[a]
    BY <2>5 DEF deadlinePasses
  <2>6. ASSUME NEW a \in Attempts, claim(a) PROVE of'[t] = of[t] /\ status[of[t]] = "failed"
    BY <2>6 DEF claim
  <2>7. ASSUME NEW a \in Attempts, deadlinePasses(a) \/ report(a)
        PROVE  of'[t] = of[a] \/ (of'[t] = of[t] /\ status[of[t]] = "failed")
    BY <2>7 DEF deadlinePasses, report, failed
  <2>8. CASE \A a \in Attempts : ~claim(a) /\ ~report(a) /\ ~deadlinePasses(a)
    <3>1. of'[t] = of[t] /\ status[of[t]] = "failed"
      BY <1>2, <2>8 DEF Next, deliver, drain, Tick, redeem, request, recover, abandonedEnds, crash,
         cooledDown, mintFails, sendSucceeds, sendFails, compensate, compensateFails, throws, task,
         attempt
    <3> QED BY <2>3, <3>1
  <2> QED BY <2>3, <2>4, <2>5, <2>6, <2>7, <2>8
<1> QED BY <1>1, <1>2

-----------------------------------------------------------------------------
LEMMA DeliveryInvariant == Spec => []DeliveryInv
<1>1. Init => DeliveryInv
  BY AttemptsAssumption, DeliveryAssumption
     DEF Init, DeliveryInv, TypeOK, Token, NoToken, InFlight, Terminal, AttemptInv, born, TaskInv, RunInv,
         Lucky, CooledInv, SkippedInv, UsedInv, CooldownHolds, LinksAreSpaced, RetriesAreNotSwallowed,
         GivenUpLeavesNoLink
<1>2. DeliveryInv /\ [Next]_vars => DeliveryInv'
  <2>1. CASE Next
    BY <2>1, TypesNext, AttemptsNext, TasksNext, RunsNext, CooledNext, SkipsNext, UsesNext,
       SpacingNext, RetriesNext, GivenUpNext DEF DeliveryInv, CooldownHolds
  <2>2. CASE UNCHANGED vars
    BY <2>2 DEF vars, task, attempt, DeliveryInv, TypeOK, AttemptInv, born, TaskInv, RunInv, Lucky,
       CooledInv, SkippedInv, UsedInv, outstanding, finalAttempt, CooldownHolds, LinksAreSpaced,
       RetriesAreNotSwallowed, GivenUpLeavesNoLink
  <2> QED BY <2>1, <2>2
<1> QED BY <1>1, <1>2, PTL DEF Spec

(* The tasks and attempts keep their types: no task is tried more often    *)
(* than MaxAttempts, whatever dies or is late.                             *)
THEOREM DeliveriesAreTyped == Spec => []TypeOK
<1> QED BY DeliveryInvariant, PTL DEF DeliveryInv

(* createPasswordResetToken spaces the links of the account by more than   *)
(* the cooldown, also when late attempts of several tasks mint them; and   *)
(* a retry, delayed longer than a deadline and a cooldown, is not          *)
(* swallowed by the token of its own task.                                 *)
THEOREM TheCooldownHolds == Spec => []CooldownHolds
<1> QED BY DeliveryInvariant, PTL DEF DeliveryInv

(* deliverPasswordReset has taken back every link of a task given up that  *)
(* met no crash, deadline or failed statement.                             *)
THEOREM NoLinkIsLeft == Spec => []GivenUpLeavesNoLink
<1> QED BY DeliveryInvariant, PTL DEF DeliveryInv
=============================================================================
