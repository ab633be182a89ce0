--------------------------- MODULE ResetDelivery ---------------------------
(***************************************************************************)
(* The deliveries of the reset links of one account: AuthService.          *)
(* deliverPasswordReset, run by drain passes for the tasks that asked for  *)
(* a link.                                                                 *)
(*                                                                         *)
(* A task is as TaskOutbox leaves it: claimed by one attempt at a time,    *)
(* retried a delay after the attempt began, given up after MaxAttempts,    *)
(* recovered when its process died.  What TaskOutbox does not see is the   *)
(* attempt itself: it mints a token, sends it, and takes it back when      *)
(* sending failed for good.  When the deadline passes the task moves on    *)
(* and the attempt keeps running, with its signal aborted.                 *)
(*                                                                         *)
(* Abstracted: the account has a password, so a request always has someone *)
(* to reach; an attempt mints at most one token, named after it.           *)
(***************************************************************************)
EXTENDS ResetTokens

CONSTANTS Tasks,
          Attempts,     \* attempts of all tasks: also the identities of their tokens
          MaxAttempts,  \* of the handler auth:password-reset
          Delay,        \* least delay before a retry, nextAttemptDelayMs
          Deadline,     \* of one attempt, defaultTaskDeadlineMs
          Lease,        \* resolveLeaseStaleMs
          None,
          MaxTime       \* bound: the clock stops here

ASSUME AttemptsAssumption == Tokens = Attempts /\ None \notin Attempts /\ None \notin Tasks
ASSUME DeliveryAssumption ==
    /\ MaxAttempts \in Nat \ {0} /\ Deadline \in Nat \ {0} /\ MaxTime \in Nat
    /\ Delay \in Nat /\ Deadline + Cooldown < Delay
    /\ Lease \in Nat /\ Deadline < Lease

VARIABLES status, attempts, due, runner, \* of the tasks
          pc, of, number, startedAt,     \* of the attempts
          aborted, failure,
          sent,       \* tokens that reached a mailbox
          unlucky     \* history: tasks of which a process died, a deadline passed or a
                      \* statement failed

task == <<status, attempts, due, runner>>
attempt == <<pc, of, number, startedAt, aborted, failure>>
vars == <<now, tokens, task, attempt, sent, unlucky>>

Init == /\ now = 0 /\ tokens = [t \in Tokens |-> NoToken]
        /\ status = [k \in Tasks |-> "unasked"]
        /\ attempts = [k \in Tasks |-> 0] /\ due = [k \in Tasks |-> 0]
        /\ runner = [k \in Tasks |-> None]
        /\ pc = [a \in Attempts |-> "idle"] /\ of = [a \in Attempts |-> None]
        /\ number = [a \in Attempts |-> 0] /\ startedAt = [a \in Attempts |-> 0]
        /\ aborted = {} /\ failure = [a \in Attempts |-> "none"]
        /\ sent = {} /\ unlucky = {}

InFlight == {"mint", "send", "compensate", "done", "skipped", "thrown"}
Waited(a) == pc[a] \in InFlight /\ a \notin aborted

(* The timer of an attempt fires on time.                                  *)
Tick == /\ now < MaxTime
        /\ \A a \in Attempts : Waited(a) => now < startedAt[a] + Deadline
        /\ now' = now + 1
        /\ UNCHANGED <<tokens, task, attempt, sent, unlucky>>

goTo(a, place) == pc' = [pc EXCEPT ![a] = place]

(* What an attempt held in memory is gone when it ends.                    *)
ends(a, place) == /\ goTo(a, place)
                  /\ startedAt' = [startedAt EXCEPT ![a] = 0]
                  /\ failure' = [failure EXCEPT ![a] = "none"]

(* requestPasswordReset.  Requests within one cooldown window share their  *)
(* task; across the edge of two windows they are as close as they like.    *)
request(k) == /\ status[k] = "unasked"
              /\ status' = [status EXCEPT ![k] = "pending"]
              /\ due' = [due EXCEPT ![k] = now]
              /\ UNCHANGED <<now, tokens, attempts, runner, attempt, sent, unlucky>>

claim(a) == \E k \in Tasks :
    /\ pc[a] = "idle"
    /\ status[k] = "pending" /\ due[k] <= now
    /\ status' = [status EXCEPT ![k] = "processing"]
    /\ runner' = [runner EXCEPT ![k] = a]
    /\ of' = [of EXCEPT ![a] = k]
    /\ number' = [number EXCEPT ![a] = attempts[k] + 1]
    /\ startedAt' = [startedAt EXCEPT ![a] = now]
    /\ goTo(a, "mint")
    /\ UNCHANGED <<now, tokens, attempts, due, aborted, failure, sent, unlucky>>

finalAttempt(a) == number[a] >= MaxAttempts

-----------------------------------------------------------------------------
(* deliverPasswordReset *)

mint(a) == /\ pc[a] = "mint" /\ ~recentAt(startedAt[a])
           /\ tokens' = withNew(a, startedAt[a])
           /\ goTo(a, "send")
           /\ UNCHANGED <<now, task, of, number, startedAt, aborted, failure, sent, unlucky>>

cooledDown(a) == /\ pc[a] = "mint" /\ recentAt(startedAt[a])
                 /\ goTo(a, "skipped")
                 /\ UNCHANGED <<now, tokens, task, of, number, startedAt, aborted, failure, sent,
                                unlucky>>

throws(a, kind) == /\ failure' = [failure EXCEPT ![a] = kind]
                   /\ goTo(a, "thrown")
                   /\ UNCHANGED <<now, task, of, number, startedAt, aborted>>

mintFails(a) == /\ pc[a] = "mint"
                /\ throws(a, "retryable")
                /\ unlucky' = unlucky \cup {of[a]}
                /\ UNCHANGED <<tokens, sent>>

sendSucceeds(a) == /\ pc[a] = "send" /\ a \notin aborted
                   /\ sent' = sent \cup {a}
                   /\ goTo(a, "done")
                   /\ UNCHANGED <<now, tokens, task, of, number, startedAt, aborted, failure, unlucky>>

(* Seeded defect: only the last attempt takes its token back.              *)
compensates_FinalOnly(a, kind) == finalAttempt(a)

compensates(a, kind) == finalAttempt(a) \/ kind = "terminal"

(* The provider refuses for good, fails, answers too late or is cut short: *)
(* in the last two cases the mail may have left.                           *)
sendFails(a) == \E kind \in {"retryable", "terminal"} :
    /\ pc[a] = "send"
    /\ sent' \in {sent, sent \cup {a}} /\ (kind = "terminal" => sent' = sent)
    /\ failure' = [failure EXCEPT ![a] = kind]
    /\ goTo(a, IF compensates(a, kind) THEN "compensate" ELSE "thrown")
    /\ UNCHANGED <<now, tokens, task, of, number, startedAt, aborted, unlucky>>

compensate(a) == /\ pc[a] = "compensate"
                 /\ tokens' = without(a)
                 /\ goTo(a, "thrown")
                 /\ UNCHANGED <<now, task, of, number, startedAt, aborted, failure, sent, unlucky>>

(* The error of the failed statement replaces the one in flight.           *)
compensateFails(a) == /\ pc[a] = "compensate"
                      /\ throws(a, "retryable")
                      /\ unlucky' = unlucky \cup {of[a]}
                      /\ UNCHANGED <<tokens, sent>>

-----------------------------------------------------------------------------
(* The drain pass that runs the attempt *)

(* Seeded defect: the delay of the first retry is halved by the jitter.    *)
retryAt_EqualJitter(a) == startedAt[a] + Delay \div 2

retryAt(a) == startedAt[a] + Delay

(* recordFailure *)
failed(a, kind) ==
    IF finalAttempt(a) \/ kind = "terminal"
    THEN status' = [status EXCEPT ![of[a]] = "failed"] /\ UNCHANGED due
    ELSE /\ status' = [status EXCEPT ![of[a]] = "pending"]
         /\ due' = [due EXCEPT ![of[a]] = retryAt(a)]

(* Seeded defect: the number of the attempt is added to the count.         *)
concluded_Added(a) ==
    /\ attempts' = [attempts EXCEPT ![of[a]] = attempts[of[a]] + number[a]]
    /\ runner' = [runner EXCEPT ![of[a]] = None]

concluded(a) ==
    /\ attempts' = [attempts EXCEPT ![of[a]] = number[a]]
    /\ runner' = [runner EXCEPT ![of[a]] = None]

report(a) == /\ Waited(a) /\ pc[a] \in {"done", "skipped", "thrown"}
             /\ runner[of[a]] = a
             /\ concluded(a)
             /\ \/ pc[a] # "thrown" /\ status' = [status EXCEPT ![of[a]] = pc[a]] /\ UNCHANGED due
                \/ pc[a] = "thrown" /\ failed(a, failure[a])
             /\ ends(a, "over")
             /\ UNCHANGED <<now, tokens, of, number, aborted, sent, unlucky>>

(* withDeadline stops waiting; the attempt itself goes on.                 *)
deadlinePasses(a) == /\ Waited(a) /\ now >= startedAt[a] + Deadline
                     /\ aborted' = aborted \cup {a}
                     /\ runner[of[a]] = a /\ concluded(a) /\ failed(a, "retryable")
                     /\ unlucky' = unlucky \cup {of[a]}
                     /\ UNCHANGED <<now, tokens, pc, of, number, startedAt, failure, sent>>

(* An attempt nobody waits for ends.                                       *)
abandonedEnds(a) == /\ a \in aborted /\ pc[a] \in {"done", "skipped", "thrown"}
                    /\ ends(a, "over")
                    /\ UNCHANGED <<now, tokens, task, of, number, aborted, sent, unlucky>>

crash(a) == /\ pc[a] \in InFlight
            /\ goTo(a, "dead")
            /\ unlucky' = unlucky \cup {of[a]}
            /\ UNCHANGED <<now, tokens, task, of, number, startedAt, aborted, failure, sent>>

(* recoverStaleLeases: attempts are left as they are.                      *)
recover(k) == /\ status[k] = "processing" /\ pc[runner[k]] = "dead"
              /\ now > startedAt[runner[k]] + Lease
              /\ status' = [status EXCEPT ![k] = "pending"]
              /\ due' = [due EXCEPT ![k] = now]
              /\ runner' = [runner EXCEPT ![k] = None]
              /\ UNCHANGED <<now, tokens, attempts, attempt, sent, unlucky>>

(* completePasswordReset: the user follows a link.                         *)
redeem == /\ \E t \in sent : activeAt(t, now)
          /\ tokens' = allUsed
          /\ UNCHANGED <<now, task, attempt, sent, unlucky>>

deliver(a) == \/ mint(a) \/ cooledDown(a) \/ mintFails(a) \/ sendSucceeds(a) \/ sendFails(a)
              \/ compensate(a) \/ compensateFails(a)
drain(a) == claim(a) \/ report(a) \/ deadlinePasses(a) \/ abandonedEnds(a) \/ crash(a)

Next == \/ Tick \/ redeem
        \/ \E k \in Tasks : request(k) \/ recover(k)
        \/ \E a \in Attempts : deliver(a) \/ drain(a)

Spec == Init /\ [][Next]_vars
-----------------------------------------------------------------------------

Terminal == {"done", "skipped", "failed"}

TypeOK == /\ now \in Nat /\ tokens \in [Tokens -> Token]
          /\ status \in [Tasks -> {"unasked", "pending", "processing"} \cup Terminal]
          /\ attempts \in [Tasks -> 0 .. MaxAttempts] /\ due \in [Tasks -> Nat]
          /\ runner \in [Tasks -> Attempts \cup {None}]
          /\ pc \in [Attempts -> InFlight \cup {"idle", "over", "dead"}]
          /\ of \in [Attempts -> Tasks \cup {None}]
          /\ number \in [Attempts -> 0 .. MaxAttempts] /\ startedAt \in [Attempts -> Nat]
          /\ aborted \subseteq Attempts
          /\ failure \in [Attempts -> {"none", "retryable", "terminal"}]
          /\ sent \subseteq Attempts /\ unlucky \subseteq Tasks

(* The account is sent no two links within the cooldown, whichever tasks   *)
(* and attempts, late or repeated, mint them.                              *)
LinksAreSpaced ==
    \A t, u \in Tokens :
        t # u /\ tokens[t].row # "unborn" /\ tokens[u].row # "unborn" =>
            \/ tokens[t].createdAt > tokens[u].createdAt + Cooldown
            \/ tokens[u].createdAt > tokens[t].createdAt + Cooldown

(* A task given up without a crash, a deadline or a failed statement on    *)
(* the way leaves no link that was never delivered.                        *)
GivenUpLeavesNoLink ==
    \A a \in Attempts :
        of[a] # None /\ status[of[a]] = "failed" /\ of[a] \notin unlucky => ~outstanding(a)

(* No retry is swallowed by the cooldown of its own task's token: a task   *)
(* that met no crash, deadline or failed statement is skipped only if an   *)
(* attempt of another task minted a token.                                 *)
RetriesAreNotSwallowed ==
    \A k \in Tasks :
        status[k] = "skipped" /\ k \notin unlucky =>
            \E a \in Attempts : of[a] \notin {k, None} /\ tokens[a].row # "unborn"

(* The cooldown spaces the links of the account, and never turns against   *)
(* the retries it is shorter than.                                         *)
CooldownHolds == LinksAreSpaced /\ RetriesAreNotSwallowed
=============================================================================
