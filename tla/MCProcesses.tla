----------------------------- MODULE MCProcesses -----------------------------
(***************************************************************************)
(* Three systems in one run, side by side and not at once: the processes   *)
(* that run the jobs, the end of the API process, and the commands under   *)
(* one idempotency key.  A behaviour is of the one its first state         *)
(* chooses; the others stay where they start.                              *)
(***************************************************************************)
EXTENDS JobRunners, TLC

CONSTANTS t1, t2, Handlers, Deferred
CONSTANTS c1, c2, c3, pay, refund,
          Calls, Payload, Takeover, NoRecord, Unknown, MaxTime, FaultsUntil
VARIABLES focus, phase, handler, work, overdue,
          now, record, pc, started, rounds, answer, effects, takeovers, releases

Api == INSTANCE Shutdown
Key == INSTANCE IdempotentCommands WITH tries <- rounds

ASSUME CommandsAssumption == Key!CallsAreApart

(* An entry with a retry and one with a single attempt. *)
MCMaxAttempts == t1 :> 2 @@ t2 :> 1

(* Two calls for the same thing and one for another. *)
MCPayload == c1 :> pay @@ c2 :> pay @@ c3 :> refund

apiVars == <<phase, handler, work, overdue>>
commandVars == <<now, record, pc, started, rounds, answer, effects, takeovers,
                 releases>>
mcVars == <<jobVars, apiVars, commandVars, focus>>
MCInit == focus \in {"jobs", "api", "commands"} /\ JobInit /\ Api!Init /\ Key!Init
MCNext == /\ \/ focus = "jobs" /\ JobNext /\ UNCHANGED <<apiVars, commandVars>>
             \/ focus = "api" /\ Api!Next /\ UNCHANGED <<jobVars, commandVars>>
             \/ focus = "commands" /\ Key!Next /\ UNCHANGED <<jobVars, apiVars>>
          /\ UNCHANGED focus
MCSpec == /\ MCInit /\ [][MCNext]_mcVars
          /\ \/ focus = "jobs" /\ JobFairness
             \/ focus = "api" /\ Api!Fairness
             \/ focus = "commands" /\ Key!Fairness

(* The type invariants of all, and the attempts granted to an entry. *)
TypesHold == JobTypeOK /\ AttemptsWithinGrant /\ Api!TypeOK /\ Key!TypeOK

(* Neither process ends before what it began, unless its deadline or a     *)
(* fault ends it: no job is cut off and no deferred work is lost.          *)
StopsAreOrderly == NoRunIsCutOff /\ Api!NothingIsCutShort

(* The API process ends once it was told to (shutdown; see Shutdown).      *)
ShutdownEnds == Api!ShutdownEnds

(* A mutation is repeated only after a takeover, or after it threw in      *)
(* spite of its commit (see IdempotentCommands).                           *)
RepeatsAreAccounted == Key!RepeatsAreAccounted

(* A replayed result is of a committed mutation of the same payload (see   *)
(* IdempotentCommands).                                                    *)
ReplaysAreReal == Key!ReplaysAreReal

(* No call waits for ever behind a crash or a lost write (see              *)
(* IdempotentCommands).                                                    *)
EveryCallAnswered == Key!EveryCallAnswered
=============================================================================
