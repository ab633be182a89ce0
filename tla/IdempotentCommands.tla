------------------------- MODULE IdempotentCommands -------------------------
(***************************************************************************)
(* One Idempotency-Key of the sales module: SalesService.withIdempotency   *)
(* and its three repository calls over the idempotency_records table.      *)
(*                                                                         *)
(* A call is an HTTP request that carries the key.  It gives way at every  *)
(* database statement, so reserving takes up to two rounds of insert,      *)
(* read and delete, each an action of its own.  The mutation under the key *)
(* (run) counts as committed once any of it is in the database.  Not every *)
(* run is one transaction, so one that throws may have committed.          *)
(*                                                                         *)
(* Abstracted: the scope (actorId, operation), constant for one key; the   *)
(* payload, of which only its hash counts; the result, which is named by   *)
(* the call whose mutation produced it.                                    *)
(***************************************************************************)
EXTENDS Integers, FiniteSets

CONSTANTS Calls,        \* requests that carry the key
          Payload,      \* the hash of what each call asks for
          Takeover,     \* age at which a reservation counts as abandoned (60 s)
          NoRecord, Unknown,
          MaxTime,      \* bound: the clock stops here
          FaultsUntil   \* bound: no crash and no failed write after this time

VARIABLES now,
          record,     \* the row of the key
          pc, started, tries, answer,
          effects,    \* calls whose mutation is committed
          takeovers,  \* history: rows deleted as abandoned
          releases    \* history: rows deleted by a call whose mutation is committed

vars == <<now, record, pc, started, tries, answer, effects, takeovers, releases>>

Pcs == {"idle", "create", "read", "delete", "run", "complete", "mark", "release",
        "answered", "dead"}
Record == [state : {"reserved", "completed"}, hash : {Payload[c] : c \in Calls},
           result : Calls \cup {Unknown, NoRecord}, touched : Nat]
Answers == [kind : {"none", "inProgress", "conflict", "error", "own", "replay"},
            result : Calls \cup {Unknown, NoRecord}]
answered(kind, result) == [kind |-> kind, result |-> result]

(* What the constants stand for: finitely many calls, times, and names     *)
(* that are apart.                                                         *)
CallsAreApart == /\ IsFiniteSet(Calls)
                 /\ Takeover \in Nat /\ MaxTime \in Nat /\ FaultsUntil \in Nat
                 /\ Unknown \notin Calls /\ NoRecord \notin Calls /\ NoRecord # Unknown
                 /\ NoRecord \notin Record

Init == /\ now = 0
        /\ record = NoRecord
        /\ pc = [c \in Calls |-> "idle"]
        /\ started = [c \in Calls |-> 0]
        /\ tries = [c \in Calls |-> 0]
        /\ answer = [c \in Calls |-> answered("none", NoRecord)]
        /\ effects = {}
        /\ takeovers = 0
        /\ releases = 0

Tick == /\ now < MaxTime
        /\ now' = now + 1
        /\ UNCHANGED <<record, pc, started, tries, answer, effects, takeovers, releases>>

goTo(c, place) == pc' = [pc EXCEPT ![c] = place]

(* The locals of the call end with it.                                     *)
forget(c) == /\ started' = [started EXCEPT ![c] = 0]
             /\ tries' = [tries EXCEPT ![c] = 0]

reply(c, kind, result) == /\ goTo(c, "answered")
                          /\ answer' = [answer EXCEPT ![c] = answered(kind, result)]
                          /\ forget(c)

(* reserveIdempotency reads the clock once, before its first round.        *)
begin(c) == /\ pc[c] = "idle"
            /\ goTo(c, "create")
            /\ started' = [started EXCEPT ![c] = now]
            /\ UNCHANGED <<now, record, tries, answer, effects, takeovers, releases>>

create(c) ==
    /\ pc[c] = "create"
    /\ IF record = NoRecord
       THEN /\ record' = [state |-> "reserved", hash |-> Payload[c], result |-> NoRecord,
                          touched |-> now]
            /\ goTo(c, "run")
       ELSE /\ goTo(c, "read")    \* P2002
            /\ UNCHANGED record
    /\ UNCHANGED <<now, started, tries, answer, effects, takeovers, releases>>

(* Two rounds, then the key counts as busy.                                *)
nextRound(c) == \/ /\ tries[c] = 0
                   /\ tries' = [tries EXCEPT ![c] = 1]
                   /\ goTo(c, "create")
                   /\ UNCHANGED <<started, answer>>
                \/ /\ tries[c] # 0
                   /\ reply(c, "inProgress", NoRecord)

(* Seeded defect: the stored result is returned for any payload.           *)
sameRequest_Unchecked(c) == TRUE

sameRequest(c) == record.hash = Payload[c]

(* Seeded defect: a reservation is never taken for abandoned.              *)
isStale_Never(c) == FALSE

isStale(c) == record.touched + Takeover < started[c]

read(c) ==
    /\ pc[c] = "read"
    /\ \/ /\ record = NoRecord
          /\ nextRound(c)
       \/ /\ record # NoRecord
          /\ record.state = "completed"
          /\ IF sameRequest(c) THEN reply(c, "replay", record.result)
                               ELSE reply(c, "conflict", NoRecord)
       \/ /\ record # NoRecord
          /\ record.state = "reserved"
          /\ IF isStale(c) THEN goTo(c, "delete") /\ UNCHANGED <<started, tries, answer>>
                           ELSE reply(c, "inProgress", NoRecord)
    /\ UNCHANGED <<now, record, effects, takeovers, releases>>

(* By key: whatever row holds the key by now goes.                         *)
deleteStale(c) ==
    /\ pc[c] = "delete"
    /\ record' = NoRecord
    /\ takeovers' = IF record = NoRecord THEN takeovers ELSE takeovers + 1
    /\ nextRound(c)
    /\ UNCHANGED <<now, effects, releases>>

runCommits(c) == /\ pc[c] = "run"
                 /\ goTo(c, "complete")
                 /\ effects' = effects \cup {c}
                 /\ UNCHANGED <<now, record, started, tries, answer, takeovers, releases>>

(* The mutation threw and left nothing behind: a rule refused it, or the   *)
(* database did.                                                           *)
runFails(c) == /\ pc[c] = "run"
               /\ goTo(c, "release")
               /\ UNCHANGED <<now, record, started, tries, answer, effects, takeovers, releases>>

(* completeIdempotency: an update by key, which throws when there is no    *)
(* row.                                                                    *)
recordResult(c, result) ==
    record' = [state |-> "completed", hash |-> Payload[c], result |-> result, touched |-> now]

complete(c) ==
    /\ pc[c] = "complete"
    /\ IF record # NoRecord
       THEN recordResult(c, c) /\ reply(c, "own", c)
       ELSE goTo(c, "mark") /\ UNCHANGED <<record, started, tries, answer>>
    /\ UNCHANGED <<now, effects, takeovers, releases>>

(* The marker: the result is unknown, but nothing may run again.           *)
mark(c) ==
    /\ pc[c] = "mark"
    /\ IF record # NoRecord THEN recordResult(c, Unknown) ELSE UNCHANGED record
    /\ reply(c, "own", c)
    /\ UNCHANGED <<now, effects, takeovers, releases>>

isReserved == record # NoRecord /\ record.state = "reserved"

(* By key and state, whoever reserved it, and whatever the mutation did.   *)
release(c) ==
    /\ pc[c] = "release"
    /\ record' = IF isReserved THEN NoRecord ELSE record
    /\ releases' = IF isReserved /\ c \in effects THEN releases + 1 ELSE releases
    /\ reply(c, "error", NoRecord)
    /\ UNCHANGED <<now, effects, takeovers>>

mayFail == now <= FaultsUntil

(* The mutation committed and then threw.  A new deal is inserted outside  *)
(* its transaction and stands when the insert of its history fails; the    *)
(* names of a new task are read after its insert; a transition is logged   *)
(* within run, after its commit.                                           *)
runThrowsLate(c) == /\ mayFail
                    /\ pc[c] = "run"
                    /\ goTo(c, "release")
                    /\ effects' = effects \cup {c}
                    /\ UNCHANGED <<now, record, started, tries, answer, takeovers,
                                   releases>>

(* Seeded defect: a result that could not be recorded releases the key.    *)
writeFails_Releases(c) ==
    /\ mayFail
    /\ \/ pc[c] = "complete" /\ goTo(c, "mark") /\ UNCHANGED <<record, started, tries, answer>>
       \/ pc[c] = "mark" /\ reply(c, "own", c) /\ record' = NoRecord
       \/ pc[c] = "release" /\ reply(c, "error", NoRecord) /\ UNCHANGED record
    /\ UNCHANGED <<now, effects, takeovers, releases>>

(* One of the three writes of the outcome fails: all three are swallowed,  *)
(* and the row stays as it is.                                             *)
writeFails(c) ==
    /\ mayFail
    /\ \/ pc[c] = "complete" /\ goTo(c, "mark") /\ UNCHANGED <<started, tries, answer>>
       \/ pc[c] = "mark" /\ reply(c, "own", c)
       \/ pc[c] = "release" /\ reply(c, "error", NoRecord)
    /\ UNCHANGED <<now, record, effects, takeovers, releases>>

(* The process dies, before or after the mutation committed.               *)
crash(c) == /\ mayFail
            /\ pc[c] \notin {"idle", "answered", "dead"}
            /\ goTo(c, "dead")
            /\ forget(c)
            /\ UNCHANGED <<now, record, answer, effects, takeovers, releases>>

(* "Repeat the request later", says the answer.                            *)
retry(c) == /\ pc[c] = "answered" /\ answer[c].kind = "inProgress"
            /\ goTo(c, "idle")
            /\ answer' = [answer EXCEPT ![c] = answered("none", NoRecord)]
            /\ UNCHANGED <<now, record, started, tries, effects, takeovers, releases>>

step(c) == \/ begin(c) \/ create(c) \/ read(c) \/ deleteStale(c)
           \/ runCommits(c) \/ runFails(c)
           \/ complete(c) \/ mark(c) \/ release(c)
           \/ retry(c)

Next == \/ Tick
        \/ \E c \in Calls : step(c) \/ runThrowsLate(c) \/ writeFails(c) \/ crash(c)

Spec == Init /\ [][Next]_vars

(* A request that is being served is scheduled again, time passes, and a   *)
(* client told to repeat the request does.                                 *)
Fairness == WF_vars(Tick) /\ \A c \in Calls : WF_vars(step(c))
-----------------------------------------------------------------------------

TypeOK ==
    /\ now \in Nat
    /\ record \in Record \cup {NoRecord}
    /\ pc \in [Calls -> Pcs]
    /\ started \in [Calls -> Nat]
    /\ tries \in [Calls -> 0 .. 1]
    /\ answer \in [Calls -> Answers]
    /\ effects \subseteq Calls
    /\ takeovers \in Nat
    /\ releases \in Nat

(* Each repetition of a mutation is accounted for: a reservation was taken *)
(* for abandoned, or a mutation threw after it had committed and its call  *)
(* released the key.  Mutations that left nothing behind, failed writes of *)
(* the result and crashes never free a key whose mutation is committed.    *)
RepeatsAreAccounted == Cardinality(effects) <= 1 + takeovers + releases

(* A stored result is handed only to a call that asked for the same thing, *)
(* and the mutation it stands for is committed: for the marker, that of    *)
(* some call with this payload.                                            *)
ReplaysAreReal ==
    \A c \in Calls : answer[c].kind = "replay" =>
       LET sources == {e \in effects : Payload[e] = Payload[c]}
       IN  IF answer[c].result = Unknown THEN sources # {} ELSE answer[c].result \in sources

(* A crash or a lost write does not block the key: every call that is not  *)
(* itself cut off gets an answer other than "in progress".                 *)
EveryCallAnswered ==
    \A c \in Calls :
       pc[c] = "create" ~> \/ pc[c] = "dead"
                           \/ pc[c] = "answered" /\ answer[c].kind # "inProgress"

(* "The mutation is NOT done: the reservation may be lifted, a repeat is   *)
(* correct" (sales-service.ts:228, of a run that threw): without takeovers *)
(* a key takes effect at most once.  The code breaks it: a run that threw  *)
(* after its commit releases the key, and the repeat does it again.        *)
RepeatsAreCorrect == takeovers = 0 => Cardinality(effects) <= 1

=============================================================================
