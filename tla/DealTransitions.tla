-------------------------- MODULE DealTransitions --------------------------
(***************************************************************************)
(* Deals on the board (CRM-06): createDeal, transition, deleteDeal of      *)
(* sales-service.ts and the tables deals and deal_history.                 *)
(*                                                                         *)
(* A move reads the deal and what its stage asks for outside any           *)
(* transaction; then one transaction (READ COMMITTED) locks the deal,      *)
(* reads the deals of the stage and writes each of them, in the order of   *)
(* the board, with its position and its stage.  A row it writes stays      *)
(* locked until it commits, and shows at the commit.                       *)
(*                                                                         *)
(* Abstracted: what a stage asks for is a set of conditions that come and  *)
(* go, and what the request itself supplies (why a deal is lost, on what a *)
(* win is based) is none; positions and the order of the writes (any);     *)
(* fields, versions, notifications; rights, but for the override, which    *)
(* only people have; repeated keys (IdempotentCommands); stages are not    *)
(* edited.                                                                 *)
(***************************************************************************)
CONSTANTS Deals, Stages, WonStages, Conditions,
          Needs,      \* the conditions evaluateTransition asks of a stage
          Firm,       \* those no override waives: the reason and end of a pause
          Requests,
          Examined,   \* bound: the deals whose conditions come and go
          None, Gone

ASSUME StagesAssumption == WonStages \subseteq Stages /\ Needs \in [Stages -> SUBSET Conditions]
ASSUME ExaminedAssumption == Examined \subseteq Deals /\ Firm \subseteq Conditions
ASSUME NamesAssumption == None \notin Deals \cup Stages

VARIABLES deals, met,
          history,   \* the latest row of a deal's history
          pc, job,   \* of a request: where it is, what it is to do
          toRead,    \* conditions it has still to read
          from,      \* the stage it found its deal in under the lock
          rest, held,  \* rows it is to write, rows it has locked
          lacks,     \* history: conditions of the stage never met since it began
          stray,     \* history: deals written by another's move or before their entry
          bornWon,   \* history: deals created in a won stage
          torn       \* history: deals with a row that does not continue the one before

request == <<pc, job, toRead, from, rest, held, lacks>>
vars == <<deals, history, met, request, stray, bornWon, torn>>

Row == [stage : Stages, won : BOOLEAN]
Event == [from : Stages \cup {None}, to : Stages]
Job == [deal : Deals \cup {None}, to : Stages \cup {None}, read : Stages \cup {None}]
NoJob == [deal |-> None, to |-> None, read |-> None]

ASSUME RowsAssumption == None # Gone /\ {None, Gone} \cap Row = {} /\ None \notin Event

Init == /\ deals = [d \in Deals |-> None] /\ history = [d \in Deals |-> None]
        /\ met = [d \in Deals |-> {}] /\ stray = {} /\ bornWon = {} /\ torn = {}
        /\ pc = [r \in Requests |-> "idle"] /\ job = [r \in Requests |-> NoJob]
        /\ toRead = [r \in Requests |-> {}] /\ from = [r \in Requests |-> None]
        /\ rest = [r \in Requests |-> {}] /\ held = [r \in Requests |-> {}]
        /\ lacks = [r \in Requests |-> {}]

(* A row of deal_history is inserted.                                      *)
continues(last, e) == e.from # e.to /\ (last # None => e.from = last.to)
record(d, e) == /\ history' = [history EXCEPT ![d] = e]
                /\ torn' = IF continues(history[d], e) THEN torn ELSE torn \cup {d}

exists(d) == deals[d] \notin {None, Gone}
locked(d, r) == \E q \in Requests \ {r} : d \in held[q]

(* Answered, refused, timed out, chosen as the victim of a deadlock or     *)
(* dead: the transaction, if any, is over.                                 *)
ends(r) == /\ pc' = [pc EXCEPT ![r] = "idle"] /\ job' = [job EXCEPT ![r] = NoJob]
           /\ toRead' = [toRead EXCEPT ![r] = {}] /\ from' = [from EXCEPT ![r] = None]
           /\ rest' = [rest EXCEPT ![r] = {}] /\ held' = [held EXCEPT ![r] = {}]
           /\ lacks' = [lacks EXCEPT ![r] = {}]

rollback(r) == pc[r] # "idle" /\ ends(r) /\ UNCHANGED <<deals, history, met, stray, bornWon, torn>>

-----------------------------------------------------------------------------
unwaived(s, override) == IF override THEN Needs[s] \cap Firm ELSE Needs[s]

(* Creation, of a deal that meets no condition: the two inserts do not run *)
(* in the transaction opened for them.                                     *)

(* Seeded defect: the entry does not say where.                            *)
entry_Nowhere(s) == [from |-> None, to |-> None]

entry(s) == [from |-> None, to |-> s]

createDeal(r, d, s, override) ==
    /\ pc[r] = "idle" /\ deals[d] = None
    /\ unwaived(s, override) = {}
    /\ deals' = [deals EXCEPT ![d] = [stage |-> s, won |-> FALSE]]
    /\ pc' = [pc EXCEPT ![r] = "enter"]
    /\ job' = [job EXCEPT ![r] = [deal |-> d, to |-> s, read |-> None]]
    /\ bornWon' = IF s \in WonStages THEN bornWon \cup {d} ELSE bornWon
    /\ UNCHANGED <<history, met, toRead, from, rest, held, lacks, stray, torn>>

recordEntry(r) ==
    /\ pc[r] = "enter"
    /\ LET d == job[r].deal
       IN  \/ ~exists(d) /\ UNCHANGED <<history, stray, torn>>
           \/ /\ exists(d)
              /\ record(d, entry(job[r].to))
              /\ stray' = IF history[d] = None THEN stray ELSE stray \cup {d}
    /\ ends(r) /\ UNCHANGED <<deals, met, bornWon>>

-----------------------------------------------------------------------------
(* The move *)

(* Seeded defect: a won stage asks for nothing.                            *)
asks_WonIsFree(d, s, override) ==
    IF deals[d].stage = s \/ s \in WonStages THEN {} ELSE unwaived(s, override)

(* What is read of a deal before it may go to s: nothing if it is there.   *)
asks(d, s, override) == IF deals[d].stage = s THEN {} ELSE unwaived(s, override)

transition(r, d, s, override) ==
    /\ pc[r] = "idle" /\ exists(d)
    /\ pc' = [pc EXCEPT ![r] = "gates"]
    /\ job' = [job EXCEPT ![r] = [deal |-> d, to |-> s, read |-> deals[d].stage]]
    /\ toRead' = [toRead EXCEPT ![r] = asks(d, s, override)]
    /\ lacks' = [lacks EXCEPT ![r] = IF deals[d].stage = s THEN {}
                                     ELSE unwaived(s, override) \ met[d]]
    /\ UNCHANGED <<deals, history, met, from, rest, held, stray, bornWon, torn>>

evaluateTransition(r) ==
    /\ pc[r] = "gates"
    /\ \E c \in toRead[r] :
          \/ /\ c \in met[job[r].deal]
             /\ toRead' = [toRead EXCEPT ![r] = @ \ {c}]
             /\ UNCHANGED <<pc, job, from, rest, held, lacks>>
          \/ c \notin met[job[r].deal] /\ ends(r)
    /\ UNCHANGED <<deals, history, met, stray, bornWon, torn>>

(* Seeded defect: the stage read before the lock is taken for the deal's.  *)
stageBefore_Stale(r) == job[r].read

stageBefore(r) == deals[job[r].deal].stage

inStage(s) == {d \in Deals : exists(d) /\ deals[d].stage = s}

(* The transaction up to its list of the stage's other deals.  Nobody else *)
(* writes the deal between these statements.                               *)
lockDeal(r) ==
    /\ pc[r] = "gates" /\ toRead[r] = {}
    /\ LET d == job[r].deal
       IN  /\ ~locked(d, r)
           /\ \/ ~exists(d) /\ ends(r)
              \/ /\ exists(d)
                 /\ pc' = [pc EXCEPT ![r] = "write"]
                 /\ from' = [from EXCEPT ![r] = stageBefore(r)]
                 /\ rest' = [rest EXCEPT ![r] = inStage(job[r].to) \ {d}]
                 /\ held' = [held EXCEPT ![r] = {d}]
                 /\ UNCHANGED <<job, toRead, lacks>>
    /\ UNCHANGED <<deals, history, met, stray, bornWon, torn>>

writeRow(r) ==
    /\ pc[r] = "write"
    /\ \E d \in rest[r] \ held[r] :
          /\ ~locked(d, r)
          /\ \/ ~exists(d) /\ ends(r)
             \/ /\ exists(d)
                /\ held' = [held EXCEPT ![r] = @ \cup {d}]
                /\ UNCHANGED <<pc, job, toRead, from, rest, lacks>>
    /\ UNCHANGED <<deals, history, met, stray, bornWon, torn>>

(* Seeded defect: a win leaves no trace on the deal.                       *)
dealSideEffects_None(won, s) == won

dealSideEffects(won, s) == won \/ s \in WonStages

commit(r) ==
    /\ pc[r] = "write" /\ rest[r] \subseteq held[r]
    /\ LET d == job[r].deal  to == job[r].to  moves == from[r] # to
       IN  /\ deals' = [e \in Deals |->
                 IF e = d /\ moves
                 THEN [stage |-> to, won |-> IF to = job[r].read THEN deals[d].won
                                             ELSE dealSideEffects(deals[d].won, to)]
                 ELSE IF e \in held[r] THEN [deals[e] EXCEPT !.stage = to] ELSE deals[e]]
           /\ \/ moves /\ record(d, [from |-> from[r], to |-> to])
              \/ ~moves /\ UNCHANGED <<history, torn>>
           /\ stray' = stray \cup {e \in rest[r] : deals[e].stage # to}
    /\ ends(r) /\ UNCHANGED <<met, bornWon>>

deleteDeal(d) ==
    /\ exists(d) /\ \A r \in Requests : d \notin held[r]
    /\ deals' = [deals EXCEPT ![d] = Gone]
    /\ history' = [history EXCEPT ![d] = None]
    /\ met' = [met EXCEPT ![d] = {}]
    /\ stray' = stray \ {d} /\ bornWon' = bornWon \ {d}
    /\ torn' = torn \ {d}
    /\ UNCHANGED request

(* saveDealClaim, saveDealContactRole, approvals: a condition comes or goes. *)
changeCondition(d, c) ==
    /\ exists(d)
    /\ met' = [met EXCEPT ![d] = IF c \in @ THEN @ \ {c} ELSE @ \cup {c}]
    /\ lacks' = [r \in Requests |-> IF pc[r] = "gates" /\ job[r].deal = d
                                    THEN lacks[r] \ {c} ELSE lacks[r]]
    /\ UNCHANGED <<deals, history, pc, job, toRead, from, rest, held, stray, bornWon, torn>>

create(r) == \/ \E d \in Deals, s \in Stages, o \in BOOLEAN : createDeal(r, d, s, o)
             \/ recordEntry(r)
move(r) == \/ \E d \in Deals, s \in Stages, o \in BOOLEAN : transition(r, d, s, o)
           \/ evaluateTransition(r) \/ lockDeal(r) \/ writeRow(r) \/ commit(r)

Next == \/ \E r \in Requests : create(r) \/ move(r) \/ rollback(r)
        \/ \E d \in Deals : deleteDeal(d)
        \/ \E d \in Examined, c \in Conditions : changeCondition(d, c)

Spec == Init /\ [][Next]_vars
-----------------------------------------------------------------------------

TypeOK == /\ deals \in [Deals -> Row \cup {None, Gone}]
          /\ history \in [Deals -> Event \cup {None}]
          /\ met \in [Deals -> SUBSET Conditions] /\ stray \cup bornWon \cup torn \subseteq Deals
          /\ pc \in [Requests -> {"idle", "enter", "gates", "write"}]
          /\ job \in [Requests -> Job] /\ toRead \in [Requests -> SUBSET Conditions]
          /\ from \in [Requests -> Stages \cup {None}]
          /\ rest \in [Requests -> SUBSET Deals] /\ held \in [Requests -> SUBSET Deals]
          /\ lacks \in [Requests -> SUBSET Conditions]

(* The history of a deal is its path: every event starts where the one     *)
(* before ended, goes somewhere else, and the last one ends where the deal *)
(* is, so that two commands to one stage make one event (audit R-12).      *)
(* Excused are deals another's move has taken along, or that were moved    *)
(* before their entry was recorded.                                        *)
HistoryIsThePath ==
    \A d \in Deals \ stray : exists(d) =>
       d \notin torn /\ (history[d] # None => history[d].to = deals[d].stage)

(* A deal goes by its own move to a stage only if each condition of the    *)
(* stage was met, or the deal was there, at some time since the request    *)
(* began, or a person overrode the conditions (CRM-06).                    *)
GatesAreRespected ==
    \A r \in Requests : pc[r] = "write" /\ from[r] # job[r].to => lacks[r] = {}

(* A deal in a won stage has a win on record, without which no             *)
(* subscription is activated, even if it got there by another's move or by *)
(* a reordering that turned out to be a move.  Excused are the deals       *)
(* created in a won stage: the insert does not write wonAt.                *)
WonIsOnRecord ==
    \A d \in Deals \ bornWon : exists(d) /\ deals[d].stage \in WonStages => deals[d].won

(* A deal changes its stage by its own move only ("the date of a stage     *)
(* change is for the moved deal, not for the whole order").  The code      *)
(* breaks it: the other deals of the stage are written with the stage they *)
(* had when they were listed.                                              *)
OthersStayWhereTheyAre ==
    [][\A d \in Deals :
         exists(d) /\ deals'[d] \notin {None, Gone} /\ deals'[d].stage # deals[d].stage =>
            \E r \in Requests : pc[r] = "write" /\ job[r].deal = d]_vars

(* Rows are of their type, and where their history says.                   *)
DealsAreOnTheirPath == TypeOK /\ HistoryIsThePath
=============================================================================
