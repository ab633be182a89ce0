----------------------- MODULE DealTransitionsProofs -----------------------
(***************************************************************************)
(* Proofs about DealTransitions for any deals, stages, conditions and      *)
(* requests.                                                               *)
(*                                                                         *)
(* What a request knows of a deal before its lock is only that it once was *)
(* there; of a row it has locked, that nobody else writes it.  A win once  *)
(* on record stays there, so a request that saw its deal, or the deals of  *)
(* a stage, in a won stage may rely on it; and a condition it has read is  *)
(* no longer one the deal never met since the request began.               *)
(***************************************************************************)
EXTENDS MCDealTransitions, Naturals, TLAPS

USE StagesAssumption, ExaminedAssumption, NamesAssumption, RowsAssumption

known(d) == deals[d] # None

(* A request has a deal and a stage, and locks only while it writes. *)
JobInv == \A r \in Requests :
            /\ pc[r] # "idle" => job[r].deal \in Deals /\ job[r].to \in Stages /\ known(job[r].deal)
            /\ pc[r] # "write" => held[r] = {}
            /\ \A e \in rest[r] : known(e)

LockInv == \A r, q \in Requests : r # q => held[r] \cap held[q] = {}

(* What a request has locked is there, and as it was found. *)
WriteInv == \A r \in Requests : pc[r] = "write" =>
              /\ job[r].deal \in held[r] /\ held[r] \subseteq rest[r] \cup {job[r].deal}
              /\ \A e \in held[r] : exists(e)
              /\ from[r] = deals[job[r].deal].stage

(* Conditions never met since the request began are still to be read. *)
GateInv == \A r \in Requests :
             /\ pc[r] = "gates" => lacks[r] \subseteq toRead[r] /\ lacks[r] \cap met[job[r].deal] = {}
             /\ pc[r] = "write" => lacks[r] = {}

(* A deal whose entry is to come is where it was created, or was moved. *)
EntryInv == \A r \in Requests :
              pc[r] = "enter" /\ exists(job[r].deal) /\ job[r].deal \notin stray
                              /\ history[job[r].deal] = None
                => deals[job[r].deal].stage = job[r].to

(* A deal found in a won stage has its win. *)
FoundInv == \A r \in Requests :
              /\ pc[r] \in {"gates", "write"} /\ job[r].read \in WonStages
                 /\ job[r].deal \notin bornWon /\ exists(job[r].deal)
                   => deals[job[r].deal].won
              /\ pc[r] = "write" /\ job[r].to \in WonStages =>
                   \A e \in rest[r] : e \notin bornWon /\ exists(e) => deals[e].won

(* A deal not created has no history. *)
FreshInv == \A d \in Deals : ~known(d) => history[d] = None /\ d \notin torn

RequestsInv == JobInv /\ WriteInv /\ GateInv /\ EntryInv /\ FoundInv

DealInv == TypeOK /\ LockInv /\ FreshInv /\ RequestsInv /\ HistoryIsThePath /\ WonIsOnRecord

LEMMA InitInv == Init => DealInv
  <1> SUFFICES ASSUME Init PROVE DealInv
    OBVIOUS
  <1>1. NoJob \in Job
    BY Zenon DEF NoJob, Job
  <1>2. TypeOK
    BY <1>1, SMT DEF Init, TypeOK
  <1>3. LockInv /\ FreshInv /\ RequestsInv
    BY Zenon DEF Init, LockInv, FreshInv, RequestsInv, JobInv, WriteInv, GateInv, EntryInv, FoundInv
  <1>4. HistoryIsThePath /\ WonIsOnRecord
    BY Zenon DEF Init, HistoryIsThePath, WonIsOnRecord, exists
  <1> QED
    BY <1>2, <1>3, <1>4 DEF DealInv

-----------------------------------------------------------------------------
(* What other requests may rely on: a deal known stays known, a row they   *)
(* have locked stays as it is, a deal without an event stays where it is   *)
(* unless it strays, and a win stays on record.                            *)
Reliable(r) ==
  \A e \in Deals :
    /\ known(e) => deals'[e] # None
    /\ known(e) /\ deals'[e] \notin {None, Gone} => exists(e)
    /\ \A q \in Requests \ {r} : e \in held[q] => deals'[e] = deals[e]
    /\ known(e) /\ deals'[e] \notin {None, Gone} /\ e \notin stray' /\ history'[e] = None
         => e \notin stray /\ history[e] = None /\ deals'[e].stage = deals[e].stage
    /\ known(e) /\ deals'[e] \notin {None, Gone} /\ e \notin bornWon'
         => e \notin bornWon /\ (deals[e].won => deals'[e].won)

Apart(r) == \A q \in Requests \ {r} :
              /\ pc'[q] = pc[q] /\ job'[q] = job[q] /\ toRead'[q] = toRead[q] /\ from'[q] = from[q]
              /\ rest'[q] = rest[q] /\ held'[q] = held[q]

(* The parts of RequestsInv, of one request, in the next state. *)
Fine(q) ==
  /\ pc'[q] # "idle" => /\ job'[q].deal \in Deals /\ job'[q].to \in Stages
                        /\ deals'[job'[q].deal] # None
  /\ pc'[q] # "write" => held'[q] = {}
  /\ \A e \in rest'[q] : deals'[e] # None
  /\ pc'[q] = "write" =>
       /\ job'[q].deal \in held'[q] /\ held'[q] \subseteq rest'[q] \cup {job'[q].deal}
       /\ \A e \in held'[q] : deals'[e] \notin {None, Gone}
       /\ from'[q] = deals'[job'[q].deal].stage
  /\ pc'[q] = "enter" /\ deals'[job'[q].deal] \notin {None, Gone} /\ job'[q].deal \notin stray'
                      /\ history'[job'[q].deal] = None
       => deals'[job'[q].deal].stage = job'[q].to
  /\ pc'[q] \in {"gates", "write"} /\ job'[q].read \in WonStages
     /\ job'[q].deal \notin bornWon' /\ deals'[job'[q].deal] \notin {None, Gone}
       => deals'[job'[q].deal].won
  /\ pc'[q] = "write" /\ job'[q].to \in WonStages =>
       \A e \in rest'[q] : e \notin bornWon' /\ deals'[e] \notin {None, Gone} => deals'[e].won

LEMMA FineIsEnough ==
  ASSUME \A q \in Requests : Fine(q), GateInv' PROVE RequestsInv'
  <1>1. JobInv'
    BY Zenon DEF Fine, JobInv, known
  <1>2. WriteInv'
    BY Zenon DEF Fine, WriteInv, exists
  <1>3. EntryInv'
    BY Zenon DEF Fine, EntryInv, exists
  <1>4. FoundInv'
    BY Zenon DEF Fine, FoundInv, exists
  <1> QED
    BY <1>1, <1>2, <1>3, <1>4 DEF RequestsInv

LEMMA OthersAreFine ==
  ASSUME DealInv, NEW r, Reliable(r), Apart(r), NEW q \in Requests \ {r}
  PROVE  Fine(q)
  <1>1. /\ pc'[q] = pc[q] /\ job'[q] = job[q] /\ from'[q] = from[q]
        /\ rest'[q] = rest[q] /\ held'[q] = held[q]
    BY DEF Apart
  <1>2. /\ pc[q] # "idle" => job[q].deal \in Deals /\ job[q].to \in Stages /\ known(job[q].deal)
        /\ pc[q] # "write" => held[q] = {}
        /\ \A e \in rest[q] : e \in Deals /\ known(e)
        /\ \A e \in held[q] : e \in Deals
    BY DEF DealInv, RequestsInv, JobInv, TypeOK
  <1>3. pc'[q] # "idle" => /\ job'[q].deal \in Deals /\ job'[q].to \in Stages
                           /\ deals'[job'[q].deal] # None
    BY <1>1, <1>2, Zenon DEF Reliable
  <1>4. /\ pc'[q] # "write" => held'[q] = {}
        /\ \A e \in rest'[q] : deals'[e] # None
    BY <1>1, <1>2, Zenon DEF Reliable
  <1>5. pc'[q] = "write" =>
           /\ job'[q].deal \in held'[q] /\ held'[q] \subseteq rest'[q] \cup {job'[q].deal}
           /\ \A e \in held'[q] : deals'[e] \notin {None, Gone}
           /\ from'[q] = deals'[job'[q].deal].stage
    <2>1. \A e \in held[q] : deals'[e] = deals[e]
      BY <1>2, Zenon DEF Reliable
    <2>2. pc[q] = "write" =>
              /\ job[q].deal \in held[q] /\ held[q] \subseteq rest[q] \cup {job[q].deal}
              /\ \A e \in held[q] : deals[e] \notin {None, Gone}
              /\ from[q] = deals[job[q].deal].stage
      BY Zenon DEF DealInv, RequestsInv, WriteInv, exists
    <2> QED
      BY <1>1, <2>1, <2>2, Zenon
  <1>6. pc'[q] = "enter" /\ deals'[job'[q].deal] \notin {None, Gone} /\ job'[q].deal \notin stray'
                         /\ history'[job'[q].deal] = None
           => deals'[job'[q].deal].stage = job'[q].to
    <2> SUFFICES ASSUME pc[q] = "enter", deals'[job[q].deal] \notin {None, Gone},
                        job[q].deal \notin stray', history'[job[q].deal] = None
                 PROVE  deals'[job[q].deal].stage = job[q].to
      BY <1>1, Zenon
    <2>1. job[q].deal \in Deals /\ known(job[q].deal)
      BY <1>2
    <2>2. /\ exists(job[q].deal) /\ job[q].deal \notin stray /\ history[job[q].deal] = None
          /\ deals'[job[q].deal].stage = deals[job[q].deal].stage
      BY <2>1, Zenon DEF Reliable
    <2> QED
      BY <2>2, Zenon DEF DealInv, RequestsInv, EntryInv
  <1>7. pc'[q] \in {"gates", "write"} /\ job'[q].read \in WonStages
        /\ job'[q].deal \notin bornWon' /\ deals'[job'[q].deal] \notin {None, Gone}
           => deals'[job'[q].deal].won
    <2> SUFFICES ASSUME pc[q] \in {"gates", "write"}, job[q].read \in WonStages,
                        job[q].deal \notin bornWon', deals'[job[q].deal] \notin {None, Gone}
                 PROVE  deals'[job[q].deal].won
      BY <1>1, Zenon
    <2>1. job[q].deal \in Deals /\ known(job[q].deal)
      BY <1>2
    <2>2. /\ exists(job[q].deal) /\ job[q].deal \notin bornWon
          /\ deals[job[q].deal].won => deals'[job[q].deal].won
      BY <2>1, Zenon DEF Reliable
    <2> QED
      BY <2>2, Zenon DEF DealInv, RequestsInv, FoundInv
  <1>8. pc'[q] = "write" /\ job'[q].to \in WonStages =>
           \A e \in rest'[q] : e \notin bornWon' /\ deals'[e] \notin {None, Gone} => deals'[e].won
    <2> SUFFICES ASSUME pc[q] = "write", job[q].to \in WonStages, NEW e \in rest[q],
                        e \notin bornWon', deals'[e] \notin {None, Gone}
                 PROVE  deals'[e].won
      BY <1>1, Zenon
    <2>1. e \in Deals /\ known(e)
      BY <1>2
    <2>2. exists(e) /\ e \notin bornWon /\ (deals[e].won => deals'[e].won)
      BY <2>1, Zenon DEF Reliable
    <2> QED
      BY <2>2, Zenon DEF DealInv, RequestsInv, FoundInv
  <1> QED
    BY <1>3, <1>4, <1>5, <1>6, <1>7, <1>8, Zenon DEF Fine

-----------------------------------------------------------------------------
(* What a step has to show of its request, the rest being the others'.     *)
Gate(q) == /\ pc'[q] = "gates" => lacks'[q] \subseteq toRead'[q] /\ lacks'[q] \cap met'[job'[q].deal] = {}
           /\ pc'[q] = "write" => lacks'[q] = {}

LEMMA GatesOfOthers ==
  ASSUME DealInv, NEW r, Apart(r), NEW q \in Requests \ {r}, lacks'[q] \subseteq lacks[q],
         \A e \in Deals : lacks'[q] \cap met[e] = {} => lacks'[q] \cap met'[e] = {}
  PROVE  Gate(q)
  <1>1. pc'[q] = pc[q] /\ job'[q] = job[q] /\ toRead'[q] = toRead[q]
    BY DEF Apart
  <1>2. /\ pc[q] = "gates" => lacks[q] \subseteq toRead[q] /\ lacks[q] \cap met[job[q].deal] = {}
        /\ pc[q] = "write" => lacks[q] = {}
        /\ pc[q] # "idle" => job[q].deal \in Deals
    BY Zenon DEF DealInv, RequestsInv, GateInv, JobInv
  <1>3. CASE pc[q] = "gates"
    BY <1>1, <1>2, <1>3, SMT DEF Gate
  <1>4. CASE pc[q] # "gates"
    BY <1>1, <1>2, <1>4, SMT DEF Gate
  <1> QED
    BY <1>3, <1>4

(* A step that leaves the deals and what is recorded of them alone.        *)
LEMMA QuietStep ==
  ASSUME DealInv, UNCHANGED <<deals, history, stray, bornWon, torn>>, NEW r
  PROVE  Reliable(r) /\ FreshInv' /\ HistoryIsThePath' /\ WonIsOnRecord'
  <1>1. FreshInv /\ HistoryIsThePath /\ WonIsOnRecord
    BY DEF DealInv
  <1>2. Reliable(r)
    BY Zenon DEF Reliable, known, exists
  <1>3. FreshInv' /\ HistoryIsThePath' /\ WonIsOnRecord'
    BY <1>1, Zenon DEF FreshInv, HistoryIsThePath, WonIsOnRecord, known, exists
  <1> QED
    BY <1>2, <1>3

(* A request whose rows nobody else holds keeps the locks apart.           *)
LEMMA LocksApart ==
  ASSUME DealInv, NEW r, Apart(r), \A q \in Requests \ {r} : held'[r] \cap held[q] = {}
  PROVE  LockInv'
  <1> SUFFICES ASSUME NEW p \in Requests, NEW q \in Requests, p # q
               PROVE  held'[p] \cap held'[q] = {}
    BY Zenon DEF LockInv
  <1>1. held[p] \cap held[q] = {}
    BY Zenon DEF DealInv, LockInv
  <1>2. (p # r => held'[p] = held[p]) /\ (q # r => held'[q] = held[q])
    BY DEF Apart
  <1> QED
    BY <1>1, <1>2, SMT

Types == /\ pc' \in [Requests -> {"idle", "enter", "gates", "write"}]
         /\ job' \in [Requests -> Job] /\ toRead' \in [Requests -> SUBSET Conditions]
         /\ from' \in [Requests -> Stages \cup {None}]
         /\ rest' \in [Requests -> SUBSET Deals] /\ held' \in [Requests -> SUBSET Deals]
         /\ lacks' \in [Requests -> SUBSET Conditions]

(* The end of a request. *)
LEMMA EndsStep ==
  ASSUME DealInv, NEW r \in Requests, ends(r), met' = met
  PROVE  Types /\ Apart(r) /\ Fine(r) /\ LockInv' /\ GateInv'
  <1>1. NoJob \in Job
    BY Zenon DEF NoJob, Job
  <1>2. TypeOK
    BY DEF DealInv
  <1>3. Types
    BY <1>1, <1>2, SMT DEF Types, TypeOK, ends
  <1>4. pc'[r] = "idle" /\ rest'[r] = {} /\ held'[r] = {} /\ lacks'[r] = {}
    BY <1>2, SMT DEF TypeOK, ends
  <1>5. Apart(r) /\ \A q \in Requests \ {r} : lacks'[q] = lacks[q]
    BY <1>2, SMT DEF Apart, TypeOK, ends
  <1>6. Fine(r)
    BY <1>4, Zenon DEF Fine
  <1>7. LockInv'
    BY <1>4, <1>5, LocksApart, Zenon
  <1>8. \A q \in Requests : Gate(q)
    <2>1. Gate(r)
      BY <1>4, Zenon DEF Gate
    <2>2. ASSUME NEW q \in Requests \ {r} PROVE Gate(q)
      BY <1>5, GatesOfOthers, Zenon
    <2> QED
      BY <2>1, <2>2
  <1>9. GateInv'
    BY <1>8, Zenon DEF Gate, GateInv
  <1> QED
    BY <1>3, <1>5, <1>6, <1>7, <1>9

(* The whole of a step from its parts. *)
LEMMA StepOfParts ==
  ASSUME DealInv, NEW r \in Requests, Reliable(r), Apart(r), Fine(r),
         TypeOK', LockInv', FreshInv', GateInv', HistoryIsThePath', WonIsOnRecord'
  PROVE  DealInv'
  <1>1. \A q \in Requests : Fine(q)
    BY OthersAreFine, Zenon
  <1>2. RequestsInv'
    BY <1>1, FineIsEnough, Zenon
  <1> QED
    BY <1>2 DEF DealInv

LEMMA RollbackStep ==
  ASSUME DealInv, NEW r \in Requests, rollback(r) PROVE DealInv'
  <1>1. ends(r) /\ met' = met /\ UNCHANGED <<deals, history, stray, bornWon, torn>>
    BY DEF rollback
  <1>2. TypeOK'
    BY <1>1, EndsStep, SMT DEF DealInv, TypeOK, Types
  <1> QED
    BY <1>1, <1>2, EndsStep, QuietStep, StepOfParts, Zenon

(* The gates of all requests, from those of one.                           *)
LEMMA GatesOfAll ==
  ASSUME DealInv, NEW r \in Requests, Apart(r), Gate(r), met' = met,
         \A q \in Requests \ {r} : lacks'[q] = lacks[q]
  PROVE  GateInv'
  <1>1. ASSUME NEW q \in Requests \ {r} PROVE Gate(q)
    BY GatesOfOthers, Zenon
  <1>2. \A q \in Requests : Gate(q)
    BY <1>1, Zenon
  <1> QED
    BY <1>2, Zenon DEF Gate, GateInv

-----------------------------------------------------------------------------
(* The steps of a move before its commit *)

LEMMA TransitionStep ==
  ASSUME DealInv, NEW r \in Requests, NEW d \in Deals, NEW s \in Stages, NEW override \in BOOLEAN,
         transition(r, d, s, override)
  PROVE  DealInv'
  <1> DEFINE asked == IF deals[d].stage = s THEN {} ELSE unwaived(s, override)
             missed == IF deals[d].stage = s THEN {} ELSE unwaived(s, override) \ met[d]
  <1>1. TypeOK
    BY DEF DealInv
  <1>2. /\ pc[r] = "idle" /\ exists(d)
        /\ pc' = [pc EXCEPT ![r] = "gates"]
        /\ job' = [job EXCEPT ![r] = [deal |-> d, to |-> s, read |-> deals[d].stage]]
        /\ toRead' = [toRead EXCEPT ![r] = asked]
        /\ lacks' = [lacks EXCEPT ![r] = missed]
        /\ UNCHANGED <<deals, history, met, from, rest, held, stray, bornWon, torn>>
    BY Zenon DEF transition, asks
  <1>3. deals[d] \in Row /\ deals[d].stage \in Stages
    BY <1>1, <1>2, Zenon DEF TypeOK, exists, Row
  <1>4. asked \subseteq Conditions /\ missed \subseteq asked /\ missed \cap met[d] = {}
    BY SMT DEF unwaived
  <1> HIDE DEF asked, missed
  <1>5. [deal |-> d, to |-> s, read |-> deals[d].stage] \in Job
    BY <1>3, Zenon DEF Job
  <1>6. TypeOK'
    BY <1>1, <1>2, <1>4, <1>5, SMT DEF TypeOK
  <1>7. /\ pc'[r] = "gates" /\ job'[r] = [deal |-> d, to |-> s, read |-> deals[d].stage]
        /\ toRead'[r] = asked /\ lacks'[r] = missed
    BY <1>1, <1>2, SMT DEF TypeOK
  <1>8. Apart(r) /\ \A q \in Requests \ {r} : lacks'[q] = lacks[q]
    BY <1>1, <1>2, SMT DEF Apart, TypeOK
  <1>9. held'[r] = {} /\ rest'[r] = rest[r] /\ \A e \in rest[r] : deals[e] # None
    BY <1>2, Zenon DEF DealInv, RequestsInv, JobInv, known
  <1>10. Fine(r)
    <2>1. job'[r].deal = d /\ job'[r].to = s /\ job'[r].read = deals[d].stage
      BY <1>7
    <2>2. deals[d].stage \in WonStages /\ d \notin bornWon => deals[d].won
      BY <1>2, Zenon DEF DealInv, WonIsOnRecord
    <2>3. deals[d] # None /\ deals' = deals /\ bornWon' = bornWon
      BY <1>2, Zenon DEF exists
    <2> QED
      BY <1>7, <1>9, <2>1, <2>2, <2>3, Zenon DEF Fine
  <1>11. LockInv'
    BY <1>8, <1>9, LocksApart, Zenon
  <1>12. Gate(r)
    BY <1>2, <1>4, <1>7, SMT DEF Gate
  <1>13. GateInv'
    BY <1>2, <1>8, <1>12, GatesOfAll, Zenon
  <1> QED
    BY <1>2, <1>6, <1>8, <1>10, <1>11, <1>13, QuietStep, StepOfParts, Zenon

LEMMA EvaluateStep ==
  ASSUME DealInv, NEW r \in Requests, evaluateTransition(r) PROVE DealInv'
  <1>1. TypeOK
    BY DEF DealInv
  <1>2. pc[r] = "gates" /\ UNCHANGED <<deals, history, met, stray, bornWon, torn>>
    BY Zenon DEF evaluateTransition
  <1>3. CASE ends(r)
    <2>1. TypeOK'
      BY <1>2, <1>3, EndsStep, SMT DEF DealInv, TypeOK, Types
    <2> QED
      BY <1>2, <1>3, <2>1, EndsStep, QuietStep, StepOfParts, Zenon
  <1>4. CASE ~ends(r)
    <2>1. PICK c : /\ c \in toRead[r] /\ c \in met[job[r].deal]
                   /\ toRead' = [toRead EXCEPT ![r] = @ \ {c}]
                   /\ UNCHANGED <<pc, job, from, rest, held, lacks>>
      BY <1>4, Zenon DEF evaluateTransition
    <2>2. TypeOK'
      BY <1>1, <1>2, <2>1, SMT DEF TypeOK
    <2>3. toRead'[r] = toRead[r] \ {c} /\ \A q \in Requests \ {r} : toRead'[q] = toRead[q]
      BY <1>1, <2>1, SMT DEF TypeOK
    <2>4. Apart(r)
      BY <2>1, <2>3, Zenon DEF Apart
    <2>5. /\ held'[r] = {} /\ rest'[r] = rest[r] /\ \A e \in rest[r] : deals[e] # None
          /\ job[r].deal \in Deals /\ job[r].to \in Stages /\ deals[job[r].deal] # None
      BY <1>2, <2>1, Zenon DEF DealInv, RequestsInv, JobInv, known
    <2>6. job[r].read \in WonStages /\ job[r].deal \notin bornWon /\ exists(job[r].deal)
            => deals[job[r].deal].won
      BY <1>2, Zenon DEF DealInv, RequestsInv, FoundInv
    <2>7. Fine(r)
      BY <1>2, <2>1, <2>5, <2>6, Zenon DEF Fine, exists
    <2>8. LockInv'
      BY <2>1, Zenon DEF DealInv, LockInv
    <2>9. lacks[r] \subseteq toRead[r] /\ lacks[r] \cap met[job[r].deal] = {}
      BY <1>2, Zenon DEF DealInv, RequestsInv, GateInv
    <2>10. Gate(r)
      BY <1>2, <2>1, <2>3, <2>9, SMT DEF Gate
    <2>11. GateInv'
      BY <1>2, <2>1, <2>4, <2>10, GatesOfAll, Zenon
    <2> QED
      BY <1>2, <2>2, <2>4, <2>7, <2>8, <2>11, QuietStep, StepOfParts, Zenon
  <1> QED
    BY <1>3, <1>4

LEMMA LockDealStep ==
  ASSUME DealInv, NEW r \in Requests, lockDeal(r) PROVE DealInv'
  <1> DEFINE d == job[r].deal
             to == job[r].to
  <1>1. TypeOK
    BY DEF DealInv
  <1>2. /\ pc[r] = "gates" /\ toRead[r] = {} /\ ~locked(d, r)
        /\ UNCHANGED <<deals, history, met, stray, bornWon, torn>>
    BY Zenon DEF lockDeal
  <1>3. CASE ends(r)
    <2>1. TypeOK'
      BY <1>2, <1>3, EndsStep, SMT DEF DealInv, TypeOK, Types
    <2> QED
      BY <1>2, <1>3, <2>1, EndsStep, QuietStep, StepOfParts, Zenon
  <1>4. CASE ~ends(r)
    <2>1. /\ exists(d)
          /\ pc' = [pc EXCEPT ![r] = "write"]
          /\ from' = [from EXCEPT ![r] = deals[d].stage]
          /\ rest' = [rest EXCEPT ![r] = inStage(to) \ {d}]
          /\ held' = [held EXCEPT ![r] = {d}]
          /\ UNCHANGED <<job, toRead, lacks>>
      BY <1>4, Zenon DEF lockDeal, stageBefore
    <2>2. d \in Deals /\ to \in Stages /\ deals[d] # None
      BY <1>2, Zenon DEF DealInv, RequestsInv, JobInv, known
    <2>3. deals[d] \in Row /\ deals[d].stage \in Stages
      BY <1>1, <2>1, <2>2, Zenon DEF TypeOK, exists, Row
    <2>4. inStage(to) \subseteq Deals /\ \A e \in inStage(to) : exists(e) /\ deals[e].stage = to
      BY Zenon DEF inStage
    <2> HIDE DEF d, to
    <2>5. TypeOK'
      BY <1>1, <1>2, <2>1, <2>2, <2>3, <2>4, SMT DEF TypeOK
    <2>6. /\ pc'[r] = "write" /\ from'[r] = deals[d].stage /\ rest'[r] = inStage(to) \ {d}
          /\ held'[r] = {d}
      BY <1>1, <2>1, SMT DEF TypeOK
    <2>7. Apart(r) /\ \A q \in Requests \ {r} : lacks'[q] = lacks[q]
      BY <1>1, <2>1, SMT DEF Apart, TypeOK
    <2>8. Fine(r)
      <3>1. job[r].read \in WonStages /\ d \notin bornWon /\ exists(d) => deals[d].won
        BY <1>2, Zenon DEF DealInv, RequestsInv, FoundInv, d
      <3>2. to \in WonStages => \A e \in rest'[r] : e \notin bornWon /\ exists(e) => deals[e].won
        BY <2>4, <2>6, Zenon DEF DealInv, WonIsOnRecord
      <3>3. job'[r].deal = d /\ job'[r].to = to /\ job'[r].read = job[r].read /\ deals' = deals
            /\ bornWon' = bornWon
        BY <1>2, <2>1, Zenon DEF d, to
      <3>4. \A e \in rest'[r] : exists(e)
        BY <2>4, <2>6, Zenon
      <3>5. held'[r] \subseteq rest'[r] \cup {d} /\ d \in held'[r]
        BY <2>6, Zenon
      <3>6. \A e \in held'[r] : exists(e)
        BY <2>1, <2>6, Zenon
      <3> QED
        BY <2>1, <2>2, <2>6, <3>1, <3>2, <3>3, <3>4, <3>5, <3>6, Zenon DEF Fine, exists
    <2>9. LockInv'
      <3>1. \A q \in Requests \ {r} : {d} \cap held[q] = {}
        BY <1>2, Zenon DEF locked
      <3> QED
        BY <2>6, <2>7, <3>1, LocksApart, Zenon
    <2>10. lacks[r] = {}
      BY <1>2, Zenon DEF DealInv, RequestsInv, GateInv
    <2>11. Gate(r)
      BY <2>1, <2>6, <2>10, Zenon DEF Gate
    <2>12. GateInv'
      BY <1>2, <2>7, <2>11, GatesOfAll, Zenon
    <2> QED
      BY <1>2, <2>5, <2>7, <2>8, <2>9, <2>12, QuietStep, StepOfParts, Zenon
  <1> QED
    BY <1>3, <1>4

LEMMA WriteRowStep ==
  ASSUME DealInv, NEW r \in Requests, writeRow(r) PROVE DealInv'
  <1>1. TypeOK
    BY DEF DealInv
  <1>2. pc[r] = "write" /\ UNCHANGED <<deals, history, met, stray, bornWon, torn>>
    BY Zenon DEF writeRow
  <1>3. CASE ends(r)
    <2>1. TypeOK'
      BY <1>2, <1>3, EndsStep, SMT DEF DealInv, TypeOK, Types
    <2> QED
      BY <1>2, <1>3, <2>1, EndsStep, QuietStep, StepOfParts, Zenon
  <1>4. CASE ~ends(r)
    <2>1. PICK d \in rest[r] \ held[r] :
            /\ ~locked(d, r) /\ exists(d)
            /\ held' = [held EXCEPT ![r] = @ \cup {d}]
            /\ UNCHANGED <<pc, job, toRead, from, rest, lacks>>
      BY <1>4, Zenon DEF writeRow
    <2>2. d \in Deals
      BY <1>1, <2>1, SMT DEF TypeOK
    <2>3. TypeOK'
      BY <1>1, <1>2, <2>1, <2>2, SMT DEF TypeOK
    <2>4. held'[r] = held[r] \cup {d} /\ \A q \in Requests \ {r} : held'[q] = held[q]
      BY <1>1, <2>1, SMT DEF TypeOK
    <2>5. Apart(r)
      BY <2>1, <2>4, Zenon DEF Apart
    <2>6. /\ job[r].deal \in Deals /\ job[r].to \in Stages /\ deals[job[r].deal] # None
          /\ \A e \in rest[r] : deals[e] # None
          /\ job[r].deal \in held[r] /\ held[r] \subseteq rest[r] \cup {job[r].deal}
          /\ \A e \in held[r] : exists(e)
          /\ from[r] = deals[job[r].deal].stage
      BY <1>2, Zenon DEF DealInv, RequestsInv, JobInv, WriteInv, known
    <2>7. /\ job[r].read \in WonStages /\ job[r].deal \notin bornWon /\ exists(job[r].deal)
                => deals[job[r].deal].won
          /\ job[r].to \in WonStages => \A e \in rest[r] : e \notin bornWon /\ exists(e) => deals[e].won
      BY <1>2, Zenon DEF DealInv, RequestsInv, FoundInv
    <2>8. held'[r] \subseteq rest[r] \cup {job[r].deal} /\ job[r].deal \in held'[r]
      BY <2>1, <2>4, <2>6, SMT
    <2>9. \A e \in held'[r] : exists(e)
      BY <2>1, <2>4, <2>6, Zenon
    <2>10. Fine(r)
      BY <1>2, <2>1, <2>6, <2>7, <2>8, <2>9, Zenon DEF Fine, exists
    <2>11. LockInv'
      <3>1. \A q \in Requests \ {r} : d \notin held[q] /\ held[r] \cap held[q] = {}
        BY <2>1, Zenon DEF locked, DealInv, LockInv
      <3>2. \A q \in Requests \ {r} : held'[r] \cap held[q] = {}
        BY <2>4, <3>1, SMT
      <3> QED
        BY <2>5, <3>2, LocksApart, Zenon
    <2>12. GateInv'
      BY <1>2, <2>1, Zenon DEF DealInv, RequestsInv, GateInv
    <2> QED
      BY <1>2, <2>3, <2>5, <2>10, <2>11, <2>12, QuietStep, StepOfParts, Zenon
  <1> QED
    BY <1>3, <1>4

-----------------------------------------------------------------------------
(* Creation, deletion, conditions *)

LEMMA CreateStep ==
  ASSUME DealInv, NEW r \in Requests, NEW d \in Deals, NEW s \in Stages, NEW override \in BOOLEAN,
         createDeal(r, d, s, override)
  PROVE  DealInv'
  <1> DEFINE row == [stage |-> s, won |-> FALSE]
             begun == [deal |-> d, to |-> s, read |-> None]
  <1>1. TypeOK
    BY DEF DealInv
  <1>2. /\ pc[r] = "idle" /\ deals[d] = None
        /\ deals' = [deals EXCEPT ![d] = row]
        /\ pc' = [pc EXCEPT ![r] = "enter"] /\ job' = [job EXCEPT ![r] = begun]
        /\ bornWon' = IF s \in WonStages THEN bornWon \cup {d} ELSE bornWon
        /\ UNCHANGED <<history, met, toRead, from, rest, held, lacks, stray, torn>>
    BY Zenon DEF createDeal
  <1>3. row \in Row /\ begun \in Job
    BY Zenon DEF Row, Job
  <1>4. row.stage = s /\ row.won = FALSE /\ row \notin {None, Gone}
    BY <1>3
  <1>5. begun.deal = d /\ begun.to = s
    OBVIOUS
  <1> HIDE DEF row, begun
  <1>6. TypeOK'
    BY <1>1, <1>2, <1>3, SMT DEF TypeOK
  <1>7. /\ deals'[d] = row /\ \A e \in Deals : e # d => deals'[e] = deals[e]
        /\ pc'[r] = "enter" /\ job'[r] = begun
    BY <1>1, <1>2, SMT DEF TypeOK
  <1>8. Apart(r)
    BY <1>1, <1>2, SMT DEF Apart, TypeOK
  <1>9. (\A e \in Deals : e \notin bornWon' => e \notin bornWon) /\ (s \in WonStages => d \in bornWon')
    BY <1>2, Zenon
  <1>10. Reliable(r)
    <2> SUFFICES ASSUME NEW e \in Deals
                 PROVE  /\ known(e) => deals'[e] = deals[e]
                        /\ \A q \in Requests \ {r} : e \in held[q] => deals'[e] = deals[e]
      BY <1>2, <1>9, Zenon DEF Reliable, known, exists
    <2>1. known(e) => deals'[e] = deals[e]
      BY <1>2, <1>7, Zenon DEF known
    <2>2. \A q \in Requests : e \in held[q] => exists(e)
      BY Zenon DEF DealInv, RequestsInv, JobInv, WriteInv
    <2> QED
      BY <2>1, <2>2, Zenon DEF exists, known
  <1>11. held'[r] = {} /\ rest'[r] = rest[r] /\ \A e \in rest[r] : e \in Deals /\ known(e)
    BY <1>1, <1>2, SMT DEF DealInv, RequestsInv, JobInv, TypeOK
  <1>12. Fine(r)
    <2>1. \A e \in rest'[r] : deals'[e] # None
      BY <1>10, <1>11, Zenon DEF Reliable
    <2> QED
      BY <1>4, <1>5, <1>7, <1>11, <2>1, Zenon DEF Fine
  <1>13. LockInv'
    BY <1>2, Zenon DEF DealInv, LockInv
  <1>14. Gate(r)
    BY <1>7, Zenon DEF Gate
  <1>15. GateInv'
    BY <1>2, <1>8, <1>14, GatesOfAll, Zenon
  <1>16. FreshInv' /\ HistoryIsThePath'
    <2>1. history[d] = None /\ d \notin torn
      BY <1>2, Zenon DEF DealInv, FreshInv, known
    <2>2. FreshInv'
      BY <1>2, <1>4, <1>7, Zenon DEF DealInv, FreshInv, known
    <2>3. HistoryIsThePath'
      BY <1>2, <1>4, <1>7, <2>1, Zenon DEF DealInv, HistoryIsThePath, exists
    <2> QED
      BY <2>2, <2>3
  <1>17. WonIsOnRecord'
    BY <1>2, <1>4, <1>7, <1>9, Zenon DEF DealInv, WonIsOnRecord, exists
  <1> QED
    BY <1>6, <1>8, <1>10, <1>12, <1>13, <1>15, <1>16, <1>17, StepOfParts, Zenon

(* The entry continues nothing, and is dropped from the promise if there   *)
(* was an event before it.                                                 *)
LEMMA RecordEntryStep ==
  ASSUME DealInv, NEW r \in Requests, recordEntry(r) PROVE DealInv'
  <1> DEFINE d == job[r].deal
             to == job[r].to
             e0 == [from |-> None, to |-> to]
  <1>1. TypeOK
    BY DEF DealInv
  <1>2. pc[r] = "enter" /\ ends(r) /\ UNCHANGED <<deals, met, bornWon>>
    BY Zenon DEF recordEntry
  <1>3. d \in Deals /\ to \in Stages
    BY <1>2, Zenon DEF DealInv, RequestsInv, JobInv
  <1>4. Types /\ Apart(r) /\ Fine(r) /\ LockInv' /\ GateInv'
    BY <1>2, EndsStep, Zenon
  <1>5. CASE ~exists(d)
    <2>1. UNCHANGED <<history, stray, torn>>
      BY <1>5, Zenon DEF recordEntry
    <2>2. TypeOK'
      BY <1>1, <1>2, <1>4, <2>1, SMT DEF TypeOK, Types
    <2> QED
      BY <1>2, <1>4, <2>1, <2>2, QuietStep, StepOfParts, Zenon
  <1>6. CASE exists(d)
    <2>1. /\ history' = [history EXCEPT ![d] = e0]
          /\ torn' = IF continues(history[d], e0) THEN torn ELSE torn \cup {d}
          /\ stray' = IF history[d] = None THEN stray ELSE stray \cup {d}
      BY <1>6, Zenon DEF recordEntry, record, entry
    <2>2. e0 \in Event
      BY <1>3, Zenon DEF Event
    <2>3. e0 # None /\ e0.to = to /\ e0.from = None
      BY <2>2
    <2>4. history[d] = None => continues(history[d], e0)
      BY <1>3, <2>3, Zenon DEF continues
    <2> HIDE DEF d, to, e0
    <2>5. TypeOK'
      BY <1>1, <1>2, <1>3, <1>4, <2>1, <2>2, SMT DEF TypeOK, Types
    <2>6. history'[d] = e0 /\ \A e \in Deals : e # d => history'[e] = history[e]
      BY <1>1, <1>3, <2>1, SMT DEF TypeOK
    <2>7. /\ \A e \in Deals : (e \notin stray' => e \notin stray) /\ (e # d /\ e \in torn' => e \in torn)
          /\ d \notin stray' => history[d] = None /\ torn' = torn
      BY <2>1, <2>4, Zenon
    <2>8. Reliable(r)
      BY <1>2, <2>3, <2>6, <2>7, Zenon DEF Reliable, known, exists
    <2>9. FreshInv'
      BY <1>2, <1>6, <2>6, <2>7, Zenon DEF DealInv, FreshInv, known, exists
    <2>10. HistoryIsThePath'
      <3>1. d \notin stray' => d \notin stray /\ d \notin torn /\ deals[d].stage = to
        BY <1>2, <1>3, <1>6, <2>7, Zenon
           DEF DealInv, RequestsInv, EntryInv, HistoryIsThePath, d, to
      <3> SUFFICES ASSUME NEW e \in Deals \ stray', exists(e)
                   PROVE  e \notin torn' /\ (history'[e] # None => history'[e].to = deals[e].stage)
        BY <1>2, Zenon DEF HistoryIsThePath, exists
      <3>2. CASE e = d
        BY <3>1, <3>2, <2>3, <2>6, <2>7, Zenon
      <3>3. CASE e # d
        BY <3>3, <2>6, <2>7, Zenon DEF DealInv, HistoryIsThePath
      <3> QED
        BY <3>2, <3>3
    <2>11. WonIsOnRecord'
      BY <1>2, Zenon DEF DealInv, WonIsOnRecord, exists
    <2> QED
      BY <1>4, <2>5, <2>8, <2>9, <2>10, <2>11, StepOfParts, Zenon
  <1> QED
    BY <1>5, <1>6

(* Only the gates of the requests for the deal are touched.                *)
LEMMA ConditionStep ==
  ASSUME DealInv, NEW d \in Examined, NEW c \in Conditions, changeCondition(d, c) PROVE DealInv'
  <1>1. TypeOK /\ d \in Deals
    BY DEF DealInv
  <1>2. /\ met' = [met EXCEPT ![d] = IF c \in met[d] THEN met[d] \ {c} ELSE met[d] \cup {c}]
        /\ lacks' = [q \in Requests |-> IF pc[q] = "gates" /\ job[q].deal = d
                                        THEN lacks[q] \ {c} ELSE lacks[q]]
        /\ UNCHANGED <<deals, history, pc, job, toRead, from, rest, held, stray, bornWon, torn>>
    BY Zenon DEF changeCondition
  <1>3. \A e \in Deals : e # d => met'[e] = met[e]
    BY <1>1, <1>2, SMT DEF TypeOK
  <1>4. met'[d] \subseteq met[d] \cup {c} /\ met'[d] \subseteq Conditions
    BY <1>1, <1>2, SMT DEF TypeOK
  <1>5. TypeOK'
    BY <1>1, <1>2, <1>4, SMT DEF TypeOK
  <1>6. LockInv' /\ FreshInv' /\ HistoryIsThePath' /\ WonIsOnRecord'
    BY <1>2, Zenon DEF DealInv, LockInv, FreshInv, HistoryIsThePath, WonIsOnRecord, known, exists
  <1>7. JobInv' /\ WriteInv' /\ EntryInv' /\ FoundInv'
    BY <1>2, Zenon DEF DealInv, RequestsInv, JobInv, WriteInv, EntryInv, FoundInv, known, exists
  <1>8. GateInv'
    <2> SUFFICES ASSUME NEW q \in Requests
                 PROVE  /\ pc[q] = "gates" => lacks'[q] \subseteq toRead[q] /\ lacks'[q] \cap met'[job[q].deal] = {}
                        /\ pc[q] = "write" => lacks'[q] = {}
      BY <1>2, Zenon DEF GateInv
    <2>1. /\ pc[q] = "gates" => lacks[q] \subseteq toRead[q] /\ lacks[q] \cap met[job[q].deal] = {}
          /\ pc[q] = "write" => lacks[q] = {}
          /\ pc[q] = "gates" => job[q].deal \in Deals
      BY Zenon DEF DealInv, RequestsInv, GateInv, JobInv
    <2>2. CASE pc[q] = "gates" /\ job[q].deal = d
      <3>1. lacks'[q] = lacks[q] \ {c}
        BY <1>2, <2>2, Zenon
      <3> QED
        BY <1>4, <2>1, <2>2, <3>1, SMT
    <2>3. CASE ~(pc[q] = "gates" /\ job[q].deal = d)
      <3>1. lacks'[q] = lacks[q]
        BY <1>2, <2>3, Zenon
      <3> QED
        BY <1>3, <2>1, <2>3, <3>1, Zenon
    <2> QED
      BY <2>2, <2>3
  <1> QED
    BY <1>5, <1>6, <1>7, <1>8 DEF DealInv, RequestsInv

(* A deal nobody has locked goes; no request is heard of it again.         *)
LEMMA DeleteStep ==
  ASSUME DealInv, NEW d \in Deals, deleteDeal(d) PROVE DealInv'
  <1>1. TypeOK
    BY DEF DealInv
  <1>2. /\ exists(d) /\ \A q \in Requests : d \notin held[q]
        /\ deals' = [deals EXCEPT ![d] = Gone] /\ history' = [history EXCEPT ![d] = None]
        /\ met' = [met EXCEPT ![d] = {}]
        /\ stray' = stray \ {d} /\ bornWon' = bornWon \ {d} /\ torn' = torn \ {d}
        /\ UNCHANGED <<pc, job, toRead, from, rest, held, lacks>>
    BY Zenon DEF deleteDeal, request
  <1>3. TypeOK'
    BY <1>1, <1>2, SMT DEF TypeOK
  <1>4. /\ deals'[d] = Gone /\ history'[d] = None /\ met'[d] = {}
        /\ \A e \in Deals : e # d => /\ deals'[e] = deals[e] /\ history'[e] = history[e]
                                     /\ met'[e] = met[e]
    BY <1>1, <1>2, SMT DEF TypeOK
  <1>5. /\ \A e \in Deals : e # d /\ e \notin stray' => e \notin stray
        /\ \A e \in Deals : e # d /\ e \notin bornWon' => e \notin bornWon
        /\ \A e \in Deals : e \notin torn => e \notin torn'
    BY <1>2, SMT
  <1>6. d \notin torn'
    BY <1>2, Zenon
  <1>7. ASSUME NEW r PROVE Reliable(r) /\ Apart(r)
    <2>1. Apart(r)
      BY <1>2, Zenon DEF Apart
    <2>2. ASSUME NEW e \in Deals, e # d
          PROVE  /\ known(e) => deals'[e] # None
                 /\ known(e) /\ deals'[e] \notin {None, Gone} => exists(e)
                 /\ deals'[e] = deals[e] /\ history'[e] = history[e]
                 /\ e \notin stray' => e \notin stray
                 /\ e \notin bornWon' => e \notin bornWon
      BY <1>4, <1>5, <2>2, Zenon DEF known, exists
    <2>3. Reliable(r)
      BY <1>2, <1>4, <2>2, Zenon DEF Reliable
    <2> QED
      BY <2>1, <2>3
  <1>8. ASSUME NEW q \in Requests PROVE Fine(q) /\ Gate(q)
    <2>1. PICK r \in {0, 1} : r # q
      OBVIOUS
    <2>2. q \in Requests \ {r}
      BY <2>1
    <2>3. \A e \in Deals : met'[e] \subseteq met[e]
      BY <1>4, Zenon
    <2>4. \A e \in Deals : lacks'[q] \cap met[e] = {} => lacks'[q] \cap met'[e] = {}
      BY <2>3, SMT
    <2>5. lacks'[q] \subseteq lacks[q]
      BY <1>2
    <2> QED
      BY <1>7, <2>2, <2>4, <2>5, OthersAreFine, GatesOfOthers, Zenon
  <1>9. GateInv'
    BY <1>8, Zenon DEF Gate, GateInv
  <1>10. RequestsInv'
    BY <1>8, <1>9, FineIsEnough, Zenon
  <1>11. LockInv'
    BY <1>2, Zenon DEF DealInv, LockInv
  <1>12. FreshInv'
    BY <1>4, <1>5, <1>6, Zenon DEF DealInv, FreshInv, known
  <1>13. HistoryIsThePath'
    BY <1>4, <1>5, Zenon DEF DealInv, HistoryIsThePath, exists
  <1>14. WonIsOnRecord'
    BY <1>4, <1>5, Zenon DEF DealInv, WonIsOnRecord, exists
  <1> QED
    BY <1>3, <1>10, <1>11, <1>12, <1>13, <1>14 DEF DealInv

-----------------------------------------------------------------------------
(* The commit.  Every row it writes is one it has locked, which was there  *)
(* and is there.                                                           *)
LEMMA CommitRows ==
  ASSUME DealInv, NEW r \in Requests, commit(r)
  PROVE  LET d == job[r].deal
             to == job[r].to
         IN  /\ deals' \in [Deals -> Row \cup {None, Gone}]
             /\ \A e \in Deals \ held[r] : deals'[e] = deals[e]
             /\ \A e \in Deals \cap held[r] :
                   /\ exists(e) /\ deals'[e] \in Row
                   /\ deals'[e].stage = to
                   /\ deals[e].won => deals'[e].won
             /\ from[r] # to /\ to # job[r].read /\ to \in WonStages => deals'[d].won
  <1> DEFINE d == job[r].deal
             to == job[r].to
             moved == [stage |-> to, won |-> IF to = job[r].read THEN deals[d].won
                                             ELSE dealSideEffects(deals[d].won, to)]
             taken(e) == [deals[e] EXCEPT !.stage = to]
  <1>1. TypeOK
    BY DEF DealInv
  <1>2. /\ pc[r] = "write"
        /\ deals' = [e \in Deals |-> IF e = d /\ from[r] # to THEN moved
                                     ELSE IF e \in held[r] THEN taken(e) ELSE deals[e]]
    BY Zenon DEF commit
  <1>3. d \in Deals /\ to \in Stages /\ d \in held[r] /\ \A e \in held[r] : exists(e)
    BY <1>2, Zenon DEF DealInv, RequestsInv, JobInv, WriteInv
  <1>4. ASSUME NEW e \in Deals, exists(e) PROVE deals[e] \in Row
    BY <1>1, <1>4, Zenon DEF TypeOK, exists
  <1>5. ASSUME NEW e \in Deals, exists(e)
        PROVE  taken(e) \in Row /\ taken(e).stage = to /\ taken(e).won = deals[e].won
    <2>1. deals[e] \in Row
      BY <1>4, <1>5
    <2> QED
      BY <1>3, <2>1, SMT DEF Row
  <1>6. deals[d].won \in BOOLEAN
    BY <1>3, <1>4, Zenon DEF Row
  <1>7. moved.stage = to /\ moved.won = IF to = job[r].read THEN deals[d].won
                                        ELSE dealSideEffects(deals[d].won, to)
    OBVIOUS
  <1>8. (IF to = job[r].read THEN deals[d].won ELSE dealSideEffects(deals[d].won, to)) \in BOOLEAN
    BY <1>6, Zenon DEF dealSideEffects
  <1>9. moved \in Row
    BY <1>3, <1>8, Zenon DEF Row
  <1>10. deals[d].won => moved.won
    BY <1>7, Zenon DEF dealSideEffects
  <1>11. to # job[r].read /\ to \in WonStages => moved.won
    BY <1>7, Zenon DEF dealSideEffects
  <1> HIDE DEF d, to, moved, taken
  <1>12. deals' \in [Deals -> Row \cup {None, Gone}]
    <2>1. ASSUME NEW e \in Deals
          PROVE  (IF e = d /\ from[r] # to THEN moved
                  ELSE IF e \in held[r] THEN taken(e) ELSE deals[e]) \in Row \cup {None, Gone}
      <3>1. deals[e] \in Row \cup {None, Gone}
        BY <1>1, Zenon DEF TypeOK
      <3> QED
        BY <1>3, <1>5, <1>9, <3>1, Zenon
    <2> QED
      BY <1>2, <2>1, Zenon
  <1>13. \A e \in Deals \ held[r] : deals'[e] = deals[e]
    BY <1>2, <1>3, Zenon
  <1>14. ASSUME NEW e \in Deals \cap held[r]
         PROVE  /\ exists(e) /\ deals'[e] \in Row
                /\ deals'[e].stage = to
                /\ deals[e].won => deals'[e].won
    <2>1. exists(e)
      BY <1>3, Zenon
    <2>2. CASE e = d /\ from[r] # to
      <3>1. deals'[e] = moved
        BY <1>2, <2>2, Zenon
      <3> QED
        BY <1>7, <1>9, <1>10, <2>1, <2>2, <3>1, Zenon
    <2>3. CASE ~(e = d /\ from[r] # to)
      <3>1. deals'[e] = taken(e)
        BY <1>2, <2>3, Zenon
      <3> QED
        BY <1>5, <2>1, <3>1, Zenon
    <2> QED
      BY <2>2, <2>3
  <1>15. from[r] # to => deals'[d] = moved
    BY <1>2, <1>3, Zenon
  <1>16. from[r] # to /\ to # job[r].read /\ to \in WonStages => deals'[d].won
    BY <1>11, <1>15, Zenon
  <1> QED
    BY <1>12, <1>13, <1>14, <1>16, Zenon DEF d, to

LEMMA CommitStep ==
  ASSUME DealInv, NEW r \in Requests, commit(r) PROVE DealInv'
  <1> DEFINE d == job[r].deal
             to == job[r].to
             e0 == [from |-> from[r], to |-> to]
  <1>1. TypeOK
    BY DEF DealInv
  <1>2. /\ pc[r] = "write" /\ rest[r] \subseteq held[r]
        /\ ends(r) /\ met' = met /\ bornWon' = bornWon
        /\ stray' = stray \cup {e \in rest[r] : deals[e].stage # to}
    BY Zenon DEF commit
  <1>3. /\ d \in Deals /\ to \in Stages /\ d \in held[r] /\ held[r] \subseteq rest[r] \cup {d}
        /\ exists(d) /\ from[r] = deals[d].stage
    BY <1>2, Zenon DEF DealInv, RequestsInv, JobInv, WriteInv
  <1>4. Types /\ Apart(r) /\ Fine(r) /\ LockInv' /\ GateInv'
    BY <1>2, EndsStep, Zenon
  <1>5. e0 \in Event /\ from[r] \in Stages
    <2>1. deals[d] \in Row
      BY <1>1, <1>3, Zenon DEF TypeOK, exists
    <2>2. deals[d].stage \in Stages
      BY <2>1, Zenon DEF Row
    <2> QED
      BY <1>3, <2>2, Zenon DEF Event
  <1>6. e0.from = from[r] /\ e0.to = to /\ e0 # None
    BY <1>5
  <1>7. \/ from[r] # to /\ record(d, e0)
        \/ from[r] = to /\ history' = history /\ torn' = torn
    BY Zenon DEF commit
  <1>8. /\ deals' \in [Deals -> Row \cup {None, Gone}]
        /\ \A e \in Deals \ held[r] : deals'[e] = deals[e]
        /\ \A e \in Deals \cap held[r] :
              /\ exists(e) /\ deals'[e] \in Row
              /\ deals'[e].stage = to
              /\ deals[e].won => deals'[e].won
        /\ from[r] # to /\ to # job[r].read /\ to \in WonStages => deals'[d].won
    BY CommitRows, Zenon
  <1>9. /\ job[r].read \in WonStages /\ d \notin bornWon => deals[d].won
        /\ to \in WonStages => \A e \in rest[r] : e \notin bornWon /\ exists(e) => deals[e].won
    BY <1>2, <1>3, Zenon DEF DealInv, RequestsInv, FoundInv
  <1> HIDE DEF d, to, e0
  <1>10. from[r] # to => history' = [history EXCEPT ![d] = e0]
    BY <1>7, Zenon DEF record
  <1>11. /\ from[r] # to => history'[d] = e0
         /\ \A e \in Deals : e # d \/ from[r] = to => history'[e] = history[e]
    BY <1>1, <1>3, <1>7, <1>10, SMT DEF TypeOK
  <1>12. /\ \A e \in Deals : e # d /\ e \notin torn => e \notin torn'
         /\ from[r] = to => torn' = torn
         /\ from[r] # to /\ continues(history[d], e0) => torn' = torn
    BY <1>7, Zenon DEF record
  <1>13. /\ \A e \in Deals : e \notin stray' => e \notin stray
         /\ \A e \in rest[r] : e \notin stray' => deals[e].stage = to
    BY <1>2, Zenon
  <1>14. TypeOK'
    <2>1. history' \in [Deals -> Event \cup {None}] /\ torn' \subseteq Deals
      BY <1>1, <1>3, <1>5, <1>7, SMT DEF TypeOK, record
    <2>2. stray' \subseteq Deals
      BY <1>1, <1>2, SMT DEF TypeOK
    <2> QED
      BY <1>1, <1>2, <1>4, <1>8, <2>1, <2>2, SMT DEF TypeOK, Types
  <1>15. \A e \in Deals : (deals'[e] \notin {None, Gone} <=> exists(e)) /\ (known(e) <=> deals'[e] # None)
    <2> TAKE e \in Deals
    <2>1. CASE e \in held[r]
      <3>1. exists(e) /\ deals'[e] \in Row
        BY <1>8, <2>1, Zenon
      <3>2. deals'[e] \notin {None, Gone}
        BY <3>1
      <3> QED
        BY <3>1, <3>2, Zenon DEF exists, known
    <2>2. CASE e \notin held[r]
      <3>1. deals'[e] = deals[e]
        BY <1>8, <2>2, Zenon
      <3> QED
        BY <3>1, Zenon DEF exists, known
    <2> QED
      BY <2>1, <2>2
  <1>16. ASSUME NEW e \in Deals, e \notin stray', e # d \/ from[r] = to, exists(e)
         PROVE  deals'[e].stage = deals[e].stage
    <2>1. CASE e \in held[r]
      <3>1. deals'[e].stage = to
        BY <1>8, <2>1, Zenon
      <3>2. e = d => deals[e].stage = to
        BY <1>3, <1>16, Zenon
      <3>3. e # d => deals[e].stage = to
        BY <1>3, <1>13, <1>16, <2>1, Zenon
      <3> QED
        BY <3>1, <3>2, <3>3
    <2>2. CASE e \notin held[r]
      BY <1>8, <2>2, Zenon
    <2> QED
      BY <2>1, <2>2
  <1>17. ASSUME NEW e \in Deals, deals[e].won PROVE deals'[e].won
    <2>1. CASE e \in held[r]
      BY <1>8, <1>17, <2>1, Zenon
    <2>2. CASE e \notin held[r]
      <3>1. deals'[e] = deals[e]
        BY <1>8, <2>2, Zenon
      <3> QED
        BY <1>17, <3>1, Zenon
    <2> QED
      BY <2>1, <2>2
  <1>18. Reliable(r)
    <2> SUFFICES ASSUME NEW e \in Deals
                 PROVE  /\ \A q \in Requests \ {r} : e \in held[q] => deals'[e] = deals[e]
                        /\ exists(e) /\ e \notin stray' /\ history'[e] = None
                             => e \notin stray /\ history[e] = None /\ deals'[e].stage = deals[e].stage
      BY <1>2, <1>15, <1>17, Zenon DEF Reliable
    <2>1. \A q \in Requests \ {r} : e \in held[q] => deals'[e] = deals[e]
      <3>1. \A q \in Requests \ {r} : e \in held[q] => e \notin held[r]
        BY Zenon DEF DealInv, LockInv
      <3> QED
        BY <1>8, <3>1, Zenon
    <2>2. ASSUME exists(e), e \notin stray', history'[e] = None
          PROVE  e \notin stray /\ history[e] = None /\ deals'[e].stage = deals[e].stage
      <3>1. e # d \/ from[r] = to
        BY <1>6, <1>11, <2>2, Zenon
      <3> QED
        BY <1>11, <1>13, <1>16, <2>2, <3>1, Zenon
    <2> QED
      BY <2>1, <2>2
  <1>19. FreshInv'
    <2> SUFFICES ASSUME NEW e \in Deals, ~known(e) PROVE history'[e] = None /\ e \notin torn'
      BY <1>15, Zenon DEF FreshInv, known
    <2>1. e # d
      BY <1>3, Zenon DEF known, exists
    <2> QED
      BY <1>11, <1>12, <2>1, Zenon DEF DealInv, FreshInv
  <1>20. HistoryIsThePath'
    <2> SUFFICES ASSUME NEW e \in Deals, e \notin stray', exists(e)
                 PROVE  e \notin torn' /\ (history'[e] # None => history'[e].to = deals'[e].stage)
      BY <1>15, Zenon DEF HistoryIsThePath, exists
    <2>1. e \notin torn /\ (history[e] # None => history[e].to = deals[e].stage)
      BY <1>13, Zenon DEF DealInv, HistoryIsThePath
    <2>2. CASE e = d /\ from[r] # to
      <3>1. continues(history[d], e0)
        BY <1>3, <1>6, <2>1, <2>2, Zenon DEF continues
      <3>2. deals'[e].stage = to
        BY <1>3, <1>8, <2>2, Zenon
      <3> QED
        BY <1>6, <1>11, <1>12, <2>1, <2>2, <3>1, <3>2, Zenon
    <2>3. CASE e # d \/ from[r] = to
      BY <1>11, <1>12, <1>16, <2>1, <2>3, Zenon
    <2> QED
      BY <2>2, <2>3
  <1>21. WonIsOnRecord'
    <2> SUFFICES ASSUME NEW e \in Deals, e \notin bornWon, exists(e), deals'[e].stage \in WonStages
                 PROVE  deals'[e].won
      BY <1>2, <1>15, Zenon DEF WonIsOnRecord, exists
    <2>1. deals[e].stage \in WonStages => deals[e].won
      BY Zenon DEF DealInv, WonIsOnRecord
    <2>2. CASE e \notin held[r]
      <3>1. deals'[e] = deals[e]
        BY <1>8, <2>2, Zenon
      <3> QED
        BY <2>1, <3>1, Zenon
    <2>3. CASE e \in held[r] /\ e # d
      <3>1. e \in rest[r] /\ to \in WonStages
        BY <1>3, <1>8, <2>3, Zenon
      <3> QED
        BY <1>9, <1>17, <3>1, Zenon
    <2>4. CASE e = d
      <3>1. deals'[e].stage = to /\ to \in WonStages
        BY <1>3, <1>8, <2>4, Zenon
      <3>2. CASE from[r] = to
        BY <1>3, <1>17, <2>1, <2>4, <3>1, <3>2, Zenon
      <3>3. CASE from[r] # to /\ to = job[r].read
        BY <1>9, <1>17, <2>4, <3>1, <3>3, Zenon
      <3>4. CASE from[r] # to /\ to # job[r].read
        BY <1>8, <2>4, <3>1, <3>4, Zenon
      <3> QED
        BY <3>2, <3>3, <3>4
    <2> QED
      BY <2>2, <2>3, <2>4
  <1> QED
    BY <1>4, <1>14, <1>18, <1>19, <1>20, <1>21, StepOfParts, Zenon

-----------------------------------------------------------------------------
LEMMA StutterStep == DealInv /\ UNCHANGED vars => DealInv'
  <1> SUFFICES ASSUME DealInv, UNCHANGED vars PROVE DealInv'
    OBVIOUS
  <1>1. UNCHANGED <<deals, met, history, pc, job, toRead, from, rest, held, lacks, stray, bornWon, torn>>
    BY DEF vars, request
  <1>2. TypeOK' /\ LockInv' /\ FreshInv' /\ HistoryIsThePath' /\ WonIsOnRecord'
    BY <1>1, Zenon DEF DealInv, TypeOK, LockInv, FreshInv, HistoryIsThePath, WonIsOnRecord, known, exists
  <1>3. RequestsInv'
    BY <1>1, Zenon DEF DealInv, RequestsInv, JobInv, WriteInv, GateInv, EntryInv, FoundInv, known, exists
  <1> QED
    BY <1>2, <1>3 DEF DealInv

LEMMA StepInv == DealInv /\ [Next]_vars => DealInv'
  <1> SUFFICES ASSUME DealInv, [Next]_vars PROVE DealInv'
    OBVIOUS
  <1>1. CASE UNCHANGED vars
    BY <1>1, StutterStep, Zenon
  <1>2. ASSUME NEW r \in Requests, create(r) PROVE DealInv'
    <2>1. CASE \E d \in Deals, s \in Stages, o \in BOOLEAN : createDeal(r, d, s, o)
      <3>1. PICK d \in Deals, s \in Stages, o \in BOOLEAN : createDeal(r, d, s, o)
        BY <2>1
      <3> QED
        BY <3>1, CreateStep
    <2>2. CASE recordEntry(r)
      BY <2>2, RecordEntryStep
    <2> QED
      BY <1>2, <2>1, <2>2 DEF create
  <1>3. ASSUME NEW r \in Requests, move(r) PROVE DealInv'
    <2>1. CASE \E d \in Deals, s \in Stages, o \in BOOLEAN : transition(r, d, s, o)
      <3>1. PICK d \in Deals, s \in Stages, o \in BOOLEAN : transition(r, d, s, o)
        BY <2>1
      <3> QED
        BY <3>1, TransitionStep
    <2>2. CASE evaluateTransition(r)
      BY <2>2, EvaluateStep
    <2>3. CASE lockDeal(r)
      BY <2>3, LockDealStep
    <2>4. CASE writeRow(r)
      BY <2>4, WriteRowStep
    <2>5. CASE commit(r)
      BY <2>5, CommitStep
    <2> QED
      BY <1>3, <2>1, <2>2, <2>3, <2>4, <2>5 DEF move
  <1>4. ASSUME NEW r \in Requests, rollback(r) PROVE DealInv'
    BY <1>4, RollbackStep, Zenon
  <1>5. ASSUME NEW d \in Deals, deleteDeal(d) PROVE DealInv'
    BY <1>5, DeleteStep, Zenon
  <1>6. ASSUME NEW d \in Examined, NEW c \in Conditions, changeCondition(d, c) PROVE DealInv'
    BY <1>6, ConditionStep, Zenon
  <1> QED
    BY <1>1, <1>2, <1>3, <1>4, <1>5, <1>6, Zenon DEF Next

(* The inductive invariant holds in every reachable state. *)
THEOREM DealInvariant == Spec => []DealInv
  BY InitInv, StepInv, PTL DEF Spec

(* The rows have their types and the history of a deal, unless another's   *)
(* move has taken it along, is its path, for any number of deals, stages   *)
(* and requests: what commit writes to deal_history and deals agrees.      *)
THEOREM HistoryIsKept == Spec => []DealsAreOnTheirPath
  <1>1. DealInv => DealsAreOnTheirPath
    BY DEF DealInv, DealsAreOnTheirPath
  <1> QED
    BY <1>1, DealInvariant, PTL

(* No move goes past a condition of its stage that the deal never met      *)
(* while evaluateTransition ran.                                           *)
THEOREM GatesHold == Spec => []GatesAreRespected
  <1>1. DealInv => GatesAreRespected
    BY Zenon DEF DealInv, RequestsInv, GateInv, GatesAreRespected
  <1> QED
    BY <1>1, DealInvariant, PTL

(* A deal in a won stage has its win on record, however it got there       *)
(* (dealSideEffects and the rows commit takes along).                      *)
THEOREM WinsAreRecorded == Spec => []WonIsOnRecord
  <1>1. DealInv => WonIsOnRecord
    BY DEF DealInv
  <1> QED
    BY <1>1, DealInvariant, PTL

-----------------------------------------------------------------------------
(***************************************************************************)
(* Proofs about Pilots for any number of requests, criteria and versions.  *)
(*                                                                         *)
(* A request about to insert a version knows that all before it are there  *)
(* and out of use; a criterion without a version in use has such a request *)
(* whose version is not there yet, or one that died; a request about to    *)
(* start the pilot has seen what holds unless it was disturbed since.      *)
(***************************************************************************)

earlier(l, k) == l[1] = k[1] /\ l[2] < k[2]

InsertInv ==
  \A m \in Requests : act[m] \in {"add", "replace"} =>
    /\ about[m] \in Trials!Criteria
    /\ \A l \in Trials!Criteria : earlier(l, about[m]) => criteria[l].there /\ ~criteria[l].active

inUse(key) == \E k \in Trials!Criteria : criteria[k].active /\ k[1] = key
underWay(key) == \E m \in Requests :
                   act[m] = "replace" /\ about[m][1] = key /\ ~criteria[about[m]].there

StandsInv == \A key \in Trials!Keys :
               criteria[<<key, 1>>].there /\ key \notin severed => inUse(key) \/ underWay(key)

StartInv == \A m \in Requests : act[m] = "start" /\ m \notin disturbed => Trials!ready

DecideInv == \A m \in Requests : act[m] = "decide" => status = "running"

PilotInv == /\ Trials!TypeOK /\ InsertInv /\ Trials!OneStandingVersion /\ StandsInv
            /\ StartInv /\ DecideInv /\ Trials!StartsReady

LEMMA PilotInit == ASSUME Trials!BoundsAreNumbers PROVE Trials!Init => PilotInv
  <1> SUFFICES ASSUME Trials!Init PROVE PilotInv
    OBVIOUS
  <1>1. Trials!TypeOK
    <2>1. Trials!Absent \in Trials!Criterion
      BY Zenon DEF Trials!Absent, Trials!Criterion
    <2> QED
      BY <2>1, Zenon DEF Trials!Init, Trials!TypeOK
  <1>2. \A k \in Trials!Criteria : ~criteria[k].there /\ ~criteria[k].active
    BY SMT DEF Trials!Init, Trials!Absent
  <1>3. InsertInv /\ StartInv /\ DecideInv /\ Trials!StartsReady
    BY SMT DEF Trials!Init, InsertInv, StartInv, DecideInv, Trials!StartsReady
  <1>4. Trials!OneStandingVersion
    BY <1>2, SMT DEF Trials!OneStandingVersion
  <1>5. StandsInv
    <2>1. \A key \in Trials!Keys : <<key, 1>> \in Trials!Criteria
      BY SMT DEF Trials!Criteria, Trials!BoundsAreNumbers
    <2> QED
      BY <1>2, <2>1, SMT DEF StandsInv
  <1> QED
    BY <1>1, <1>3, <1>4, <1>5 DEF PilotInv

-----------------------------------------------------------------------------
(* Rows as they were, and requests that go on to something else than an    *)
(* insertion or give one up that had nothing left to insert.               *)
LEMMA RowsStay ==
  ASSUME PilotInv, UNCHANGED criteria, NEW m \in Requests, NEW what, NEW k, Trials!will(m, what, k),
         what \notin {"add", "replace"}, severed \subseteq severed',
         act[m] = "replace" => about[m][1] \in severed' \/ criteria[about[m]].there
  PROVE  InsertInv' /\ Trials!OneStandingVersion' /\ StandsInv'
  <1>1. /\ \A n \in Requests \ {m} : act'[n] = act[n] /\ about'[n] = about[n]
        /\ act'[m] = what
    BY SMT DEF PilotInv, Trials!TypeOK, Trials!will
  <1>2. InsertInv'
    BY <1>1, SMT DEF PilotInv, InsertInv, earlier
  <1>3. Trials!OneStandingVersion'
    BY DEF PilotInv, Trials!OneStandingVersion
  <1>4. StandsInv'
    <2> SUFFICES ASSUME NEW key \in Trials!Keys, criteria'[<<key, 1>>].there, key \notin severed'
                 PROVE  inUse(key)' \/ underWay(key)'
      BY DEF StandsInv
    <2>1. inUse(key) \/ underWay(key)
      BY DEF PilotInv, StandsInv
    <2>2. CASE inUse(key)
      BY <2>2 DEF inUse
    <2>3. ASSUME NEW n \in Requests, act[n] = "replace", about[n][1] = key, ~criteria[about[n]].there
          PROVE  underWay(key)'
      <3>1. n # m
        BY <2>3
      <3> QED
        BY <1>1, <2>3, <3>1, Zenon DEF underWay
    <2> QED
      BY <2>1, <2>2, <2>3 DEF underWay
  <1> QED
    BY <1>2, <1>3, <1>4

(* A row is inserted where none was, by a request that may. *)
LEMMA RowInserted ==
  ASSUME Trials!BoundsAreNumbers, PilotInv, NEW m \in Requests, act[m] \in {"add", "replace"}, Trials!done(m),
         ~criteria[about[m]].there, Trials!insert(about[m]), UNCHANGED severed
  PROVE  InsertInv' /\ Trials!OneStandingVersion' /\ StandsInv'
  <1> DEFINE a == about[m]
  <1>1. /\ a \in Trials!Criteria
        /\ \A l \in Trials!Criteria : earlier(l, a) => criteria[l].there /\ ~criteria[l].active
    BY DEF PilotInv, InsertInv
  <1>2. criteria \in [Trials!Criteria -> Trials!Criterion]
    BY DEF PilotInv, Trials!TypeOK
  <1>3. /\ \A l \in Trials!Criteria \ {a} : criteria'[l] = criteria[l]
        /\ criteria'[a].there /\ criteria'[a].active
    BY <1>1, <1>2, SMT DEF Trials!insert
  <1>4. /\ \A n \in Requests \ {m} : act'[n] = act[n] /\ about'[n] = about[n]
        /\ act'[m] = "nothing"
    BY SMT DEF PilotInv, Trials!TypeOK, Trials!will, Trials!done
  <1>5. InsertInv'
    <2> SUFFICES ASSUME NEW n \in Requests, act'[n] \in {"add", "replace"}
                 PROVE  /\ about'[n] \in Trials!Criteria
                        /\ \A l \in Trials!Criteria :
                             earlier(l, about'[n]) => criteria'[l].there /\ ~criteria'[l].active
      BY Zenon DEF InsertInv, earlier
    <2>1. n # m /\ act[n] \in {"add", "replace"} /\ about'[n] = about[n]
      BY <1>4
    <2>2. /\ about[n] \in Trials!Criteria
          /\ \A l \in Trials!Criteria : earlier(l, about[n]) => criteria[l].there /\ ~criteria[l].active
      BY <2>1 DEF PilotInv, InsertInv
    <2>3. ~earlier(a, about[n])
      BY <1>1, <2>2
    <2> HIDE DEF a
    <2> QED
      BY <1>3, <2>1, <2>2, <2>3, Zenon
  <1>6. Trials!OneStandingVersion'
    <2> SUFFICES ASSUME NEW k \in Trials!Criteria, NEW l \in Trials!Criteria, criteria'[k].there, earlier(l, k)
                 PROVE  criteria'[l].there /\ ~criteria'[l].active
      BY Zenon DEF Trials!OneStandingVersion, earlier
    <2>1. CASE k = a
      <3>1. l # a
        BY <1>1, <2>1, SMT DEF earlier, Trials!Criteria
      <3> QED
        BY <1>1, <1>3, <2>1, <3>1
    <2>2. CASE k # a
      <3>1. criteria[l].there /\ ~criteria[l].active
        BY <1>3, <2>2, Zenon DEF PilotInv, Trials!OneStandingVersion, earlier
      <3>2. l # a
        BY <3>1
      <3> QED
        BY <1>3, <3>1, <3>2
    <2> QED
      BY <2>1, <2>2
  <1>7. StandsInv'
    <2> SUFFICES ASSUME NEW key \in Trials!Keys, criteria'[<<key, 1>>].there, key \notin severed
                 PROVE  inUse(key)' \/ underWay(key)'
      BY DEF StandsInv
    <2>1. CASE key = a[1]
      BY <1>1, <1>3, <2>1 DEF inUse
    <2>2. CASE key # a[1]
      <3>1. <<key, 1>> \in Trials!Criteria /\ <<key, 1>> # a
        BY <2>2, SMT DEF Trials!Criteria, Trials!BoundsAreNumbers
      <3>2. inUse(key) \/ underWay(key)
        BY <1>3, <3>1 DEF PilotInv, StandsInv
      <3>3. ASSUME NEW k \in Trials!Criteria, criteria[k].active, k[1] = key
            PROVE  inUse(key)'
        <4>1. k # a
          BY <2>2, <3>3
        <4> QED
          BY <1>3, <3>3, <4>1, Zenon DEF inUse
      <3>4. ASSUME NEW n \in Requests, act[n] = "replace", about[n][1] = key, ~criteria[about[n]].there
            PROVE  underWay(key)'
        <4>1. n # m /\ about[n] # a
          BY <2>2, <3>4
        <4>2. about[n] \in Trials!Criteria
          BY <3>4 DEF PilotInv, InsertInv
        <4>3. criteria'[about[n]] = criteria[about[n]]
          BY <1>3, <4>1, <4>2
        <4> QED
          BY <1>4, <3>4, <4>1, <4>3, Zenon DEF underWay
      <3> QED
        BY <3>2, <3>3, <3>4 DEF inUse, underWay
    <2> QED
      BY <2>1, <2>2
  <1> QED
    BY <1>5, <1>6, <1>7

(* A version is put out of use: the request that does so will insert the   *)
(* next one, which is not there if this one was in use.                    *)
LEMMA RowRetired ==
  ASSUME Trials!BoundsAreNumbers, PilotInv, NEW m \in Requests, NEW k \in Trials!Criteria, Trials!retire(m, k)
  PROVE  InsertInv' /\ Trials!OneStandingVersion' /\ StandsInv'
  <1> DEFINE a == <<k[1], k[2] + 1>>
  <1>1. /\ act[m] = "nothing" /\ criteria[k].there /\ k[2] < MaxEditions
        /\ criteria' = [criteria EXCEPT ![k].active = FALSE]
        /\ Trials!will(m, "replace", a) /\ severed' = severed
    BY DEF Trials!retire
  <1>2. a \in Trials!Criteria
    BY <1>1, SMT DEF Trials!Criteria, Trials!BoundsAreNumbers
  <1>3. criteria \in [Trials!Criteria -> Trials!Criterion]
    BY DEF PilotInv, Trials!TypeOK
  <1>4. /\ \A l \in Trials!Criteria \ {k} : criteria'[l] = criteria[l]
        /\ criteria'[k].there /\ ~criteria'[k].active
    BY <1>1, <1>3, SMT DEF Trials!Criterion
  <1>5. /\ \A n \in Requests \ {m} : act'[n] = act[n] /\ about'[n] = about[n]
        /\ act'[m] = "replace" /\ about'[m] = a
    BY <1>1, SMT DEF PilotInv, Trials!TypeOK, Trials!will
  <1>6. \A l \in Trials!Criteria : criteria[l].there /\ ~criteria[l].active =>
                                     criteria'[l].there /\ ~criteria'[l].active
    BY <1>4
  <1>7. \A l \in Trials!Criteria : earlier(l, k) => criteria[l].there /\ ~criteria[l].active
    BY <1>1 DEF PilotInv, Trials!OneStandingVersion, earlier
  <1>8. InsertInv'
    <2> SUFFICES ASSUME NEW n \in Requests, act'[n] \in {"add", "replace"}
                 PROVE  /\ about'[n] \in Trials!Criteria
                        /\ \A l \in Trials!Criteria :
                             earlier(l, about'[n]) => criteria'[l].there /\ ~criteria'[l].active
      BY Zenon DEF InsertInv, earlier
    <2>1. CASE n = m
      <3>1. \A l \in Trials!Criteria : earlier(l, a) => l = k \/ earlier(l, k)
        BY SMT DEF earlier, Trials!Criteria, Trials!BoundsAreNumbers
      <3> HIDE DEF a
      <3> QED
        BY <1>2, <1>4, <1>5, <1>6, <1>7, <2>1, <3>1, Zenon
    <2>2. CASE n # m
      <3>1. /\ about[n] \in Trials!Criteria
            /\ \A l \in Trials!Criteria : earlier(l, about[n]) => criteria[l].there /\ ~criteria[l].active
        BY <1>5, <2>2 DEF PilotInv, InsertInv
      <3> QED
        BY <1>5, <1>6, <2>2, <3>1, Zenon
    <2> QED
      BY <2>1, <2>2
  <1>9. Trials!OneStandingVersion'
    <2> SUFFICES ASSUME NEW j \in Trials!Criteria, NEW l \in Trials!Criteria, criteria'[j].there, earlier(l, j)
                 PROVE  criteria'[l].there /\ ~criteria'[l].active
      BY Zenon DEF Trials!OneStandingVersion, earlier
    <2>1. criteria[j].there
      BY <1>1, <1>4, Zenon
    <2> QED
      BY <1>6, <2>1, Zenon DEF PilotInv, Trials!OneStandingVersion, earlier
  <1>10. StandsInv'
    <2> SUFFICES ASSUME NEW key \in Trials!Keys, criteria'[<<key, 1>>].there, key \notin severed
                 PROVE  inUse(key)' \/ underWay(key)'
      BY <1>1 DEF StandsInv
    <2>1. <<key, 1>> \in Trials!Criteria
      BY SMT DEF Trials!Criteria, Trials!BoundsAreNumbers
    <2>2. inUse(key) \/ underWay(key)
      <3>1. criteria[<<key, 1>>].there
        BY <1>1, <1>4, <2>1
      <3> QED
        BY <3>1 DEF PilotInv, StandsInv
    <2>3. ASSUME NEW j \in Trials!Criteria, criteria[j].active, j[1] = key, j # k
          PROVE  inUse(key)'
      BY <1>4, <2>3, Zenon DEF inUse
    <2>4. CASE criteria[k].active /\ k[1] = key
      <3>1. earlier(k, a)
        BY SMT DEF earlier, Trials!Criteria, Trials!BoundsAreNumbers
      <3>2. ~criteria[a].there
        BY <1>2, <2>4, <3>1 DEF PilotInv, Trials!OneStandingVersion, earlier
      <3>3. a # k
        BY SMT DEF Trials!Criteria, Trials!BoundsAreNumbers
      <3>4. ~criteria'[a].there
        BY <1>2, <1>4, <3>2, <3>3
      <3>5. a[1] = key
        BY <2>4
      <3> HIDE DEF a
      <3> QED
        BY <1>5, <3>4, <3>5, Zenon DEF underWay
    <2>5. ASSUME NEW n \in Requests, act[n] = "replace", about[n][1] = key, ~criteria[about[n]].there
          PROVE  underWay(key)'
      <3>1. n # m /\ about[n] # k /\ about[n] \in Trials!Criteria
        BY <1>1, <2>5 DEF PilotInv, InsertInv
      <3>2. criteria'[about[n]] = criteria[about[n]]
        BY <1>4, <3>1
      <3> QED
        BY <1>5, <2>5, <3>1, <3>2, Zenon DEF underWay
    <2> QED
      BY <2>2, <2>3, <2>4, <2>5, Zenon DEF inUse, underWay
  <1> QED
    BY <1>8, <1>9, <1>10

-----------------------------------------------------------------------------
(* The types. *)
LEMMA RecordsOfRows ==
  ASSUME Trials!TypeOK, NEW k \in Trials!Criteria,
         \/ Trials!insert(k)
         \/ criteria' = [criteria EXCEPT ![k].active = FALSE]
         \/ criteria' = [criteria EXCEPT ![k].agreed = TRUE]
  PROVE  criteria' \in [Trials!Criteria -> Trials!Criterion]
  <1>1. criteria \in [Trials!Criteria -> Trials!Criterion]
    BY DEF Trials!TypeOK
  <1>2. criteria[k] \in [there : BOOLEAN, active : BOOLEAN, agreed : BOOLEAN, method : BOOLEAN]
    BY <1>1 DEF Trials!Criterion
  <1>3. /\ [criteria[k] EXCEPT !.active = FALSE] \in Trials!Criterion
        /\ [criteria[k] EXCEPT !.agreed = TRUE] \in Trials!Criterion
    BY <1>2, Zenon DEF Trials!Criterion
  <1>4. \A b \in BOOLEAN : [there |-> TRUE, active |-> TRUE, agreed |-> FALSE, method |-> b] \in Trials!Criterion
    BY Zenon DEF Trials!Criterion
  <1> QED
    BY <1>1, <1>3, <1>4, Zenon DEF Trials!insert

LEMMA RequestTypes ==
  ASSUME Trials!TypeOK, NEW m \in Requests, NEW what \in {"nothing", "add", "replace", "start", "decide"},
         NEW k \in Trials!Criteria \cup {None}, Trials!will(m, what, k)
  PROVE  /\ act' \in [Requests -> {"nothing", "add", "replace", "start", "decide"}]
         /\ about' \in [Requests -> Trials!Criteria \cup {None}]
  BY Zenon DEF Trials!TypeOK, Trials!will

LEMMA PilotTypes == ASSUME Trials!BoundsAreNumbers, PilotInv, [Trials!Next]_(Trials!vars) PROVE Trials!TypeOK'
  <1> USE DEF Trials!card, Trials!request
  <1>1. Trials!TypeOK
    BY DEF PilotInv
  <1>2. ASSUME UNCHANGED <<status, outcome, criteria, act, about, severed, unready>>,
               filled' \in BOOLEAN, disturbed' \subseteq Requests
        PROVE  Trials!TypeOK'
    BY <1>1, <1>2, Zenon DEF Trials!TypeOK
  <1>3. CASE Trials!upsertPilot
    BY <1>2, <1>3, <1>1, Zenon DEF Trials!upsertPilot, Trials!disturb, Trials!TypeOK
  <1>4. ASSUME NEW m \in Requests, Trials!countCriteria(m) PROVE Trials!TypeOK'
    <2>1. PICK key \in Trials!Keys : Trials!will(m, "add", <<key, 1>>)
      BY <1>4, Zenon DEF Trials!countCriteria
    <2>2. <<key, 1>> \in Trials!Criteria
      BY SMT DEF Trials!Criteria, Trials!BoundsAreNumbers
    <2>3. UNCHANGED <<Trials!card, criteria, disturbed, severed, unready>>
      BY <1>4 DEF Trials!countCriteria
    <2> QED
      BY <1>1, <2>1, <2>2, <2>3, RequestTypes, Zenon DEF Trials!TypeOK
  <1>5. ASSUME NEW m \in Requests, Trials!addCriterion(m) \/ Trials!replace(m) PROVE Trials!TypeOK'
    <2>1. /\ act[m] \in {"add", "replace"} /\ Trials!will(m, "nothing", None) /\ Trials!disturb
          /\ criteria' = criteria \/ Trials!insert(about[m])
          /\ UNCHANGED <<Trials!card, severed, unready>>
      BY <1>5, Zenon DEF Trials!addCriterion, Trials!replace, Trials!done
    <2>2. about[m] \in Trials!Criteria
      BY <2>1, Zenon DEF PilotInv, InsertInv
    <2>3. criteria' \in [Trials!Criteria -> Trials!Criterion]
      BY <1>1, <2>1, <2>2, RecordsOfRows, Zenon DEF Trials!TypeOK
    <2>4. disturbed' \subseteq Requests
      BY <1>1, <2>1, Zenon DEF Trials!disturb, Trials!TypeOK
    <2> QED
      BY <1>1, <2>1, <2>3, <2>4, RequestTypes, Zenon DEF Trials!TypeOK
  <1>6. ASSUME NEW m \in Requests, NEW k \in Trials!Criteria, Trials!retire(m, k) PROVE Trials!TypeOK'
    <2>1. /\ criteria' = [criteria EXCEPT ![k].active = FALSE] /\ k[2] < MaxEditions
          /\ Trials!will(m, "replace", <<k[1], k[2] + 1>>) /\ Trials!disturb
          /\ UNCHANGED <<Trials!card, severed, unready>>
      BY <1>6, Zenon DEF Trials!retire
    <2>2. <<k[1], k[2] + 1>> \in Trials!Criteria
      BY <2>1, SMT DEF Trials!Criteria, Trials!BoundsAreNumbers
    <2>3. criteria' \in [Trials!Criteria -> Trials!Criterion]
      BY <1>1, <2>1, RecordsOfRows, Zenon
    <2>4. disturbed' \subseteq Requests
      BY <1>1, <2>1, Zenon DEF Trials!disturb, Trials!TypeOK
    <2> QED
      BY <1>1, <2>1, <2>2, <2>3, <2>4, RequestTypes, Zenon DEF Trials!TypeOK
  <1>7. ASSUME NEW k \in Trials!Criteria, Trials!agree(k) PROVE Trials!TypeOK'
    <2>1. criteria' \in [Trials!Criteria -> Trials!Criterion]
      BY <1>1, <1>7, RecordsOfRows, Zenon DEF Trials!agree
    <2> QED
      BY <1>1, <1>7, <2>1, Zenon DEF Trials!agree, Trials!TypeOK
  <1>8. ASSUME NEW m \in Requests, Trials!activatePilot(m) \/ Trials!decidePilot(m) PROVE Trials!TypeOK'
    <2>1. /\ Trials!will(m, "start", None) \/ Trials!will(m, "decide", None)
          /\ UNCHANGED <<Trials!card, criteria, disturbed, severed, unready>>
      BY <1>8, Zenon DEF Trials!activatePilot, Trials!decidePilot
    <2> QED
      BY <1>1, <2>1, RequestTypes, Zenon DEF Trials!TypeOK
  <1>9. ASSUME NEW m \in Requests, Trials!setPilotStatus(m) PROVE Trials!TypeOK'
    <2>1. unready' \in BOOLEAN
      BY <1>1, <1>9, Zenon DEF Trials!setPilotStatus, Trials!TypeOK
    <2>2. Trials!will(m, "nothing", None) /\ status' = "running"
      BY <1>9, Zenon DEF Trials!setPilotStatus, Trials!done
    <2>3. disturbed' \subseteq Requests /\ UNCHANGED <<outcome, filled, criteria, severed>>
      BY <1>1, <1>9, Zenon DEF Trials!setPilotStatus, Trials!TypeOK
    <2> QED
      BY <1>1, <2>1, <2>2, <2>3, RequestTypes, Zenon DEF Trials!TypeOK
  <1>10. ASSUME NEW m \in Requests, Trials!setPilotDecision(m) PROVE Trials!TypeOK'
    <2>1. /\ Trials!will(m, "nothing", None) /\ outcome' \in Trials!Outcomes
          /\ UNCHANGED <<status, filled, criteria, disturbed, severed, unready>>
      BY <1>10, Zenon DEF Trials!setPilotDecision, Trials!done
    <2> QED
      BY <1>1, <2>1, RequestTypes, Zenon DEF Trials!TypeOK
  <1>11. ASSUME NEW m \in Requests, Trials!vanish(m) PROVE Trials!TypeOK'
    <2>1. Trials!will(m, "nothing", None) /\ UNCHANGED <<Trials!card, criteria, unready>>
      BY <1>11, Zenon DEF Trials!vanish, Trials!done
    <2>2. disturbed' \subseteq Requests
      BY <1>1, <1>11, Zenon DEF Trials!vanish, Trials!TypeOK
    <2>3. severed' \subseteq Trials!Keys
      <3>1. CASE act[m] = "replace"
        <4>1. about[m] \in Trials!Criteria
          BY <3>1 DEF PilotInv, InsertInv
        <4>2. about[m][1] \in Trials!Keys
          BY <4>1, SMT DEF Trials!Criteria
        <4>3. severed' = severed \cup {about[m][1]}
          BY <1>11, <3>1 DEF Trials!vanish
        <4> QED
          BY <1>1, <4>2, <4>3, Zenon DEF Trials!TypeOK
      <3>2. CASE act[m] # "replace"
        BY <1>1, <1>11, <3>2, Zenon DEF Trials!vanish, Trials!TypeOK
      <3> QED
        BY <3>1, <3>2
    <2> QED
      BY <1>1, <2>1, <2>2, <2>3, RequestTypes, Zenon DEF Trials!TypeOK
  <1>12. CASE UNCHANGED Trials!vars
    BY <1>1, <1>12, Zenon DEF Trials!vars, Trials!TypeOK
  <1> QED
    BY <1>3, <1>4, <1>5, <1>6, <1>7, <1>8, <1>9, <1>10, <1>11, <1>12, Zenon DEF Trials!Next

-----------------------------------------------------------------------------
(* The start: what a request has seen of the pilot stays so until somebody *)
(* disturbs it, since an agreement only adds to it.                        *)
LEMMA StartStep == ASSUME PilotInv, [Trials!Next]_(Trials!vars) PROVE StartInv'
  <1> USE DEF Trials!card, Trials!request
  <1>1. /\ act \in [Requests -> {"nothing", "add", "replace", "start", "decide"}]
        /\ criteria \in [Trials!Criteria -> Trials!Criterion]
        /\ \A n \in Requests : act[n] = "start" /\ n \notin disturbed => Trials!ready
    BY DEF PilotInv, Trials!TypeOK, StartInv
  <1>2. ASSUME NEW m \in Requests, NEW what \in {"nothing", "add", "replace", "decide"}, NEW k,
               Trials!will(m, what, k), UNCHANGED <<filled, criteria>>, disturbed \ {m} \subseteq disturbed'
        PROVE  StartInv'
    <2>1. Trials!ready' = Trials!ready
      BY <1>2, Zenon DEF Trials!ready, Trials!active
    <2>2. act' = [act EXCEPT ![m] = what]
      BY <1>2 DEF Trials!will
    <2> QED
      BY <1>1, <1>2, <2>1, <2>2, SMT DEF StartInv
  <1>3. ASSUME Trials!disturb, \E m \in Requests, what \in {"nothing", "replace"} : act' = [act EXCEPT ![m] = what]
        PROVE  StartInv'
    BY <1>1, <1>3, SMT DEF StartInv, Trials!disturb
  <1>4. CASE Trials!upsertPilot
    BY <1>1, <1>4, SMT DEF StartInv, Trials!upsertPilot, Trials!disturb
  <1>5. ASSUME NEW m \in Requests, Trials!countCriteria(m) PROVE StartInv'
    <2>1. \E key \in Trials!Keys : Trials!will(m, "add", <<key, 1>>)
      BY <1>5, Zenon DEF Trials!countCriteria
    <2>2. UNCHANGED <<filled, criteria, disturbed>>
      BY <1>5 DEF Trials!countCriteria
    <2> QED
      BY <1>2, <2>1, <2>2, SMT
  <1>6. ASSUME NEW m \in Requests, Trials!addCriterion(m) \/ Trials!replace(m) PROVE StartInv'
    <2>1. Trials!disturb /\ act' = [act EXCEPT ![m] = "nothing"]
      BY <1>6, Zenon DEF Trials!addCriterion, Trials!replace, Trials!done, Trials!will
    <2> QED
      BY <1>3, <2>1
  <1>7. ASSUME NEW m \in Requests, NEW k \in Trials!Criteria, Trials!retire(m, k) PROVE StartInv'
    <2>1. Trials!disturb /\ act' = [act EXCEPT ![m] = "replace"]
      BY <1>7, Zenon DEF Trials!retire, Trials!will
    <2> QED
      BY <1>3, <2>1
  <1>8. ASSUME NEW k \in Trials!Criteria, Trials!agree(k) PROVE StartInv'
    <2>1. /\ criteria' = [criteria EXCEPT ![k].agreed = TRUE]
          /\ UNCHANGED <<filled, act, disturbed>>
      BY <1>8, Zenon DEF Trials!agree
    <2>2. \A l \in Trials!Criteria : /\ criteria'[l].active = criteria[l].active
                                     /\ criteria'[l].method = criteria[l].method
                                     /\ criteria[l].agreed => criteria'[l].agreed
      <3>1. criteria[k] \in [there : BOOLEAN, active : BOOLEAN, agreed : BOOLEAN, method : BOOLEAN]
        BY <1>1 DEF Trials!Criterion
      <3>2. /\ \A l \in Trials!Criteria \ {k} : criteria'[l] = criteria[l]
            /\ criteria'[k] = [criteria[k] EXCEPT !.agreed = TRUE]
        BY <1>1, <2>1, Zenon
      <3>3. /\ criteria'[k].active = criteria[k].active
            /\ criteria'[k].method = criteria[k].method
            /\ criteria'[k].agreed
        BY <3>1, <3>2, Zenon
      <3> QED
        BY <3>2, <3>3, Zenon
    <2>3. Trials!ready => Trials!ready'
      BY <2>1, <2>2, Zenon DEF Trials!ready, Trials!active
    <2> QED
      BY <1>1, <2>1, <2>3, Zenon DEF StartInv
  <1>9. ASSUME NEW m \in Requests, Trials!activatePilot(m) PROVE StartInv'
    <2>1. /\ Trials!ready /\ act' = [act EXCEPT ![m] = "start"]
          /\ UNCHANGED <<filled, criteria, disturbed>>
      BY <1>9, Zenon DEF Trials!activatePilot, Trials!will
    <2>2. Trials!ready'
      BY <2>1, Zenon DEF Trials!ready, Trials!active
    <2> QED
      BY <2>2 DEF StartInv
  <1>10. ASSUME NEW m \in Requests, Trials!setPilotStatus(m) \/ Trials!decidePilot(m) \/ Trials!setPilotDecision(m)
         PROVE  StartInv'
    <2>1. \E what \in {"nothing", "decide"} : Trials!will(m, what, None)
      BY <1>10, Zenon DEF Trials!setPilotStatus, Trials!decidePilot, Trials!setPilotDecision, Trials!done
    <2>2. UNCHANGED <<filled, criteria>> /\ disturbed \ {m} \subseteq disturbed'
      BY <1>10, SMT DEF Trials!setPilotStatus, Trials!decidePilot, Trials!setPilotDecision
    <2> QED
      BY <1>2, <2>1, <2>2, SMT
  <1>11. ASSUME NEW m \in Requests, Trials!vanish(m) PROVE StartInv'
    <2>1. /\ Trials!will(m, "nothing", None) /\ UNCHANGED <<filled, criteria>>
          /\ disturbed' = disturbed \ {m}
      BY <1>11, Zenon DEF Trials!vanish, Trials!done
    <2> QED
      BY <1>2, <2>1, SMT
  <1>12. CASE UNCHANGED Trials!vars
    <2>1. Trials!ready' = Trials!ready
      BY <1>12, Zenon DEF Trials!vars, Trials!ready, Trials!active
    <2> QED
      BY <1>1, <1>12, <2>1, Zenon DEF Trials!vars, StartInv
  <1> QED
    BY <1>4, <1>5, <1>6, <1>7, <1>8, <1>9, <1>10, <1>11, <1>12, Zenon DEF Trials!Next

(* The decision: running is for good, and only a running pilot is decided. *)
LEMMA DecideStep == ASSUME PilotInv, [Trials!Next]_(Trials!vars) PROVE DecideInv' /\ Trials!StartsReady'
  <1> USE DEF Trials!card, Trials!request
  <1>1. /\ act \in [Requests -> {"nothing", "add", "replace", "start", "decide"}]
        /\ \A n \in Requests : act[n] = "decide" => status = "running"
        /\ ~unready /\ (outcome # "none" => status = "running")
    BY DEF PilotInv, Trials!TypeOK, DecideInv, Trials!StartsReady
  <1>2. ASSUME NEW m \in Requests, NEW what, act' = [act EXCEPT ![m] = what],
               what = "decide" => status = "running", UNCHANGED <<status, outcome, unready>>
        PROVE  DecideInv' /\ Trials!StartsReady'
    BY <1>1, <1>2, SMT DEF DecideInv, Trials!StartsReady
  <1>3. ASSUME UNCHANGED <<act, status, outcome, unready>> PROVE DecideInv' /\ Trials!StartsReady'
    BY <1>1, <1>3, Zenon DEF DecideInv, Trials!StartsReady
  <1>4. ASSUME NEW m \in Requests, Trials!countCriteria(m) PROVE DecideInv' /\ Trials!StartsReady'
    <2>1. act' = [act EXCEPT ![m] = "add"] /\ UNCHANGED <<status, outcome, unready>>
      BY <1>4, Zenon DEF Trials!countCriteria, Trials!will
    <2> QED
      BY <1>2, <2>1
  <1>5. ASSUME NEW m \in Requests,
               Trials!addCriterion(m) \/ Trials!replace(m) \/ Trials!vanish(m) \/ (\E k \in Trials!Criteria : Trials!retire(m, k))
               \/ Trials!activatePilot(m) \/ Trials!decidePilot(m)
        PROVE  DecideInv' /\ Trials!StartsReady'
    <2>1. /\ \/ \E what \in {"nothing", "replace", "start"} : act' = [act EXCEPT ![m] = what]
             \/ act' = [act EXCEPT ![m] = "decide"] /\ status = "running"
          /\ UNCHANGED <<status, outcome, unready>>
      BY <1>5, Zenon DEF Trials!addCriterion, Trials!replace, Trials!vanish, Trials!retire, Trials!activatePilot, Trials!decidePilot, Trials!done, Trials!will
    <2> QED
      BY <1>2, <2>1, SMT
  <1>6. ASSUME NEW m \in Requests, Trials!setPilotStatus(m) PROVE DecideInv' /\ Trials!StartsReady'
    <2>1. /\ act[m] = "start" /\ act' = [act EXCEPT ![m] = "nothing"] /\ status' = "running"
          /\ unready' = (unready \/ (status # "running" /\ ~Trials!ready /\ m \notin disturbed))
      BY <1>6, Zenon DEF Trials!setPilotStatus, Trials!done, Trials!will
    <2>2. ~unready'
      BY <1>1, <2>1, Zenon DEF PilotInv, StartInv
    <2> QED
      BY <2>1, <2>2, Zenon DEF DecideInv, Trials!StartsReady
  <1>7. ASSUME NEW m \in Requests, Trials!setPilotDecision(m) PROVE DecideInv' /\ Trials!StartsReady'
    <2>1. /\ act[m] = "decide" /\ act' = [act EXCEPT ![m] = "nothing"]
          /\ UNCHANGED <<status, unready>>
      BY <1>7, Zenon DEF Trials!setPilotDecision, Trials!done, Trials!will
    <2> QED
      BY <1>1, <2>1, SMT DEF DecideInv, Trials!StartsReady
  <1>8. CASE Trials!upsertPilot \/ (\E k \in Trials!Criteria : Trials!agree(k)) \/ UNCHANGED Trials!vars
    <2>1. UNCHANGED <<act, status, outcome, unready>>
      BY <1>8, Zenon DEF Trials!upsertPilot, Trials!agree, Trials!vars
    <2> QED
      BY <1>3, <2>1
  <1> QED
    BY <1>4, <1>5, <1>6, <1>7, <1>8, Zenon DEF Trials!Next

-----------------------------------------------------------------------------
(* The criteria. *)
LEMMA CriteriaStep ==
  ASSUME Trials!BoundsAreNumbers, PilotInv, [Trials!Next]_(Trials!vars) PROVE InsertInv' /\ Trials!OneStandingVersion' /\ StandsInv'
  <1> USE DEF Trials!card, Trials!request
  <1> DEFINE Goal == InsertInv' /\ Trials!OneStandingVersion' /\ StandsInv'
  <1>1. ASSUME NEW m \in Requests, Trials!addCriterion(m) \/ Trials!replace(m) PROVE Goal
    <2>1. act[m] \in {"add", "replace"} /\ Trials!will(m, "nothing", None) /\ severed' = severed
      BY <1>1, Zenon DEF Trials!addCriterion, Trials!replace, Trials!done
    <2>2. CASE criteria[about[m]].there
      <3>1. UNCHANGED criteria
        BY <1>1, <2>2, Zenon DEF Trials!addCriterion, Trials!replace
      <3> QED
        BY <2>1, <2>2, <3>1, RowsStay, SMT
    <2>3. CASE ~criteria[about[m]].there
      <3>1. Trials!insert(about[m])
        BY <1>1, <2>3, Zenon DEF Trials!addCriterion, Trials!replace
      <3> QED
        BY <2>1, <2>3, <3>1, RowInserted DEF Trials!done
    <2> QED
      BY <2>2, <2>3
  <1>2. ASSUME NEW m \in Requests,
               Trials!activatePilot(m) \/ Trials!setPilotStatus(m) \/ Trials!decidePilot(m) \/ Trials!setPilotDecision(m) \/ Trials!vanish(m)
        PROVE  Goal
    <2>1. /\ criteria' = criteria
          /\ \E what \in {"nothing", "start", "decide"} : Trials!will(m, what, None)
      BY <1>2, Zenon DEF Trials!activatePilot, Trials!setPilotStatus, Trials!decidePilot, Trials!setPilotDecision, Trials!vanish, Trials!done
    <2>2. severed \subseteq severed' /\ (act[m] = "replace" => about[m][1] \in severed')
      BY <1>2, SMT DEF Trials!activatePilot, Trials!setPilotStatus, Trials!decidePilot, Trials!setPilotDecision, Trials!vanish
    <2> QED
      BY <2>1, <2>2, RowsStay, SMT
  <1>3. ASSUME NEW m \in Requests, Trials!countCriteria(m) PROVE Goal
    <2>1. PICK key \in Trials!Keys : Trials!will(m, "add", <<key, 1>>)
      BY <1>3, Zenon DEF Trials!countCriteria
    <2>2. act[m] = "nothing" /\ UNCHANGED <<criteria, severed>>
      BY <1>3 DEF Trials!countCriteria
    <2>3. /\ \A n \in Requests \ {m} : act'[n] = act[n] /\ about'[n] = about[n]
          /\ act'[m] = "add" /\ about'[m] = <<key, 1>>
      BY <2>1, SMT DEF PilotInv, Trials!TypeOK, Trials!will
    <2>4. <<key, 1>> \in Trials!Criteria /\ \A l \in Trials!Criteria : ~earlier(l, <<key, 1>>)
      BY SMT DEF Trials!Criteria, Trials!BoundsAreNumbers, earlier
    <2>5. InsertInv'
      BY <2>2, <2>3, <2>4, SMT DEF PilotInv, InsertInv, earlier
    <2>6. Trials!OneStandingVersion'
      BY <2>2 DEF PilotInv, Trials!OneStandingVersion
    <2>7. StandsInv'
      <3> SUFFICES ASSUME NEW k \in Trials!Keys, criteria'[<<k, 1>>].there, k \notin severed'
                   PROVE  inUse(k)' \/ underWay(k)'
        BY DEF StandsInv
      <3>1. inUse(k) \/ underWay(k)
        BY <2>2 DEF PilotInv, StandsInv
      <3>2. inUse(k) => inUse(k)'
        BY <2>2 DEF inUse
      <3>3. ASSUME NEW n \in Requests, act[n] = "replace", about[n][1] = k, ~criteria[about[n]].there
            PROVE  underWay(k)'
        <4>1. n # m
          BY <2>2, <3>3
        <4> QED
          BY <2>2, <2>3, <3>3, <4>1, Zenon DEF underWay
      <3> QED
        BY <3>1, <3>2, <3>3 DEF underWay
    <2> QED
      BY <2>5, <2>6, <2>7
  <1>4. ASSUME NEW k \in Trials!Criteria, Trials!agree(k) PROVE Goal
    <2>1. /\ criteria' = [criteria EXCEPT ![k].agreed = TRUE]
          /\ UNCHANGED <<act, about, severed>>
      BY <1>4, Zenon DEF Trials!agree
    <2>2. \A l \in Trials!Criteria : /\ criteria'[l].active = criteria[l].active
                                     /\ criteria'[l].there = criteria[l].there
      <3>1. criteria[k] \in [there : BOOLEAN, active : BOOLEAN, agreed : BOOLEAN, method : BOOLEAN]
        BY DEF PilotInv, Trials!TypeOK, Trials!Criterion
      <3>2. /\ \A l \in Trials!Criteria \ {k} : criteria'[l] = criteria[l]
            /\ criteria'[k] = [criteria[k] EXCEPT !.agreed = TRUE]
        BY <2>1, Zenon DEF PilotInv, Trials!TypeOK
      <3>3. criteria'[k].active = criteria[k].active /\ criteria'[k].there = criteria[k].there
        BY <3>1, <3>2, Zenon
      <3> QED
        BY <3>2, <3>3, Zenon
    <2>3. InsertInv' /\ Trials!OneStandingVersion'
      BY <2>1, <2>2, Zenon DEF PilotInv, InsertInv, Trials!OneStandingVersion, earlier
    <2>4. StandsInv'
      <3> SUFFICES ASSUME NEW key \in Trials!Keys, criteria'[<<key, 1>>].there, key \notin severed'
                   PROVE  inUse(key)' \/ underWay(key)'
        BY DEF StandsInv
      <3>1. <<key, 1>> \in Trials!Criteria
        BY SMT DEF Trials!Criteria, Trials!BoundsAreNumbers
      <3>2. inUse(key) \/ underWay(key)
        BY <2>1, <2>2, <3>1, Zenon DEF PilotInv, StandsInv
      <3>3. inUse(key) => inUse(key)'
        BY <2>2, Zenon DEF inUse
      <3>4. ASSUME NEW n \in Requests, act[n] = "replace", about[n][1] = key, ~criteria[about[n]].there
            PROVE  underWay(key)'
        <4>1. about[n] \in Trials!Criteria
          BY <3>4 DEF PilotInv, InsertInv
        <4>2. ~criteria'[about[n]].there
          BY <2>2, <3>4, <4>1
        <4> QED
          BY <2>1, <3>4, <4>2, Zenon DEF underWay
      <3> QED
        BY <3>2, <3>3, <3>4 DEF underWay
    <2> QED
      BY <2>3, <2>4
  <1>5. CASE Trials!upsertPilot \/ UNCHANGED Trials!vars
    <2>1. UNCHANGED <<criteria, act, about, severed>>
      BY <1>5, Zenon DEF Trials!upsertPilot, Trials!vars
    <2> QED
      BY <2>1, Zenon DEF PilotInv, InsertInv, Trials!OneStandingVersion, StandsInv, earlier, inUse, underWay
  <1> QED
    BY <1>1, <1>2, <1>3, <1>4, <1>5, RowRetired, Zenon DEF Trials!Next

LEMMA PilotStep == ASSUME Trials!BoundsAreNumbers PROVE PilotInv /\ [Trials!Next]_(Trials!vars) => PilotInv'
  BY PilotTypes, StartStep, DecideStep, CriteriaStep DEF PilotInv

(* The inductive invariant: what the requests in flight still rely on.     *)
THEOREM PilotInvariant == ASSUME Trials!BoundsAreNumbers PROVE Trials!Spec => []PilotInv
  BY PilotInit, PilotStep, PTL DEF Trials!Spec

(* However additions, edits and failures of requests meet: a criterion has *)
(* at most its latest version in use and is not lost by an edit, and the   *)
(* pilot starts by its conditions and is decided only then                 *)
(* (newPilotCriterionVersion, activatePilot, decidePilot).                 *)
THEOREM PilotsAreSound == ASSUME Trials!BoundsAreNumbers PROVE Trials!Spec => []Trials!PilotsStand
  <1>1. ASSUME PilotInv PROVE Trials!NoCriterionIsLost
    <2> SUFFICES ASSUME NEW key \in Trials!Keys, criteria[<<key, 1>>].there, key \notin severed,
                        \A m \in Requests : act[m] = "replace" => about[m][1] # key
                 PROVE  \E k \in Trials!active : k[1] = key
      BY DEF Trials!NoCriterionIsLost
    <2>1. inUse(key)
      BY <1>1, Zenon DEF PilotInv, StandsInv, underWay
    <2> QED
      BY <2>1, Zenon DEF inUse, Trials!active
  <1>2. PilotInv => Trials!PilotsStand
    BY <1>1 DEF PilotInv, Trials!PilotsStand, Trials!CriteriaStand
  <1> QED
    BY <1>2, PilotInvariant, PTL

(* The pilot is beside the moves of deals: a step of theirs leaves it.     *)
LEMMA PilotBeside == MCSpec => Trials!Spec
  <1>1. MCInit => Trials!Init
    BY DEF MCInit
  <1>2. [MCNext]_mcVars => [Trials!Next]_(Trials!vars)
    BY Zenon DEF MCNext, mcVars, pilotVars, Trials!vars, Trials!card, Trials!request
  <1> QED
    BY <1>1, <1>2, PTL DEF MCSpec, Trials!Spec

(* What the run checks of pilots: their rows keep their shape, criteria    *)
(* stand and the start is by its conditions.                               *)
THEOREM PilotsAlwaysStand == MCSpec => []PilotsStand
  <1>1. PilotInv => Trials!TypeOK
    BY DEF PilotInv
  <1> QED
    BY <1>1, PilotBeside, PilotInvariant, PilotsAreSound, ProofAssumptions, PTL DEF PilotsStand
=============================================================================
