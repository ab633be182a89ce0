------------------------------- MODULE RowSaves -------------------------------
(***************************************************************************)
(* Saves of rows that carry a version, in the three ways the repositories  *)
(* write them.  Each reads the row, compares the version its client names  *)
(* and then writes, in statements of their own:                            *)
(*   conditional  companies, contacts, channels, tasks, and the cards of   *)
(*                pilot and launch: the update asks for the version again  *)
(*                and the database adds one;                               *)
(*   counted      agreements with partners: an upsert that does not ask,   *)
(*                the database adds one;                                   *)
(*   rewritten    deals, subscriptions of deals, drafts: an update that    *)
(*                does not ask and writes the version read plus one.       *)
(*                                                                         *)
(* The same rows are also written without a count, by what is not an edit: *)
(*   tasks      marked for review by an answer of the client or by a ban;  *)
(*   drafts     put on hold by a ban;                                      *)
(*   deals      given their next action, a partner, or a place by the move *)
(*              of another deal;                                           *)
(*   companies, contacts  banned, unbanned, filled in by the import;       *)
(*   pilots     started and decided.                                       *)
(* A save that names the version from before such a write passes.          *)
(*                                                                         *)
(* What a save changes is abstracted to who saved last, and an uncounted   *)
(* write to the requests it goes unseen by.  What moves, bans and imports  *)
(* write is in DealTransitions, ProposalDrafts and LeadImport.             *)
(***************************************************************************)
EXTENDS Naturals

CONSTANTS Writers,    \* requests
          Conditional, Counted, Rewritten, \* rows, by the way they are written
          None,       \* no version named, no row, nobody
          MaxSaves    \* bound: saves of a row

VARIABLES version, author,        \* rows; version 0 is a row not there yet
          expecting,              \* the version a request names
          step, target, readVersion, \* of a request between its two statements
          saves,                  \* history: saves of a row so far
          shown, readAt,          \* history: of a request, saves when its client looked, when it read
          doubled,                \* history: rows that gave one number to two saves
          passedBy                \* history: requests whose row was written without a count
                                  \* since their client looked

table == <<version, author, saves, doubled>>
vars == <<table, expecting, step, target, readVersion, shown, readAt, passedBy>>

Rows == Conditional \cup Counted \cup Rewritten

(* A row is written in one way. *)
OneWayEach == /\ Conditional \cap Counted = {} /\ Conditional \cap Rewritten = {}
              /\ Counted \cap Rewritten = {}

Init == /\ version \in [Rows -> {0, 1}] /\ \A row \in Rewritten : version[row] = 1
        /\ author = [row \in Rows |-> None]
        /\ expecting = [w \in Writers |-> None]
        /\ step = [w \in Writers |-> "resting"]
        /\ target = [w \in Writers |-> None]
        /\ readVersion = [w \in Writers |-> 0]
        /\ saves = version
        /\ shown = [w \in Writers |-> 0]
        /\ readAt = [w \in Writers |-> 0]
        /\ doubled = {}
        /\ passedBy = {}

-----------------------------------------------------------------------------
(* A client looks at a row, and edits it naming the version it saw or, as  *)
(* the pages of the CRM do, none.                                          *)

look(w) == /\ step[w] = "resting"
           /\ step' = [step EXCEPT ![w] = "editing"]
           /\ \E row \in Rows :
                /\ target' = [target EXCEPT ![w] = row]
                /\ \E v \in {None} \cup ({version[row]} \ {0}) : expecting' = [expecting EXCEPT ![w] = v]
                /\ shown' = [shown EXCEPT ![w] = saves[row]]
           /\ UNCHANGED <<table, readVersion, readAt, passedBy>>

(* Seeded defect: the version a request names is not asked for. *)
fits_Ignored(w) == TRUE

fits(w) == expecting[w] \in {None, version[target[w]]}

rest(w) == /\ step' = [step EXCEPT ![w] = "resting"]
           /\ target' = [target EXCEPT ![w] = None]
           /\ expecting' = [expecting EXCEPT ![w] = None]
           /\ readVersion' = [readVersion EXCEPT ![w] = 0]
           /\ shown' = [shown EXCEPT ![w] = 0]
           /\ readAt' = [readAt EXCEPT ![w] = 0]
           /\ passedBy' = passedBy \ {w}

(* The row is read; a version that differs is a conflict.                  *)
read(w) == /\ step[w] = "editing" /\ fits(w)
           /\ step' = [step EXCEPT ![w] = "writing"]
           /\ readVersion' = [readVersion EXCEPT ![w] = version[target[w]]]
           /\ readAt' = [readAt EXCEPT ![w] = saves[target[w]]]
           /\ UNCHANGED <<table, expecting, target, shown, passedBy>>

conflict(w) == /\ step[w] = "editing" /\ ~fits(w)
               /\ rest(w)
               /\ UNCHANGED table

put(w, row, v) == /\ saves[row] < MaxSaves
                  /\ version' = [version EXCEPT ![row] = v]
                  /\ author' = [author EXCEPT ![row] = w]
                  /\ saves' = [saves EXCEPT ![row] = @ + 1]
                  /\ doubled' = IF v <= version[row] THEN doubled \cup {row} ELSE doubled

(* Seeded defect: the update does not ask for the version again. *)
writeConditional_Once(w) ==
  /\ step[w] = "writing" /\ target[w] \in Conditional
  /\ put(w, target[w], readVersion[w] + 1)
  /\ rest(w)

(* The conditional update: nothing matched is a conflict.  A request that  *)
(* names no version updates, or upserts, whatever is there.                *)
writeConditional(w) ==
  /\ step[w] = "writing" /\ target[w] \in Conditional
  /\ IF fits(w) THEN put(w, target[w], version[target[w]] + 1) ELSE UNCHANGED table
  /\ rest(w)

writeCounted(w) ==
  /\ step[w] = "writing" /\ target[w] \in Counted
  /\ put(w, target[w], version[target[w]] + 1)
  /\ rest(w)

writeRewritten(w) ==
  /\ step[w] = "writing" /\ target[w] \in Rewritten
  /\ put(w, target[w], readVersion[w] + 1)
  /\ rest(w)

(* One statement, by whoever sets the mark, the ban or the summary: the row *)
(* is another and its version is as it was.  Agreements have no such       *)
(* writer.  Channels and the cards of launches have none either, but share *)
(* the conditional rows with those that do.                                *)
writeUncounted(row) ==
  /\ row \in Conditional \cup Rewritten /\ version[row] # 0
  /\ passedBy' = passedBy \cup {w \in Writers : target[w] = row}
  /\ UNCHANGED <<table, expecting, step, target, readVersion, shown, readAt>>

(* A request ends anywhere: its process dies, or the database refuses. *)
abandon(w) == /\ step[w] # "resting" /\ rest(w)
              /\ UNCHANGED table

Next == \/ \E w \in Writers :
             \/ look(w) \/ read(w) \/ conflict(w) \/ abandon(w)
             \/ writeConditional(w) \/ writeCounted(w) \/ writeRewritten(w)
        \/ \E row \in Rows : writeUncounted(row)

Spec == Init /\ [][Next]_vars

-----------------------------------------------------------------------------
TypeOK == /\ version \in [Rows -> Nat] /\ saves \in [Rows -> Nat]
          /\ author \in [Rows -> Writers \cup {None}]
          /\ expecting \in [Writers -> Nat \cup {None}]
          /\ step \in [Writers -> {"resting", "editing", "writing"}]
          /\ target \in [Writers -> Rows \cup {None}]
          /\ readVersion \in [Writers -> Nat]
          /\ shown \in [Writers -> Nat] /\ readAt \in [Writers -> Nat]
          /\ doubled \subseteq Rows
          /\ passedBy \subseteq Writers

(* The rows of the first kind keep the promise of VersionedRows. *)
Promise == INSTANCE VersionedRows
             WITH Table <- Conditional, Clients <- Writers,
                  version <- [row \in Conditional |-> version[row]],
                  author <- [row \in Conditional |-> author[row]]

(* Companies, contacts, channels, tasks and cards give every update the    *)
(* next version, and of two updates that name one version only one         *)
(* succeeds ("two updates of one version do not both pass").               *)
KeepsThePromise == Promise!Spec

saved(w) == \E row \in Rows : saves'[row] # saves[row] /\ author'[row] = w /\ target[w] = row

savesUnseen(w) == saves[target[w]] # shown[w]
unseen(w) == savesUnseen(w) \/ w \in passedBy

(* What a save that named a version overwrites unseen, whichever way the   *)
(* row is written, is what was written without a count, and no other save, *)
(* except where the code leaves room for that too: the way does not ask    *)
(* again and another save came between its two statements, or the number   *)
(* it named had been given twice.                                          *)
UnseenIsKept ==
  [][\A w \in Writers : saved(w) /\ expecting[w] # None /\ unseen(w) =>
       \/ w \in passedBy /\ ~savesUnseen(w)
       \/ /\ target[w] \notin Conditional
          /\ saves[target[w]] # readAt[w] \/ target[w] \in doubled]_vars
=============================================================================
