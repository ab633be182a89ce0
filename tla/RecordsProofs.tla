--------------------------- MODULE RecordsProofs ---------------------------
(***************************************************************************)
(* Proofs about the four systems of MCRecords for any number of clerks,    *)
(* payments, entries and accounts and any bounds: first of each system by  *)
(* itself, then of the run, in which it stands beside the others.          *)
(*   Row saves: the version of a row is the number of its saves until it   *)
(* gives one number twice, which only the rewritten rows do; until then a  *)
(* version named by a request stands for what its client was shown.        *)
(*   Receipts: sums over the ledger are cardinalities of sets of units,    *)
(* which grow and shrink by one transaction at a time.                     *)
(*   Next actions: a listing no other request outran is still what a fresh *)
(* one would say.                                                          *)
(*   Imports: a run that brings a contact is alone at its company, or the  *)
(* company is crowded; and what it saw there is still so.                  *)
(***************************************************************************)
EXTENDS MCRecords, FiniteSetTheorems, TLAPS

BusyInv == \A w \in Clerks : step[w] # "resting" => target[w] \in Saves!Rows

(* Only rewritten rows give a number twice; the others count their saves.  *)
NumbersInv == /\ doubled \subseteq Rewritten
              /\ \A row \in Saves!Rows : row \notin doubled => version[row] = saves[row]

(* What was read is not from the future. *)
ReadInv == \A w \in Clerks :
             step[w] = "writing" /\ target[w] \notin doubled => readVersion[w] <= version[target[w]]

(* The version named is of what was shown, and a request that passed the   *)
(* comparison was shown what it read.                                      *)
NamedInv == \A w \in Clerks :
              step[w] # "resting" /\ expecting[w] # None /\ target[w] \notin doubled =>
                /\ expecting[w] = shown[w]
                /\ step[w] = "writing" => readAt[w] = shown[w]

SavesInv == Saves!TypeOK /\ BusyInv /\ NumbersInv /\ ReadInv /\ NamedInv

LEMMA SavesInit == Saves!Init => SavesInv
  <1> SUFFICES ASSUME Saves!Init PROVE SavesInv
    OBVIOUS
  <1>1. Saves!TypeOK
    BY SMT DEF Saves!Init, Saves!TypeOK, Saves!Rows
  <1> QED
    BY <1>1, SMT DEF Saves!Init, SavesInv, BusyInv, NumbersInv, ReadInv, NamedInv

-----------------------------------------------------------------------------
(* What the steps of one request leave alone. *)
LEMMA LookInv ==
  ASSUME SavesInv, NEW w \in Clerks, Saves!look(w) PROVE SavesInv'
  <1>0. PICK row \in Saves!Rows :
          /\ target' = [target EXCEPT ![w] = row]
          /\ \E v \in {None} \cup ({version[row]} \ {0}) : expecting' = [expecting EXCEPT ![w] = v]
          /\ shown' = [shown EXCEPT ![w] = saves[row]]
    BY Zenon DEF Saves!look
  <1>1. PICK v \in {None} \cup ({version[row]} \ {0}) :
          /\ step[w] = "resting"
          /\ step' = [step EXCEPT ![w] = "editing"] /\ target' = [target EXCEPT ![w] = row]
          /\ expecting' = [expecting EXCEPT ![w] = v] /\ shown' = [shown EXCEPT ![w] = saves[row]]
          /\ UNCHANGED <<version, author, saves, doubled, readVersion, readAt, passedBy>>
    BY <1>0, Zenon DEF Saves!look, Saves!table
  <1>2. version[row] \in Nat /\ saves[row] \in Nat /\ v \in Nat \cup {None}
    BY SMT DEF SavesInv, Saves!TypeOK
  <1>3. Saves!TypeOK'
    BY <1>1, <1>2, SMT DEF SavesInv, Saves!TypeOK
  <1>4. BusyInv' /\ NumbersInv' /\ ReadInv'
    BY <1>1, SMT DEF SavesInv, Saves!TypeOK, BusyInv, NumbersInv, ReadInv
  <1>5. v # None /\ row \notin doubled => v = saves[row]
    BY SMT DEF SavesInv, NumbersInv
  <1>6. NamedInv'
    BY <1>1, <1>5, SMT DEF SavesInv, Saves!TypeOK, NamedInv
  <1> QED
    BY <1>3, <1>4, <1>6 DEF SavesInv

LEMMA ReadStepInv ==
  ASSUME SavesInv, NEW w \in Clerks, Saves!read(w) PROVE SavesInv'
  <1>1. /\ step[w] = "editing" /\ expecting[w] \in {None, version[target[w]]}
        /\ step' = [step EXCEPT ![w] = "writing"]
        /\ readVersion' = [readVersion EXCEPT ![w] = version[target[w]]]
        /\ readAt' = [readAt EXCEPT ![w] = saves[target[w]]]
        /\ UNCHANGED <<version, author, saves, doubled, expecting, target, shown, passedBy>>
    BY DEF Saves!read, Saves!fits, Saves!table
  <1>2. target[w] \in Saves!Rows
    BY <1>1, SMT DEF SavesInv, BusyInv
  <1>3. version[target[w]] \in Nat /\ saves[target[w]] \in Nat
    BY <1>2, SMT DEF SavesInv, Saves!TypeOK
  <1>4. Saves!TypeOK'
    BY <1>1, <1>3, SMT DEF SavesInv, Saves!TypeOK
  <1>5. BusyInv' /\ NumbersInv' /\ ReadInv'
    BY <1>1, <1>3, SMT DEF SavesInv, Saves!TypeOK, BusyInv, NumbersInv, ReadInv
  <1>6. expecting[w] # None /\ target[w] \notin doubled =>
          expecting[w] = shown[w] /\ expecting[w] = saves[target[w]]
    BY <1>1, <1>2, SMT DEF SavesInv, NumbersInv, NamedInv
  <1>7. NamedInv'
    BY <1>1, <1>6, SMT DEF SavesInv, Saves!TypeOK, NamedInv
  <1> QED
    BY <1>4, <1>5, <1>7 DEF SavesInv

(* A request ends without a save. *)
LEMMA SavesRest ==
  ASSUME SavesInv, NEW w \in Clerks, Saves!rest(w), UNCHANGED Saves!table PROVE SavesInv'
  <1>1. Saves!TypeOK'
    BY SMT DEF SavesInv, Saves!TypeOK, Saves!rest, Saves!table
  <1>2. BusyInv' /\ NumbersInv' /\ ReadInv' /\ NamedInv'
    BY SMT DEF SavesInv, Saves!TypeOK, BusyInv, NumbersInv, ReadInv, NamedInv, Saves!rest, Saves!table
  <1> QED
    BY <1>1, <1>2 DEF SavesInv

(* A save.  Its number is the next one, or of a row rewritten, where it    *)
(* may be any up to it.                                                    *)
LEMMA SaveInv ==
  ASSUME SavesInv, NEW w \in Clerks, step[w] = "writing", Saves!rest(w), NEW row \in Saves!Rows, NEW v \in Nat,
         Saves!put(w, row, v),
         \/ v = version[row] + 1
         \/ row \in Rewritten /\ (row \notin doubled => v <= version[row] + 1)
  PROVE  SavesInv'
  <1>1. /\ version \in [Saves!Rows -> Nat] /\ saves \in [Saves!Rows -> Nat] /\ doubled \subseteq Saves!Rows
        /\ author \in [Saves!Rows -> Clerks \cup {None}]
    BY DEF SavesInv, Saves!TypeOK
  <1>2. /\ version' = [version EXCEPT ![row] = v] /\ saves' = [saves EXCEPT ![row] = saves[row] + 1]
        /\ author' = [author EXCEPT ![row] = w]
        /\ doubled' = IF v <= version[row] THEN doubled \cup {row} ELSE doubled
    BY DEF Saves!put
  <1>3. /\ version' \in [Saves!Rows -> Nat] /\ saves' \in [Saves!Rows -> Nat] /\ doubled' \subseteq Saves!Rows
        /\ author' \in [Saves!Rows -> Clerks \cup {None}]
    BY <1>1, <1>2, SMT
  <1>4. /\ expecting' \in [Clerks -> Nat \cup {None}]
        /\ step' \in [Clerks -> {"resting", "editing", "writing"}]
        /\ target' \in [Clerks -> Saves!Rows \cup {None}]
        /\ readVersion' \in [Clerks -> Nat]
        /\ shown' \in [Clerks -> Nat] /\ readAt' \in [Clerks -> Nat]
        /\ passedBy' \subseteq Clerks
    BY SMT DEF SavesInv, Saves!TypeOK, Saves!rest
  <1>5. Saves!TypeOK'
    BY <1>3, <1>4 DEF Saves!TypeOK
  <1>6. doubled \subseteq doubled' /\ doubled' \subseteq Rewritten
    BY <1>1, <1>2, SMT DEF SavesInv, NumbersInv
  <1>7. NumbersInv'
    <2> SUFFICES ASSUME NEW r \in Saves!Rows, r \notin doubled' PROVE version'[r] = saves'[r]
      BY <1>6 DEF NumbersInv
    <2>1. version[r] = saves[r]
      BY <1>6, SMT DEF SavesInv, NumbersInv
    <2>2. CASE r # row
      BY <1>1, <1>2, <2>1, <2>2, SMT
    <2>3. CASE r = row
      <3>1. v = version[row] + 1
        BY <1>1, <1>2, <2>3, SMT
      <3> QED
        BY <1>1, <1>2, <2>1, <2>3, <3>1, SMT
    <2> QED
      BY <2>2, <2>3
  <1>8. \A u \in Clerks \ {w} : /\ step'[u] = step[u] /\ target'[u] = target[u]
                                /\ expecting'[u] = expecting[u] /\ readVersion'[u] = readVersion[u]
                                /\ shown'[u] = shown[u] /\ readAt'[u] = readAt[u]
    BY SMT DEF SavesInv, Saves!TypeOK, Saves!rest
  <1>9. step'[w] = "resting"
    BY SMT DEF SavesInv, Saves!TypeOK, Saves!rest
  <1>10. BusyInv'
    BY <1>8, <1>9, SMT DEF SavesInv, BusyInv
  <1>11. ReadInv'
    <2> SUFFICES ASSUME NEW u \in Clerks, step'[u] = "writing", target'[u] \notin doubled'
                 PROVE  readVersion'[u] <= version'[target'[u]]
      BY DEF ReadInv
    <2>1. u # w /\ step[u] = "writing" /\ target'[u] = target[u] /\ readVersion'[u] = readVersion[u]
      BY <1>8, <1>9, SMT
    <2>2. target[u] \in Saves!Rows /\ readVersion[u] <= version[target[u]] /\ readVersion[u] \in Nat
      BY <1>6, <2>1, SMT DEF SavesInv, Saves!TypeOK, BusyInv, ReadInv
    <2>3. target[u] = row => v > version[row]
      BY <1>1, <1>2, <2>1, SMT
    <2> QED
      BY <1>1, <1>2, <2>1, <2>2, <2>3, SMT
  <1>12. NamedInv'
    BY <1>6, <1>8, <1>9, SMT DEF SavesInv, NamedInv
  <1> QED
    BY <1>5, <1>7, <1>10, <1>11, <1>12 DEF SavesInv

(* The three ways to save, as what each does to its row. *)
LEMMA Writes ==
  ASSUME SavesInv, NEW w \in Clerks
  PROVE  /\ Saves!writeConditional(w) =>
              \/ Saves!rest(w) /\ UNCHANGED Saves!table
              \/ Saves!fits(w) /\ Saves!rest(w) /\ Saves!put(w, target[w], version[target[w]] + 1)
         /\ Saves!writeCounted(w) => Saves!rest(w) /\ Saves!put(w, target[w], version[target[w]] + 1)
         /\ Saves!writeRewritten(w) => Saves!rest(w) /\ Saves!put(w, target[w], readVersion[w] + 1)
  BY Zenon DEF Saves!writeConditional, Saves!writeCounted, Saves!writeRewritten

LEMMA WriteInv ==
  ASSUME SavesInv, NEW w \in Clerks, Saves!writeConditional(w) \/ Saves!writeCounted(w) \/ Saves!writeRewritten(w)
  PROVE  SavesInv'
  <1>1. step[w] = "writing"
    BY Zenon DEF Saves!writeConditional, Saves!writeCounted, Saves!writeRewritten
  <1>2. target[w] \in Saves!Rows
    BY <1>1, SMT DEF SavesInv, BusyInv
  <1>3. version[target[w]] \in Nat /\ readVersion[w] \in Nat
    BY <1>2, SMT DEF SavesInv, Saves!TypeOK
  <1>4. version[target[w]] + 1 \in Nat /\ readVersion[w] + 1 \in Nat
    BY <1>3, SMT
  <1>5. CASE Saves!writeRewritten(w)
    <2>1. Saves!rest(w) /\ Saves!put(w, target[w], readVersion[w] + 1) /\ target[w] \in Rewritten
      BY <1>5, Zenon DEF Saves!writeRewritten
    <2>2. target[w] \notin doubled => readVersion[w] + 1 <= version[target[w]] + 1
      BY <1>1, <1>3, SMT DEF SavesInv, ReadInv
    <2> QED
      BY <1>1, <1>2, <1>4, <2>1, <2>2, SaveInv
  <1>6. CASE Saves!rest(w) /\ UNCHANGED Saves!table
    BY <1>6, SavesRest
  <1>7. CASE Saves!rest(w) /\ Saves!put(w, target[w], version[target[w]] + 1)
    BY <1>1, <1>2, <1>4, <1>7, SaveInv
  <1> QED
    BY <1>5, <1>6, <1>7, Writes, Zenon

(* A write without a count changes no version, no save and no request. *)
LEMMA UncountedInv ==
  ASSUME SavesInv, NEW row \in Saves!Rows, Saves!writeUncounted(row) PROVE SavesInv'
  <1>1. UNCHANGED <<version, author, saves, doubled, expecting, step, target, readVersion, shown, readAt>>
    BY Zenon DEF Saves!writeUncounted, Saves!table
  <1>2. passedBy' \subseteq Clerks
    BY SMT DEF Saves!writeUncounted, SavesInv, Saves!TypeOK
  <1>3. Saves!TypeOK'
    BY <1>1, <1>2 DEF SavesInv, Saves!TypeOK
  <1> QED
    BY <1>1, <1>3 DEF SavesInv, BusyInv, NumbersInv, ReadInv, NamedInv

LEMMA SavesStep == SavesInv /\ [Saves!Next]_(Saves!vars) => SavesInv'
  <1> SUFFICES ASSUME SavesInv, [Saves!Next]_(Saves!vars) PROVE SavesInv'
    OBVIOUS
  <1>1. ASSUME NEW w \in Clerks, Saves!conflict(w) \/ Saves!abandon(w) PROVE SavesInv'
    <2>1. Saves!rest(w) /\ UNCHANGED Saves!table
      BY <1>1, Zenon DEF Saves!conflict, Saves!abandon
    <2> QED
      BY <2>1, SavesRest
  <1>2. CASE UNCHANGED Saves!vars
    BY <1>2 DEF Saves!vars, Saves!table, SavesInv, Saves!TypeOK, BusyInv, NumbersInv, ReadInv, NamedInv
  <1> QED
    BY <1>1, <1>2, LookInv, ReadStepInv, WriteInv, UncountedInv, Zenon DEF Saves!Next

(* The inductive invariant: what a save in flight read, and how a number of *)
(* a row relates to the saves so far.                                      *)
THEOREM SavesInvariant == Saves!Spec => []SavesInv
  BY SavesInit, SavesStep, PTL DEF Saves!Spec

(* Rows and requests are well typed, for any number of them. *)
THEOREM TypeCorrect == Saves!Spec => []Saves!TypeOK
  <1>1. SavesInv => Saves!TypeOK
    BY DEF SavesInv
  <1> QED
    BY <1>1, SavesInvariant, PTL

-----------------------------------------------------------------------------
(* Who saved a row is who wrote it. *)
LEMMA SavedRow ==
  ASSUME SavesInv, [Saves!Next]_(Saves!vars), NEW w \in Clerks, Saves!saved(w)
  PROVE  /\ step[w] = "writing" /\ target[w] \in Saves!Rows
         /\ \/ target[w] \in Conditional /\ Saves!fits(w)
            \/ target[w] \in Counted
            \/ target[w] \in Rewritten
  <1>1. PICK row \in Saves!Rows : saves'[row] # saves[row] /\ author'[row] = w /\ target[w] = row
    BY DEF Saves!saved
  <1>2. ~UNCHANGED Saves!table
    BY <1>1 DEF Saves!table
  <1>3. PICK u \in Clerks : Saves!writeConditional(u) \/ Saves!writeCounted(u) \/ Saves!writeRewritten(u)
    BY <1>2, Zenon
       DEF Saves!Next, Saves!vars, Saves!look, Saves!read, Saves!conflict, Saves!abandon,
           Saves!writeUncounted
  <1>4. step[u] = "writing" /\ target[u] \in Saves!Rows
    BY <1>3, Zenon DEF Saves!writeConditional, Saves!writeCounted, Saves!writeRewritten, SavesInv, BusyInv
  <1>5. PICK v : Saves!put(u, target[u], v)
    BY <1>2, <1>3, Writes, Zenon
  <1>6. saves \in [Saves!Rows -> Nat] /\ author \in [Saves!Rows -> Clerks \cup {None}]
    BY DEF SavesInv, Saves!TypeOK
  <1>7. /\ saves' = [saves EXCEPT ![target[u]] = saves[target[u]] + 1]
        /\ author' = [author EXCEPT ![target[u]] = u]
    BY <1>5 DEF Saves!put
  <1>8. row = target[u]
    BY <1>1, <1>4, <1>6, <1>7, Zenon
  <1>9. u = w
    BY <1>1, <1>4, <1>6, <1>7, <1>8, Zenon
  <1>10. Saves!writeConditional(u) => Saves!fits(u) /\ target[u] \in Conditional
    BY <1>2, Writes, Zenon DEF Saves!writeConditional
  <1> QED
    BY <1>3, <1>4, <1>9, <1>10, Zenon DEF Saves!writeCounted, Saves!writeRewritten

(* A save that named a version overwrites unseen what was written without  *)
(* a count, and another save only where its way of writing leaves room for *)
(* it (updateSalesTask and upsertPilot against updateDealFields and        *)
(* upsertPartnerAgreement).                                                *)
THEOREM UnseenKept == ASSUME Saves!OneWayEach PROVE Saves!Spec => Saves!UnseenIsKept
  <1>1. SavesInv /\ [Saves!Next]_(Saves!vars) =>
          \A w \in Clerks : Saves!saved(w) /\ expecting[w] # None /\ Saves!savesUnseen(w) =>
             /\ target[w] \notin Conditional
             /\ saves[target[w]] # readAt[w] \/ target[w] \in doubled
    <2> SUFFICES ASSUME SavesInv, [Saves!Next]_(Saves!vars), NEW w \in Clerks, Saves!saved(w), expecting[w] # None,
                        Saves!savesUnseen(w)
                 PROVE  /\ target[w] \notin Conditional
                        /\ saves[target[w]] # readAt[w] \/ target[w] \in doubled
      OBVIOUS
    <2>0. saves[target[w]] # shown[w]
      BY DEF Saves!savesUnseen
    <2>1. /\ step[w] = "writing" /\ target[w] \in Saves!Rows
          /\ \/ target[w] \in Conditional /\ Saves!fits(w)
             \/ target[w] \in Counted
             \/ target[w] \in Rewritten
      BY SavedRow
    <2>2. target[w] \notin doubled => expecting[w] = shown[w] /\ readAt[w] = shown[w]
      BY <2>1, SMT DEF SavesInv, NamedInv
    <2>3. target[w] \in Conditional => target[w] \notin doubled
      BY SMT DEF Saves!OneWayEach, SavesInv, NumbersInv
    <2>4. target[w] \notin Conditional
      <3> SUFFICES ASSUME target[w] \in Conditional PROVE FALSE
        OBVIOUS
      <3>1. Saves!fits(w)
        BY <2>1, SMT DEF Saves!OneWayEach
      <3>2. expecting[w] = version[target[w]]
        BY <3>1 DEF Saves!fits
      <3>3. version[target[w]] = saves[target[w]]
        BY <2>1, <2>3, SMT DEF SavesInv, NumbersInv
      <3> QED
        BY <2>0, <2>2, <2>3, <3>2, <3>3
    <2> QED
      BY <2>0, <2>2, <2>4
  <1>2. SavesInv /\ [Saves!Next]_(Saves!vars) =>
          \A w \in Clerks : Saves!saved(w) /\ expecting[w] # None /\ Saves!unseen(w) =>
             \/ w \in passedBy /\ ~Saves!savesUnseen(w)
             \/ /\ target[w] \notin Conditional
                /\ saves[target[w]] # readAt[w] \/ target[w] \in doubled
    BY <1>1, Zenon DEF Saves!unseen
  <1> QED
    BY <1>2, SavesInvariant, PTL DEF Saves!Spec, Saves!UnseenIsKept

-----------------------------------------------------------------------------
(* The rows written on condition implement VersionedRows: a look, a read   *)
(* and an end are clients making up their minds; a save is a save.         *)
LEMMA PromiseInit == Saves!Init => Saves!Promise!Init
  BY SMT DEF Saves!Init, Saves!Promise!Init, Saves!Rows

LEMMA PromiseStep ==
  ASSUME Saves!OneWayEach, SavesInv, SavesInv', [Saves!Next]_(Saves!vars)
  PROVE  [Saves!Promise!Next]_(Saves!Promise!vars)
  <1>1. Saves!Promise!prepare
    BY DEF SavesInv, Saves!TypeOK, Saves!Promise!prepare
  <1>2. /\ version \in [Saves!Rows -> Nat] /\ author \in [Saves!Rows -> Clerks \cup {None}]
    BY DEF SavesInv, Saves!TypeOK
  <1>3. CASE version' = version /\ author' = author
    BY <1>1, <1>3, Zenon DEF Saves!Promise!Next
  <1>4. ASSUME NEW w \in Clerks, target[w] \in Saves!Rows, NEW v, Saves!put(w, target[w], v)
        PROVE  /\ version' = [version EXCEPT ![target[w]] = v]
               /\ author' = [author EXCEPT ![target[w]] = w]
    BY <1>4 DEF Saves!put
  <1>5. ASSUME NEW w \in Clerks, target[w] \in Conditional, Saves!fits(w),
               Saves!put(w, target[w], version[target[w]] + 1)
        PROVE  [Saves!Promise!Next]_(Saves!Promise!vars)
    <2>1. target[w] \in Saves!Rows
      BY <1>5 DEF Saves!Rows
    <2>2. /\ version' = [version EXCEPT ![target[w]] = version[target[w]] + 1]
          /\ author' = [author EXCEPT ![target[w]] = w]
      BY <1>4, <1>5, <2>1
    <2> DEFINE V == [row \in Conditional |-> version[row]]
               A == [row \in Conditional |-> author[row]]
    <2>3. PICK it \in Conditional : it = target[w]
      BY <1>5
    <2>4. /\ [row \in Conditional |-> version'[row]] = [V EXCEPT ![it] = V[it] + 1]
          /\ [row \in Conditional |-> author'[row]] = [A EXCEPT ![it] = w]
      <3>1. \A row \in Conditional :
              /\ version'[row] = IF row = it THEN V[it] + 1 ELSE V[row]
              /\ author'[row] = IF row = it THEN w ELSE A[row]
        BY <1>2, <1>5, <2>1, <2>2, <2>3, SMT DEF Saves!Rows
      <3> QED
        BY <2>3, <3>1, Zenon
    <2>5. expecting[w] \in {None, V[it]}
      BY <1>5, <2>3, SMT DEF Saves!fits
    <2>6. Saves!Promise!save(w, it)
      BY <2>4, <2>5 DEF Saves!Promise!save
    <2>7. Saves!Promise!Next
      BY <1>1, <2>6, Zenon DEF Saves!Promise!Next
    <2> QED
      BY <2>7
  <1>6. ASSUME NEW w \in Clerks, target[w] \in Saves!Rows, target[w] \notin Conditional, NEW v,
               Saves!put(w, target[w], v)
        PROVE  [Saves!Promise!Next]_(Saves!Promise!vars)
    <2>1. /\ version' = [version EXCEPT ![target[w]] = v]
          /\ author' = [author EXCEPT ![target[w]] = w]
      BY <1>4, <1>6
    <2>2. /\ [row \in Conditional |-> version'[row]] = [row \in Conditional |-> version[row]]
          /\ [row \in Conditional |-> author'[row]] = [row \in Conditional |-> author[row]]
      BY <1>2, <1>6, <2>1, SMT DEF Saves!Rows
    <2> QED
      BY <1>1, <2>2, Zenon DEF Saves!Promise!Next
  <1>7. ASSUME NEW w \in Clerks, Saves!writeConditional(w) PROVE [Saves!Promise!Next]_(Saves!Promise!vars)
    <2>1. target[w] \in Conditional
      BY <1>7, Zenon DEF Saves!writeConditional
    <2> QED
      BY <1>3, <1>5, <1>7, <2>1, Writes, Zenon DEF Saves!table
  <1>8. ASSUME NEW w \in Clerks, Saves!writeCounted(w) \/ Saves!writeRewritten(w)
        PROVE  [Saves!Promise!Next]_(Saves!Promise!vars)
    <2>1. step[w] = "writing" /\ (target[w] \in Counted \/ target[w] \in Rewritten)
      BY <1>8, Zenon DEF Saves!writeCounted, Saves!writeRewritten
    <2>2. target[w] \in Saves!Rows /\ target[w] \notin Conditional
      BY <2>1, SMT DEF Saves!OneWayEach, Saves!Rows
    <2>3. PICK v : Saves!put(w, target[w], v)
      BY <1>8, Writes, Zenon
    <2> QED
      BY <1>6, <2>2, <2>3
  <1>9. ASSUME NEW w \in Clerks, Saves!look(w) \/ Saves!read(w) \/ Saves!conflict(w) \/ Saves!abandon(w)
        PROVE  version' = version /\ author' = author
    BY <1>9, Zenon DEF Saves!look, Saves!read, Saves!conflict, Saves!abandon, Saves!table
  <1>11. ASSUME NEW row \in Saves!Rows, Saves!writeUncounted(row)
         PROVE  version' = version /\ author' = author
    BY <1>11, Zenon DEF Saves!writeUncounted, Saves!table
  <1>10. CASE UNCHANGED Saves!vars
    BY <1>3, <1>10 DEF Saves!vars, Saves!table
  <1> QED
    BY <1>3, <1>7, <1>8, <1>9, <1>10, <1>11, Zenon DEF Saves!Next

(* Of two updates that name one version of a company, contact, channel,    *)
(* task or card one succeeds, and every update gets the next version.      *)
THEOREM ConditionalRowsKeepThePromise == ASSUME Saves!OneWayEach PROVE Saves!Spec => Saves!KeepsThePromise
  <1>1. SavesInv /\ SavesInv' /\ [Saves!Next]_(Saves!vars) => [Saves!Promise!Next]_(Saves!Promise!vars)
    BY PromiseStep
  <1> QED
    BY <1>1, PromiseInit, SavesInvariant, PTL DEF Saves!Spec, Saves!KeepsThePromise, Saves!Promise!Spec

(* The versions of rows are beside receipts, next actions and imports.     *)
LEMMA SavesBeside == MCSpec => Saves!Spec
  <1>1. MCInit => Saves!Init
    BY DEF MCInit
  <1>2. [MCNext]_mcVars => [Saves!Next]_(Saves!vars)
    BY Zenon DEF MCNext, mcVars, rowVars, Saves!vars, Saves!table
  <1> QED
    BY <1>1, <1>2, PTL DEF MCSpec, Saves!Spec

(* What the run checks of saves: the conditional ones implement            *)
(* VersionedRows.                                                          *)
THEOREM ConditionalSavesKeepThePromise == MCSpec => KeepsThePromise
  BY SavesBeside, ConditionalRowsKeepThePromise, ProofAssumptions, PTL DEF KeepsThePromise

(* And no save overwrites unseen what its version promised to ask for,     *)
(* which is other saves and nothing that was written without a count.      *)
THEOREM SavesKeepTheUnseen == MCSpec => UnseenIsKept
  BY SavesBeside, UnseenKept, ProofAssumptions, PTL DEF UnseenIsKept
-----------------------------------------------------------------------------
(***************************************************************************)
(* The receipts of expected payments, for any payments, clerks, amounts    *)
(* and any bound of the rows.  A sum is the number of units it counts out, *)
(* so what it is of more, fewer or the same rows follows from cardinality. *)
(***************************************************************************)

(* Rows whose amounts can be added up. *)
valued(book, S) == S \subseteq TxnIds /\ \A x \in S : book[x].amount \in Nat

LEMMA IdsAreFinite == IsFiniteSet(TxnIds) /\ TxnIds \subseteq Nat
  BY FS_Interval, BoundsAssumption, SMT DEF TxnIds

LEMMA RowUnits ==
  ASSUME NEW x, NEW n \in Nat
  PROVE  IsFiniteSet({x} \X (1 .. n)) /\ Cardinality({x} \X (1 .. n)) = n
  <1>1. IsFiniteSet({x}) /\ Cardinality({x}) = 1
    BY FS_Singleton
  <1>2. IsFiniteSet(1 .. n) /\ Cardinality(1 .. n) = n
    BY FS_Interval, SMT
  <1>3. /\ IsFiniteSet({x} \X (1 .. n))
        /\ Cardinality({x} \X (1 .. n)) = Cardinality({x}) * Cardinality(1 .. n)
    BY <1>1, <1>2, FS_Product, Zenon
  <1> QED
    BY <1>1, <1>2, <1>3, SMT

LEMMA UnitsAreFinite ==
  ASSUME NEW book, NEW S, valued(book, S) PROVE IsFiniteSet(units(book, S))
  <1> DEFINE rowUnits(x) == {x} \X (1 .. book[x].amount)
             T == {rowUnits(x) : x \in S}
             f == [x \in S |-> rowUnits(x)]
  <1>1. IsFiniteSet(S)
    BY IdsAreFinite, FS_Subset DEF valued
  <1>2. f \in Surjection(S, T)
    BY DEF Surjection
  <1>3. IsFiniteSet(T)
    BY <1>1, <1>2, FS_Surjection
  <1>4. \A U \in T : IsFiniteSet(U)
    <2>1. ASSUME NEW x \in S PROVE IsFiniteSet(rowUnits(x))
      BY RowUnits, Zenon DEF valued
    <2> QED
      BY <2>1, Zenon
  <1>5. IsFiniteSet(UNION T)
    BY <1>3, <1>4, FS_UNION
  <1> QED
    BY <1>5 DEF units

(* What a sum is of: another row, no row, fewer rows, rows of the same     *)
(* amounts.                                                                *)
LEMMA SumIsNatural ==
  ASSUME NEW book, NEW S, valued(book, S) PROVE sum(book, S) \in Nat
  BY UnitsAreFinite, FS_CardinalityType DEF sum

LEMMA SumOfNone == \A book : sum(book, {}) = 0
  BY FS_EmptySet DEF sum, units

LEMMA SumWithAnother ==
  ASSUME NEW book, NEW S, NEW x, x \notin S, valued(book, S \cup {x})
  PROVE  sum(book, S \cup {x}) = sum(book, S) + book[x].amount
  <1> DEFINE U == {x} \X (1 .. book[x].amount)
  <1>1. valued(book, S) /\ book[x].amount \in Nat
    BY DEF valued
  <1>2. IsFiniteSet(U) /\ Cardinality(U) = book[x].amount
    BY <1>1, RowUnits
  <1>3. units(book, S \cup {x}) = units(book, S) \cup U
    BY DEF units
  <1>4. units(book, S) \cap U = {}
    BY DEF units
  <1>5. IsFiniteSet(units(book, S)) /\ Cardinality(units(book, S)) \in Nat
    BY <1>1, UnitsAreFinite, FS_CardinalityType
  <1> HIDE DEF U
  <1>6. Cardinality(units(book, S) \cup U) =
          Cardinality(units(book, S)) + Cardinality(U) - Cardinality(units(book, S) \cap U)
    BY <1>2, <1>5, FS_Union
  <1>7. Cardinality(units(book, S) \cap U) = 0
    BY <1>4, FS_EmptySet, Zenon
  <1>8. Cardinality(units(book, S \cup {x})) = Cardinality(units(book, S)) + Cardinality(U) - 0
    BY <1>3, <1>6, <1>7, Zenon
  <1>9. ASSUME NEW k \in Nat, NEW n \in Nat PROVE k + n - 0 = k + n
    BY SMT
  <1>10. Cardinality(units(book, S \cup {x})) = Cardinality(units(book, S)) + book[x].amount
    BY <1>1, <1>2, <1>5, <1>8, <1>9, Zenon
  <1> QED
    BY <1>10, Zenon DEF sum

LEMMA SumOfFewer ==
  ASSUME NEW book, NEW S, NEW R, R \subseteq S, valued(book, S) PROVE sum(book, R) <= sum(book, S)
  <1>1. units(book, R) \subseteq units(book, S)
    BY DEF units
  <1> QED
    BY <1>1, UnitsAreFinite, FS_Subset DEF sum

LEMMA SumOfSame ==
  ASSUME NEW book, NEW next, NEW S, \A x \in S : book[x].amount = next[x].amount
  PROVE  sum(book, S) = sum(next, S)
  <1>1. ASSUME NEW u, u \in units(book, S) PROVE u \in units(next, S)
    <2>1. PICK x \in S : u \in {x} \X (1 .. book[x].amount)
      BY <1>1, Zenon DEF units
    <2>2. u \in {x} \X (1 .. next[x].amount)
      BY <2>1, Zenon
    <2> QED
      BY <2>2, Zenon DEF units
  <1>2. ASSUME NEW u, u \in units(next, S) PROVE u \in units(book, S)
    <2>1. PICK x \in S : u \in {x} \X (1 .. next[x].amount)
      BY <1>2, Zenon DEF units
    <2>2. u \in {x} \X (1 .. book[x].amount)
      BY <2>1, Zenon
    <2> QED
      BY <2>2, Zenon DEF units
  <1>3. units(book, S) = units(next, S)
    BY <1>1, <1>2, Zenon
  <1> QED
    BY <1>3, Zenon DEF sum

-----------------------------------------------------------------------------
(* The receipts of a payment that are taken back. *)
taken(p) == {x \in linkedTo(p, "income") : txns[x].reversed}

(* What a clerk confirms is an amount of a payment. *)
ReqInv == \A c \in Clerks : pc[c] # "idle" => req[c].payment \in Payments /\ req[c].amount > 0

(* A linked row is a receipt or the reversal of one, of a payment that     *)
(* stands.                                                                 *)
LinkedInv == \A x \in TxnIds : txns[x] # NoTxn /\ txns[x].payment # NoPayment =>
               /\ exists(txns[x].payment)
               /\ txns[x].kind = "income" <=> txns[x].reversalOf = Nothing

(* A reversal names a row that is there, and a row marked as reversed has  *)
(* one.                                                                    *)
MarksInv == \A x \in TxnIds : txns[x] # NoTxn =>
              /\ txns[x].reversalOf # Nothing => txns[txns[x].reversalOf] # NoTxn
              /\ txns[x].reversed => alreadyReversed(x)

(* The reversals of a payment weigh what the receipts taken back weigh.    *)
BalanceInv == \A p \in Payments : exists(p) =>
                sum(txns, linkedTo(p, "expense")) = sum(txns, taken(p))

RowsInv == LinkedInv /\ MarksInv /\ BalanceInv /\ LedgerIsSound

LedgerInv == TypeOK /\ ReqInv /\ RowsInv

LEMMA RowTypes ==
  ASSUME TypeOK
  PROVE  /\ \A x \in TxnIds : txns[x] # NoTxn => txns[x] \in Txn
         /\ \A p \in Payments : exists(p) => payments[p] \in Payment
  BY SMT DEF TypeOK, exists

LEMMA LinkedRows ==
  ASSUME TypeOK, NEW p
  PROVE  /\ \A kind : valued(txns, linkedTo(p, kind))
         /\ valued(txns, taken(p))
  BY RowTypes, SMT DEF valued, linkedTo, taken, Txn

(* A step that leaves the rows of a payment alone leaves their sums.       *)
LEMMA SumsStay ==
  ASSUME NEW p \in Payments,
         \A x \in TxnIds :
           /\ txns'[x] # NoTxn /\ txns'[x].payment = p <=> txns[x] # NoTxn /\ txns[x].payment = p
           /\ txns[x] # NoTxn /\ txns[x].payment = p =>
                /\ txns'[x].kind = txns[x].kind
                /\ txns'[x].amount = txns[x].amount
                /\ txns'[x].reversed = txns[x].reversed
  PROVE  /\ sum(txns', linkedTo(p, "income")') = sum(txns, linkedTo(p, "income"))
         /\ sum(txns', linkedTo(p, "expense")') = sum(txns, linkedTo(p, "expense"))
         /\ sum(txns', taken(p)') = sum(txns, taken(p))
  <1>1. /\ linkedTo(p, "income")' = linkedTo(p, "income")
        /\ linkedTo(p, "expense")' = linkedTo(p, "expense")
    BY Zenon DEF linkedTo
  <1>2. taken(p)' = taken(p)
    BY <1>1, Zenon DEF taken, linkedTo
  <1>3. /\ \A x \in linkedTo(p, "income") : txns[x].amount = txns'[x].amount
        /\ \A x \in linkedTo(p, "expense") : txns[x].amount = txns'[x].amount
        /\ \A x \in taken(p) : txns[x].amount = txns'[x].amount
    BY Zenon DEF linkedTo, taken
  <1> QED
    <2>1. sum(txns, linkedTo(p, "income")) = sum(txns', linkedTo(p, "income"))
      BY <1>3, SumOfSame, Zenon
    <2>2. sum(txns, linkedTo(p, "expense")) = sum(txns', linkedTo(p, "expense"))
      BY <1>3, SumOfSame, Zenon
    <2>3. sum(txns, taken(p)) = sum(txns', taken(p))
      BY <1>3, SumOfSame, Zenon
    <2> QED
      BY <1>1, <1>2, <2>1, <2>2, <2>3, Zenon

LEMMA FreeRow ==
  ASSUME hasRoom PROVE freeId \in TxnIds /\ txns[freeId] = NoTxn
  BY Zenon DEF hasRoom, freeId

LEMMA ReplyKeeps ==
  ASSUME NEW c \in Clerks, reply(c), TypeOK, ReqInv,
         payments' \in [Payments -> Payment \cup {NoPayment}],
         txns' \in [TxnIds -> Txn \cup {NoTxn}]
  PROVE  TypeOK' /\ ReqInv'
  BY SMT DEF reply, TypeOK, ReqInv, Request, noRequest

LEMMA SameRows ==
  ASSUME RowsInv, UNCHANGED <<payments, txns>> PROVE RowsInv'
  <1>1. /\ \A p, kind : linkedTo(p, kind)' = linkedTo(p, kind)
        /\ \A p : taken(p)' = taken(p)
        /\ \A p : exists(p)' <=> exists(p)
        /\ \A x : alreadyReversed(x)' <=> alreadyReversed(x)
    BY Zenon DEF linkedTo, taken, exists, alreadyReversed
  <1>2. LinkedInv' /\ MarksInv'
    BY <1>1, Zenon DEF RowsInv, LinkedInv, MarksInv
  <1>3. BalanceInv' /\ ReceivedIsLedger'
    BY <1>1, Zenon DEF RowsInv, LedgerIsSound, BalanceInv, ReceivedIsLedger
  <1>4. ReversalsAreWhole'
    BY Zenon DEF RowsInv, LedgerIsSound, ReversalsAreWhole
  <1>5. UntouchedIsExpected'
    BY <1>1, Zenon DEF RowsInv, LedgerIsSound, UntouchedIsExpected
  <1> QED
    BY <1>2, <1>3, <1>4, <1>5 DEF RowsInv, LedgerIsSound

LEMMA CreatePaymentInv ==
  ASSUME LedgerInv, NEW c \in Clerks, NEW p \in Payments, NEW a \in Amounts,
         createExpectedPayment(c, p, a)
  PROVE  LedgerInv'
  <1>0. TypeOK /\ ReqInv /\ RowsInv
    BY DEF LedgerInv
  <1>1. /\ ~exists(p) /\ reply(c) /\ txns' = txns
        /\ payments' = [payments EXCEPT ![p] =
                          [amount |-> a, received |-> 0, status |-> "expected"]]
    BY DEF createExpectedPayment
  <1>2. payments' \in [Payments -> Payment \cup {NoPayment}]
    BY <1>0, <1>1, AmountsAssumption, SMT DEF TypeOK, Payment
  <1>3. TypeOK' /\ ReqInv'
    BY <1>0, <1>1, <1>2, ReplyKeeps DEF TypeOK
  <1>4. /\ payments'[p] = [amount |-> a, received |-> 0, status |-> "expected"]
        /\ \A q \in Payments \ {p} : payments'[q] = payments[q]
    BY <1>0, <1>1, Zenon DEF TypeOK
  <1>5. \A q \in Payments : exists(q) => payments'[q] = payments[q] /\ exists(q)'
    BY <1>1, <1>4, Zenon DEF exists
  <1>6. LinkedInv'
    <2>1. \A x \in TxnIds : txns[x] # NoTxn /\ txns[x].payment # NoPayment => txns[x].payment \in Payments
      BY <1>0, RowTypes, SMT DEF Txn
    <2> QED
      BY <1>0, <1>1, <1>5, <2>1, Zenon DEF RowsInv, LinkedInv
  <1>7. MarksInv' /\ ReversalsAreWhole'
    BY <1>0, <1>1, Zenon DEF RowsInv, MarksInv, LedgerIsSound, ReversalsAreWhole, alreadyReversed
  <1>8. linkedTo(p, "income") = {} /\ linkedTo(p, "expense") = {} /\ taken(p) = {}
    BY <1>0, <1>1, NamesAssumption, Zenon DEF RowsInv, LinkedInv, linkedTo, taken
  <1>9. /\ linkedTo(p, "income")' = {} /\ linkedTo(p, "expense")' = {} /\ taken(p)' = {}
        /\ \A q, kind : linkedTo(q, kind)' = linkedTo(q, kind)
        /\ \A q : taken(q)' = taken(q)
    BY <1>1, <1>8, Zenon DEF linkedTo, taken
  <1>10. BalanceInv'
    <2> SUFFICES ASSUME NEW q \in Payments, exists(q)'
                 PROVE  sum(txns', linkedTo(q, "expense")') = sum(txns', taken(q)')
      BY Zenon DEF BalanceInv
    <2>1. CASE q = p
      BY <2>1, <1>9, Zenon
    <2>2. CASE q # p
      <3>1. exists(q)
        BY <1>4, <2>2, Zenon DEF exists
      <3> QED
        BY <3>1, <1>0, <1>1, <1>9, Zenon DEF RowsInv, BalanceInv
    <2> QED
      BY <2>1, <2>2
  <1>11. ReceivedIsLedger'
    <2> SUFFICES ASSUME NEW q \in Payments, exists(q)'
                 PROVE  payments'[q].received =
                          sum(txns', linkedTo(q, "income")') - sum(txns', linkedTo(q, "expense")')
      BY Zenon DEF ReceivedIsLedger
    <2>1. CASE q = p
      <3>1. /\ sum(txns', linkedTo(q, "income")') = 0
            /\ sum(txns', linkedTo(q, "expense")') = 0
        BY <2>1, <1>9, SumOfNone, Zenon
      <3>2. payments'[q].received = 0
        BY <2>1, <1>4, SMT
      <3> QED
        BY <3>1, <3>2, SMT
    <2>2. CASE q # p
      <3>1. exists(q) /\ payments'[q] = payments[q]
        BY <1>4, <2>2, Zenon DEF exists
      <3> QED
        BY <3>1, <1>0, <1>1, <1>9, Zenon DEF RowsInv, LedgerIsSound, ReceivedIsLedger
    <2> QED
      BY <2>1, <2>2
  <1>12. UntouchedIsExpected'
    BY <1>0, <1>4, SMT DEF RowsInv, LedgerIsSound, UntouchedIsExpected, exists
  <1> QED
    BY <1>3, <1>6, <1>7, <1>10, <1>11, <1>12 DEF LedgerInv, RowsInv, LedgerIsSound

LEMMA UpdatePaymentInv ==
  ASSUME LedgerInv, NEW c \in Clerks, NEW p \in Payments, NEW a \in Amounts,
         updateExpectedPayment(c, p, a)
  PROVE  LedgerInv'
  <1>0. TypeOK /\ ReqInv /\ RowsInv
    BY DEF LedgerInv
  <1>1. /\ exists(p) /\ reply(c) /\ txns' = txns
        /\ payments' = [payments EXCEPT ![p].amount = a]
    BY DEF updateExpectedPayment
  <1>2. payments[p] \in Payment /\ a \in Nat
    BY <1>0, <1>1, RowTypes, AmountsAssumption, Zenon
  <1>3. /\ payments'[p] = [payments[p] EXCEPT !.amount = a]
        /\ \A q \in Payments \ {p} : payments'[q] = payments[q]
        /\ payments' \in [Payments -> Payment \cup {NoPayment}]
    BY <1>0, <1>1, <1>2, SMT DEF TypeOK, Payment
  <1>4. payments'[p] \in Payment
    BY <1>2, <1>3, SMT DEF Payment
  <1>5. TypeOK' /\ ReqInv'
    BY <1>0, <1>1, <1>3, ReplyKeeps DEF TypeOK
  <1>6. \A q \in Payments :
          /\ exists(q)' <=> exists(q)
          /\ exists(q) => /\ payments'[q].received = payments[q].received
                          /\ payments'[q].status = payments[q].status
    BY <1>1, <1>2, <1>3, <1>4, RowsAssumption, SMT DEF exists, Payment
  <1>7. \A x \in TxnIds : txns[x] # NoTxn /\ txns[x].payment # NoPayment => txns[x].payment \in Payments
    BY <1>0, RowTypes, SMT DEF Txn
  <1>8. LinkedInv'
    BY <1>0, <1>1, <1>6, <1>7, Zenon DEF RowsInv, LinkedInv
  <1>9. MarksInv' /\ ReversalsAreWhole'
    BY <1>0, <1>1, Zenon DEF RowsInv, MarksInv, LedgerIsSound, ReversalsAreWhole, alreadyReversed
  <1>10. /\ \A q, kind : linkedTo(q, kind)' = linkedTo(q, kind)
         /\ \A q : taken(q)' = taken(q)
    BY <1>1, Zenon DEF linkedTo, taken
  <1>11. BalanceInv' /\ ReceivedIsLedger'
    BY <1>0, <1>1, <1>6, <1>10, Zenon DEF RowsInv, LedgerIsSound, BalanceInv, ReceivedIsLedger
  <1>12. UntouchedIsExpected'
    BY <1>0, <1>6, Zenon DEF RowsInv, LedgerIsSound, UntouchedIsExpected
  <1> QED
    BY <1>5, <1>8, <1>9, <1>11, <1>12 DEF LedgerInv, RowsInv, LedgerIsSound

LEMMA DeletePaymentInv ==
  ASSUME LedgerInv, NEW c \in Clerks, NEW p \in Payments, deleteExpectedPayment(c, p)
  PROVE  LedgerInv'
  <1>0. TypeOK /\ ReqInv /\ RowsInv
    BY DEF LedgerInv
  <1>1. /\ reply(c)
        /\ payments' = [payments EXCEPT ![p] = NoPayment]
        /\ txns' = [x \in TxnIds |-> IF txns[x] # NoTxn /\ txns[x].payment = p
                                     THEN [txns[x] EXCEPT !.payment = NoPayment]
                                     ELSE txns[x]]
    BY Zenon DEF deleteExpectedPayment
  <1>2. \A x \in TxnIds :
          /\ txns[x] # NoTxn /\ txns[x].payment = p => txns'[x] = [txns[x] EXCEPT !.payment = NoPayment]
          /\ ~(txns[x] # NoTxn /\ txns[x].payment = p) => txns'[x] = txns[x]
    BY <1>1, Zenon
  <1>3. \A x \in TxnIds : txns[x] # NoTxn =>
          /\ txns'[x] \in Txn /\ txns'[x] # NoTxn
          /\ txns'[x].kind = txns[x].kind
          /\ txns'[x].amount = txns[x].amount
          /\ txns'[x].reversalOf = txns[x].reversalOf
          /\ txns'[x].reversed = txns[x].reversed
          /\ txns'[x].payment = IF txns[x].payment = p THEN NoPayment ELSE txns[x].payment
    <2> SUFFICES ASSUME NEW x \in TxnIds, txns[x] # NoTxn
                 PROVE  /\ txns'[x] \in Txn
                        /\ txns'[x].kind = txns[x].kind
                        /\ txns'[x].amount = txns[x].amount
                        /\ txns'[x].reversalOf = txns[x].reversalOf
                        /\ txns'[x].reversed = txns[x].reversed
                        /\ txns'[x].payment = IF txns[x].payment = p THEN NoPayment ELSE txns[x].payment
      BY RowsAssumption, Zenon
    <2>1. txns[x] \in Txn
      BY <1>0, RowTypes
    <2>2. CASE txns[x].payment = p
      <3>1. txns'[x] = [txns[x] EXCEPT !.payment = NoPayment]
        BY <2>2, <1>2, Zenon
      <3> QED
        BY <3>1, <2>1, <2>2, SMT DEF Txn
    <2>3. CASE txns[x].payment # p
      <3>1. txns'[x] = txns[x]
        BY <2>3, <1>2, Zenon
      <3> QED
        BY <3>1, <2>1, <2>3, Zenon
    <2> QED
      BY <2>2, <2>3
  <1>4. \A x \in TxnIds : txns[x] = NoTxn <=> txns'[x] = NoTxn
    BY <1>2, <1>3, Zenon
  <1>5. txns' \in [TxnIds -> Txn \cup {NoTxn}]
    <2>1. \A x \in TxnIds : txns'[x] \in Txn \cup {NoTxn}
      BY <1>3, <1>4, Zenon
    <2> QED
      BY <2>1, <1>1, Zenon
  <1>6. TypeOK' /\ ReqInv'
    <2>1. payments' \in [Payments -> Payment \cup {NoPayment}]
      BY <1>0, <1>1, SMT DEF TypeOK
    <2> QED
      BY <2>1, <1>0, <1>1, <1>5, ReplyKeeps
  <1>7. /\ ~exists(p)'
        /\ \A q \in Payments : q # p => payments'[q] = payments[q]
    BY <1>0, <1>1, Zenon DEF TypeOK, exists
  <1>8. LinkedInv'
    <2> SUFFICES ASSUME NEW x \in TxnIds, txns'[x] # NoTxn, txns'[x].payment # NoPayment
                 PROVE  /\ payments'[txns'[x].payment] # NoPayment
                        /\ txns'[x].kind = "income" <=> txns'[x].reversalOf = Nothing
      BY Zenon DEF LinkedInv, exists
    <2>1. /\ txns[x] # NoTxn /\ txns[x].payment # p /\ txns'[x].payment = txns[x].payment
          /\ txns'[x].kind = txns[x].kind /\ txns'[x].reversalOf = txns[x].reversalOf
      BY <1>3, <1>4, Zenon
    <2>2. txns[x].payment \in Payments
      BY <2>1, <1>0, RowTypes, SMT DEF Txn
    <2>3. exists(txns[x].payment) /\ (txns[x].kind = "income" <=> txns[x].reversalOf = Nothing)
      BY <2>1, <1>0, Zenon DEF RowsInv, LinkedInv
    <2> QED
      BY <2>1, <2>2, <2>3, <1>7, Zenon DEF exists
  <1>9. MarksInv'
    <2>1. \A x \in TxnIds : alreadyReversed(x) => alreadyReversed(x)'
      BY <1>3, <1>4, Zenon DEF alreadyReversed
    <2>2. \A x \in TxnIds : txns[x] # NoTxn => txns[x].reversalOf \in TxnIds \cup {Nothing}
      BY <1>0, RowTypes, SMT DEF Txn
    <2> QED
      BY <2>1, <2>2, <1>0, <1>3, <1>4, Zenon DEF RowsInv, MarksInv
  <1>10. ReversalsAreWhole'
    <2> SUFFICES ASSUME NEW r \in TxnIds, txns'[r] # NoTxn, txns'[r].reversalOf # Nothing
                 PROVE  /\ txns'[txns'[r].reversalOf].amount = txns'[r].amount
                        /\ txns'[txns'[r].reversalOf].reversed
                        /\ \A s \in TxnIds \ {r} :
                             txns'[s] # NoTxn => txns'[s].reversalOf # txns'[r].reversalOf
      BY Zenon DEF ReversalsAreWhole
    <2> DEFINE x == txns[r].reversalOf
    <2>1. txns[r] # NoTxn /\ txns'[r].reversalOf = x /\ x # Nothing /\ txns'[r].amount = txns[r].amount
      BY <1>3, <1>4, Zenon
    <2>2. x \in TxnIds
      BY <2>1, <1>0, RowTypes, SMT DEF Txn
    <2>3. /\ txns[x] # NoTxn /\ txns[x].amount = txns[r].amount /\ txns[x].reversed
          /\ \A s \in TxnIds \ {r} : txns[s] # NoTxn => txns[s].reversalOf # x
      BY <2>1, <2>2, <1>0, Zenon DEF RowsInv, LedgerIsSound, MarksInv, ReversalsAreWhole
    <2> HIDE DEF x
    <2> QED
      BY <2>1, <2>2, <2>3, <1>3, <1>4, Zenon
  <1>11. ASSUME NEW q \in Payments, exists(q)'
         PROVE  /\ exists(q) /\ payments'[q] = payments[q]
                /\ sum(txns', linkedTo(q, "income")') = sum(txns, linkedTo(q, "income"))
                /\ sum(txns', linkedTo(q, "expense")') = sum(txns, linkedTo(q, "expense"))
                /\ sum(txns', taken(q)') = sum(txns, taken(q))
    <2>1. q # p /\ q # NoPayment
      BY <1>7, <1>11, NamesAssumption, Zenon
    <2>2. exists(q) /\ payments'[q] = payments[q]
      BY <2>1, <1>7, <1>11, Zenon DEF exists
    <2>3. \A x \in TxnIds :
            /\ txns'[x] # NoTxn /\ txns'[x].payment = q <=> txns[x] # NoTxn /\ txns[x].payment = q
            /\ txns[x] # NoTxn /\ txns[x].payment = q =>
                 /\ txns'[x].kind = txns[x].kind
                 /\ txns'[x].amount = txns[x].amount
                 /\ txns'[x].reversed = txns[x].reversed
      BY <2>1, <1>3, <1>4, Zenon
    <2> QED
      BY <2>2, <2>3, SumsStay, Zenon
  <1>12. BalanceInv' /\ ReceivedIsLedger'
    BY <1>0, <1>11, Zenon DEF RowsInv, LedgerIsSound, BalanceInv, ReceivedIsLedger
  <1>13. UntouchedIsExpected'
    BY <1>0, <1>11, Zenon DEF RowsInv, LedgerIsSound, UntouchedIsExpected
  <1> QED
    BY <1>6, <1>8, <1>9, <1>10, <1>12, <1>13 DEF LedgerInv, RowsInv, LedgerIsSound

(* A new row that reverses nothing. *)
LEMMA PlainRowInv ==
  ASSUME TypeOK, RowsInv, NEW n \in TxnIds, txns[n] = NoTxn, NEW row \in Txn,
         row.reversalOf = Nothing, row.reversed = FALSE, txns' = [txns EXCEPT ![n] = row]
  PROVE  /\ txns' \in [TxnIds -> Txn \cup {NoTxn}]
         /\ txns'[n] = row /\ \A x \in TxnIds \ {n} : txns'[x] = txns[x]
         /\ MarksInv' /\ ReversalsAreWhole'
  <1>1. /\ txns' \in [TxnIds -> Txn \cup {NoTxn}]
        /\ txns'[n] = row /\ \A x \in TxnIds \ {n} : txns'[x] = txns[x]
    BY Zenon DEF TypeOK
  <1>2. \A x \in TxnIds : txns[x] # NoTxn => txns[x].reversalOf \in TxnIds \cup {Nothing}
    BY RowTypes, SMT DEF Txn
  <1>3. \A x \in TxnIds : alreadyReversed(x) => alreadyReversed(x)'
    BY <1>1, Zenon DEF alreadyReversed
  <1>4. MarksInv'
    <2> SUFFICES ASSUME NEW x \in TxnIds, txns'[x] # NoTxn
                 PROVE  /\ txns'[x].reversalOf # Nothing => txns'[txns'[x].reversalOf] # NoTxn
                        /\ txns'[x].reversed => alreadyReversed(x)'
      BY Zenon DEF MarksInv
    <2>1. CASE x = n
      BY <2>1, <1>1, Zenon
    <2>2. CASE x # n
      BY <2>2, <1>1, <1>2, <1>3, Zenon DEF RowsInv, MarksInv
    <2> QED
      BY <2>1, <2>2
  <1>5. ReversalsAreWhole'
    <2> SUFFICES ASSUME NEW r \in TxnIds, txns'[r] # NoTxn, txns'[r].reversalOf # Nothing
                 PROVE  /\ txns'[txns'[r].reversalOf].amount = txns'[r].amount
                        /\ txns'[txns'[r].reversalOf].reversed
                        /\ \A s \in TxnIds \ {r} :
                             txns'[s] # NoTxn => txns'[s].reversalOf # txns'[r].reversalOf
      BY Zenon DEF ReversalsAreWhole
    <2> DEFINE x == txns[r].reversalOf
    <2>1. r # n /\ txns[r] # NoTxn /\ txns'[r] = txns[r] /\ x # Nothing
      BY <1>1, Zenon
    <2>2. x \in TxnIds
      BY <2>1, <1>2, Zenon
    <2>3. /\ txns[x] # NoTxn /\ txns[x].amount = txns[r].amount /\ txns[x].reversed
          /\ \A s \in TxnIds \ {r} : txns[s] # NoTxn => txns[s].reversalOf # x
      BY <2>1, <2>2, Zenon DEF RowsInv, LedgerIsSound, MarksInv, ReversalsAreWhole
    <2>4. txns'[r].reversalOf = x /\ txns'[x] = txns[x]
      BY <2>1, <2>2, <2>3, <1>1, Zenon
    <2> HIDE DEF x
    <2> QED
      BY <2>1, <2>2, <2>3, <2>4, <1>1, Zenon
  <1> QED
    BY <1>1, <1>4, <1>5

LEMMA CreateTxnInv ==
  ASSUME LedgerInv, NEW c \in Clerks, NEW kind \in {"income", "expense"}, NEW a \in Amounts,
         createTxn(c, kind, a)
  PROVE  LedgerInv'
  <1> DEFINE n == freeId
             row == [kind |-> kind, amount |-> a, payment |-> NoPayment,
                     reversalOf |-> Nothing, reversed |-> FALSE]
  <1>0. TypeOK /\ ReqInv /\ RowsInv
    BY DEF LedgerInv
  <1>1. reply(c) /\ payments' = payments /\ txns' = [txns EXCEPT ![n] = row]
    BY Zenon DEF createTxn
  <1>2. n \in TxnIds /\ txns[n] = NoTxn
    BY FreeRow, Zenon DEF createTxn
  <1>3. row \in Txn /\ row.reversalOf = Nothing /\ row.reversed = FALSE /\ row.payment = NoPayment
    BY AmountsAssumption, SMT DEF Txn
  <1> HIDE DEF n, row
  <1>4. /\ txns' \in [TxnIds -> Txn \cup {NoTxn}]
        /\ txns'[n] = row /\ \A x \in TxnIds \ {n} : txns'[x] = txns[x]
        /\ MarksInv' /\ ReversalsAreWhole'
    BY <1>0, <1>1, <1>2, <1>3, PlainRowInv, Zenon
  <1>5. TypeOK' /\ ReqInv'
    BY <1>0, <1>1, <1>4, ReplyKeeps DEF TypeOK
  <1>6. LinkedInv'
    BY <1>0, <1>1, <1>3, <1>4, Zenon DEF RowsInv, LinkedInv, exists
  <1>7. ASSUME NEW q \in Payments
        PROVE  /\ sum(txns', linkedTo(q, "income")') = sum(txns, linkedTo(q, "income"))
               /\ sum(txns', linkedTo(q, "expense")') = sum(txns, linkedTo(q, "expense"))
               /\ sum(txns', taken(q)') = sum(txns, taken(q))
    <2>1. q # NoPayment
      BY NamesAssumption, Zenon
    <2>2. \A x \in TxnIds :
            /\ txns'[x] # NoTxn /\ txns'[x].payment = q <=> txns[x] # NoTxn /\ txns[x].payment = q
            /\ txns[x] # NoTxn /\ txns[x].payment = q =>
                 /\ txns'[x].kind = txns[x].kind
                 /\ txns'[x].amount = txns[x].amount
                 /\ txns'[x].reversed = txns[x].reversed
      BY <2>1, <1>2, <1>3, <1>4, Zenon
    <2> QED
      BY <2>2, SumsStay, Zenon
  <1>8. BalanceInv' /\ ReceivedIsLedger'
    BY <1>0, <1>1, <1>7, Zenon DEF RowsInv, LedgerIsSound, BalanceInv, ReceivedIsLedger, exists
  <1>9. UntouchedIsExpected'
    BY <1>0, <1>1, Zenon DEF RowsInv, LedgerIsSound, UntouchedIsExpected, exists
  <1> QED
    BY <1>4, <1>5, <1>6, <1>8, <1>9 DEF LedgerInv, RowsInv, LedgerIsSound

LEMMA ApplyReceiptInv ==
  ASSUME LedgerInv, NEW c \in Clerks, applyReceipt(c)
  PROVE  LedgerInv'
  <1>0. TypeOK /\ ReqInv /\ RowsInv
    BY DEF LedgerInv
  <1>1. CASE reply(c) /\ UNCHANGED <<payments, txns>>
    BY <1>0, <1>1, ReplyKeeps, SameRows DEF LedgerInv, TypeOK
  <1>2. ASSUME NEW p, p = req[c].payment, NEW a, a = req[c].amount, NEW n, n = freeId, NEW row,
               row = [kind |-> "income", amount |-> a, payment |-> p,
                      reversalOf |-> Nothing, reversed |-> FALSE],
               /\ exists(p) /\ hasRoom /\ reply(c)
               /\ txns' = [txns EXCEPT ![n] = row]
               /\ payments' = [payments EXCEPT ![p] =
                                 [amount |-> payments[p].amount, received |-> payments[p].received + a,
                                  status |-> statusOf(payments[p].received + a, payments[p].amount)]]
        PROVE  LedgerInv'
    <2>1. p \in Payments /\ a \in Nat /\ a > 0
      BY <1>0, <1>2, SMT DEF TypeOK, Request, ReqInv, applyReceipt
    <2>2. n \in TxnIds /\ txns[n] = NoTxn
      BY <1>2, FreeRow, Zenon
    <2>3. row \in Txn /\ row.reversalOf = Nothing /\ row.reversed = FALSE
          /\ row.payment = p /\ row.kind = "income" /\ row.amount = a
      BY <1>2, <2>1, SMT DEF Txn
    <2>4. payments[p] \in Payment
      BY <2>1, <1>0, <1>2, RowTypes
    <2> DEFINE paid == [amount |-> payments[p].amount, received |-> payments[p].received + a,
                        status |-> statusOf(payments[p].received + a, payments[p].amount)]
    <2>5. /\ paid \in Payment /\ paid.received = payments[p].received + a
          /\ paid.received > 0 /\ paid.status # "expected"
      BY <2>1, <2>4, SMT DEF Payment, statusOf
    <2>6. payments' = [payments EXCEPT ![p] = paid] /\ txns' = [txns EXCEPT ![n] = row]
      BY <1>2
    <2> HIDE DEF paid
    <2>7. /\ txns' \in [TxnIds -> Txn \cup {NoTxn}]
          /\ txns'[n] = row /\ \A x \in TxnIds \ {n} : txns'[x] = txns[x]
          /\ MarksInv' /\ ReversalsAreWhole'
      BY <1>0, <2>2, <2>3, <2>6, PlainRowInv, Zenon
    <2>8. /\ payments' \in [Payments -> Payment \cup {NoPayment}]
          /\ payments'[p] = paid /\ paid # NoPayment
          /\ \A q \in Payments \ {p} : payments'[q] = payments[q]
      BY <2>1, <2>5, <2>6, <1>0, RowsAssumption, Zenon DEF TypeOK
    <2>9. TypeOK' /\ ReqInv'
      BY <1>0, <1>2, <2>7, <2>8, ReplyKeeps
    <2>10. \A q \in Payments : exists(q)' <=> exists(q)
      BY <1>2, <2>8, Zenon DEF exists
    <2>11. LinkedInv'
      <3> SUFFICES ASSUME NEW x \in TxnIds, txns'[x] # NoTxn, txns'[x].payment # NoPayment
                   PROVE  /\ payments'[txns'[x].payment] # NoPayment
                          /\ txns'[x].kind = "income" <=> txns'[x].reversalOf = Nothing
        BY Zenon DEF LinkedInv, exists
      <3>1. CASE x = n
        BY <3>1, <2>3, <2>7, <2>8, Zenon
      <3>2. CASE x # n
        <4>1. txns'[x] = txns[x] /\ txns[x].payment \in Payments
          BY <3>2, <2>7, <1>0, RowTypes, SMT DEF Txn
        <4> QED
          BY <4>1, <2>10, <1>0, Zenon DEF RowsInv, LinkedInv, exists
      <3> QED
        BY <3>1, <3>2
    <2>12. ASSUME NEW q \in Payments \ {p}
           PROVE  /\ sum(txns', linkedTo(q, "income")') = sum(txns, linkedTo(q, "income"))
                  /\ sum(txns', linkedTo(q, "expense")') = sum(txns, linkedTo(q, "expense"))
                  /\ sum(txns', taken(q)') = sum(txns, taken(q))
      <3>1. \A x \in TxnIds :
              /\ txns'[x] # NoTxn /\ txns'[x].payment = q <=> txns[x] # NoTxn /\ txns[x].payment = q
              /\ txns[x] # NoTxn /\ txns[x].payment = q =>
                   /\ txns'[x].kind = txns[x].kind
                   /\ txns'[x].amount = txns[x].amount
                   /\ txns'[x].reversed = txns[x].reversed
        BY <2>2, <2>3, <2>7, Zenon
      <3> QED
        BY <3>1, SumsStay, Zenon
    <2>13. /\ linkedTo(p, "income")' = linkedTo(p, "income") \cup {n}
           /\ linkedTo(p, "expense")' = linkedTo(p, "expense")
           /\ n \notin linkedTo(p, "income")
           /\ taken(p)' = taken(p)
      <3>1. row # NoTxn
        BY <2>3, RowsAssumption, Zenon
      <3>2. linkedTo(p, "income")' = linkedTo(p, "income") \cup {n}
        <4>1. \A x \in TxnIds : x \in linkedTo(p, "income")' <=> x \in linkedTo(p, "income") \/ x = n
          BY <3>1, <2>2, <2>3, <2>7, Zenon DEF linkedTo
        <4>2. linkedTo(p, "income")' \subseteq TxnIds /\ linkedTo(p, "income") \subseteq TxnIds
          BY Zenon DEF linkedTo
        <4> QED
          BY <4>1, <4>2, <2>2, Zenon
      <3>5. n \notin linkedTo(p, "income")
        BY <2>2, Zenon DEF linkedTo
      <3>3. linkedTo(p, "expense")' = linkedTo(p, "expense")
        BY <3>1, <2>2, <2>3, <2>7, SMT DEF linkedTo
      <3>4. taken(p)' = taken(p)
        BY <3>1, <2>2, <2>3, <2>7, Zenon DEF linkedTo, taken
      <3> QED
        BY <3>2, <3>3, <3>4, <3>5
    <2>14. sum(txns', linkedTo(p, "income")') = sum(txns, linkedTo(p, "income")) + a
      <3> DEFINE S == linkedTo(p, "income")
      <3>1. linkedTo(p, "income")' = S \cup {n} /\ n \notin S
        BY <2>13
      <3>2. valued(txns', linkedTo(p, "income")')
        BY <2>7, SMT DEF linkedTo, valued, Txn
      <3>3. \A y \in S : txns[y].amount = txns'[y].amount
        BY <2>2, <2>7, Zenon DEF linkedTo
      <3> HIDE DEF S
      <3>4. valued(txns', S \cup {n})
        BY <3>1, <3>2, Zenon
      <3>5. sum(txns', S \cup {n}) = sum(txns, S) + txns'[n].amount
        <4>1. n \notin S
          BY <3>1
        <4>2. sum(txns', S \cup {n}) = sum(txns', S) + txns'[n].amount
          BY <4>1, <3>4, SumWithAnother, Zenon
        <4>3. sum(txns, S) = sum(txns', S)
          BY <3>3, SumOfSame, Zenon
        <4> QED
          BY <4>2, <4>3, Zenon
      <3> QED
        BY <3>1, <3>5, <2>3, <2>7, Zenon DEF S
    <2>15. sum(txns', linkedTo(p, "expense")') = sum(txns, linkedTo(p, "expense"))
      <3>1. \A y \in linkedTo(p, "expense") : txns[y].amount = txns'[y].amount
        BY <2>2, <2>7, Zenon DEF linkedTo
      <3>2. sum(txns, linkedTo(p, "expense")) = sum(txns', linkedTo(p, "expense"))
        BY <3>1, SumOfSame, Zenon
      <3> QED
        BY <3>2, <2>13, Zenon
    <2>16. sum(txns', taken(p)') = sum(txns, taken(p))
      <3>1. \A y \in taken(p) : txns[y].amount = txns'[y].amount
        BY <2>2, <2>7, Zenon DEF linkedTo, taken
      <3>2. sum(txns, taken(p)) = sum(txns', taken(p))
        BY <3>1, SumOfSame, Zenon
      <3> QED
        BY <3>2, <2>13, Zenon
    <2>17. BalanceInv'
      BY <1>0, <2>8, <2>10, <2>12, <2>15, <2>16, Zenon DEF RowsInv, BalanceInv
    <2>18. ReceivedIsLedger'
      <3> SUFFICES ASSUME NEW q \in Payments, exists(q)'
                   PROVE  payments'[q].received =
                            sum(txns', linkedTo(q, "income")') - sum(txns', linkedTo(q, "expense")')
        BY Zenon DEF ReceivedIsLedger
      <3>1. payments[q].received = sum(txns, linkedTo(q, "income")) - sum(txns, linkedTo(q, "expense"))
        BY <1>0, <2>10, Zenon DEF RowsInv, LedgerIsSound, ReceivedIsLedger
      <3>2. CASE q = p
        <4>1. /\ sum(txns, linkedTo(p, "income")) \in Nat
              /\ sum(txns, linkedTo(p, "expense")) \in Nat
          BY <1>0, LinkedRows, SumIsNatural, Zenon
        <4>2. payments'[p].received = payments[p].received + a
          BY <2>5, <2>8, Zenon
        <4> QED
          BY <4>1, <4>2, <3>1, <3>2, <2>1, <2>14, <2>15, SMT
      <3>3. CASE q # p
        BY <3>1, <3>3, <2>8, <2>12, Zenon
      <3> QED
        BY <3>2, <3>3
    <2>19. UntouchedIsExpected'
      <3> SUFFICES ASSUME NEW q \in Payments, exists(q)'
                   PROVE  payments'[q].status = "expected" <=> payments'[q].received = 0
        BY Zenon DEF UntouchedIsExpected
      <3>1. CASE q = p
        BY <3>1, <2>5, <2>8, SMT
      <3>2. CASE q # p
        BY <3>2, <2>8, <2>10, <1>0, Zenon DEF RowsInv, LedgerIsSound, UntouchedIsExpected
      <3> QED
        BY <3>1, <3>2
    <2> QED
      BY <2>7, <2>9, <2>11, <2>17, <2>18, <2>19 DEF LedgerInv, RowsInv, LedgerIsSound
  <1>3. \/ reply(c) /\ UNCHANGED <<payments, txns>>
        \/ /\ exists(req[c].payment) /\ hasRoom /\ reply(c)
           /\ txns' = [txns EXCEPT ![freeId] =
                         [kind |-> "income", amount |-> req[c].amount, payment |-> req[c].payment,
                          reversalOf |-> Nothing, reversed |-> FALSE]]
           /\ payments' = [payments EXCEPT ![req[c].payment] =
                             [amount |-> payments[req[c].payment].amount,
                              received |-> payments[req[c].payment].received + req[c].amount,
                              status |-> statusOf(payments[req[c].payment].received + req[c].amount,
                                                  payments[req[c].payment].amount)]]
    BY Zenon DEF applyReceipt, receivedAfter
  <1> QED
    BY <1>1, <1>2, <1>3, Zenon

(* What is received always covers a receipt that is not taken back, so the *)
(* cap of a reversal never bites.                                          *)
LEMMA ReceiptIsCovered ==
  ASSUME LedgerInv, NEW p \in Payments, NEW x \in TxnIds, reversible(p, x)
  PROVE  /\ x \in linkedTo(p, "income") \ taken(p)
         /\ txns[x].amount \in Nat /\ payments[p].received \in Nat
         /\ txns[x].amount <= payments[p].received
  <1>0. TypeOK /\ RowsInv
    BY DEF LedgerInv
  <1>1. /\ exists(p) /\ txns[x] # NoTxn /\ txns[x].payment = p /\ p # NoPayment
        /\ txns[x].reversalOf = Nothing /\ ~alreadyReversed(x)
    BY NamesAssumption, Zenon DEF reversible
  <1>2. txns[x].kind = "income" /\ ~txns[x].reversed
    BY <1>0, <1>1, Zenon DEF RowsInv, LinkedInv, MarksInv
  <1>3. x \in linkedTo(p, "income") \ taken(p)
    BY <1>1, <1>2, Zenon DEF linkedTo, taken
  <1>4. txns[x].amount \in Nat /\ payments[p].received \in Nat
    <2>1. txns[x] \in Txn /\ payments[p] \in Payment
      BY <1>0, <1>1, RowTypes
    <2> QED
      BY <2>1, SMT DEF Txn, Payment
  <1> DEFINE I == linkedTo(p, "income")
             T == taken(p)
  <1>5. valued(txns, I) /\ valued(txns, T) /\ valued(txns, linkedTo(p, "expense"))
    BY <1>0, LinkedRows
  <1>6. T \cup {x} \subseteq I /\ x \notin T
    BY <1>3, Zenon DEF taken
  <1>7. /\ payments[p].received = sum(txns, I) - sum(txns, linkedTo(p, "expense"))
        /\ sum(txns, linkedTo(p, "expense")) = sum(txns, T)
    BY <1>0, <1>1, Zenon DEF RowsInv, LedgerIsSound, ReceivedIsLedger, BalanceInv
  <1> HIDE DEF I, T
  <1>8. valued(txns, T \cup {x})
    BY <1>5, <1>6, SMT DEF valued
  <1>9. sum(txns, T \cup {x}) = sum(txns, T) + txns[x].amount
    BY <1>6, <1>8, SumWithAnother, Zenon
  <1>10. sum(txns, T \cup {x}) <= sum(txns, I)
    BY <1>5, <1>6, SumOfFewer, Zenon
  <1>11. sum(txns, T) \in Nat /\ sum(txns, I) \in Nat
    BY <1>5, SumIsNatural, Zenon
  <1>12. txns[x].amount <= payments[p].received
    <2>1. ASSUME NEW k \in Nat, NEW m \in Nat, NEW a \in Nat, k + a <= m PROVE a <= m - k
      BY <2>1, SMT
    <2>2. sum(txns, T) + txns[x].amount <= sum(txns, I)
      BY <1>9, <1>10, Zenon
    <2>3. txns[x].amount <= sum(txns, I) - sum(txns, T)
      BY <2>1, <2>2, <1>4, <1>11, Zenon
    <2> QED
      BY <2>3, <1>7, Zenon
  <1> QED
    BY <1>3, <1>4, <1>12

LEMMA MarkedRow ==
  ASSUME NEW r \in Txn, NEW m, m = [r EXCEPT !.reversed = TRUE]
  PROVE  /\ m \in Txn /\ m.reversed = TRUE
         /\ m.kind = r.kind /\ m.amount = r.amount
         /\ m.payment = r.payment /\ m.reversalOf = r.reversalOf
  <1>1. /\ m.reversed = TRUE
        /\ m.kind = r.kind /\ m.amount = r.amount
        /\ m.payment = r.payment /\ m.reversalOf = r.reversalOf
    BY Zenon DEF Txn
  <1>2. m \in Txn
    BY Zenon DEF Txn
  <1> QED
    BY <1>1, <1>2

LEMMA ReverseReceiptInv ==
  ASSUME LedgerInv, NEW c \in Clerks, NEW p \in Payments, NEW x \in TxnIds, reverseReceipt(c, p, x)
  PROVE  LedgerInv'
  <1>0. TypeOK /\ ReqInv /\ RowsInv
    BY DEF LedgerInv
  <1>1. reversible(p, x) /\ hasRoom /\ reply(c)
    BY Zenon DEF reverseReceipt
  <1>2. PICK a : a = txns[x].amount
    OBVIOUS
  <1>3. /\ x \in linkedTo(p, "income") \ taken(p)
        /\ a \in Nat /\ payments[p].received \in Nat /\ a <= payments[p].received
    BY <1>1, <1>2, ReceiptIsCovered
  <1>4. /\ exists(p) /\ txns[x] # NoTxn /\ txns[x].payment = p /\ p # NoPayment
        /\ txns[x].reversalOf = Nothing /\ ~alreadyReversed(x)
    BY <1>1, NamesAssumption, Zenon DEF reversible
  <1>5. PICK n : n = freeId
    OBVIOUS
  <1>6. n \in TxnIds /\ txns[n] = NoTxn /\ n # x
    BY <1>1, <1>4, <1>5, FreeRow, Zenon
  <1>7. PICK row : row = [kind |-> "expense", amount |-> a, payment |-> p,
                          reversalOf |-> x, reversed |-> FALSE]
    OBVIOUS
  <1>8. /\ row \in Txn /\ row # NoTxn /\ row.kind = "expense" /\ row.amount = a
        /\ row.payment = p /\ row.reversalOf = x /\ ~row.reversed
    <2>1. row \in Txn
      BY <1>3, <1>7, SMT DEF Txn
    <2> QED
      BY <2>1, <1>7, RowsAssumption, Zenon
  <1>9. PICK left : left = payments[p].received - a
    OBVIOUS
  <1>10. left \in Nat
    BY <1>3, <1>9, SMT
  <1>11. Smaller(txns[x].amount, payments[p].received) = a
    BY <1>2, <1>3, SMT DEF Smaller
  <1>12. /\ a > 0
         /\ txns' = [txns EXCEPT ![n] = row, ![x].reversed = TRUE]
         /\ payments' = [payments EXCEPT ![p] =
                           [amount |-> payments[p].amount, received |-> left,
                            status |-> statusAfterReversal(left, payments[p].amount)]]
    BY <1>5, <1>7, <1>9, <1>11, Zenon DEF reverseReceipt
  <1>13. txns[x] \in Txn /\ payments[p] \in Payment
    BY <1>0, <1>4, RowTypes
  <1>14. PICK paid : paid = [amount |-> payments[p].amount, received |-> left,
                             status |-> statusAfterReversal(left, payments[p].amount)]
    OBVIOUS
  <1>15. /\ paid \in Payment /\ paid # NoPayment /\ paid.received = left
         /\ paid.status = "expected" <=> paid.received = 0
    <2>1. paid \in Payment
      BY <1>10, <1>13, <1>14, SMT DEF Payment, statusAfterReversal, statusOf
    <2>2. paid.status = "expected" <=> paid.received = 0
      BY <1>14, SMT DEF statusAfterReversal, statusOf
    <2> QED
      BY <2>1, <2>2, <1>14, RowsAssumption, Zenon
  <1>16. /\ payments' \in [Payments -> Payment \cup {NoPayment}]
         /\ payments'[p] = paid
         /\ \A q \in Payments \ {p} : payments'[q] = payments[q]
    <2>1. payments' = [payments EXCEPT ![p] = paid]
      BY <1>12, <1>14, Zenon
    <2> QED
      BY <2>1, <1>0, <1>15, Zenon DEF TypeOK
  <1>17. /\ txns'[n] = row
         /\ txns'[x] = [txns[x] EXCEPT !.reversed = TRUE]
         /\ \A y \in TxnIds \ {n, x} : txns'[y] = txns[y]
         /\ DOMAIN txns' = TxnIds /\ txns' = [y \in TxnIds |-> txns'[y]]
    BY <1>0, <1>6, <1>12, Zenon DEF TypeOK
  <1>18. /\ txns'[x] \in Txn /\ txns'[x] # NoTxn /\ txns'[x].reversed
         /\ txns'[x].kind = txns[x].kind /\ txns'[x].amount = txns[x].amount
         /\ txns'[x].payment = txns[x].payment /\ txns'[x].reversalOf = txns[x].reversalOf
    <2>1. /\ txns'[x] \in Txn /\ txns'[x].reversed = TRUE
          /\ txns'[x].kind = txns[x].kind /\ txns'[x].amount = txns[x].amount
          /\ txns'[x].payment = txns[x].payment /\ txns'[x].reversalOf = txns[x].reversalOf
      <3>1. txns[x] \in Txn /\ txns'[x] = [txns[x] EXCEPT !.reversed = TRUE]
        BY <1>13, <1>17
      <3> QED
        BY <3>1, MarkedRow, Zenon
    <2> QED
      BY <2>1, RowsAssumption, Zenon
  <1>19. \A y \in TxnIds : txns[y] # NoTxn =>
           /\ y # n /\ txns'[y] # NoTxn
           /\ txns'[y].kind = txns[y].kind /\ txns'[y].amount = txns[y].amount
           /\ txns'[y].payment = txns[y].payment /\ txns'[y].reversalOf = txns[y].reversalOf
           /\ txns[y].reversed => txns'[y].reversed
           /\ y # x => txns'[y] = txns[y]
    BY <1>6, <1>17, <1>18, Zenon
  <1>20. \A y \in TxnIds \ {n} : txns'[y] # NoTxn => txns[y] # NoTxn
    BY <1>4, <1>17, Zenon
  <1>21. txns' \in [TxnIds -> Txn \cup {NoTxn}]
    <2>1. \A y \in TxnIds : txns'[y] \in Txn \cup {NoTxn}
      <3>1. \A y \in TxnIds : txns[y] \in Txn \cup {NoTxn}
        BY <1>0, Zenon DEF TypeOK
      <3> QED
        BY <3>1, <1>8, <1>17, <1>18, Zenon
    <2> QED
      BY <2>1, <1>17, Zenon
  <1>22. TypeOK' /\ ReqInv'
    BY <1>0, <1>1, <1>16, <1>21, ReplyKeeps
  <1>23. \A q \in Payments : exists(q)' <=> exists(q)
    BY <1>4, <1>15, <1>16, Zenon DEF exists
  <1>24. LinkedInv'
    <2> SUFFICES ASSUME NEW y \in TxnIds, txns'[y] # NoTxn, txns'[y].payment # NoPayment
                 PROVE  /\ payments'[txns'[y].payment] # NoPayment
                        /\ txns'[y].kind = "income" <=> txns'[y].reversalOf = Nothing
      BY Zenon DEF LinkedInv, exists
    <2>1. CASE y = n
      <3>1. x # Nothing
        BY SMT DEF TxnIds, Nothing
      <3>2. row.kind # "income"
        BY <1>8, SMT
      <3> QED
        BY <2>1, <3>1, <3>2, <1>8, <1>15, <1>16, <1>17, Zenon
    <2>2. CASE y # n
      <3>1. txns[y] # NoTxn /\ txns'[y].payment = txns[y].payment /\ txns'[y].kind = txns[y].kind
            /\ txns'[y].reversalOf = txns[y].reversalOf
        BY <2>2, <1>19, <1>20, Zenon
      <3>2. txns[y].payment \in Payments
        BY <3>1, <1>0, RowTypes, SMT DEF Txn
      <3> QED
        BY <3>1, <3>2, <1>0, <1>23, Zenon DEF RowsInv, LinkedInv, exists
    <2> QED
      BY <2>1, <2>2
  <1>25. \A y \in TxnIds : txns[y] # NoTxn => txns[y].reversalOf \in TxnIds \cup {Nothing}
    BY <1>0, RowTypes, SMT DEF Txn
  <1>26. MarksInv'
    <2> SUFFICES ASSUME NEW y \in TxnIds, txns'[y] # NoTxn
                 PROVE  /\ txns'[y].reversalOf # Nothing => txns'[txns'[y].reversalOf] # NoTxn
                        /\ txns'[y].reversed => alreadyReversed(y)'
      BY Zenon DEF MarksInv
    <2>1. CASE y = n
      BY <2>1, <1>8, <1>17, <1>18, Zenon
    <2>2. CASE y # n
      <3>1. /\ txns[y] # NoTxn /\ txns'[y].reversalOf = txns[y].reversalOf
            /\ y # x => txns'[y] = txns[y]
        BY <2>2, <1>19, <1>20, Zenon
      <3>2. txns'[y].reversalOf # Nothing => txns'[txns'[y].reversalOf] # NoTxn
        BY <3>1, <1>0, <1>19, <1>25, Zenon DEF RowsInv, MarksInv
      <3>3. txns'[y].reversed => alreadyReversed(y)'
        <4>1. CASE y = x
          BY <4>1, <1>6, <1>8, <1>17, Zenon DEF alreadyReversed
        <4>2. CASE y # x
          <5>1. txns'[y] = txns[y] /\ txns[y] # NoTxn
            BY <4>2, <3>1, Zenon
          <5>2. alreadyReversed(y) => alreadyReversed(y)'
            BY <1>19, Zenon DEF alreadyReversed
          <5> QED
            BY <5>1, <5>2, <1>0, Zenon DEF RowsInv, MarksInv
        <4> QED
          BY <4>1, <4>2
      <3> QED
        BY <3>2, <3>3
    <2> QED
      BY <2>1, <2>2
  <1>27. ReversalsAreWhole'
    <2> SUFFICES ASSUME NEW r \in TxnIds, txns'[r] # NoTxn, txns'[r].reversalOf # Nothing
                 PROVE  /\ txns'[txns'[r].reversalOf].amount = txns'[r].amount
                        /\ txns'[txns'[r].reversalOf].reversed
                        /\ \A s \in TxnIds \ {r} :
                             txns'[s] # NoTxn => txns'[s].reversalOf # txns'[r].reversalOf
      BY Zenon DEF ReversalsAreWhole
    <2>1. CASE r = n
      <3>1. /\ txns'[txns'[r].reversalOf].amount = txns'[r].amount
            /\ txns'[txns'[r].reversalOf].reversed
            /\ txns'[r].reversalOf = x
        BY <2>1, <1>2, <1>8, <1>17, <1>18, Zenon
      <3>2. ASSUME NEW s \in TxnIds \ {r}, txns'[s] # NoTxn PROVE txns'[s].reversalOf # x
        BY <2>1, <3>2, <1>4, <1>19, <1>20, Zenon DEF alreadyReversed
      <3> QED
        BY <3>1, <3>2, Zenon
    <2>2. CASE r # n
      <3>1. PICK y : y = txns[r].reversalOf
        OBVIOUS
      <3>2. /\ txns[r] # NoTxn /\ txns'[r].reversalOf = y /\ y # Nothing
            /\ txns'[r].amount = txns[r].amount
        BY <2>2, <3>1, <1>19, <1>20, Zenon
      <3>3. y \in TxnIds
        BY <3>1, <3>2, <1>25, Zenon
      <3>4. /\ txns[y] # NoTxn /\ txns[y].amount = txns[r].amount /\ txns[y].reversed
            /\ \A s \in TxnIds \ {r} : txns[s] # NoTxn => txns[s].reversalOf # y
        <4>1. txns[y] # NoTxn
          BY <3>1, <3>2, <1>0, Zenon DEF RowsInv, MarksInv
        <4>2. /\ txns[y].amount = txns[r].amount /\ txns[y].reversed
              /\ \A s \in TxnIds \ {r} : txns[s] # NoTxn => txns[s].reversalOf # y
          BY <3>1, <3>2, <1>0, Zenon DEF RowsInv, LedgerIsSound, ReversalsAreWhole
        <4> QED
          BY <4>1, <4>2
      <3>5. y # x
        BY <3>1, <3>2, <1>4, Zenon DEF alreadyReversed
      <3>6. ASSUME NEW s \in TxnIds \ {r}, txns'[s] # NoTxn PROVE txns'[s].reversalOf # y
        <4>1. CASE s = n
          BY <4>1, <3>5, <1>8, <1>17, Zenon
        <4>2. CASE s # n
          BY <4>2, <3>4, <3>6, <1>19, <1>20, Zenon
        <4> QED
          BY <4>1, <4>2
      <3> QED
        BY <3>2, <3>3, <3>4, <3>6, <1>19, Zenon
    <2> QED
      BY <2>1, <2>2
  <1>28. ASSUME NEW q \in Payments \ {p}
         PROVE  /\ sum(txns', linkedTo(q, "income")') = sum(txns, linkedTo(q, "income"))
                /\ sum(txns', linkedTo(q, "expense")') = sum(txns, linkedTo(q, "expense"))
                /\ sum(txns', taken(q)') = sum(txns, taken(q))
    <2>1. \A y \in TxnIds :
            /\ txns'[y] # NoTxn /\ txns'[y].payment = q <=> txns[y] # NoTxn /\ txns[y].payment = q
            /\ txns[y] # NoTxn /\ txns[y].payment = q =>
                 /\ txns'[y].kind = txns[y].kind
                 /\ txns'[y].amount = txns[y].amount
                 /\ txns'[y].reversed = txns[y].reversed
      <3> SUFFICES ASSUME NEW y \in TxnIds
                   PROVE  /\ txns'[y] # NoTxn /\ txns'[y].payment = q
                               <=> txns[y] # NoTxn /\ txns[y].payment = q
                          /\ txns[y] # NoTxn /\ txns[y].payment = q => txns'[y] = txns[y]
        BY Zenon
      <3>1. CASE y = n
        BY <3>1, <1>6, <1>8, <1>17, Zenon
      <3>2. CASE y = x
        BY <3>2, <1>4, <1>18, Zenon
      <3>3. CASE y # n /\ y # x
        BY <3>3, <1>17, Zenon
      <3> QED
        BY <3>1, <3>2, <3>3
    <2> QED
      BY <2>1, SumsStay, Zenon
  <1> DEFINE I == linkedTo(p, "income")
             E == linkedTo(p, "expense")
             T == taken(p)
  <1>29. I' = I
    <2>1. row.kind # "income"
      BY <1>8, SMT
    <2> QED
      <3>1. \A y \in TxnIds : y \in I' <=> y \in I
        <4> SUFFICES ASSUME NEW y \in TxnIds PROVE y \in I' <=> y \in I
          OBVIOUS
        <4>1. CASE y = n
          BY <4>1, <2>1, <1>6, <1>17, Zenon DEF linkedTo
        <4>2. CASE y # n
          BY <4>2, <1>19, <1>20, Zenon DEF linkedTo
        <4> QED
          BY <4>1, <4>2
      <3>2. I' \subseteq TxnIds /\ I \subseteq TxnIds
        BY Zenon DEF linkedTo
      <3> QED
        BY <3>1, <3>2, Zenon
  <1>30. E' = E \cup {n} /\ n \notin E
    <2>1. \A y \in TxnIds : y \in E' <=> y \in E \/ y = n
      <3> SUFFICES ASSUME NEW y \in TxnIds PROVE y \in E' <=> y \in E \/ y = n
        OBVIOUS
      <3>1. CASE y = n
        BY <3>1, <1>8, <1>17, Zenon DEF linkedTo
      <3>2. CASE y # n
        BY <3>2, <1>19, <1>20, Zenon DEF linkedTo
      <3> QED
        BY <3>1, <3>2
    <2>2. E' \subseteq TxnIds /\ E \subseteq TxnIds /\ n \notin E
      BY <1>6, Zenon DEF linkedTo
    <2> QED
      BY <2>1, <2>2, <1>6, Zenon
  <1>31. T' = T \cup {x} /\ x \notin T
    <2>1. \A y \in TxnIds : y \in T' <=> y \in T \/ y = x
      <3>1. \A y \in TxnIds : y \in T' <=> y \in I' /\ txns'[y].reversed
        BY Zenon DEF taken, linkedTo
      <3>2. \A y \in TxnIds : y \in T <=> y \in I /\ txns[y].reversed
        BY Zenon DEF taken, linkedTo
      <3>3. \A y \in I : txns[y] # NoTxn
        BY Zenon DEF linkedTo
      <3> QED
        BY <3>1, <3>2, <3>3, <1>3, <1>18, <1>19, <1>29, Zenon
    <2>2. T' \subseteq TxnIds /\ T \subseteq TxnIds /\ x \notin T
      BY <1>3, Zenon DEF taken, linkedTo
    <2> QED
      BY <2>1, <2>2, Zenon
  <1>32. valued(txns', I') /\ valued(txns', E') /\ valued(txns', T')
    BY <1>21, SMT DEF linkedTo, taken, valued, Txn
  <1>33. /\ \A y \in I : txns[y].amount = txns'[y].amount
         /\ \A y \in E : txns[y].amount = txns'[y].amount
         /\ \A y \in T : txns[y].amount = txns'[y].amount
    BY <1>19, Zenon DEF linkedTo, taken
  <1>34. /\ valued(txns, I) /\ valued(txns, E) /\ valued(txns, T)
    BY <1>0, LinkedRows
  <1> HIDE DEF I, E, T
  <1>35. sum(txns', I') = sum(txns, I)
    <2>1. sum(txns, I) = sum(txns', I)
      BY <1>33, SumOfSame, Zenon
    <2> QED
      BY <2>1, <1>29, Zenon
  <1>36. sum(txns', E') = sum(txns, E) + a
    <2>1. n \notin E /\ valued(txns', E \cup {n}) /\ txns'[n].amount = a
      BY <1>8, <1>17, <1>30, <1>32, Zenon
    <2>2. sum(txns', E \cup {n}) = sum(txns', E) + txns'[n].amount
      BY <2>1, SumWithAnother, Zenon
    <2>3. sum(txns, E) = sum(txns', E)
      BY <1>33, SumOfSame, Zenon
    <2> QED
      BY <2>1, <2>2, <2>3, <1>30, Zenon
  <1>37. sum(txns', T') = sum(txns, T) + a
    <2>1. x \notin T /\ valued(txns', T \cup {x}) /\ txns'[x].amount = a
      BY <1>2, <1>18, <1>31, <1>32, Zenon
    <2>2. sum(txns', T \cup {x}) = sum(txns', T) + txns'[x].amount
      BY <2>1, SumWithAnother, Zenon
    <2>3. sum(txns, T) = sum(txns', T)
      BY <1>33, SumOfSame, Zenon
    <2> QED
      BY <2>1, <2>2, <2>3, <1>31, Zenon
  <1>38. /\ payments[p].received = sum(txns, I) - sum(txns, E)
         /\ sum(txns, E) = sum(txns, T)
    BY <1>0, <1>4, Zenon DEF RowsInv, LedgerIsSound, ReceivedIsLedger, BalanceInv, I, E, T
  <1>39. payments'[p].received = sum(txns', I') - sum(txns', E')
    <2>1. sum(txns, I) \in Nat /\ sum(txns, E) \in Nat
      BY <1>34, SumIsNatural, Zenon
    <2>2. ASSUME NEW i \in Nat, NEW e \in Nat PROVE i - e - a = i - (e + a)
      BY <1>3, SMT
    <2>3. payments'[p].received = sum(txns, I) - sum(txns, E) - a
      BY <1>9, <1>15, <1>16, <1>38, Zenon
    <2> QED
      BY <2>1, <2>2, <2>3, <1>35, <1>36, Zenon
  <1>40. sum(txns', E') = sum(txns', T')
    BY <1>36, <1>37, <1>38, Zenon
  <1>41. BalanceInv'
    BY <1>0, <1>23, <1>28, <1>40, Zenon DEF RowsInv, BalanceInv, E, T
  <1>42. ReceivedIsLedger'
    BY <1>0, <1>16, <1>23, <1>28, <1>39, Zenon DEF RowsInv, LedgerIsSound, ReceivedIsLedger, I, E
  <1>43. UntouchedIsExpected'
    BY <1>0, <1>15, <1>16, <1>23, Zenon DEF RowsInv, LedgerIsSound, UntouchedIsExpected
  <1> QED
    BY <1>22, <1>24, <1>26, <1>27, <1>41, <1>42, <1>43 DEF LedgerInv, RowsInv, LedgerIsSound

(* The steps that touch neither table. *)
LEMMA QuietInv ==
  ASSUME LedgerInv, NEW c \in Clerks, UNCHANGED <<payments, txns>>,
         \/ reply(c)
         \/ \E p \in Payments, amount \in Nat \ {0}, allow \in BOOLEAN : confirm(c, p, amount, allow)
         \/ pc' = [pc EXCEPT ![c] = "apply"] /\ UNCHANGED req /\ pc[c] = "confirm"
  PROVE  LedgerInv'
  <1>0. TypeOK /\ ReqInv /\ RowsInv
    BY DEF LedgerInv
  <1>1. RowsInv'
    BY <1>0, SameRows
  <1>2. CASE reply(c)
    BY <1>0, <1>1, <1>2, ReplyKeeps DEF LedgerInv, TypeOK
  <1>3. CASE \E p \in Payments, amount \in Nat \ {0}, allow \in BOOLEAN : confirm(c, p, amount, allow)
    BY <1>0, <1>1, <1>3, SMT DEF LedgerInv, TypeOK, ReqInv, Request, confirm
  <1>4. CASE pc' = [pc EXCEPT ![c] = "apply"] /\ UNCHANGED req /\ pc[c] = "confirm"
    BY <1>0, <1>1, <1>4, SMT DEF LedgerInv, TypeOK, ReqInv
  <1> QED
    BY <1>2, <1>3, <1>4

LEMMA EditTxnInv ==
  ASSUME LedgerInv, NEW c \in Clerks, NEW x \in TxnIds, NEW rest, editTxn(c, x, rest)
  PROVE  LedgerInv'
  BY QuietInv, Zenon DEF editTxn, findLinkedReceiptTxn

LEMMA ReceiveRemainingInv ==
  ASSUME LedgerInv, NEW c \in Clerks, NEW p \in Payments, receiveRemaining(c, p)
  PROVE  LedgerInv'
  <1>1. payments[p] \in Payment /\ remaining(p) > 0
    BY RowTypes, Zenon DEF LedgerInv, receiveRemaining
  <1>2. remaining(p) \in Nat \ {0}
    BY <1>1, SMT DEF remaining, Payment
  <1>3. confirm(c, p, remaining(p), FALSE) /\ UNCHANGED <<payments, txns>>
    BY Zenon DEF receiveRemaining, confirm
  <1> QED
    BY <1>2, <1>3, QuietInv, Zenon

LEMMA LedgerStep ==
  ASSUME LedgerInv, [Next]_vars PROVE LedgerInv'
  <1>1. CASE UNCHANGED vars
    <2>1. RowsInv'
      BY <1>1, SameRows, Zenon DEF LedgerInv, vars
    <2> QED
      BY <1>1, <2>1, SMT DEF LedgerInv, TypeOK, ReqInv, vars
  <1>2. ASSUME NEW c \in Clerks, request(c) PROVE LedgerInv'
    <2>1. ASSUME NEW p \in Payments, NEW a \in Amounts, createExpectedPayment(c, p, a) PROVE LedgerInv'
      BY <2>1, CreatePaymentInv
    <2>2. ASSUME NEW p \in Payments, NEW a \in Amounts, updateExpectedPayment(c, p, a) PROVE LedgerInv'
      BY <2>2, UpdatePaymentInv
    <2>3. ASSUME NEW p \in Payments, NEW a \in Amounts, NEW allow \in BOOLEAN,
                 requestReceipt(c, p, a, allow)
          PROVE  LedgerInv'
      <3>1. a \in Nat \ {0} /\ confirm(c, p, a, allow) /\ UNCHANGED <<payments, txns>>
        BY <2>3, AmountsAssumption, Zenon DEF requestReceipt, confirm
      <3> QED
        BY <3>1, QuietInv, Zenon
    <2>4. ASSUME NEW p \in Payments, deleteExpectedPayment(c, p) PROVE LedgerInv'
      BY <2>4, DeletePaymentInv
    <2>5. ASSUME NEW p \in Payments, receiveRemaining(c, p) PROVE LedgerInv'
      BY <2>5, ReceiveRemainingInv
    <2>6. ASSUME NEW p \in Payments, NEW x \in TxnIds, reverseReceipt(c, p, x) PROVE LedgerInv'
      BY <2>6, ReverseReceiptInv
    <2>7. ASSUME NEW a \in Amounts, NEW kind \in {"income", "expense"}, createTxn(c, kind, a)
          PROVE  LedgerInv'
      BY <2>7, CreateTxnInv
    <2>8. ASSUME NEW a \in Amounts, NEW x \in TxnIds, updateTxn(c, x, a) PROVE LedgerInv'
      BY <2>8, EditTxnInv DEF updateTxn
    <2>9. ASSUME NEW x \in TxnIds, deleteTxn(c, x) PROVE LedgerInv'
      BY <2>9, EditTxnInv DEF deleteTxn
    <2>10. CASE confirmReceipt(c)
      <3>1. UNCHANGED <<payments, txns>>
        BY <2>10, Zenon DEF confirmReceipt
      <3>2. \/ reply(c)
            \/ pc' = [pc EXCEPT ![c] = "apply"] /\ UNCHANGED req /\ pc[c] = "confirm"
        BY <2>10, Zenon DEF confirmReceipt
      <3> QED
        BY <3>1, <3>2, QuietInv, Zenon
    <2>11. CASE applyReceipt(c)
      BY <2>11, ApplyReceiptInv
    <2> QED
      BY <1>2, <2>1, <2>2, <2>3, <2>4, <2>5, <2>6, <2>7, <2>8, <2>9, <2>10, <2>11, Zenon DEF request
  <1> QED
    BY <1>1, <1>2, Zenon DEF Next

LEMMA LedgerStart == Init => LedgerInv
  <1> SUFFICES ASSUME Init PROVE LedgerInv
    OBVIOUS
  <1>1. TypeOK /\ ReqInv
    BY SMT DEF Init, TypeOK, ReqInv, Request, noRequest
  <1>2. (\A p \in Payments : ~exists(p)) /\ (\A x \in TxnIds : txns[x] = NoTxn)
    BY Zenon DEF Init, exists
  <1>3. RowsInv
    BY <1>2, Zenon DEF RowsInv, LinkedInv, MarksInv, BalanceInv, LedgerIsSound, ReceivedIsLedger,
       ReversalsAreWhole, UntouchedIsExpected
  <1> QED
    BY <1>1, <1>3 DEF LedgerInv

(* What a payment has received is what its ledger says, receipts are taken *)
(* back once and whole, and "expected" means nothing received.             *)
THEOREM LedgerStaysSound == Spec => []LedgerIsSound
  <1>1. Init => LedgerInv
    BY LedgerStart
  <1>2. LedgerInv /\ [Next]_vars => LedgerInv'
    BY LedgerStep
  <1>3. LedgerInv => LedgerIsSound
    BY DEF LedgerInv, RowsInv
  <1> QED
    BY <1>1, <1>2, <1>3, PTL DEF Spec

(* A receipt exceeds the amount of its payment only if its clerk allowed   *)
(* that (confirmReceipt under the row lock).                               *)
THEOREM OverpaymentsAreAskedFor == Spec => NoSilentOverpayment
  <1> DEFINE asked == \A p \in Payments :
                        /\ exists(p) /\ payments'[p] # NoPayment
                        /\ payments'[p].received > payments[p].received
                        /\ payments'[p].received > payments'[p].amount
                        => \E c \in Clerks : pc[c] = "apply" /\ req[c].payment = p /\ req[c].allow
  <1>1. ASSUME LedgerInv, [Next]_vars PROVE [asked]_vars
    <2> SUFFICES ASSUME Next, NEW p \in Payments, exists(p), payments'[p] # NoPayment,
                        payments'[p].received > payments[p].received,
                        payments'[p].received > payments'[p].amount
                 PROVE  \E c \in Clerks : pc[c] = "apply" /\ req[c].payment = p /\ req[c].allow
      BY <1>1, Zenon
    <2>0. payments[p] \in Payment /\ payments \in [Payments -> Payment \cup {NoPayment}]
      BY <1>1, RowTypes DEF LedgerInv, TypeOK
    <2>1. payments'[p] # payments[p]
      <3>1. payments[p].received \in Nat
        BY <2>0, SMT DEF Payment
      <3> QED
        BY <3>1, SMT
    <2>2. PICK c \in Clerks : request(c)
      BY Zenon DEF Next
    <2>3. ASSUME NEW q \in Payments, NEW a \in Amounts, createExpectedPayment(c, q, a) PROVE FALSE
      BY <2>0, <2>1, <2>3, Zenon DEF createExpectedPayment
    <2>4. ASSUME NEW q \in Payments, NEW a \in Amounts, updateExpectedPayment(c, q, a) PROVE FALSE
      <3>1. payments'[p].received = payments[p].received
        BY <2>0, <2>4, Zenon DEF updateExpectedPayment, Payment
      <3> QED
        BY <3>1, <2>0, SMT DEF Payment
    <2>5. ASSUME NEW q \in Payments, deleteExpectedPayment(c, q) PROVE FALSE
      BY <2>0, <2>1, <2>5, Zenon DEF deleteExpectedPayment
    <2>6. ASSUME NEW q \in Payments, NEW x \in TxnIds, reverseReceipt(c, q, x) PROVE FALSE
      <3>1. PICK a : a = Smaller(txns[x].amount, payments[q].received)
        OBVIOUS
      <3>2. a > 0 /\ payments' = [payments EXCEPT ![q] =
                                    [amount |-> payments[q].amount, received |-> payments[q].received - a,
                                     status |-> statusAfterReversal(payments[q].received - a,
                                                                    payments[q].amount)]]
        BY <2>6, <3>1, Zenon DEF reverseReceipt
      <3>3. q = p
        BY <2>0, <2>1, <3>2, Zenon
      <3>4. payments'[p].received = payments[p].received - a
        BY <2>0, <3>2, <3>3, Zenon
      <3>5. a \in Nat
        <4>1. txns[x].amount \in Nat
          <5>1. txns[x] \in Txn
            BY <1>1, <2>6, RowTypes, Zenon DEF LedgerInv, reverseReceipt, reversible
          <5> QED
            BY <5>1, SMT DEF Txn
        <4>2. payments[q].received \in Nat
          BY <2>0, <3>3, SMT DEF Payment
        <4> QED
          BY <3>1, <4>1, <4>2, SMT DEF Smaller
      <3>6. payments[p].received \in Nat
        BY <2>0, SMT DEF Payment
      <3> QED
        BY <3>2, <3>4, <3>5, <3>6, SMT
    <2>7. CASE applyReceipt(c)
      <3>1. PICK q : q = req[c].payment
        OBVIOUS
      <3>2. PICK a : a = receivedAfter(c, q)
        OBVIOUS
      <3>3. /\ pc[c] = "apply" /\ fits(c, q)
            /\ payments' = [payments EXCEPT ![q] =
                              [amount |-> payments[q].amount, received |-> a,
                               status |-> statusOf(a, payments[q].amount)]]
        BY <2>1, <2>7, <3>1, <3>2, Zenon DEF applyReceipt
      <3>4. q = p
        BY <2>0, <2>1, <3>3, Zenon
      <3>5. payments'[p].received = a /\ payments'[p].amount = payments[p].amount
        BY <2>0, <3>3, <3>4, Zenon
      <3>6. a <= payments[p].amount \/ req[c].allow
        BY <3>2, <3>3, <3>4, Zenon DEF fits
      <3>7. ~(a <= payments[p].amount)
        <4>1. payments[p].amount \in Nat /\ payments[p].received \in Nat /\ req[c].amount \in Nat
          BY <1>1, <2>0, SMT DEF LedgerInv, TypeOK, Request, Payment
        <4> QED
          BY <4>1, <3>2, <3>4, <3>5, SMT DEF receivedAfter
      <3> QED
        BY <3>1, <3>3, <3>4, <3>6, <3>7, Zenon
    <2>8. CASE payments' = payments
      BY <2>1, <2>8
    <2> QED
      BY <2>2, <2>3, <2>4, <2>5, <2>6, <2>7, <2>8, Zenon DEF request, requestReceipt, confirm,
         receiveRemaining, createTxn, updateTxn, deleteTxn, editTxn, confirmReceipt
  <1>2. Init => LedgerInv
    BY LedgerStart
  <1>3. LedgerInv /\ [Next]_vars => LedgerInv'
    BY LedgerStep
  <1> QED
    BY <1>1, <1>2, <1>3, PTL DEF Spec, NoSilentOverpayment

(* The receipts are beside the rows, the next actions and the imports.     *)
LEMMA ReceiptsBeside == MCSpec => Spec
  <1>1. MCInit => Init
    BY DEF MCInit
  <1>2. [MCNext]_mcVars => [Next]_vars
    BY Zenon DEF MCNext, mcVars, vars
  <1> QED
    BY <1>1, <1>2, PTL DEF MCSpec, Spec

(* So both hold of every behaviour of the run.                             *)
THEOREM ReceiptsOfTheRun == MCSpec => []LedgerIsSound /\ NoSilentOverpayment
  BY ReceiptsBeside, LedgerStaysSound, OverpaymentsAreAskedFor, PTL
-----------------------------------------------------------------------------
(***************************************************************************)
(* The next action of a deal, for any tasks, deals and requests.  What a   *)
(* request listed is right as long as it is fresh, because every write of  *)
(* a task of the deal ends its freshness; and every deal is right, astray  *)
(* or on some request's way.                                               *)
(***************************************************************************)

(* What a deal may show of the tasks: the body of SummaryFollowsTasks.     *)
Shows(d, n) ==
  IF n = Actions!Nothing THEN \A t \in Entries : ~Actions!waiting(t, d)
  ELSE /\ Actions!waiting(n[1], d) /\ Day[tasks[n[1]].due] = n[2]
       /\ \A t \in Entries : Actions!waiting(t, d) => tasks[n[1]].due <= tasks[t].due

(* A request that reads a task back has written it; a fresh listing is     *)
(* what the deal is to show.                                               *)
ListInv == \A c \in Clerks :
             /\ place[c] = "reread" => tasks[syncing[c]].status # "missing"
             /\ c \in fresh => Shows(syncing[c], listed[c])

FollowInv == \A d \in Payments : Actions!settled(d) /\ d \notin astray => Shows(d, nextAction[d])

ActionsInv == Actions!TypeOK /\ ListInv /\ FollowInv

(* What TypeOK says of the deal a request is about, place by place.        *)
LEMMA SyncingIsOf ==
  ASSUME Actions!TypeOK, NEW c \in Clerks
  PROVE  /\ place[c] \in {"idle", "reread", "list", "write"}
         /\ place[c] = "idle" => syncing[c] = None
         /\ place[c] = "reread" => syncing[c] \in Entries
         /\ place[c] \in {"list", "write"} => syncing[c] \in Payments
         /\ c \in fresh => place[c] = "write"
  <1>1. c \in fresh => place[c] = "write"
    BY Zenon DEF Actions!TypeOK
  <1>2. place \in [Clerks -> {"idle", "reread", "list", "write"}]
    BY Zenon DEF Actions!TypeOK
  <1>3. /\ place[c] = "idle" => syncing[c] = None
        /\ place[c] = "reread" => syncing[c] \in Entries
        /\ place[c] \in {"list", "write"} => syncing[c] \in Payments
    <2>1. \A x \in Clerks : /\ place[x] = "idle" => syncing[x] = None
                            /\ place[x] = "reread" => syncing[x] \in Entries
                            /\ place[x] \in {"list", "write"} => syncing[x] \in Payments
      BY DEF Actions!TypeOK
    <2> QED
      BY <2>1
  <1> QED
    BY <1>1, <1>2, <1>3

(* The type of a task, spelled out.                                        *)
LEMMA TaskOfType ==
  ASSUME NEW d \in Payments \cup {None}, NEW due \in Dates \cup {0},
         NEW s \in {"open", "done", "cancelled"}
  PROVE  [deal |-> d, due |-> due, status |-> s] \in Actions!Task
  BY DEF Actions!Task, Actions!Undated

LEMMA ActionsInit == Actions!Init => ActionsInv
  <1> SUFFICES ASSUME Actions!Init PROVE ActionsInv
    OBVIOUS
  <1> USE NoneAssumption, CountsAssumption
  <1>1. Actions!TypeOK
    BY DEF Actions!Init, Actions!TypeOK, Actions!Missing, Actions!Nothing, Actions!Task, Actions!Undated
  <1>2. ListInv
    BY DEF Actions!Init, ListInv
  <1>3. FollowInv
    BY DEF Actions!Init, FollowInv, Shows, Actions!waiting, Actions!Missing, Actions!Undated
  <1> QED
    BY <1>1, <1>2, <1>3 DEF ActionsInv

(* What a deal shows of its tasks is as it was if only other deals' tasks  *)
(* were written.                                                           *)
LEMMA ShowsOthers ==
  ASSUME NEW d \in Payments, NEW n, Shows(d, n),
         n = Actions!Nothing \/ n[1] \in Entries,
         \A t \in Entries : tasks'[t] = tasks[t] \/ (~Actions!waiting(t, d) /\ ~Actions!waiting(t, d)')
  PROVE  Shows(d, n)'
  <1>0. n' = n
    OBVIOUS
  <1> QED
    BY SMT DEF Shows, Actions!waiting, Actions!Nothing

(* A listing was made of tasks, and so is what a deal shows.               *)
LEMMA ListedAreTasks ==
  ASSUME Actions!TypeOK
  PROVE  /\ \A c \in Clerks : listed[c] = Actions!Nothing \/ listed[c][1] \in Entries
         /\ \A d \in Payments : nextAction[d] = Actions!Nothing \/ nextAction[d][1] \in Entries
  BY SMT DEF Actions!TypeOK

(* A write of one task leaves the listings it did not touch as they were,  *)
(* and the deals it is not about.                                          *)
LEMMA OthersKeepTheirs ==
  ASSUME Actions!TypeOK, NEW t \in Entries, NEW row, tasks' = [tasks EXCEPT ![t] = row],
         NEW d \in Payments, row.deal # d, tasks[t].deal # d \/ tasks[t].status = "missing",
         NEW n, n = Actions!Nothing \/ n[1] \in Entries, Shows(d, n)
  PROVE  Shows(d, n)'
  <1>1. \A u \in Entries : tasks'[u] = IF u = t THEN row ELSE tasks[u]
    BY DEF Actions!TypeOK
  <1>2. \A u \in Entries : tasks'[u] = tasks[u] \/ (~Actions!waiting(u, d) /\ ~Actions!waiting(u, d)')
    BY <1>1 DEF Actions!waiting
  <1> QED
    BY <1>2, ShowsOthers

(* Steps that write no task leave every listing good that they leave as it *)
(* is.                                                                     *)
LEMMA SameTasksSameShow ==
  ASSUME tasks' = tasks, NEW d, NEW n
  PROVE  Shows(d, n)' <=> Shows(d, n)
  BY DEF Shows, Actions!waiting

LEMMA ActionsStep ==
  ASSUME ActionsInv, Actions!Next
  PROVE  ActionsInv'
  <1> USE NoneAssumption, CountsAssumption
  <1>0. Actions!TypeOK /\ ListInv /\ FollowInv
    BY DEF ActionsInv
  <1>a. ASSUME NEW c \in Clerks, NEW t \in Entries, Actions!createTask(c, t)
        PROVE  ActionsInv'
    <2>1. PICK d \in Payments \cup {None}, due \in Dates \cup {0} :
             /\ tasks' = [tasks EXCEPT ![t] = [deal |-> d, due |-> due, status |-> "open"]]
             /\ syncing' = [syncing EXCEPT ![c] = d]
             /\ place' = [place EXCEPT ![c] = IF d = None THEN "idle" ELSE "list"]
             /\ fresh' = {x \in fresh : syncing[x] \notin {d}}
      BY <1>a DEF Actions!createTask, Actions!goTo, Actions!touch, Actions!Undated
    <2>r. PICK row : row = [deal |-> d, due |-> due, status |-> "open"]
      OBVIOUS
    <2>s. tasks' = [tasks EXCEPT ![t] = row] /\ row.deal = d
      BY <2>1, <2>r
    <2>2. /\ place[c] = "idle" /\ tasks[t].status = "missing"
          /\ changes < MaxChanges /\ changes' = changes + 1
          /\ UNCHANGED <<nextAction, listed, astray>>
      BY <1>a DEF Actions!createTask, Actions!change
    <2>3. c \notin fresh /\ syncing[c] = None
      BY <1>0, <2>2, SyncingIsOf
    <2>4. Actions!TypeOK'
      <3>1. tasks' \in [Entries -> Actions!Task]
        BY <1>0, <2>1, TaskOfType, Zenon DEF Actions!TypeOK
      <3> QED
        BY <1>0, <2>1, <2>2, <2>3, <3>1, SMT DEF Actions!TypeOK
    <2>5. ListInv'
      <3> SUFFICES ASSUME NEW x \in Clerks
                   PROVE  /\ place'[x] = "reread" => tasks'[syncing'[x]].status # "missing"
                          /\ x \in fresh' => Shows(syncing[x], listed[x])'
        BY DEF ListInv
      <3>1. place'[x] = "reread" => tasks'[syncing'[x]].status # "missing"
        <4>1. place'[x] = "reread" => x # c /\ place[x] = "reread" /\ syncing'[x] = syncing[x]
          BY <1>0, <2>1, SMT DEF Actions!TypeOK
        <4>2. place[x] = "reread" => syncing[x] \in Entries /\ tasks[syncing[x]].status # "missing"
          BY <1>0, SyncingIsOf DEF ListInv
        <4> QED
          BY <1>0, <4>1, <4>2, <2>1, <2>2, SMT DEF Actions!TypeOK
      <3>2. ASSUME x \in fresh' PROVE Shows(syncing[x], listed[x])'
        <4>1. x \in fresh /\ x # c /\ syncing'[x] = syncing[x] /\ listed'[x] = listed[x]
          BY <1>0, <3>2, <2>1, <2>2, <2>3 DEF Actions!TypeOK
        <4>e. PICK e \in Payments : e = syncing[x]
          BY <1>0, <4>1, SyncingIsOf
        <4>n. PICK n : n = listed[x]
          OBVIOUS
        <4>2. e = syncing[x] /\ n = listed[x]
          BY <4>e, <4>n
        <4>3. e # d /\ Shows(e, n) /\ (n = Actions!Nothing \/ n[1] \in Entries)
          BY <1>0, <3>2, <4>1, <4>2, <2>1, ListedAreTasks DEF ListInv
        <4>4. Shows(e, n)'
          <5>1. row.deal # e
            BY <2>s, <4>3
          <5> QED
            BY <1>0, <4>3, <2>s, <5>1, <2>2, OthersKeepTheirs, Zenon
        <4> QED
          BY <4>1, <4>2, <4>4 DEF Shows, Actions!waiting
      <3> QED
        BY <3>1, <3>2
    <2>6. FollowInv'
      <3> SUFFICES ASSUME NEW e \in Payments, Actions!settled(e)', e \notin astray'
                   PROVE  Shows(e, nextAction[e])'
        BY DEF FollowInv
      <3>1. e # d
        BY <1>0, <2>1 DEF Actions!settled, Actions!TypeOK
      <3>2. Actions!settled(e)
        <4> SUFFICES ASSUME NEW x \in Clerks
                     PROVE  IF place[x] = "reread" THEN tasks[syncing[x]].deal # e ELSE syncing[x] # e
          BY DEF Actions!settled
        <4>1. CASE x = c
          BY <4>1, <2>2, <2>3
        <4>2. CASE x # c
          <5>1. syncing'[x] = syncing[x] /\ place'[x] = place[x]
            BY <1>0, <4>2, <2>1 DEF Actions!TypeOK
          <5>2. IF place[x] = "reread" THEN tasks'[syncing[x]].deal # e ELSE syncing[x] # e
            BY <5>1 DEF Actions!settled
          <5>3. place[x] = "reread" => syncing[x] \in Entries /\ syncing[x] # t
            BY <1>0, SyncingIsOf, <2>2 DEF ListInv
          <5> QED
            BY <1>0, <2>1, <5>2, <5>3 DEF Actions!TypeOK
        <4> QED
          BY <4>1, <4>2
      <3>3. PICK n : n = nextAction[e]
        OBVIOUS
      <3>4. Shows(e, n) /\ (n = Actions!Nothing \/ n[1] \in Entries)
        BY <1>0, <2>2, <3>2, <3>3, ListedAreTasks DEF FollowInv
      <3>5. Shows(e, n)'
        <4>1. row.deal # e
          BY <2>s, <3>1
        <4> QED
          BY <1>0, <3>4, <2>s, <4>1, <2>2, OthersKeepTheirs, Zenon
      <3> QED
        BY <3>3, <3>5, <2>2 DEF Shows, Actions!waiting
    <2> QED
      BY <2>4, <2>5, <2>6 DEF ActionsInv
  <1>b. ASSUME NEW c \in Clerks, NEW t \in Entries, Actions!updateTask(c, t)
        PROVE  ActionsInv'
    <2>1. PICK d \in Payments \cup {None}, due \in Dates \cup {0}, s \in {"open", "done", "cancelled"} :
             /\ tasks' = [tasks EXCEPT ![t] = [deal |-> d, due |-> due, status |-> s]]
             /\ astray' = IF d = tasks[t].deal THEN astray ELSE astray \cup ({tasks[t].deal} \ {None})
             /\ fresh' = {x \in fresh : syncing[x] \notin {d, tasks[t].deal}}
      BY <1>b DEF Actions!updateTask, Actions!touch, Actions!Undated
    <2>2. /\ place[c] = "idle" /\ tasks[t].status # "missing"
          /\ changes < MaxChanges /\ changes' = changes + 1
          /\ syncing' = [syncing EXCEPT ![c] = t]
          /\ place' = [place EXCEPT ![c] = "reread"]
          /\ UNCHANGED <<nextAction, listed>>
      BY <1>b DEF Actions!updateTask, Actions!change, Actions!goTo
    <2>r. PICK row : row = [deal |-> d, due |-> due, status |-> s]
      OBVIOUS
    <2>s. tasks' = [tasks EXCEPT ![t] = row] /\ row.deal = d /\ row.status # "missing"
      BY <2>1, <2>r
    <2>3. c \notin fresh /\ syncing[c] = None
      BY <1>0, <2>2, SyncingIsOf
    <2>4. Actions!TypeOK'
      <3>1. tasks' \in [Entries -> Actions!Task]
        BY <1>0, <2>1, TaskOfType, Zenon DEF Actions!TypeOK
      <3>2. tasks[t].deal \in Payments \cup {None}
        BY <1>0 DEF Actions!TypeOK, Actions!Task
      <3>3. astray' \subseteq Payments
        BY <1>0, <2>1, <3>2 DEF Actions!TypeOK
      <3>4. fresh' \subseteq {x \in Clerks : place'[x] = "write"}
        BY <1>0, <2>1, <2>2, <2>3 DEF Actions!TypeOK
      <3> QED
        BY <1>0, <2>2, <3>1, <3>3, <3>4, SMT DEF Actions!TypeOK
    <2>5. ListInv'
      <3> SUFFICES ASSUME NEW x \in Clerks
                   PROVE  /\ place'[x] = "reread" => tasks'[syncing'[x]].status # "missing"
                          /\ x \in fresh' => Shows(syncing[x], listed[x])'
        BY DEF ListInv
      <3>1. ASSUME place'[x] = "reread" PROVE tasks'[syncing'[x]].status # "missing"
        <4>1. CASE x = c
          BY <1>0, <4>1, <2>2, <2>s DEF Actions!TypeOK
        <4>2. CASE x # c
          <5>1. place[x] = "reread" /\ syncing'[x] = syncing[x]
            BY <1>0, <3>1, <4>2, <2>2 DEF Actions!TypeOK
          <5>2. syncing[x] \in Entries /\ tasks[syncing[x]].status # "missing"
            BY <1>0, <5>1, SyncingIsOf DEF ListInv
          <5> QED
            BY <1>0, <5>1, <5>2, <2>s DEF Actions!TypeOK
        <4> QED
          BY <4>1, <4>2
      <3>2. ASSUME x \in fresh' PROVE Shows(syncing[x], listed[x])'
        <4>1. x \in fresh /\ x # c /\ syncing'[x] = syncing[x] /\ listed'[x] = listed[x]
          BY <1>0, <3>2, <2>1, <2>2, <2>3 DEF Actions!TypeOK
        <4>e. PICK e \in Payments : e = syncing[x]
          BY <1>0, <4>1, SyncingIsOf
        <4>n. PICK n : n = listed[x]
          OBVIOUS
        <4>2. e = syncing[x] /\ n = listed[x]
          BY <4>e, <4>n
        <4>3. /\ e # d /\ e # tasks[t].deal /\ Shows(e, n)
              /\ n = Actions!Nothing \/ n[1] \in Entries
          BY <1>0, <3>2, <4>1, <4>2, <2>1, ListedAreTasks DEF ListInv
        <4>4. Shows(e, n)'
          <5>1. row.deal # e /\ tasks[t].deal # e
            BY <2>s, <4>3
          <5> QED
            BY <1>0, <4>3, <2>s, <5>1, OthersKeepTheirs, Zenon
        <4> QED
          BY <4>1, <4>2, <4>4 DEF Shows, Actions!waiting
      <3> QED
        BY <3>1, <3>2
    <2>6. FollowInv'
      <3> SUFFICES ASSUME NEW e \in Payments, Actions!settled(e)', e \notin astray'
                   PROVE  Shows(e, nextAction[e])'
        BY DEF FollowInv
      <3>1. e # d
        <4>1. syncing'[c] = t /\ place'[c] = "reread" /\ tasks'[t].deal = d
          BY <1>0, <2>2, <2>s DEF Actions!TypeOK
        <4> QED
          BY <4>1 DEF Actions!settled
      <3>0. e # tasks[t].deal /\ e \notin astray
        BY <2>1, <3>1, NoneAssumption
      <3>2. Actions!settled(e)
        <4> SUFFICES ASSUME NEW x \in Clerks
                     PROVE  IF place[x] = "reread" THEN tasks[syncing[x]].deal # e ELSE syncing[x] # e
          BY DEF Actions!settled
        <4>1. CASE x = c
          BY <4>1, <2>2, <2>3
        <4>2. CASE x # c
          <5>1. syncing'[x] = syncing[x] /\ place'[x] = place[x]
            BY <1>0, <4>2, <2>2 DEF Actions!TypeOK
          <5>2. IF place[x] = "reread" THEN tasks'[syncing[x]].deal # e ELSE syncing[x] # e
            BY <5>1 DEF Actions!settled
          <5>3. place[x] = "reread" => syncing[x] \in Entries
            BY <1>0, SyncingIsOf
          <5> QED
            BY <1>0, <2>s, <3>0, <5>2, <5>3 DEF Actions!TypeOK
        <4> QED
          BY <4>1, <4>2
      <3>3. PICK n : n = nextAction[e]
        OBVIOUS
      <3>4. Shows(e, n) /\ (n = Actions!Nothing \/ n[1] \in Entries)
        BY <1>0, <3>0, <3>2, <3>3, ListedAreTasks DEF FollowInv
      <3>5. Shows(e, n)'
        <4>1. row.deal # e /\ tasks[t].deal # e
          BY <2>s, <3>1, <3>0
        <4> QED
          BY <1>0, <3>4, <2>s, <4>1, OthersKeepTheirs, Zenon
      <3> QED
        BY <3>3, <3>5, <2>2 DEF Shows, Actions!waiting
    <2> QED
      BY <2>4, <2>5, <2>6 DEF ActionsInv
  <1>c. ASSUME NEW c \in Clerks, Actions!readBack(c)
        PROVE  ActionsInv'
    <2>1. /\ place[c] = "reread" /\ syncing[c] \in Entries
          /\ c \notin fresh
          /\ UNCHANGED <<tasks, nextAction, changes, fresh, astray>>
      BY <1>0, <1>c, SyncingIsOf DEF Actions!readBack
    <2>2. PICK d \in Payments \cup {None} : d = tasks[syncing[c]].deal
      BY <1>0, <2>1 DEF Actions!TypeOK, Actions!Task
    <2>3. /\ place' = [place EXCEPT ![c] = IF d = None THEN "idle" ELSE "list"]
          /\ syncing' = [syncing EXCEPT ![c] = d]
          /\ listed' = listed \/ (d = None /\ listed' = [listed EXCEPT ![c] = Actions!Nothing])
      BY <1>c, <2>2 DEF Actions!readBack, Actions!leave, Actions!goTo
    <2>0. \A x \in Clerks \ {c} : syncing'[x] = syncing[x] /\ place'[x] = place[x] /\ listed'[x] = listed[x]
      BY <1>0, <2>3 DEF Actions!TypeOK
    <2>4. Actions!TypeOK'
      <3>1. listed' \in [Clerks -> (Entries \X Actions!Days) \cup {Actions!Nothing}]
        BY <1>0, <2>3, Zenon DEF Actions!TypeOK
      <3>2. /\ place' \in [Clerks -> {"idle", "reread", "list", "write"}]
            /\ syncing' \in [Clerks -> Payments \cup Entries \cup {None}]
            /\ place'[c] = (IF d = None THEN "idle" ELSE "list") /\ syncing'[c] = d
        BY <1>0, <2>3 DEF Actions!TypeOK
      <3>3. \A x \in Clerks : /\ place'[x] = "idle" => syncing'[x] = None
                              /\ place'[x] = "reread" => syncing'[x] \in Entries
                              /\ place'[x] \in {"list", "write"} => syncing'[x] \in Payments
        BY <1>0, <2>0, <3>2, SyncingIsOf
      <3>4. fresh' \subseteq {x \in Clerks : place'[x] = "write"}
        BY <1>0, <2>0, <2>1 DEF Actions!TypeOK
      <3> QED
        BY <1>0, <2>1, <3>1, <3>2, <3>3, <3>4 DEF Actions!TypeOK
    <2>5. ListInv'
      <3> SUFFICES ASSUME NEW x \in Clerks
                   PROVE  /\ place'[x] = "reread" => tasks'[syncing'[x]].status # "missing"
                          /\ x \in fresh' => Shows(syncing[x], listed[x])'
        BY DEF ListInv
      <3>1. CASE x = c
        BY <1>0, <3>1, <2>1, <2>3 DEF Actions!TypeOK
      <3>2. CASE x # c
        BY <1>0, <3>2, <2>0, <2>1 DEF ListInv, Shows, Actions!waiting
      <3> QED
        BY <3>1, <3>2
    <2>6. FollowInv'
      <3> SUFFICES ASSUME NEW e \in Payments, Actions!settled(e)', e \notin astray'
                   PROVE  Shows(e, nextAction[e])'
        BY DEF FollowInv
      <3>1. e # d
        BY <1>0, <2>3 DEF Actions!settled, Actions!TypeOK
      <3>2. Actions!settled(e)
        BY <2>0, <2>1, <2>2, <3>1 DEF Actions!settled
      <3> QED
        BY <1>0, <3>2, <2>1 DEF FollowInv, Shows, Actions!waiting
    <2> QED
      BY <2>4, <2>5, <2>6 DEF ActionsInv
  <1>d. ASSUME NEW c \in Clerks, Actions!list(c)
        PROVE  ActionsInv'
    <2>1. PICK d \in Payments : d = syncing[c]
      BY <1>0, <1>d, SyncingIsOf DEF Actions!list
    <2>2. /\ place[c] = "list" /\ place' = [place EXCEPT ![c] = "write"]
          /\ fresh' = fresh \cup {c}
          /\ UNCHANGED <<tasks, nextAction, syncing, changes, astray>>
      BY <1>d DEF Actions!list, Actions!goTo
    <2>3. PICK n \in Actions!nearest(d) : listed' = [listed EXCEPT ![c] = n]
      BY <1>d, <2>1 DEF Actions!list
    <2>4. Shows(d, n) /\ n \in (Entries \X Actions!Days) \cup {Actions!Nothing}
      <3>1. CASE Actions!dated(d) = {}
        <4>1. n = Actions!Nothing
          BY <2>3, <3>1 DEF Actions!nearest
        <4> QED
          BY <3>1, <4>1 DEF Shows, Actions!waiting, Actions!dated
      <3>2. CASE Actions!dated(d) # {}
        <4>1. PICK t \in Actions!dated(d) : /\ n = <<t, Day[tasks[t].due]>>
                                            /\ \A v \in Actions!dated(d) : tasks[t].due <= tasks[v].due
          BY <2>3, <3>2 DEF Actions!nearest
        <4>2. t \in Entries /\ Actions!waiting(t, d) /\ n # Actions!Nothing /\ n[1] = t /\ n[2] = Day[tasks[t].due]
          BY <4>1, NoneAssumption DEF Actions!dated, Actions!waiting, Actions!Nothing
        <4>3. \A v \in Entries : Actions!waiting(v, d) => tasks[t].due <= tasks[v].due
          BY <4>1 DEF Actions!dated, Actions!waiting
        <4>4. tasks[t].due \in Dates
          BY <1>0, <4>2 DEF Actions!TypeOK, Actions!Task, Actions!waiting
        <4>5. Day[tasks[t].due] \in Actions!Days
          BY <4>4 DEF Actions!Days
        <4> QED
          BY <4>1, <4>2, <4>3, <4>5 DEF Shows
      <3> QED
        BY <3>1, <3>2
    <2>5. Actions!TypeOK'
      <3>1. listed' \in [Clerks -> (Entries \X Actions!Days) \cup {Actions!Nothing}]
        BY <1>0, <2>3, <2>4, Zenon DEF Actions!TypeOK
      <3>2. fresh' \subseteq {x \in Clerks : place'[x] = "write"}
        BY <1>0, <2>2 DEF Actions!TypeOK
      <3>3. /\ place' \in [Clerks -> {"idle", "reread", "list", "write"}]
            /\ \A x \in Clerks \ {c} : place'[x] = place[x]
            /\ place'[c] = "write"
        BY <1>0, <2>2 DEF Actions!TypeOK
      <3>4. \A x \in Clerks : /\ place'[x] = "idle" => syncing[x] = None
                              /\ place'[x] = "reread" => syncing[x] \in Entries
                              /\ place'[x] \in {"list", "write"} => syncing[x] \in Payments
        BY <1>0, <2>1, <3>3, SyncingIsOf
      <3> QED
        BY <1>0, <2>2, <3>1, <3>2, <3>3, <3>4 DEF Actions!TypeOK
    <2>6. ListInv'
      <3> SUFFICES ASSUME NEW x \in Clerks
                   PROVE  /\ place'[x] = "reread" => tasks'[syncing'[x]].status # "missing"
                          /\ x \in fresh' => Shows(syncing[x], listed[x])'
        BY DEF ListInv
      <3>1. CASE x = c
        <4>1. place'[c] = "write" /\ syncing'[c] = d /\ listed'[c] = n
          BY <1>0, <2>1, <2>2, <2>3 DEF Actions!TypeOK
        <4>2. Shows(d, n)'
          BY <2>2, <2>4, SameTasksSameShow
        <4> QED
          BY <3>1, <4>1, <4>2 DEF Shows, Actions!waiting
      <3>2. CASE x # c
        <4>1. place'[x] = place[x] /\ listed'[x] = listed[x] /\ (x \in fresh' <=> x \in fresh)
          BY <1>0, <3>2, <2>2, <2>3 DEF Actions!TypeOK
        <4> QED
          BY <1>0, <4>1, <2>2 DEF ListInv, Shows, Actions!waiting
      <3> QED
        BY <3>1, <3>2
    <2>7. FollowInv'
      <3> SUFFICES ASSUME NEW e \in Payments, Actions!settled(e)', e \notin astray'
                   PROVE  Shows(e, nextAction[e])'
        BY DEF FollowInv
      <3>1. \A x \in Clerks : place[x] = "reread" => place'[x] = "reread"
        BY <1>0, <2>2 DEF Actions!TypeOK
      <3>2. Actions!settled(e)
        BY <2>2, <3>1 DEF Actions!settled
      <3> QED
        BY <1>0, <3>2, <2>2 DEF FollowInv, Shows, Actions!waiting
    <2> QED
      BY <2>5, <2>6, <2>7 DEF ActionsInv
  <1>e. ASSUME NEW c \in Clerks, Actions!write(c)
        PROVE  ActionsInv'
    <2>1. PICK d \in Payments : d = syncing[c]
      BY <1>0, <1>e, SyncingIsOf DEF Actions!write
    <2>2. PICK n \in (Entries \X Actions!Days) \cup {Actions!Nothing} : n = listed[c]
      BY <1>0 DEF Actions!TypeOK
    <2>3. /\ place[c] = "write" /\ place' = [place EXCEPT ![c] = "idle"]
          /\ syncing' = [syncing EXCEPT ![c] = None]
          /\ listed' = [listed EXCEPT ![c] = Actions!Nothing]
          /\ nextAction' = [nextAction EXCEPT ![d] = n]
          /\ astray' = IF c \in fresh THEN astray \ {d} ELSE astray \cup {d}
          /\ fresh' = fresh \ {c}
          /\ UNCHANGED <<tasks, changes>>
      BY <1>e, <2>1, <2>2 DEF Actions!write, Actions!leave, Actions!goTo
    <2>0. \A x \in Clerks \ {c} : syncing'[x] = syncing[x] /\ place'[x] = place[x] /\ listed'[x] = listed[x]
      BY <1>0, <2>3 DEF Actions!TypeOK
    <2>4. Actions!TypeOK'
      <3>1. listed' \in [Clerks -> (Entries \X Actions!Days) \cup {Actions!Nothing}]
        BY <1>0, <2>3, Zenon DEF Actions!TypeOK
      <3>2. nextAction' \in [Payments -> (Entries \X Actions!Days) \cup {Actions!Nothing}]
        BY <1>0, <2>3, Zenon DEF Actions!TypeOK
      <3>3. fresh' \subseteq {x \in Clerks : place'[x] = "write"} /\ astray' \subseteq Payments
        BY <1>0, <2>0, <2>3 DEF Actions!TypeOK
      <3> QED
        BY <1>0, <2>3, <3>1, <3>2, <3>3, SMT DEF Actions!TypeOK
    <2>5. ListInv'
      <3> SUFFICES ASSUME NEW x \in Clerks
                   PROVE  /\ place'[x] = "reread" => tasks'[syncing'[x]].status # "missing"
                          /\ x \in fresh' => Shows(syncing[x], listed[x])'
        BY DEF ListInv
      <3>1. CASE x = c
        BY <1>0, <3>1, <2>3 DEF Actions!TypeOK
      <3>2. CASE x # c
        BY <1>0, <3>2, <2>0, <2>3 DEF ListInv, Shows, Actions!waiting
      <3> QED
        BY <3>1, <3>2
    <2>6. FollowInv'
      <3> SUFFICES ASSUME NEW e \in Payments, Actions!settled(e)', e \notin astray'
                   PROVE  Shows(e, nextAction[e])'
        BY DEF FollowInv
      <3>1. CASE e = d
        <4>1. c \in fresh /\ nextAction'[e] = n
          BY <1>0, <3>1, <2>3 DEF Actions!TypeOK
        <4>2. Shows(d, n)
          BY <1>0, <4>1, <2>1, <2>2 DEF ListInv
        <4>3. Shows(d, n)'
          BY <4>2, <2>3, SameTasksSameShow
        <4> QED
          BY <3>1, <4>1, <4>3 DEF Shows, Actions!waiting
      <3>2. CASE e # d
        <4>1. nextAction'[e] = nextAction[e] /\ e \notin astray
          BY <1>0, <3>2, <2>3 DEF Actions!TypeOK
        <4>2. Actions!settled(e)
          BY <3>2, <2>0, <2>1, <2>3 DEF Actions!settled
        <4> QED
          BY <1>0, <4>1, <4>2, <2>3 DEF FollowInv, Shows, Actions!waiting
      <3> QED
        BY <3>1, <3>2
    <2> QED
      BY <2>4, <2>5, <2>6 DEF ActionsInv
  <1>f. ASSUME NEW d \in Payments, Actions!editDeal(d)
        PROVE  ActionsInv'
    <2>1. PICK n \in {Actions!Nothing} \cup (Entries \X Actions!Days) :
            nextAction' = [nextAction EXCEPT ![d] = n]
      BY <1>f DEF Actions!editDeal
    <2>2. /\ changes < MaxChanges /\ changes' = changes + 1
          /\ astray' = astray \cup {d}
          /\ UNCHANGED <<tasks, syncing, listed, place, fresh>>
      BY <1>f DEF Actions!editDeal, Actions!change
    <2>3. Actions!TypeOK'
      <3>1. nextAction' \in [Payments -> (Entries \X Actions!Days) \cup {Actions!Nothing}]
        BY <1>0, <2>1, Zenon DEF Actions!TypeOK
      <3> QED
        BY <1>0, <2>2, <3>1, SMT DEF Actions!TypeOK
    <2>4. ListInv'
      BY <1>0, <2>2 DEF ListInv, Shows, Actions!waiting
    <2>5. FollowInv'
      <3> SUFFICES ASSUME NEW e \in Payments, Actions!settled(e)', e \notin astray'
                   PROVE  Shows(e, nextAction[e])'
        BY DEF FollowInv
      <3>1. nextAction'[e] = nextAction[e] /\ e \notin astray /\ Actions!settled(e)
        BY <1>0, <2>1, <2>2 DEF Actions!settled, Actions!TypeOK
      <3> QED
        BY <1>0, <3>1, <2>2 DEF FollowInv, Shows, Actions!waiting
    <2> QED
      BY <2>3, <2>4, <2>5 DEF ActionsInv
  <1>g. ASSUME NEW c \in Clerks, Actions!die(c)
        PROVE  ActionsInv'
    <2>1. PICK d : d = IF place[c] = "reread" THEN tasks[syncing[c]].deal ELSE syncing[c]
      OBVIOUS
    <2>2. /\ place' = [place EXCEPT ![c] = "idle"]
          /\ syncing' = [syncing EXCEPT ![c] = None]
          /\ listed' = [listed EXCEPT ![c] = Actions!Nothing]
          /\ astray' = astray \cup ({d} \ {None})
          /\ fresh' = fresh \ {c}
          /\ UNCHANGED <<tasks, nextAction, changes>>
      BY <1>g, <2>1 DEF Actions!die, Actions!leave, Actions!goTo
    <2>3. d \in Payments \cup {None}
      <3>1. place[c] = "reread" => tasks[syncing[c]].deal \in Payments \cup {None}
        BY <1>0, SyncingIsOf DEF Actions!TypeOK, Actions!Task
      <3> QED
        BY <1>0, <2>1, <3>1, SyncingIsOf
    <2>0. \A x \in Clerks \ {c} : syncing'[x] = syncing[x] /\ place'[x] = place[x] /\ listed'[x] = listed[x]
      BY <1>0, <2>2 DEF Actions!TypeOK
    <2>4. Actions!TypeOK'
      <3>1. listed' \in [Clerks -> (Entries \X Actions!Days) \cup {Actions!Nothing}]
        BY <1>0, <2>2, Zenon DEF Actions!TypeOK
      <3>3. fresh' \subseteq {x \in Clerks : place'[x] = "write"} /\ astray' \subseteq Payments
        BY <1>0, <2>0, <2>2, <2>3 DEF Actions!TypeOK
      <3> QED
        BY <1>0, <2>2, <3>1, <3>3, SMT DEF Actions!TypeOK
    <2>5. ListInv'
      <3> SUFFICES ASSUME NEW x \in Clerks
                   PROVE  /\ place'[x] = "reread" => tasks'[syncing'[x]].status # "missing"
                          /\ x \in fresh' => Shows(syncing[x], listed[x])'
        BY DEF ListInv
      <3>1. CASE x = c
        BY <1>0, <3>1, <2>2 DEF Actions!TypeOK
      <3>2. CASE x # c
        BY <1>0, <3>2, <2>0, <2>2 DEF ListInv, Shows, Actions!waiting
      <3> QED
        BY <3>1, <3>2
    <2>6. FollowInv'
      <3> SUFFICES ASSUME NEW e \in Payments, Actions!settled(e)', e \notin astray'
                   PROVE  Shows(e, nextAction[e])'
        BY DEF FollowInv
      <3>1. e # d /\ e \notin astray
        BY <2>2, NoneAssumption
      <3>2. IF place[c] = "reread" THEN tasks[syncing[c]].deal # e ELSE syncing[c] # e
        BY <2>1, <3>1
      <3>3. Actions!settled(e)
        BY <2>0, <2>2, <3>2 DEF Actions!settled
      <3> QED
        BY <1>0, <3>1, <3>3, <2>2 DEF FollowInv, Shows, Actions!waiting
    <2> QED
      BY <2>4, <2>5, <2>6 DEF ActionsInv
  <1> QED
    BY <1>a, <1>b, <1>c, <1>d, <1>e, <1>f, <1>g DEF Actions!Next

LEMMA ActionsStutter == ActionsInv /\ UNCHANGED Actions!vars => ActionsInv'
  BY DEF ActionsInv, Actions!vars, Actions!TypeOK, ListInv, FollowInv, Shows, Actions!settled, Actions!waiting

(* The invariant of next actions.                                          *)
THEOREM ActionsInvariant == Actions!Spec => []ActionsInv
  BY ActionsInit, ActionsStep, ActionsStutter, PTL DEF Actions!Spec

(* "The summary does not part from the nearest open task": a deal no       *)
(* request is working on and that is not astray shows its nearest open     *)
(* dated task (syncDealNextAction).                                        *)
THEOREM SummariesFollow == Actions!Spec => []Actions!SummaryFollowsTasks
  <1>1. ActionsInv => Actions!SummaryFollowsTasks
    BY DEF ActionsInv, FollowInv, Shows, Actions!SummaryFollowsTasks
  <1> QED
    BY ActionsInvariant, <1>1, PTL

(* Next actions are beside the receipts, the rows and the imports.         *)
LEMMA ActionsBeside == MCSpec => Actions!Spec
  <1>1. MCInit => Actions!Init
    BY DEF MCInit
  <1>2. [MCNext]_mcVars => [Actions!Next]_(Actions!vars)
    BY Zenon DEF MCNext, mcVars, actionVars, Actions!vars
  <1> QED
    BY <1>1, <1>2, PTL DEF MCSpec, Actions!Spec

(* The run's property: a deal shows its nearest open task.                 *)
THEOREM DealsShowTheirNextTask == MCSpec => []SummaryFollowsTasks
  BY ActionsBeside, SummariesFollow, PTL DEF SummaryFollowsTasks
-----------------------------------------------------------------------------
(***************************************************************************)
(* The import of leads, for any runs, accounts, companies and contacts.    *)
(* A run past the ban is alone at its company or the company is crowded,   *)
(* so that the contact it did not find is still not there when it adds     *)
(* one; and what it read of region and ban is still so, but for what was   *)
(* typed or lifted since.                                                  *)
(***************************************************************************)

(* A run knows its account until it ends, its company from the statement   *)
(* that finds it, and its contact while it adds a channel.                 *)
WithFirm == {"read", "fill", "ban", "contact", "newContact", "channel", "newChannel", "task", "draft"}
AfterBan == {"contact", "newContact", "channel", "newChannel", "task", "draft"}
AddsChannel == {"newContact", "channel", "newChannel"}

KnownInv == \A i \in Clerks :
              /\ doing[i] # "nothing" => account[i] \in Accounts
              /\ doing[i] \in WithFirm => firm[i] \in Payments
              /\ doing[i] \in {"channel", "newChannel"} =>
                   person[i] \in Entries /\ people[person[i]].firm = firm[i]

(* Before a company exists nobody types its region or bans it.             *)
UnbornInv == \A f \in Payments : ~firms[f].there => firms[f].region # "typed" /\ ~firms[f].banned

(* What was read stands but for what the history tells of.                 *)
SightInv == \A i \in Clerks :
              /\ doing[i] = "fill" /\ seen[i].region = "empty" /\ firms[firm[i]].region = "typed"
                   => firm[i] \in typedSince[i]
              /\ banSince[i] \subseteq {f \in Payments : firms[f].banned}
              /\ doing[i] \in AfterBan /\ firm[i] \in banSince[i] => seen[i].banned

(* An account is one company.                                              *)
OneFirmInv == \A f, g \in Payments :
                firms[f].externalId = firms[g].externalId /\ firms[f].externalId # None => f = g

(* Two runs past the ban are at two companies, or theirs is crowded; and a *)
(* run about to add a channel at a company that is not, is the first.      *)
CrowdInv == /\ \A i, j \in Clerks :
                 /\ i # j /\ doing[i] \in AfterBan /\ doing[j] \in AfterBan /\ firm[i] = firm[j]
                 => firm[i] \in crowded
            /\ \A i \in Clerks :
                 doing[i] \in AddsChannel /\ firm[i] \notin crowded => Leads!holders(i) = {}

(* A channel belongs to one contact of a company.                          *)
OneHolderInv ==
  \A p, q \in Entries :
     /\ p # q /\ people[p].firm = people[q].firm
     /\ people[p].channel = people[q].channel /\ people[p].channel # None
     => people[p].firm \in crowded

LeadsInv == /\ Leads!TypeOK /\ KnownInv /\ UnbornInv
            /\ SightInv /\ OneFirmInv /\ CrowdInv /\ OneHolderInv

-----------------------------------------------------------------------------
FirmRow == [there : BOOLEAN, externalId : Accounts \cup {None},
            domain : {Domain[a] : a \in Accounts} \cup {None},
            region : {"empty", "typed", "imported"}, banned : BOOLEAN]
PersonRow == [firm : Payments \cup {None}, banned : BOOLEAN,
              channel : {Channel[a] : a \in Accounts} \cup {None}]
SightRow == [externalId : Accounts \cup {None}, banned : BOOLEAN,
             region : {"empty", "typed", "imported"}]
Statements == {"nothing", "find", "create", "read", "fill", "ban", "contact",
               "newContact", "channel", "newChannel", "task", "draft"}

(* TypeOK with its sets of rows named.                                     *)
LeadsTyped == /\ firms \in [Payments -> FirmRow]
              /\ people \in [Entries -> PersonRow]
              /\ taskOf \in [Accounts -> BOOLEAN]
              /\ draftOf \in [Accounts -> {"none", "draft", "on_hold", "sent"}]
              /\ doing \in [Clerks -> Statements]
              /\ account \in [Clerks -> Accounts \cup {None}]
              /\ seen \in [Clerks -> SightRow]
              /\ firm \in [Clerks -> Payments \cup {None}]
              /\ person \in [Clerks -> Entries \cup {None}]
              /\ runs \in 0 .. MaxRuns /\ crowded \subseteq Payments
              /\ typedSince \in [Clerks -> SUBSET Payments]
              /\ banSince \in [Clerks -> SUBSET Payments]

LEMMA LeadsAreTyped == Leads!TypeOK <=> LeadsTyped
  BY Zenon DEF Leads!TypeOK, LeadsTyped, FirmRow, PersonRow, SightRow, Statements

(* Rows that are filled in.                                                *)
LEMMA NewFirmTyped ==
  ASSUME NEW a \in Accounts
  PROVE  [there |-> TRUE, externalId |-> a, domain |-> Domain[a], region |-> "imported", banned |-> FALSE]
           \in FirmRow
  BY DEF FirmRow

LEMMA LeadsInit == Leads!Init => LeadsInv
  <1> SUFFICES ASSUME Leads!Init PROVE LeadsInv
    OBVIOUS
  <1> USE NoneAssumption, CountsAssumption
  <1>1. PICK fs \in SUBSET Payments, d \in {Domain[a] : a \in Accounts}, known \in BOOLEAN :
          firms = [f \in Payments |-> IF f \notin fs THEN Leads!NoFirm
                     ELSE [Leads!NoFirm EXCEPT !.there = TRUE, !.domain = IF known THEN d ELSE None]]
    BY DEF Leads!Init
  <1>2. \A f \in Payments : firms[f] \in FirmRow /\ firms[f].externalId = None
                            /\ ~firms[f].banned /\ firms[f].region = "empty"
    BY <1>1 DEF Leads!NoFirm, FirmRow
  <1>3. LeadsTyped
    <2>1. firms \in [Payments -> FirmRow]
      BY <1>1, <1>2
    <2> QED
      BY <2>1 DEF Leads!Init, LeadsTyped, Leads!NoPerson, Leads!NoSight, PersonRow, SightRow, Statements
  <1>4. KnownInv /\ CrowdInv
    BY DEF Leads!Init, KnownInv, CrowdInv, WithFirm, AfterBan, AddsChannel
  <1>5. UnbornInv /\ OneFirmInv
    BY <1>2 DEF UnbornInv, OneFirmInv
  <1>6. SightInv
    BY DEF Leads!Init, SightInv, AfterBan
  <1>7. OneHolderInv
    BY DEF Leads!Init, OneHolderInv, Leads!NoPerson
  <1> QED
    BY <1>3, <1>4, <1>5, <1>6, <1>7, LeadsAreTyped DEF LeadsInv

LEMMA LeadsStep ==
  ASSUME LeadsInv, Leads!Next
  PROVE  LeadsInv'
  <1> USE NoneAssumption, CountsAssumption
  <1>0. LeadsTyped /\ KnownInv /\ UnbornInv /\ SightInv /\ OneFirmInv /\ CrowdInv /\ OneHolderInv
    BY LeadsAreTyped DEF LeadsInv
  <1>x. ASSUME LeadsTyped', KnownInv', UnbornInv', SightInv', OneFirmInv', CrowdInv', OneHolderInv'
        PROVE  LeadsInv'
    <2>1. Leads!TypeOK' <=> LeadsTyped'
      BY LeadsAreTyped, PTL
    <2> QED
      BY <1>x, <2>1 DEF LeadsInv
  <1>a. ASSUME NEW i \in Clerks, NEW a \in Accounts, Leads!begin(i, a)
        PROVE  LeadsInv'
    <2>1. /\ doing[i] = "nothing" /\ runs < MaxRuns /\ runs' = runs + 1
          /\ account' = [account EXCEPT ![i] = a]
          /\ banSince' = [banSince EXCEPT ![i] = {f \in Payments : firms[f].banned}]
          /\ UNCHANGED <<firms, people, taskOf, draftOf, seen, person, typedSince, crowded>>
      BY <1>a DEF Leads!begin, Leads!spend, Leads!rows
    <2>2. \/ doing' = [doing EXCEPT ![i] = "find"] /\ firm' = firm
          \/ /\ doing' = [doing EXCEPT ![i] = "read"]
             /\ \E f \in Payments : firm' = [firm EXCEPT ![i] = f]
      <3>1. Leads!matched(a) \subseteq Payments
        BY DEF Leads!matched, Leads!byExternal, Leads!byDomain
      <3> QED
        BY <1>a, <3>1 DEF Leads!begin, Leads!next
    <2>3. \A j \in Clerks \ {i} : /\ doing'[j] = doing[j] /\ account'[j] = account[j]
                                  /\ firm'[j] = firm[j] /\ banSince'[j] = banSince[j]
      BY <1>0, <2>1, <2>2 DEF LeadsTyped
    <2>4. /\ doing'[i] \in {"find", "read"} /\ account'[i] = a
          /\ doing'[i] = "read" => firm'[i] \in Payments
          /\ banSince'[i] = {f \in Payments : firms[f].banned}
      BY <1>0, <2>1, <2>2 DEF LeadsTyped
    <2>5. LeadsTyped'
      <3>1. banSince' \in [Clerks -> SUBSET Payments] /\ runs' \in 0 .. MaxRuns
        BY <1>0, <2>1 DEF LeadsTyped
      <3>2. doing' \in [Clerks -> Statements] /\ firm' \in [Clerks -> Payments \cup {None}]
        BY <1>0, <2>2 DEF LeadsTyped, Statements
      <3>3. account' \in [Clerks -> Accounts \cup {None}]
        BY <1>0, <2>1 DEF LeadsTyped
      <3> QED
        BY <1>0, <2>1, <3>1, <3>2, <3>3, Zenon DEF LeadsTyped
    <2>6. KnownInv'
      BY <1>0, <2>1, <2>3, <2>4 DEF KnownInv, WithFirm
    <2>7. UnbornInv' /\ OneFirmInv' /\ OneHolderInv'
      BY <1>0, <2>1 DEF UnbornInv, OneFirmInv, OneHolderInv
    <2>8. SightInv'
      BY <1>0, <2>1, <2>3, <2>4 DEF SightInv, AfterBan
    <2>9. CrowdInv'
      BY <1>0, <2>1, <2>3, <2>4 DEF CrowdInv, AfterBan, AddsChannel, Leads!holders
    <2> QED
      BY <1>x, <2>5, <2>6, <2>7, <2>8, <2>9
  <1>b. ASSUME NEW i \in Clerks, Leads!findFirm(i)
        PROVE  LeadsInv'
    <2>1. /\ doing[i] = "find"
          /\ UNCHANGED <<firms, people, taskOf, draftOf, account, seen, person, runs, typedSince, banSince, crowded>>
      BY <1>b DEF Leads!findFirm, Leads!rows, Leads!past
    <2>2. \/ doing' = [doing EXCEPT ![i] = "create"] /\ firm' = firm
          \/ /\ doing' = [doing EXCEPT ![i] = "ban"]
             /\ \E f \in Payments : firm' = [firm EXCEPT ![i] = f]
      <3>1. Leads!byExternal(account[i]) \subseteq Payments
        BY DEF Leads!byExternal
      <3> QED
        BY <1>b, <3>1 DEF Leads!findFirm, Leads!next
    <2>3. \A j \in Clerks \ {i} : doing'[j] = doing[j] /\ firm'[j] = firm[j]
      BY <1>0, <2>1, <2>2 DEF LeadsTyped
    <2>4. doing'[i] \in {"create", "ban"} /\ (doing'[i] = "ban" => firm'[i] \in Payments)
      BY <1>0, <2>1, <2>2 DEF LeadsTyped
    <2>5. LeadsTyped'
      <3>2. doing' \in [Clerks -> Statements] /\ firm' \in [Clerks -> Payments \cup {None}]
        BY <1>0, <2>2 DEF LeadsTyped, Statements
      <3> QED
        BY <1>0, <2>1, <3>2, Zenon DEF LeadsTyped
    <2>6. KnownInv'
      BY <1>0, <2>1, <2>3, <2>4 DEF KnownInv, WithFirm
    <2>7. UnbornInv' /\ OneFirmInv' /\ OneHolderInv'
      BY <1>0, <2>1 DEF UnbornInv, OneFirmInv, OneHolderInv
    <2>8. SightInv'
      BY <1>0, <2>1, <2>3, <2>4 DEF SightInv, AfterBan
    <2>9. CrowdInv'
      BY <1>0, <2>1, <2>3, <2>4 DEF CrowdInv, AfterBan, AddsChannel, Leads!holders
    <2> QED
      BY <1>x, <2>5, <2>6, <2>7, <2>8, <2>9
  <1>c. ASSUME NEW i \in Clerks, Leads!createFirm(i)
        PROVE  LeadsInv'
    <2>0. PICK a \in Accounts : a = account[i]
      BY <1>0, <1>c DEF Leads!createFirm, KnownInv
    <2>r. PICK row \in FirmRow : row = [there |-> TRUE, externalId |-> a, domain |-> Domain[a],
                                        region |-> "imported", banned |-> FALSE]
      BY NewFirmTyped
    <2>1. /\ doing[i] = "create" /\ Leads!byExternal(a) = {}
          /\ doing' = [doing EXCEPT ![i] = "ban"]
          /\ UNCHANGED <<people, taskOf, draftOf, account, seen, person, runs, typedSince, banSince, crowded>>
      BY <1>c, <2>0 DEF Leads!createFirm, Leads!next, Leads!past
    <2>2. PICK f \in Payments : /\ ~firms[f].there
                                /\ firms' = [firms EXCEPT ![f] = row]
                                /\ firm' = [firm EXCEPT ![i] = f]
      BY <1>c, <2>0, <2>r DEF Leads!createFirm
    <2>r2. row.there /\ row.externalId = a /\ row.region = "imported" /\ ~row.banned
      BY <2>r
    <2>3. \A j \in Clerks \ {i} : doing'[j] = doing[j] /\ firm'[j] = firm[j]
      BY <1>0, <2>1, <2>2 DEF LeadsTyped
    <2>4. doing'[i] = "ban" /\ firm'[i] = f
      BY <1>0, <2>1, <2>2 DEF LeadsTyped
    <2>f. \A g \in Payments : firms'[g] = IF g = f THEN row ELSE firms[g]
      BY <1>0, <2>2 DEF LeadsTyped
    <2>5. LeadsTyped'
      <3>1. firms' \in [Payments -> FirmRow]
        BY <1>0, <2>2, Zenon DEF LeadsTyped
      <3>2. doing' \in [Clerks -> Statements] /\ firm' \in [Clerks -> Payments \cup {None}]
        BY <1>0, <2>1, <2>2 DEF LeadsTyped, Statements
      <3> QED
        BY <1>0, <2>1, <3>1, <3>2, Zenon DEF LeadsTyped
    <2>6. KnownInv'
      BY <1>0, <2>1, <2>3, <2>4 DEF KnownInv, WithFirm
    <2>7. UnbornInv'
      BY <1>0, <2>f, <2>r2 DEF UnbornInv
    <2>8. OneFirmInv'
      <3>1. \A g \in Payments : firms[g].externalId # a
        BY <2>1 DEF Leads!byExternal
      <3> QED
        BY <1>0, <3>1, <2>f, <2>r2 DEF OneFirmInv
    <2>9. OneHolderInv'
      BY <1>0, <2>1 DEF OneHolderInv
    <2>10. SightInv'
      <3>1. ~firms[f].banned /\ \A j \in Clerks : f \notin banSince[j]
        BY <1>0, <2>2 DEF UnbornInv, SightInv
      <3> SUFFICES ASSUME NEW j \in Clerks
                   PROVE  /\ doing'[j] = "fill" /\ seen'[j].region = "empty" /\ firms'[firm'[j]].region = "typed"
                               => firm'[j] \in typedSince'[j]
                          /\ banSince'[j] \subseteq {g \in Payments : firms'[g].banned}
                          /\ doing'[j] \in AfterBan /\ firm'[j] \in banSince'[j] => seen'[j].banned
        BY DEF SightInv
      <3>2. banSince'[j] \subseteq {g \in Payments : firms'[g].banned}
        BY <1>0, <3>1, <2>1, <2>f DEF SightInv
      <3>3. CASE j = i
        BY <3>2, <3>3, <2>4 DEF AfterBan
      <3>4. CASE j # i
        <4>1. doing[j] = "fill" => firm[j] \in Payments
          BY <1>0 DEF KnownInv, WithFirm
        <4> QED
          BY <1>0, <3>2, <3>4, <4>1, <2>1, <2>3, <2>f, <2>r2 DEF SightInv
      <3> QED
        BY <3>3, <3>4
    <2>11. CrowdInv'
      BY <1>0, <2>1, <2>3, <2>4 DEF CrowdInv, AfterBan, AddsChannel, Leads!holders
    <2> QED
      BY <1>x, <2>5, <2>6, <2>7, <2>8, <2>9, <2>10, <2>11
  <1>d. ASSUME NEW i \in Clerks, Leads!readFirm(i)
        PROVE  LeadsInv'
    <2>0. PICK f \in Payments : f = firm[i]
      BY <1>0, <1>d DEF Leads!readFirm, KnownInv, WithFirm
    <2>1. /\ doing[i] = "read" /\ doing' = [doing EXCEPT ![i] = "fill"]
          /\ seen' = [seen EXCEPT ![i] = [@ EXCEPT !.externalId = firms[f].externalId, !.region = firms[f].region]]
          /\ UNCHANGED <<firms, people, taskOf, draftOf, account, firm, person, runs, typedSince, banSince, crowded>>
      BY <1>d, <2>0 DEF Leads!readFirm, Leads!next, Leads!rows, Leads!past
    <2>2. PICK sight \in SightRow : /\ seen' = [seen EXCEPT ![i] = sight]
                                    /\ sight.region = firms[f].region
      <3>1. firms[f] \in FirmRow /\ seen[i] \in SightRow
        BY <1>0 DEF LeadsTyped
      <3>2. [seen[i] EXCEPT !.externalId = firms[f].externalId, !.region = firms[f].region] \in SightRow
        BY <3>1 DEF FirmRow, SightRow
      <3>3. [seen[i] EXCEPT !.externalId = firms[f].externalId, !.region = firms[f].region].region = firms[f].region
        BY <3>1 DEF SightRow
      <3> QED
        BY <2>1, <3>2, <3>3
    <2>3. \A j \in Clerks \ {i} : doing'[j] = doing[j] /\ seen'[j] = seen[j]
      BY <1>0, <2>1, <2>2 DEF LeadsTyped
    <2>4. doing'[i] = "fill" /\ seen'[i] = sight
      BY <1>0, <2>1, <2>2 DEF LeadsTyped
    <2>5. LeadsTyped'
      <3>1. seen' \in [Clerks -> SightRow]
        BY <1>0, <2>2, Zenon DEF LeadsTyped
      <3>2. doing' \in [Clerks -> Statements]
        BY <1>0, <2>1 DEF LeadsTyped, Statements
      <3> QED
        BY <1>0, <2>1, <3>1, <3>2, Zenon DEF LeadsTyped
    <2>6. KnownInv'
      BY <1>0, <2>0, <2>1, <2>3, <2>4 DEF KnownInv, WithFirm
    <2>7. UnbornInv' /\ OneFirmInv' /\ OneHolderInv'
      BY <1>0, <2>1 DEF UnbornInv, OneFirmInv, OneHolderInv
    <2>8. SightInv'
      <3>1. UNCHANGED <<firms, firm, typedSince, banSince>>
        BY <2>1
      <3> QED
        BY <1>0, <2>0, <2>2, <2>3, <2>4, <3>1 DEF SightInv, AfterBan
    <2>9. CrowdInv'
      BY <1>0, <2>1, <2>3, <2>4 DEF CrowdInv, AfterBan, AddsChannel, Leads!holders
    <2> QED
      BY <1>x, <2>5, <2>6, <2>7, <2>8, <2>9
  <1>e. ASSUME NEW i \in Clerks, Leads!fillFirm(i)
        PROVE  LeadsInv'
    <2>0. PICK f \in Payments, a \in Accounts : f = firm[i] /\ a = account[i]
      BY <1>0, <1>e DEF Leads!fillFirm, KnownInv, WithFirm
    <2>z. PICK id, region : /\ id = IF Leads!takesId(i) THEN a ELSE firms[f].externalId
                            /\ region = IF Leads!isEmpty(i) THEN "imported" ELSE firms[f].region
      OBVIOUS
    <2>1. /\ doing[i] = "fill" /\ doing' = [doing EXCEPT ![i] = "ban"]
          /\ Leads!takesId(i) => Leads!byExternal(a) \subseteq {f}
          /\ firms' = [firms EXCEPT ![f] = [firms[f] EXCEPT !.externalId = id, !.region = region]]
          /\ UNCHANGED <<people, taskOf, draftOf, account, firm, seen, person, runs, typedSince, banSince, crowded>>
      BY <1>e, <2>0, <2>z DEF Leads!fillFirm, Leads!next, Leads!past
    <2>2. PICK row \in FirmRow : /\ firms' = [firms EXCEPT ![f] = row]
                                 /\ row.there = firms[f].there /\ row.banned = firms[f].banned
                                 /\ row.externalId = firms[f].externalId
                                    \/ (row.externalId = a /\ Leads!byExternal(a) \subseteq {f})
                                 /\ row.region \in {firms[f].region, "imported"}
      <3>1. firms[f] \in FirmRow
        BY <1>0 DEF LeadsTyped
      <3>2. PICK row : row = [firms[f] EXCEPT !.externalId = id, !.region = region]
        OBVIOUS
      <3>3. /\ row \in FirmRow
            /\ row.there = firms[f].there /\ row.banned = firms[f].banned
            /\ row.externalId = IF Leads!takesId(i) THEN a ELSE firms[f].externalId
            /\ row.region \in {firms[f].region, "imported"}
        BY <3>1, <3>2, <2>z DEF FirmRow
      <3>4. firms' = [firms EXCEPT ![f] = row]
        BY <2>1, <3>2
      <3>5. row.externalId = firms[f].externalId \/ (row.externalId = a /\ Leads!byExternal(a) \subseteq {f})
        BY <2>1, <3>3
      <3> QED
        BY <3>3, <3>4, <3>5
    <2>u. /\ doing[i] = "fill" /\ doing' = [doing EXCEPT ![i] = "ban"]
          /\ UNCHANGED <<people, taskOf, draftOf, account, firm, seen, person, runs, typedSince, banSince, crowded>>
      BY <2>1
    <2>3. \A j \in Clerks \ {i} : doing'[j] = doing[j]
      BY <1>0, <2>u DEF LeadsTyped
    <2>4. doing'[i] = "ban"
      BY <1>0, <2>u DEF LeadsTyped
    <2>f. \A g \in Payments : firms'[g] = IF g = f THEN row ELSE firms[g]
      BY <1>0, <2>2 DEF LeadsTyped
    <2>5. LeadsTyped'
      <3>1. firms' \in [Payments -> FirmRow]
        BY <1>0, <2>2, Zenon DEF LeadsTyped
      <3>2. doing' \in [Clerks -> Statements]
        BY <1>0, <2>u DEF LeadsTyped, Statements
      <3> QED
        BY <1>0, <2>u, <3>1, <3>2, Zenon DEF LeadsTyped
    <2>6. KnownInv'
      BY <1>0, <2>0, <2>u, <2>3, <2>4 DEF KnownInv, WithFirm
    <2>7. UnbornInv'
      BY <1>0, <2>2, <2>f DEF UnbornInv
    <2>8. OneFirmInv'
      <3>1. row.externalId = a /\ Leads!byExternal(a) \subseteq {f} =>
              \A g \in Payments \ {f} : firms[g].externalId # a
        BY DEF Leads!byExternal
      <3> QED
        BY <1>0, <2>2, <3>1, <2>f DEF OneFirmInv
    <2>9. OneHolderInv'
      BY <1>0, <2>u DEF OneHolderInv
    <2>10. SightInv'
      <3>1. \A g \in Payments : firms'[g].banned = firms[g].banned
                                /\ (firms'[g].region = "typed" => firms[g].region = "typed")
        BY <2>2, <2>f
      <3>2. \A j \in Clerks : doing[j] = "fill" => firm[j] \in Payments
        BY <1>0 DEF KnownInv, WithFirm
      <3>3. UNCHANGED <<firm, seen, typedSince, banSince>>
        BY <2>u
      <3> QED
        BY <1>0, <2>3, <2>4, <3>1, <3>2, <3>3 DEF SightInv, AfterBan
    <2>11. CrowdInv'
      BY <1>0, <2>u, <2>3, <2>4 DEF CrowdInv, AfterBan, AddsChannel, Leads!holders
    <2> QED
      BY <1>x, <2>5, <2>6, <2>7, <2>8, <2>9, <2>10, <2>11
  <1>f. ASSUME NEW i \in Clerks, Leads!readBan(i)
        PROVE  LeadsInv'
    <2>0. PICK f \in Payments : f = firm[i]
      BY <1>0, <1>f DEF Leads!readBan, KnownInv, WithFirm
    <2>1. /\ doing[i] = "ban"
          /\ seen' = [seen EXCEPT ![i].banned = firms[f].banned]
          /\ crowded' = IF \E j \in Clerks : j # i /\ firm[j] = f THEN crowded \cup {f} ELSE crowded
          /\ UNCHANGED <<firms, people, taskOf, draftOf, account, firm, person, runs, typedSince, banSince>>
      BY <1>f, <2>0 DEF Leads!readBan, Leads!rows
    <2>2. PICK what \in {"contact", "task"} : doing' = [doing EXCEPT ![i] = what]
      BY <1>f DEF Leads!readBan, Leads!next
    <2>s. PICK sight \in SightRow : seen' = [seen EXCEPT ![i] = sight] /\ sight.banned = firms[f].banned
      <3>1. firms[f] \in FirmRow /\ seen[i] \in SightRow
        BY <1>0 DEF LeadsTyped
      <3>2. [seen[i] EXCEPT !.banned = firms[f].banned] \in SightRow
        BY <3>1 DEF FirmRow, SightRow
      <3>3. [seen[i] EXCEPT !.banned = firms[f].banned].banned = firms[f].banned
        BY <3>1 DEF SightRow
      <3> QED
        BY <2>1, <3>2, <3>3
    <2>3. \A j \in Clerks \ {i} : doing'[j] = doing[j] /\ seen'[j] = seen[j]
      BY <1>0, <2>2, <2>s DEF LeadsTyped
    <2>4. doing'[i] = what /\ seen'[i] = sight
      BY <1>0, <2>2, <2>s DEF LeadsTyped
    <2>5. LeadsTyped'
      <3>1. seen' \in [Clerks -> SightRow]
        BY <1>0, <2>s, Zenon DEF LeadsTyped
      <3>2. doing' \in [Clerks -> Statements]
        BY <1>0, <2>2 DEF LeadsTyped, Statements
      <3>3. crowded' \subseteq Payments
        BY <1>0, <2>1 DEF LeadsTyped
      <3> QED
        BY <1>0, <2>1, <3>1, <3>2, <3>3, Zenon DEF LeadsTyped
    <2>6. KnownInv'
      BY <1>0, <2>0, <2>1, <2>3, <2>4 DEF KnownInv, WithFirm
    <2>7. UnbornInv' /\ OneFirmInv' /\ OneHolderInv'
      BY <1>0, <2>1 DEF UnbornInv, OneFirmInv, OneHolderInv
    <2>8. SightInv'
      <3>1. UNCHANGED <<firms, firm, typedSince, banSince>>
        BY <2>1
      <3>2. f \in banSince[i] => sight.banned
        BY <1>0, <2>s DEF SightInv
      <3> QED
        BY <1>0, <2>0, <2>2, <2>3, <2>4, <3>1, <3>2 DEF SightInv, AfterBan
    <2>9. CrowdInv'
      <3>1. UNCHANGED <<people, account, firm>> /\ crowded \subseteq crowded'
        BY <2>1
      <3>2. \A j \in Clerks : j # i /\ firm[j] = f => f \in crowded'
        BY <2>1
      <3>3. \A j \in Clerks : Leads!holders(j)' = Leads!holders(j)
        BY <3>1 DEF Leads!holders
      <3>4. \A j, k \in Clerks :
               /\ j # k /\ doing'[j] \in AfterBan /\ doing'[k] \in AfterBan /\ firm[j] = firm[k]
               => firm[j] \in crowded'
        BY <1>0, <2>0, <2>3, <3>1, <3>2 DEF CrowdInv
      <3>5. \A j \in Clerks : doing'[j] \in AddsChannel /\ firm[j] \notin crowded' => Leads!holders(j) = {}
        BY <1>0, <2>3, <2>4, <2>2, <3>1 DEF CrowdInv, AddsChannel
      <3> QED
        BY <3>1, <3>3, <3>4, <3>5 DEF CrowdInv
    <2> QED
      BY <1>x, <2>5, <2>6, <2>7, <2>8, <2>9
  <1>g. ASSUME NEW i \in Clerks, Leads!findContact(i)
        PROVE  LeadsInv'
    <2>1. /\ doing[i] = "contact"
          /\ UNCHANGED <<firms, people, taskOf, draftOf, account, firm, seen, runs, typedSince, banSince, crowded>>
      BY <1>g DEF Leads!findContact, Leads!rows, Leads!past
    <2>2. \/ Leads!holders(i) = {} /\ doing' = [doing EXCEPT ![i] = "newContact"] /\ person' = person
          \/ /\ doing' = [doing EXCEPT ![i] = "task"]
             /\ \E p \in Entries : person' = [person EXCEPT ![i] = p]
      <3>1. Leads!holders(i) \subseteq Entries
        BY DEF Leads!holders
      <3> QED
        BY <1>g, <3>1 DEF Leads!findContact, Leads!next
    <2>3. \A j \in Clerks \ {i} : doing'[j] = doing[j] /\ person'[j] = person[j]
      BY <1>0, <2>1, <2>2 DEF LeadsTyped
    <2>4. doing'[i] \in {"newContact", "task"} /\ (doing'[i] = "newContact" => Leads!holders(i) = {})
      BY <1>0, <2>1, <2>2 DEF LeadsTyped
    <2>5. LeadsTyped'
      <3>2. doing' \in [Clerks -> Statements] /\ person' \in [Clerks -> Entries \cup {None}]
        BY <1>0, <2>2 DEF LeadsTyped, Statements
      <3> QED
        BY <1>0, <2>1, <3>2, Zenon DEF LeadsTyped
    <2>6. KnownInv'
      BY <1>0, <2>1, <2>3, <2>4 DEF KnownInv, WithFirm
    <2>7. UnbornInv' /\ OneFirmInv' /\ OneHolderInv'
      BY <1>0, <2>1 DEF UnbornInv, OneFirmInv, OneHolderInv
    <2>8. SightInv'
      BY <1>0, <2>1, <2>3, <2>4 DEF SightInv, AfterBan
    <2>9. CrowdInv'
      BY <1>0, <2>1, <2>3, <2>4 DEF CrowdInv, AfterBan, AddsChannel, Leads!holders
    <2> QED
      BY <1>x, <2>5, <2>6, <2>7, <2>8, <2>9
  <1>h. ASSUME NEW i \in Clerks, Leads!createContact(i)
        PROVE  LeadsInv'
    <2>0. PICK f \in Payments, a \in Accounts : f = firm[i] /\ a = account[i]
      BY <1>0, <1>h DEF Leads!createContact, KnownInv, WithFirm
    <2>1. /\ doing[i] = "newContact"
          /\ UNCHANGED <<firms, taskOf, draftOf, account, firm, seen, runs, typedSince, banSince, crowded>>
      BY <1>h DEF Leads!createContact, Leads!past
    <2>2. PICK p \in Entries, row \in PersonRow :
             /\ people' = [people EXCEPT ![p] = row]
             /\ person' = [person EXCEPT ![i] = p]
             /\ people[p].firm = None /\ row.firm = f /\ row.channel = None
      <3>1. PICK p \in Entries :
               /\ people[p].firm = None
               /\ people' = [people EXCEPT ![p] = [firm |-> f, channel |-> None, banned |-> a \in Forbidden]]
               /\ person' = [person EXCEPT ![i] = p]
        BY <1>h, <2>0 DEF Leads!createContact
      <3>2. [firm |-> f, channel |-> None, banned |-> a \in Forbidden] \in PersonRow
        BY DEF PersonRow
      <3> QED
        BY <3>1, <3>2
    <2>w. PICK what \in {"task", "channel"} : doing' = [doing EXCEPT ![i] = what]
      BY <1>h DEF Leads!createContact, Leads!next
    <2>3. \A j \in Clerks \ {i} : doing'[j] = doing[j] /\ person'[j] = person[j]
      BY <1>0, <2>2, <2>w DEF LeadsTyped
    <2>4. doing'[i] = what /\ person'[i] = p
      BY <1>0, <2>2, <2>w DEF LeadsTyped
    <2>p. \A q \in Entries : people'[q] = IF q = p THEN row ELSE people[q]
      BY <1>0, <2>2 DEF LeadsTyped
    <2>5. LeadsTyped'
      <3>1. people' \in [Entries -> PersonRow]
        BY <1>0, <2>2, Zenon DEF LeadsTyped
      <3>2. doing' \in [Clerks -> Statements] /\ person' \in [Clerks -> Entries \cup {None}]
        BY <1>0, <2>2, <2>w DEF LeadsTyped, Statements
      <3> QED
        BY <1>0, <2>1, <3>1, <3>2, Zenon DEF LeadsTyped
    <2>6. KnownInv'
      <3> SUFFICES ASSUME NEW j \in Clerks
                   PROVE  /\ doing'[j] # "nothing" => account'[j] \in Accounts
                          /\ doing'[j] \in WithFirm => firm'[j] \in Payments
                          /\ doing'[j] \in {"channel", "newChannel"} =>
                               person'[j] \in Entries /\ people'[person'[j]].firm = firm'[j]
        BY DEF KnownInv
      <3>1. CASE j = i
        BY <3>1, <2>0, <2>1, <2>2, <2>4, <2>p DEF WithFirm
      <3>2. CASE j # i
        <4>1. doing[j] \in {"channel", "newChannel"} => person[j] # p
          BY <1>0, <2>2 DEF KnownInv, WithFirm
        <4> QED
          BY <1>0, <3>2, <4>1, <2>1, <2>3, <2>p DEF KnownInv
      <3> QED
        BY <3>1, <3>2
    <2>7. UnbornInv' /\ OneFirmInv'
      BY <1>0, <2>1 DEF UnbornInv, OneFirmInv
    <2>8. OneHolderInv'
      BY <1>0, <2>1, <2>2, <2>p DEF OneHolderInv
    <2>9. SightInv'
      BY <1>0, <2>1, <2>3, <2>4 DEF SightInv, AfterBan
    <2>10. CrowdInv'
      <3>1. \A j \in Clerks : Leads!holders(j)' \subseteq Leads!holders(j)
        BY <2>1, <2>2, <2>p DEF Leads!holders
      <3>2. \A j \in Clerks : /\ doing'[j] \in AfterBan => doing[j] \in AfterBan
                              /\ doing'[j] \in AddsChannel => doing[j] \in AddsChannel
        BY <2>1, <2>3, <2>4 DEF AfterBan, AddsChannel
      <3> QED
        BY <1>0, <2>1, <3>1, <3>2 DEF CrowdInv
    <2> QED
      BY <1>x, <2>5, <2>6, <2>7, <2>8, <2>9, <2>10
  <1>i. ASSUME NEW i \in Clerks, Leads!findChannel(i)
        PROVE  LeadsInv'
    <2>1. /\ doing[i] = "channel"
          /\ UNCHANGED <<firms, people, taskOf, draftOf, account, firm, seen, person, runs, typedSince, banSince, crowded>>
      BY <1>i DEF Leads!findChannel, Leads!rows, Leads!past
    <2>2. PICK what \in {"newChannel", "task"} : doing' = [doing EXCEPT ![i] = what]
      BY <1>i DEF Leads!findChannel, Leads!next
    <2>3. \A j \in Clerks \ {i} : doing'[j] = doing[j]
      BY <1>0, <2>2 DEF LeadsTyped
    <2>4. doing'[i] = what
      BY <1>0, <2>2 DEF LeadsTyped
    <2>5. LeadsTyped'
      <3>2. doing' \in [Clerks -> Statements]
        BY <1>0, <2>2 DEF LeadsTyped, Statements
      <3> QED
        BY <1>0, <2>1, <3>2, Zenon DEF LeadsTyped
    <2>6. KnownInv'
      BY <1>0, <2>1, <2>3, <2>4 DEF KnownInv, WithFirm
    <2>7. UnbornInv' /\ OneFirmInv' /\ OneHolderInv'
      BY <1>0, <2>1 DEF UnbornInv, OneFirmInv, OneHolderInv
    <2>8. SightInv'
      BY <1>0, <2>1, <2>3, <2>4 DEF SightInv, AfterBan
    <2>9. CrowdInv'
      BY <1>0, <2>1, <2>3, <2>4 DEF CrowdInv, AfterBan, AddsChannel, Leads!holders
    <2> QED
      BY <1>x, <2>5, <2>6, <2>7, <2>8, <2>9
  <1>j. ASSUME NEW i \in Clerks, Leads!createChannel(i)
        PROVE  LeadsInv'
    <2>0. PICK f \in Payments, a \in Accounts, p \in Entries :
            f = firm[i] /\ a = account[i] /\ p = person[i] /\ people[p].firm = f
      BY <1>0, <1>j DEF Leads!createChannel, KnownInv, WithFirm
    <2>1. /\ doing[i] = "newChannel" /\ doing' = [doing EXCEPT ![i] = "task"]
          /\ people' = [people EXCEPT ![p].channel = Channel[a]]
          /\ UNCHANGED <<firms, taskOf, draftOf, account, firm, seen, person, runs, typedSince, banSince, crowded>>
      BY <1>j, <2>0 DEF Leads!createChannel, Leads!next, Leads!past
    <2>2. PICK row \in PersonRow : /\ people' = [people EXCEPT ![p] = row]
                                   /\ row.firm = f /\ row.channel = Channel[a]
      <3>1. people[p] \in PersonRow
        BY <1>0 DEF LeadsTyped
      <3>2. PICK row : row = [people[p] EXCEPT !.channel = Channel[a]]
        OBVIOUS
      <3>3. row \in PersonRow /\ row.firm = f /\ row.channel = Channel[a]
        BY <3>1, <3>2, <2>0 DEF PersonRow
      <3> QED
        BY <2>1, <3>2, <3>3
    <2>3. \A j \in Clerks \ {i} : doing'[j] = doing[j]
      BY <1>0, <2>1 DEF LeadsTyped
    <2>4. doing'[i] = "task"
      BY <1>0, <2>1 DEF LeadsTyped
    <2>p. \A q \in Entries : people'[q] = IF q = p THEN row ELSE people[q]
      BY <1>0, <2>2 DEF LeadsTyped
    <2>5. LeadsTyped'
      <3>1. people' \in [Entries -> PersonRow]
        BY <1>0, <2>2, Zenon DEF LeadsTyped
      <3>2. doing' \in [Clerks -> Statements]
        BY <1>0, <2>1 DEF LeadsTyped, Statements
      <3> QED
        BY <1>0, <2>1, <3>1, <3>2, Zenon DEF LeadsTyped
    <2>6. KnownInv'
      <3>1. \A q \in Entries : people'[q].firm = people[q].firm
        BY <2>0, <2>2, <2>p
      <3> QED
        BY <1>0, <3>1, <2>1, <2>3, <2>4 DEF KnownInv, WithFirm
    <2>7. UnbornInv' /\ OneFirmInv'
      BY <1>0, <2>1 DEF UnbornInv, OneFirmInv
    <2>8. OneHolderInv'
      <3>1. f \notin crowded /\ Channel[a] # None =>
              \A q \in Entries : ~(people[q].firm = f /\ people[q].channel = Channel[a])
        BY <1>0, <2>0, <2>1 DEF CrowdInv, AddsChannel, Leads!holders
      <3>2. UNCHANGED crowded
        BY <2>1
      <3> QED
        BY <1>0, <3>1, <3>2, <2>2, <2>p DEF OneHolderInv
    <2>9. SightInv'
      BY <1>0, <2>1, <2>3, <2>4 DEF SightInv, AfterBan
    <2>10. CrowdInv'
      <3>1. \A j, k \in Clerks :
               /\ j # k /\ doing'[j] \in AfterBan /\ doing'[k] \in AfterBan /\ firm'[j] = firm'[k]
               => firm'[j] \in crowded'
        BY <1>0, <2>1, <2>3, <2>4 DEF CrowdInv, AfterBan
      <3>2. ASSUME NEW j \in Clerks, doing'[j] \in AddsChannel, firm[j] \notin crowded
            PROVE  Leads!holders(j)' = {}
        <4>1. j # i /\ doing[j] \in AddsChannel
          BY <3>2, <2>3, <2>4 DEF AddsChannel
        <4>2. firm[j] # f
          BY <1>0, <3>2, <4>1, <2>0, <2>1 DEF CrowdInv, AfterBan, AddsChannel
        <4>3. Leads!holders(j)' = Leads!holders(j)
          BY <4>2, <2>0, <2>1, <2>2, <2>p DEF Leads!holders
        <4> QED
          BY <1>0, <3>2, <4>1, <4>3 DEF CrowdInv
      <3> QED
        BY <3>1, <3>2, <2>1 DEF CrowdInv
    <2> QED
      BY <1>x, <2>5, <2>6, <2>7, <2>8, <2>9, <2>10
  <1>k. ASSUME NEW i \in Clerks, Leads!createTask(i)
        PROVE  LeadsInv'
    <2>1. /\ doing[i] = "task" /\ doing' = [doing EXCEPT ![i] = "draft"]
          /\ UNCHANGED <<firms, people, draftOf, account, firm, seen, person, runs, typedSince, banSince, crowded>>
      BY <1>k DEF Leads!createTask, Leads!next, Leads!past
    <2>2. taskOf' \in [Accounts -> BOOLEAN]
      <3>1. PICK includeTask \in BOOLEAN :
              taskOf' = [taskOf EXCEPT ![account[i]] = @ \/ (includeTask /\ ~seen[i].banned)]
        BY <1>k DEF Leads!createTask
      <3>2. PICK b \in BOOLEAN : b = (taskOf[account[i]] \/ (includeTask /\ ~seen[i].banned))
        OBVIOUS
      <3>3. taskOf' = [taskOf EXCEPT ![account[i]] = b]
        BY <3>1, <3>2
      <3> QED
        BY <1>0, <3>3, Zenon DEF LeadsTyped
    <2>3. \A j \in Clerks \ {i} : doing'[j] = doing[j]
      BY <1>0, <2>1 DEF LeadsTyped
    <2>4. doing'[i] = "draft"
      BY <1>0, <2>1 DEF LeadsTyped
    <2>5. LeadsTyped'
      <3>2. doing' \in [Clerks -> Statements]
        BY <1>0, <2>1 DEF LeadsTyped, Statements
      <3> QED
        BY <1>0, <2>1, <2>2, <3>2, Zenon DEF LeadsTyped
    <2>6. KnownInv'
      BY <1>0, <2>1, <2>3, <2>4 DEF KnownInv, WithFirm
    <2>7. UnbornInv' /\ OneFirmInv' /\ OneHolderInv'
      BY <1>0, <2>1 DEF UnbornInv, OneFirmInv, OneHolderInv
    <2>8. SightInv'
      BY <1>0, <2>1, <2>3, <2>4 DEF SightInv, AfterBan
    <2>9. CrowdInv'
      BY <1>0, <2>1, <2>3, <2>4 DEF CrowdInv, AfterBan, AddsChannel, Leads!holders
    <2> QED
      BY <1>x, <2>5, <2>6, <2>7, <2>8, <2>9
  <1>l. ASSUME NEW i \in Clerks, Leads!createDraft(i) \/ Leads!fail(i)
        PROVE  LeadsInv'
    <2>1. /\ doing[i] # "nothing" /\ doing' = [doing EXCEPT ![i] = "nothing"]
          /\ account' = [account EXCEPT ![i] = None]
          /\ firm' = [firm EXCEPT ![i] = None]
          /\ seen' = [seen EXCEPT ![i] = Leads!NoSight]
          /\ person' = [person EXCEPT ![i] = None]
          /\ typedSince' = [typedSince EXCEPT ![i] = {}]
          /\ banSince' = [banSince EXCEPT ![i] = {}]
          /\ UNCHANGED <<firms, people, taskOf, runs, crowded>>
      BY <1>l DEF Leads!createDraft, Leads!fail, Leads!end, Leads!next, Leads!rows
    <2>2. draftOf' \in [Accounts -> {"none", "draft", "on_hold", "sent"}]
      <3>1. CASE Leads!fail(i)
        BY <1>0, <3>1 DEF Leads!fail, Leads!rows, LeadsTyped
      <3>2. CASE Leads!createDraft(i)
        <4>1. PICK s \in {"none", "draft", "on_hold", "sent"} :
                draftOf' = [draftOf EXCEPT ![account[i]] = IF @ = "none" THEN Leads!held(i, s) ELSE @]
          BY <3>2 DEF Leads!createDraft
        <4>2. Leads!held(i, s) \in {"none", "draft", "on_hold", "sent"}
          BY DEF Leads!held
        <4> QED
          BY <1>0, <4>1, <4>2 DEF LeadsTyped
      <3> QED
        BY <1>l, <3>1, <3>2
    <2>3. \A j \in Clerks \ {i} : /\ doing'[j] = doing[j] /\ account'[j] = account[j] /\ firm'[j] = firm[j]
                                  /\ seen'[j] = seen[j] /\ person'[j] = person[j]
                                  /\ typedSince'[j] = typedSince[j] /\ banSince'[j] = banSince[j]
      BY <1>0, <2>1 DEF LeadsTyped
    <2>4. doing'[i] = "nothing" /\ banSince'[i] = {}
      BY <1>0, <2>1 DEF LeadsTyped
    <2>5. LeadsTyped'
      <3>1. doing' \in [Clerks -> Statements] /\ account' \in [Clerks -> Accounts \cup {None}]
        BY <1>0, <2>1 DEF LeadsTyped, Statements
      <3>2. firm' \in [Clerks -> Payments \cup {None}] /\ person' \in [Clerks -> Entries \cup {None}]
        BY <1>0, <2>1 DEF LeadsTyped
      <3>3. seen' \in [Clerks -> SightRow]
        <4>1. Leads!NoSight \in SightRow
          BY DEF Leads!NoSight, SightRow
        <4> QED
          BY <1>0, <2>1, <4>1, Zenon DEF LeadsTyped
      <3>4. typedSince' \in [Clerks -> SUBSET Payments] /\ banSince' \in [Clerks -> SUBSET Payments]
        BY <1>0, <2>1 DEF LeadsTyped
      <3> QED
        BY <1>0, <2>1, <2>2, <3>1, <3>2, <3>3, <3>4, Zenon DEF LeadsTyped
    <2>6. KnownInv'
      BY <1>0, <2>1, <2>3, <2>4 DEF KnownInv, WithFirm
    <2>7. UnbornInv' /\ OneFirmInv' /\ OneHolderInv'
      BY <1>0, <2>1 DEF UnbornInv, OneFirmInv, OneHolderInv
    <2>8. SightInv'
      BY <1>0, <2>1, <2>3, <2>4 DEF SightInv, AfterBan
    <2>9. CrowdInv'
      BY <1>0, <2>1, <2>3, <2>4 DEF CrowdInv, AfterBan, AddsChannel, Leads!holders
    <2> QED
      BY <1>x, <2>5, <2>6, <2>7, <2>8, <2>9
  <1>m. ASSUME NEW f \in Payments, Leads!typeRegion(f)
        PROVE  LeadsInv'
    <2>1. /\ firms[f].there /\ firms' = [firms EXCEPT ![f].region = "typed"]
          /\ runs < MaxRuns /\ runs' = runs + 1
          /\ typedSince' = [i \in Clerks |-> IF doing[i] = "fill" THEN typedSince[i] \cup {f} ELSE typedSince[i]]
          /\ UNCHANGED <<people, taskOf, draftOf, doing, account, firm, seen, person, banSince, crowded>>
      BY <1>m DEF Leads!typeRegion, Leads!spend, Leads!local
    <2>2. PICK row \in FirmRow : /\ firms' = [firms EXCEPT ![f] = row]
                                 /\ row.there = firms[f].there /\ row.banned = firms[f].banned
                                 /\ row.externalId = firms[f].externalId
      <3>1. firms[f] \in FirmRow
        BY <1>0 DEF LeadsTyped
      <3>2. PICK row : row = [firms[f] EXCEPT !.region = "typed"]
        OBVIOUS
      <3>3. /\ row \in FirmRow /\ row.there = firms[f].there /\ row.banned = firms[f].banned
            /\ row.externalId = firms[f].externalId
        BY <3>1, <3>2 DEF FirmRow
      <3> QED
        BY <2>1, <3>2, <3>3
    <2>f. \A g \in Payments : firms'[g] = IF g = f THEN row ELSE firms[g]
      BY <1>0, <2>2 DEF LeadsTyped
    <2>5. LeadsTyped'
      <3>1. firms' \in [Payments -> FirmRow]
        BY <1>0, <2>2, Zenon DEF LeadsTyped
      <3>2. typedSince' \in [Clerks -> SUBSET Payments] /\ runs' \in 0 .. MaxRuns
        BY <1>0, <2>1 DEF LeadsTyped
      <3> QED
        BY <1>0, <2>1, <3>1, <3>2, Zenon DEF LeadsTyped
    <2>6. KnownInv' /\ OneHolderInv'
      BY <1>0, <2>1 DEF KnownInv, OneHolderInv
    <2>7. UnbornInv' /\ OneFirmInv'
      BY <1>0, <2>1, <2>2, <2>f DEF UnbornInv, OneFirmInv
    <2>8. SightInv'
      <3>1. \A g \in Payments : firms'[g].banned = firms[g].banned
                                /\ (g # f => firms'[g].region = firms[g].region)
        BY <2>2, <2>f
      <3>2. \A j \in Clerks : doing[j] = "fill" => firm[j] \in Payments
        BY <1>0 DEF KnownInv, WithFirm
      <3>3. UNCHANGED <<doing, firm, seen, banSince>>
        BY <2>1
      <3>4. \A j \in Clerks : typedSince[j] \subseteq typedSince'[j] /\ (doing[j] = "fill" => f \in typedSince'[j])
        BY <1>0, <2>1 DEF LeadsTyped
      <3> QED
        BY <1>0, <3>1, <3>2, <3>3, <3>4 DEF SightInv
    <2>9. CrowdInv'
      BY <1>0, <2>1 DEF CrowdInv, Leads!holders
    <2> QED
      BY <1>x, <2>5, <2>6, <2>7, <2>8, <2>9
  <1>n. ASSUME NEW f \in Payments, Leads!setDnc(f) \/ Leads!liftDnc(f)
        PROVE  LeadsInv'
    <2>1. /\ runs < MaxRuns /\ runs' = runs + 1
          /\ UNCHANGED <<people, taskOf, draftOf, doing, account, firm, seen, person, typedSince, crowded>>
      BY <1>n DEF Leads!setDnc, Leads!liftDnc, Leads!spend, Leads!local, Leads!past
    <2>b. PICK ban \in BOOLEAN : /\ firms' = [firms EXCEPT ![f].banned = ban]
                                 /\ ban => firms[f].there
                                 /\ banSince' = IF ban THEN banSince ELSE [i \in Clerks |-> banSince[i] \ {f}]
      BY <1>n DEF Leads!setDnc, Leads!liftDnc, Leads!past
    <2>2. PICK row \in FirmRow : /\ firms' = [firms EXCEPT ![f] = row]
                                 /\ row.there = firms[f].there /\ row.banned = ban
                                 /\ row.externalId = firms[f].externalId /\ row.region = firms[f].region
      <3>1. firms[f] \in FirmRow
        BY <1>0 DEF LeadsTyped
      <3>2. PICK row : row = [firms[f] EXCEPT !.banned = ban]
        OBVIOUS
      <3>3. /\ row \in FirmRow /\ row.there = firms[f].there /\ row.banned = ban
            /\ row.externalId = firms[f].externalId /\ row.region = firms[f].region
        BY <3>1, <3>2 DEF FirmRow
      <3> QED
        BY <2>b, <3>2, <3>3
    <2>f. \A g \in Payments : firms'[g] = IF g = f THEN row ELSE firms[g]
      BY <1>0, <2>2 DEF LeadsTyped
    <2>s. \A j \in Clerks : banSince'[j] = IF ban THEN banSince[j] ELSE banSince[j] \ {f}
      BY <2>b
    <2>5. LeadsTyped'
      <3>1. firms' \in [Payments -> FirmRow]
        BY <1>0, <2>2, Zenon DEF LeadsTyped
      <3>2. banSince' \in [Clerks -> SUBSET Payments] /\ runs' \in 0 .. MaxRuns
        BY <1>0, <2>1, <2>b DEF LeadsTyped
      <3> QED
        BY <1>0, <2>1, <3>1, <3>2, Zenon DEF LeadsTyped
    <2>6. KnownInv' /\ OneHolderInv'
      BY <1>0, <2>1 DEF KnownInv, OneHolderInv
    <2>7. UnbornInv' /\ OneFirmInv'
      BY <1>0, <2>b, <2>2, <2>f DEF UnbornInv, OneFirmInv
    <2>8. SightInv'
      <3>1. \A g \in Payments : firms'[g].region = firms[g].region
                                /\ (g # f => firms'[g].banned = firms[g].banned)
                                /\ (ban => firms'[f].banned)
        BY <2>2, <2>f
      <3>2. \A j \in Clerks : doing[j] = "fill" => firm[j] \in Payments
        BY <1>0 DEF KnownInv, WithFirm
      <3>3. UNCHANGED <<doing, firm, seen, typedSince>>
        BY <2>1
      <3>4. \A j \in Clerks : banSince'[j] \subseteq banSince[j]
        BY <2>s
      <3>5. \A j \in Clerks : banSince'[j] \subseteq {g \in Payments : firms'[g].banned}
        <4>1. \A j \in Clerks : banSince[j] \subseteq {g \in Payments : firms[g].banned}
          BY <1>0 DEF SightInv
        <4>2. CASE ban
          BY <4>1, <4>2, <2>s, <3>1
        <4>3. CASE ~ban
          BY <4>1, <4>3, <2>s, <3>1
        <4> QED
          BY <4>2, <4>3
      <3> QED
        BY <1>0, <3>1, <3>2, <3>3, <3>4, <3>5 DEF SightInv
    <2>9. CrowdInv'
      BY <1>0, <2>1 DEF CrowdInv, Leads!holders
    <2> QED
      BY <1>x, <2>5, <2>6, <2>7, <2>8, <2>9
  <1> QED
    BY <1>a, <1>b, <1>c, <1>d, <1>e, <1>f, <1>g, <1>h, <1>i, <1>j, <1>k, <1>l, <1>m, <1>n DEF Leads!Next

LEMMA LeadsStutter == LeadsInv /\ UNCHANGED Leads!vars => LeadsInv'
  <1> SUFFICES ASSUME LeadsInv, UNCHANGED Leads!vars PROVE LeadsInv'
    OBVIOUS
  <1>1. UNCHANGED <<firms, people, taskOf, draftOf, doing, account, firm, seen, person, runs,
                    typedSince, banSince, crowded>>
    BY DEF Leads!vars, Leads!rows, Leads!local, Leads!past
  <1>2. LeadsTyped => LeadsTyped'
    BY <1>1 DEF LeadsTyped
  <1>3. Leads!TypeOK' <=> LeadsTyped'
    BY LeadsAreTyped, PTL
  <1>4. KnownInv' /\ UnbornInv' /\ SightInv' /\ OneFirmInv' /\ CrowdInv' /\ OneHolderInv'
    BY <1>1 DEF LeadsInv, KnownInv, UnbornInv, SightInv, OneFirmInv, CrowdInv, OneHolderInv, Leads!holders
  <1> QED
    BY <1>2, <1>3, <1>4, LeadsAreTyped DEF LeadsInv

(* The invariant of the import.                                            *)
THEOREM LeadsInvariant == Leads!Spec => []LeadsInv
  BY LeadsInit, LeadsStep, LeadsStutter, PTL DEF Leads!Spec

(* The instance counts as everyone does.                                   *)
LEMMA SameCardinality == \A S : Leads!Cardinality(S) = Cardinality(S)
  BY Zenon DEF Leads!Cardinality, Cardinality

(* An account becomes one company, and a channel belongs to one contact of *)
(* a company, however often and in whatever pieces a file is applied, but  *)
(* where two runs brought contacts to the company at once (applyImport).   *)
THEOREM ImportsDoubleNothing == Leads!Spec => []Leads!NothingIsDoubled
  <1>1. LeadsInv => Leads!NothingIsDoubled
    <2> SUFFICES ASSUME LeadsInv PROVE Leads!NothingIsDoubled
      OBVIOUS
    <2>1. ASSUME NEW a \in Accounts PROVE Leads!Cardinality(Leads!byExternal(a)) <= 1
      <3>1. a # None
        BY NoneAssumption
      <3>2. Leads!byExternal(a) = {} \/ \E f : Leads!byExternal(a) = {f}
        BY <3>1 DEF LeadsInv, OneFirmInv, Leads!byExternal
      <3>3. Cardinality(Leads!byExternal(a)) \in {0, 1}
        BY <3>2, FS_EmptySet, FS_Singleton
      <3>4. PICK S : S = Leads!byExternal(a)
        OBVIOUS
      <3>5. Leads!Cardinality(S) = Cardinality(S)
        BY SameCardinality
      <3> QED
        BY <3>3, <3>4, <3>5
    <2> QED
      BY <2>1 DEF LeadsInv, OneHolderInv, Leads!NothingIsDoubled
  <1> QED
    BY LeadsInvariant, <1>1, PTL

(* What a step of an import leaves alone, step by step.                    *)
LEMMA DistanceIsKept ==
  ASSUME LeadsInv, Leads!Next
  PROVE  /\ \A f \in Payments : firms[f].region = "typed" /\ firms'[f].region # "typed"
              => \E i \in Clerks : doing[i] = "fill" /\ firm[i] = f /\ f \in typedSince[i]
         /\ \A i \in Clerks : firm[i] \in banSince[i] =>
              /\ doing[i] = "task" => taskOf' = taskOf \/ doing'[i] = doing[i]
              /\ doing[i] = "draft" /\ doing'[i] = "nothing" =>
                   \A a \in Accounts : draftOf'[a] = "draft" => draftOf[a] = "draft"
  <1> DEFINE Typed == \A f \in Payments : firms[f].region = "typed" /\ firms'[f].region # "typed"
                        => \E i \in Clerks : doing[i] = "fill" /\ firm[i] = f /\ f \in typedSince[i]
             Banned == \A i \in Clerks : firm[i] \in banSince[i] =>
                         /\ doing[i] = "task" => taskOf' = taskOf \/ doing'[i] = doing[i]
                         /\ doing[i] = "draft" /\ doing'[i] = "nothing" =>
                              \A a \in Accounts : draftOf'[a] = "draft" => draftOf[a] = "draft"
  <1>0. LeadsTyped /\ KnownInv /\ UnbornInv /\ SightInv
    BY LeadsAreTyped DEF LeadsInv
  <1>1. firms' = firms => Typed
    OBVIOUS
  <1>2. taskOf' = taskOf /\ draftOf' = draftOf => Banned
    OBVIOUS
  <1> HIDE DEF Typed, Banned
  <1>a. ASSUME NEW i \in Clerks,
               \/ \E a \in Accounts : Leads!begin(i, a)
               \/ Leads!findFirm(i) \/ Leads!readFirm(i) \/ Leads!readBan(i)
               \/ Leads!findContact(i) \/ Leads!findChannel(i) \/ Leads!fail(i)
        PROVE  Typed /\ Banned
    <2>1. UNCHANGED <<firms, taskOf, draftOf>>
      BY <1>a DEF Leads!begin, Leads!findFirm, Leads!readFirm, Leads!readBan, Leads!findContact,
                  Leads!findChannel, Leads!fail, Leads!rows
    <2> QED
      BY <1>1, <1>2, <2>1
  <1>b. ASSUME NEW i \in Clerks, Leads!createContact(i) \/ Leads!createChannel(i)
        PROVE  Typed /\ Banned
    <2>1. UNCHANGED <<firms, taskOf, draftOf>>
      BY <1>b DEF Leads!createContact, Leads!createChannel
    <2> QED
      BY <1>1, <1>2, <2>1
  <1>c. ASSUME NEW i \in Clerks, Leads!createFirm(i)
        PROVE  Typed /\ Banned
    <2>1. UNCHANGED <<taskOf, draftOf>>
      BY <1>c DEF Leads!createFirm
    <2>2. PICK f \in Payments : ~firms[f].there /\ \E row : firms' = [firms EXCEPT ![f] = row]
      BY <1>c DEF Leads!createFirm
    <2>3. \A g \in Payments : firms[g].region = "typed" => firms'[g] = firms[g]
      BY <1>0, <2>2 DEF UnbornInv, LeadsTyped
    <2> QED
      BY <1>2, <2>1, <2>3 DEF Typed
  <1>d. ASSUME NEW i \in Clerks, Leads!fillFirm(i)
        PROVE  Typed /\ Banned
    <2>0. PICK f \in Payments : f = firm[i]
      BY <1>0, <1>d DEF Leads!fillFirm, KnownInv, WithFirm
    <2>z. PICK id, region : /\ id = IF Leads!takesId(i) THEN account[i] ELSE firms[f].externalId
                            /\ region = IF Leads!isEmpty(i) THEN "imported" ELSE firms[f].region
      OBVIOUS
    <2>1. /\ doing[i] = "fill" /\ UNCHANGED <<taskOf, draftOf>>
          /\ firms' = [firms EXCEPT ![f].externalId = id, ![f].region = region]
      BY <1>d, <2>0, <2>z DEF Leads!fillFirm, Leads!next
    <2>2. \A g \in Payments \ {f} : firms'[g] = firms[g]
      BY <1>0, <2>1 DEF LeadsTyped
    <2>3. firms'[f].region = region
      <3>1. firms[f] \in FirmRow
        BY <1>0 DEF LeadsTyped
      <3>2. firms'[f] = [firms[f] EXCEPT !.externalId = id, !.region = region]
        BY <1>0, <2>1 DEF LeadsTyped
      <3> QED
        BY <3>1, <3>2 DEF FirmRow
    <2>4. firms[f].region = "typed" /\ firms'[f].region # "typed" => f \in typedSince[i]
      BY <1>0, <2>0, <2>1, <2>z, <2>3 DEF SightInv, Leads!isEmpty
    <2> QED
      BY <1>2, <2>0, <2>1, <2>2, <2>4 DEF Typed
  <1>e. ASSUME NEW i \in Clerks, Leads!createTask(i)
        PROVE  Typed /\ Banned
    <2>1. /\ doing[i] = "task" /\ doing' = [doing EXCEPT ![i] = "draft"]
          /\ UNCHANGED <<firms, draftOf>>
      BY <1>e DEF Leads!createTask, Leads!next
    <2>2. PICK includeTask \in BOOLEAN :
            taskOf' = [taskOf EXCEPT ![account[i]] = @ \/ (includeTask /\ ~seen[i].banned)]
      BY <1>e DEF Leads!createTask
    <2>3. firm[i] \in banSince[i] => taskOf' = taskOf
      <3>1. firm[i] \in banSince[i] => seen[i].banned
        BY <1>0, <2>1 DEF SightInv, AfterBan
      <3>2. PICK b : b = (taskOf[account[i]] \/ (includeTask /\ ~seen[i].banned))
        OBVIOUS
      <3>3. taskOf[account[i]] \in BOOLEAN /\ account[i] \in Accounts
        BY <1>0, <2>1 DEF LeadsTyped, KnownInv
      <3>4. seen[i].banned => b = taskOf[account[i]]
        BY <3>2, <3>3
      <3>5. taskOf' = [taskOf EXCEPT ![account[i]] = b]
        BY <2>2, <3>2
      <3> QED
        BY <1>0, <3>1, <3>4, <3>5 DEF LeadsTyped
    <2>4. \A j \in Clerks \ {i} : doing'[j] = doing[j]
      BY <1>0, <2>1 DEF LeadsTyped
    <2> QED
      BY <1>1, <2>1, <2>3, <2>4 DEF Banned
  <1>f. ASSUME NEW i \in Clerks, Leads!createDraft(i)
        PROVE  Typed /\ Banned
    <2>1. /\ doing[i] = "draft" /\ doing' = [doing EXCEPT ![i] = "nothing"]
          /\ UNCHANGED <<firms, taskOf>>
      BY <1>f DEF Leads!createDraft, Leads!end, Leads!next
    <2>2. PICK s \in {"none", "draft", "on_hold", "sent"} :
            draftOf' = [draftOf EXCEPT ![account[i]] = IF @ = "none" THEN Leads!held(i, s) ELSE @]
      BY <1>f DEF Leads!createDraft
    <2>3. firm[i] \in banSince[i] => Leads!held(i, s) # "draft"
      BY <1>0, <2>1 DEF SightInv, AfterBan, Leads!held
    <2>4. firm[i] \in banSince[i] => \A a \in Accounts : draftOf'[a] = "draft" => draftOf[a] = "draft"
      BY <1>0, <2>2, <2>3 DEF LeadsTyped
    <2>5. \A j \in Clerks \ {i} : doing'[j] = doing[j]
      BY <1>0, <2>1 DEF LeadsTyped
    <2> QED
      BY <1>1, <2>1, <2>4, <2>5 DEF Banned
  <1>g. ASSUME NEW f \in Payments, Leads!typeRegion(f) \/ Leads!setDnc(f) \/ Leads!liftDnc(f)
        PROVE  Typed /\ Banned
    <2>1. UNCHANGED <<taskOf, draftOf>>
      BY <1>g DEF Leads!typeRegion, Leads!setDnc, Leads!liftDnc
    <2>2. \/ firms' = [firms EXCEPT ![f].region = "typed"]
          \/ \E ban \in BOOLEAN : firms' = [firms EXCEPT ![f].banned = ban]
      BY <1>g DEF Leads!typeRegion, Leads!setDnc, Leads!liftDnc
    <2>3. \A g \in Payments : firms[g].region = "typed" => firms'[g].region = "typed"
      <3>1. \A g \in Payments : firms[g] \in FirmRow
        BY <1>0 DEF LeadsTyped
      <3>2. DOMAIN firms = Payments
        BY <1>0 DEF LeadsTyped
      <3>3. CASE firms' = [firms EXCEPT ![f].region = "typed"]
        BY <3>1, <3>2, <3>3 DEF FirmRow
      <3>4. ASSUME NEW ban \in BOOLEAN, firms' = [firms EXCEPT ![f].banned = ban]
            PROVE  \A g \in Payments : firms[g].region = "typed" => firms'[g].region = "typed"
        BY <3>1, <3>2, <3>4 DEF FirmRow
      <3> QED
        BY <2>2, <3>3, <3>4
    <2> QED
      BY <1>2, <2>1, <2>3 DEF Typed
  <1>h. Typed /\ Banned
    BY <1>a, <1>b, <1>c, <1>d, <1>e, <1>f, <1>g DEF Leads!Next
  <1> QED
    BY <1>h DEF Typed, Banned

(* An import takes no typed region away, unless it was typed between its   *)
(* reading and its filling, and brings no task and no draft to a company   *)
(* that was banned since before it began (applyImport).                    *)
THEOREM ImportsKeepTheirDistance == Leads!Spec => Leads!ImportKeepsItsDistance
  <1>1. LeadsInv /\ [Leads!Next]_(Leads!vars) =>
          [/\ \A f \in Payments : firms[f].region = "typed" /\ firms'[f].region # "typed"
                => \E i \in Clerks : doing[i] = "fill" /\ firm[i] = f /\ f \in typedSince[i]
           /\ \A i \in Clerks : firm[i] \in banSince[i] =>
                /\ doing[i] = "task" => taskOf' = taskOf \/ doing'[i] = doing[i]
                /\ doing[i] = "draft" /\ doing'[i] = "nothing" =>
                     \A a \in Accounts : draftOf'[a] = "draft" => draftOf[a] = "draft"]_(Leads!vars)
    BY DistanceIsKept
  <1> QED
    BY LeadsInvariant, <1>1, PTL DEF Leads!Spec, Leads!ImportKeepsItsDistance

(* Imports are beside the receipts, the rows and the next actions.         *)
LEMMA LeadsBeside == MCSpec => Leads!Spec
  <1>1. MCInit => Leads!Init
    BY DEF MCInit
  <1>2. [MCNext]_mcVars => [Leads!Next]_(Leads!vars)
    BY Zenon DEF MCNext, mcVars, leadVars, Leads!vars, Leads!rows, Leads!local, Leads!past
  <1> QED
    BY <1>1, <1>2, PTL DEF MCSpec, Leads!Spec

(* The run's property: repeated imports double nothing.                    *)
THEOREM NothingIsEverDoubled == MCSpec => []NothingIsDoubled
  BY LeadsBeside, ImportsDoubleNothing, PTL DEF NothingIsDoubled

(* The run's property: imports leave typed data and bans alone.            *)
THEOREM ImportsAlwaysKeepTheirDistance == MCSpec => ImportKeepsItsDistance
  BY LeadsBeside, ImportsKeepTheirDistance, PTL DEF ImportKeepsItsDistance
-----------------------------------------------------------------------------
(* The type invariants of the four, as the run checks them.                *)
THEOREM RecordsAreTyped == MCSpec => []TypesHold
  <1>1. TypeOK /\ SavesInv /\ ActionsInv /\ LeadsInv => TypesHold
    BY DEF TypesHold, SavesInv, ActionsInv, LeadsInv
  <1>2. Spec => []TypeOK
    <2>1. LedgerInv => TypeOK
      BY DEF LedgerInv
    <2> QED
      BY LedgerStart, LedgerStep, <2>1, PTL DEF Spec
  <1> QED
    BY <1>1, <1>2, ReceiptsBeside, SavesBeside, SavesInvariant, ActionsBeside, ActionsInvariant,
       LeadsBeside, LeadsInvariant, PTL
=============================================================================
