------------------------------- MODULE MCRecords -------------------------------
(***************************************************************************)
(* Four systems of the sales service in one run, side by side and not at   *)
(* once: the receipts of expected payments, the versions of rows, the next *)
(* action of a deal, and the import of leads.  A behaviour is of the one   *)
(* its first state chooses; the others stay where they start.  They share  *)
(* their model values, so that one symmetry serves all.                    *)
(***************************************************************************)
EXTENDS PaymentReceipts, TLC

CONSTANTS None, Gone,
          Conditional, Counted, Rewritten, MaxSaves,
          Entries,           \* tasks of NextActions, people of LeadImport
          Dates, Day, MaxChanges,
          Accounts, Domain, Channel, Forbidden, MaxRuns,
          site, mail         \* the domain and the channel of the file's accounts

VARIABLES focus,
          version, author, expecting, step, target, readVersion, saves, shown, readAt, doubled,
          passedBy,
          tasks, nextAction, syncing, listed, place, changes, fresh, astray,
          firms, people, taskOf, draftOf, doing, account, firm, seen, person, runs,
          typedSince, banSince, crowded

(* Two instants of one day, and one of the next. *)
MCDay == 1 :> 1 @@ 2 :> 1 @@ 3 :> 2

(* Two entries of a file with one domain and one channel. *)
MCDomain == [a \in Accounts |-> site]
MCChannel == [a \in Accounts |-> mail]

Saves == INSTANCE RowSaves WITH Writers <- Clerks
Actions == INSTANCE NextActions WITH Tasks <- Entries, Cards <- Payments, Nobody <- None
Leads == INSTANCE LeadImport WITH Imports <- Clerks, Firms <- Payments, People <- Entries,
                                  Unknown <- None

(* What the proofs assume of the constants of the other three: a row is    *)
(* written in one way, a missing name is no name, bounds are numbers.      *)
ASSUME ProofAssumptions == Saves!OneWayEach
ASSUME NoneAssumption == None \notin Entries \cup Payments \cup Accounts
ASSUME CountsAssumption == MaxChanges \in Nat /\ MaxRuns \in Nat

rowVars == <<version, author, expecting, step, target, readVersion, saves, shown, readAt, doubled,
             passedBy>>
actionVars == <<tasks, nextAction, syncing, listed, place, changes, fresh, astray>>
leadVars == <<firms, people, taskOf, draftOf, doing, account, firm, seen, person, runs,
              typedSince, banSince, crowded>>

mcVars == <<vars, rowVars, actionVars, leadVars, focus>>

MCInit ==
  /\ focus \in {"receipts", "rows", "actions", "leads"}
  /\ Init /\ Actions!Init
  /\ Saves!Init /\ (focus # "rows" => \A row \in DOMAIN version : version[row] = 1)
  /\ Leads!Init /\ (focus # "leads" => \A f \in Payments : ~firms[f].there)

MCNext ==
  /\ UNCHANGED focus
  /\ \/ /\ focus = "receipts" /\ Next
        /\ UNCHANGED <<rowVars, actionVars, leadVars>>
     \/ /\ focus = "rows" /\ Saves!Next
        /\ UNCHANGED <<vars, actionVars, leadVars>>
     \/ /\ focus = "actions" /\ Actions!Next
        /\ UNCHANGED <<vars, rowVars, leadVars>>
     \/ /\ focus = "leads" /\ Leads!Next
        /\ UNCHANGED <<vars, rowVars, actionVars>>

MCSpec == MCInit /\ [][MCNext]_mcVars

Symmetry == Permutations(Clerks) \cup Permutations(Payments) \cup Permutations(Entries)

(* The type invariants of the four. *)
TypesHold == /\ focus = "receipts" => TypeOK
             /\ focus = "rows" => Saves!TypeOK
             /\ focus = "actions" => Actions!TypeOK
             /\ focus = "leads" => Leads!TypeOK

(* Updates of conditional rows keep the promise of VersionedRows           *)
(* (companies, contacts, tasks, cards).                                    *)
KeepsThePromise == Saves!KeepsThePromise

(* A save that named a version overwrites no other save unseen, but where  *)
(* its way of writing leaves room; what was written without a count it     *)
(* does (see RowSaves).                                                    *)
UnseenIsKept == Saves!UnseenIsKept

(* The next action of a deal is its nearest open task (syncDealNextAction; *)
(* see NextActions).                                                       *)
SummaryFollowsTasks == Actions!SummaryFollowsTasks

(* An import leaves typed data and bans alone (applyImport; see            *)
(* LeadImport).                                                            *)
ImportKeepsItsDistance == Leads!ImportKeepsItsDistance

(* Repeated imports double neither companies nor contacts (see             *)
(* LeadImport).                                                            *)
NothingIsDoubled == Leads!NothingIsDoubled
=============================================================================
