-------------------------------- MODULE Pilots --------------------------------
(***************************************************************************)
(* The pilot of a deal: its card, its criteria of success and their        *)
(* versions, the start and the decision.  A criterion is never edited: a   *)
(* new version takes the place of the one edited, which stays as history.  *)
(*                                                                         *)
(* A criterion is known by its key and version, which a unique index keeps *)
(* apart.  newPilotCriterionVersion opens a transaction and then uses the  *)
(* client outside it, so its two writes stand alone (as the creation of a  *)
(* deal does, DealTransitions).                                            *)
(*                                                                         *)
(* Abstracted: the fields of the card but for whether all that a start     *)
(* asks of them are filled in; wording; milestones, which nothing reads;   *)
(* versions of the card (RowSaves).                                        *)
(***************************************************************************)
EXTENDS Naturals, FiniteSets

CONSTANTS Managers,    \* requests
          MaxCriteria, MaxEditions, \* bounds: keys, versions of a criterion
          NoCriterion

VARIABLES status, outcome, filled, \* the card
          criteria,    \* rows: key and version to what is known of them
          act, about,  \* of each request: what it is to do next, and to which criterion
          disturbed,   \* history: requests whose reading of the pilot is out of date
          severed,     \* history: keys whose replacement was cut short
          unready      \* history: the pilot was started against its conditions

card == <<status, outcome, filled>>
request == <<act, about>>
vars == <<card, criteria, request, disturbed, severed, unready>>

BoundsAreNumbers == MaxCriteria \in Nat /\ MaxEditions \in Nat \ {0}

Keys == 1 .. MaxCriteria
Criteria == Keys \X (1 .. MaxEditions)
Absent == [there |-> FALSE, active |-> FALSE, agreed |-> FALSE, method |-> FALSE]
Criterion == [there : BOOLEAN, active : BOOLEAN, agreed : BOOLEAN, method : BOOLEAN]
Outcomes == {"accepted", "revise", "stop"}

Init == /\ status = "draft" /\ outcome = "none" /\ filled = FALSE
        /\ criteria = [k \in Criteria |-> Absent]
        /\ act = [m \in Managers |-> "nothing"]
        /\ about = [m \in Managers |-> NoCriterion]
        /\ disturbed = {} /\ severed = {} /\ unready = FALSE

-----------------------------------------------------------------------------
active == {k \in Criteria : criteria[k].active}

(* pilotActivationBlockers: none of them is left. *)
ready == /\ filled
         /\ active # {}
         /\ \A k \in active : criteria[k].agreed /\ criteria[k].method

will(m, what, k) == /\ act' = [act EXCEPT ![m] = what]
                    /\ about' = [about EXCEPT ![m] = k]
done(m) == will(m, "nothing", NoCriterion)

(* Every write of the pilot that may make it less ready.                   *)
disturb == disturbed' = disturbed \cup {m \in Managers : act[m] = "start"}

(* upsertPilot: fields may be filled and emptied at any time.              *)
upsertPilot == /\ filled' = ~filled
               /\ disturb
               /\ UNCHANGED <<status, outcome, criteria, request, severed, unready>>

(* createPilotCriterion: the key is the number of rows, of all versions,   *)
(* plus one.                                                               *)
countCriteria(m) ==
  /\ act[m] = "nothing"
  /\ LET key == Cardinality({k \in Criteria : criteria[k].there}) + 1
     IN key \in Keys /\ will(m, "add", <<key, 1>>)
  /\ UNCHANGED <<card, criteria, disturbed, severed, unready>>

insert(k) == \E method \in BOOLEAN :
  criteria' = [criteria EXCEPT ![k] = [there |-> TRUE, active |-> TRUE, agreed |-> FALSE, method |-> method]]

addCriterion(m) ==
  /\ act[m] = "add" /\ done(m) /\ disturb
  /\ IF criteria[about[m]].there THEN UNCHANGED criteria ELSE insert(about[m])
  /\ UNCHANGED <<card, severed, unready>>

(* Seeded defect: the version edited stays in use. *)
retire_InUse(m, k) ==
  /\ act[m] = "nothing" /\ criteria[k].there /\ k[2] < MaxEditions
  /\ will(m, "replace", <<k[1], k[2] + 1>>) /\ disturb
  /\ UNCHANGED <<card, criteria, severed, unready>>

(* newPilotCriterionVersion, of any version: it is put out of use, then    *)
(* the next one is inserted, which the index refuses if it is there.       *)
retire(m, k) ==
  /\ act[m] = "nothing" /\ criteria[k].there /\ k[2] < MaxEditions
  /\ criteria' = [criteria EXCEPT ![k].active = FALSE]
  /\ will(m, "replace", <<k[1], k[2] + 1>>) /\ disturb
  /\ UNCHANGED <<card, severed, unready>>

replace(m) ==
  /\ act[m] = "replace" /\ done(m) /\ disturb
  /\ IF criteria[about[m]].there THEN UNCHANGED criteria ELSE insert(about[m])
  /\ UNCHANGED <<card, severed, unready>>

(* agreePilotCriterion, of any version.                                    *)
agree(k) == /\ criteria[k].there
            /\ criteria' = [criteria EXCEPT ![k].agreed = TRUE]
            /\ UNCHANGED <<card, request, disturbed, severed, unready>>

(* activatePilot: what is read decides, and 'running' is written whatever  *)
(* the pilot has come to.                                                  *)
activatePilot(m) ==
  /\ act[m] = "nothing" /\ outcome = "none" /\ ready
  /\ will(m, "start", NoCriterion)
  /\ UNCHANGED <<card, criteria, disturbed, severed, unready>>

setPilotStatus(m) ==
  /\ act[m] = "start" /\ done(m)
  /\ status' = "running"
  /\ unready' = (unready \/ (status # "running" /\ ~ready /\ m \notin disturbed))
  /\ disturbed' = disturbed \ {m}
  /\ UNCHANGED <<outcome, filled, criteria, severed>>

(* decidePilot: of a running pilot, decided before or not.                 *)
decidePilot(m) ==
  /\ act[m] = "nothing" /\ status = "running"
  /\ will(m, "decide", NoCriterion)
  /\ UNCHANGED <<card, criteria, disturbed, severed, unready>>

setPilotDecision(m) ==
  /\ act[m] = "decide" /\ done(m)
  /\ outcome' \in Outcomes
  /\ UNCHANGED <<status, filled, criteria, disturbed, severed, unready>>

(* The process dies, or loses the database. *)
vanish(m) ==
  /\ act[m] # "nothing" /\ done(m)
  /\ severed' = IF act[m] = "replace" THEN severed \cup {about[m][1]} ELSE severed
  /\ disturbed' = disturbed \ {m}
  /\ UNCHANGED <<card, criteria, unready>>

Next == \/ upsertPilot
        \/ \E m \in Managers : \/ countCriteria(m) \/ addCriterion(m) \/ replace(m)
                               \/ activatePilot(m) \/ setPilotStatus(m)
                               \/ decidePilot(m) \/ setPilotDecision(m) \/ vanish(m)
                               \/ \E k \in Criteria : retire(m, k)
        \/ \E k \in Criteria : agree(k)

Spec == Init /\ [][Next]_vars

-----------------------------------------------------------------------------
TypeOK == /\ status \in {"draft", "running"} /\ outcome \in Outcomes \cup {"none"}
          /\ filled \in BOOLEAN
          /\ criteria \in [Criteria -> Criterion]
          /\ act \in [Managers -> {"nothing", "add", "replace", "start", "decide"}]
          /\ about \in [Managers -> Criteria \cup {NoCriterion}]
          /\ disturbed \subseteq Managers /\ severed \subseteq Keys /\ unready \in BOOLEAN

(* Versions of a criterion have no gaps and only the latest may be in use. *)
OneStandingVersion ==
  \A k, l \in Criteria :
    criteria[k].there /\ l[1] = k[1] /\ l[2] < k[2] => criteria[l].there /\ ~criteria[l].active

(* A criterion is not lost by editing it: some version of it is in use     *)
(* unless a request is about to insert one, or died before it could.       *)
NoCriterionIsLost ==
  \A key \in Keys :
    /\ criteria[<<key, 1>>].there
    /\ key \notin severed
    /\ \A m \in Managers : act[m] = "replace" => about[m][1] # key
    => \E k \in active : k[1] = key

(* "An edit makes a new version, the old one stays in history": however    *)
(* edits, additions and failures meet, the versions of a criterion stay in *)
(* line and the criterion stays in force.                                  *)
CriteriaStand == OneStandingVersion /\ NoCriterionIsLost

(* A pilot starts with owners, data, goal, users, agreed criteria with a   *)
(* method, a paid next step and a date, as far as the request could know;  *)
(* and only a pilot that was started is decided.                           *)
StartsReady == ~unready /\ (outcome # "none" => status = "running")

(* Both: however requests for a pilot meet and fail, its criteria stand    *)
(* and it started by its conditions.                                       *)
PilotsStand == CriteriaStand /\ StartsReady
=============================================================================
