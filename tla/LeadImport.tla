------------------------------ MODULE LeadImport ------------------------------
(***************************************************************************)
(* The import of leads: buildImportPlan and applyImport.  A run matches an *)
(* account of the file against the companies it read at its start, creates *)
(* or completes a company, adds the account's contact with its channel, a  *)
(* task and a draft, each in a statement of its own and none in a          *)
(* transaction; people edit and ban companies meanwhile.                   *)
(*                                                                         *)
(* A run applies one account: the accounts of a file are applied one after *)
(* another, share only the reading of companies, and an error of one does  *)
(* not stop the next.  Abstracted: one field, the region, stands for those *)
(* that are filled only when empty; names and previews; counts and the     *)
(* protocol of the answer.                                                 *)
(***************************************************************************)
EXTENDS Naturals, FiniteSets

CONSTANTS Imports,    \* runs
          Accounts,   \* entries of the file: external ids
          Firms,      \* companies there may be
          People,     \* contacts there may be
          Domain, Channel, \* of an account: its domain, its contact's channel, or Unknown
          Forbidden,  \* accounts whose contact is marked do_not_contact
          Unknown,
          MaxRuns     \* bound: accounts applied, edits and bans made by people

VARIABLES firms, people, taskOf, draftOf, \* rows; tasks and drafts by external id
          doing, account, firm, seen,  \* of each run: next statement, account, company, what it read
          person,     \* of each run: the contact it found or made
          runs,
          typedSince, \* history: companies whose region was typed after a run read it
          banSince,   \* history: companies banned ever since a run began
          crowded     \* history: companies two runs brought contacts to at once

rows == <<firms, people, taskOf, draftOf>>
local == <<doing, account, firm, seen, person>>
past == <<typedSince, banSince, crowded>>
vars == <<rows, local, runs, past>>

NoFirm == [there |-> FALSE, externalId |-> Unknown, domain |-> Unknown, region |-> "empty", banned |-> FALSE]
NoPerson == [firm |-> Unknown, channel |-> Unknown, banned |-> FALSE]
NoSight == [externalId |-> Unknown, region |-> "empty", banned |-> FALSE]

Init == /\ \E fs \in SUBSET Firms : \E d \in {Domain[a] : a \in Accounts}, known \in BOOLEAN :
             firms = [f \in Firms |-> IF f \notin fs THEN NoFirm
                        ELSE [NoFirm EXCEPT !.there = TRUE, !.domain = IF known THEN d ELSE Unknown]]
        /\ people = [p \in People |-> NoPerson]
        /\ taskOf = [a \in Accounts |-> FALSE]
        /\ draftOf = [a \in Accounts |-> "none"]
        /\ doing = [i \in Imports |-> "nothing"]
        /\ account = [i \in Imports |-> Unknown]
        /\ firm = [i \in Imports |-> Unknown]
        /\ seen = [i \in Imports |-> NoSight]
        /\ person = [i \in Imports |-> Unknown]
        /\ runs = 0
        /\ typedSince = [i \in Imports |-> {}]
        /\ banSince = [i \in Imports |-> {}]
        /\ crowded = {}

-----------------------------------------------------------------------------
next(i, what) == doing' = [doing EXCEPT ![i] = what]
spend == runs < MaxRuns /\ runs' = runs + 1

end(i) == /\ next(i, "nothing")
          /\ account' = [account EXCEPT ![i] = Unknown]
          /\ firm' = [firm EXCEPT ![i] = Unknown]
          /\ seen' = [seen EXCEPT ![i] = NoSight]
          /\ person' = [person EXCEPT ![i] = Unknown]
          /\ typedSince' = [typedSince EXCEPT ![i] = {}]
          /\ banSince' = [banSince EXCEPT ![i] = {}]
          /\ UNCHANGED crowded

(* buildImportPlan: by external id, or else by domain.                     *)
byExternal(a) == {f \in Firms : firms[f].externalId = a}
byDomain(a) == IF Domain[a] = Unknown THEN {}
               ELSE {f \in Firms : firms[f].there /\ firms[f].domain = Domain[a]}
matched(a) == IF byExternal(a) # {} THEN byExternal(a) ELSE byDomain(a)

(* The person at the screen chooses to create or to complete, whatever was *)
(* suggested; to complete what matched nothing is an error.                *)
begin(i, a) ==
  /\ doing[i] = "nothing" /\ spend
  /\ account' = [account EXCEPT ![i] = a]
  /\ \/ next(i, "find") /\ UNCHANGED firm
     \/ /\ next(i, "read")
        /\ \E f \in matched(a) : firm' = [firm EXCEPT ![i] = f]
  /\ banSince' = [banSince EXCEPT ![i] = {f \in Firms : firms[f].banned}]
  /\ UNCHANGED <<rows, seen, person, typedSince, crowded>>

(* To create: an account imported before is taken up again.                *)
findFirm(i) ==
  /\ doing[i] = "find"
  /\ IF byExternal(account[i]) = {} THEN next(i, "create") /\ UNCHANGED firm
     ELSE /\ \E f \in byExternal(account[i]) : firm' = [firm EXCEPT ![i] = f]
          /\ next(i, "ban")
  /\ UNCHANGED <<rows, account, seen, person, runs, past>>

createFirm(i) ==
  /\ doing[i] = "create" /\ byExternal(account[i]) = {}
  /\ \E f \in Firms :
       /\ ~firms[f].there
       /\ firms' = [firms EXCEPT ![f] = [there |-> TRUE, externalId |-> account[i], domain |-> Domain[account[i]],
                                         region |-> "imported", banned |-> FALSE]]
       /\ firm' = [firm EXCEPT ![i] = f]
  /\ next(i, "ban")
  /\ UNCHANGED <<people, taskOf, draftOf, account, seen, person, runs, past>>

(* To complete: what is empty, as it was read, is filled.                  *)
readFirm(i) ==
  /\ doing[i] = "read" /\ next(i, "fill")
  /\ seen' = [seen EXCEPT ![i] = [@ EXCEPT !.externalId = firms[firm[i]].externalId,
                                           !.region = firms[firm[i]].region]]
  /\ UNCHANGED <<rows, account, firm, person, runs, past>>

(* Seeded defect: a region is imported over whatever was read. *)
isEmpty_Always(i) == TRUE

isEmpty(i) == seen[i].region = "empty"
takesId(i) == seen[i].externalId = Unknown

fillFirm(i) ==
  /\ doing[i] = "fill" /\ next(i, "ban")
  /\ takesId(i) => byExternal(account[i]) \subseteq {firm[i]}
  /\ firms' = [firms EXCEPT ![firm[i]].externalId = IF takesId(i) THEN account[i] ELSE @,
                            ![firm[i]].region = IF isEmpty(i) THEN "imported" ELSE @]
  /\ UNCHANGED <<people, taskOf, draftOf, account, firm, seen, person, runs, past>>

readBan(i) ==
  /\ doing[i] = "ban"
  /\ seen' = [seen EXCEPT ![i].banned = firms[firm[i]].banned]
  /\ \E includeContacts \in BOOLEAN : next(i, IF includeContacts THEN "contact" ELSE "task")
  /\ crowded' = IF \E j \in Imports : j # i /\ firm[j] = firm[i] THEN crowded \cup {firm[i]} ELSE crowded
  /\ UNCHANGED <<rows, account, firm, person, runs, typedSince, banSince>>

-----------------------------------------------------------------------------
(* Seeded defect: a contact under a ban is not found again. *)
holders_Reachable(i) == {p \in People : /\ people[p].firm = firm[i] /\ ~people[p].banned
                                        /\ Channel[account[i]] # Unknown
                                        /\ people[p].channel = Channel[account[i]]}

(* The contact is the one of the company that holds the channel.           *)
holders(i) == {p \in People : /\ people[p].firm = firm[i]
                              /\ Channel[account[i]] # Unknown
                              /\ people[p].channel = Channel[account[i]]}

findContact(i) ==
  /\ doing[i] = "contact"
  /\ IF holders(i) = {} THEN next(i, "newContact") /\ UNCHANGED person
     ELSE /\ \E p \in holders(i) : person' = [person EXCEPT ![i] = p]
          /\ next(i, "task")
  /\ UNCHANGED <<rows, account, firm, seen, runs, past>>

createContact(i) ==
  /\ doing[i] = "newContact"
  /\ \E p \in People :
       /\ people[p].firm = Unknown
       /\ people' = [people EXCEPT ![p] = [firm |-> firm[i], channel |-> Unknown,
                                           banned |-> account[i] \in Forbidden]]
       /\ person' = [person EXCEPT ![i] = p]
  /\ next(i, IF Channel[account[i]] = Unknown THEN "task" ELSE "channel")
  /\ UNCHANGED <<firms, taskOf, draftOf, account, firm, seen, runs, past>>

(* The channel is looked for once more before it is added.                 *)
findChannel(i) ==
  /\ doing[i] = "channel" /\ next(i, IF holders(i) = {} THEN "newChannel" ELSE "task")
  /\ UNCHANGED <<rows, account, firm, seen, person, runs, past>>

createChannel(i) ==
  /\ doing[i] = "newChannel" /\ next(i, "task")
  /\ people' = [people EXCEPT ![person[i]].channel = Channel[account[i]]]
  /\ UNCHANGED <<firms, taskOf, draftOf, account, firm, seen, person, runs, past>>

(* A task unless the company is banned, as it was read; one of the account *)
(* that is there already stays.                                            *)
createTask(i) ==
  /\ doing[i] = "task" /\ next(i, "draft")
  /\ \E includeTask \in BOOLEAN :
       taskOf' = [taskOf EXCEPT ![account[i]] = @ \/ (includeTask /\ ~seen[i].banned)]
  /\ UNCHANGED <<firms, people, draftOf, account, firm, seen, person, runs, past>>

(* The account's draft, as sent or to be sent; a draft is held under a ban.*)
held(i, s) == IF seen[i].banned /\ s = "draft" THEN "on_hold" ELSE s

createDraft(i) ==
  /\ doing[i] = "draft" /\ end(i)
  /\ \E s \in {"none", "draft", "on_hold", "sent"} :
       draftOf' = [draftOf EXCEPT ![account[i]] = IF @ = "none" THEN held(i, s) ELSE @]
  /\ UNCHANGED <<firms, people, taskOf, runs>>

(* Any statement may fail: the account is reported, what was written stays.*)
fail(i) == doing[i] # "nothing" /\ end(i) /\ UNCHANGED <<rows, runs>>

-----------------------------------------------------------------------------
(* updateCompany, setCompanyDnc, liftCompanyDnc by people.                 *)
typeRegion(f) ==
  /\ firms[f].there /\ firms[f].region # "typed" /\ spend
  /\ firms' = [firms EXCEPT ![f].region = "typed"]
  /\ typedSince' = [i \in Imports |-> IF doing[i] = "fill" THEN typedSince[i] \cup {f} ELSE typedSince[i]]
  /\ UNCHANGED <<people, taskOf, draftOf, local, banSince, crowded>>

setDnc(f) ==
  /\ firms[f].there /\ ~firms[f].banned /\ spend
  /\ firms' = [firms EXCEPT ![f].banned = TRUE]
  /\ UNCHANGED <<people, taskOf, draftOf, local, past>>

liftDnc(f) ==
  /\ firms[f].banned /\ spend
  /\ firms' = [firms EXCEPT ![f].banned = FALSE]
  /\ banSince' = [i \in Imports |-> banSince[i] \ {f}]
  /\ UNCHANGED <<people, taskOf, draftOf, local, typedSince, crowded>>

Next == \/ \E i \in Imports : \/ \E a \in Accounts : begin(i, a)
                              \/ findFirm(i) \/ createFirm(i) \/ readFirm(i) \/ fillFirm(i) \/ readBan(i)
                              \/ findContact(i) \/ createContact(i) \/ findChannel(i) \/ createChannel(i)
                              \/ createTask(i) \/ createDraft(i) \/ fail(i)
        \/ \E f \in Firms : typeRegion(f) \/ setDnc(f) \/ liftDnc(f)

Spec == Init /\ [][Next]_vars

-----------------------------------------------------------------------------
TypeOK == /\ firms \in [Firms -> [there : BOOLEAN, externalId : Accounts \cup {Unknown},
                                  domain : {Domain[a] : a \in Accounts} \cup {Unknown},
                                  region : {"empty", "typed", "imported"}, banned : BOOLEAN]]
          /\ people \in [People -> [firm : Firms \cup {Unknown}, banned : BOOLEAN,
                                    channel : {Channel[a] : a \in Accounts} \cup {Unknown}]]
          /\ taskOf \in [Accounts -> BOOLEAN]
          /\ draftOf \in [Accounts -> {"none", "draft", "on_hold", "sent"}]
          /\ doing \in [Imports -> {"nothing", "find", "create", "read", "fill", "ban", "contact",
                                   "newContact", "channel", "newChannel", "task", "draft"}]
          /\ account \in [Imports -> Accounts \cup {Unknown}]
          /\ seen \in [Imports -> [externalId : Accounts \cup {Unknown}, banned : BOOLEAN,
                                  region : {"empty", "typed", "imported"}]]
          /\ firm \in [Imports -> Firms \cup {Unknown}]
          /\ person \in [Imports -> People \cup {Unknown}]
          /\ runs \in 0 .. MaxRuns /\ crowded \subseteq Firms
          /\ typedSince \in [Imports -> SUBSET Firms] /\ banSince \in [Imports -> SUBSET Firms]

(* "Only empty fields are filled; bans and manual data are untouched":     *)
(* a region a person typed gives way to no import, unless it was typed     *)
(* between the two statements that read it and fill it; and an account     *)
(* brings no open task and no draft ready to go to a company that has been *)
(* banned ever since the run began.                                        *)
ImportKeepsItsDistance ==
  [][/\ \A f \in Firms : firms[f].region = "typed" /\ firms'[f].region # "typed"
          => \E i \in Imports : doing[i] = "fill" /\ firm[i] = f /\ f \in typedSince[i]
     /\ \A i \in Imports : firm[i] \in banSince[i] =>
          /\ doing[i] = "task" => taskOf' = taskOf \/ doing'[i] = doing[i]
          /\ doing[i] = "draft" /\ doing'[i] = "nothing" =>
               \A a \in Accounts : draftOf'[a] = "draft" => draftOf[a] = "draft"]_vars

(* "Already imported, no duplicate made": an account is one company, and   *)
(* a channel belongs to one contact of a company, however often and in     *)
(* whatever pieces the file is applied, unless two runs brought contacts   *)
(* to the company at once.                                                 *)
NothingIsDoubled ==
  /\ \A a \in Accounts : Cardinality(byExternal(a)) <= 1
  /\ \A p, q \in People :
       /\ p # q /\ people[p].firm = people[q].firm
       /\ people[p].channel = people[q].channel /\ people[p].channel # Unknown
       => people[p].firm \in crowded
=============================================================================
