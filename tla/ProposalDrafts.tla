--------------------------- MODULE ProposalDrafts ---------------------------
(***************************************************************************)
(* The commercial proposals of one company (CRM-10) and the bans on        *)
(* contacting it (CRM-04): drafts are created, edited, reviewed, approved, *)
(* recorded as sent and as delivered, while the company and its contacts   *)
(* are banned and released.                                                *)
(*                                                                         *)
(* No operation runs in a transaction: each reads the draft, decides, and  *)
(* writes it whatever it has become.  Every read a decision rests on and   *)
(* every write is an action.                                               *)
(*                                                                         *)
(* Abstracted: a content stands for recipient, subject, body and terms,    *)
(* and is its own hash (collisions are left out); Owner is the contact a   *)
(* content's recipient is a channel of; both scopes of a ban cover drafts; *)
(* row versions and capabilities, which only refuse; links to deals; the   *)
(* idempotency of creation (IdempotentCommands); imported drafts.          *)
(***************************************************************************)
EXTENDS Integers, FiniteSets

CONSTANTS Drafts,    \* bound: the drafts there can be
          Live,      \* bound: those that are acted on once created
          Groups, Contents, Contacts, Company,
          Owner,     \* findChannelInCompany
          Nameable,  \* bound: the contacts a draft may name
          Requests,
          MaxBans,   \* bound: bans in force at a time
          None

Bannable == Contacts \cup {Company}

ASSUME DraftsAssumption ==
    /\ IsFiniteSet(Drafts)
    /\ Company \notin Contacts /\ None \notin Bannable \cup Contents \cup Groups \cup Drafts
    /\ Bannable \cap Drafts = {}
    /\ Owner \in [Contents -> Contacts \cup {None}]
    /\ Live \subseteq Drafts /\ Nameable \subseteq Contacts /\ MaxBans \in Nat

VARIABLES drafts, banned,
          pc, on, saw, edit,  \* of the requests: target, what was read or is to be, change asked
          firm,     \* history: the bans in force ever since a request began
          raced     \* history: drafts edited while another request was busy with them

requests == <<pc, on, saw, edit>>
vars == <<drafts, banned, requests, firm, raced>>

Statuses == {"absent", "draft", "reviewed", "approved", "sent", "delivered", "on_hold", "cancelled"}
Draft == [status : Statuses, group : Groups \cup {None}, version : 0 .. Cardinality(Drafts) + 1,
          content : Contents \cup {None}, contact : Nameable \cup {None},
          hash : Contents \cup {None}]
NoDraft == [status |-> "absent", group |-> None, version |-> 0,
            content |-> None, contact |-> None, hash |-> None]
Edit == [field : {"content"}, value : Contents] \cup [field : {"contact"}, value : Nameable \cup {None}]
NoEdit == [field |-> "contact", value |-> None]

stored(d) == drafts[d].status # "absent"
room == \E d \in Drafts : ~stored(d)
withStatus(row, status) == [row EXCEPT !.status = status]

Init == /\ drafts = [d \in Drafts |-> NoDraft] /\ banned = {}
        /\ pc = [r \in Requests |-> "idle"] /\ on = [r \in Requests |-> None]
        /\ saw = [r \in Requests |-> NoDraft] /\ edit = [r \in Requests |-> NoEdit]
        /\ firm = [r \in Requests |-> {}] /\ raced = {}

goTo(r, place) == pc' = [pc EXCEPT ![r] = place]

starts(r, place, target) == /\ pc[r] = "idle" /\ goTo(r, place)
                            /\ on' = [on EXCEPT ![r] = target]

touches(r) == firm' = [firm EXCEPT ![r] = banned]

(* The request is answered, refused or lost with its process: what it held *)
(* is gone.                                                                *)
ends(r) == /\ goTo(r, "idle")
           /\ on' = [on EXCEPT ![r] = None]
           /\ saw' = [saw EXCEPT ![r] = NoDraft]
           /\ edit' = [edit EXCEPT ![r] = NoEdit]
           /\ firm' = [firm EXCEPT ![r] = {}]

crash(r) == pc[r] # "idle" /\ ends(r) /\ UNCHANGED <<drafts, banned, raced>>

-----------------------------------------------------------------------------
(* What createDraft and sendDraft check *)

(* Seeded defect: a contact named by the draft is trusted.                 *)
mismatched_Trusting(row) == FALSE

mismatched(row) == row.contact # None /\ Owner[row.content] \notin {None, row.contact}

contactFor(row) == IF row.contact # None THEN row.contact ELSE Owner[row.content]

assertCommercialTouchAllowed(row) == contactFor(row) \notin banned

(* A banned company refuses whatever is read after it.                     *)
readCompany(r, from, to) ==
    /\ pc[r] = from
    /\ \/ /\ Company \in banned /\ ends(r)
       \/ /\ Company \notin banned /\ goTo(r, to) /\ UNCHANGED <<on, saw, edit, firm>>
    /\ UNCHANGED <<drafts, banned, raced>>

readContact(r, from, to) ==
    /\ pc[r] = from
    /\ LET allowed == ~mismatched(saw[r]) /\ assertCommercialTouchAllowed(saw[r])
       IN  \/ ~allowed /\ ends(r)
           \/ allowed /\ goTo(r, to) /\ UNCHANGED <<on, saw, edit, firm>>
    /\ UNCHANGED <<drafts, banned, raced>>

-----------------------------------------------------------------------------
(* Creation *)

versionsOf(g) == {drafts[d].version : d \in {e \in Drafts : stored(e) /\ drafts[e].group = g}}

(* Seeded defect: the numbering starts after the first version.            *)
nextVersion_Late(g) ==
    IF versionsOf(g) = {} THEN 2 ELSE 1 + CHOOSE v \in versionsOf(g) : \A w \in versionsOf(g) : w <= v

nextVersion(g) ==
    IF versionsOf(g) = {} THEN 1 ELSE 1 + CHOOSE v \in versionsOf(g) : \A w \in versionsOf(g) : w <= v

createDraft(r) ==
    /\ room /\ starts(r, "company", None) /\ touches(r)
    /\ \E g \in Groups, c \in Contents, k \in Nameable \cup {None} :
          saw' = [saw EXCEPT ![r] = [status |-> "draft", group |-> g, version |-> 0,
                                     content |-> c, contact |-> k, hash |-> None]]
    /\ UNCHANGED <<drafts, banned, edit, raced>>

numberDraft(r) ==
    /\ pc[r] = "number"
    /\ saw' = [saw EXCEPT ![r].version = nextVersion(saw[r].group)]
    /\ goTo(r, "insert")
    /\ UNCHANGED <<drafts, banned, on, edit, firm, raced>>

(* Seeded defect: no unique index on group and version.                    *)
taken_Never(row) == FALSE

taken(row) == row.version \in versionsOf(row.group)

insertDraft(r) ==
    /\ pc[r] = "insert"
    /\ \/ /\ taken(saw[r]) /\ UNCHANGED drafts
       \/ /\ ~taken(saw[r])
          /\ \E d \in Drafts : ~stored(d) /\ drafts' = [drafts EXCEPT ![d] = saw[r]]
    /\ ends(r)
    /\ UNCHANGED <<banned, raced>>

-----------------------------------------------------------------------------
(* Editing *)

(* Seeded defect: a changed content keeps its review.                      *)
edited_KeepsStatus(row, e) ==
    IF e.field = "content" THEN [row EXCEPT !.content = e.value] ELSE [row EXCEPT !.contact = e.value]

edited(row, e) ==
    IF e.field = "content" THEN [row EXCEPT !.content = e.value, !.status = "draft"]
                           ELSE [row EXCEPT !.contact = e.value]

frozen(row) == row.status \in {"approved", "sent", "cancelled"}

updateDraft(r) ==
    \E d \in Live :
       /\ stored(d)
       /\ frozen(drafts[d]) => room
       /\ starts(r, IF frozen(drafts[d]) THEN "fork" ELSE "edit", d)
       /\ \E e \in Edit : edit' = [edit EXCEPT ![r] = e]
       /\ UNCHANGED <<drafts, banned, saw, firm, raced>>

(* createDraftNewVersion, up to its insert.                                *)
forkDraft(r) ==
    /\ pc[r] = "fork"
    /\ LET row == edited(drafts[on[r]], edit[r])
       IN  saw' = [saw EXCEPT ![r] = [row EXCEPT !.status = "draft", !.hash = None,
                                                 !.version = nextVersion(row.group)]]
    /\ goTo(r, "insert")
    /\ on' = [on EXCEPT ![r] = None] /\ edit' = [edit EXCEPT ![r] = NoEdit]
    /\ UNCHANGED <<drafts, banned, firm, raced>>

busyElsewhere(r) == \E q \in Requests \ {r} : on[q] = on[r]

editDraft(r) ==
    /\ pc[r] = "edit"
    /\ drafts' = [drafts EXCEPT ![on[r]] = edited(drafts[on[r]], edit[r])]
    /\ raced' = IF edit[r].field = "content" /\ busyElsewhere(r) THEN raced \cup {on[r]} ELSE raced
    /\ ends(r) /\ UNCHANGED banned

-----------------------------------------------------------------------------
(* Review, approval, sending, delivery, cancellation *)

reviewDraft(d) == /\ stored(d)
                  /\ drafts' = [drafts EXCEPT ![d].status = "reviewed"]
                  /\ UNCHANGED <<banned, requests, firm, raced>>

(* The draft is read and found in a status that allows the change.         *)
decides(r, allowed, place) ==
    /\ \E d \in Live : drafts[d].status \in allowed /\ starts(r, place, d)
    /\ UNCHANGED <<drafts, banned, edit, raced>>

(* setDraftStatus *)
writes(r, place, row) ==
    /\ pc[r] = place
    /\ drafts' = [drafts EXCEPT ![on[r]] = row]
    /\ ends(r) /\ UNCHANGED <<banned, raced>>

approveDraft(r) == /\ decides(r, {"draft", "reviewed"}, "approve")
                   /\ saw' = [saw EXCEPT ![r].content = drafts[on'[r]].content]
                   /\ UNCHANGED firm
recordApproval(r) ==
    writes(r, "approve", [drafts[on[r]] EXCEPT !.status = "approved", !.hash = saw[r].content])

sendDraft(r) == decides(r, {"approved"}, "sendCompany") /\ touches(r) /\ UNCHANGED saw
(* The draft is read a second time, for its recipient and contact.         *)
readDraft(r) == /\ pc[r] = "sendDraft"
                /\ LET row == drafts[on[r]]
                   IN  saw' = [saw EXCEPT ![r].content = row.content, ![r].contact = row.contact]
                /\ goTo(r, "sendContact")
                /\ UNCHANGED <<drafts, banned, on, edit, firm, raced>>
recordSending(r) == writes(r, "send", withStatus(drafts[on[r]], "sent"))

deliveredDraft(r) == decides(r, {"sent", "delivered"}, "deliver") /\ UNCHANGED <<saw, firm>>
recordDelivery(r) == writes(r, "deliver", withStatus(drafts[on[r]], "delivered"))

cancelDraft(r) == decides(r, Statuses \ {"absent", "sent"}, "cancel") /\ UNCHANGED <<saw, firm>>
recordCancellation(r) == writes(r, "cancel", withStatus(drafts[on[r]], "cancelled"))

-----------------------------------------------------------------------------
(* Bans *)

(* setCompanyDnc, setContactDnc: first the ban, then what it stops.        *)
setDnc(r) == /\ \E who \in Bannable : starts(r, "hold", who) /\ banned' = banned \cup {who}
             /\ Cardinality(banned') <= MaxBans
             /\ UNCHANGED <<drafts, saw, edit, firm, raced>>

covers(who, row) == who = Company \/ row.contact = who

stopContinuations(r) ==
    /\ pc[r] = "hold"
    /\ drafts' = [d \in Drafts |->
                    IF drafts[d].status \in {"draft", "reviewed", "approved"} /\ covers(on[r], drafts[d])
                    THEN withStatus(drafts[d], "on_hold") ELSE drafts[d]]
    /\ ends(r) /\ UNCHANGED <<banned, raced>>

liftDnc(who) == /\ banned' = banned \ {who}
                /\ firm' = [r \in Requests |-> firm[r] \ {who}]
                /\ UNCHANGED <<drafts, requests, raced>>

create(r) == \/ createDraft(r) \/ readCompany(r, "company", "contact")
             \/ readContact(r, "contact", "number") \/ numberDraft(r) \/ insertDraft(r)
update(r) == updateDraft(r) \/ forkDraft(r) \/ editDraft(r)
send(r) == \/ sendDraft(r) \/ readCompany(r, "sendCompany", "sendDraft") \/ readDraft(r)
           \/ readContact(r, "sendContact", "send") \/ recordSending(r)
decide(r) == \/ approveDraft(r) \/ recordApproval(r) \/ deliveredDraft(r) \/ recordDelivery(r)
             \/ cancelDraft(r) \/ recordCancellation(r)
ban(r) == setDnc(r) \/ stopContinuations(r)

Next == \/ \E r \in Requests : create(r) \/ update(r) \/ send(r) \/ decide(r) \/ ban(r) \/ crash(r)
        \/ \E d \in Live : reviewDraft(d)
        \/ \E who \in banned : liftDnc(who)

Spec == Init /\ [][Next]_vars
-----------------------------------------------------------------------------

Places == {"idle", "company", "contact", "number", "insert", "fork", "edit", "approve",
           "sendCompany", "sendDraft", "sendContact", "send", "deliver", "cancel", "hold"}

TypeOK == /\ drafts \in [Drafts -> Draft] /\ banned \subseteq Bannable
          /\ pc \in [Requests -> Places]
          /\ on \in [Requests -> Drafts \cup Bannable \cup {None}]
          /\ saw \in [Requests -> Draft] /\ edit \in [Requests -> Edit]
          /\ firm \in [Requests -> SUBSET Bannable] /\ raced \subseteq Drafts

(* The versions of a proposal are numbered 1, 2, 3..., each once, whoever  *)
(* adds one at the same time.                                              *)
VersionsAreContiguous ==
    \A g \in Groups :
       LET rows == {d \in Drafts : stored(d) /\ drafts[d].group = g}
       IN  versionsOf(g) = 1 .. Cardinality(rows)

(* What is approved, sent or delivered is what was hashed when it was      *)
(* approved, unless it was edited while another request was busy with it.  *)
ApprovedIsWhatWasHashed ==
    \A d \in Drafts \ raced :
       drafts[d].status \in {"approved", "sent", "delivered"} => drafts[d].hash = drafts[d].content

reaches(row) == {Company, row.contact, Owner[row.content]}

(* A request begun under a ban that is still in force inserts no new draft *)
(* for those it covers and records no sending to them, whether the contact *)
(* is named or found by the address.  A new version of a draft there       *)
(* already is an edit, which asks for no ban.                              *)
BansStopTouches ==
    \A r \in Requests : pc[r] \in {"number", "send"} => firm[r] \cap reaches(saw[r]) = {}

(* A version once sent stays sent or delivered.                            *)
SentStaysSent ==
    [][\A d \in Drafts : drafts[d].status \in {"sent", "delivered"} =>
                            drafts'[d].status \in {"sent", "delivered"}]_vars

(* Rows are of their type, and in line.                                    *)
DraftsAreInLine == TypeOK /\ VersionsAreContiguous
=============================================================================
