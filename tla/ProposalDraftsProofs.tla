------------------------ MODULE ProposalDraftsProofs ------------------------
(***************************************************************************)
(* Proofs about ProposalDrafts for any drafts, requests, contacts and      *)
(* groups: the versions of a proposal have no gap, what is approved is     *)
(* what was hashed, and no checked touch meets a ban older than itself.    *)
(*                                                                         *)
(* A request decides on what it read and writes what it finds later, so    *)
(* each part of the invariant says of a request under way what it still    *)
(* knows: that its draft is there, that its number was the next one, that  *)
(* nobody edited its draft (or it is raced), which bans it has checked.    *)
(***************************************************************************)
EXTENDS ProposalDrafts, FiniteSetTheorems, TLAPS

(* The versions of a proposal that are stored. *)
rows(g) == {d \in Drafts : stored(d) /\ drafts[d].group = g}

Creating == {"company", "contact", "number", "insert"}
Sending == {"sendCompany", "sendDraft", "sendContact", "send"}
Acting == {"fork", "edit", "approve", "deliver", "cancel"} \cup Sending

(* A request acts on a draft that is there, and a draft is in a group.     *)
StoredInv == /\ \A r \in Requests : pc[r] \in Acting => on[r] \in Drafts /\ stored(on[r])
             /\ \A d \in Drafts : stored(d) => drafts[d].group \in Groups

(* What is about to be inserted is a draft; its number was the next one    *)
(* when it was taken.                                                      *)
NewInv == \A r \in Requests :
            /\ pc[r] \in Creating => saw[r].status = "draft" /\ saw[r].group \in Groups
            /\ pc[r] = "insert" => saw[r].version \in 1 .. Cardinality(rows(saw[r].group)) + 1

(* An approval is about to hash the content that stands, and what is being *)
(* sent or delivered carries its hash, unless the draft is raced.          *)
HashInv == \A r \in Requests : on[r] \notin raced =>
             /\ pc[r] = "approve" => saw[r].content = drafts[on[r]].content
             /\ pc[r] \in Sending \cup {"deliver"} => drafts[on[r]].hash = drafts[on[r]].content

(* A firm ban is in force, and past the check of the company it is not the *)
(* company's.                                                              *)
FirmInv == \A r \in Requests :
             /\ firm[r] \subseteq banned
             /\ pc[r] \in {"contact", "number", "sendDraft", "sendContact", "send"} => Company \notin firm[r]

DraftsInv == /\ TypeOK /\ StoredInv /\ NewInv /\ VersionsAreContiguous
             /\ HashInv /\ ApprovedIsWhatWasHashed
             /\ FirmInv /\ BansStopTouches
-----------------------------------------------------------------------------
(* Rows and their changes. *)

LEMMA HowMany == Cardinality(Drafts) \in Nat
  BY FS_CardinalityType, DraftsAssumption

LEMMA NothingIsTyped == NoDraft \in Draft /\ NoEdit \in Edit /\ NoDraft.status = "absent"
  <1>1. 0 \in 0 .. Cardinality(Drafts) + 1
    BY HowMany, SMT
  <1> QED
    BY <1>1, SMT DEF NoDraft, NoEdit, Draft, Edit, Statuses

LEMMA StatusSet ==
  ASSUME NEW row \in Draft, NEW status \in Statuses, NEW new, new = withStatus(row, status)
  PROVE  /\ new \in Draft /\ new.status = status
         /\ new.group = row.group /\ new.version = row.version
         /\ new.content = row.content /\ new.contact = row.contact /\ new.hash = row.hash
  BY Zenon DEF withStatus, Draft

LEMMA VersionSet ==
  ASSUME NEW row \in Draft, NEW version \in 0 .. Cardinality(Drafts) + 1, NEW new,
         new = [row EXCEPT !.version = version]
  PROVE  /\ new \in Draft /\ new.version = version
         /\ new.status = row.status /\ new.group = row.group
  BY Zenon DEF Draft

LEMMA EditedRow ==
  ASSUME NEW row \in Draft, NEW e \in Edit
  PROVE  /\ edited(row, e) \in Draft
         /\ edited(row, e).group = row.group /\ edited(row, e).version = row.version
         /\ edited(row, e).hash = row.hash /\ edited(row, e).status \in {"draft", row.status}
         /\ e.field = "content" => edited(row, e).status = "draft"
         /\ e.field # "content" => /\ edited(row, e).content = row.content
                                   /\ edited(row, e).status = row.status
  <1>0. PICK new : new = edited(row, e)
    OBVIOUS
  <1>1. CASE e.field = "content"
    <2>1. e.value \in Contents
      BY <1>1, SMT DEF Edit
    <2>2. new = [row EXCEPT !.content = e.value, !.status = "draft"]
      BY <1>0, <1>1, Zenon DEF edited
    <2>3. "draft" \in Statuses
      BY SMT DEF Statuses
    <2>4. /\ new \in Draft /\ new.status = "draft"
          /\ new.group = row.group /\ new.version = row.version /\ new.hash = row.hash
      BY <2>1, <2>2, <2>3, Zenon DEF Draft
    <2> QED
      BY <1>0, <1>1, <2>4, Zenon
  <1>2. CASE e.field # "content"
    <2>1. e.value \in Nameable \cup {None}
      BY <1>2, SMT DEF Edit
    <2>2. new = [row EXCEPT !.contact = e.value]
      BY <1>0, <1>2, Zenon DEF edited
    <2> QED
      BY <1>0, <1>2, <2>1, <2>2, Zenon DEF Draft
  <1> QED
    BY <1>1, <1>2

-----------------------------------------------------------------------------
(* The numbers of a proposal. *)

LEMMA RowsOfAGroup ==
  ASSUME NEW g
  PROVE  /\ rows(g) \subseteq Drafts /\ IsFiniteSet(rows(g))
         /\ Cardinality(rows(g)) \in Nat /\ Cardinality(rows(g)) <= Cardinality(Drafts)
  <1>1. rows(g) \subseteq Drafts
    BY Zenon DEF rows
  <1> QED
    BY <1>1, FS_Subset, FS_CardinalityType, DraftsAssumption

LEMMA NextVersionIsNext ==
  ASSUME VersionsAreContiguous, NEW g \in Groups
  PROVE  nextVersion(g) = Cardinality(rows(g)) + 1
  <1>1. PICK n \in Nat : n = Cardinality(rows(g))
    BY RowsOfAGroup
  <1>2. versionsOf(g) = 1 .. n
    BY <1>1, Zenon DEF VersionsAreContiguous, rows
  <1>3. CASE n = 0
    <2>1. versionsOf(g) = {}
      BY <1>2, <1>3, SMT
    <2> QED
      BY <2>1, <1>1, <1>3, SMT DEF nextVersion
  <1>4. CASE n # 0
    <2>1. n \in versionsOf(g) /\ \A w \in versionsOf(g) : w <= n
      BY <1>2, <1>4, SMT
    <2>2. PICK v : v = CHOOSE u \in versionsOf(g) : \A w \in versionsOf(g) : w <= u
      OBVIOUS
    <2>3. v \in versionsOf(g) /\ \A w \in versionsOf(g) : w <= v
      BY <2>1, <2>2, Zenon
    <2>4. v = n
      BY <2>1, <2>3, <1>2, SMT
    <2>5. nextVersion(g) = 1 + v
      BY <2>1, <2>2, Zenon DEF nextVersion
    <2> QED
      BY <2>4, <2>5, <1>1, SMT
  <1> QED
    BY <1>3, <1>4

(* A step that leaves groups, numbers and rows leaves the numbering.       *)
LEMMA NumbersStay ==
  ASSUME VersionsAreContiguous,
         \A d \in Drafts : /\ drafts'[d].group = drafts[d].group
                           /\ drafts'[d].version = drafts[d].version
                           /\ stored(d)' <=> stored(d)
  PROVE  VersionsAreContiguous' /\ \A g : rows(g)' = rows(g)
  <1>1. \A g : rows(g)' = rows(g)
    BY Zenon DEF rows
  <1>2. \A g : versionsOf(g) = {drafts[d].version : d \in rows(g)}
    BY Zenon DEF versionsOf, rows
  <1>3. \A g : versionsOf(g)' = {drafts'[d].version : d \in rows(g)'}
    BY Zenon DEF versionsOf, rows
  <1>4. \A g : versionsOf(g)' = versionsOf(g)
    <2> SUFFICES ASSUME NEW g PROVE versionsOf(g)' = versionsOf(g)
      OBVIOUS
    <2>1. \A d \in rows(g) : drafts'[d].version = drafts[d].version
      BY Zenon DEF rows
    <2>2. {drafts'[d].version : d \in rows(g)} = {drafts[d].version : d \in rows(g)}
      BY <2>1
    <2> QED
      BY <1>1, <1>2, <1>3, <2>2, Zenon
  <1> QED
    BY <1>1, <1>4, Zenon DEF VersionsAreContiguous, rows
-----------------------------------------------------------------------------
(* Types *)

LEMMA PlacesAre == Creating \cup Acting \cup {"idle", "hold"} = Places
  BY SMT DEF Creating, Acting, Sending, Places

LEMMA EndsTyped ==
  ASSUME TypeOK, NEW r \in Requests, ends(r), drafts' \in [Drafts -> Draft],
         banned' \subseteq Bannable, raced' \subseteq Drafts
  PROVE  TypeOK'
  <1>1. "idle" \in Places
    BY SMT DEF Places
  <1> QED
    BY <1>1, NothingIsTyped, Zenon DEF TypeOK, ends, goTo

(* Another row of a draft, of its type. *)
LEMMA RowTyped ==
  ASSUME TypeOK, NEW d \in Drafts, NEW row \in Draft, drafts' = [drafts EXCEPT ![d] = row]
  PROVE  /\ drafts' \in [Drafts -> Draft] /\ drafts'[d] = row
         /\ \A e \in Drafts \ {d} : drafts'[e] = drafts[e]
  BY Zenon DEF TypeOK

LEMMA ReadingTyped ==
  ASSUME TypeOK, NEW r \in Requests, NEW from, NEW to \in Places,
         readCompany(r, from, to) \/ readContact(r, from, to)
  PROVE  TypeOK'
  <1>1. UNCHANGED <<drafts, banned, raced>>
    BY Zenon DEF readCompany, readContact
  <1>2. CASE ends(r)
    BY <1>1, <1>2, EndsTyped, Zenon DEF TypeOK
  <1>3. CASE goTo(r, to) /\ UNCHANGED <<on, saw, edit, firm>>
    BY <1>1, <1>3, Zenon DEF TypeOK, goTo
  <1> QED
    BY <1>2, <1>3, Zenon DEF readCompany, readContact

LEMMA DecidingTyped ==
  ASSUME TypeOK, NEW r \in Requests, NEW allowed, NEW place \in Places, decides(r, allowed, place)
  PROVE  /\ pc' \in [Requests -> Places] /\ on' \in [Requests -> Drafts \cup Bannable \cup {None}]
         /\ UNCHANGED <<drafts, banned, edit, raced>>
         /\ on'[r] \in Drafts
  <1>1. PICK d \in Live : starts(r, place, d)
    BY Zenon DEF decides
  <1>2. d \in Drafts
    BY DraftsAssumption
  <1>3. on'[r] = d
    BY <1>1, Zenon DEF TypeOK, starts
  <1> QED
    BY <1>1, <1>2, <1>3, Zenon DEF TypeOK, decides, starts, goTo

LEMMA WritingTyped ==
  ASSUME TypeOK, StoredInv, NEW r \in Requests, NEW place \in Acting, NEW row \in Draft,
         writes(r, place, row)
  PROVE  TypeOK'
  <1>1. on[r] \in Drafts
    BY Zenon DEF StoredInv, writes
  <1>2. drafts' \in [Drafts -> Draft] /\ banned' = banned /\ raced' = raced /\ ends(r)
    BY <1>1, RowTyped, Zenon DEF writes
  <1> QED
    BY <1>2, EndsTyped, Zenon DEF TypeOK

LEMMA TypeStep ==
  ASSUME TypeOK, StoredInv, NewInv, VersionsAreContiguous, [Next]_vars
  PROVE  TypeOK'
  <1>0. /\ \A d \in Drafts : drafts[d] \in Draft
        /\ \A r \in Requests : saw[r] \in Draft /\ edit[r] \in Edit
    BY Zenon DEF TypeOK
  <1>1. Places = Places \cup Creating \cup Acting \cup {"idle", "hold"}
    BY PlacesAre, Zenon
  <1>2. ASSUME NEW r \in Requests, create(r) PROVE TypeOK'
    <2>1. CASE createDraft(r)
      <3>1. PICK g \in Groups, c \in Contents, k \in Nameable \cup {None} :
              saw' = [saw EXCEPT ![r] = [status |-> "draft", group |-> g, version |-> 0,
                                         content |-> c, contact |-> k, hash |-> None]]
        BY <2>1, Zenon DEF createDraft
      <3>2. [status |-> "draft", group |-> g, version |-> 0,
             content |-> c, contact |-> k, hash |-> None] \in Draft
        BY HowMany, SMT DEF Draft, Statuses
      <3>3. "company" \in Places
        BY SMT DEF Places
      <3> QED
        BY <2>1, <3>1, <3>2, <3>3, Zenon DEF TypeOK, createDraft, starts, goTo, touches
    <2>2. CASE readCompany(r, "company", "contact") \/ readContact(r, "contact", "number")
      <3>1. "contact" \in Places /\ "number" \in Places
        BY SMT DEF Places
      <3> QED
        BY <2>2, <3>1, ReadingTyped, Zenon
    <2>3. CASE numberDraft(r)
      <3>1. saw[r].group \in Groups
        BY <2>3, SMT DEF NewInv, Creating, numberDraft
      <3>2. nextVersion(saw[r].group) \in 0 .. Cardinality(Drafts) + 1
        BY <3>1, NextVersionIsNext, RowsOfAGroup, HowMany, SMT
      <3>3. [saw[r] EXCEPT !.version = nextVersion(saw[r].group)] \in Draft
        BY <1>0, <3>2, VersionSet, Zenon
      <3>4. "insert" \in Places
        BY SMT DEF Places
      <3> QED
        BY <2>3, <3>3, <3>4, Zenon DEF TypeOK, numberDraft, goTo
    <2>4. CASE insertDraft(r)
      <3>1. drafts' \in [Drafts -> Draft]
        BY <1>0, <2>4, RowTyped, Zenon DEF insertDraft, TypeOK
      <3> QED
        BY <2>4, <3>1, EndsTyped, Zenon DEF insertDraft, TypeOK
    <2> QED
      BY <1>2, <2>1, <2>2, <2>3, <2>4, Zenon DEF create
  <1>3. ASSUME NEW r \in Requests, update(r) PROVE TypeOK'
    <2>1. CASE updateDraft(r)
      <3>1. PICK d \in Live : /\ starts(r, IF frozen(drafts[d]) THEN "fork" ELSE "edit", d)
                              /\ \E e \in Edit : edit' = [edit EXCEPT ![r] = e]
                              /\ UNCHANGED <<drafts, banned, saw, firm, raced>>
        BY <2>1, Zenon DEF updateDraft
      <3>2. d \in Drafts /\ (IF frozen(drafts[d]) THEN "fork" ELSE "edit") \in Places
        BY DraftsAssumption, SMT DEF Places
      <3> QED
        BY <3>1, <3>2, Zenon DEF TypeOK, starts, goTo
    <2>2. CASE forkDraft(r)
      <3>1. on[r] \in Drafts /\ stored(on[r]) /\ drafts[on[r]].group \in Groups
        BY <2>2, SMT DEF StoredInv, Acting, forkDraft
      <3>2. PICK row : row = edited(drafts[on[r]], edit[r])
        OBVIOUS
      <3>3. row \in Draft /\ row.group \in Groups
        BY <1>0, <3>1, <3>2, EditedRow, Zenon
      <3>4. nextVersion(row.group) \in 0 .. Cardinality(Drafts) + 1
        BY <3>3, NextVersionIsNext, RowsOfAGroup, HowMany, SMT
      <3>5. [row EXCEPT !.status = "draft", !.hash = None, !.version = nextVersion(row.group)] \in Draft
        <4>1. "draft" \in Statuses
          BY SMT DEF Statuses
        <4> QED
          BY <3>3, <3>4, <4>1, Zenon DEF Draft
      <3>6. saw' = [saw EXCEPT ![r] = [row EXCEPT !.status = "draft", !.hash = None,
                                                  !.version = nextVersion(row.group)]]
        BY <2>2, <3>2, Zenon DEF forkDraft
      <3>7. "insert" \in Places
        BY SMT DEF Places
      <3> QED
        BY <2>2, <3>5, <3>6, <3>7, NothingIsTyped, Zenon DEF TypeOK, forkDraft, goTo
    <2>3. CASE editDraft(r)
      <3>1. on[r] \in Drafts
        BY <2>3, SMT DEF StoredInv, Acting, editDraft
      <3>2. edited(drafts[on[r]], edit[r]) \in Draft
        BY <1>0, <3>1, EditedRow, Zenon
      <3>3. drafts' \in [Drafts -> Draft]
        BY <2>3, <3>1, <3>2, RowTyped, Zenon DEF editDraft
      <3> QED
        BY <2>3, <3>1, <3>3, EndsTyped, Zenon DEF editDraft, TypeOK
    <2> QED
      BY <1>3, <2>1, <2>2, <2>3, Zenon DEF update
  <1>4. ASSUME NEW r \in Requests, send(r) PROVE TypeOK'
    <2>1. CASE sendDraft(r)
      <3>1. "sendCompany" \in Places
        BY SMT DEF Places
      <3>2. decides(r, {"approved"}, "sendCompany") /\ touches(r) /\ UNCHANGED saw
        BY <2>1, Zenon DEF sendDraft
      <3> QED
        BY <3>1, <3>2, DecidingTyped, Zenon DEF TypeOK, touches
    <2>2. CASE readCompany(r, "sendCompany", "sendDraft") \/ readContact(r, "sendContact", "send")
      <3>1. "sendDraft" \in Places /\ "send" \in Places
        BY SMT DEF Places
      <3> QED
        BY <2>2, <3>1, ReadingTyped, Zenon
    <2>3. CASE readDraft(r)
      <3>1. on[r] \in Drafts
        BY <2>3, SMT DEF StoredInv, Acting, Sending, readDraft
      <3>2. [saw[r] EXCEPT !.content = drafts[on[r]].content, !.contact = drafts[on[r]].contact] \in Draft
        <4>1. saw[r] \in Draft /\ drafts[on[r]] \in Draft
          BY <1>0, <3>1
        <4> QED
          BY <4>1, Zenon DEF Draft
      <3>3. saw' = [saw EXCEPT ![r] = [saw[r] EXCEPT !.content = drafts[on[r]].content,
                                                     !.contact = drafts[on[r]].contact]]
        BY <2>3, Zenon DEF readDraft, TypeOK
      <3>4. "sendContact" \in Places
        BY SMT DEF Places
      <3> QED
        BY <2>3, <3>2, <3>3, <3>4, Zenon DEF TypeOK, readDraft, goTo
    <2>4. CASE recordSending(r)
      <3>1. "send" \in Acting /\ "sent" \in Statuses
        BY SMT DEF Acting, Sending, Statuses
      <3>2. on[r] \in Drafts
        BY <2>4, <3>1, Zenon DEF StoredInv, recordSending, writes
      <3>3. withStatus(drafts[on[r]], "sent") \in Draft
        BY <1>0, <3>1, <3>2, StatusSet, Zenon
      <3> QED
        BY <2>4, <3>1, <3>3, WritingTyped, Zenon DEF recordSending
    <2> QED
      BY <1>4, <2>1, <2>2, <2>3, <2>4, Zenon DEF send
  <1>5. ASSUME NEW r \in Requests, decide(r) PROVE TypeOK'
    <2>0. /\ {"approve", "deliver", "cancel"} \subseteq Acting \cap Places
          /\ {"approved", "delivered", "cancelled"} \subseteq Statuses
      BY SMT DEF Acting, Places, Statuses
    <2>1. CASE approveDraft(r)
      <3>1. decides(r, {"draft", "reviewed"}, "approve") /\ UNCHANGED firm
            /\ saw' = [saw EXCEPT ![r].content = drafts[on'[r]].content]
        BY <2>1, Zenon DEF approveDraft
      <3>2. /\ pc' \in [Requests -> Places] /\ on' \in [Requests -> Drafts \cup Bannable \cup {None}]
            /\ UNCHANGED <<drafts, banned, edit, raced>> /\ on'[r] \in Drafts
        BY <2>0, <3>1, DecidingTyped, Zenon
      <3>3. [saw[r] EXCEPT !.content = drafts[on'[r]].content] \in Draft
        <4>1. saw[r] \in Draft /\ drafts[on'[r]] \in Draft
          BY <1>0, <3>2
        <4> QED
          BY <4>1, Zenon DEF Draft
      <3>4. saw' = [saw EXCEPT ![r] = [saw[r] EXCEPT !.content = drafts[on'[r]].content]]
        BY <3>1, Zenon DEF TypeOK
      <3> QED
        BY <3>1, <3>2, <3>3, <3>4, Zenon DEF TypeOK
    <2>2. CASE recordApproval(r)
      <3>1. on[r] \in Drafts
        BY <2>0, <2>2, Zenon DEF StoredInv, recordApproval, writes
      <3>2. saw[r].content \in Contents \cup {None}
        BY <1>0, Zenon DEF Draft
      <3>3. [drafts[on[r]] EXCEPT !.status = "approved", !.hash = saw[r].content] \in Draft
        <4>1. drafts[on[r]] \in Draft /\ "approved" \in Statuses
          BY <1>0, <2>0, <3>1, Zenon
        <4> QED
          BY <3>2, <4>1, Zenon DEF Draft
      <3> QED
        BY <2>0, <2>2, <3>3, WritingTyped, Zenon DEF recordApproval
    <2>3. CASE deliveredDraft(r) \/ cancelDraft(r)
      <3>1. \/ decides(r, {"sent", "delivered"}, "deliver")
            \/ decides(r, Statuses \ {"absent", "sent"}, "cancel")
        BY <2>3, Zenon DEF deliveredDraft, cancelDraft
      <3>2. UNCHANGED <<saw, firm>>
        BY <2>3, Zenon DEF deliveredDraft, cancelDraft
      <3> QED
        BY <2>0, <3>1, <3>2, DecidingTyped, Zenon DEF TypeOK
    <2>4. CASE recordDelivery(r) \/ recordCancellation(r)
      <3>1. PICK place \in {"deliver", "cancel"}, status \in {"delivered", "cancelled"} :
              writes(r, place, withStatus(drafts[on[r]], status))
        BY <2>4, Zenon DEF recordDelivery, recordCancellation
      <3>2. on[r] \in Drafts
        BY <2>0, <3>1, Zenon DEF StoredInv, writes
      <3>3. withStatus(drafts[on[r]], status) \in Draft
        BY <1>0, <2>0, <3>2, StatusSet, Zenon
      <3> QED
        BY <2>0, <3>1, <3>3, WritingTyped, Zenon
    <2> QED
      BY <1>5, <2>1, <2>2, <2>3, <2>4, Zenon DEF decide
  <1>6. ASSUME NEW r \in Requests, ban(r) PROVE TypeOK'
    <2>1. CASE setDnc(r)
      <3>1. PICK who \in Bannable : starts(r, "hold", who) /\ banned' = banned \cup {who}
        BY <2>1, Zenon DEF setDnc
      <3>2. banned' \subseteq Bannable
        BY <3>1, Zenon DEF TypeOK
      <3>3. "hold" \in Places
        BY SMT DEF Places
      <3> QED
        BY <2>1, <3>1, <3>2, <3>3, Zenon DEF TypeOK, setDnc, starts, goTo
    <2>2. CASE stopContinuations(r)
      <3>1. \A d \in Drafts : drafts'[d] = drafts[d] \/ drafts'[d] = withStatus(drafts[d], "on_hold")
        BY <2>2, Zenon DEF stopContinuations
      <3>2. "on_hold" \in Statuses
        BY SMT DEF Statuses
      <3>3. \A d \in Drafts : drafts'[d] \in Draft
        BY <1>0, <3>1, <3>2, StatusSet, Zenon
      <3>4. drafts' = [d \in Drafts |-> drafts'[d]]
        BY <2>2, Zenon DEF stopContinuations
      <3>5. drafts' \in [Drafts -> Draft]
        BY <3>3, <3>4, Zenon
      <3> QED
        BY <2>2, <3>5, EndsTyped, Zenon DEF TypeOK, stopContinuations
    <2> QED
      BY <1>6, <2>1, <2>2, Zenon DEF ban
  <1>7. ASSUME NEW r \in Requests, crash(r) PROVE TypeOK'
    BY <1>7, EndsTyped, Zenon DEF TypeOK, crash
  <1>8. ASSUME NEW d \in Live, reviewDraft(d) PROVE TypeOK'
    <2>1. d \in Drafts /\ "reviewed" \in Statuses
      BY DraftsAssumption, SMT DEF Statuses
    <2>2. withStatus(drafts[d], "reviewed") \in Draft
      BY <1>0, <2>1, StatusSet, Zenon
    <2>3. drafts' = [drafts EXCEPT ![d] = withStatus(drafts[d], "reviewed")]
      BY <1>8, <2>1, Zenon DEF reviewDraft, withStatus, TypeOK
    <2> QED
      BY <1>8, <2>1, <2>2, <2>3, RowTyped, Zenon DEF TypeOK, reviewDraft, requests
  <1>9. ASSUME NEW who \in banned, liftDnc(who) PROVE TypeOK'
    <2>1. banned' \subseteq Bannable /\ firm' \in [Requests -> SUBSET Bannable]
      BY <1>9, Zenon DEF TypeOK, liftDnc
    <2> QED
      BY <1>9, <2>1, Zenon DEF TypeOK, liftDnc, requests
  <1>10. CASE UNCHANGED vars
    BY <1>10, Zenon DEF TypeOK, vars, requests
  <1> QED
    BY <1>2, <1>3, <1>4, <1>5, <1>6, <1>7, <1>8, <1>9, <1>10, Zenon DEF Next
-----------------------------------------------------------------------------
(* What a step of a request does to the rows: nothing, a change of one or  *)
(* of many that leaves their groups and numbers, or an insertion.          *)

LEMMA RowWritten ==
  ASSUME TypeOK, StoredInv, NEW r \in Requests, NEW place \in Acting, NEW row, row \in Draft,
         writes(r, place, row), row.status # "absent",
         row.group = drafts[on[r]].group, row.version = drafts[on[r]].version
  PROVE  /\ on[r] \in Drafts /\ drafts'[on[r]] = row
         /\ \A d \in Drafts : /\ drafts'[d].group = drafts[d].group
                              /\ drafts'[d].version = drafts[d].version
                              /\ stored(d)' <=> stored(d)
                              /\ d # on[r] => drafts'[d] = drafts[d]
  <1>1. on[r] \in Drafts /\ stored(on[r])
    BY Zenon DEF StoredInv, writes
  <1>2. drafts'[on[r]] = row /\ \A d \in Drafts \ {on[r]} : drafts'[d] = drafts[d]
    BY <1>1, RowTyped, Zenon DEF writes
  <1> QED
    BY <1>1, <1>2, Zenon DEF stored

(* The rows recorded by a request are of the draft it acts on.             *)
LEMMA RecordedRow ==
  ASSUME TypeOK, StoredInv, NEW r \in Requests,
         \/ recordApproval(r) \/ recordSending(r) \/ recordDelivery(r) \/ recordCancellation(r)
  PROVE  /\ on[r] \in Drafts /\ ends(r) /\ UNCHANGED <<banned, raced>>
         /\ drafts'[on[r]].content = drafts[on[r]].content
         /\ drafts'[on[r]].contact = drafts[on[r]].contact
         /\ \/ /\ pc[r] = "approve"
               /\ drafts'[on[r]].hash = saw[r].content
            \/ /\ pc[r] \in {"send", "deliver", "cancel"}
               /\ drafts'[on[r]].hash = drafts[on[r]].hash
               /\ drafts'[on[r]].status \in {"approved", "sent", "delivered"} => pc[r] # "cancel"
         /\ \A d \in Drafts : /\ drafts'[d].group = drafts[d].group
                              /\ drafts'[d].version = drafts[d].version
                              /\ stored(d)' <=> stored(d)
                              /\ d # on[r] => drafts'[d] = drafts[d]
  <1>0. /\ {"approve", "send", "deliver", "cancel"} \subseteq Acting
        /\ {"approved", "sent", "delivered", "cancelled"} \subseteq Statuses \ {"absent"}
    BY SMT DEF Acting, Sending, Statuses
  <1>1. pc[r] \in {"approve", "send", "deliver", "cancel"} /\ ends(r) /\ UNCHANGED <<banned, raced>>
    BY Zenon DEF recordApproval, recordSending, recordDelivery, recordCancellation, writes
  <1>2. on[r] \in Drafts
    BY <1>0, <1>1, Zenon DEF StoredInv
  <1>3. drafts[on[r]] \in Draft /\ saw[r] \in Draft
    BY <1>2, Zenon DEF TypeOK
  <1>4. CASE recordApproval(r)
    <2>1. PICK row : row = [drafts[on[r]] EXCEPT !.status = "approved", !.hash = saw[r].content]
      OBVIOUS
    <2>2. "approved" \in Statuses \ {"absent"} /\ saw[r].content \in Contents \cup {None}
      BY <1>0, <1>3, Zenon DEF Draft
    <2>3. /\ row \in Draft /\ row.status # "absent" /\ row.hash = saw[r].content
          /\ row.group = drafts[on[r]].group /\ row.version = drafts[on[r]].version
          /\ row.content = drafts[on[r]].content /\ row.contact = drafts[on[r]].contact
      BY <1>3, <2>1, <2>2, Zenon DEF Draft
    <2>4. writes(r, "approve", row) /\ pc[r] = "approve"
      BY <1>4, <2>1, Zenon DEF recordApproval, writes
    <2>5. "approve" \in Acting
      BY <1>0
    <2>6. /\ drafts'[on[r]] = row
          /\ \A d \in Drafts : /\ drafts'[d].group = drafts[d].group
                               /\ drafts'[d].version = drafts[d].version
                               /\ stored(d)' <=> stored(d)
                               /\ d # on[r] => drafts'[d] = drafts[d]
      BY <2>3, <2>4, <2>5, RowWritten
    <2> QED
      BY <1>1, <1>2, <2>3, <2>4, <2>6, Zenon
  <1>5. ASSUME NEW place \in {"send", "deliver", "cancel"},
               NEW status \in {"sent", "delivered", "cancelled"}, place = "cancel" <=> status = "cancelled",
               writes(r, place, withStatus(drafts[on[r]], status))
        PROVE  /\ drafts'[on[r]].content = drafts[on[r]].content
               /\ drafts'[on[r]].contact = drafts[on[r]].contact
               /\ drafts'[on[r]].hash = drafts[on[r]].hash
               /\ drafts'[on[r]].status = status /\ pc[r] = place
               /\ \A d \in Drafts : /\ drafts'[d].group = drafts[d].group
                                    /\ drafts'[d].version = drafts[d].version
                                    /\ stored(d)' <=> stored(d)
                                    /\ d # on[r] => drafts'[d] = drafts[d]
    <2>1. PICK row : row = withStatus(drafts[on[r]], status)
      OBVIOUS
    <2>2. status \in Statuses \ {"absent"} /\ place \in Acting
      BY <1>0, <1>5, Zenon
    <2>3. /\ row \in Draft /\ row.status = status /\ row.hash = drafts[on[r]].hash
          /\ row.group = drafts[on[r]].group /\ row.version = drafts[on[r]].version
          /\ row.content = drafts[on[r]].content /\ row.contact = drafts[on[r]].contact
      BY <1>3, <2>1, <2>2, Zenon DEF Draft, withStatus
    <2>4. writes(r, place, row) /\ pc[r] = place /\ row.status # "absent"
      BY <1>5, <2>1, <2>2, <2>3, Zenon DEF writes
    <2>5. /\ drafts'[on[r]] = row
          /\ \A d \in Drafts : /\ drafts'[d].group = drafts[d].group
                               /\ drafts'[d].version = drafts[d].version
                               /\ stored(d)' <=> stored(d)
                               /\ d # on[r] => drafts'[d] = drafts[d]
      BY <2>2, <2>3, <2>4, RowWritten
    <2> QED
      BY <2>3, <2>4, <2>5, Zenon
  <1>6. CASE recordSending(r)
    <2>1. pc[r] = "send" /\ writes(r, "send", withStatus(drafts[on[r]], "sent"))
      BY <1>6, Zenon DEF recordSending, writes
    <2>2. "send" # "cancel" /\ "sent" # "cancelled"
      OBVIOUS
    <2> QED
      BY <1>1, <1>2, <1>5, <2>1, <2>2, Zenon
  <1>7. CASE recordDelivery(r)
    <2>1. pc[r] = "deliver" /\ writes(r, "deliver", withStatus(drafts[on[r]], "delivered"))
      BY <1>7, Zenon DEF recordDelivery, writes
    <2>2. "deliver" # "cancel" /\ "delivered" # "cancelled"
      OBVIOUS
    <2> QED
      BY <1>1, <1>2, <1>5, <2>1, <2>2, Zenon
  <1>8. CASE recordCancellation(r)
    <2>1. pc[r] = "cancel" /\ writes(r, "cancel", withStatus(drafts[on[r]], "cancelled"))
      BY <1>8, Zenon DEF recordCancellation, writes
    <2>2. "cancelled" \notin {"approved", "sent", "delivered"}
      OBVIOUS
    <2> QED
      BY <1>1, <1>2, <1>5, <2>1, <2>2, Zenon
  <1> QED
    BY <1>4, <1>6, <1>7, <1>8

LEMMA EditedDraft ==
  ASSUME TypeOK, StoredInv, NEW r \in Requests, editDraft(r)
  PROVE  /\ on[r] \in Drafts /\ ends(r) /\ banned' = banned
         /\ drafts'[on[r]].hash = drafts[on[r]].hash
         /\ edit[r].field = "content" => drafts'[on[r]].status = "draft"
         /\ edit[r].field # "content" => /\ drafts'[on[r]].content = drafts[on[r]].content
                                         /\ drafts'[on[r]].status = drafts[on[r]].status
         /\ \A d \in Drafts : /\ drafts'[d].group = drafts[d].group
                              /\ drafts'[d].version = drafts[d].version
                              /\ stored(d)' <=> stored(d)
                              /\ d # on[r] => drafts'[d] = drafts[d]
  <1>1. on[r] \in Drafts /\ stored(on[r])
    BY SMT DEF StoredInv, editDraft, Acting
  <1>2. PICK row : row = edited(drafts[on[r]], edit[r])
    OBVIOUS
  <1>3. drafts[on[r]] \in Draft /\ edit[r] \in Edit
    BY <1>1, Zenon DEF TypeOK
  <1>4. /\ row \in Draft
        /\ row.group = drafts[on[r]].group /\ row.version = drafts[on[r]].version
        /\ row.hash = drafts[on[r]].hash
        /\ row.status \in {"draft", drafts[on[r]].status}
        /\ edit[r].field = "content" => row.status = "draft"
        /\ edit[r].field # "content" => /\ row.content = drafts[on[r]].content
                                        /\ row.status = drafts[on[r]].status
    BY <1>2, <1>3, EditedRow, Zenon
  <1>5. row.status # "absent"
    BY <1>1, <1>4, SMT DEF stored
  <1>6. drafts'[on[r]] = row /\ \A d \in Drafts \ {on[r]} : drafts'[d] = drafts[d]
    BY <1>1, <1>2, <1>4, RowTyped, Zenon DEF editDraft
  <1> QED
    BY <1>1, <1>4, <1>5, <1>6, Zenon DEF editDraft, stored

LEMMA StoppedDrafts ==
  ASSUME TypeOK, NEW r \in Requests, stopContinuations(r)
  PROVE  \A d \in Drafts :
           /\ drafts'[d].group = drafts[d].group /\ drafts'[d].version = drafts[d].version
           /\ stored(d)' <=> stored(d)
           /\ drafts'[d].content = drafts[d].content /\ drafts'[d].hash = drafts[d].hash
           /\ drafts'[d].status \in {drafts[d].status, "on_hold"}
  <1> SUFFICES ASSUME NEW d \in Drafts
               PROVE  /\ drafts'[d].group = drafts[d].group /\ drafts'[d].version = drafts[d].version
                      /\ stored(d)' <=> stored(d)
                      /\ drafts'[d].content = drafts[d].content /\ drafts'[d].hash = drafts[d].hash
                      /\ drafts'[d].status \in {drafts[d].status, "on_hold"}
    OBVIOUS
  <1>1. drafts[d] \in Draft /\ "on_hold" \in Statuses
    BY SMT DEF TypeOK, Statuses
  <1>2. CASE /\ drafts[d].status \in {"draft", "reviewed", "approved"}
             /\ drafts'[d] = withStatus(drafts[d], "on_hold")
    <2>1. PICK row : row = drafts'[d]
      OBVIOUS
    <2>2. /\ row.status = "on_hold"
          /\ row.group = drafts[d].group /\ row.version = drafts[d].version
          /\ row.content = drafts[d].content /\ row.hash = drafts[d].hash
      BY <1>1, <1>2, <2>1, Zenon DEF Draft, withStatus
    <2>3. drafts[d].status # "absent" /\ row.status # "absent"
      BY <1>2, <2>2, SMT
    <2> QED
      BY <2>1, <2>2, <2>3, Zenon DEF stored
  <1>3. CASE drafts'[d] = drafts[d]
    BY <1>3, Zenon DEF stored
  <1> QED
    BY <1>2, <1>3, Zenon DEF stopContinuations

LEMMA ReviewedDraft ==
  ASSUME TypeOK, NEW d \in Live, reviewDraft(d)
  PROVE  /\ d \in Drafts /\ drafts'[d].status = "reviewed"
         /\ drafts'[d].content = drafts[d].content /\ drafts'[d].hash = drafts[d].hash
         /\ \A e \in Drafts : /\ drafts'[e].group = drafts[e].group
                              /\ drafts'[e].version = drafts[e].version
                              /\ stored(e)' <=> stored(e)
                              /\ e # d => drafts'[e] = drafts[e]
  <1>1. d \in Drafts /\ drafts[d] \in Draft /\ "reviewed" \in Statuses /\ "reviewed" # "absent"
    BY DraftsAssumption, SMT DEF TypeOK, Statuses
  <1>2. PICK row : row = withStatus(drafts[d], "reviewed")
    OBVIOUS
  <1>3. /\ row \in Draft /\ row.status = "reviewed"
        /\ row.group = drafts[d].group /\ row.version = drafts[d].version
        /\ row.content = drafts[d].content /\ row.hash = drafts[d].hash
    BY <1>1, <1>2, Zenon DEF Draft, withStatus
  <1>4. drafts' = [drafts EXCEPT ![d] = row] /\ stored(d)
    BY <1>1, <1>2, Zenon DEF reviewDraft, withStatus, TypeOK
  <1>5. drafts'[d] = row /\ \A e \in Drafts \ {d} : drafts'[e] = drafts[e]
    BY <1>1, <1>3, <1>4, RowTyped, Zenon
  <1> QED
    BY <1>1, <1>3, <1>4, <1>5, Zenon DEF stored
-----------------------------------------------------------------------------
(* A step of one request leaves the others alone. *)
step(r) == create(r) \/ update(r) \/ send(r) \/ decide(r) \/ ban(r) \/ crash(r)

LEMMA EndedRequest ==
  ASSUME TypeOK, NEW r \in Requests, ends(r)
  PROVE  /\ pc'[r] = "idle" /\ on'[r] = None /\ firm'[r] = {}
         /\ \A q \in Requests \ {r} : /\ pc'[q] = pc[q] /\ on'[q] = on[q]
                                      /\ saw'[q] = saw[q] /\ firm'[q] = firm[q]
  BY Zenon DEF TypeOK, ends, goTo

LEMMA OthersStay ==
  ASSUME TypeOK, NEW r \in Requests, step(r), NEW q \in Requests \ {r}
  PROVE  pc'[q] = pc[q] /\ on'[q] = on[q] /\ saw'[q] = saw[q] /\ firm'[q] = firm[q]
  <1> DEFINE same == pc'[q] = pc[q] /\ on'[q] = on[q] /\ saw'[q] = saw[q] /\ firm'[q] = firm[q]
  <1>1. CASE ends(r)
    BY <1>1, EndedRequest
  <1>2. ASSUME NEW place, goTo(r, place) PROVE pc'[q] = pc[q]
    BY <1>2, Zenon DEF TypeOK, goTo
  <1>3. ASSUME NEW place, NEW d, starts(r, place, d) PROVE pc'[q] = pc[q] /\ on'[q] = on[q]
    BY <1>2, <1>3, Zenon DEF TypeOK, starts
  <1>4. ASSUME NEW allowed, NEW place, decides(r, allowed, place) PROVE pc'[q] = pc[q] /\ on'[q] = on[q]
    BY <1>3, <1>4, Zenon DEF decides
  <1>5. ASSUME NEW from, NEW to, readCompany(r, from, to) \/ readContact(r, from, to) PROVE same
    BY <1>1, <1>2, <1>5, Zenon DEF readCompany, readContact
  <1>6. CASE createDraft(r)
    BY <1>3, <1>6, Zenon DEF TypeOK, createDraft, touches
  <1>7. CASE numberDraft(r)
    BY <1>2, <1>7, Zenon DEF TypeOK, numberDraft
  <1>8. CASE updateDraft(r)
    BY <1>3, <1>8, Zenon DEF updateDraft
  <1>9. CASE forkDraft(r)
    BY <1>2, <1>9, Zenon DEF TypeOK, forkDraft
  <1>10. CASE approveDraft(r)
    BY <1>4, <1>10, Zenon DEF TypeOK, approveDraft
  <1>11. CASE sendDraft(r)
    BY <1>4, <1>11, Zenon DEF TypeOK, sendDraft, touches
  <1>12. CASE readDraft(r)
    BY <1>2, <1>12, Zenon DEF TypeOK, readDraft
  <1>13. CASE deliveredDraft(r) \/ cancelDraft(r)
    BY <1>4, <1>13, Zenon DEF deliveredDraft, cancelDraft
  <1>14. CASE setDnc(r)
    BY <1>3, <1>14, Zenon DEF setDnc
  <1>15. CASE create(r)
    BY <1>1, <1>5, <1>6, <1>7, <1>15, Zenon DEF create, insertDraft
  <1>16. CASE update(r)
    BY <1>1, <1>8, <1>9, <1>16, Zenon DEF update, editDraft
  <1>17. CASE send(r)
    BY <1>1, <1>5, <1>11, <1>12, <1>17, Zenon DEF send, recordSending, writes
  <1>18. CASE decide(r)
    BY <1>1, <1>10, <1>13, <1>18, Zenon DEF decide, recordApproval, recordDelivery, recordCancellation,
       writes
  <1>19. CASE ban(r) \/ crash(r)
    BY <1>1, <1>14, <1>19, Zenon DEF ban, crash, stopContinuations
  <1> QED
    BY <1>15, <1>16, <1>17, <1>18, <1>19, Zenon DEF step

(* What becomes of the rows. *)
LEMMA RowsMove ==
  ASSUME TypeOK, StoredInv, NEW r \in Requests, step(r), ~insertDraft(r), NEW d \in Drafts
  PROVE  /\ drafts'[d].group = drafts[d].group
         /\ drafts'[d].version = drafts[d].version
         /\ stored(d)' <=> stored(d)
  <1> DEFINE kept == /\ drafts'[d].group = drafts[d].group
                     /\ drafts'[d].version = drafts[d].version
                     /\ stored(d)' <=> stored(d)
  <1>1. CASE drafts' = drafts
    BY <1>1, Zenon DEF stored
  <1>2. CASE editDraft(r)
    BY <1>2, EditedDraft
  <1>3. CASE recordApproval(r) \/ recordSending(r) \/ recordDelivery(r) \/ recordCancellation(r)
    BY <1>3, RecordedRow
  <1>4. CASE stopContinuations(r)
    BY <1>4, StoppedDrafts
  <1>5. CASE create(r)
    BY <1>1, <1>5, Zenon DEF create, createDraft, readCompany, readContact, numberDraft
  <1>6. CASE update(r)
    BY <1>1, <1>2, <1>6, Zenon DEF update, updateDraft, forkDraft
  <1>7. CASE send(r)
    BY <1>1, <1>3, <1>7, Zenon DEF send, sendDraft, decides, readCompany, readContact, readDraft
  <1>8. CASE decide(r)
    BY <1>1, <1>3, <1>8, Zenon DEF decide, approveDraft, deliveredDraft, cancelDraft, decides
  <1>9. CASE ban(r) \/ crash(r)
    BY <1>1, <1>4, <1>9, Zenon DEF ban, crash, setDnc
  <1> QED
    BY <1>5, <1>6, <1>7, <1>8, <1>9, Zenon DEF step

LEMMA InsertedRow ==
  ASSUME TypeOK, NEW r \in Requests, insertDraft(r)
  PROVE  /\ pc[r] = "insert" /\ ends(r) /\ UNCHANGED <<banned, raced>>
         /\ \/ drafts' = drafts
            \/ /\ ~taken(saw[r])
               /\ \E d \in Drafts : /\ ~stored(d) /\ drafts'[d] = saw[r]
                                    /\ \A e \in Drafts \ {d} : drafts'[e] = drafts[e]
  BY Zenon DEF TypeOK, insertDraft

(* Where a request is heading for. *)
LEMMA RequestMoves ==
  ASSUME TypeOK, StoredInv, NewInv, NEW r \in Requests, step(r)
  PROVE  /\ pc'[r] \in Acting => on'[r] \in Drafts /\ stored(on'[r])
         /\ pc'[r] \in Creating => saw'[r].status = "draft" /\ saw'[r].group \in Groups
  <1> DEFINE heads == /\ pc'[r] \in Acting => on'[r] \in Drafts /\ stored(on'[r])
                      /\ pc'[r] \in Creating => saw'[r].status = "draft" /\ saw'[r].group \in Groups
  <1>0. /\ saw[r] \in Draft /\ edit[r] \in Edit
        /\ DOMAIN saw = Requests /\ DOMAIN pc = Requests /\ DOMAIN on = Requests
        /\ saw \in [Requests -> Draft] /\ pc \in [Requests -> Places]
        /\ on \in [Requests -> Drafts \cup Bannable \cup {None}]
    BY Zenon DEF TypeOK
  <1>1. CASE ends(r)
    <2>1. pc'[r] = "idle"
      BY <1>1, EndedRequest
    <2> QED
      BY <2>1, SMT DEF Acting, Creating, Sending
  <1>2. ASSUME NEW place, goTo(r, place) PROVE pc'[r] = place
    BY <1>0, <1>2, Zenon DEF goTo
  <1>3. ASSUME NEW place, NEW d, starts(r, place, d) PROVE pc'[r] = place /\ on'[r] = d
    BY <1>0, <1>2, <1>3, Zenon DEF starts
  <1>4. ASSUME NEW allowed, NEW place \in Acting \ Creating, "absent" \notin allowed,
               decides(r, allowed, place)
        PROVE  heads
    <2>1. PICK d \in Live : drafts[d].status \in allowed /\ starts(r, place, d)
      BY <1>4, Zenon DEF decides
    <2>2. d \in Drafts /\ stored(d)
      BY <1>4, <2>1, DraftsAssumption, Zenon DEF stored
    <2> QED
      BY <1>3, <1>4, <2>1, <2>2, Zenon
  <1>5. /\ Acting \cap Creating = {}
        /\ {"fork", "edit", "approve", "deliver", "cancel", "sendCompany", "sendDraft",
            "sendContact", "send"} = Acting
        /\ {"company", "contact", "number", "insert"} = Creating
        /\ "hold" \notin Acting \cup Creating
    BY SMT DEF Acting, Creating, Sending
  <1>6. CASE createDraft(r)
    <2>0. PICK g \in Groups : \E c, k :
            saw' = [saw EXCEPT ![r] = [status |-> "draft", group |-> g, version |-> 0,
                                       content |-> c, contact |-> k, hash |-> None]]
      BY <1>6, Zenon DEF createDraft
    <2>1. PICK c, k :
            saw' = [saw EXCEPT ![r] = [status |-> "draft", group |-> g, version |-> 0,
                                       content |-> c, contact |-> k, hash |-> None]]
      BY <2>0, Zenon
    <2>2. saw'[r].status = "draft" /\ saw'[r].group = g
      BY <1>0, <2>1, Zenon
    <2>3. pc'[r] = "company"
      BY <1>3, <1>6, Zenon DEF createDraft
    <2> QED
      BY <1>5, <2>2, <2>3, Zenon
  <1>7. ASSUME NEW from, NEW to, readCompany(r, from, to) \/ readContact(r, from, to),
               to \in Creating => from \in Creating, to \in Acting => from \in Acting
        PROVE  heads
    <2>1. CASE goTo(r, to) /\ UNCHANGED <<on, saw>>
      <3>1. pc'[r] = to /\ pc[r] = from
        BY <1>2, <1>7, <2>1, Zenon DEF readCompany, readContact
      <3> QED
        BY <1>7, <2>1, <3>1, Zenon DEF StoredInv, NewInv
    <2> QED
      BY <1>1, <1>7, <2>1, Zenon DEF readCompany, readContact
  <1>8. CASE numberDraft(r)
    <2>1. pc[r] = "number" /\ pc'[r] = "insert"
      BY <1>2, <1>8, Zenon DEF numberDraft
    <2>2. saw'[r] = [saw[r] EXCEPT !.version = nextVersion(saw[r].group)]
      BY <1>0, <1>8, Zenon DEF numberDraft
    <2>3. saw'[r].status = saw[r].status /\ saw'[r].group = saw[r].group
      BY <1>0, <2>2, Zenon DEF Draft
    <2> QED
      BY <1>5, <2>1, <2>3, Zenon DEF NewInv
  <1>9. CASE updateDraft(r)
    <2>1. PICK d \in Live : stored(d) /\ starts(r, IF frozen(drafts[d]) THEN "fork" ELSE "edit", d)
      BY <1>9, Zenon DEF updateDraft
    <2>2. pc'[r] \in {"fork", "edit"} /\ on'[r] = d
      BY <1>3, <2>1, Zenon
    <2> QED
      BY <1>5, <2>1, <2>2, DraftsAssumption, Zenon
  <1>10. CASE forkDraft(r)
    <2>1. pc[r] = "fork" /\ pc'[r] = "insert"
      BY <1>2, <1>10, Zenon DEF forkDraft
    <2>2. on[r] \in Drafts /\ drafts[on[r]].group \in Groups
      BY <1>5, <2>1, Zenon DEF StoredInv
    <2>3. PICK row : row = edited(drafts[on[r]], edit[r])
      OBVIOUS
    <2>4. drafts[on[r]] \in Draft
      BY <2>2, Zenon DEF TypeOK
    <2>5. row \in Draft /\ row.group = drafts[on[r]].group
      BY <1>0, <2>3, <2>4, EditedRow
    <2>6. saw'[r] = [row EXCEPT !.status = "draft", !.hash = None, !.version = nextVersion(row.group)]
      BY <1>0, <1>10, <2>3, Zenon DEF forkDraft
    <2>7. saw'[r].status = "draft" /\ saw'[r].group = row.group
      BY <2>5, <2>6, Zenon DEF Draft
    <2> QED
      BY <1>5, <2>1, <2>2, <2>5, <2>7, Zenon
  <1>11. CASE readDraft(r)
    <2>1. pc[r] = "sendDraft" /\ pc'[r] = "sendContact" /\ on' = on
      BY <1>2, <1>11, Zenon DEF readDraft
    <2> QED
      BY <1>5, <2>1, Zenon DEF StoredInv
  <1>12. CASE create(r)
    <2>1. heads \/ \/ readCompany(r, "company", "contact") \/ readContact(r, "contact", "number")
      BY <1>1, <1>6, <1>8, <1>12, Zenon DEF create, insertDraft
    <2> QED
      BY <1>5, <1>7, <2>1, Zenon
  <1>13. CASE update(r)
    BY <1>1, <1>9, <1>10, <1>13, Zenon DEF update, editDraft
  <1>14. CASE send(r)
    <2>1. "absent" \notin {"approved"}
      BY SMT
    <2> QED
      BY <1>1, <1>4, <1>5, <1>7, <1>11, <1>14, <2>1, Zenon DEF send, sendDraft, recordSending, writes
  <1>15. CASE decide(r)
    <2>1. "absent" \notin {"draft", "reviewed"} /\ "absent" \notin {"sent", "delivered"}
          /\ "absent" \notin Statuses \ {"absent", "sent"}
      BY SMT
    <2> QED
      BY <1>1, <1>4, <1>5, <1>15, <2>1, Zenon DEF decide, approveDraft, deliveredDraft, cancelDraft,
         recordApproval, recordDelivery, recordCancellation, writes
  <1>16. CASE ban(r) \/ crash(r)
    BY <1>1, <1>3, <1>5, <1>16, Zenon DEF ban, crash, setDnc, stopContinuations
  <1> QED
    BY <1>12, <1>13, <1>14, <1>15, <1>16, Zenon DEF step
-----------------------------------------------------------------------------
(* The numbering *)

LEMMA NumberStep ==
  ASSUME TypeOK, StoredInv, NewInv, VersionsAreContiguous, [Next]_vars
  PROVE  StoredInv' /\ NewInv' /\ VersionsAreContiguous'
  <1>1. ASSUME drafts' = drafts, pc' = pc, on' = on, saw' = saw
        PROVE  StoredInv' /\ NewInv' /\ VersionsAreContiguous'
    <2>1. /\ \A d : stored(d)' <=> stored(d)
          /\ \A g : rows(g)' = rows(g)
          /\ \A g : versionsOf(g)' = versionsOf(g)
      BY <1>1, Zenon DEF stored, rows, versionsOf
    <2> QED
      BY <1>1, <2>1, Zenon DEF StoredInv, NewInv, VersionsAreContiguous, rows
  <1>2. ASSUME NEW r \in Requests, step(r), ~insertDraft(r)
        PROVE  StoredInv' /\ NewInv' /\ VersionsAreContiguous'
    <2>1. \A d \in Drafts : /\ drafts'[d].group = drafts[d].group
                            /\ drafts'[d].version = drafts[d].version
                            /\ stored(d)' <=> stored(d)
      BY <1>2, RowsMove
    <2>2. VersionsAreContiguous' /\ \A g : rows(g)' = rows(g)
      BY <2>1, NumbersStay
    <2>3. StoredInv'
      <3>1. ASSUME NEW q \in Requests, pc'[q] \in Acting PROVE on'[q] \in Drafts /\ stored(on'[q])
        <4>1. CASE q = r
          BY <1>2, <3>1, <4>1, RequestMoves
        <4>2. CASE q # r
          BY <1>2, <3>1, <4>2, OthersStay, Zenon DEF StoredInv
        <4> QED
          BY <4>1, <4>2
      <3> QED
        BY <2>1, <3>1, Zenon DEF StoredInv, stored
    <2>4. NewInv'
      <3> SUFFICES ASSUME NEW q \in Requests
                   PROVE  /\ pc'[q] \in Creating => saw'[q].status = "draft" /\ saw'[q].group \in Groups
                          /\ pc'[q] = "insert" =>
                               saw'[q].version \in 1 .. Cardinality(rows(saw'[q].group)) + 1
        BY <2>2, Zenon DEF NewInv
      <3>1. CASE q # r
        BY <1>2, <3>1, OthersStay, Zenon DEF NewInv
      <3>2. CASE q = r
        <4>1. pc'[r] \in Creating => saw'[r].status = "draft" /\ saw'[r].group \in Groups
          BY <1>2, RequestMoves
        <4>2. ASSUME pc'[r] = "insert" PROVE saw'[r].version = nextVersion(saw'[r].group)
          <5>1. numberDraft(r) \/ forkDraft(r)
            <6>1. ~ends(r)
              BY <4>2, EndedRequest, SMT
            <6>2. \A place : goTo(r, place) => place = "insert"
              BY <4>2, Zenon DEF TypeOK, goTo
            <6>3. \A allowed, place : decides(r, allowed, place) => place = "insert"
              BY <6>2, Zenon DEF decides, starts
            <6>4. \A from, to : readCompany(r, from, to) \/ readContact(r, from, to) => to = "insert"
              BY <6>1, <6>2, Zenon DEF readCompany, readContact
            <6>5. CASE create(r)
              <7>1. ~createDraft(r)
                BY <6>2, SMT DEF createDraft, starts
              <7>2. ~readCompany(r, "company", "contact") /\ ~readContact(r, "contact", "number")
                BY <6>4, SMT
              <7> QED
                BY <1>2, <6>5, <7>1, <7>2, Zenon DEF create
            <6>6. CASE update(r)
              <7>1. ~updateDraft(r)
                BY <6>2, SMT DEF updateDraft, starts
              <7> QED
                BY <6>1, <6>6, <7>1, Zenon DEF update, editDraft
            <6>7. CASE send(r)
              <7>1. ~sendDraft(r)
                BY <6>3, SMT DEF sendDraft
              <7>2. /\ ~readCompany(r, "sendCompany", "sendDraft")
                    /\ ~readContact(r, "sendContact", "send")
                BY <6>4, SMT
              <7>3. ~readDraft(r)
                BY <6>2, SMT DEF readDraft
              <7> QED
                BY <6>1, <6>7, <7>1, <7>2, <7>3, Zenon DEF send, recordSending, writes
            <6>8. CASE decide(r)
              <7>1. ~approveDraft(r) /\ ~deliveredDraft(r) /\ ~cancelDraft(r)
                BY <6>3, SMT DEF approveDraft, deliveredDraft, cancelDraft
              <7> QED
                BY <6>1, <6>8, <7>1, Zenon DEF decide, recordApproval, recordDelivery,
                   recordCancellation, writes
            <6>9. CASE ban(r) \/ crash(r)
              <7>1. ~setDnc(r)
                BY <6>2, SMT DEF setDnc, starts
              <7> QED
                BY <6>1, <6>9, <7>1, Zenon DEF ban, crash, stopContinuations
            <6> QED
              BY <1>2, <6>5, <6>6, <6>7, <6>8, <6>9, Zenon DEF step
          <5>2. CASE numberDraft(r)
            <6>1. saw[r] \in Draft /\ saw'[r] = [saw[r] EXCEPT !.version = nextVersion(saw[r].group)]
              BY <5>2, Zenon DEF TypeOK, numberDraft
            <6> QED
              BY <6>1, Zenon DEF Draft
          <5>3. CASE forkDraft(r)
            <6>1. PICK row : row = edited(drafts[on[r]], edit[r])
              OBVIOUS
            <6>2. saw'[r] = [row EXCEPT !.status = "draft", !.hash = None,
                                        !.version = nextVersion(row.group)]
              BY <5>3, <6>1, Zenon DEF TypeOK, forkDraft
            <6>3. row \in Draft
              <7>1. on[r] \in Drafts
                BY <5>3, SMT DEF StoredInv, Acting, forkDraft
              <7>2. drafts[on[r]] \in Draft /\ edit[r] \in Edit
                BY <7>1, Zenon DEF TypeOK
              <7> QED
                BY <6>1, <7>2, EditedRow
            <6> QED
              BY <6>2, <6>3, Zenon DEF Draft
          <5> QED
            BY <5>1, <5>2, <5>3
        <4>3. ASSUME pc'[r] = "insert"
              PROVE  saw'[r].version \in 1 .. Cardinality(rows(saw'[r].group)) + 1
          <5>1. saw'[r].group \in Groups
            BY <4>1, <4>3, SMT DEF Creating
          <5>2. saw'[r].version = Cardinality(rows(saw'[r].group)) + 1
            BY <4>2, <4>3, <5>1, NextVersionIsNext, Zenon
          <5>3. Cardinality(rows(saw'[r].group)) \in Nat
            BY RowsOfAGroup
          <5> QED
            BY <5>2, <5>3, SMT
        <4> QED
          BY <3>2, <4>1, <4>3
      <3> QED
        BY <3>1, <3>2
    <2> QED
      BY <2>2, <2>3, <2>4
  <1>3. ASSUME NEW r \in Requests, insertDraft(r), drafts' # drafts
        PROVE  StoredInv' /\ NewInv' /\ VersionsAreContiguous'
    <2>1. /\ pc[r] = "insert" /\ ends(r) /\ ~taken(saw[r])
          /\ \E d \in Drafts : /\ ~stored(d) /\ drafts'[d] = saw[r]
                               /\ \A e \in Drafts \ {d} : drafts'[e] = drafts[e]
      BY <1>3, InsertedRow
    <2>2. PICK d \in Drafts : /\ ~stored(d) /\ drafts'[d] = saw[r]
                              /\ \A e \in Drafts \ {d} : drafts'[e] = drafts[e]
      BY <2>1
    <2>3. PICK h : h = saw[r].group
      OBVIOUS
    <2>4. PICK n \in Nat : n = Cardinality(rows(h))
      BY RowsOfAGroup
    <2>5. PICK v : v = saw[r].version
      OBVIOUS
    <2>6. h \in Groups /\ saw[r].status = "draft" /\ v \in 1 .. n + 1
      <3>1. pc[r] \in Creating
        BY <2>1, SMT DEF Creating
      <3> QED
        BY <2>1, <2>3, <2>4, <2>5, <3>1, Zenon DEF NewInv
    <2>7. /\ stored(d)' /\ drafts'[d].group = h /\ drafts'[d].version = v
          /\ \A e \in Drafts \ {d} : stored(e)' <=> stored(e)
      <3>1. saw[r].status # "absent"
        BY <2>6, SMT
      <3> QED
        BY <2>2, <2>3, <2>5, <3>1, Zenon DEF stored
    <2>8. rows(h)' = rows(h) \cup {d} /\ d \notin rows(h)
      <3>1. \A e \in Drafts : e \in rows(h)' <=> e \in rows(h) \/ e = d
        BY <2>2, <2>7, Zenon DEF rows
      <3>2. rows(h)' \subseteq Drafts /\ rows(h) \subseteq Drafts /\ d \notin rows(h)
        BY <2>2, Zenon DEF rows
      <3> QED
        BY <3>1, <3>2, Zenon
    <2>9. \A g : g # h => rows(g)' = rows(g)
      <3> SUFFICES ASSUME NEW g, g # h PROVE rows(g)' = rows(g)
        OBVIOUS
      <3>1. \A e \in Drafts : e \in rows(g)' <=> e \in rows(g)
        BY <2>2, <2>7, Zenon DEF rows
      <3>2. rows(g)' \subseteq Drafts /\ rows(g) \subseteq Drafts
        BY Zenon DEF rows
      <3> QED
        BY <3>1, <3>2, Zenon
    <2>10. Cardinality(rows(h)') = n + 1
      BY <2>4, <2>8, RowsOfAGroup, FS_AddElement
    <2>11. /\ \A g : versionsOf(g) = {drafts[e].version : e \in rows(g)}
           /\ \A g : versionsOf(g)' = {drafts'[e].version : e \in rows(g)'}
      BY Zenon DEF versionsOf, rows
    <2>12. /\ v = n + 1
           /\ versionsOf(h) = 1 .. n
      <3>1. versionsOf(h) = 1 .. n
        BY <2>4, <2>6, Zenon DEF VersionsAreContiguous, rows
      <3>2. v \notin versionsOf(h)
        BY <2>1, <2>3, <2>5, Zenon DEF taken
      <3> QED
        BY <2>6, <3>1, <3>2, SMT
    <2>13. versionsOf(h)' = versionsOf(h) \cup {v}
      <3>1. \A e \in rows(h) : drafts'[e].version = drafts[e].version
        BY <2>2, <2>8, Zenon DEF rows
      <3>2. ASSUME NEW w PROVE w \in versionsOf(h)' <=> w \in versionsOf(h) \/ w = v
        <4>1. w \in versionsOf(h)' <=> \E e \in rows(h) \cup {d} : w = drafts'[e].version
          BY <2>8, <2>11, Zenon
        <4>2. w \in versionsOf(h) <=> \E e \in rows(h) : w = drafts[e].version
          BY <2>11, Zenon
        <4> QED
          BY <4>1, <4>2, <3>1, <2>7, Zenon
      <3> QED
        BY <3>2
    <2>14. \A g : g # h => versionsOf(g)' = versionsOf(g)
      <3> SUFFICES ASSUME NEW g, g # h PROVE versionsOf(g)' = versionsOf(g)
        OBVIOUS
      <3>1. \A e \in rows(g) : drafts'[e].version = drafts[e].version
        BY <2>2, <2>7, Zenon DEF rows, stored
      <3>2. {drafts'[e].version : e \in rows(g)} = {drafts[e].version : e \in rows(g)}
        BY <3>1
      <3> QED
        BY <2>9, <2>11, <3>2, Zenon
    <2>15. VersionsAreContiguous'
      <3> SUFFICES ASSUME NEW g \in Groups PROVE versionsOf(g)' = 1 .. Cardinality(rows(g)')
        BY Zenon DEF VersionsAreContiguous, rows
      <3>1. CASE g = h
        <4>1. (1 .. n) \cup {n + 1} = 1 .. n + 1
          BY SMT
        <4> QED
          BY <3>1, <4>1, <2>10, <2>12, <2>13, Zenon
      <3>2. CASE g # h
        BY <3>2, <2>9, <2>14, Zenon DEF VersionsAreContiguous, rows
      <3> QED
        BY <3>1, <3>2
    <2>16. /\ \A e \in Drafts : stored(e) => stored(e)'
           /\ \A e \in Drafts : stored(e)' => drafts'[e].group \in Groups
      BY <2>2, <2>6, <2>7, Zenon DEF StoredInv
    <2>17. StoredInv'
      <3>1. ASSUME NEW q \in Requests, pc'[q] \in Acting PROVE on'[q] \in Drafts /\ drafts'[on'[q]].status # "absent"
        <4>1. CASE q = r
          BY <3>1, <4>1, <2>1, EndedRequest, SMT DEF Acting, Sending
        <4>2. CASE q # r
          <5>1. pc'[q] = pc[q] /\ on'[q] = on[q]
            BY <2>1, <4>2, EndedRequest
          <5>2. on[q] \in Drafts /\ stored(on[q])
            BY <3>1, <5>1, Zenon DEF StoredInv
          <5> QED
            BY <5>1, <5>2, <2>16, Zenon DEF stored
        <4> QED
          BY <4>1, <4>2
      <3> QED
        BY <2>16, <3>1, Zenon DEF StoredInv, stored
    <2>18. NewInv'
      <3> SUFFICES ASSUME NEW q \in Requests
                   PROVE  /\ pc'[q] \in Creating => saw'[q].status = "draft" /\ saw'[q].group \in Groups
                          /\ pc'[q] = "insert" =>
                               \A g : g = saw'[q].group => saw'[q].version \in 1 .. Cardinality(rows(g)') + 1
        BY Zenon DEF NewInv, rows, stored
      <3>1. CASE q = r
        <4>1. pc'[q] = "idle"
          BY <3>1, <2>1, EndedRequest
        <4> QED
          BY <4>1, SMT DEF Creating
      <3>2. CASE q # r
        <4>1. pc'[q] = pc[q] /\ saw'[q] = saw[q]
          BY <3>2, <2>1, EndedRequest
        <4>2. ASSUME pc[q] = "insert" PROVE \A g : g = saw[q].group => saw[q].version \in 1 .. Cardinality(rows(g)') + 1
          <5> SUFFICES ASSUME NEW g, g = saw[q].group PROVE saw[q].version \in 1 .. Cardinality(rows(g)') + 1
            OBVIOUS
          <5>2. saw[q].version \in 1 .. Cardinality(rows(g)) + 1
            BY <4>2, Zenon DEF NewInv
          <5>3. CASE g = h
            BY <5>2, <5>3, <2>4, <2>10, SMT
          <5>4. CASE g # h
            BY <5>2, <5>4, <2>9, Zenon
          <5> QED
            BY <5>3, <5>4
        <4> QED
          BY <4>1, <4>2, Zenon DEF NewInv
      <3> QED
        BY <3>1, <3>2
    <2> QED
      BY <2>15, <2>17, <2>18
  <1>4. ASSUME NEW r \in Requests, insertDraft(r), drafts' = drafts
        PROVE  StoredInv' /\ NewInv' /\ VersionsAreContiguous'
    <2>1. ends(r)
      BY <1>4, InsertedRow
    <2>2. VersionsAreContiguous' /\ \A g : rows(g)' = rows(g)
      BY <1>4, NumbersStay, Zenon DEF stored
    <2>3. /\ pc'[r] = "idle"
          /\ \A q \in Requests \ {r} : pc'[q] = pc[q] /\ on'[q] = on[q] /\ saw'[q] = saw[q]
      BY <2>1, EndedRequest
    <2>4. "idle" \notin Acting \cup Creating /\ "idle" # "insert"
      BY SMT DEF Acting, Sending, Creating
    <2>5. StoredInv'
      BY <1>4, <2>3, <2>4, Zenon DEF StoredInv, stored
    <2>6. NewInv'
      BY <2>2, <2>3, <2>4, Zenon DEF NewInv
    <2> QED
      BY <2>2, <2>5, <2>6
  <1>5. ASSUME NEW d \in Live, reviewDraft(d)
        PROVE  StoredInv' /\ NewInv' /\ VersionsAreContiguous'
    <2>1. \A e \in Drafts : /\ drafts'[e].group = drafts[e].group
                            /\ drafts'[e].version = drafts[e].version
                            /\ stored(e)' <=> stored(e)
      BY <1>5, ReviewedDraft
    <2>2. VersionsAreContiguous' /\ \A g : rows(g)' = rows(g)
      BY <2>1, NumbersStay
    <2>3. pc' = pc /\ on' = on /\ saw' = saw
      BY <1>5, Zenon DEF reviewDraft, requests
    <2>4. StoredInv'
      BY <2>1, <2>3, Zenon DEF StoredInv, stored
    <2>5. NewInv'
      BY <2>2, <2>3, Zenon DEF NewInv
    <2> QED
      BY <2>2, <2>4, <2>5
  <1>6. ASSUME NEW who, liftDnc(who) PROVE StoredInv' /\ NewInv' /\ VersionsAreContiguous'
    BY <1>1, <1>6, Zenon DEF liftDnc, requests
  <1>7. CASE UNCHANGED vars
    BY <1>1, <1>7, Zenon DEF vars, requests
  <1> QED
    BY <1>2, <1>3, <1>4, <1>5, <1>6, <1>7, Zenon DEF Next, step
-----------------------------------------------------------------------------
(* What was hashed *)

Deciding == Sending \cup {"approve", "deliver"}

LEMMA HeadsForDecision ==
  ASSUME TypeOK, StoredInv, NEW r \in Requests, step(r), pc'[r] \in Deciding
  PROVE  /\ drafts' = drafts /\ raced' = raced
         /\ \/ /\ pc'[r] = "approve" /\ on'[r] \in Drafts
               /\ saw'[r].content = drafts[on'[r]].content
            \/ pc'[r] # "approve" /\ pc[r] \in Sending /\ on'[r] = on[r]
            \/ /\ pc'[r] # "approve" /\ on'[r] \in Drafts
               /\ drafts[on'[r]].status \in {"approved", "sent", "delivered"}
  <1> DEFINE heads == /\ drafts' = drafts /\ raced' = raced
                      /\ \/ /\ pc'[r] = "approve" /\ on'[r] \in Drafts
                            /\ saw'[r].content = drafts[on'[r]].content
                         \/ pc'[r] # "approve" /\ pc[r] \in Sending /\ on'[r] = on[r]
                         \/ /\ pc'[r] # "approve" /\ on'[r] \in Drafts
                            /\ drafts[on'[r]].status \in {"approved", "sent", "delivered"}
  <1>0. /\ DOMAIN pc = Requests /\ pc = [q \in Requests |-> pc[q]]
        /\ DOMAIN on = Requests /\ on = [q \in Requests |-> on[q]]
    BY Zenon DEF TypeOK
  <1>1. pc'[r] \in {"sendCompany", "sendDraft", "sendContact", "send", "approve", "deliver"}
    BY SMT DEF Deciding, Sending
  <1>2. ~ends(r)
    BY <1>1, EndedRequest, SMT
  <1>3. \A place : goTo(r, place) => pc'[r] = place
    BY <1>0, Zenon DEF goTo
  <1>4. \A place, d : starts(r, place, d) => pc'[r] = place /\ on'[r] = d
    BY <1>0, <1>3, Zenon DEF starts
  <1>5. \A allowed, place : decides(r, allowed, place) =>
          /\ pc'[r] = place /\ on'[r] \in Drafts /\ drafts[on'[r]].status \in allowed
          /\ drafts' = drafts /\ raced' = raced
    BY <1>4, DraftsAssumption, Zenon DEF decides
  <1>6. \A from, to : readCompany(r, from, to) \/ readContact(r, from, to) =>
          pc'[r] = to /\ pc[r] = from /\ on' = on /\ drafts' = drafts /\ raced' = raced
    BY <1>2, <1>3, Zenon DEF readCompany, readContact
  <1>7. ASSUME create(r) PROVE FALSE
    <2>1. ~createDraft(r)
      BY <1>1, <1>4, SMT DEF createDraft
    <2>2. ~readCompany(r, "company", "contact") /\ ~readContact(r, "contact", "number")
      BY <1>1, <1>6, SMT
    <2>3. ~numberDraft(r)
      BY <1>1, <1>3, SMT DEF numberDraft
    <2> QED
      BY <1>2, <1>7, <2>1, <2>2, <2>3, Zenon DEF create, insertDraft
  <1>8. ASSUME update(r) PROVE FALSE
    <2>1. ~updateDraft(r)
      BY <1>1, <1>4, SMT DEF updateDraft
    <2>2. ~forkDraft(r)
      BY <1>1, <1>3, SMT DEF forkDraft
    <2> QED
      BY <1>2, <1>8, <2>1, <2>2, Zenon DEF update, editDraft
  <1>9. CASE send(r)
    <2>1. CASE sendDraft(r)
      <3>1. pc'[r] = "sendCompany" /\ on'[r] \in Drafts /\ drafts[on'[r]].status \in {"approved"}
            /\ drafts' = drafts /\ raced' = raced
        BY <1>5, <2>1, Zenon DEF sendDraft
      <3> QED
        BY <3>1, SMT
    <2>2. CASE readCompany(r, "sendCompany", "sendDraft") \/ readContact(r, "sendContact", "send")
      <3>1. /\ pc'[r] \in {"sendDraft", "send"} /\ pc[r] \in {"sendCompany", "sendContact"}
            /\ on' = on /\ drafts' = drafts /\ raced' = raced
        BY <1>6, <2>2, Zenon
      <3> QED
        BY <3>1, SMT DEF Sending
    <2>3. CASE readDraft(r)
      <3>1. /\ pc'[r] = "sendContact" /\ pc[r] = "sendDraft"
            /\ on' = on /\ drafts' = drafts /\ raced' = raced
        BY <1>3, <2>3, Zenon DEF readDraft
      <3> QED
        BY <3>1, SMT DEF Sending
    <2> QED
      BY <1>2, <1>9, <2>1, <2>2, <2>3, Zenon DEF send, recordSending, writes
  <1>10. CASE decide(r)
    <2>1. CASE approveDraft(r)
      <3>1. pc'[r] = "approve" /\ on'[r] \in Drafts /\ drafts' = drafts /\ raced' = raced
        BY <1>5, <2>1, Zenon DEF approveDraft
      <3>2. saw[r] \in Draft /\ saw' = [saw EXCEPT ![r] = [saw[r] EXCEPT !.content = drafts[on'[r]].content]]
        BY <2>1, Zenon DEF approveDraft, TypeOK
      <3>3. saw'[r] = [saw[r] EXCEPT !.content = drafts[on'[r]].content]
        BY <3>2, Zenon DEF TypeOK
      <3>4. saw'[r].content = drafts[on'[r]].content
        BY <3>2, <3>3, Zenon DEF Draft
      <3> QED
        BY <3>1, <3>4, Zenon
    <2>2. CASE deliveredDraft(r)
      <3>1. pc'[r] = "deliver" /\ on'[r] \in Drafts /\ drafts[on'[r]].status \in {"sent", "delivered"}
            /\ drafts' = drafts /\ raced' = raced
        BY <1>5, <2>2, Zenon DEF deliveredDraft
      <3> QED
        BY <3>1, SMT
    <2>3. ASSUME cancelDraft(r) PROVE FALSE
      <3>1. pc'[r] = "cancel"
        BY <1>5, <2>3, Zenon DEF cancelDraft
      <3> QED
        BY <1>1, <3>1, SMT
    <2> QED
      BY <1>2, <1>10, <2>1, <2>2, <2>3, Zenon DEF decide, recordApproval, recordDelivery,
         recordCancellation, writes
  <1>11. ASSUME ban(r) \/ crash(r) PROVE FALSE
    <2>1. ~setDnc(r)
      BY <1>1, <1>4, SMT DEF setDnc
    <2> QED
      BY <1>2, <1>11, <2>1, Zenon DEF ban, crash, stopContinuations
  <1> QED
    BY <1>7, <1>8, <1>9, <1>10, <1>11, Zenon DEF step

(* The rows of a step that has not raced a draft: content and hash stay    *)
(* for whoever is busy with it, or an approval makes them equal.           *)
LEMMA RacesAreKnown ==
  ASSUME TypeOK, StoredInv, NewInv, HashInv, ApprovedIsWhatWasHashed, NEW r \in Requests, step(r),
         NEW d \in Drafts, d \notin raced'
  PROVE  /\ d \notin raced
         /\ drafts'[d].status \in {"approved", "sent", "delivered"} => drafts'[d].hash = drafts'[d].content
         /\ \A q \in Requests \ {r} : on[q] = d /\ stored(d) =>
              /\ drafts'[d].content = drafts[d].content
              /\ \/ drafts'[d].hash = drafts[d].hash
                 \/ drafts'[d].hash = drafts'[d].content
  <1> DEFINE known == /\ d \notin raced
                      /\ drafts'[d].status \in {"approved", "sent", "delivered"} =>
                           drafts'[d].hash = drafts'[d].content
                      /\ \A q \in Requests \ {r} : on[q] = d /\ stored(d) =>
                           /\ drafts'[d].content = drafts[d].content
                           /\ \/ drafts'[d].hash = drafts[d].hash
                              \/ drafts'[d].hash = drafts'[d].content
  <1>0. d \notin raced => (drafts[d].status \in {"approved", "sent", "delivered"} =>
                             drafts[d].hash = drafts[d].content)
    BY Zenon DEF ApprovedIsWhatWasHashed
  <1>1. ASSUME drafts' = drafts, raced' = raced PROVE known
    BY <1>0, <1>1, Zenon
  <1>2. CASE editDraft(r)
    <2>1. /\ on[r] \in Drafts
          /\ drafts'[on[r]].hash = drafts[on[r]].hash
          /\ edit[r].field = "content" => drafts'[on[r]].status = "draft"
          /\ edit[r].field # "content" => /\ drafts'[on[r]].content = drafts[on[r]].content
                                          /\ drafts'[on[r]].status = drafts[on[r]].status
          /\ \A e \in Drafts : e # on[r] => drafts'[e] = drafts[e]
      BY <1>2, EditedDraft
    <2>2. /\ d \notin raced
          /\ edit[r].field = "content" /\ d = on[r] => \A q \in Requests \ {r} : on[q] # d
      BY <1>2, Zenon DEF editDraft, busyElsewhere
    <2>3. CASE d # on[r]
      BY <1>0, <2>1, <2>2, <2>3, Zenon
    <2>4. CASE d = on[r] /\ edit[r].field = "content"
      <3>1. "draft" \notin {"approved", "sent", "delivered"}
        BY SMT
      <3> QED
        BY <2>1, <2>2, <2>4, <3>1, Zenon
    <2>5. CASE d = on[r] /\ edit[r].field # "content"
      BY <1>0, <2>1, <2>2, <2>5, Zenon
    <2> QED
      BY <2>3, <2>4, <2>5
  <1>3. CASE recordApproval(r) \/ recordSending(r) \/ recordDelivery(r) \/ recordCancellation(r)
    <2>1. /\ on[r] \in Drafts /\ raced' = raced
          /\ drafts'[on[r]].content = drafts[on[r]].content
          /\ \/ /\ pc[r] = "approve"
                /\ drafts'[on[r]].hash = saw[r].content
             \/ /\ pc[r] \in {"send", "deliver", "cancel"}
                /\ drafts'[on[r]].hash = drafts[on[r]].hash
                /\ drafts'[on[r]].status \in {"approved", "sent", "delivered"} => pc[r] # "cancel"
          /\ \A e \in Drafts : e # on[r] => drafts'[e] = drafts[e]
      BY <1>3, RecordedRow
    <2>2. CASE d # on[r]
      BY <1>0, <2>1, <2>2, Zenon
    <2>3. CASE d = on[r] /\ pc[r] = "approve" /\ drafts'[on[r]].hash = saw[r].content
      <3>1. saw[r].content = drafts[d].content
        BY <2>1, <2>3, Zenon DEF HashInv
      <3> QED
        BY <2>1, <2>3, <3>1, Zenon
    <2>4. CASE /\ d = on[r] /\ pc[r] \in {"send", "deliver", "cancel"}
               /\ drafts'[on[r]].hash = drafts[on[r]].hash
               /\ drafts'[on[r]].status \in {"approved", "sent", "delivered"} => pc[r] # "cancel"
      <3>1. pc[r] \in {"send", "deliver"} => pc[r] \in Sending \cup {"deliver"}
        BY SMT DEF Sending
      <3>2. pc[r] \in {"send", "deliver"} => drafts[d].hash = drafts[d].content
        BY <2>1, <2>4, <3>1, Zenon DEF HashInv
      <3> QED
        BY <2>1, <2>4, <3>2, Zenon
    <2> QED
      BY <2>1, <2>2, <2>3, <2>4
  <1>4. CASE stopContinuations(r)
    <2>1. /\ drafts'[d].content = drafts[d].content /\ drafts'[d].hash = drafts[d].hash
          /\ drafts'[d].status \in {drafts[d].status, "on_hold"}
      BY <1>4, StoppedDrafts
    <2>2. raced' = raced /\ "on_hold" \notin {"approved", "sent", "delivered"}
      BY <1>4, SMT DEF stopContinuations
    <2> QED
      BY <1>0, <2>1, <2>2, Zenon
  <1>5. CASE insertDraft(r)
    <2>1. /\ raced' = raced /\ pc[r] = "insert"
          /\ \/ drafts' = drafts
             \/ \E e \in Drafts : /\ ~stored(e) /\ drafts'[e] = saw[r]
                                  /\ \A c \in Drafts \ {e} : drafts'[c] = drafts[c]
      BY <1>5, InsertedRow
    <2>2. saw[r].status = "draft"
      BY <2>1, SMT DEF NewInv, Creating
    <2>3. "draft" \notin {"approved", "sent", "delivered"}
      BY SMT
    <2> QED
      BY <1>0, <2>1, <2>2, <2>3, Zenon
  <1>6. CASE create(r)
    BY <1>1, <1>5, <1>6, Zenon DEF create, createDraft, readCompany, readContact, numberDraft
  <1>7. CASE update(r)
    BY <1>1, <1>2, <1>7, Zenon DEF update, updateDraft, forkDraft
  <1>8. CASE send(r)
    BY <1>1, <1>3, <1>8, Zenon DEF send, sendDraft, decides, readCompany, readContact, readDraft
  <1>9. CASE decide(r)
    BY <1>1, <1>3, <1>9, Zenon DEF decide, approveDraft, deliveredDraft, cancelDraft, decides
  <1>10. CASE ban(r) \/ crash(r)
    BY <1>1, <1>4, <1>10, Zenon DEF ban, crash, setDnc
  <1> QED
    BY <1>6, <1>7, <1>8, <1>9, <1>10, Zenon DEF step

LEMMA HashStep ==
  ASSUME TypeOK, StoredInv, NewInv, HashInv, ApprovedIsWhatWasHashed, [Next]_vars
  PROVE  HashInv' /\ ApprovedIsWhatWasHashed'
  <1>0. /\ {"approve"} \cup (Sending \cup {"deliver"}) = Deciding /\ Deciding \subseteq Acting
        /\ "approve" \notin Sending \cup {"deliver"}
    BY SMT DEF Deciding, Sending, Acting
  <1>1. ASSUME NEW r \in Requests, step(r) PROVE HashInv' /\ ApprovedIsWhatWasHashed'
    <2>1. ApprovedIsWhatWasHashed'
      BY <1>1, RacesAreKnown, Zenon DEF ApprovedIsWhatWasHashed
    <2>2. HashInv'
      <3> SUFFICES ASSUME NEW q \in Requests, on'[q] \notin raced', pc'[q] \in Deciding
                   PROVE  /\ pc'[q] = "approve" => saw'[q].content = drafts'[on'[q]].content
                          /\ pc'[q] \in Sending \cup {"deliver"} =>
                               drafts'[on'[q]].hash = drafts'[on'[q]].content
        BY <1>0, Zenon DEF HashInv
      <3>1. CASE q = r
        <4>1. /\ drafts' = drafts /\ raced' = raced
              /\ \/ /\ pc'[r] = "approve" /\ on'[r] \in Drafts
                    /\ saw'[r].content = drafts[on'[r]].content
                 \/ pc'[r] # "approve" /\ pc[r] \in Sending /\ on'[r] = on[r]
                 \/ /\ pc'[r] # "approve" /\ on'[r] \in Drafts
                    /\ drafts[on'[r]].status \in {"approved", "sent", "delivered"}
          BY <1>1, <3>1, HeadsForDecision
        <4>2. ASSUME pc[r] \in Sending, on'[r] = on[r] PROVE drafts[on[r]].hash = drafts[on[r]].content
          BY <3>1, <4>1, <4>2, Zenon DEF HashInv
        <4>3. ASSUME on'[r] \in Drafts, drafts[on'[r]].status \in {"approved", "sent", "delivered"}
              PROVE  drafts[on'[r]].hash = drafts[on'[r]].content
          BY <3>1, <4>1, <4>3, Zenon DEF ApprovedIsWhatWasHashed
        <4> QED
          BY <1>0, <3>1, <4>1, <4>2, <4>3, Zenon
      <3>2. CASE q # r
        <4>1. pc'[q] = pc[q] /\ on'[q] = on[q] /\ saw'[q] = saw[q]
          BY <1>1, <3>2, OthersStay
        <4>2. on[q] \in Drafts /\ stored(on[q])
          BY <1>0, <4>1, Zenon DEF StoredInv
        <4>3. /\ on[q] \notin raced
              /\ drafts'[on[q]].content = drafts[on[q]].content
              /\ \/ drafts'[on[q]].hash = drafts[on[q]].hash
                 \/ drafts'[on[q]].hash = drafts'[on[q]].content
          BY <1>1, <3>2, <4>1, <4>2, RacesAreKnown, Zenon
        <4> QED
          BY <4>1, <4>3, Zenon DEF HashInv
      <3> QED
        BY <3>1, <3>2
    <2> QED
      BY <2>1, <2>2
  <1>2. ASSUME NEW d \in Live, reviewDraft(d) PROVE HashInv' /\ ApprovedIsWhatWasHashed'
    <2>1. pc' = pc /\ on' = on /\ saw' = saw /\ raced' = raced
      BY <1>2, Zenon DEF reviewDraft, requests
    <2>2. /\ d \in Drafts /\ drafts'[d].status = "reviewed"
          /\ drafts'[d].content = drafts[d].content /\ drafts'[d].hash = drafts[d].hash
          /\ \A e \in Drafts : e # d => drafts'[e] = drafts[e]
      BY <1>2, ReviewedDraft
    <2>3. \A e \in Drafts : drafts'[e].content = drafts[e].content /\ drafts'[e].hash = drafts[e].hash
      BY <2>2, Zenon
    <2>4. "reviewed" \notin {"approved", "sent", "delivered"}
      BY SMT
    <2>5. ApprovedIsWhatWasHashed'
      BY <2>1, <2>2, <2>4, Zenon DEF ApprovedIsWhatWasHashed
    <2>6. \A q \in Requests : pc[q] \in Deciding => on[q] \in Drafts
      BY <1>0, Zenon DEF StoredInv
    <2>7. HashInv'
      BY <1>0, <2>1, <2>3, <2>6, Zenon DEF HashInv
    <2> QED
      BY <2>5, <2>7
  <1>3. ASSUME UNCHANGED <<drafts, pc, on, saw, raced>> PROVE HashInv' /\ ApprovedIsWhatWasHashed'
    BY <1>3, Zenon DEF HashInv, ApprovedIsWhatWasHashed
  <1>4. ASSUME NEW who, liftDnc(who) PROVE HashInv' /\ ApprovedIsWhatWasHashed'
    BY <1>3, <1>4, Zenon DEF liftDnc, requests
  <1>5. CASE UNCHANGED vars
    BY <1>3, <1>5, Zenon DEF vars, requests
  <1> QED
    BY <1>1, <1>2, <1>4, <1>5, Zenon DEF Next, step
-----------------------------------------------------------------------------
(* The bans *)

Checked == {"contact", "number", "sendDraft", "sendContact", "send"}

(* The check of the contact reaches the recipient's owner too: a draft     *)
(* that names a contact is refused unless the address is that contact's or *)
(* nobody's.                                                               *)
LEMMA CheckReaches ==
  ASSUME NEW row, ~mismatched(row), assertCommercialTouchAllowed(row),
         NEW held, held \subseteq banned, banned \subseteq Bannable, Company \notin held
  PROVE  held \cap reaches(row) = {}
  <1>1. None \notin held
    BY DraftsAssumption, Zenon
  <1>2. row.contact \notin held /\ Owner[row.content] \notin held
    BY <1>1, Zenon DEF mismatched, assertCommercialTouchAllowed, contactFor
  <1> QED
    BY <1>1, <1>2, Zenon DEF reaches

LEMMA FirmStep ==
  ASSUME TypeOK, FirmInv, BansStopTouches, [Next]_vars
  PROVE  FirmInv' /\ BansStopTouches'
  <1>0. /\ DOMAIN pc = Requests /\ pc = [q \in Requests |-> pc[q]]
        /\ DOMAIN firm = Requests /\ firm = [q \in Requests |-> firm[q]]
        /\ {"number", "send"} \subseteq Checked /\ "idle" \notin Checked
    BY SMT DEF TypeOK, Checked
  <1>1. ASSUME NEW r \in Requests, step(r), banned \subseteq banned',
               /\ firm'[r] \subseteq banned'
               /\ pc'[r] \in Checked => Company \notin firm'[r]
               /\ pc'[r] \in {"number", "send"} => firm'[r] \cap reaches(saw'[r]) = {}
        PROVE  FirmInv' /\ BansStopTouches'
    <2>1. \A q \in Requests \ {r} : pc'[q] = pc[q] /\ saw'[q] = saw[q] /\ firm'[q] = firm[q]
      BY <1>1, OthersStay
    <2>2. FirmInv'
      BY <1>1, <2>1, Zenon DEF FirmInv, Checked
    <2>3. BansStopTouches'
      <3> SUFFICES ASSUME NEW q \in Requests, pc'[q] \in {"number", "send"}
                   PROVE  firm'[q] \cap reaches(saw'[q]) = {}
        BY Zenon DEF BansStopTouches, reaches
      <3>1. CASE q = r
        BY <1>1, <3>1, Zenon
      <3>2. CASE q # r
        BY <2>1, <3>2, Zenon DEF BansStopTouches
      <3> QED
        BY <3>1, <3>2
    <2> QED
      BY <2>2, <2>3
  <1>2. ASSUME NEW r \in Requests, step(r), ends(r), banned' = banned
        PROVE  FirmInv' /\ BansStopTouches'
    <2>1. pc'[r] = "idle" /\ firm'[r] = {}
      BY <1>2, EndedRequest
    <2> QED
      BY <1>0, <1>1, <1>2, <2>1, Zenon
  <1>3. ASSUME NEW r \in Requests, step(r), pc'[r] \notin Checked, banned \subseteq banned',
               firm'[r] = firm[r] \/ firm'[r] = banned
        PROVE  FirmInv' /\ BansStopTouches'
    <2>1. firm'[r] \subseteq banned'
      BY <1>3, Zenon DEF FirmInv
    <2> QED
      BY <1>0, <1>1, <1>3, <2>1, Zenon
  <1>4. ASSUME NEW r \in Requests, NEW place, goTo(r, place) PROVE pc'[r] = place
    BY <1>0, <1>4, Zenon DEF goTo
  <1>5. ASSUME NEW r \in Requests, NEW place, NEW d, starts(r, place, d) PROVE pc'[r] = place
    BY <1>4, <1>5, Zenon DEF starts
  <1>6. ASSUME NEW r \in Requests, touches(r) PROVE firm'[r] = banned
    BY <1>0, <1>6, Zenon DEF touches
  <1>7. ASSUME NEW r \in Requests, step(r), NEW from, NEW to \in {"contact", "sendDraft"},
               readCompany(r, from, to)
        PROVE  FirmInv' /\ BansStopTouches'
    <2>1. CASE ends(r)
      BY <1>2, <1>7, <2>1, Zenon DEF readCompany
    <2>2. CASE Company \notin banned /\ goTo(r, to) /\ UNCHANGED <<on, saw, edit, firm>>
      <3>1. banned' = banned /\ pc'[r] = to
        BY <1>4, <1>7, <2>2, Zenon DEF readCompany
      <3>2. to \notin {"number", "send"}
        BY SMT
      <3>3. firm'[r] \subseteq banned /\ Company \notin firm'[r]
        BY <2>2, Zenon DEF FirmInv
      <3> QED
        BY <1>1, <1>7, <3>1, <3>2, <3>3, Zenon
    <2> QED
      BY <1>7, <2>1, <2>2, Zenon DEF readCompany
  <1>8. ASSUME NEW r \in Requests, step(r), NEW from \in Checked, NEW to, readContact(r, from, to)
        PROVE  FirmInv' /\ BansStopTouches'
    <2>1. CASE ends(r)
      BY <1>2, <1>8, <2>1, Zenon DEF readContact
    <2>2. CASE /\ ~mismatched(saw[r]) /\ assertCommercialTouchAllowed(saw[r])
               /\ goTo(r, to) /\ UNCHANGED <<on, saw, edit, firm>>
      <3>1. banned' = banned /\ pc[r] = from
        BY <1>8, Zenon DEF readContact
      <3>2. firm[r] \subseteq banned /\ Company \notin firm[r]
        BY <1>8, <3>1, Zenon DEF FirmInv, Checked
      <3>3. firm[r] \cap reaches(saw[r]) = {}
        <4>1. banned \subseteq Bannable
          BY DEF TypeOK
        <4> QED
          BY <2>2, <3>2, <4>1, CheckReaches, Zenon
      <3> QED
        BY <1>1, <1>8, <2>2, <3>1, <3>2, <3>3, Zenon
    <2> QED
      BY <1>8, <2>1, <2>2, Zenon DEF readContact
  <1>9. ASSUME NEW r \in Requests, create(r) PROVE FirmInv' /\ BansStopTouches'
    <2>0. step(r)
      BY <1>9 DEF step
    <2>1. CASE createDraft(r)
      <3>1. pc'[r] = "company" /\ banned' = banned /\ firm'[r] = banned
        BY <1>5, <1>6, <2>1, Zenon DEF createDraft
      <3>2. pc'[r] \notin Checked
        BY <3>1, SMT DEF Checked
      <3> QED
        BY <1>3, <2>0, <3>1, <3>2, Zenon
    <2>2. CASE readCompany(r, "company", "contact")
      BY <1>7, <2>0, <2>2, Zenon
    <2>3. CASE readContact(r, "contact", "number")
      <3>1. "contact" \in Checked
        BY DEF Checked
      <3> QED
        BY <1>8, <2>0, <2>3, <3>1, Zenon
    <2>4. CASE numberDraft(r)
      <3>1. pc'[r] = "insert" /\ banned' = banned /\ firm'[r] = firm[r]
        BY <1>4, <2>4, Zenon DEF numberDraft
      <3>2. pc'[r] \notin Checked
        BY <3>1, SMT DEF Checked
      <3> QED
        BY <1>3, <2>0, <3>1, <3>2, Zenon
    <2>5. CASE insertDraft(r)
      BY <1>2, <2>0, <2>5, Zenon DEF insertDraft
    <2> QED
      BY <1>9, <2>1, <2>2, <2>3, <2>4, <2>5, Zenon DEF create
  <1>10. ASSUME NEW r \in Requests, update(r) PROVE FirmInv' /\ BansStopTouches'
    <2>0. step(r)
      BY <1>10 DEF step
    <2>1. CASE updateDraft(r)
      <3>1. pc'[r] \in {"fork", "edit"} /\ banned' = banned /\ firm'[r] = firm[r]
        BY <1>5, <2>1, Zenon DEF updateDraft
      <3>2. pc'[r] \notin Checked
        BY <3>1, SMT DEF Checked
      <3> QED
        BY <1>3, <2>0, <3>1, <3>2, Zenon
    <2>2. CASE forkDraft(r)
      <3>1. pc'[r] = "insert" /\ banned' = banned /\ firm'[r] = firm[r]
        BY <1>4, <2>2, Zenon DEF forkDraft
      <3>2. pc'[r] \notin Checked
        BY <3>1, SMT DEF Checked
      <3> QED
        BY <1>3, <2>0, <3>1, <3>2, Zenon
    <2>3. CASE editDraft(r)
      BY <1>2, <2>0, <2>3, Zenon DEF editDraft
    <2> QED
      BY <1>10, <2>1, <2>2, <2>3, Zenon DEF update
  <1>11. ASSUME NEW r \in Requests, send(r) PROVE FirmInv' /\ BansStopTouches'
    <2>0. step(r)
      BY <1>11 DEF step
    <2>1. CASE sendDraft(r)
      <3>1. pc'[r] = "sendCompany" /\ banned' = banned /\ firm'[r] = banned
        BY <1>5, <1>6, <2>1, Zenon DEF sendDraft, decides
      <3>2. pc'[r] \notin Checked
        BY <3>1, SMT DEF Checked
      <3> QED
        BY <1>3, <2>0, <3>1, <3>2, Zenon
    <2>2. CASE readCompany(r, "sendCompany", "sendDraft")
      BY <1>7, <2>0, <2>2, Zenon
    <2>3. CASE readDraft(r)
      <3>1. pc[r] = "sendDraft" /\ pc'[r] = "sendContact" /\ banned' = banned /\ firm'[r] = firm[r]
        BY <1>4, <2>3, Zenon DEF readDraft
      <3>2. pc[r] \in Checked /\ pc'[r] \notin {"number", "send"}
        BY <3>1, SMT DEF Checked
      <3>3. firm[r] \subseteq banned /\ Company \notin firm[r]
        BY <3>2, Zenon DEF FirmInv, Checked
      <3> QED
        BY <1>1, <2>0, <3>1, <3>2, <3>3, Zenon
    <2>4. CASE readContact(r, "sendContact", "send")
      <3>1. "sendContact" \in Checked
        BY DEF Checked
      <3> QED
        BY <1>8, <2>0, <2>4, <3>1, Zenon
    <2>5. CASE recordSending(r)
      BY <1>2, <2>0, <2>5, Zenon DEF recordSending, writes
    <2> QED
      BY <1>11, <2>1, <2>2, <2>3, <2>4, <2>5, Zenon DEF send
  <1>12. ASSUME NEW r \in Requests, decide(r) PROVE FirmInv' /\ BansStopTouches'
    <2>0. step(r)
      BY <1>12 DEF step
    <2>1. CASE approveDraft(r) \/ deliveredDraft(r) \/ cancelDraft(r)
      <3>1. pc'[r] \in {"approve", "deliver", "cancel"} /\ banned' = banned /\ firm' = firm
        BY <1>5, <2>1, Zenon DEF approveDraft, deliveredDraft, cancelDraft, decides
      <3>2. pc'[r] \notin Checked
        BY <3>1, SMT DEF Checked
      <3> QED
        BY <1>3, <2>0, <3>1, <3>2, Zenon
    <2> QED
      BY <1>2, <1>12, <2>0, <2>1, Zenon DEF decide, recordApproval, recordDelivery,
         recordCancellation, writes
  <1>13. ASSUME NEW r \in Requests, ban(r) PROVE FirmInv' /\ BansStopTouches'
    <2>0. step(r)
      BY <1>13 DEF step
    <2>1. CASE setDnc(r)
      <3>1. pc'[r] = "hold" /\ banned \subseteq banned' /\ firm'[r] = firm[r]
        BY <1>5, <2>1, Zenon DEF setDnc
      <3>2. pc'[r] \notin Checked
        BY <3>1, SMT DEF Checked
      <3> QED
        BY <1>3, <2>0, <3>1, <3>2, Zenon
    <2> QED
      BY <1>2, <1>13, <2>0, <2>1, Zenon DEF ban, stopContinuations
  <1>14. ASSUME NEW r \in Requests, crash(r) PROVE FirmInv' /\ BansStopTouches'
    BY <1>2, <1>14, Zenon DEF crash, step
  <1>15. ASSUME NEW who, liftDnc(who) PROVE FirmInv' /\ BansStopTouches'
    <2>1. /\ banned' = banned \ {who} /\ pc' = pc /\ saw' = saw
          /\ \A r \in Requests : firm'[r] = firm[r] \ {who}
      BY <1>15, Zenon DEF liftDnc, requests
    <2> QED
      BY <2>1, Zenon DEF FirmInv, BansStopTouches, reaches
  <1>16. ASSUME UNCHANGED <<banned, pc, saw, firm>> PROVE FirmInv' /\ BansStopTouches'
    BY <1>16, Zenon DEF FirmInv, BansStopTouches, reaches
  <1>17. ASSUME NEW d, reviewDraft(d) PROVE FirmInv' /\ BansStopTouches'
    BY <1>16, <1>17, Zenon DEF reviewDraft, requests
  <1>18. CASE UNCHANGED vars
    BY <1>16, <1>18, Zenon DEF vars, requests
  <1> QED
    BY <1>9, <1>10, <1>11, <1>12, <1>13, <1>14, <1>15, <1>17, <1>18, Zenon DEF Next

-----------------------------------------------------------------------------
LEMMA DraftsStart == Init => DraftsInv
  <1> SUFFICES ASSUME Init PROVE DraftsInv
    OBVIOUS
  <1>1. TypeOK
    <2>1. "idle" \in Places
      BY SMT DEF Places
    <2> QED
      BY <2>1, NothingIsTyped, Zenon DEF Init, TypeOK
  <1>2. /\ \A d \in Drafts : ~stored(d) /\ drafts[d] = NoDraft
        /\ \A r \in Requests : pc[r] = "idle" /\ firm[r] = {}
    BY NothingIsTyped, Zenon DEF Init, stored
  <1>3. "idle" \notin Acting \cup Creating \cup Sending \cup {"insert", "approve", "deliver", "number"}
        /\ "idle" \notin {"contact", "number", "sendDraft", "sendContact", "send"}
    BY SMT DEF Acting, Creating, Sending
  <1>4. StoredInv /\ NewInv /\ HashInv /\ FirmInv /\ BansStopTouches
    BY <1>2, <1>3, Zenon DEF StoredInv, NewInv, HashInv, FirmInv, BansStopTouches
  <1>5. VersionsAreContiguous
    <2> SUFFICES ASSUME NEW g \in Groups PROVE versionsOf(g) = 1 .. Cardinality(rows(g))
      BY Zenon DEF VersionsAreContiguous, rows
    <2>1. rows(g) = {} /\ versionsOf(g) = {}
      BY <1>2, Zenon DEF rows, versionsOf
    <2> QED
      BY <2>1, FS_EmptySet, SMT
  <1>6. ApprovedIsWhatWasHashed
    <2>1. "absent" \notin {"approved", "sent", "delivered"}
      BY SMT
    <2> QED
      BY <1>2, <2>1, NothingIsTyped, Zenon DEF ApprovedIsWhatWasHashed
  <1> QED
    BY <1>1, <1>4, <1>5, <1>6 DEF DraftsInv

LEMMA DraftsInvariant == Spec => []DraftsInv
  <1>1. DraftsInv /\ [Next]_vars => DraftsInv'
    BY TypeStep, NumberStep, HashStep, FirmStep DEF DraftsInv
  <1> QED
    BY <1>1, DraftsStart, PTL DEF Spec

(* The versions of a proposal are numbered without a gap or a double,      *)
(* however its creations and forks interleave (the unique index of         *)
(* insertDraft), and every row is of its type.                             *)
THEOREM DraftsStayInLine == Spec => []DraftsAreInLine
  <1>1. DraftsInv => DraftsAreInLine
    BY DEF DraftsInv, DraftsAreInLine
  <1> QED
    BY <1>1, DraftsInvariant, PTL

(* What is approved, sent or delivered is what was hashed by its approval, *)
(* but where an edit overtook another request (approveDraft, sendDraft).   *)
THEOREM ApprovalsFreezeTheHash == Spec => []ApprovedIsWhatWasHashed
  <1>1. DraftsInv => ApprovedIsWhatWasHashed
    BY DEF DraftsInv
  <1> QED
    BY <1>1, DraftsInvariant, PTL

(* Under a ban that stands a creation or a sending that began under it     *)
(* gets no further than its checks (assertCommercialTouchAllowed).         *)
THEOREM BansAlwaysStopTouches == Spec => []BansStopTouches
  <1>1. DraftsInv => BansStopTouches
    BY DEF DraftsInv
  <1> QED
    BY <1>1, DraftsInvariant, PTL
=============================================================================
