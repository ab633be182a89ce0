---------------------------- MODULE AvatarUploads ----------------------------
(***************************************************************************)
(* Avatars of one user: rows in user_avatars, objects in private storage,  *)
(* the requests that move both, and the job that sweeps abandoned uploads. *)
(*                                                                         *)
(* A request changes rows in one transaction under the user's lock, so     *)
(* each transaction is one action; what it does with the storage is not    *)
(* under the lock.  Objects a row no longer names are deleted after the    *)
(* response by a task that is tried once and lives in memory.              *)
(*                                                                         *)
(* Abstracted: an object is what was declared ("good") or it is not; the   *)
(* limit of 500 rows a sweep.  The database's clock and the processes'     *)
(* are one.                                                                *)
(***************************************************************************)
EXTENDS Naturals, FiniteSets

CONSTANTS Uploads,   \* uploads there may be, each with an object key of its own
          Requests,  \* requests that confirm an upload
          Sweepers,  \* runs of the clean-up job: several when its lock expires
          NoUpload,
          UrlLife,   \* how long a signed address may be written to
          Margin,    \* how long after that the job leaves an upload alone
          Stall,     \* the longest a confirmation is under way
          MaxTime    \* bound

VARIABLES rows, object,
          deferred,  \* keys of objects to be deleted after the response
          confirming, \* of each request: its upload, its next step, when it began
          sweeping,  \* of each run: the uploads it listed, and those whose object it deleted
          now,
          lost       \* history: objects the code gives up, see below

vars == <<rows, object, deferred, confirming, sweeping, now, lost>>

NoRow == [state |-> "none", expires |-> 0]
Idle == [upload |-> NoUpload, next |-> "idle", since |-> 0]
AtRest == [todo |-> {}, gone |-> {}]

Init == /\ rows = [u \in Uploads |-> NoRow]
        /\ object = [u \in Uploads |-> "absent"]
        /\ deferred = {} /\ lost = {} /\ now = 0
        /\ confirming = [r \in Requests |-> Idle]
        /\ sweeping = [s \in Sweepers |-> AtRest]

-----------------------------------------------------------------------------
are(state) == {u \in Uploads : rows[u].state = state}

setRows(us, state) ==
  rows' = [u \in Uploads |-> IF u \in us THEN [rows[u] EXCEPT !.state = state] ELSE rows[u]]

(* createUpload: the pending upload before it is abandoned.                *)
createUpload(u) ==
  /\ rows[u].state = "none"
  /\ rows' = [v \in Uploads |-> IF v = u THEN [state |-> "pending", expires |-> now + UrlLife]
                                ELSE IF v \in are("pending") THEN [rows[v] EXCEPT !.state = "gone"]
                                ELSE rows[v]]
  /\ deferred' = deferred \cup are("pending")
  /\ UNCHANGED <<object, confirming, sweeping, now, lost>>

(* The client's write, once per key, while the address is valid: the row   *)
(* may be gone by then.  No one is left to delete what comes after the     *)
(* deletion of its key.                                                    *)
put(u) ==
  /\ rows[u].state # "none" /\ now < rows[u].expires /\ object[u] = "absent"
  /\ \E o \in {"good", "bad"} : object' = [object EXCEPT ![u] = o]
  /\ lost' = IF rows[u].state = "gone" /\ u \notin deferred THEN lost \cup {u} ELSE lost
  /\ UNCHANGED <<rows, deferred, confirming, sweeping, now>>

goOn(r, step) == confirming' = [confirming EXCEPT ![r].next = step]
respond(r) == confirming' = [confirming EXCEPT ![r] = Idle]

(* finalizeUpload: the row is read and its time is compared.               *)
findPending(r, u) ==
  /\ confirming[r] = Idle /\ rows[u].state = "pending"
  /\ confirming' = [confirming EXCEPT ![r] =
       [upload |-> u, since |-> now, next |-> IF rows[u].expires <= now THEN "discard" ELSE "head"]]
  /\ UNCHANGED <<rows, object, deferred, sweeping, now, lost>>

(* headObject: its absence, its size and its type.                         *)
headObject(r) ==
  LET o == object[confirming[r].upload]
  IN /\ confirming[r].next = "head"
     /\ \/ o = "absent" /\ respond(r)
        \/ o = "bad" /\ goOn(r, "discard")
        \/ o # "absent" /\ goOn(r, "range")
     /\ UNCHANGED <<rows, object, deferred, sweeping, now, lost>>

(* readRange: its first bytes. *)
readRange(r) ==
  /\ confirming[r].next = "range"
  /\ goOn(r, IF object[confirming[r].upload] = "good" THEN "promote" ELSE "discard")
  /\ UNCHANGED <<rows, object, deferred, sweeping, now, lost>>

(* promoteToReady: the row is read again under the lock; the avatar before *)
(* it goes first.  Its expiry is not looked at again.                      *)
promoteToReady(r) ==
  LET u == confirming[r].upload
  IN /\ confirming[r].next = "promote"
     /\ IF rows[u].state # "pending" THEN UNCHANGED <<rows, deferred>>
        ELSE /\ rows' = [v \in Uploads |-> IF v = u THEN [rows[u] EXCEPT !.state = "ready"]
                                           ELSE IF v \in are("ready") THEN [rows[v] EXCEPT !.state = "gone"]
                                           ELSE rows[v]]
             /\ deferred' = deferred \cup are("ready")
     /\ respond(r)
     /\ UNCHANGED <<object, sweeping, now, lost>>

(* Seeded defect: the object is deleted whatever its row has come to. *)
removePendingUnread(r) ==
  LET u == confirming[r].upload
  IN /\ confirming[r].next = "discard"
     /\ IF rows[u].state = "gone" THEN UNCHANGED <<rows, deferred>>
        ELSE rows' = rows /\ deferred' = deferred \cup {u}
     /\ respond(r)
     /\ UNCHANGED <<object, sweeping, now, lost>>

(* discard and removePending. *)
removePending(r) ==
  LET u == confirming[r].upload
  IN /\ confirming[r].next = "discard"
     /\ IF rows[u].state # "pending" THEN UNCHANGED <<rows, deferred>>
        ELSE setRows({u}, "gone") /\ deferred' = deferred \cup {u}
     /\ respond(r)
     /\ UNCHANGED <<object, sweeping, now, lost>>

(* removeAvatar: every row of the user. *)
removeAvatar ==
  /\ deferred' = deferred \cup are("pending") \cup are("ready")
  /\ setRows(are("pending") \cup are("ready"), "gone")
  /\ UNCHANGED <<object, confirming, sweeping, now, lost>>

(* The deferred deletion, which is not repeated when it fails. *)
deleteDeferred(u) ==
  /\ u \in deferred /\ deferred' = deferred \ {u}
  /\ \/ object' = [object EXCEPT ![u] = "absent"] /\ UNCHANGED lost
     \/ lost' = lost \cup {u} /\ UNCHANGED object
  /\ UNCHANGED <<rows, confirming, sweeping, now>>

-----------------------------------------------------------------------------
(* uploads:pending:cleanup. *)

listExpired(s) ==
  /\ sweeping[s] = AtRest
  /\ LET expired == {u \in are("pending") : rows[u].expires + Margin < now}
     IN expired # {} /\ sweeping' = [sweeping EXCEPT ![s].todo = expired]
  /\ UNCHANGED <<rows, object, deferred, confirming, now, lost>>

(* Seeded defect: a failure to delete the object is not noticed. *)
deleteObjectUnseen(s) ==
  /\ \E u \in sweeping[s].todo :
       /\ sweeping' = [sweeping EXCEPT ![s] = [todo |-> @.todo \ {u}, gone |-> @.gone \cup {u}]]
       /\ object' = [object EXCEPT ![u] = "absent"] \/ object' = object
  /\ UNCHANGED <<rows, deferred, confirming, now, lost>>

deleteObject(s) ==
  /\ \E u \in sweeping[s].todo :
       \/ /\ object' = [object EXCEPT ![u] = "absent"]
          /\ sweeping' = [sweeping EXCEPT ![s] = [todo |-> @.todo \ {u}, gone |-> @.gone \cup {u}]]
       \/ sweeping' = [sweeping EXCEPT ![s].todo = @ \ {u}] /\ UNCHANGED object
  /\ UNCHANGED <<rows, deferred, confirming, now, lost>>

(* deleteMany by id, whatever state the rows are in. *)
deleteRows(s) ==
  /\ sweeping[s].todo = {} /\ sweeping[s].gone # {}
  /\ setRows(sweeping[s].gone, "gone")
  /\ sweeping' = [sweeping EXCEPT ![s] = AtRest]
  /\ UNCHANGED <<object, deferred, confirming, now, lost>>

-----------------------------------------------------------------------------
(* The API process ends: its deferred deletions end with it.  A run of the *)
(* job ends on its own.                                                    *)
endProcess ==
  /\ deferred' = {} /\ lost' = lost \cup deferred
  /\ confirming' = [r \in Requests |-> Idle]
  /\ UNCHANGED <<rows, object, sweeping, now>>

endSweep(s) == /\ sweeping' = [sweeping EXCEPT ![s] = AtRest]
               /\ UNCHANGED <<rows, object, deferred, confirming, now, lost>>

(* No confirmation is under way for longer than Stall: nothing in the code *)
(* says so but the time limits of the storage client and the server.       *)
passTime == /\ now < MaxTime /\ now' = now + 1
            /\ \A r \in Requests : confirming[r] = Idle \/ now < confirming[r].since + Stall
            /\ UNCHANGED <<rows, object, deferred, confirming, sweeping, lost>>

Next == \/ \E u \in Uploads : createUpload(u) \/ put(u) \/ deleteDeferred(u)
        \/ \E r \in Requests : \/ headObject(r) \/ readRange(r) \/ promoteToReady(r) \/ removePending(r)
                               \/ \E u \in Uploads : findPending(r, u)
        \/ \E s \in Sweepers : listExpired(s) \/ deleteObject(s) \/ deleteRows(s) \/ endSweep(s)
        \/ removeAvatar \/ endProcess \/ passTime

Spec == Init /\ [][Next]_vars

-----------------------------------------------------------------------------
(* The index of user_avatars allows one row of each state. *)
TypeOK == /\ rows \in [Uploads -> [state : {"none", "pending", "ready", "gone"}, expires : Nat]]
          /\ Cardinality(are("pending")) <= 1 /\ Cardinality(are("ready")) <= 1
          /\ object \in [Uploads -> {"absent", "good", "bad"}]
          /\ deferred \subseteq Uploads /\ lost \subseteq Uploads /\ now \in 0 .. MaxTime
          /\ confirming \in [Requests -> [upload : Uploads \cup {NoUpload}, since : 0 .. MaxTime,
                               next : {"idle", "head", "range", "promote", "discard"}]]
          /\ sweeping \in [Sweepers -> [todo : SUBSET Uploads, gone : SUBSET Uploads]]

(* An avatar that is shown has its bytes, and they are what was declared:  *)
(* no confirmation, replacement or sweep deletes the object of an avatar   *)
(* another request has published.                                          *)
ReadyHasItsObject == \A u \in are("ready") : object[u] = "good" /\ u \notin deferred

(* "A row deleted before its object would leave storage holding a file     *)
(* nothing will ever look for again": an object without a row is about to  *)
(* be deleted, or it is one the code gives up - its deferred deletion      *)
(* failed or ended with the process, or it was written to an address that  *)
(* outlived its row.                                                       *)
NothingIsForgotten == \A u \in are("gone") : object[u] # "absent" => u \in deferred \cup lost
=============================================================================
