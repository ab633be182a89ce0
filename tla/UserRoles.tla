------------------------------ MODULE UserRoles ------------------------------
(***************************************************************************)
(* Changes of role by administrators (updateRole of the users repository)  *)
(* beside the bootstrap of an administrator.                               *)
(*                                                                         *)
(* A change of role is one transaction under two advisory locks, one for   *)
(* all changes of role and one of the account it is about; the bootstrap   *)
(* takes the second only.  Each statement sees what is committed by then.  *)
(*                                                                         *)
(* Abstracted: what a change does to the sessions and reset tokens of the  *)
(* account (PasswordAuthority has it).                                     *)
(***************************************************************************)
EXTENDS Naturals, FiniteSets

CONSTANTS People,    \* accounts
          Changes,   \* requests to change a role
          Boots,     \* runs of the bootstrap
          NoOne

Roles == {"user", "agent", "admin"}

VARIABLES roleOf,    \* users.role
          change,    \* of each request: by whom, of whom, to what, and the statement it is at
          boot       \* of each run of the bootstrap: the account it has locked

vars == <<roleOf, change, boot>>

Resting == [by |-> NoOne, of |-> NoOne, to |-> "user", at |-> "rest"]

(* The deployment asserts that there is an administrator (deploy-database). *)
Init == /\ roleOf \in [People -> Roles] /\ \E p \in People : roleOf[p] = "admin"
        /\ change = [c \in Changes |-> Resting]
        /\ boot = [b \in Boots |-> NoOne]

admins == {p \in People : roleOf[p] = "admin"}

-----------------------------------------------------------------------------
(* Seeded defect: changes of role wait for those of the same account only. *)
rolesUnlocked_PerAccount(p) == \A c \in Changes : change[c].of # p

(* acquireUserRoleMutationLock *)
rolesUnlocked(p) == \A c \in Changes : change[c].at = "rest"

(* acquireUserAuthenticationAuthorityLock *)
accountUnlocked(p) == /\ \A c \in Changes : change[c].of # p
                      /\ \A b \in Boots : boot[b] # p

goOn(c, where) == change' = [change EXCEPT ![c].at = where]
finish(c) == change' = [change EXCEPT ![c] = Resting]

(* A principal may ask who was an administrator when it signed in.         *)
updateRole(c, actor, target, role) ==
  /\ change[c].at = "rest" /\ rolesUnlocked(target) /\ accountUnlocked(target)
  /\ change' = [change EXCEPT ![c] = [by |-> actor, of |-> target, to |-> role, at |-> "actor"]]
  /\ UNCHANGED <<roleOf, boot>>

readActor(c) ==
  /\ change[c].at = "actor"
  /\ IF roleOf[change[c].by] = "admin" THEN goOn(c, "target") ELSE finish(c)
  /\ UNCHANGED <<roleOf, boot>>

(* One's own administrator role is not given up; only a change from        *)
(* administrator to user counts the administrators.                        *)
readTarget(c) ==
  LET r == change[c]
  IN /\ r.at = "target"
     /\ IF roleOf[r.of] = r.to \/ (r.of = r.by /\ r.to # "admin") THEN finish(c)
        ELSE goOn(c, IF roleOf[r.of] = "admin" /\ r.to = "user" THEN "count" ELSE "write")
     /\ UNCHANGED <<roleOf, boot>>

countAdmins(c) ==
  /\ change[c].at = "count"
  /\ IF Cardinality(admins) <= 1 THEN finish(c) ELSE goOn(c, "write")
  /\ UNCHANGED <<roleOf, boot>>

(* The row is written, and the transaction commits. *)
writeRole(c) ==
  /\ change[c].at = "write" /\ finish(c)
  /\ roleOf' = [roleOf EXCEPT ![change[c].of] = change[c].to]
  /\ UNCHANGED boot

(* A failure, a time limit or a crash rolls back and releases both locks.  *)
rollBack(c) == change[c].at # "rest" /\ finish(c) /\ UNCHANGED <<roleOf, boot>>

lockForBootstrap(b, p) ==
  /\ boot[b] = NoOne /\ accountUnlocked(p)
  /\ boot' = [boot EXCEPT ![b] = p]
  /\ UNCHANGED <<roleOf, change>>

bootstrapAdmin(b) ==
  /\ boot[b] # NoOne
  /\ boot' = [boot EXCEPT ![b] = NoOne]
  /\ roleOf' = [roleOf EXCEPT ![boot[b]] = "admin"]
  /\ UNCHANGED change

bootstrapFails(b) ==
  /\ boot[b] # NoOne
  /\ boot' = [boot EXCEPT ![b] = NoOne]
  /\ UNCHANGED <<roleOf, change>>

Next == \/ \E c \in Changes :
             \/ \E actor, target \in People, role \in Roles : updateRole(c, actor, target, role)
             \/ readActor(c) \/ readTarget(c) \/ countAdmins(c) \/ writeRole(c) \/ rollBack(c)
        \/ \E b \in Boots : \/ \E p \in People : lockForBootstrap(b, p)
                            \/ bootstrapAdmin(b) \/ bootstrapFails(b)

Spec == Init /\ [][Next]_vars

-----------------------------------------------------------------------------
TypeOK == /\ roleOf \in [People -> Roles]
          /\ change \in [Changes -> [by : People \cup {NoOne}, of : People \cup {NoOne}, to : Roles,
                           at : {"rest", "actor", "target", "count", "write"}]]
          /\ boot \in [Boots -> People \cup {NoOne}]

(* At least one administrator must remain, whoever demotes whom at once,   *)
(* although a change from administrator to agent does not count them.      *)
AnAdministratorRemains == admins # {}
=============================================================================
