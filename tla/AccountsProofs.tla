--------------------------- MODULE AccountsProofs ---------------------------
(***************************************************************************)
(* Proofs about the five systems of MCAccounts, for any number of          *)
(* requests, uploads, accounts and callers and for any windows and bounds: *)
(* the refresh sessions, the roles, the avatars and the two stores of rate *)
(* limits.  Each is proved of its own specification; since the others      *)
(* stand still beside it, what is proved holds of the run.                 *)
(*                                                                         *)
(* Of the sessions, two facts tie a request to the row it races with: no   *)
(* credential in a request is newer than the stored one, and a request     *)
(* about to revoke presented one that was replaced twice or too long ago,  *)
(* which later rotations can only confirm.                                 *)
(***************************************************************************)
EXTENDS MCAccounts, FiniteSetTheorems, TLAPS

reused(r) == \/ presented[r] + 1 < current
             \/ presented[r] + 1 = current /\ rotatedAt < started[r] - Grace

(* Nobody presents a credential that was not stored.                       *)
PresentedWasStored == \A r \in Requests : presented[r] <= current

RevokersFoundReuse == \A r \in Requests : pc[r] = "revoke" => reused(r)

(* The window of the replaced credential opens no later than it was        *)
(* replaced.                                                               *)
WindowIsStamped == current > 0 => rotatedAt <= replacedAt[current - 1]

SessionInv == /\ TypeOK /\ IssuedWasStored /\ PresentedWasStored
              /\ RevokersFoundReuse /\ WindowIsStamped

USE WindowsAssumption, BoundsAssumption

LEMMA InitInv == Init => SessionInv
  BY SMT DEF Init, SessionInv, TypeOK, IssuedWasStored, PresentedWasStored, RevokersFoundReuse,
             WindowIsStamped, Never, Credentials, Resting

(* What the three states of a credential say of the row.                   *)
LEMMA StatesMean ==
    ASSUME TypeOK, PresentedWasStored, NEW r \in Requests
    PROVE  /\ credentialState(r) = "previous_within_grace" =>
                presented[r] + 1 = current /\ rotatedAt >= started[r] - Grace
           /\ credentialState(r) = "reused" => reused(r)
  <1>1. /\ presented[r] \in Nat /\ current \in Nat /\ presented[r] <= current
        /\ started[r] \in Int /\ rotatedAt \in Int
    BY SMT DEF TypeOK, PresentedWasStored, Credentials, Never
  <1>2. CASE presented[r] = current
    BY <1>2, Zenon DEF credentialState
  <1>3. CASE presented[r] # current /\ withinGrace(r)
    <2>1. credentialState(r) = "previous_within_grace"
      BY <1>3, Zenon DEF credentialState
    <2> QED
      BY <1>1, <1>3, <2>1, SMT DEF withinGrace
  <1>4. CASE presented[r] # current /\ ~withinGrace(r)
    <2>1. credentialState(r) = "reused"
      BY <1>4, Zenon DEF credentialState
    <2> QED
      BY <1>1, <1>4, <2>1, SMT DEF withinGrace, reused
  <1> QED
    BY <1>2, <1>3, <1>4

(* A step of a request that does not touch the row: it answers only with   *)
(* what is stored, and goes to revoke only when it found reuse.            *)
quiet(r) == /\ UNCHANGED <<now, row, replacedAt>>
            /\ \/ refuse(r)
               \/ /\ answer(r) /\ presented[r] + 1 = current
                  /\ rotatedAt >= started[r] - Grace
               \/ goTo(r, "rotate") \/ goTo(r, "lookAgain")
               \/ (goTo(r, "revoke") /\ reused(r))

LEMMA LooksAreQuiet ==
    ASSUME TypeOK, PresentedWasStored, NEW r \in Requests,
           lookup(r) \/ lookAgain(r) \/ rotateLost(r)
    PROVE  quiet(r)
  <1>1. CASE rotateLost(r)
    BY <1>1, Zenon DEF rotateLost, quiet
  <1>2. CASE lookup(r)
    BY <1>2, StatesMean, Zenon DEF lookup, quiet
  <1>3. CASE lookAgain(r)
    BY <1>3, StatesMean, Zenon DEF lookAgain, quiet
  <1> QED
    BY <1>1, <1>2, <1>3

(* What every step of a request leaves of the types.                       *)
LEMMA TypeStep == ASSUME TypeOK, IssuedWasStored, PresentedWasStored, [Next]_vars PROVE TypeOK'
  <1>1. CASE UNCHANGED vars
    BY <1>1, SMT DEF TypeOK, vars, row
  <1>2. CASE Tick
    BY <1>2, SMT DEF TypeOK, Tick, row, Never, Credentials
  <1>3. CASE logout
    BY <1>3, SMT DEF TypeOK, logout, revoked, Never
  <1>4. CASE cleanup
    <2>1. exists' \in BOOLEAN
      BY <1>4, Zenon DEF cleanup
    <2>2. UNCHANGED <<now, current, rotatedAt, expiresAt, revokedAt, issued, pc, presented, started,
                      replacedAt>>
      BY <1>4, Zenon DEF cleanup
    <2> QED
      BY <2>1, <2>2, SMT DEF TypeOK
  <1>5. ASSUME NEW r \in Requests, begin(r) PROVE TypeOK'
    BY <1>5, SMT DEF TypeOK, begin, row, Credentials, Resting
  <1>6. ASSUME NEW r \in Requests, quiet(r) PROVE TypeOK'
    <2>1. CASE refuse(r)
      BY <1>6, <2>1, SMT DEF TypeOK, quiet, row, refuse, finish, Credentials, Resting
    <2>2. CASE answer(r) /\ presented[r] + 1 = current
      <3>1. issued' \subseteq Credentials
        BY <2>2 DEF answer, TypeOK
      <3>2. UNCHANGED <<now, row, replacedAt>>
        BY <1>6 DEF quiet
      <3>3. /\ pc' \in [Requests -> Resting \cup {"lookup", "rotate", "lookAgain", "revoke"}]
            /\ presented' \in [Requests -> Credentials] /\ started' \in [Requests -> 0 .. now']
        BY <2>2, <3>2, SMT DEF answer, finish, TypeOK, Credentials, Resting
      <3> QED
        BY <3>1, <3>2, <3>3, Zenon DEF TypeOK, row
    <2>3. CASE goTo(r, "rotate") \/ goTo(r, "lookAgain") \/ goTo(r, "revoke")
      BY <1>6, <2>3, SMT DEF TypeOK, quiet, row, goTo
    <2> QED
      BY <1>6, <2>1, <2>2, <2>3 DEF quiet
  <1>7. ASSUME NEW r \in Requests, rotate(r) PROVE TypeOK'
    <2>1. presented[r] < MaxRotations /\ current' = presented[r] + 1 /\ rotatedAt' = started[r]
      BY <1>7, Zenon DEF rotate
    <2>2. expiresAt' = started[r] + Ttl /\ UNCHANGED <<now, exists, revokedAt>>
      BY <1>7, Zenon DEF rotate, nextExpiresAt
    <2>3. /\ replacedAt' = [replacedAt EXCEPT ![presented[r]] = now]
          /\ answer(r)
      BY <1>7, Zenon DEF rotate
    <2>4. presented[r] \in Credentials /\ started[r] \in 0 .. now /\ now \in Nat
      BY DEF TypeOK
    <2>5. current' \in Credentials /\ rotatedAt' \in Never .. now' /\ expiresAt' \in 0 .. now' + Ttl
      BY <2>1, <2>2, <2>4, SMT DEF Credentials, Never
    <2>6. replacedAt' \in [Credentials -> Never .. now']
      BY <2>2, <2>3, <2>4, SMT DEF TypeOK, Never
    <2>7. presented[r] + 1 \in Credentials
      BY <2>1, <2>4, SMT DEF Credentials
    <2>8. issued' \subseteq Credentials
      BY <2>3, <2>7 DEF answer, TypeOK
    <2>9. /\ pc' \in [Requests -> Resting \cup {"lookup", "rotate", "lookAgain", "revoke"}]
          /\ presented' \in [Requests -> Credentials] /\ started' \in [Requests -> 0 .. now']
      BY <2>2, <2>3, <2>4, SMT DEF answer, finish, TypeOK, Credentials, Resting
    <2> QED
      BY <2>2, <2>5, <2>6, <2>8, <2>9, Zenon DEF TypeOK
  <1>8. ASSUME NEW r \in Requests, revoke(r) PROVE TypeOK'
    BY <1>8, SMT DEF TypeOK, revoke, revoked, refuse, finish, Never, Credentials, Resting
  <1> QED
    BY <1>1, <1>2, <1>3, <1>4, <1>5, <1>6, <1>7, <1>8, LooksAreQuiet DEF Next, refresh

-----------------------------------------------------------------------------
(* The facts about credentials that proofs of steps need.                  *)
numbers == /\ current \in Nat /\ rotatedAt \in Int /\ now \in Int
           /\ issued \subseteq Nat
           /\ presented \in [Requests -> Nat] /\ started \in [Requests -> Int]
           /\ \A r \in Requests : started[r] <= now

LEMMA Numbers == ASSUME TypeOK PROVE numbers
  BY SMT DEF TypeOK, numbers, Credentials, Never

LEMMA CredentialStep ==
    ASSUME SessionInv, [Next]_vars
    PROVE  IssuedWasStored' /\ PresentedWasStored'
  <1>1. numbers /\ TypeOK /\ IssuedWasStored /\ PresentedWasStored
    BY Numbers DEF SessionInv
  <1>2. CASE UNCHANGED <<current, issued, presented>>
    BY <1>1, <1>2 DEF IssuedWasStored, PresentedWasStored
  <1>3. ASSUME NEW r \in Requests, begin(r) PROVE IssuedWasStored' /\ PresentedWasStored'
    BY <1>1, <1>3, SMT DEF begin, row, IssuedWasStored, PresentedWasStored, numbers
  <1>4. ASSUME NEW r \in Requests, quiet(r) PROVE IssuedWasStored' /\ PresentedWasStored'
    <2>1. UNCHANGED current
      BY <1>4 DEF quiet, row
    <2>2. CASE UNCHANGED <<presented, issued>>
      BY <1>2, <2>1, <2>2
    <2>3. CASE refuse(r)
      BY <1>1, <2>1, <2>3, SMT DEF refuse, finish, IssuedWasStored, PresentedWasStored, numbers
    <2>4. CASE answer(r) /\ presented[r] + 1 = current
      BY <1>1, <2>1, <2>4, SMT DEF answer, finish, IssuedWasStored, PresentedWasStored, numbers
    <2>5. CASE goTo(r, "rotate") \/ goTo(r, "lookAgain") \/ goTo(r, "revoke")
      BY <2>2, <2>5 DEF goTo
    <2> QED
      BY <1>4, <2>3, <2>4, <2>5 DEF quiet
  <1>5. ASSUME NEW r \in Requests, rotate(r) PROVE IssuedWasStored' /\ PresentedWasStored'
    <2>1. current = presented[r] /\ current' = presented[r] + 1 /\ answer(r)
      BY <1>5, Zenon DEF rotate, mayRotate
    <2> QED
      BY <1>1, <2>1, SMT DEF answer, finish, IssuedWasStored, PresentedWasStored, numbers
  <1>6. ASSUME NEW r \in Requests, revoke(r) PROVE IssuedWasStored' /\ PresentedWasStored'
    BY <1>1, <1>6, SMT DEF revoke, refuse, finish, IssuedWasStored, PresentedWasStored, numbers
  <1> QED
    BY <1>1, <1>2, <1>3, <1>4, <1>5, <1>6, LooksAreQuiet
       DEF Next, refresh, Tick, logout, cleanup, vars, row

LEMMA RevokerStep == ASSUME SessionInv, [Next]_vars PROVE RevokersFoundReuse'
  <1>1. /\ numbers /\ TypeOK /\ PresentedWasStored /\ RevokersFoundReuse
        /\ pc \in [Requests -> Resting \cup {"lookup", "rotate", "lookAgain", "revoke"}]
    BY Numbers DEF SessionInv, TypeOK
  <1>2. CASE UNCHANGED <<current, rotatedAt, pc, presented, started>>
    BY <1>1, <1>2 DEF RevokersFoundReuse, reused
  <1>3. ASSUME NEW r \in Requests, begin(r) PROVE RevokersFoundReuse'
    BY <1>1, <1>3, SMT DEF begin, row, RevokersFoundReuse, reused, numbers
  <1>4. ASSUME NEW r \in Requests, quiet(r) PROVE RevokersFoundReuse'
    <2>1. UNCHANGED <<current, rotatedAt>>
      BY <1>4 DEF quiet, row
    <2>2. ASSUME refuse(r) \/ answer(r) PROVE RevokersFoundReuse'
      BY <1>1, <2>1, <2>2, SMT DEF refuse, answer, finish, RevokersFoundReuse, reused, numbers
    <2>3. ASSUME goTo(r, "rotate") \/ goTo(r, "lookAgain") \/ (goTo(r, "revoke") /\ reused(r))
          PROVE  RevokersFoundReuse'
      <3> SUFFICES ASSUME NEW q \in Requests, pc'[q] = "revoke" PROVE reused(q)'
        BY DEF RevokersFoundReuse
      <3>1. UNCHANGED <<presented, started>>
        BY <2>3 DEF goTo
      <3>2. reused(q)
        <4>1. CASE q = r
          BY <1>1, <2>3, <4>1, SMT DEF goTo
        <4>2. CASE q # r
          BY <1>1, <2>3, <4>2, SMT DEF goTo, RevokersFoundReuse
        <4> QED
          BY <4>1, <4>2
      <3> QED
        BY <2>1, <3>1, <3>2 DEF reused
    <2> QED
      BY <1>4, <2>2, <2>3 DEF quiet
  <1>5. ASSUME NEW r \in Requests, rotate(r) PROVE RevokersFoundReuse'
    <2>1. current = presented[r] /\ current' = presented[r] + 1 /\ answer(r)
      BY <1>5, Zenon DEF rotate, mayRotate
    <2> QED
      BY <1>1, <2>1, SMT DEF answer, finish, RevokersFoundReuse, reused, numbers
  <1>6. ASSUME NEW r \in Requests, revoke(r) PROVE RevokersFoundReuse'
    BY <1>1, <1>6, SMT DEF revoke, refuse, finish, RevokersFoundReuse, reused, numbers
  <1>7. CASE Tick \/ logout \/ cleanup \/ UNCHANGED vars
    BY <1>2, <1>7, Zenon DEF Tick, logout, cleanup, vars, row
  <1> QED
    BY <1>1, <1>3, <1>4, <1>5, <1>6, <1>7, LooksAreQuiet DEF Next, refresh

LEMMA StampStep == ASSUME SessionInv, [Next]_vars PROVE WindowIsStamped'
  <1>1. numbers /\ TypeOK /\ PresentedWasStored /\ WindowIsStamped
    BY Numbers DEF SessionInv
  <1>2. CASE UNCHANGED <<current, rotatedAt, replacedAt>>
    BY <1>1, <1>2 DEF WindowIsStamped
  <1>3. ASSUME NEW r \in Requests, rotate(r) PROVE WindowIsStamped'
    <2>1. /\ current' = presented[r] + 1 /\ rotatedAt' = started[r]
          /\ replacedAt' = [replacedAt EXCEPT ![presented[r]] = now]
      BY <1>3, Zenon DEF rotate
    <2>2. presented[r] \in DOMAIN replacedAt
      BY <1>1, SMT DEF TypeOK
    <2> QED
      BY <1>1, <2>1, <2>2, SMT DEF WindowIsStamped, numbers
  <1> QED
    BY <1>1, <1>2, <1>3, LooksAreQuiet
       DEF Next, refresh, Tick, logout, cleanup, begin, revoke, quiet, vars, row

LEMMA InvStep == ASSUME SessionInv, [Next]_vars PROVE SessionInv'
  BY TypeStep, CredentialStep, RevokerStep, StampStep DEF SessionInv

(* The inductive invariant of sessions, requests and the stamps of         *)
(* rotations.                                                              *)
THEOREM InvHolds == Spec => []SessionInv
  BY InitInv, InvStep, PTL DEF Spec

(* Every variable keeps its type; no clock runs ahead.                     *)
THEOREM TypeCorrect == Spec => []TypeOK
  <1>1. SessionInv => TypeOK
    BY DEF SessionInv
  <1> QED
    BY <1>1, InvHolds, PTL

(* No client is handed a credential the session was not stored with        *)
(* (refresh answers after its conditional update).                         *)
THEOREM CredentialsAreStored == Spec => []IssuedWasStored
  <1>1. SessionInv => IssuedWasStored
    BY DEF SessionInv
  <1> QED
    BY <1>1, InvHolds, PTL

(* A session never goes back to a credential it replaced, whatever         *)
(* requests read before they rotate: the update asks for the hash read.    *)
THEOREM RotationIsLinear == Spec => NeverRollsBack
  <1>1. SessionInv /\ [Next]_vars => (current' # current => current' = current + 1)
    <2> SUFFICES ASSUME [Next]_vars, current' # current PROVE current' = current + 1
      OBVIOUS
    <2>1. PICK r \in Requests : rotate(r)
      BY Zenon DEF Next, refresh, Tick, logout, cleanup, begin, lookup, rotateLost, lookAgain, revoke,
                   vars, row
    <2> QED
      BY <2>1, Zenon DEF rotate, mayRotate
  <1> QED
    BY <1>1, InvHolds, PTL DEF Spec, NeverRollsBack

(* A revoked session stays revoked and is never refreshed again, also by a *)
(* request that read it live.                                              *)
THEOREM RevocationIsFinal == Spec => RevokedIsFinal
  <1>1. [Next]_vars =>
          (revokedAt # Never => /\ revokedAt' = revokedAt
                                /\ current' = current /\ expiresAt' = expiresAt)
    <2> SUFFICES ASSUME [Next]_vars, revokedAt # Never
                 PROVE  revokedAt' = revokedAt /\ current' = current /\ expiresAt' = expiresAt
      OBVIOUS
    <2>1. ASSUME NEW r \in Requests PROVE ~rotate(r)
      BY Zenon DEF rotate, mayRotate
    <2>2. ASSUME NEW at, revoked(at) PROVE revokedAt' = revokedAt
      BY <2>2, Zenon DEF revoked
    <2>3. ~logout
      BY Zenon DEF logout
    <2> QED
      BY <2>1, <2>2, <2>3, Zenon
         DEF Next, refresh, Tick, cleanup, begin, lookup, rotateLost, lookAgain, revoke, vars, row
  <1> QED
    BY <1>1, PTL DEF Spec, RevokedIsFinal

(* Two refreshes racing within the grace window never revoke the session;  *)
(* only reuse after it does.                                               *)
THEOREM RacesAreTolerated == Spec => RaceIsTolerated
  <1>1. SessionInv =>
          \A r \in Requests :
            revokedAt = Never /\ revokedAt' # Never /\ pc[r] = "revoke" /\ pc'[r] = "refused" =>
              \/ presented[r] + 1 < current
              \/ presented[r] + 1 = current /\ rotatedAt < started[r] - Grace
    BY Zenon DEF SessionInv, RevokersFoundReuse, reused
  <1> QED
    BY <1>1, InvHolds, PTL DEF RaceIsTolerated

(* A replaced credential is answered only within the grace window of its   *)
(* rotation.                                                               *)
THEOREM WindowIsKept == Spec => StaleOnlyWithinGrace
  <1>1. ASSUME SessionInv, [Next]_vars, NEW r \in Requests,
               pc[r] \in {"lookup", "lookAgain"}, pc'[r] = "answered"
        PROVE  started[r] <= replacedAt[presented[r]] + Grace
    <2>1. numbers /\ TypeOK /\ PresentedWasStored /\ WindowIsStamped
      BY <1>1, Numbers DEF SessionInv
    <2>2. pc \in [Requests -> Resting \cup {"lookup", "rotate", "lookAgain", "revoke"}]
      BY <2>1 DEF TypeOK
    <2>3. PICK q \in Requests : refresh(q)
      BY <1>1, Zenon DEF Next, Tick, logout, cleanup, vars
    <2>4. \E place : pc' = [pc EXCEPT ![q] = place]
      BY <2>3, Zenon DEF refresh, begin, lookup, rotate, rotateLost, lookAgain, revoke, goTo, answer,
                         refuse, finish
    <2>5. q = r
      BY <1>1, <2>2, <2>4, SMT
    <2>6. lookup(r) \/ lookAgain(r)
      BY <1>1, <2>3, <2>5, SMT DEF refresh, begin, rotate, rotateLost, revoke, Resting
    <2>7. quiet(r)
      BY <2>1, <2>6, LooksAreQuiet
    <2>8. answer(r) /\ presented[r] + 1 = current /\ rotatedAt >= started[r] - Grace
      <3>1. ~refuse(r)
        BY <1>1, <2>2, SMT DEF refuse, finish
      <3>2. ~goTo(r, "rotate") /\ ~goTo(r, "lookAgain") /\ ~goTo(r, "revoke")
        BY <1>1, <2>2, SMT DEF goTo
      <3> QED
        BY <2>7, <3>1, <3>2 DEF quiet
    <2>9. rotatedAt <= replacedAt[presented[r]]
      BY <2>1, <2>8, SMT DEF numbers, WindowIsStamped
    <2>10. replacedAt[presented[r]] \in Int
      BY <2>1, SMT DEF TypeOK, Never
    <2> QED
      BY <2>1, <2>8, <2>9, <2>10, SMT DEF numbers
  <1>2. SessionInv /\ [Next]_vars =>
          \A r \in Requests :
             pc[r] \in {"lookup", "lookAgain"} /\ pc'[r] = "answered" =>
                started[r] <= replacedAt[presented[r]] + Grace
    BY <1>1
  <1> QED
    BY <1>2, InvHolds, PTL DEF Spec, StaleOnlyWithinGrace

(* The three about what refresh writes: stored before issued, linear,      *)
(* final.                                                                  *)
THEOREM SessionsOnlyGoForward == Spec => SessionsGoForward
  BY CredentialsAreStored, RotationIsLinear, RevocationIsFinal DEF SessionsGoForward

(* The two about the grace window: within it a race is tolerated, after it *)
(* reuse is refused.                                                       *)
THEOREM GraceIsExact == Spec => GraceIsKept
  BY WindowIsKept, RacesAreTolerated DEF GraceIsKept

-----------------------------------------------------------------------------
(***************************************************************************)
(* Proofs about UserRoles for any accounts, requests and runs of the       *)
(* bootstrap.  The lock of all changes of role does the work: under it the *)
(* one who changes a role stays an administrator from the moment that was  *)
(* checked, since a bootstrap only makes administrators, and the one whose *)
(* role goes down is somebody else.  The count of administrators is not    *)
(* needed for this, nor is the lock of the account.                        *)
(***************************************************************************)

underWay(c) == change[c].at # "rest"

(* One change of role is under way at a time. *)
RoleLockInv == \A c, d \in Changes : underWay(c) /\ underWay(d) => c = d

(* It is by somebody, of somebody. *)
NamedInv == \A c \in Changes : underWay(c) => change[c].by \in Requests /\ change[c].of \in Requests

(* From the check of the actor on, the actor is an administrator. *)
ActorInv == \A c \in Changes :
              change[c].at \in {"target", "count", "write"} => roleOf[change[c].by] = "admin"

(* From the check of the target on, nobody gives up an own role. *)
OthersInv == \A c \in Changes :
               change[c].at \in {"count", "write"} => change[c].of # change[c].by \/ change[c].to = "admin"

RolesInv == People!TypeOK /\ RoleLockInv /\ NamedInv /\ ActorInv /\ OthersInv /\ People!AnAdministratorRemains

LEMMA RolesInit == People!Init => RolesInv
  BY SMT DEF People!Init, RolesInv, People!TypeOK, RoleLockInv, NamedInv, ActorInv, OthersInv,
             People!AnAdministratorRemains, People!admins, underWay, People!Resting, People!Roles

(* A request moves on, or ends, and no role changes. *)
LEMMA RolesMove ==
  ASSUME RolesInv, NEW c \in Changes, underWay(c), UNCHANGED <<roleOf, boot>>,
         NEW where \in {"rest", "target", "count", "write"},
         IF where = "rest" THEN People!finish(c) ELSE People!goOn(c, where),
         where \in {"target", "count", "write"} => roleOf[change[c].by] = "admin",
         where \in {"count", "write"} => change[c].of # change[c].by \/ change[c].to = "admin"
  PROVE  RolesInv'
  <1>1. change \in [Changes -> [by : Requests \cup {NoOne}, of : Requests \cup {NoOne}, to : People!Roles,
                           at : {"rest", "actor", "target", "count", "write"}]]
    BY DEF RolesInv, People!TypeOK
  <1>2. /\ \A d \in Changes \ {c} : change'[d] = change[d]
        /\ change'[c].at = where
        /\ where # "rest" => /\ change'[c].by = change[c].by /\ change'[c].of = change[c].of
                             /\ change'[c].to = change[c].to
    BY <1>1, SMT DEF People!finish, People!goOn, People!Resting
  <1>3. People!TypeOK'
    BY <1>1, SMT DEF People!finish, People!goOn, People!Resting, RolesInv, People!TypeOK, People!Roles
  <1>4. RoleLockInv' /\ NamedInv'
    BY <1>2, SMT DEF RolesInv, RoleLockInv, NamedInv, underWay
  <1>5. ActorInv' /\ OthersInv'
    BY <1>2, SMT DEF RolesInv, ActorInv, OthersInv
  <1>6. People!AnAdministratorRemains'
    BY DEF RolesInv, People!AnAdministratorRemains, People!admins
  <1> QED
    BY <1>3, <1>4, <1>5, <1>6 DEF RolesInv

LEMMA UpdateRoleInv ==
  ASSUME RolesInv, NEW c \in Changes, NEW actor \in Requests, NEW target \in Requests, NEW role \in People!Roles,
         People!updateRole(c, actor, target, role)
  PROVE  RolesInv'
  <1>1. change \in [Changes -> [by : Requests \cup {NoOne}, of : Requests \cup {NoOne}, to : People!Roles,
                           at : {"rest", "actor", "target", "count", "write"}]]
    BY DEF RolesInv, People!TypeOK
  <1>2. /\ change' = [change EXCEPT ![c] = [by |-> actor, of |-> target, to |-> role, at |-> "actor"]]
        /\ \A d \in Changes : change[d].at = "rest"
        /\ roleOf' = roleOf /\ boot' = boot
    BY Zenon DEF People!updateRole, People!rolesUnlocked
  <1>3. People!TypeOK'
    BY <1>1, <1>2, SMT DEF RolesInv, People!TypeOK
  <1>4. RoleLockInv' /\ NamedInv' /\ ActorInv' /\ OthersInv'
    BY <1>1, <1>2, SMT DEF RoleLockInv, NamedInv, ActorInv, OthersInv, underWay
  <1>5. People!AnAdministratorRemains'
    BY <1>2 DEF RolesInv, People!AnAdministratorRemains, People!admins
  <1> QED
    BY <1>3, <1>4, <1>5 DEF RolesInv

(* The only step that takes a role away. *)
LEMMA WriteRoleInv ==
  ASSUME RolesInv, NEW c \in Changes, People!writeRole(c) PROVE RolesInv'
  <1>1. /\ roleOf \in [Requests -> People!Roles]
        /\ change \in [Changes -> [by : Requests \cup {NoOne}, of : Requests \cup {NoOne}, to : People!Roles,
                           at : {"rest", "actor", "target", "count", "write"}]]
    BY DEF RolesInv, People!TypeOK
  <1>2. /\ change[c].at = "write" /\ change' = [change EXCEPT ![c] = People!Resting]
        /\ roleOf' = [roleOf EXCEPT ![change[c].of] = change[c].to] /\ boot' = boot
    BY DEF People!writeRole, People!finish
  <1>3. /\ change[c].by \in Requests /\ change[c].of \in Requests
        /\ roleOf[change[c].by] = "admin"
        /\ change[c].of # change[c].by \/ change[c].to = "admin"
    BY <1>2, SMT DEF RolesInv, NamedInv, ActorInv, OthersInv, underWay
  <1>4. \A d \in Changes : change'[d].at = "rest"
    <2>1. \A d \in Changes \ {c} : change[d].at = "rest"
      BY <1>2, SMT DEF RolesInv, RoleLockInv, underWay
    <2> QED
      BY <1>1, <1>2, <2>1, SMT DEF People!Resting
  <1>5. People!TypeOK'
    <2>1. change[c].to \in People!Roles
      BY <1>1, SMT
    <2>2. roleOf' \in [Requests -> People!Roles]
      BY <1>1, <1>2, <2>1, Zenon
    <2>3. People!Resting \in [by : Requests \cup {NoOne}, of : Requests \cup {NoOne}, to : People!Roles,
                              at : {"rest", "actor", "target", "count", "write"}]
      BY SMT DEF People!Resting, People!Roles
    <2>4. change' \in [Changes -> [by : Requests \cup {NoOne}, of : Requests \cup {NoOne}, to : People!Roles,
                           at : {"rest", "actor", "target", "count", "write"}]]
      BY <1>1, <1>2, <2>3, Zenon
    <2>5. boot' \in [Boots -> Requests \cup {NoOne}]
      BY <1>2, Zenon DEF RolesInv, People!TypeOK
    <2> QED
      BY <2>2, <2>4, <2>5 DEF People!TypeOK
  <1>6. RoleLockInv' /\ NamedInv' /\ ActorInv' /\ OthersInv'
    BY <1>4, SMT DEF RoleLockInv, NamedInv, ActorInv, OthersInv, underWay
  <1>7. People!AnAdministratorRemains'
    BY <1>1, <1>2, <1>3, SMT DEF People!AnAdministratorRemains, People!admins
  <1> QED
    BY <1>5, <1>6, <1>7 DEF RolesInv

(* A bootstrap locks, gives up, or makes an administrator. *)
LEMMA BootstrapInv ==
  ASSUME RolesInv, NEW b \in Boots,
         (\E p \in Requests : People!lockForBootstrap(b, p)) \/ People!bootstrapAdmin(b) \/ People!bootstrapFails(b)
  PROVE  RolesInv'
  <1>1. roleOf \in [Requests -> People!Roles] /\ boot \in [Boots -> Requests \cup {NoOne}]
    BY DEF RolesInv, People!TypeOK
  <1>2. change' = change
    BY DEF People!lockForBootstrap, People!bootstrapAdmin, People!bootstrapFails
  <1>3. /\ \E p \in Requests \cup {NoOne} : boot' = [boot EXCEPT ![b] = p]
        /\ roleOf' = roleOf \/ roleOf' = [roleOf EXCEPT ![boot[b]] = "admin"]
    BY Zenon DEF People!lockForBootstrap, People!bootstrapAdmin, People!bootstrapFails
  <1>4. /\ roleOf' \in [Requests -> People!Roles] /\ boot' \in [Boots -> Requests \cup {NoOne}]
        /\ \A p \in Requests : roleOf[p] = "admin" => roleOf'[p] = "admin"
    <2>1. "admin" \in People!Roles
      BY DEF People!Roles
    <2> QED
      BY <1>1, <1>3, <2>1, Zenon
  <1>5. People!TypeOK' /\ RoleLockInv' /\ NamedInv' /\ OthersInv'
    BY <1>2, <1>4, Zenon DEF RolesInv, People!TypeOK, RoleLockInv, NamedInv, OthersInv, underWay
  <1>6. ActorInv'
    BY <1>2, <1>4, SMT DEF RolesInv, NamedInv, ActorInv, underWay
  <1>7. People!AnAdministratorRemains'
    BY <1>4, SMT DEF RolesInv, People!AnAdministratorRemains, People!admins
  <1> QED
    BY <1>5, <1>6, <1>7 DEF RolesInv

LEMMA RolesStep == RolesInv /\ [People!Next]_(People!vars) => RolesInv'
  <1> SUFFICES ASSUME RolesInv, [People!Next]_(People!vars) PROVE RolesInv'
    OBVIOUS
  <1>1. ASSUME NEW c \in Changes, People!readActor(c) PROVE RolesInv'
    <2>1. underWay(c) /\ UNCHANGED <<roleOf, boot>>
      BY <1>1 DEF People!readActor, underWay
    <2>2. CASE roleOf[change[c].by] = "admin"
      <3>1. People!goOn(c, "target")
        BY <1>1, <2>2 DEF People!readActor
      <3> QED
        BY <2>1, <2>2, <3>1, RolesMove, SMT
    <2>3. CASE roleOf[change[c].by] # "admin"
      <3>1. People!finish(c)
        BY <1>1, <2>3 DEF People!readActor
      <3> QED
        BY <2>1, <3>1, RolesMove, SMT
    <2> QED
      BY <2>2, <2>3
  <1>2. ASSUME NEW c \in Changes, People!readTarget(c) PROVE RolesInv'
    <2> DEFINE ends == \/ roleOf[change[c].of] = change[c].to
                       \/ change[c].of = change[c].by /\ change[c].to # "admin"
    <2>1. change[c].at = "target" /\ UNCHANGED <<roleOf, boot>>
      BY <1>2 DEF People!readTarget
    <2>2. underWay(c) /\ roleOf[change[c].by] = "admin"
      BY <2>1 DEF underWay, RolesInv, ActorInv
    <2>3. CASE ends
      <3>1. People!finish(c)
        BY <1>2, <2>3 DEF People!readTarget
      <3> QED
        BY <2>1, <2>2, <3>1, RolesMove, SMT
    <2>4. CASE ~ends
      <3>1. PICK where \in {"count", "write"} : People!goOn(c, where)
        BY <1>2, <2>4 DEF People!readTarget
      <3>2. change[c].of # change[c].by \/ change[c].to = "admin"
        BY <2>4
      <3>3. where # "rest" /\ where \in {"rest", "target", "count", "write"}
        OBVIOUS
      <3> HIDE DEF ends
      <3> QED
        BY <2>1, <2>2, <3>1, <3>2, <3>3, RolesMove
    <2> QED
      BY <2>3, <2>4
  <1>3. ASSUME NEW c \in Changes, People!countAdmins(c) PROVE RolesInv'
    <2>1. change[c].at = "count" /\ UNCHANGED <<roleOf, boot>>
      BY <1>3 DEF People!countAdmins
    <2>2. /\ underWay(c) /\ roleOf[change[c].by] = "admin"
          /\ change[c].of # change[c].by \/ change[c].to = "admin"
      BY <2>1 DEF underWay, RolesInv, ActorInv, OthersInv
    <2>3. People!finish(c) \/ People!goOn(c, "write")
      BY <1>3 DEF People!countAdmins
    <2> QED
      BY <2>1, <2>2, <2>3, RolesMove, SMT
  <1>4. ASSUME NEW c \in Changes, People!rollBack(c) PROVE RolesInv'
    <2>1. underWay(c) /\ People!finish(c) /\ UNCHANGED <<roleOf, boot>>
      BY <1>4 DEF People!rollBack, underWay
    <2> QED
      BY <2>1, RolesMove, SMT
  <1>5. CASE UNCHANGED People!vars
    BY <1>5 DEF People!vars, RolesInv, People!TypeOK, RoleLockInv, NamedInv, ActorInv, OthersInv,
                People!AnAdministratorRemains, People!admins, underWay
  <1> QED
    BY <1>1, <1>2, <1>3, <1>4, <1>5, UpdateRoleInv, WriteRoleInv, BootstrapInv, Zenon DEF People!Next

(* The inductive invariant: what is read under the two locks of a change   *)
(* of role is still so at its write.                                       *)
THEOREM RolesInvariant == People!Spec => []RolesInv
  BY RolesInit, RolesStep, PTL DEF People!Spec

(* Whoever demotes whom at once, and whatever is rolled back: an           *)
(* administrator remains (updateRole of the users repository).             *)
THEOREM OneRemains == People!Spec => []People!AnAdministratorRemains
  <1>1. RolesInv => People!AnAdministratorRemains
    BY DEF RolesInv
  <1> QED
    BY <1>1, RolesInvariant, PTL

(* The roles are beside the session, the avatar and the limits.            *)
LEMMA RolesBeside == MCSpec => People!Spec
  <1>1. MCInit => People!Init
    BY DEF MCInit
  <1>2. [MCNext]_mcVars => [People!Next]_(People!vars)
    BY Zenon DEF MCNext, mcVars, roleVars, People!vars
  <1> QED
    BY <1>1, <1>2, PTL DEF MCSpec, People!Spec

(* What the run checks of roles, for any number of people, changes and     *)
(* runs of the bootstrap.                                                  *)
THEOREM AnAdministratorAlwaysRemains == MCSpec => []AnAdministratorRemains
  BY RolesBeside, OneRemains, PTL DEF AnAdministratorRemains

-----------------------------------------------------------------------------
(***************************************************************************)
(* Proofs about AvatarUploads for any uploads, requests and runs of the    *)
(* clean-up.  Time does the work: an upload that the job listed expired    *)
(* more than the margin ago, so every confirmation that found it alive is  *)
(* over, and nothing is written to its address any more.                   *)
(***************************************************************************)

RowType == [state : {"none", "pending", "ready", "gone"}, expires : Nat]

(* An upload listed by the job is past its margin, and is not an avatar;   *)
(* the object of one whose row is about to go is gone.                     *)
SweptInv == \A s \in Sweepers : \A u \in sweeping[s].todo \cup sweeping[s].gone :
              /\ rows[u].state \in {"pending", "gone"}
              /\ rows[u].expires + Margin < storageTime
              /\ u \in sweeping[s].gone => object[u] = "absent"

(* A confirmation is not under way for longer than Stall; one that may     *)
(* publish its upload found it before it expired; and at its promotion the *)
(* object is what was declared unless the row has gone.                    *)
ConfirmingInv == \A r \in Confirmers :
  LET c == confirming[r]
  IN c.next # "idle" =>
       /\ c.upload \in Requests /\ rows[c.upload].state # "none"
       /\ storageTime <= c.since + Stall
       /\ c.next # "discard" => c.since < rows[c.upload].expires
       /\ c.next = "promote" => object[c.upload] = "good" \/ rows[c.upload].state = "gone"

DeferredInv == \A u \in deferred : rows[u].state = "gone"

(* The rows of one state are one row at most. *)
OneOfEach == \A u, v \in Requests :
               rows[u].state = rows[v].state /\ rows[u].state \in {"pending", "ready"} => u = v

AvatarTypes ==
  /\ rows \in [Requests -> RowType]
  /\ object \in [Requests -> {"absent", "good", "bad"}]
  /\ deferred \subseteq Requests /\ lost \subseteq Requests /\ storageTime \in 0 .. StorageEnd
  /\ confirming \in [Confirmers -> [upload : Requests \cup {NoOne}, since : 0 .. StorageEnd,
                       next : {"idle", "head", "range", "promote", "discard"}]]
  /\ sweeping \in [Sweepers -> [todo : SUBSET Requests, gone : SUBSET Requests]]

AvatarsInv == /\ AvatarTypes /\ OneOfEach /\ SweptInv /\ ConfirmingInv /\ DeferredInv
              /\ Avatars!ReadyHasItsObject /\ Avatars!NothingIsForgotten

LEMMA AvatarsInit == Avatars!Init => AvatarsInv
  BY AvatarsAssumption, SMT
     DEF Avatars!Init, AvatarsInv, AvatarTypes, RowType, OneOfEach, SweptInv, ConfirmingInv, DeferredInv,
         Avatars!ReadyHasItsObject, Avatars!NothingIsForgotten, Avatars!are, Avatars!NoRow,
         Avatars!Idle, Avatars!AtRest

(* The invariant from the state of the rows.                               *)
LEMMA RowsSay ==
  ASSUME TRUE PROVE /\ Avatars!ReadyHasItsObject <=>
                       \A u \in Requests : rows[u].state = "ready" => object[u] = "good" /\ u \notin deferred
                    /\ Avatars!NothingIsForgotten <=>
                       \A u \in Requests : rows[u].state = "gone" /\ object[u] # "absent" =>
                         u \in deferred \cup lost
  BY Zenon DEF Avatars!ReadyHasItsObject, Avatars!NothingIsForgotten, Avatars!are

(* Rows of some state go, and their objects are to be deleted: what a new  *)
(* request, a promotion, a removal and a discard have in common.           *)
LEMMA UploadIsAsked ==
  ASSUME AvatarsInv, NEW u \in Requests, Avatars!createUpload(u) PROVE AvatarsInv'
<1> USE AvatarsAssumption DEF AvatarsInv, AvatarTypes, RowType
<1>1. /\ rows[u].state = "none"
      /\ deferred' = deferred \cup {v \in Requests : rows[v].state = "pending"}
      /\ UNCHANGED <<object, confirming, sweeping, storageTime, lost>>
  BY SMT DEF Avatars!createUpload, Avatars!are
<1>2. AvatarTypes'
  BY <1>1, SMT DEF Avatars!createUpload
<1>3. \A v \in Requests :
        /\ rows'[v].state = IF v = u THEN "pending"
                            ELSE IF rows[v].state = "pending" THEN "gone" ELSE rows[v].state
        /\ v # u => rows'[v].expires = rows[v].expires
  BY <1>1, SMT DEF Avatars!createUpload, Avatars!are
<1> HIDE DEF AvatarTypes
<1>4. OneOfEach'
  BY <1>3, SMT DEF OneOfEach
<1>5. SweptInv'
  BY <1>1, <1>3, SMT DEF SweptInv, AvatarTypes
<1>6. ConfirmingInv'
  BY <1>1, <1>3, SMT DEF ConfirmingInv
<1>7. DeferredInv'
  BY <1>1, <1>3, SMT DEF DeferredInv, AvatarTypes
<1>8. Avatars!ReadyHasItsObject' /\ Avatars!NothingIsForgotten'
  BY <1>1, <1>3, SMT DEF DeferredInv, Avatars!ReadyHasItsObject, Avatars!NothingIsForgotten, Avatars!are
<1> QED BY <1>2, <1>4, <1>5, <1>6, <1>7, <1>8

(* A promotion publishes what was declared, and the avatar before it goes. *)
LEMMA UploadIsPublished ==
  ASSUME AvatarsInv, NEW r \in Confirmers, Avatars!promoteToReady(r) PROVE AvatarsInv'
<1> USE AvatarsAssumption DEF AvatarsInv
<1>1. PICK u \in Requests : u = confirming[r].upload
  BY SMT DEF Avatars!promoteToReady, ConfirmingInv, AvatarTypes
<1>2. /\ confirming[r].next = "promote"
      /\ confirming' = [confirming EXCEPT ![r] = Avatars!Idle]
      /\ UNCHANGED <<object, sweeping, storageTime, lost>>
  BY <1>1, Zenon DEF Avatars!promoteToReady, Avatars!respond
<1>3. /\ confirming' \in [Confirmers -> [upload : Requests \cup {NoOne}, since : 0 .. StorageEnd,
                            next : {"idle", "head", "range", "promote", "discard"}]]
      /\ \A q \in Confirmers : q # r => confirming'[q] = confirming[q]
      /\ confirming'[r].next = "idle"
  BY <1>2, SMT DEF AvatarTypes, Avatars!Idle
<1>4. CASE rows[u].state # "pending"
  <2>1. UNCHANGED <<rows, deferred>>
    BY <1>1, <1>4, Zenon DEF Avatars!promoteToReady
  <2>2. AvatarTypes' /\ OneOfEach' /\ SweptInv' /\ DeferredInv'
    BY <1>2, <1>3, <2>1, SMT DEF AvatarTypes, OneOfEach, SweptInv, DeferredInv
  <2>3. ConfirmingInv'
    BY <1>2, <1>3, <2>1, SMT DEF ConfirmingInv
  <2>4. Avatars!ReadyHasItsObject' /\ Avatars!NothingIsForgotten'
    BY <1>2, <2>1, SMT DEF Avatars!ReadyHasItsObject, Avatars!NothingIsForgotten, Avatars!are
  <2> QED BY <2>2, <2>3, <2>4
<1>5. CASE rows[u].state = "pending"
  <2>1. /\ rows' = [v \in Requests |-> IF v = u THEN [rows[u] EXCEPT !.state = "ready"]
                                       ELSE IF rows[v].state = "ready" THEN [rows[v] EXCEPT !.state = "gone"]
                                       ELSE rows[v]]
        /\ deferred' = deferred \cup {v \in Requests : rows[v].state = "ready"}
    BY <1>1, <1>5, SMT DEF Avatars!promoteToReady, Avatars!are
  <2>2. AvatarTypes'
    BY <1>2, <1>3, <2>1, SMT DEF AvatarTypes, RowType
  <2>3. \A v \in Requests :
          /\ rows'[v].state = IF v = u THEN "ready"
                              ELSE IF rows[v].state = "ready" THEN "gone" ELSE rows[v].state
          /\ rows'[v].expires = rows[v].expires
    BY <2>1, SMT DEF AvatarTypes, RowType
  <2>4. /\ object[u] = "good" /\ storageTime <= confirming[r].since + Stall
        /\ confirming[r].since < rows[u].expires
    BY <1>1, <1>2, <1>5, SMT DEF ConfirmingInv
  <2>5. \A s \in Sweepers : u \notin sweeping[s].todo \cup sweeping[s].gone
    <3>1. ~(rows[u].expires + Margin < storageTime)
      BY <2>4, SMT DEF AvatarTypes, RowType
    <3> QED BY <3>1, SMT DEF SweptInv
  <2>6. OneOfEach'
    BY <2>3, SMT DEF OneOfEach
  <2>7. SweptInv'
    BY <1>2, <2>3, <2>5, SMT DEF SweptInv, AvatarTypes
  <2>8. ConfirmingInv'
    BY <1>2, <1>3, <2>3, <2>4, SMT DEF ConfirmingInv
  <2>9. DeferredInv'
    BY <1>5, <2>1, <2>3, SMT DEF DeferredInv, AvatarTypes
  <2>10. Avatars!ReadyHasItsObject' /\ Avatars!NothingIsForgotten'
    BY <1>2, <1>5, <2>1, <2>3, <2>4, SMT
       DEF DeferredInv, Avatars!ReadyHasItsObject, Avatars!NothingIsForgotten, Avatars!are
  <2> QED BY <2>2, <2>6, <2>7, <2>8, <2>9, <2>10
<1> QED BY <1>4, <1>5

(* Rows go with their objects' deletion under way, or after it.            *)
LEMMA RowsGo ==
  ASSUME AvatarsInv, NEW S \in SUBSET Requests, Avatars!setRows(S, "gone"),
         \A u \in S : rows[u].state # "none",
         \A u \in S : u \in deferred' \/ object[u] = "absent",
         deferred \subseteq deferred', deferred' \subseteq deferred \cup S,
         UNCHANGED <<object, storageTime, lost>>,
         AvatarTypes', 
         \A s \in Sweepers : /\ sweeping'[s].todo \subseteq sweeping[s].todo
                             /\ sweeping'[s].gone \subseteq sweeping[s].gone,
         \A r \in Confirmers : confirming'[r] = confirming[r] \/ confirming'[r].next = "idle"
  PROVE  AvatarsInv'
<1> USE AvatarsAssumption DEF AvatarsInv
<1>1. \A v \in Requests : /\ rows'[v].state = IF v \in S THEN "gone" ELSE rows[v].state
                          /\ rows'[v].expires = rows[v].expires
  BY SMT DEF Avatars!setRows, AvatarTypes, RowType
<1>2. OneOfEach'
  BY <1>1, SMT DEF OneOfEach
<1>3. SweptInv'
  BY <1>1, SMT DEF SweptInv, AvatarTypes
<1>4. ConfirmingInv'
  BY <1>1, SMT DEF ConfirmingInv
<1>5. DeferredInv'
  BY <1>1, SMT DEF DeferredInv, AvatarTypes
<1>6. Avatars!ReadyHasItsObject' /\ Avatars!NothingIsForgotten'
  BY <1>1, SMT DEF DeferredInv, Avatars!ReadyHasItsObject, Avatars!NothingIsForgotten, Avatars!are, AvatarTypes
<1> QED BY <1>2, <1>3, <1>4, <1>5, <1>6

LEMMA UploadIsDiscarded ==
  ASSUME AvatarsInv, NEW r \in Confirmers, Avatars!removePending(r) PROVE AvatarsInv'
<1>1. PICK u \in Requests : u = confirming[r].upload
  BY SMT DEF Avatars!removePending, AvatarsInv, ConfirmingInv, AvatarTypes
<1>2. /\ confirming' = [confirming EXCEPT ![r] = Avatars!Idle]
      /\ UNCHANGED <<object, sweeping, storageTime, lost>>
  BY Zenon DEF Avatars!removePending, Avatars!respond
<1>3. /\ confirming' \in [Confirmers -> [upload : Requests \cup {NoOne}, since : 0 .. StorageEnd,
                            next : {"idle", "head", "range", "promote", "discard"}]]
      /\ \A q \in Confirmers : q # r => confirming'[q] = confirming[q]
      /\ confirming'[r].next = "idle"
  BY <1>2, AvatarsAssumption, SMT DEF AvatarsInv, AvatarTypes, Avatars!Idle
<1>4. PICK S \in SUBSET {u} : /\ Avatars!setRows(S, "gone") /\ deferred' = deferred \cup S
                              /\ \A v \in S : rows[v].state = "pending"
  <2>1. CASE rows[u].state # "pending"
    <3>1. Avatars!setRows({}, "gone") /\ deferred' = deferred \cup {}
      BY <1>1, <2>1, SMT DEF Avatars!removePending, Avatars!setRows, AvatarsInv, AvatarTypes
    <3> QED BY <3>1
  <2>2. CASE rows[u].state = "pending"
    <3>1. Avatars!setRows({u}, "gone") /\ deferred' = deferred \cup {u}
      BY <1>1, <2>2, Zenon DEF Avatars!removePending
    <3> QED BY <2>2, <3>1
  <2> QED BY <2>1, <2>2
<1>5. AvatarTypes'
  BY <1>1, <1>2, <1>3, <1>4, SMT DEF AvatarsInv, AvatarTypes, RowType, Avatars!setRows
<1> QED BY <1>2, <1>3, <1>4, <1>5, RowsGo

LEMMA AvatarIsRemoved == ASSUME AvatarsInv, Avatars!removeAvatar PROVE AvatarsInv'
<1>1. PICK S \in SUBSET Requests : S = {u \in Requests : rows[u].state \in {"pending", "ready"}}
  OBVIOUS
<1>2. /\ Avatars!setRows(S, "gone") /\ deferred' = deferred \cup S
      /\ UNCHANGED <<object, confirming, sweeping, storageTime, lost>>
  <2>1. S = Avatars!are("pending") \cup Avatars!are("ready")
    BY <1>1, SMT DEF Avatars!are
  <2> QED BY <2>1, SMT DEF Avatars!removeAvatar
<1>3. AvatarTypes'
  BY <1>1, <1>2, SMT DEF AvatarsInv, AvatarTypes, RowType, Avatars!setRows
<1>4. \A u \in S : rows[u].state # "none" /\ u \in deferred'
  BY <1>1, <1>2
<1> QED BY <1>2, <1>3, <1>4, RowsGo

LEMMA RowsAreDeleted ==
  ASSUME AvatarsInv, NEW s \in Sweepers, Avatars!deleteRows(s) PROVE AvatarsInv'
<1>1. PICK S \in SUBSET Requests : S = sweeping[s].gone
  BY DEF AvatarsInv, AvatarTypes
<1>2. /\ Avatars!setRows(S, "gone") /\ sweeping' = [sweeping EXCEPT ![s] = Avatars!AtRest]
      /\ UNCHANGED <<object, deferred, confirming, storageTime, lost>>
  BY <1>1, Zenon DEF Avatars!deleteRows
<1>3. /\ sweeping' \in [Sweepers -> [todo : SUBSET Requests, gone : SUBSET Requests]]
      /\ \A x \in Sweepers : /\ sweeping'[x].todo \subseteq sweeping[x].todo
                             /\ sweeping'[x].gone \subseteq sweeping[x].gone
  BY <1>2, SMT DEF AvatarsInv, AvatarTypes, Avatars!AtRest
<1>4. AvatarTypes'
  BY <1>2, <1>3, SMT DEF AvatarsInv, AvatarTypes, RowType, Avatars!setRows
<1>5. \A u \in S : rows[u].state # "none" /\ object[u] = "absent"
  BY <1>1, SMT DEF AvatarsInv, SweptInv
<1> QED BY <1>2, <1>3, <1>4, <1>5, RowsGo

(* An object is written or deleted, the rows stay.                         *)
LEMMA ObjectIsWritten == ASSUME AvatarsInv, NEW u \in Requests, Avatars!put(u) PROVE AvatarsInv'
<1> USE AvatarsAssumption DEF AvatarsInv
<1>1. /\ rows[u].state # "none" /\ storageTime < rows[u].expires /\ object[u] = "absent"
      /\ object' \in [Requests -> {"absent", "good", "bad"}]
      /\ \A v \in Requests : v # u => object'[v] = object[v]
      /\ lost' = IF rows[u].state = "gone" /\ u \notin deferred THEN lost \cup {u} ELSE lost
      /\ UNCHANGED <<rows, deferred, confirming, sweeping, storageTime>>
  BY SMT DEF Avatars!put, AvatarTypes
<1>2. AvatarTypes' /\ OneOfEach' /\ DeferredInv'
  BY <1>1, SMT DEF AvatarTypes, OneOfEach, DeferredInv
<1>3. SweptInv'
  <2>1. \A s \in Sweepers : u \notin sweeping[s].todo \cup sweeping[s].gone
    BY <1>1, SMT DEF SweptInv, AvatarTypes, RowType
  <2> QED BY <1>1, <2>1, SMT DEF SweptInv, AvatarTypes
<1>4. ConfirmingInv'
  BY <1>1, SMT DEF ConfirmingInv
<1>5. Avatars!ReadyHasItsObject' /\ Avatars!NothingIsForgotten'
  BY <1>1, SMT DEF Avatars!ReadyHasItsObject, Avatars!NothingIsForgotten, Avatars!are, AvatarTypes
<1> QED BY <1>2, <1>3, <1>4, <1>5

LEMMA ObjectIsDeleted ==
  ASSUME AvatarsInv, NEW u \in Requests, Avatars!deleteDeferred(u) PROVE AvatarsInv'
<1> USE AvatarsAssumption DEF AvatarsInv
<1>1. /\ u \in deferred /\ deferred' = deferred \ {u} /\ rows[u].state = "gone"
      /\ UNCHANGED <<rows, confirming, sweeping, storageTime>>
      /\ \/ object' = [object EXCEPT ![u] = "absent"] /\ lost' = lost
         \/ object' = object /\ lost' = lost \cup {u}
  BY SMT DEF Avatars!deleteDeferred, DeferredInv
<1>2. /\ object' \in [Requests -> {"absent", "good", "bad"}]
      /\ \A v \in Requests : v # u => object'[v] = object[v]
      /\ object'[u] = "absent" \/ u \in lost'
      /\ object'[u] \in {"absent", object[u]}
      /\ lost' \subseteq Requests /\ lost \subseteq lost'
  BY <1>1, SMT DEF AvatarTypes
<1>3. AvatarTypes' /\ OneOfEach' /\ DeferredInv'
  BY <1>1, <1>2, SMT DEF AvatarTypes, OneOfEach, DeferredInv
<1>4. SweptInv' /\ ConfirmingInv'
  BY <1>1, <1>2, SMT DEF SweptInv, ConfirmingInv, AvatarTypes
<1>5. Avatars!ReadyHasItsObject' /\ Avatars!NothingIsForgotten'
  BY <1>1, <1>2, SMT DEF Avatars!ReadyHasItsObject, Avatars!NothingIsForgotten, Avatars!are, AvatarTypes
<1> QED BY <1>3, <1>4, <1>5

LEMMA ObjectIsSwept ==
  ASSUME AvatarsInv, NEW s \in Sweepers, Avatars!deleteObject(s) PROVE AvatarsInv'
<1> USE AvatarsAssumption DEF AvatarsInv
<1>1. PICK u \in sweeping[s].todo :
        \/ /\ object' = [object EXCEPT ![u] = "absent"]
           /\ sweeping' = [sweeping EXCEPT ![s] = [todo |-> sweeping[s].todo \ {u},
                                                   gone |-> sweeping[s].gone \cup {u}]]
        \/ sweeping' = [sweeping EXCEPT ![s].todo = sweeping[s].todo \ {u}] /\ UNCHANGED object
  BY Zenon DEF Avatars!deleteObject
<1>2. UNCHANGED <<rows, deferred, confirming, storageTime, lost>>
  BY Zenon DEF Avatars!deleteObject
<1>3. /\ u \in Requests /\ rows[u].state # "ready" /\ rows[u].expires + Margin < storageTime
      /\ rows[u].state \in {"pending", "gone"}
  BY <1>1, SMT DEF SweptInv, AvatarTypes
<1>4. /\ object' \in [Requests -> {"absent", "good", "bad"}]
      /\ \A v \in Requests : v # u => object'[v] = object[v]
      /\ object'[u] \in {"absent", object[u]}
  BY <1>1, <1>3, SMT DEF AvatarTypes
<1>5. /\ sweeping' \in [Sweepers -> [todo : SUBSET Requests, gone : SUBSET Requests]]
      /\ \A x \in Sweepers : /\ sweeping'[x].todo \cup sweeping'[x].gone
                                  \subseteq sweeping[x].todo \cup sweeping[x].gone
                             /\ sweeping'[x].gone \subseteq sweeping[x].gone \cup {u}
                             /\ u \in sweeping'[x].gone => u \in sweeping[x].gone \/ object'[u] = "absent"
  <2>1. sweeping[s] \in [todo : SUBSET Requests, gone : SUBSET Requests]
    BY DEF AvatarTypes
  <2>2. CASE /\ object' = [object EXCEPT ![u] = "absent"]
             /\ sweeping' = [sweeping EXCEPT ![s] = [todo |-> sweeping[s].todo \ {u},
                                                     gone |-> sweeping[s].gone \cup {u}]]
    BY <1>1, <1>3, <2>1, <2>2, SMT DEF AvatarTypes
  <2>3. CASE sweeping' = [sweeping EXCEPT ![s].todo = sweeping[s].todo \ {u}] /\ UNCHANGED object
    BY <1>1, <1>3, <2>1, <2>3, SMT DEF AvatarTypes
  <2> QED BY <1>1, <2>2, <2>3
<1>6. AvatarTypes' /\ OneOfEach' /\ DeferredInv'
  BY <1>2, <1>4, <1>5, SMT DEF AvatarTypes, OneOfEach, DeferredInv
<1>7. SweptInv'
  BY <1>2, <1>3, <1>4, <1>5, SMT DEF SweptInv, AvatarTypes
<1>8. ConfirmingInv'
  <2>1. \A r \in Confirmers : confirming[r].next = "promote" => confirming[r].upload # u
    BY <1>3, SMT DEF ConfirmingInv, AvatarTypes, RowType
  <2> QED BY <1>2, <1>4, <2>1, SMT DEF ConfirmingInv
<1>9. Avatars!ReadyHasItsObject' /\ Avatars!NothingIsForgotten'
  BY <1>2, <1>3, <1>4, SMT DEF Avatars!ReadyHasItsObject, Avatars!NothingIsForgotten, Avatars!are, AvatarTypes
<1> QED BY <1>6, <1>7, <1>8, <1>9

(* A confirmation goes on or ends.                                         *)
LEMMA Confirmed ==
  ASSUME AvatarsInv, NEW r \in Confirmers, NEW c,
         c \in [upload : Requests \cup {NoOne}, since : 0 .. StorageEnd,
                next : {"idle", "head", "range", "promote", "discard"}],
         c.next # "idle" =>
            /\ c.upload \in Requests /\ rows[c.upload].state # "none"
            /\ storageTime <= c.since + Stall
            /\ c.next # "discard" => c.since < rows[c.upload].expires
            /\ c.next = "promote" => object[c.upload] = "good" \/ rows[c.upload].state = "gone",
         confirming' = [confirming EXCEPT ![r] = c],
         UNCHANGED <<rows, object, deferred, sweeping, storageTime, lost>>
  PROVE  AvatarsInv'
<1> USE AvatarsAssumption DEF AvatarsInv
<1>1. /\ \A q \in Confirmers : q # r => confirming'[q] = confirming[q]
      /\ confirming'[r] = c
  BY SMT DEF AvatarTypes
<1>2. AvatarTypes' /\ OneOfEach' /\ DeferredInv' /\ SweptInv'
  BY SMT DEF AvatarTypes, OneOfEach, DeferredInv, SweptInv
<1>3. ConfirmingInv'
  BY <1>1, SMT DEF ConfirmingInv
<1>4. Avatars!ReadyHasItsObject' /\ Avatars!NothingIsForgotten'
  BY SMT DEF Avatars!ReadyHasItsObject, Avatars!NothingIsForgotten, Avatars!are
<1> QED BY <1>2, <1>3, <1>4

LEMMA ConfirmingStep ==
  ASSUME AvatarsInv, NEW r \in Confirmers,
         \/ Avatars!headObject(r) \/ Avatars!readRange(r)
         \/ \E u \in Requests : Avatars!findPending(r, u)
  PROVE  AvatarsInv'
<1> DEFINE good(c) ==
      /\ c \in [upload : Requests \cup {NoOne}, since : 0 .. StorageEnd,
                next : {"idle", "head", "range", "promote", "discard"}]
      /\ c.next # "idle" =>
            /\ c.upload \in Requests /\ rows[c.upload].state # "none"
            /\ storageTime <= c.since + Stall
            /\ c.next # "discard" => c.since < rows[c.upload].expires
            /\ c.next = "promote" => object[c.upload] = "good" \/ rows[c.upload].state = "gone"
<1> USE AvatarsAssumption
<1>1. /\ confirming[r] \in [upload : Requests \cup {NoOne}, since : 0 .. StorageEnd,
                            next : {"idle", "head", "range", "promote", "discard"}]
      /\ good(confirming[r])
  BY SMT DEF AvatarsInv, AvatarTypes, ConfirmingInv
<1>2. good(Avatars!Idle)
  BY SMT DEF Avatars!Idle
<1>3. UNCHANGED <<rows, object, deferred, sweeping, storageTime, lost>>
  BY Zenon DEF Avatars!headObject, Avatars!readRange, Avatars!findPending
<1>4. \E c : good(c) /\ confirming' = [confirming EXCEPT ![r] = c]
  <2>1. ASSUME NEW step \in {"range", "promote", "discard"}, Avatars!goOn(r, step),
               confirming[r].next \in {"head", "range"},
               step = "promote" => object[confirming[r].upload] = "good"
        PROVE  good([confirming[r] EXCEPT !.next = step])
               /\ confirming' = [confirming EXCEPT ![r] = [confirming[r] EXCEPT !.next = step]]
    <3>1. confirming' = [confirming EXCEPT ![r] = [confirming[r] EXCEPT !.next = step]]
      BY <2>1, Zenon DEF Avatars!goOn
    <3>2. good([confirming[r] EXCEPT !.next = step])
      BY <1>1, <2>1, SMT
    <3> QED BY <3>1, <3>2
  <2>2. CASE Avatars!headObject(r)
    <3>1. /\ confirming[r].next = "head"
          /\ Avatars!respond(r) \/ Avatars!goOn(r, "discard") \/ Avatars!goOn(r, "range")
      BY <2>2, Zenon DEF Avatars!headObject
    <3>2. CASE Avatars!respond(r)
      BY <1>2, <3>2, Zenon DEF Avatars!respond
    <3> HIDE DEF good
    <3>3. CASE Avatars!goOn(r, "discard") \/ Avatars!goOn(r, "range")
      BY <2>1, <3>1, <3>3, SMT
    <3> QED BY <3>1, <3>2, <3>3
  <2>3. CASE Avatars!readRange(r)
    <3>1. /\ confirming[r].next = "range"
          /\ \/ Avatars!goOn(r, "promote") /\ object[confirming[r].upload] = "good"
             \/ Avatars!goOn(r, "discard")
      BY <2>3, Zenon DEF Avatars!readRange
    <3> HIDE DEF good
    <3> QED BY <2>1, <3>1, SMT
  <2>4. ASSUME NEW u \in Requests, Avatars!findPending(r, u)
        PROVE  \E c : good(c) /\ confirming' = [confirming EXCEPT ![r] = c]
    <3>1. PICK step \in {"head", "discard"} :
            /\ step = IF rows[u].expires <= storageTime THEN "discard" ELSE "head"
            /\ rows[u].state = "pending"
            /\ confirming' = [confirming EXCEPT ![r] = [upload |-> u, since |-> storageTime, next |-> step]]
      BY <2>4, Zenon DEF Avatars!findPending
    <3>2. good([upload |-> u, since |-> storageTime, next |-> step])
      BY <3>1, SMT DEF AvatarsInv, AvatarTypes, RowType
    <3> QED BY <3>1, <3>2
  <2> QED BY <2>2, <2>3, <2>4
<1>5. PICK c : good(c) /\ confirming' = [confirming EXCEPT ![r] = c]
  BY <1>4
<1> QED BY <1>3, <1>5, Confirmed

LEMMA AvatarsStep == AvatarsInv /\ [Avatars!Next]_(Avatars!vars) => AvatarsInv'
<1> USE AvatarsAssumption
<1> SUFFICES ASSUME AvatarsInv, [Avatars!Next]_(Avatars!vars) PROVE AvatarsInv'
  OBVIOUS
<1>1. ASSUME NEW s \in Sweepers, Avatars!listExpired(s) PROVE AvatarsInv'
  <2>1. PICK S \in SUBSET Requests :
          /\ \A u \in S : rows[u].state = "pending" /\ rows[u].expires + Margin < storageTime
          /\ sweeping' = [sweeping EXCEPT ![s].todo = S] /\ sweeping[s] = Avatars!AtRest
    <3>1. PICK S : S = {u \in Avatars!are("pending") : rows[u].expires + Margin < storageTime}
      OBVIOUS
    <3>2. sweeping' = [sweeping EXCEPT ![s].todo = S] /\ sweeping[s] = Avatars!AtRest
      BY <1>1, <3>1, Zenon DEF Avatars!listExpired
    <3>3. S \in SUBSET Requests /\ \A u \in S : rows[u].state = "pending" /\ rows[u].expires + Margin < storageTime
      BY <3>1, Zenon DEF Avatars!are
    <3> QED BY <3>2, <3>3
  <2>2. UNCHANGED <<rows, object, deferred, confirming, storageTime, lost>>
    BY <1>1, Zenon DEF Avatars!listExpired
  <2>3. /\ sweeping' \in [Sweepers -> [todo : SUBSET Requests, gone : SUBSET Requests]]
        /\ \A x \in Sweepers : x # s => sweeping'[x] = sweeping[x]
        /\ sweeping'[s].todo = S /\ sweeping'[s].gone = {}
    BY <2>1, SMT DEF AvatarsInv, AvatarTypes, Avatars!AtRest
  <2>4. AvatarTypes' /\ OneOfEach' /\ DeferredInv' /\ ConfirmingInv'
    BY <2>2, <2>3, SMT DEF AvatarsInv, AvatarTypes, OneOfEach, DeferredInv, ConfirmingInv
  <2>5. SweptInv'
    BY <2>1, <2>2, <2>3, SMT DEF AvatarsInv, SweptInv
  <2>6. Avatars!ReadyHasItsObject' /\ Avatars!NothingIsForgotten'
    BY <2>2, SMT DEF AvatarsInv, Avatars!ReadyHasItsObject, Avatars!NothingIsForgotten, Avatars!are
  <2> QED BY <2>4, <2>5, <2>6 DEF AvatarsInv
<1>2. ASSUME NEW s \in Sweepers, Avatars!endSweep(s) PROVE AvatarsInv'
  <2>1. /\ UNCHANGED <<rows, object, deferred, confirming, storageTime, lost>>
        /\ sweeping' \in [Sweepers -> [todo : SUBSET Requests, gone : SUBSET Requests]]
        /\ \A x \in Sweepers : x # s => sweeping'[x] = sweeping[x]
        /\ sweeping'[s].todo = {} /\ sweeping'[s].gone = {}
    BY <1>2, SMT DEF Avatars!endSweep, AvatarsInv, AvatarTypes, Avatars!AtRest
  <2>2. AvatarTypes' /\ OneOfEach' /\ DeferredInv' /\ ConfirmingInv' /\ SweptInv'
    BY <2>1, SMT DEF AvatarsInv, AvatarTypes, OneOfEach, DeferredInv, ConfirmingInv, SweptInv
  <2>3. Avatars!ReadyHasItsObject' /\ Avatars!NothingIsForgotten'
    BY <2>1, SMT DEF AvatarsInv, Avatars!ReadyHasItsObject, Avatars!NothingIsForgotten, Avatars!are
  <2> QED BY <2>2, <2>3 DEF AvatarsInv
<1>3. CASE Avatars!endProcess
  <2>1. /\ UNCHANGED <<rows, object, sweeping, storageTime>>
        /\ deferred' = {} /\ lost' = lost \cup deferred
        /\ confirming' \in [Confirmers -> [upload : Requests \cup {NoOne}, since : 0 .. StorageEnd,
                              next : {"idle", "head", "range", "promote", "discard"}]]
        /\ \A r \in Confirmers : confirming'[r].next = "idle"
    BY <1>3, SMT DEF Avatars!endProcess, Avatars!Idle
  <2>2. AvatarTypes' /\ OneOfEach' /\ DeferredInv' /\ ConfirmingInv' /\ SweptInv'
    BY <2>1, SMT DEF AvatarsInv, AvatarTypes, OneOfEach, DeferredInv, ConfirmingInv, SweptInv
  <2>3. Avatars!ReadyHasItsObject' /\ Avatars!NothingIsForgotten'
    BY <2>1, SMT DEF AvatarsInv, Avatars!ReadyHasItsObject, Avatars!NothingIsForgotten, Avatars!are
  <2> QED BY <2>2, <2>3 DEF AvatarsInv
<1>4. CASE Avatars!passTime
  <2>1. /\ UNCHANGED <<rows, object, deferred, confirming, sweeping, lost>>
        /\ storageTime < StorageEnd /\ storageTime' = storageTime + 1
        /\ \A r \in Confirmers : confirming[r].next # "idle" => storageTime < confirming[r].since + Stall
    BY <1>4, SMT DEF Avatars!passTime, Avatars!Idle
  <2>2. AvatarTypes' /\ OneOfEach' /\ DeferredInv'
    BY <2>1, SMT DEF AvatarsInv, AvatarTypes, OneOfEach, DeferredInv
  <2>3. ConfirmingInv'
    BY <2>1, SMT DEF AvatarsInv, AvatarTypes, ConfirmingInv
  <2>4. SweptInv'
    BY <2>1, SMT DEF AvatarsInv, AvatarTypes, RowType, SweptInv
  <2>5. Avatars!ReadyHasItsObject' /\ Avatars!NothingIsForgotten'
    BY <2>1, SMT DEF AvatarsInv, Avatars!ReadyHasItsObject, Avatars!NothingIsForgotten, Avatars!are
  <2> QED BY <2>2, <2>3, <2>4, <2>5 DEF AvatarsInv
<1>5. CASE UNCHANGED Avatars!vars
  BY <1>5 DEF Avatars!vars, AvatarsInv, AvatarTypes, OneOfEach, DeferredInv, ConfirmingInv, SweptInv,
     Avatars!ReadyHasItsObject, Avatars!NothingIsForgotten, Avatars!are
<1> QED
  BY <1>1, <1>2, <1>3, <1>4, <1>5, UploadIsAsked, UploadIsPublished, UploadIsDiscarded, AvatarIsRemoved,
     RowsAreDeleted, ObjectIsWritten, ObjectIsDeleted, ObjectIsSwept, ConfirmingStep, Zenon
     DEF Avatars!Next

(* The unique index of user_avatars is never asked to refuse.              *)
LEMMA OneRowOfEachState == AvatarsInv => Avatars!TypeOK
<1> SUFFICES ASSUME AvatarsInv PROVE Avatars!TypeOK
  OBVIOUS
<1>1. ASSUME NEW state \in {"pending", "ready"} PROVE Cardinality(Avatars!are(state)) <= 1
  <2>1. CASE Avatars!are(state) = {}
    BY <2>1, FS_EmptySet
  <2>2. ASSUME NEW u \in Avatars!are(state) PROVE Cardinality(Avatars!are(state)) <= 1
    <3>1. \A v \in Avatars!are(state) : v = u
      BY <1>1, <2>2, Zenon DEF Avatars!are, AvatarsInv, OneOfEach
    <3>2. Avatars!are(state) = {u}
      BY <2>2, <3>1, Zenon
    <3>3. Cardinality({u}) = 1
      BY FS_Singleton
    <3> QED BY <3>2, <3>3
  <2> QED BY <2>1, <2>2
<1>2. \A S : Avatars!Cardinality(S) = Cardinality(S)
  BY Zenon DEF Avatars!Cardinality, Cardinality
<1>3. Cardinality(Avatars!are("pending")) <= 1 /\ Cardinality(Avatars!are("ready")) <= 1
  BY <1>1
<1> QED BY <1>2, <1>3 DEF AvatarsInv, AvatarTypes, RowType, Avatars!TypeOK

(* The inductive invariant of rows, objects, confirmations and the job.    *)
THEOREM AvatarsInvariant == Avatars!Spec => []AvatarsInv
  BY AvatarsInit, AvatarsStep, PTL DEF Avatars!Spec

LEMMA AvatarsBeside == MCSpec => Avatars!Spec
  <1>1. MCInit => Avatars!Init
    BY DEF MCInit
  <1>2. [MCNext]_mcVars => [Avatars!Next]_(Avatars!vars)
    BY Zenon DEF MCNext, mcVars, avatarVars, Avatars!vars
  <1> QED BY <1>1, <1>2, PTL DEF MCSpec, Avatars!Spec

(* An avatar that is shown has the bytes that were declared, as long as no *)
(* confirmation takes longer than the job waits (finalizeUpload,           *)
(* promoteToReady and uploads:pending:cleanup).                            *)
THEOREM ShownAvatarsHaveTheirBytes == MCSpec => []ReadyHasItsObject
  <1>1. AvatarsInv => ReadyHasItsObject
    BY DEF AvatarsInv, ReadyHasItsObject
  <1> QED BY <1>1, AvatarsInvariant, AvatarsBeside, PTL

(* No object is left that nothing will look for but those the code gives   *)
(* up: the deferred deletions that failed or ended with the process, and   *)
(* what was written to an address that outlived its row.                   *)
THEOREM NoObjectIsForgotten == MCSpec => []NothingIsForgotten
  <1>1. AvatarsInv => NothingIsForgotten
    BY DEF AvatarsInv, NothingIsForgotten
  <1> QED BY <1>1, AvatarsInvariant, AvatarsBeside, PTL

-----------------------------------------------------------------------------
(***************************************************************************)
(* Proofs about MemoryBuckets for any callers, limit, budget and window.   *)
(* Neither the sweep of expired buckets nor the eviction of one with       *)
(* budget left takes the bucket of a caller that is being refused.         *)
(***************************************************************************)

RefusedHaveBuckets ==
  \A k \in Keys : time < refused[k] =>
     k \in table /\ bucket[k].resetAt = refused[k] /\ bucket[k].count >= Budget

BucketsInv == /\ Memory!TypeOK /\ IsFiniteSet(table)
              /\ Memory!LimitedStayLimited /\ RefusedHaveBuckets

LEMMA OneCardinality == \A S : Memory!Cardinality(S) = Cardinality(S)
  BY Zenon DEF Memory!Cardinality, Cardinality

LEMMA BucketsInit == Memory!Init => BucketsInv
<1>1. IsFiniteSet({}) /\ Memory!Cardinality({}) = 0
  BY FS_EmptySet, OneCardinality
<1> QED
  BY <1>1, LimitsAssumption, BoundsAssumption, SMT
     DEF Memory!Init, BucketsInv, Memory!TypeOK, Memory!NoBucket, Memory!LimitedStayLimited, RefusedHaveBuckets

(* The room made for a key leaves whoever is refused in the table.         *)
LEMMA RoomKeepsTheRefused ==
  ASSUME BucketsInv, NEW k \in Keys
  PROVE  /\ Memory!roomFor(k) \subseteq table
         /\ \A x \in Keys : time < refused[x] => x \in Memory!roomFor(k)
<1>1. /\ Memory!withoutExpired \subseteq table
      /\ \A x \in Keys : time < refused[x] => x \in table /\ x \in Memory!withoutExpired
  BY SMT DEF BucketsInv, RefusedHaveBuckets, Memory!withoutExpired, Memory!live
<1>2. ASSUME NEW t \in SUBSET table, \A x \in Keys : time < refused[x] => x \in t
      PROVE  /\ Memory!withoutCheap(t) \subseteq t
             /\ \A x \in Keys : time < refused[x] => x \in Memory!withoutCheap(t)
  <2>1. \A x \in Memory!first({y \in t : bucket[y].count < Budget}) : bucket[x].count < Budget
    BY DEF Memory!first
  <2>2. ASSUME NEW x \in Keys, time < refused[x] PROVE ~(bucket[x].count < Budget)
    BY <2>2, LimitsAssumption, SMT DEF BucketsInv, RefusedHaveBuckets, Memory!TypeOK
  <2> QED BY <1>2, <2>1, <2>2 DEF Memory!withoutCheap
<1>3. PICK t \in SUBSET table : /\ \A x \in Keys : time < refused[x] => x \in t
                                /\ Memory!roomFor(k) \in {t, Memory!withoutCheap(t)}
  <2>1. CASE Memory!Cardinality(table) >= Limit
    <3>1. Memory!roomFor(k) \in {Memory!withoutExpired, Memory!withoutCheap(Memory!withoutExpired)}
      BY <2>1, Zenon DEF Memory!roomFor
    <3> QED BY <1>1, <3>1
  <2>2. CASE ~(Memory!Cardinality(table) >= Limit)
    <3>1. Memory!roomFor(k) \in {table, Memory!withoutCheap(table)}
      BY <2>2, Zenon DEF Memory!roomFor
    <3> QED BY <1>1, <3>1
  <2> QED BY <2>1, <2>2
<1> QED BY <1>2, <1>3

(* The table after a step: what it keeps, with a key or without.           *)
LEMMA TableStep ==
  ASSUME BucketsInv, NEW t \in SUBSET table
  PROVE  /\ IsFiniteSet(t) /\ Memory!Cardinality(t) <= Limit
         /\ Memory!order(t) \subseteq t \X t
         /\ \A j, k \in t : <<j, k>> \in Memory!order(t) <=> j # k /\ <<k, j>> \notin Memory!order(t)
<1>1. IsFiniteSet(t) /\ Cardinality(t) <= Cardinality(table) /\ Cardinality(t) \in Nat
      /\ Cardinality(table) \in Nat
  BY FS_Subset, FS_CardinalityType DEF BucketsInv
<1>2. Memory!Cardinality(t) <= Limit
  BY <1>1, OneCardinality, LimitsAssumption, SMT DEF BucketsInv, Memory!TypeOK
<1>3. /\ Memory!order(t) \subseteq t \X t
      /\ \A j, k \in t : <<j, k>> \in Memory!order(t) <=> <<j, k>> \in older
  BY SMT DEF Memory!order, BucketsInv, Memory!TypeOK
<1> QED BY <1>1, <1>2, <1>3 DEF BucketsInv, Memory!TypeOK

LEMMA Stored ==
  ASSUME BucketsInv, NEW t \in SUBSET table, NEW k \in Keys, NEW b,
         b \in [count : 0 .. Budget + 1, resetAt : 0 .. MaxTime + Window],
         k \in t \/ Memory!Cardinality(t) < Limit,
         \A x \in Keys : time < refused[x] => x \in t,
         \A x \in Keys : time < refused[x] /\ x = k => b = bucket[k],
         b.count <= Budget,
         Memory!count(k, t, b), UNCHANGED time
  PROVE  BucketsInv'
<1> USE LimitsAssumption, BoundsAssumption
<1> DEFINE c == [b EXCEPT !.count = b.count + 1]
<1>1. /\ table' = t \cup {k}
      /\ older' = Memory!order(t) \cup (IF k \in t THEN {} ELSE t \X {k})
      /\ bucket' = [x \in Keys |-> IF x = k THEN c ELSE Memory!kept(t, x)]
      /\ IF b.count < Budget THEN Memory!letThrough(k) ELSE UNCHANGED slipped
      /\ refused' = IF b.count + 1 >= Budget THEN [refused EXCEPT ![k] = b.resetAt] ELSE refused
  BY Zenon DEF Memory!count, Memory!store
<1>2. /\ c \in [count : 0 .. Budget + 1, resetAt : 0 .. MaxTime + Window]
      /\ c.count = b.count + 1 /\ c.resetAt = b.resetAt
  BY SMT
<1> HIDE DEF c
<1>3. \A x \in Keys : Memory!kept(t, x) \in [count : 0 .. Budget + 1, resetAt : 0 .. MaxTime + Window]
  BY SMT DEF Memory!kept, Memory!NoBucket, BucketsInv, Memory!TypeOK
<1>4. bucket' \in [Keys -> [count : 0 .. Budget + 1, resetAt : 0 .. MaxTime + Window]]
  BY <1>1, <1>2, <1>3, Zenon
<1>5. refused' \in [Keys -> 0 .. MaxTime + Window]
  BY <1>1, SMT DEF BucketsInv, Memory!TypeOK
<1>6. /\ older' \subseteq table' \X table'
      /\ \A i, j \in table' : <<i, j>> \in older' <=> i # j /\ <<j, i>> \notin older'
  BY <1>1, TableStep, SMT
<1>7. IsFiniteSet(table') /\ Memory!Cardinality(table') <= Limit
  <2>1. CASE k \in t
    <3>1. table' = t
      BY <1>1, <2>1
    <3> QED BY <3>1, TableStep
  <2>2. CASE k \notin t
    <3>1. IsFiniteSet(t) /\ Cardinality(t) \in Nat /\ Cardinality(t) < Limit
      BY <2>2, TableStep, OneCardinality, FS_CardinalityType
    <3>2. IsFiniteSet(t \cup {k}) /\ Cardinality(t \cup {k}) = Cardinality(t) + 1
      BY <2>2, <3>1, FS_AddElement
    <3>3. IsFiniteSet(table') /\ Cardinality(table') <= Limit
      BY <1>1, <3>1, <3>2, SMT
    <3> QED BY <3>3, OneCardinality
  <2> QED BY <2>1, <2>2
<1>8. b.count < Budget => ~(time < refused[k])
  BY SMT DEF BucketsInv, RefusedHaveBuckets, Memory!TypeOK
<1>9. slipped' = {}
  BY <1>1, <1>8, Zenon DEF Memory!letThrough, BucketsInv, Memory!LimitedStayLimited
<1>10. RefusedHaveBuckets'
  <2> SUFFICES ASSUME NEW x \in Keys, time < refused'[x]
               PROVE  x \in table' /\ bucket'[x].resetAt = refused'[x] /\ bucket'[x].count >= Budget
    BY Zenon DEF RefusedHaveBuckets
  <2>1. CASE x = k
    <3>1. bucket'[k] = c /\ k \in table'
      BY <1>1, Zenon
    <3>2. CASE b.count + 1 >= Budget
      BY <1>1, <1>2, <2>1, <3>1, <3>2, SMT DEF BucketsInv, Memory!TypeOK
    <3>3. CASE ~(b.count + 1 >= Budget)
      BY <1>1, <1>8, <2>1, <3>3, SMT
    <3> QED BY <3>2, <3>3
  <2>2. CASE x # k
    <3>1. refused'[x] = refused[x]
      BY <1>1, <2>2, SMT DEF BucketsInv, Memory!TypeOK
    <3>2. x \in t /\ bucket'[x] = bucket[x] /\ x \in table'
      BY <1>1, <2>2, <3>1, Zenon DEF Memory!kept
    <3> QED BY <3>1, <3>2 DEF BucketsInv, RefusedHaveBuckets
  <2> QED BY <2>1, <2>2
<1>11. table' \subseteq Keys
  BY <1>1 DEF BucketsInv, Memory!TypeOK
<1> QED
  BY <1>4, <1>5, <1>6, <1>7, <1>9, <1>10, <1>11, Zenon
     DEF BucketsInv, Memory!TypeOK, Memory!LimitedStayLimited

LEMMA BucketsStep == BucketsInv /\ [Memory!Next]_(Memory!vars) => BucketsInv'
<1> USE LimitsAssumption, BoundsAssumption
<1> SUFFICES ASSUME BucketsInv, [Memory!Next]_(Memory!vars) PROVE BucketsInv'
  OBVIOUS
<1>1. ASSUME NEW k \in Keys, Memory!consume(k) PROVE BucketsInv'
  <2>1. UNCHANGED time /\ \A x \in Keys : time < refused[x] => x \in table /\ bucket[x].resetAt = refused[x]
    BY <1>1, Zenon DEF Memory!consume, BucketsInv, RefusedHaveBuckets
  <2>2. CASE k \in table /\ Memory!live(k)
    <3>1. Memory!count(k, table, bucket[k])
      BY <1>1, <2>2, Zenon DEF Memory!consume
    <3>2. bucket[k] \in [count : 0 .. Budget + 1, resetAt : 0 .. MaxTime + Window]
      BY DEF BucketsInv, Memory!TypeOK
    <3>3. bucket[k].count <= Budget
      BY <3>1 DEF Memory!count
    <3> QED BY <2>1, <2>2, <3>1, <3>2, <3>3, Stored
  <2>3. CASE ~(k \in table /\ Memory!live(k))
    <3>1. PICK t \in SUBSET table : t = Memory!roomFor(k) /\ \A x \in Keys : time < refused[x] => x \in t
      BY RoomKeepsTheRefused
    <3>2. ~(time < refused[k])
      BY <2>1, <2>3, SMT DEF Memory!live
    <3>3. CASE Memory!Cardinality(t) < Limit
      <4> DEFINE b == [count |-> 0, resetAt |-> time + Window]
      <4>1. Memory!count(k, t, b)
        BY <1>1, <2>3, <3>1, <3>3, Zenon DEF Memory!consume
      <4>2. b \in [count : 0 .. Budget + 1, resetAt : 0 .. MaxTime + Window] /\ b.count <= Budget
        BY SMT DEF BucketsInv, Memory!TypeOK
      <4> HIDE DEF b
      <4> QED BY <2>1, <3>1, <3>2, <3>3, <4>1, <4>2, Stored
    <3>4. CASE ~(Memory!Cardinality(t) < Limit)
      <4>1. /\ table' = t /\ older' = Memory!order(t)
            /\ bucket' = [x \in Keys |-> Memory!kept(t, x)]
            /\ UNCHANGED <<refused, slipped, time>>
        BY <1>1, <2>3, <3>1, <3>4, Zenon DEF Memory!consume
      <4>2. \A x \in Keys : Memory!kept(t, x) \in [count : 0 .. Budget + 1, resetAt : 0 .. MaxTime + Window]
        BY SMT DEF Memory!kept, Memory!NoBucket, BucketsInv, Memory!TypeOK
      <4>3. bucket' \in [Keys -> [count : 0 .. Budget + 1, resetAt : 0 .. MaxTime + Window]]
        BY <4>1, <4>2, Zenon
      <4>4. RefusedHaveBuckets'
        BY <3>1, <4>1, Zenon DEF RefusedHaveBuckets, BucketsInv, Memory!kept
      <4>5. /\ IsFiniteSet(table') /\ Memory!Cardinality(table') <= Limit
            /\ older' \subseteq table' \X table'
            /\ \A i, j \in table' : <<i, j>> \in older' <=> i # j /\ <<j, i>> \notin older'
        BY <4>1, TableStep, Zenon
      <4> QED
        BY <4>1, <4>3, <4>4, <4>5, Zenon DEF BucketsInv, Memory!TypeOK, Memory!LimitedStayLimited
    <3> QED BY <3>3, <3>4
  <2> QED BY <2>2, <2>3
<1>2. CASE Memory!passTime
  BY <1>2, SMT DEF Memory!passTime, BucketsInv, Memory!TypeOK, Memory!LimitedStayLimited, RefusedHaveBuckets
<1>3. CASE UNCHANGED Memory!vars
  BY <1>3, Zenon DEF Memory!vars, BucketsInv, Memory!TypeOK, Memory!LimitedStayLimited, RefusedHaveBuckets
<1> QED BY <1>1, <1>2, <1>3, Zenon DEF Memory!Next

THEOREM BucketsInvariant == Memory!Spec => []BucketsInv
  BY BucketsInit, BucketsStep, PTL DEF Memory!Spec

LEMMA MemoryBeside == MCSpec => Memory!Spec
  <1>1. MCInit => Memory!Init
    BY DEF MCInit
  <1>2. [MCNext]_mcVars => [Memory!Next]_(Memory!vars)
    BY Zenon DEF MCNext, mcVars, memoryVars, Memory!vars
  <1> QED BY <1>1, <1>2, PTL DEF MCSpec, Memory!Spec

-----------------------------------------------------------------------------
(***************************************************************************)
(* Proofs about DatabaseBuckets for any requests, budget and windows.  A   *)
(* row counts at least what was let through in its window; when the sweep  *)
(* takes the row, the window is over, so nobody reads it from the clock    *)
(* any more.                                                               *)
(***************************************************************************)

CountsAll == \A w \in Database!Windows \ sweptUnder :
               \/ passed[w] <= counted[w]
               \/ Database!endOf(w) < clockTime /\ \A h \in Requests : asked[h] # w

WindowsInv == /\ Database!TypeOK /\ Database!BudgetIsShared /\ CountsAll
              /\ sweepAt # NoOne => sweepAt <= clockTime

(* The windows of the clock.                                               *)
LEMMA WindowsOfTheClock ==
  /\ Database!Windows \subseteq Nat
  /\ \A t \in 0 .. LastTime : Database!windowOf(t) \in Database!Windows
  /\ \A w \in Database!Windows : Database!endOf(w) \in Nat
  /\ \A w \in Database!Windows : \A t \in 0 .. LastTime : Database!endOf(w) < t => Database!windowOf(t) # w
<1> USE LimitsAssumption DEF Database!Windows, Database!windowOf, Database!endOf
<1>1. \A t \in Nat : t \div Length \in Nat
  BY SMT
<1>2. \A t, u \in Nat : t <= u => t \div Length <= u \div Length
  BY SMT
<1>3. ASSUME NEW w \in Nat, NEW t \in Nat, (w + 1) * Length < t PROVE t \div Length # w
  BY <1>3, SMT
<1>4. \A w \in Nat : (w + 1) * Length \in Nat
  BY SMT
<1> QED BY <1>1, <1>2, <1>3, <1>4

LEMMA WindowsInit == Database!Init => WindowsInv
  BY LimitsAssumption, WindowsOfTheClock, SMT
     DEF Database!Init, WindowsInv, Database!TypeOK, Database!BudgetIsShared, CountsAll

LEMMA WindowsStep == WindowsInv /\ [Database!Next]_(Database!vars) => WindowsInv'
<1> USE LimitsAssumption DEF WindowsInv, Database!TypeOK
<1> SUFFICES ASSUME WindowsInv, [Database!Next]_(Database!vars) PROVE WindowsInv'
  OBVIOUS
<1>1. ASSUME NEW h \in Requests, Database!ask(h) PROVE WindowsInv'
  <2>1. Database!windowOf(clockTime) \in Database!Windows
    BY WindowsOfTheClock
  <2>2. /\ asked' = [asked EXCEPT ![h] = Database!windowOf(clockTime)]
        /\ UNCHANGED <<counted, passed, sweepAt, clockTime, sweptUnder>>
    BY <1>1, Zenon DEF Database!ask
  <2>3. Database!TypeOK' /\ Database!BudgetIsShared' /\ (sweepAt' # NoOne => sweepAt' <= clockTime')
    BY <2>1, <2>2, SMT DEF Database!BudgetIsShared
  <2>4. CountsAll'
    <3>1. \A w \in Database!Windows : Database!endOf(w) < clockTime => Database!windowOf(clockTime) # w
      BY WindowsOfTheClock
    <3> QED BY <2>2, <3>1, SMT DEF CountsAll
  <2> QED BY <2>3, <2>4
<1>2. ASSUME NEW h \in Requests, Database!upsert(h) PROVE WindowsInv'
  <2>1. PICK w \in Database!Windows : w = asked[h]
    BY <1>2, SMT DEF Database!upsert
  <2>2. /\ counted[w] < MaxHits /\ counted' = [counted EXCEPT ![w] = counted[w] + 1]
        /\ passed' = IF counted[w] < HitBudget THEN [passed EXCEPT ![w] = passed[w] + 1] ELSE passed
        /\ asked' = [asked EXCEPT ![h] = NoOne]
        /\ UNCHANGED <<sweepAt, clockTime, sweptUnder>>
    BY <1>2, <2>1, Zenon DEF Database!upsert
  <2>3. w \notin sweptUnder => passed[w] <= counted[w]
    BY <2>1, SMT DEF CountsAll
  <2>4. Database!TypeOK' /\ (sweepAt' # NoOne => sweepAt' <= clockTime')
    BY <2>2, SMT
  <2>5. Database!BudgetIsShared'
    BY <2>2, <2>3, SMT DEF Database!BudgetIsShared
  <2>6. CountsAll'
    <3>1. \A x \in Database!Windows : x # NoOne
      BY WindowsOfTheClock
    <3> QED BY <2>2, <2>3, <3>1, SMT DEF CountsAll
  <2> QED BY <2>4, <2>5, <2>6
<1>3. ASSUME NEW h \in Requests, Database!fail(h) PROVE WindowsInv'
  BY <1>3, WindowsOfTheClock, SMT DEF Database!fail, Database!BudgetIsShared, CountsAll
<1>4. CASE Database!startSweep
  BY <1>4, SMT DEF Database!startSweep, Database!BudgetIsShared, CountsAll
<1>5. CASE Database!sweep
  <2>1. PICK old \in SUBSET Database!Windows :
          /\ \A w \in old : Database!endOf(w) < sweepAt
          /\ sweepAt # NoOne /\ sweepAt' = NoOne
          /\ counted' = [w \in Database!Windows |-> IF w \in old THEN 0 ELSE counted[w]]
          /\ sweptUnder' = sweptUnder \cup {w \in old : \E h \in Requests : asked[h] = w}
          /\ UNCHANGED <<asked, passed, clockTime>>
    <3>1. PICK old : old = {w \in Database!Windows : Database!stale(w)}
      OBVIOUS
    <3>2. /\ sweepAt # NoOne /\ sweepAt' = NoOne
          /\ counted' = [w \in Database!Windows |-> IF w \in old THEN 0 ELSE counted[w]]
          /\ sweptUnder' = sweptUnder \cup {w \in old : \E h \in Requests : asked[h] = w}
          /\ UNCHANGED <<asked, passed, clockTime>>
      BY <1>5, <3>1, Zenon DEF Database!sweep
    <3>3. old \in SUBSET Database!Windows /\ \A w \in old : Database!endOf(w) < sweepAt
      BY <3>1, Zenon DEF Database!stale
    <3> QED BY <3>2, <3>3
  <2>2. Database!TypeOK' /\ Database!BudgetIsShared'
    BY <2>1, SMT DEF Database!BudgetIsShared
  <2>3. CountsAll'
    <3>1. \A w \in old : Database!endOf(w) < clockTime
      BY <2>1, WindowsOfTheClock, SMT
    <3> QED BY <2>1, <3>1, SMT DEF CountsAll
  <2> QED BY <2>1, <2>2, <2>3
<1>6. CASE Database!tick
  BY <1>6, WindowsOfTheClock, SMT DEF Database!tick, Database!BudgetIsShared, CountsAll
<1>7. CASE UNCHANGED Database!vars
  BY <1>7, SMT DEF Database!vars, Database!BudgetIsShared, CountsAll
<1> QED BY <1>1, <1>2, <1>3, <1>4, <1>5, <1>6, <1>7, Zenon DEF Database!Next

THEOREM WindowsInvariant == Database!Spec => []WindowsInv
  BY WindowsInit, WindowsStep, PTL DEF Database!Spec

LEMMA DatabaseBeside == MCSpec => Database!Spec
  <1>1. MCInit => Database!Init
    BY DEF MCInit
  <1>2. [MCNext]_mcVars => [Database!Next]_(Database!vars)
    BY Zenon DEF MCNext, mcVars, databaseVars, Database!vars
  <1> QED BY <1>1, <1>2, PTL DEF MCSpec, Database!Spec

-----------------------------------------------------------------------------
(* All of the run together.                                                *)

(* Both stores keep to a budget that was spent: nobody whose bucket is     *)
(* full is let through before its window ends, and the processes together  *)
(* let through what the budget of a window allows (consume of the memory   *)
(* and of the database store).                                             *)
THEOREM BothStoresKeepLimits == MCSpec => []LimitsHold
<1>1. BucketsInv /\ WindowsInv => LimitsHold
  BY DEF BucketsInv, WindowsInv, LimitsHold
<1> QED BY <1>1, BucketsInvariant, MemoryBeside, WindowsInvariant, DatabaseBeside, PTL

LEMMA SessionsBeside == MCSpec => Spec
<1>1. MCInit => Init
  BY DEF MCInit
<1>2. [MCNext]_mcVars => [Next]_vars
  BY Zenon DEF MCNext, mcVars
<1> QED BY <1>1, <1>2, PTL DEF MCSpec, Spec

(* The types of the five: the unique index of avatars is never hit, the    *)
(* table of buckets never outgrows its limit.                              *)
THEOREM AccountsAreTyped == MCSpec => []TypesHold
<1>1. TypeOK /\ Avatars!TypeOK /\ People!TypeOK /\ Memory!TypeOK /\ Database!TypeOK => TypesHold
  BY DEF TypesHold
<1>2. RolesInv => People!TypeOK
  BY DEF RolesInv
<1>3. BucketsInv => Memory!TypeOK
  BY DEF BucketsInv
<1>4. WindowsInv => Database!TypeOK
  BY DEF WindowsInv
<1> QED
  BY <1>1, <1>2, <1>3, <1>4, TypeCorrect, SessionsBeside, OneRowOfEachState, AvatarsInvariant, AvatarsBeside,
     RolesInvariant, RolesBeside, BucketsInvariant, MemoryBeside, WindowsInvariant, DatabaseBeside, PTL
=============================================================================
