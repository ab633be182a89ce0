--------------------------- MODULE RefreshSessions ---------------------------
(***************************************************************************)
(* One login session and the requests that refresh it, log it out and      *)
(* sweep it: AuthService.refresh and logout over a row of auth_sessions,   *)
(* and the session half of the job auth:sessions:cleanup.                  *)
(*                                                                         *)
(* A refresh looks the session up, then rotates its credential with one    *)
(* conditional update, looks it up again if the update matched nothing,    *)
(* and revokes it when the credential turns out to be reused: each of      *)
(* these statements is an action.  Rotation is deterministic: the          *)
(* successor of the n-th credential of a session is its n+1-st, so a       *)
(* credential is a number.  The clock is read once per request.            *)
(*                                                                         *)
(* Abstracted: hashes and signatures; credentials the server never issued, *)
(* which match no session; access tokens, which are checked against the    *)
(* same row.                                                               *)
(***************************************************************************)
EXTENDS Integers

CONSTANTS Requests,
          Grace,      \* REFRESH_REUSE_GRACE_SECONDS
          Ttl,        \* REFRESH_TOKEN_TTL_DAYS
          Absolute,   \* SESSION_ABSOLUTE_TTL_DAYS
          Retention,  \* SESSION_RETENTION_DAYS
          MaxTime,    \* bound: the clock stops here
          MaxRotations \* bound: credentials of the session

ASSUME WindowsAssumption == Grace \in Nat /\ Ttl \in Nat /\ Absolute \in Nat /\ Retention \in Nat
ASSUME BoundsAssumption == MaxTime \in Nat /\ MaxRotations \in Nat

VARIABLES now,
          exists, current, rotatedAt, expiresAt, revokedAt, \* the row
          issued,     \* credentials handed to the client
          pc, presented, started, \* of a refresh in progress
          replacedAt  \* history: when a credential was replaced

row == <<exists, current, rotatedAt, expiresAt, revokedAt>>
vars == <<now, exists, current, rotatedAt, expiresAt, revokedAt, issued, pc, presented, started,
          replacedAt>>

Never == -1
Credentials == 0 .. MaxRotations
createdAt == 0

Resting == {"idle", "answered", "refused"}

Init == /\ now = 0
        /\ exists = TRUE /\ current = 0 /\ rotatedAt = Never /\ expiresAt = Ttl
        /\ revokedAt = Never
        /\ issued = {0}
        /\ pc = [r \in Requests |-> "idle"]
        /\ presented = [r \in Requests |-> 0]
        /\ started = [r \in Requests |-> 0]
        /\ replacedAt = [k \in Credentials |-> Never]

Tick == /\ now < MaxTime
        /\ now' = now + 1
        /\ UNCHANGED <<row, issued, pc, presented, started, replacedAt>>

finish(r, outcome) == /\ pc' = [pc EXCEPT ![r] = outcome]
                      /\ presented' = [presented EXCEPT ![r] = 0]
                      /\ started' = [started EXCEPT ![r] = 0]

refuse(r) == finish(r, "refused") /\ UNCHANGED issued
answer(r) == finish(r, "answered") /\ issued' = issued \cup {presented[r] + 1}
goTo(r, place) == pc' = [pc EXCEPT ![r] = place] /\ UNCHANGED <<presented, started, issued>>

begin(r) == /\ pc[r] \in Resting
            /\ pc' = [pc EXCEPT ![r] = "lookup"]
            /\ \E k \in issued : presented' = [presented EXCEPT ![r] = k]
            /\ started' = [started EXCEPT ![r] = now]
            /\ UNCHANGED <<now, row, issued, replacedAt>>

-----------------------------------------------------------------------------
(* findActiveRefreshSession: the session is found by the family of the     *)
(* credential, whichever credential of it is presented.                    *)

active(r) == /\ exists /\ revokedAt = Never
             /\ expiresAt > started[r]
             /\ createdAt > started[r] - Absolute

(* Seeded defect: the window never closes.                                 *)
withinGrace_Unbounded(r) == current > 0 /\ presented[r] = current - 1

(* The immediately previous credential, replaced not long ago.             *)
withinGrace(r) == /\ current > 0 /\ presented[r] = current - 1
                  /\ rotatedAt >= started[r] - Grace

credentialState(r) == IF presented[r] = current THEN "current"
                      ELSE IF withinGrace(r) THEN "previous_within_grace"
                      ELSE "reused"

-----------------------------------------------------------------------------
(* AuthService.refresh *)

lookup(r) ==
    /\ pc[r] = "lookup"
    /\ \/ ~active(r) /\ refuse(r)
       \/ active(r) /\ credentialState(r) = "current" /\ goTo(r, "rotate")
       \/ active(r) /\ credentialState(r) = "previous_within_grace" /\ answer(r)
       \/ active(r) /\ credentialState(r) = "reused" /\ goTo(r, "revoke")
    /\ UNCHANGED <<now, row, replacedAt>>

(* Seeded defect: the update asks only for a session that is not revoked.  *)
mayRotate_Unfenced(r) == exists /\ revokedAt = Never /\ expiresAt > started[r]

(* Seeded defect: a session revoked since the lookup is rotated all the    *)
(* same.                                                                   *)
mayRotate_Revoked(r) == exists /\ current = presented[r] /\ expiresAt > started[r]

(* The condition of the update: still this credential, still alive.        *)
mayRotate(r) == /\ exists /\ current = presented[r]
                /\ revokedAt = Never /\ expiresAt > started[r]

(* Seeded defect: the lifetime is added to what is left of it.             *)
nextExpiresAt_Added(r) == expiresAt + Ttl

nextExpiresAt(r) == started[r] + Ttl

rotate(r) ==
    /\ pc[r] = "rotate"
    /\ mayRotate(r) /\ presented[r] < MaxRotations
    /\ current' = presented[r] + 1
    /\ rotatedAt' = started[r]
    /\ expiresAt' = nextExpiresAt(r)
    /\ replacedAt' = [replacedAt EXCEPT ![presented[r]] = now]
    /\ answer(r)
    /\ UNCHANGED <<now, exists, revokedAt>>

rotateLost(r) == /\ pc[r] = "rotate" /\ ~mayRotate(r)
                 /\ goTo(r, "lookAgain")
                 /\ UNCHANGED <<now, row, replacedAt>>

(* Seeded defect: having lost the race is taken for reuse.                 *)
lookAgain_Strict(r) ==
    /\ pc[r] = "lookAgain"
    /\ \/ ~active(r) /\ refuse(r)
       \/ active(r) /\ goTo(r, "revoke")
    /\ UNCHANGED <<now, row, replacedAt>>

(* Another request was faster: the same lookup, with the same clock.       *)
lookAgain(r) ==
    /\ pc[r] = "lookAgain"
    /\ \/ (active(r) => credentialState(r) = "current") /\ refuse(r)
       \/ active(r) /\ credentialState(r) = "previous_within_grace" /\ answer(r)
       \/ active(r) /\ credentialState(r) = "reused" /\ goTo(r, "revoke")
    /\ UNCHANGED <<now, row, replacedAt>>

revoked(at) == revokedAt' = IF exists /\ revokedAt = Never THEN at ELSE revokedAt

revoke(r) == /\ pc[r] = "revoke"
             /\ revoked(started[r])
             /\ refuse(r)
             /\ UNCHANGED <<now, exists, current, rotatedAt, expiresAt, replacedAt>>

(* logout: any credential of the family will do.                           *)
logout == /\ exists /\ revokedAt = Never
          /\ revoked(now)
          /\ UNCHANGED <<now, exists, current, rotatedAt, expiresAt, issued, pc, presented, started,
                         replacedAt>>

(* auth:sessions:cleanup                                                   *)
cleanup == /\ exists
           /\ \/ expiresAt < now - Retention
              \/ revokedAt # Never /\ revokedAt < now - Retention
              \/ createdAt < now - (Absolute + Retention)
           /\ exists' = FALSE
           /\ UNCHANGED <<now, current, rotatedAt, expiresAt, revokedAt, issued, pc, presented,
                          started, replacedAt>>

refresh(r) == \/ begin(r) \/ lookup(r) \/ rotate(r) \/ rotateLost(r) \/ lookAgain(r) \/ revoke(r)

Next == Tick \/ logout \/ cleanup \/ \E r \in Requests : refresh(r)

Spec == Init /\ [][Next]_vars
-----------------------------------------------------------------------------

TypeOK == /\ now \in Nat /\ exists \in BOOLEAN
          /\ current \in Credentials /\ issued \subseteq Credentials
          /\ rotatedAt \in Never .. now /\ revokedAt \in Never .. now
          /\ expiresAt \in 0 .. now + Ttl
          /\ pc \in [Requests -> Resting \cup {"lookup", "rotate", "lookAgain", "revoke"}]
          /\ presented \in [Requests -> Credentials]
          /\ started \in [Requests -> 0 .. now]
          /\ replacedAt \in [Credentials -> Never .. now]

(* No client is ever handed a credential that was not stored: a request    *)
(* that lost the race answers with what the winner stored.                 *)
IssuedWasStored == \A k \in issued : k <= current

(* Concurrent refreshes never roll the session back to an earlier          *)
(* credential, which would turn the newest one into a stolen one.          *)
NeverRollsBack == [][current' # current => current' = current + 1]_vars

(* Once revoked, by logout or for reuse, a session is never refreshed      *)
(* again, whatever a refresh had read before.                              *)
RevokedIsFinal ==
    [][revokedAt # Never =>
         /\ revokedAt' = revokedAt
         /\ current' = current /\ expiresAt' = expiresAt]_vars

(* A credential that is no longer current is honoured only if it was       *)
(* replaced at most the grace window before the request began.             *)
StaleOnlyWithinGrace ==
    [][\A r \in Requests :
         pc[r] \in {"lookup", "lookAgain"} /\ pc'[r] = "answered" =>
            started[r] <= replacedAt[presented[r]] + Grace]_vars

(* A refresh revokes the session only for a credential that was replaced   *)
(* twice, or once by a request that began longer than the window before    *)
(* it: two requests that race with one credential do not log the user out. *)
RaceIsTolerated ==
    [][\A r \in Requests :
         revokedAt = Never /\ revokedAt' # Never /\ pc[r] = "revoke" /\ pc'[r] = "refused" =>
            \/ presented[r] + 1 < current
            \/ presented[r] + 1 = current /\ rotatedAt < started[r] - Grace]_vars

(* A session only goes forward: what its clients hold was stored, it is    *)
(* never rolled back, and revocation is the end of it.                     *)
SessionsGoForward == []IssuedWasStored /\ NeverRollsBack /\ RevokedIsFinal

(* The grace window is exactly what it says: within it a race is forgiven, *)
(* after it nothing is honoured.                                           *)
GraceIsKept == StaleOnlyWithinGrace /\ RaceIsTolerated
=============================================================================
