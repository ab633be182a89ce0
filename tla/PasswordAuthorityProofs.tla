----------------------- MODULE PasswordAuthorityProofs -----------------------
(***************************************************************************)
(* Proofs about PasswordAuthority for any number of logins, confirmations, *)
(* bootstraps, passwords and links.  The lock is what they rest on: what   *)
(* its holder read is still so (LockInv), and whoever else opens or closes *)
(* sessions must hold it.  Of the links: a row only fades, and a new one   *)
(* uses up all the others.                                                 *)
(***************************************************************************)
EXTENDS PasswordAuthority, TLAPS

USE ActorsAssumption, TokenWindowsAssumption

(* A login opens its session when it ends.                                 *)
OpenedLast == \A l \in Logins : session[l] # "none" => pc[l] = "answered"

AuthorityInv == /\ LockInv /\ OpenedLast
                /\ LiveSessionsKnowThePassword /\ LiveSessionsKnowTheRole

(* As much of the types as the steps below need.                           *)
Shaped == /\ typed \in [Actors -> Passwords \cup {None}]
          /\ seen \in [Actors -> Passwords \cup {None}]
          /\ session \in [Logins -> {"none", "live", "revoked"}]
          /\ openedAs \in [Logins -> Roles]
          /\ pc \in [Actors -> Places]
          /\ password \in Passwords /\ role \in Roles
          /\ \A c \in Confirms : pc[c] \in {"hash", "wait", "reset"} => typed[c] \in Passwords

LEMMA InitInv == Init => Shaped /\ AuthorityInv
  <1> SUFFICES ASSUME Init PROVE Shaped /\ AuthorityInv
    OBVIOUS
  <1>1. /\ typed = [a \in Actors |-> None] /\ seen = [a \in Actors |-> None]
        /\ session = [l \in Logins |-> "none"] /\ openedAs = [l \in Logins |-> role]
        /\ pc = [a \in Actors |-> "idle"] /\ password \in Passwords /\ role \in Roles
    BY Zenon DEF Init
  <1>2. Shaped
    BY <1>1, SMT DEF Shaped, Actors, Places
  <1>3. AuthorityInv
    BY <1>1, SMT DEF AuthorityInv, OpenedLast, LockInv, LiveSessionsKnowThePassword,
                     LiveSessionsKnowTheRole
  <1> QED
    BY <1>2, <1>3

LEMMA ShapeStep == ASSUME Shaped, [Next]_vars PROVE Shaped'
  <1>1. CASE UNCHANGED <<account, pc, typed, seen>>
    BY <1>1, SMT DEF Shaped, account
  <1>2. ASSUME NEW l \in Logins, login(l) PROVE Shaped'
    BY <1>2, SMT DEF Shaped, login, goTo, stays, account, Actors, Places
  <1>3. ASSUME NEW l \in Logins, enterSession(l) PROVE Shaped'
    BY <1>3, SMT DEF Shaped, enterSession, goTo, stays, account, Actors, Places
  <1>4. ASSUME NEW l \in Logins, createSession(l) PROVE Shaped'
    BY <1>4, SMT DEF Shaped, createSession, goTo, Actors, Places
  <1>5. ASSUME NEW l \in Logins, denySession(l) PROVE Shaped'
    BY <1>5, SMT DEF Shaped, denySession, goTo, stays, account, Actors, Places
  <1>6. ASSUME NEW c \in Confirms, checkLink(c) PROVE Shaped'
    BY <1>6, SMT DEF Shaped, checkLink, goTo, stays, account, Actors, Places
  <1>7. ASSUME NEW c \in Confirms, findCandidate(c) PROVE Shaped'
    BY <1>7, SMT DEF Shaped, findCandidate, goTo, stays, account, Actors, Places
  <1>8. ASSUME NEW c \in Confirms, enterReset(c) PROVE Shaped'
    BY <1>8, SMT DEF Shaped, enterReset, goTo, stays, account, Actors, Places
  <1>9. ASSUME NEW c \in Confirms, completePasswordReset(c) PROVE Shaped'
    BY <1>9, SMT DEF Shaped, completePasswordReset, revokeAll, goTo, Actors, Places
  <1>10. ASSUME NEW b \in Bootstraps, enterBootstrap(b) PROVE Shaped'
    BY <1>10, SMT DEF Shaped, enterBootstrap, goTo, stays, account, Actors, Places
  <1>11. ASSUME NEW b \in Bootstraps, bootstrapAdmin(b) PROVE Shaped'
    BY <1>11, SMT DEF Shaped, bootstrapAdmin, passwordChanges, revokeAll, account, goTo, Actors,
                      Places, Roles
  <1>12. ASSUME NEW a \in Actors, abort(a) PROVE Shaped'
    BY <1>12, SMT DEF Shaped, abort, goTo, stays, account, Actors, Places
  <1>13. ASSUME updateRole PROVE Shaped'
    BY <1>13, SMT DEF Shaped, updateRole, sessionsAfterRole, revokeAll, local
  <1> QED
    BY <1>1, <1>2, <1>3, <1>4, <1>5, <1>6, <1>7, <1>8, <1>9, <1>10, <1>11, <1>12, <1>13
       DEF Next, loginStep, confirmStep, bootstrapStep, Actors, Tick, createPasswordResetToken,
           invalidatePasswordResetToken, cleanup, vars, local, account

-----------------------------------------------------------------------------
(* Sessions as every change of authority leaves them.                      *)
LEMMA RevokedSessions ==
    ASSUME Shaped, revokeAll PROVE \A l \in Logins : session'[l] # "live"
  BY SMT DEF Shaped, revokeAll

LEMMA LockStep == ASSUME Shaped, LockInv, [Next]_vars PROVE LockInv'
  <1>1. CASE UNCHANGED <<password, pc, seen, authority>>
    BY <1>1 DEF LockInv
  <1>2. ASSUME NEW l \in Logins, login(l) PROVE LockInv'
    BY <1>2, SMT DEF Shaped, LockInv, login, goTo, stays, account, Actors
  <1>3. ASSUME NEW l \in Logins, enterSession(l) PROVE LockInv'
    BY <1>3, SMT DEF Shaped, LockInv, enterSession, free, goTo, stays, account, Actors
  <1>4. ASSUME NEW l \in Logins, createSession(l) PROVE LockInv'
    BY <1>4, SMT DEF Shaped, LockInv, createSession, goTo, Actors
  <1>5. ASSUME NEW l \in Logins, denySession(l) PROVE LockInv'
    BY <1>5, SMT DEF Shaped, LockInv, denySession, goTo, stays, account, Actors
  <1>6. ASSUME NEW c \in Confirms, checkLink(c) PROVE LockInv'
    BY <1>6, SMT DEF Shaped, LockInv, checkLink, goTo, stays, account, Actors
  <1>7. ASSUME NEW c \in Confirms, findCandidate(c) PROVE LockInv'
    BY <1>7, SMT DEF Shaped, LockInv, findCandidate, goTo, stays, account, Actors
  <1>8. ASSUME NEW c \in Confirms, enterReset(c) PROVE LockInv'
    BY <1>8, SMT DEF Shaped, LockInv, enterReset, free, goTo, stays, account, Actors
  <1>9. ASSUME NEW c \in Confirms, completePasswordReset(c) PROVE LockInv'
    BY <1>9, SMT DEF Shaped, LockInv, completePasswordReset, goTo, Actors
  <1>10. ASSUME NEW b \in Bootstraps, enterBootstrap(b) PROVE LockInv'
    BY <1>10, SMT DEF Shaped, LockInv, enterBootstrap, free, goTo, stays, account, Actors
  <1>11. ASSUME NEW b \in Bootstraps, bootstrapAdmin(b) PROVE LockInv'
    BY <1>11, SMT DEF Shaped, LockInv, bootstrapAdmin, goTo, Actors
  <1>12. ASSUME NEW a \in Actors, abort(a) PROVE LockInv'
    BY <1>12, SMT DEF Shaped, LockInv, abort, goTo, stays, account, Actors
  <1> QED
    BY <1>1, <1>2, <1>3, <1>4, <1>5, <1>6, <1>7, <1>8, <1>9, <1>10, <1>11, <1>12
       DEF Next, loginStep, confirmStep, bootstrapStep, Actors, Tick, createPasswordResetToken,
           invalidatePasswordResetToken, cleanup, updateRole, vars, local, account

(* What a step of an actor other than the opening of a session does to the *)
(* sessions: none stays live, or nothing changes but what a login that has *)
(* none yet has typed.                                                     *)
settles(a) ==
    \/ \A l \in Logins : session'[l] # "live"
    \/ /\ UNCHANGED account /\ (a \in Logins => session[a] # "live")
       /\ \E p : typed' = [typed EXCEPT ![a] = p]
    \/ UNCHANGED <<account, typed>>

LEMMA StepSettles ==
    ASSUME Shaped, OpenedLast, [Next]_vars
    PROVE  (\E a \in Actors : settles(a)) \/ (\E l \in Logins : createSession(l))
           \/ UNCHANGED <<account, typed>> \/ (\A l \in Logins : session'[l] # "live")
  <1>1. ASSUME NEW l \in Logins, login(l) PROVE settles(l)
    <2>1. session[l] # "live"
      BY <1>1, SMT DEF login, OpenedLast
    <2> QED
      BY <1>1, <2>1, Zenon DEF login, stays, settles
  <1>2. ASSUME NEW c \in Confirms, checkLink(c) PROVE settles(c)
    <2>1. c \notin Logins
      OBVIOUS
    <2> QED
      BY <1>2, <2>1, Zenon DEF checkLink, stays, settles
  <1>3. ASSUME NEW b \in Bootstraps, enterBootstrap(b) PROVE settles(b)
    <2>1. b \notin Logins
      OBVIOUS
    <2> QED
      BY <1>3, <2>1, Zenon DEF enterBootstrap, stays, settles
  <1>4. ASSUME NEW c \in Confirms, completePasswordReset(c) PROVE \A l \in Logins : session'[l] # "live"
    BY <1>4, RevokedSessions DEF completePasswordReset
  <1>5. ASSUME NEW b \in Bootstraps, bootstrapAdmin(b) PROVE settles(b)
    BY <1>5, RevokedSessions, Zenon DEF bootstrapAdmin, settles
  <1>6. ASSUME updateRole PROVE \A l \in Logins : session'[l] # "live"
    BY <1>6, RevokedSessions DEF updateRole, sessionsAfterRole
  <1>7. ASSUME NEW a \in Actors,
               enterSession(a) \/ denySession(a) \/ findCandidate(a) \/ enterReset(a) \/ abort(a)
        PROVE  UNCHANGED <<account, typed>>
    BY <1>7, Zenon DEF enterSession, denySession, findCandidate, enterReset, abort, stays
  <1>8. ASSUME Tick \/ createPasswordResetToken \/ invalidatePasswordResetToken \/ cleanup
               \/ UNCHANGED vars
        PROVE  UNCHANGED <<account, typed>>
    BY <1>8, Zenon DEF Tick, createPasswordResetToken, invalidatePasswordResetToken, cleanup, vars,
                       local
  <1> QED
    BY <1>1, <1>2, <1>3, <1>4, <1>5, <1>6, <1>7, <1>8, Zenon
       DEF Next, loginStep, confirmStep, bootstrapStep, Actors

LEMMA SessionStep ==
    ASSUME Shaped, AuthorityInv, [Next]_vars
    PROVE  LiveSessionsKnowThePassword' /\ LiveSessionsKnowTheRole'
  <1> DEFINE Known == LiveSessionsKnowThePassword /\ LiveSessionsKnowTheRole
  <1>1. LockInv /\ OpenedLast /\ Known
    BY DEF AuthorityInv
  <1>2. CASE UNCHANGED <<account, typed>>
    BY <1>1, <1>2 DEF LiveSessionsKnowThePassword, LiveSessionsKnowTheRole, account
  <1>3. ASSUME \A l \in Logins : session'[l] # "live" PROVE Known'
    BY <1>3 DEF LiveSessionsKnowThePassword, LiveSessionsKnowTheRole
  <1>4. ASSUME NEW a \in Actors, settles(a) PROVE Known'
    <2>1. CASE /\ UNCHANGED account /\ (a \in Logins => session[a] # "live")
               /\ \E p : typed' = [typed EXCEPT ![a] = p]
      BY <1>1, <2>1, SMT DEF Shaped, LiveSessionsKnowThePassword, LiveSessionsKnowTheRole, account,
                             Actors
    <2> QED
      BY <1>2, <1>3, <1>4, <2>1 DEF settles
  <1>5. ASSUME NEW l \in Logins, createSession(l) PROVE Known'
    <2>1. typed[l] = password
      BY <1>1, <1>5, SMT DEF createSession, authorizeUser, LockInv, Actors
    <2> QED
      BY <1>1, <1>5, <2>1, SMT DEF createSession, Shaped, LiveSessionsKnowThePassword,
                                   LiveSessionsKnowTheRole
  <1> QED
    BY <1>1, <1>2, <1>3, <1>4, <1>5, StepSettles

LEMMA OpenedStep == ASSUME Shaped, AuthorityInv, [Next]_vars PROVE OpenedLast'
  <1>1. LockInv /\ OpenedLast
    BY DEF AuthorityInv
  <1>2. CASE UNCHANGED <<account, pc>>
    BY <1>1, <1>2 DEF OpenedLast, account
  <1>3. ASSUME NEW a \in Actors, UNCHANGED account, pc[a] # "answered",
               \E place : pc' = [pc EXCEPT ![a] = place]
        PROVE  OpenedLast'
    BY <1>1, <1>3, SMT DEF OpenedLast, Shaped, account, Actors
  <1>4. ASSUME NEW l \in Logins, createSession(l) PROVE OpenedLast'
    BY <1>1, <1>4, SMT DEF createSession, goTo, OpenedLast, Shaped, Actors
  <1>5. ASSUME revokeAll, NEW a \in Actors \ Logins,
               pc' = [pc EXCEPT ![a] = "answered"] \/ UNCHANGED pc
        PROVE  OpenedLast'
    BY <1>1, <1>5, SMT DEF revokeAll, OpenedLast, Shaped, Actors
  <1>6. ASSUME updateRole PROVE OpenedLast'
    BY <1>1, <1>6, SMT DEF updateRole, sessionsAfterRole, revokeAll, local, OpenedLast, Shaped
  <1>7. ASSUME NEW l \in Logins, loginStep(l) PROVE OpenedLast'
    <2>1. CASE login(l) \/ enterSession(l) \/ denySession(l) \/ abort(l)
      <3>1. UNCHANGED account /\ (\E place : pc' = [pc EXCEPT ![l] = place])
        BY <2>1, Zenon DEF login, enterSession, denySession, abort, stays, goTo
      <3>2. pc[l] # "answered"
        BY <2>1, SMT DEF login, enterSession, denySession, abort
      <3> QED
        BY <1>3, <3>1, <3>2 DEF Actors
    <2> QED
      BY <1>4, <1>7, <2>1 DEF loginStep
  <1>8. ASSUME NEW c \in Confirms, confirmStep(c) PROVE OpenedLast'
    <2>1. CASE checkLink(c) \/ findCandidate(c) \/ enterReset(c) \/ abort(c)
      <3>1. UNCHANGED account /\ (\E place : pc' = [pc EXCEPT ![c] = place])
        BY <2>1, Zenon DEF checkLink, findCandidate, enterReset, abort, stays, goTo
      <3>2. pc[c] # "answered"
        BY <2>1, SMT DEF checkLink, findCandidate, enterReset, abort
      <3> QED
        BY <1>3, <3>1, <3>2 DEF Actors
    <2>2. CASE completePasswordReset(c)
      BY <1>5, <2>2 DEF completePasswordReset, goTo, Actors
    <2> QED
      BY <1>8, <2>1, <2>2 DEF confirmStep
  <1>9. ASSUME NEW b \in Bootstraps, bootstrapStep(b) PROVE OpenedLast'
    <2>1. CASE enterBootstrap(b) \/ abort(b)
      <3>1. UNCHANGED account /\ (\E place : pc' = [pc EXCEPT ![b] = place])
        BY <2>1, Zenon DEF enterBootstrap, abort, stays, goTo
      <3>2. pc[b] # "answered"
        BY <2>1, SMT DEF enterBootstrap, abort
      <3> QED
        BY <1>3, <3>1, <3>2 DEF Actors
    <2>2. CASE bootstrapAdmin(b)
      <3>1. UNCHANGED account \/ revokeAll
        BY <2>2, Zenon DEF bootstrapAdmin
      <3>2. pc' = [pc EXCEPT ![b] = "answered"] /\ pc[b] # "answered"
        BY <2>2, SMT DEF bootstrapAdmin, goTo
      <3>3. b \in Actors \ Logins
        BY DEF Actors
      <3> QED
        BY <1>3, <1>5, <3>1, <3>2, <3>3
    <2> QED
      BY <1>9, <2>1, <2>2 DEF bootstrapStep
  <1>10. ASSUME Tick \/ createPasswordResetToken \/ invalidatePasswordResetToken \/ cleanup
                \/ UNCHANGED vars
         PROVE  UNCHANGED <<account, pc>>
    BY <1>10, Zenon DEF Tick, createPasswordResetToken, invalidatePasswordResetToken, cleanup, vars,
                        local
  <1> QED
    BY <1>2, <1>6, <1>7, <1>8, <1>9, <1>10 DEF Next

LEMMA InvStep == ASSUME Shaped, AuthorityInv, [Next]_vars PROVE Shaped' /\ AuthorityInv'
  BY ShapeStep, LockStep, SessionStep, OpenedStep DEF AuthorityInv

(* The inductive invariant of logins, confirmations, changes of role and   *)
(* bootstraps.                                                             *)
THEOREM InvHolds == Spec => [](Shaped /\ AuthorityInv)
  BY InitInv, InvStep, PTL DEF Spec

(* What a login, a confirmation or a bootstrap read under the advisory     *)
(* lock (createSession, completePasswordReset, bootstrapAdmin) is still so *)
(* when it writes.                                                         *)
THEOREM LockHolds == Spec => []LockInv
  <1>1. AuthorityInv => LockInv
    BY DEF AuthorityInv
  <1> QED
    BY <1>1, InvHolds, PTL

(* No live session was opened with a password since changed: createSession *)
(* compares again under the lock, a change of password revokes what is     *)
(* open.                                                                   *)
THEOREM SessionsKnowThePassword == Spec => []LiveSessionsKnowThePassword
  <1>1. AuthorityInv => LiveSessionsKnowThePassword
    BY DEF AuthorityInv
  <1> QED
    BY <1>1, InvHolds, PTL

(* No live session was opened in a role since changed by updateRole.       *)
THEOREM SessionsKnowTheRole == Spec => []LiveSessionsKnowTheRole
  <1>1. AuthorityInv => LiveSessionsKnowTheRole
    BY DEF AuthorityInv
  <1> QED
    BY <1>1, InvHolds, PTL

-----------------------------------------------------------------------------
(* Links.  A row is written by a creation, which uses up all the others,   *)
(* or moves from unused to used to deleted.                                *)
Rows == {"unborn", "unused", "used", "deleted"}
RowsShaped == /\ \A t \in Tokens : tokens[t].row \in Rows
              /\ link \in [Confirms -> Tokens \cup {None}]
              /\ pc \in [Actors -> Places]

fades(t) == \/ tokens'[t].row = tokens[t].row
            \/ tokens[t].row \in {"unused", "used"} /\ tokens'[t].row \in {"used", "deleted"}

born(t) == /\ tokens[t].row = "unborn" /\ tokens'[t].row = "unused"
           /\ \A u \in Tokens \ {t} : tokens'[u].row # "unused" /\ fades(u)

LEMMA UsingUpFades ==
    ASSUME NEW t \in Tokens
    PROVE  /\ usedUp(t).row # "unused"
           /\ tokens[t].row = "unused" => usedUp(t).row = "used"
           /\ tokens[t].row # "unused" => usedUp(t) = tokens[t]
  BY SMT DEF usedUp, outstanding, inRow

LEMMA TokenStep ==
    ASSUME RowsShaped, [Next]_vars
    PROVE  (\A t \in Tokens : fades(t)) \/ (\E t \in Tokens : born(t))
  <1>1. CASE UNCHANGED tokens
    BY <1>1 DEF fades
  <1>2. CASE tokens' = allUsed
    BY <1>2, UsingUpFades, SMT DEF allUsed, fades
  <1>3. CASE createPasswordResetToken
    <2>1. PICK t \in Tokens : tokens[t].row = "unborn" /\ tokens' = [allUsed EXCEPT ![t] = newToken(now)]
      BY <1>3 DEF createPasswordResetToken, withNew
    <2>2. tokens'[t].row = "unused" /\ \A u \in Tokens \ {t} : tokens'[u] = usedUp(u)
      BY <2>1, SMT DEF allUsed, newToken
    <2> QED
      BY <2>1, <2>2, UsingUpFades, SMT DEF born, fades
  <1>4. CASE cleanup
    BY <1>4, SMT DEF cleanup, cleanupTokens, expired, stored, inRow, fades
  <1>5. CASE invalidatePasswordResetToken
    <2>1. PICK t \in Tokens : tokens' = [tokens EXCEPT ![t] = usedUp(t)]
      BY <1>5 DEF invalidatePasswordResetToken, without
    <2>2. \A u \in Tokens : tokens'[u] = tokens[u] \/ tokens'[u] = usedUp(u)
      BY <2>1, SMT
    <2> QED
      BY <2>2, UsingUpFades, SMT DEF fades
  <1> QED
    BY <1>1, <1>2, <1>3, <1>4, <1>5, Zenon
       DEF Next, loginStep, confirmStep, bootstrapStep, login, enterSession, createSession,
           denySession, checkLink, findCandidate, enterReset, completePasswordReset, enterBootstrap,
           bootstrapAdmin, abort, updateRole, Tick, stays, vars

(* A confirmation follows a link that exists; one that has passed the lock *)
(* follows a link nobody has spent.                                        *)
FollowedLinks == \A c \in Confirms :
                    pc[c] \in {"hash", "wait", "reset"} =>
                       link[c] \in Tokens /\ tokens[link[c]].row # "unborn"

SpentLinks == /\ \A t \in Tokens : t \in spent => tokens[t].row \in {"used", "deleted"}
              /\ \A c \in Confirms : pc[c] = "reset" => link[c] \notin spent

LinkInv == RowsShaped /\ OneLinkIsGood /\ FollowedLinks /\ SpentLinks

LEMMA LinkInit == Init => LinkInv
  <1> SUFFICES ASSUME Init PROVE LinkInv
    OBVIOUS
  <1>1. /\ tokens = [t \in Tokens |-> NoToken] /\ spent = {}
        /\ link = [c \in Confirms |-> None] /\ pc = [a \in Actors |-> "idle"]
    BY Zenon DEF Init
  <1>2. \A t \in Tokens : tokens[t].row = "unborn"
    <2>1. NoToken.row = "unborn"
      BY SMT DEF NoToken
    <2>2. \A t \in Tokens : tokens[t] = NoToken
      BY <1>1, Zenon
    <2> QED
      BY <2>1, <2>2, Zenon
  <1>3. RowsShaped
    BY <1>1, <1>2, SMT DEF RowsShaped, Rows, Places, Actors
  <1> QED
    BY <1>1, <1>2, <1>3, SMT DEF LinkInv, OneLinkIsGood, outstanding, FollowedLinks, SpentLinks, Actors

LEMMA RowsStep == ASSUME Shaped, RowsShaped, [Next]_vars PROVE RowsShaped'
  <1>1. \A t \in Tokens : tokens'[t].row \in Rows
    BY TokenStep, SMT DEF fades, born, RowsShaped, Rows
  <1>2. pc' \in [Actors -> Places]
    BY ShapeStep DEF Shaped
  <1>3. link' \in [Confirms -> Tokens \cup {None}]
    <2>1. ASSUME NEW c \in Confirms, checkLink(c) PROVE link' \in [Confirms -> Tokens \cup {None}]
      BY <2>1, SMT DEF checkLink, RowsShaped
    <2>2. (\E c \in Confirms : checkLink(c)) \/ UNCHANGED link
      BY Zenon DEF Next, loginStep, confirmStep, bootstrapStep, login, enterSession, createSession,
                   denySession, findCandidate, enterReset, completePasswordReset, enterBootstrap,
                   bootstrapAdmin, abort, updateRole, Tick, createPasswordResetToken,
                   invalidatePasswordResetToken, cleanup, local, vars
    <2> QED
      BY <2>1, <2>2 DEF RowsShaped
  <1> QED
    BY <1>1, <1>2, <1>3 DEF RowsShaped

LEMMA OneLinkStep == ASSUME RowsShaped, OneLinkIsGood, [Next]_vars PROVE OneLinkIsGood'
  BY TokenStep, SMT DEF fades, born, OneLinkIsGood, outstanding

(* Only confirmations move their own links; a step that leaves pc, link    *)
(* and spent alone cannot give a spent link back.                          *)
LEMMA LinkStep ==
    ASSUME Shaped, LockInv, LinkInv, [Next]_vars
    PROVE  FollowedLinks' /\ SpentLinks'
  <1>1. /\ RowsShaped /\ FollowedLinks /\ SpentLinks
        /\ pc \in [Actors -> Places] /\ link \in [Confirms -> Tokens \cup {None}]
    BY DEF LinkInv, RowsShaped
  <1>2. \A t \in Tokens : /\ tokens[t].row # "unborn" => tokens'[t].row # "unborn"
                          /\ tokens[t].row \in {"used", "deleted"} => tokens'[t].row \in {"used", "deleted"}
    <2> SUFFICES ASSUME NEW t \in Tokens
                 PROVE  /\ tokens[t].row # "unborn" => tokens'[t].row # "unborn"
                        /\ tokens[t].row \in {"used", "deleted"} =>
                              tokens'[t].row \in {"used", "deleted"}
      OBVIOUS
    <2>1. fades(t) \/ \E u \in Tokens : born(u)
      BY <1>1, TokenStep, Zenon
    <2>2. fades(t) \/ (tokens[t].row = "unborn" /\ tokens'[t].row = "unused")
      <3>1. ASSUME NEW u \in Tokens, born(u), u # t PROVE fades(t)
        BY <3>1, Zenon DEF born
      <3>2. ASSUME born(t) PROVE tokens[t].row = "unborn" /\ tokens'[t].row = "unused"
        BY <3>2, Zenon DEF born
      <3> QED
        <4>1. CASE fades(t)
          BY <4>1
        <4>2. ASSUME NEW u \in Tokens, born(u)
              PROVE  fades(t) \/ (tokens[t].row = "unborn" /\ tokens'[t].row = "unused")
          BY <3>1, <3>2, <4>2, Zenon
        <4> QED
          BY <2>1, <4>1, <4>2, Zenon
    <2> QED
      BY <2>2, SMT DEF fades
  <1>3. ASSUME UNCHANGED <<link, spent>>,
               \A c \in Confirms : pc'[c] \in {"hash", "wait", "reset"} =>
                                    pc[c] \in {"hash", "wait", "reset"},
               \A c \in Confirms : pc'[c] = "reset" => pc[c] = "reset"
        PROVE  FollowedLinks' /\ SpentLinks'
    <2>1. link' = link /\ spent' = spent
      BY <1>3
    <2>2. FollowedLinks'
      <3> SUFFICES ASSUME NEW c \in Confirms, pc'[c] \in {"hash", "wait", "reset"}
                   PROVE  link[c] \in Tokens /\ tokens'[link[c]].row # "unborn"
        BY <2>1, Zenon DEF FollowedLinks
      <3>1. link[c] \in Tokens /\ tokens[link[c]].row # "unborn"
        BY <1>1, <1>3, Zenon DEF FollowedLinks
      <3> QED
        BY <1>2, <3>1
    <2>3. \A t \in Tokens : t \in spent' => tokens'[t].row \in {"used", "deleted"}
      <3>1. \A t \in Tokens : t \in spent => tokens[t].row \in {"used", "deleted"}
        BY <1>1 DEF SpentLinks
      <3> QED
        BY <1>2, <2>1, <3>1, SMT
    <2>4. \A c \in Confirms : pc'[c] = "reset" => link'[c] \notin spent'
      BY <1>1, <1>3, <2>1, Zenon DEF SpentLinks
    <2> QED
      BY <2>2, <2>3, <2>4, Zenon DEF SpentLinks
  <1>4. ASSUME NEW a \in Actors, UNCHANGED <<link, spent>>,
               \E place \in {"authorize", "answered", "refused", "bootstrap"} :
                  pc' = [pc EXCEPT ![a] = place]
        PROVE  FollowedLinks' /\ SpentLinks'
    <2>1. \A c \in Confirms :
             pc'[c] = pc[c] \/ pc'[c] \in {"authorize", "answered", "refused", "bootstrap"}
      BY <1>1, <1>4, SMT DEF Actors
    <2> QED
      BY <1>3, <1>4, <2>1, SMT
  <1>5. ASSUME NEW l \in Logins, login(l) PROVE FollowedLinks' /\ SpentLinks'
    <2>1. \A c \in Confirms : pc'[c] = pc[c]
      BY <1>1, <1>5, SMT DEF login, goTo, Actors
    <2>2. UNCHANGED <<link, spent>>
      BY <1>5 DEF login, stays
    <2> QED
      BY <1>3, <2>1, <2>2, SMT
  <1>6. ASSUME NEW c \in Confirms, checkLink(c) PROVE FollowedLinks' /\ SpentLinks'
    <2>1. PICK t \in Tokens : outstanding(t) /\ link' = [link EXCEPT ![c] = t]
      BY <1>6, Zenon DEF checkLink, activeAt
    <2>2. pc' = [pc EXCEPT ![c] = "hash"] /\ UNCHANGED <<tokens, spent>>
      BY <1>6, Zenon DEF checkLink, goTo, stays
    <2> QED
      BY <1>1, <2>1, <2>2, SMT DEF FollowedLinks, SpentLinks, outstanding, Actors
  <1>7. ASSUME NEW c \in Confirms, findCandidate(c) PROVE FollowedLinks' /\ SpentLinks'
    <2>1. UNCHANGED <<link, spent, tokens>> /\ pc[c] = "hash"
      BY <1>7, Zenon DEF findCandidate, stays
    <2>2. pc' = [pc EXCEPT ![c] = "wait"] \/ pc' = [pc EXCEPT ![c] = "refused"]
      BY <1>7, Zenon DEF findCandidate, goTo
    <2> QED
      BY <1>1, <2>1, <2>2, SMT DEF FollowedLinks, SpentLinks, Actors
  <1>8. ASSUME NEW c \in Confirms, enterReset(c) PROVE FollowedLinks' /\ SpentLinks'
    <2>1. UNCHANGED <<link, spent, tokens>> /\ pc[c] = "wait"
      BY <1>8, Zenon DEF enterReset, stays
    <2>2. \/ pc' = [pc EXCEPT ![c] = "reset"] /\ outstanding(link[c])
          \/ pc' = [pc EXCEPT ![c] = "refused"]
      BY <1>8, Zenon DEF enterReset, goTo, stillActive, activeAt
    <2> QED
      BY <1>1, <2>1, <2>2, SMT DEF FollowedLinks, SpentLinks, outstanding, Actors
  <1>9. ASSUME NEW c \in Confirms, completePasswordReset(c) PROVE FollowedLinks' /\ SpentLinks'
    <2>1. /\ UNCHANGED link /\ pc[c] = "reset" /\ tokens' = allUsed
          /\ spent' = spent \cup {link[c]} /\ pc' = [pc EXCEPT ![c] = "answered"]
      BY <1>9, Zenon DEF completePasswordReset, goTo
    <2>2. \A d \in Confirms : pc[d] = "reset" => d = c
      <3>1. \A a \in Actors : pc[a] = "reset" => authority = a
        BY SMT DEF LockInv
      <3> QED
        BY <2>1, <3>1, SMT DEF Actors
    <2>3. link[c] \in Tokens /\ tokens[link[c]].row # "unborn"
      BY <1>1, <2>1 DEF FollowedLinks
    <2>4. tokens'[link[c]].row \in {"used", "deleted"}
      <3>1. tokens'[link[c]] = usedUp(link[c])
        BY <2>1, <2>3, SMT DEF allUsed
      <3> QED
        BY <1>1, <2>3, <3>1, UsingUpFades, SMT DEF RowsShaped, Rows
    <2>5. \A d \in Confirms : pc'[d] # "reset"
      BY <1>1, <2>1, <2>2, SMT DEF Actors
    <2>6. \A d \in Confirms : pc'[d] \in {"hash", "wait", "reset"} => pc[d] \in {"hash", "wait", "reset"}
      BY <1>1, <2>1, SMT DEF Actors
    <2>7. FollowedLinks'
      <3> SUFFICES ASSUME NEW d \in Confirms, pc'[d] \in {"hash", "wait", "reset"}
                   PROVE  link[d] \in Tokens /\ tokens'[link[d]].row # "unborn"
        BY <2>1, Zenon DEF FollowedLinks
      <3>1. link[d] \in Tokens /\ tokens[link[d]].row # "unborn"
        BY <1>1, <2>6, Zenon DEF FollowedLinks
      <3> QED
        BY <1>2, <3>1
    <2>8. \A t \in Tokens : t \in spent' => tokens'[t].row \in {"used", "deleted"}
      <3>1. \A t \in Tokens : t \in spent' => t = link[c] \/ t \in spent
        BY <2>1, SMT
      <3>2. \A t \in Tokens : t \in spent => tokens[t].row \in {"used", "deleted"}
        BY <1>1 DEF SpentLinks
      <3> QED
        BY <1>2, <2>4, <3>1, <3>2, SMT
    <2> QED
      BY <2>5, <2>7, <2>8, Zenon DEF SpentLinks
  <1>10. ASSUME NEW a \in Actors,
                \/ enterSession(a) \/ createSession(a) \/ denySession(a) \/ abort(a)
                \/ enterBootstrap(a) \/ bootstrapAdmin(a)
         PROVE  FollowedLinks' /\ SpentLinks'
    <2>1. UNCHANGED <<link, spent>>
      BY <1>10, Zenon DEF enterSession, createSession, denySession, abort, enterBootstrap,
                          bootstrapAdmin, stays
    <2>2. \E place \in {"authorize", "answered", "refused", "bootstrap"} :
             pc' = [pc EXCEPT ![a] = place]
      BY <1>10, Zenon DEF enterSession, createSession, denySession, abort, enterBootstrap,
                          bootstrapAdmin, goTo
    <2> QED
      BY <1>4, <2>1, <2>2
  <1>11. CASE UNCHANGED <<pc, link, spent>>
    BY <1>3, <1>11
  <1>12. ASSUME \/ Tick \/ createPasswordResetToken \/ invalidatePasswordResetToken \/ cleanup
                \/ updateRole \/ UNCHANGED vars
         PROVE  UNCHANGED <<pc, link, spent>>
    BY <1>12, Zenon DEF Tick, createPasswordResetToken, invalidatePasswordResetToken, cleanup,
                        updateRole, local, vars
  <1> QED
    BY <1>5, <1>6, <1>7, <1>8, <1>9, <1>10, <1>11, <1>12, Zenon
       DEF Next, loginStep, confirmStep, bootstrapStep, Actors

LEMMA LinkInvStep ==
    ASSUME Shaped, AuthorityInv, LinkInv, [Next]_vars PROVE LinkInv'
  BY RowsStep, OneLinkStep, LinkStep DEF LinkInv, AuthorityInv

(* The inductive invariant of reset links: rows of tokens against the      *)
(* requests that hold them.                                                *)
THEOREM LinkInvHolds == Spec => []LinkInv
  BY LinkInit, LinkInvStep, InvHolds, PTL DEF Spec

(* At most one reset link of an account is good at a time, since a new one *)
(* retires those before it.                                                *)
THEOREM OneLink == Spec => []OneLinkIsGood
  <1>1. LinkInv => OneLinkIsGood
    BY DEF LinkInv
  <1> QED
    BY <1>1, LinkInvHolds, PTL

(* A confirmation that changes the password spends its link, so that no    *)
(* other confirmation of that link does.                                   *)
THEOREM LinksAreSpentOnce == Spec => LinkIsSpentOnce
  <1>1. LinkInv => \A c \in Confirms :
                      pc[c] = "reset" /\ pc'[c] = "answered" => link[c] \notin spent
    BY DEF LinkInv, SpentLinks
  <1> QED
    BY <1>1, LinkInvHolds, PTL DEF LinkIsSpentOnce

(* Both at once: a live session carries the password and the role the      *)
(* account has.                                                            *)
THEOREM SessionsAreCurrent == Spec => []LiveSessionsAreCurrent
  BY SessionsKnowThePassword, SessionsKnowTheRole, PTL DEF LiveSessionsAreCurrent

(* Both promises about links: one is good at a time, and it changes the    *)
(* password once.                                                          *)
THEOREM OneLinkOnce == Spec => LinksWorkOnce
  BY OneLink, LinksAreSpentOnce DEF LinksWorkOnce
=============================================================================
