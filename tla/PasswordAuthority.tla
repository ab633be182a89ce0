------------------------- MODULE PasswordAuthority -------------------------
(***************************************************************************)
(* Who may sign in to one account, and as what: logins, confirmations of a *)
(* reset, changes of role and the bootstrap of an administrator, which     *)
(* change its password, role, sessions and reset tokens under one advisory *)
(* lock.                                                                   *)
(*                                                                         *)
(* A login checks the password before it asks for the lock and again       *)
(* under it; a confirmation looks at its token three times, the last time  *)
(* under the lock.  Every read, wait and write is an action.               *)
(*                                                                         *)
(* Abstracted: hashes (a password matches the hash made from it), access   *)
(* and refresh tokens (RefreshSessions), the deliveries of the links       *)
(* (ResetDelivery, of which only the statements on the tokens remain).     *)
(***************************************************************************)
EXTENDS ResetTokens

CONSTANTS Logins, Confirms, Bootstraps, \* requests in flight, and starts of the server
          Passwords,
          None,
          MaxTime  \* bound: the clock stops here

Actors == Logins \cup Confirms \cup Bootstraps

ASSUME ActorsAssumption ==
    /\ Logins \cap Confirms = {} /\ Logins \cap Bootstraps = {} /\ Confirms \cap Bootstraps = {}
    /\ None \notin Actors /\ None \notin Passwords /\ None \notin Tokens
    /\ MaxTime \in Nat

VARIABLES password, role, session,    \* the account and its sessions, one per login
          authority,                  \* holder of the lock
          pc, typed, seen, link, clock, \* of the actors
          openedAs,                   \* history: the role a session was opened in
          spent                       \* history: tokens a password was changed with

Roles == {"user", "admin"}

account == <<password, role, session, openedAs>>
local == <<pc, typed, seen, link, clock>>
vars == <<now, tokens, account, authority, local, spent>>

Init == /\ now = 0 /\ tokens = [t \in Tokens |-> NoToken]
        /\ password \in Passwords /\ role \in Roles
        /\ openedAs = [l \in Logins |-> role]
        /\ session = [l \in Logins |-> "none"]
        /\ authority = None
        /\ pc = [a \in Actors |-> "idle"]
        /\ typed = [a \in Actors |-> None] /\ seen = [a \in Actors |-> None]
        /\ link = [c \in Confirms |-> None] /\ clock = [c \in Confirms |-> 0]
        /\ spent = {}

Tick == /\ now < MaxTime /\ now' = now + 1
        /\ UNCHANGED <<tokens, account, authority, local, spent>>

goTo(a, place) == pc' = [pc EXCEPT ![a] = place]
stays == UNCHANGED <<now, tokens, account, spent>>

free == authority = None

-----------------------------------------------------------------------------
(* Login *)

(* findUserByEmail, and the first verification.                            *)
login(l) == /\ pc[l] = "idle"
            /\ \E p \in Passwords :
                 /\ typed' = [typed EXCEPT ![l] = p]
                 /\ seen' = [seen EXCEPT ![l] = password]
                 /\ goTo(l, IF p = password THEN "wait" ELSE "refused")
            /\ stays /\ UNCHANGED <<authority, link, clock>>

(* createSession: the lock, and the user read again.                       *)
enterSession(l) == /\ pc[l] = "wait" /\ free
                   /\ authority' = l
                   /\ seen' = [seen EXCEPT ![l] = password]
                   /\ goTo(l, "authorize")
                   /\ stays /\ UNCHANGED <<typed, link, clock>>

(* Seeded defect: the first verification is taken for enough.              *)
authorizeUser_Always(l) == TRUE

authorizeUser(l) == typed[l] = seen[l]

createSession(l) == /\ pc[l] = "authorize" /\ authorizeUser(l)
                    /\ session' = [session EXCEPT ![l] = "live"]
                    /\ openedAs' = [openedAs EXCEPT ![l] = role]
                    /\ authority' = None /\ goTo(l, "answered")
                    /\ UNCHANGED <<now, tokens, password, role, typed, seen, link, clock, spent>>

denySession(l) == /\ pc[l] = "authorize" /\ ~authorizeUser(l)
                  /\ authority' = None /\ goTo(l, "refused")
                  /\ stays /\ UNCHANGED <<typed, seen, link, clock>>

-----------------------------------------------------------------------------
(* Confirmation of a reset *)

(* hasActivePasswordResetToken *)
checkLink(c) == /\ pc[c] = "idle"
                /\ \E t \in Tokens : /\ activeAt(t, now)
                                     /\ link' = [link EXCEPT ![c] = t]
                /\ \E p \in Passwords : typed' = [typed EXCEPT ![c] = p]
                /\ goTo(c, "hash")
                /\ stays /\ UNCHANGED <<authority, seen, clock>>

(* The password is hashed, the clock read again, the token looked up for   *)
(* the account it belongs to.                                              *)
findCandidate(c) == /\ pc[c] = "hash"
                    /\ clock' = [clock EXCEPT ![c] = now]
                    /\ goTo(c, IF activeAt(link[c], now) THEN "wait" ELSE "refused")
                    /\ stays /\ UNCHANGED <<authority, typed, seen, link>>

(* Seeded defect: the candidate found before the lock is trusted.          *)
stillActive_Assumed(c) == TRUE

stillActive(c) == activeAt(link[c], clock[c])

enterReset(c) == /\ pc[c] = "wait" /\ free
                 /\ \/ stillActive(c) /\ authority' = c /\ goTo(c, "reset")
                    \/ ~stillActive(c) /\ goTo(c, "refused") /\ UNCHANGED authority
                 /\ stays /\ UNCHANGED <<typed, seen, link, clock>>

revokeAll ==
    /\ UNCHANGED openedAs
    /\ session' = [l \in Logins |-> IF session[l] = "live" THEN "revoked" ELSE session[l]]

completePasswordReset(c) == /\ pc[c] = "reset"
                            /\ password' = typed[c]
                            /\ tokens' = allUsed
                            /\ revokeAll
                            /\ spent' = spent \cup {link[c]}
                            /\ authority' = None /\ goTo(c, "answered")
                            /\ UNCHANGED <<now, role, typed, seen, link, clock>>

-----------------------------------------------------------------------------
(* Changes of authority from outside *)

(* Of updateExistingAdmin only the lock and the read.  A bootstrap without *)
(* a password (None) leaves the one there is.                              *)
enterBootstrap(b) == /\ pc[b] = "idle" /\ free
                     /\ authority' = b
                     /\ seen' = [seen EXCEPT ![b] = password]
                     /\ \E p \in Passwords \cup {None} : typed' = [typed EXCEPT ![b] = p]
                     /\ goTo(b, "bootstrap")
                     /\ stays /\ UNCHANGED <<link, clock>>

passwordChanges(b) == typed[b] # None /\ typed[b] # seen[b]

bootstrapAdmin(b) == /\ pc[b] = "bootstrap"
                     /\ \/ /\ role = "admin" /\ ~passwordChanges(b)
                           /\ UNCHANGED <<tokens, account>>
                        \/ /\ role = "admin" => passwordChanges(b)
                           /\ password' = IF passwordChanges(b) THEN typed[b] ELSE password
                           /\ role' = "admin"
                           /\ tokens' = allUsed /\ revokeAll
                     /\ authority' = None /\ goTo(b, "answered")
                     /\ UNCHANGED <<now, typed, seen, link, clock, spent>>

(* Seeded defect: the sessions opened in the old role are left.            *)
sessionsAfterRole_Kept == UNCHANGED <<session, openedAs>>

sessionsAfterRole == revokeAll

(* updateRole, by an administrator who may.                                *)
updateRole == /\ free
              /\ role' \in Roles \ {role}
              /\ tokens' = allUsed /\ sessionsAfterRole
              /\ UNCHANGED <<now, password, authority, local, spent>>

-----------------------------------------------------------------------------
(* The transaction waits too long, or dies with the process or the         *)
(* connection: it is rolled back and its lock released.                    *)
abort(a) == /\ pc[a] \in {"wait", "authorize", "reset", "bootstrap"}
            /\ authority' = IF authority = a THEN None ELSE authority
            /\ goTo(a, "refused")
            /\ stays /\ UNCHANGED <<typed, seen, link, clock>>

(* What the deliveries of ResetDelivery do to the tokens.                  *)
createPasswordResetToken ==
    /\ free /\ ~recentAt(now)
    /\ \E t \in Tokens : tokens[t].row = "unborn" /\ tokens' = withNew(t, now)
    /\ UNCHANGED <<now, account, authority, local, spent>>

invalidatePasswordResetToken ==
    /\ \E t \in Tokens : outstanding(t) /\ tokens' = without(t)
    /\ UNCHANGED <<now, account, authority, local, spent>>

cleanup == cleanupTokens /\ UNCHANGED <<now, account, authority, local, spent>>

loginStep(l) == login(l) \/ enterSession(l) \/ createSession(l) \/ denySession(l) \/ abort(l)
confirmStep(c) == \/ checkLink(c) \/ findCandidate(c) \/ enterReset(c)
                  \/ completePasswordReset(c) \/ abort(c)
bootstrapStep(b) == enterBootstrap(b) \/ bootstrapAdmin(b) \/ abort(b)

Next == \/ Tick \/ createPasswordResetToken \/ invalidatePasswordResetToken \/ cleanup
        \/ updateRole
        \/ \E l \in Logins : loginStep(l)
        \/ \E c \in Confirms : confirmStep(c)
        \/ \E b \in Bootstraps : bootstrapStep(b)

Spec == Init /\ [][Next]_vars
-----------------------------------------------------------------------------

Places == {"idle", "wait", "authorize", "hash", "reset", "bootstrap", "answered", "refused"}

TypeOK == /\ now \in Nat /\ tokens \in [Tokens -> Token]
          /\ password \in Passwords /\ role \in Roles
          /\ openedAs \in [Logins -> Roles]
          /\ session \in [Logins -> {"none", "live", "revoked"}]
          /\ authority \in Actors \cup {None}
          /\ pc \in [Actors -> Places]
          /\ typed \in [Actors -> Passwords \cup {None}]
          /\ seen \in [Actors -> Passwords \cup {None}]
          /\ link \in [Confirms -> Tokens \cup {None}]
          /\ clock \in [Confirms -> Nat]
          /\ spent \subseteq Tokens

(* Whoever is past the lock holds it, and what was read under it is still  *)
(* so.                                                                     *)
LockInv == \A a \in Actors :
              pc[a] \in {"authorize", "reset", "bootstrap"} =>
                  authority = a /\ (a \in Logins \cup Bootstraps => seen[a] = password)

(* Every live session was opened with the password the account has now,    *)
(* however a login and a change of password interleave.                    *)
LiveSessionsKnowThePassword == \A l \in Logins : session[l] = "live" => typed[l] = password

(* Every live session was opened in the role the account has now.          *)
LiveSessionsKnowTheRole == \A l \in Logins : session[l] = "live" => openedAs[l] = role

(* A link changes the password at most once, however many confirmations    *)
(* of it are in flight.                                                    *)
LinkIsSpentOnce ==
    [][\A c \in Confirms :
         pc[c] = "reset" /\ pc'[c] = "answered" => link[c] \notin spent]_vars

(* At most one link of the account is good at a time.                      *)
OneLinkIsGood == \A t, u \in Tokens : outstanding(t) /\ outstanding(u) => t = u

(* No session outlives the password or the role it was opened with.        *)
LiveSessionsAreCurrent == LiveSessionsKnowThePassword /\ LiveSessionsKnowTheRole

(* Of the links of the account one at most is good, and it works once.     *)
LinksWorkOnce == []OneLinkIsGood /\ LinkIsSpentOnce
=============================================================================
