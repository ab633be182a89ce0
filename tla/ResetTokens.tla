---------------------------- MODULE ResetTokens ----------------------------
(***************************************************************************)
(* The password_reset_tokens of one account and the statements on them.    *)
(* PasswordAuthority and ResetDelivery run these statements from the       *)
(* requests and the deliveries that issue them.                            *)
(*                                                                         *)
(* Abstracted: the token and its hash are one identity, used once; the     *)
(* clock of the database is the clock of the application.                  *)
(***************************************************************************)
EXTENDS Integers

CONSTANTS Tokens,
          Cooldown,  \* passwordResetCooldownSeconds
          TokenTtl   \* passwordResetTokenTtlMinutes

ASSUME TokenWindowsAssumption == Cooldown \in Nat /\ TokenTtl \in Nat

VARIABLES now, tokens

Token == [row : {"unborn", "unused", "used", "deleted"}, createdAt : Nat, expiresAt : Nat]
NoToken == [row |-> "unborn", createdAt |-> 0, expiresAt |-> 0]

stored(t) == tokens[t].row \in {"unused", "used"}
outstanding(t) == tokens[t].row = "unused"
inRow(t, state) == [row |-> state, createdAt |-> tokens[t].createdAt, expiresAt |-> tokens[t].expiresAt]
activeAt(t, at) == outstanding(t) /\ tokens[t].expiresAt > at

(* Seeded defect: a token already used or replaced does not count.         *)
recentAt_Outstanding(at) == \E t \in Tokens : outstanding(t) /\ tokens[t].createdAt >= at - Cooldown

recentAt(at) == \E t \in Tokens : stored(t) /\ tokens[t].createdAt >= at - Cooldown

newToken(at) == [row |-> "unused", createdAt |-> now, expiresAt |-> at + TokenTtl]
usedUp(t) == IF outstanding(t) THEN inRow(t, "used") ELSE tokens[t]
allUsed == [t \in Tokens |-> usedUp(t)]

(* createPasswordResetToken, past its cooldown check: the row is stamped   *)
(* by the database, its expiry comes from the clock of the attempt.        *)
withNew(t, at) == [allUsed EXCEPT ![t] = newToken(at)]

(* invalidatePasswordResetToken *)
without(t) == [tokens EXCEPT ![t] = usedUp(t)]

(* The token half of auth:sessions:cleanup.                                *)
expired(t) == stored(t) /\ tokens[t].expiresAt < now
cleanupTokens ==
    /\ \E t \in Tokens : expired(t)
    /\ tokens' = [t \in Tokens |-> IF expired(t) THEN inRow(t, "deleted") ELSE tokens[t]]
=============================================================================
