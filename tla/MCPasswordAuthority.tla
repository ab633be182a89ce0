------------------------- MODULE MCPasswordAuthority -------------------------
EXTENDS PasswordAuthority, TLC

CONSTANTS l1, l2, c1, c2, b1, t1, t2, p1, p2

Symmetry == Permutations(Logins) \cup Permutations(Confirms) \cup Permutations(Tokens)
            \cup Permutations(Passwords)
=============================================================================
