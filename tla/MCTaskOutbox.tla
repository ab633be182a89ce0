---------------------------- MODULE MCTaskOutbox ----------------------------
(* One key and two passes: whatever the passes do to each other, they do   *)
(* to the rows of one key.                                                 *)
EXTENDS TaskOutbox, TLC

CONSTANTS t1, d1, d2

MCMaxAttempts == t1 :> 3

(* As with the default settings.                                           *)
ASSUME SettingsAssumption == SettingsOutlastCooldown

DrainSymmetry == Permutations({d1, d2})
=============================================================================
