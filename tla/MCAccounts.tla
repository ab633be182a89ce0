------------------------------ MODULE MCAccounts ------------------------------
(***************************************************************************)
(* Five small systems around an account in one run, side by side and not   *)
(* at once: its refresh sessions, its avatar, the roles of accounts, and   *)
(* the two stores of rate limits.  A behaviour is of the one its first     *)
(* state chooses; the others stay where they start.  They share their      *)
(* model values, so that one symmetry serves all.                          *)
(***************************************************************************)
EXTENDS RefreshSessions, TLC

CONSTANTS r1, r2, r3, Confirmers, Sweepers, NoOne, UrlLife, Margin, Stall, StorageEnd,
          Changes, Boots, Keys, Limit, Budget, Window, MaxHits, HitBudget, Length, LastTime

VARIABLES focus,
          rows, object, deferred, confirming, sweeping, storageTime, lost,
          roleOf, change, boot,
          table, older, bucket, time, refused, slipped,
          counted, asked, passed, sweepAt, clockTime, sweptUnder

Avatars == INSTANCE AvatarUploads
             WITH Uploads <- Requests, Requests <- Confirmers, NoUpload <- NoOne, now <- storageTime,
                  MaxTime <- StorageEnd
People == INSTANCE UserRoles WITH People <- Requests
Memory == INSTANCE MemoryBuckets
Database == INSTANCE DatabaseBuckets WITH Hits <- Requests, Unasked <- NoOne

(* The job leaves an upload alone for longer than a confirmation takes.    *)
ASSUME AvatarsAssumption == UrlLife \in Nat /\ Margin \in Nat /\ StorageEnd \in Nat /\ Stall \in 0 .. Margin

(* A time is a time and nothing else.                                      *)
ASSUME LimitsAssumption == /\ Limit \in Nat /\ Budget \in Nat /\ Window \in Nat
                           /\ MaxHits \in Nat /\ HitBudget \in Nat /\ Length \in Nat \ {0}
                           /\ LastTime \in Nat /\ NoOne \notin Nat

avatarVars == <<rows, object, deferred, confirming, sweeping, storageTime, lost>>
roleVars == <<roleOf, change, boot>>
memoryVars == <<table, older, bucket, time, refused, slipped>>
databaseVars == <<counted, asked, passed, sweepAt, clockTime, sweptUnder>>

mcVars == <<vars, avatarVars, roleVars, memoryVars, databaseVars, focus>>

MCInit == /\ focus \in {"session", "avatar", "roles", "memory", "database"}
          /\ Init /\ Avatars!Init /\ Memory!Init /\ Database!Init
          /\ People!Init /\ (focus # "roles" => \A p \in Requests : roleOf[p] = "admin")

MCNext ==
  /\ UNCHANGED focus
  /\ \/ /\ focus = "session" /\ Next
        /\ UNCHANGED <<avatarVars, roleVars, memoryVars, databaseVars>>
     \/ /\ focus = "avatar" /\ Avatars!Next
        /\ UNCHANGED <<vars, roleVars, memoryVars, databaseVars>>
     \/ /\ focus = "roles" /\ People!Next
        /\ UNCHANGED <<vars, avatarVars, memoryVars, databaseVars>>
     \/ /\ focus = "memory" /\ Memory!Next
        /\ UNCHANGED <<vars, avatarVars, roleVars, databaseVars>>
     \/ /\ focus = "database" /\ Database!Next
        /\ UNCHANGED <<vars, avatarVars, roleVars, memoryVars>>

MCSpec == MCInit /\ [][MCNext]_mcVars

Symmetry == Permutations(Requests) \cup Permutations(Confirmers)

(* The type invariants of the five. *)
TypesHold == /\ focus = "session" => TypeOK
             /\ focus = "avatar" => Avatars!TypeOK
             /\ focus = "roles" => People!TypeOK
             /\ focus = "memory" => Memory!TypeOK
             /\ focus = "database" => Database!TypeOK

(* An avatar that is shown has its bytes (finalize, replace and the sweep; *)
(* see AvatarUploads).                                                     *)
ReadyHasItsObject == Avatars!ReadyHasItsObject

(* No object stays in storage that nothing will look for (see              *)
(* AvatarUploads).                                                         *)
NothingIsForgotten == Avatars!NothingIsForgotten

(* Demotions at once leave an administrator (updateRole; see UserRoles).   *)
AnAdministratorRemains == People!AnAdministratorRemains

(* Both stores of rate limits keep to a budget that was spent. *)
LimitsHold == Memory!LimitedStayLimited /\ Database!BudgetIsShared
=============================================================================
