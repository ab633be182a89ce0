---------------------------- MODULE VersionedRows ----------------------------
(***************************************************************************)
(* What optimistic control of a table promises to those who update it:     *)
(* rows carry a version, every update of a row gives it the next one, and  *)
(* one that names the version its client was shown changes exactly that    *)
(* version.  Writers that are no updates may pass it by.                   *)
(***************************************************************************)
EXTENDS Naturals

CONSTANTS Table,   \* rows
          Clients,
          None     \* for a version: a save that does not ask

VARIABLES version,  \* of each row
          author,   \* of each row: who saved it last
          expecting \* of each client: the version it will name, or None

vars == <<version, author, expecting>>

Init == /\ version \in [Table -> {0, 1}]
        /\ author = [row \in Table |-> None]
        /\ expecting = [c \in Clients |-> None]

(* Clients look at rows and make up their minds at any time. *)
prepare == expecting' \in [Clients -> Nat \cup {None}]

save(c, row) == /\ expecting[c] \in {None, version[row]}
                /\ version' = [version EXCEPT ![row] = @ + 1]
                /\ author' = [author EXCEPT ![row] = c]

Next == /\ prepare
        /\ \/ \E c \in Clients, row \in Table : save(c, row)
           \/ UNCHANGED <<version, author>>

Spec == Init /\ [][Next]_vars
=============================================================================
