------------------------- MODULE MCDealTransitions -------------------------
(***************************************************************************)
(* Moves of deals, and the pilot of a deal, side by side and not at once:  *)
(* a behaviour is of the one its first state chooses.  The stages are one  *)
(* to start in, one that asks for a reason whoever moves a deal there, and *)
(* one for won deals with conditions that can be overridden.               *)
(***************************************************************************)
EXTENDS DealTransitions, TLC

CONSTANTS d1, d2, r1, r2, open, paused, won, claims, owner, reason,
          MaxCriteria, MaxEditions

VARIABLES focus, status, outcome, filled, criteria, act, about, disturbed, severed, unready

Trials == INSTANCE Pilots WITH Managers <- Requests, NoCriterion <- None

(* What the proofs about pilots assume of their constants. *)
ASSUME ProofAssumptions == Trials!BoundsAreNumbers

pilotVars == <<status, outcome, filled, criteria, act, about, disturbed, severed, unready>>
mcVars == <<vars, pilotVars, focus>>

MCInit == focus \in {"deals", "pilot"} /\ Init /\ Trials!Init

MCNext == /\ UNCHANGED focus
          /\ \/ focus = "deals" /\ Next /\ UNCHANGED pilotVars
             \/ focus = "pilot" /\ Trials!Next /\ UNCHANGED vars

MCSpec == MCInit /\ [][MCNext]_mcVars

MCNeeds == (open :> {}) @@ (paused :> {reason}) @@ (won :> {claims, owner})
Symmetry == Permutations({r1, r2}) \cup Permutations({claims, owner})

(* States that differ only in what no step and no property looks at: the   *)
(* history of a stray deal, the birth of a deal whose win is on record,    *)
(* which other stage a request found its deal in before the lock.          *)
Seen == <<[d \in Deals |-> IF d \in stray THEN None ELSE history[d]], torn \ stray,
          {d \in bornWon : exists(d) /\ ~deals[d].won}, deals, met, stray,
          pc, toRead, from, rest, held, lacks,
          [r \in Requests |-> <<job[r].deal, job[r].to, job[r].read = job[r].to>>],
          focus, pilotVars>>

(* Criteria of a pilot stay whole and it starts by its conditions (see     *)
(* Pilots), and its rows keep their shape.                                 *)
PilotsStand == Trials!TypeOK /\ Trials!PilotsStand
=============================================================================
