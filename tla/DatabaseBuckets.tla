--------------------------- MODULE DatabaseBuckets ---------------------------
(***************************************************************************)
(* Rate limits counted in PostgreSQL, for one policy and one caller: a row *)
(* per window aligned to the clock, written by one upsert per request,     *)
(* whichever process serves it, and swept by auth:sessions:cleanup.        *)
(*                                                                         *)
(* A request reads the clock before it asks the database, and the sweep    *)
(* before its delete.  The processes' clocks are one.                      *)
(***************************************************************************)
EXTENDS Naturals, FiniteSets

CONSTANTS Hits,      \* requests of the caller
          MaxHits,   \* bound: requests of one window
          HitBudget, \* requests let through in a window
          Length,    \* of a window
          LastTime,  \* bound
          Unasked

VARIABLES counted,   \* of each window, the count of its row, 0 without one
          asked,     \* of each request: the window it read from the clock, or Unasked
          passed,    \* history: how many requests of each window were let through
          sweepAt,   \* the time the sweep read, or Unasked
          clockTime,
          sweptUnder \* history: windows swept while a request of theirs was under way

vars == <<counted, asked, passed, sweepAt, clockTime, sweptUnder>>

Windows == 0 .. LastTime \div Length
windowOf(t) == t \div Length
endOf(w) == (w + 1) * Length

Init == /\ counted = [w \in Windows |-> 0] /\ passed = [w \in Windows |-> 0]
        /\ asked = [h \in Hits |-> Unasked] /\ sweepAt = Unasked
        /\ clockTime = 0 /\ sweptUnder = {}

ask(h) ==
  /\ asked[h] = Unasked
  /\ asked' = [asked EXCEPT ![h] = windowOf(clockTime)]
  /\ UNCHANGED <<counted, passed, sweepAt, clockTime, sweptUnder>>

(* The insert, or the increment of the row that is there: what it returns  *)
(* is compared with the budget.                                            *)
upsert(h) ==
  LET w == asked[h]
  IN /\ w # Unasked /\ counted[w] < MaxHits
     /\ counted' = [counted EXCEPT ![w] = @ + 1]
     /\ passed' = IF counted[w] < HitBudget THEN [passed EXCEPT ![w] = @ + 1] ELSE passed
     /\ asked' = [asked EXCEPT ![h] = Unasked]
     /\ UNCHANGED <<sweepAt, clockTime, sweptUnder>>

(* A database that does not answer fails the request. *)
fail(h) == /\ asked[h] # Unasked /\ asked' = [asked EXCEPT ![h] = Unasked]
           /\ UNCHANGED <<counted, passed, sweepAt, clockTime, sweptUnder>>

startSweep == /\ sweepAt = Unasked /\ sweepAt' = clockTime
              /\ UNCHANGED <<counted, asked, passed, clockTime, sweptUnder>>

(* Seeded defect: the sweep takes the window that is still open. *)
stale_Open(w) == endOf(w) <= sweepAt + Length

stale(w) == endOf(w) < sweepAt

sweep == LET old == {w \in Windows : stale(w)}
         IN /\ sweepAt # Unasked /\ sweepAt' = Unasked
            /\ counted' = [w \in Windows |-> IF w \in old THEN 0 ELSE counted[w]]
            /\ sweptUnder' = sweptUnder \cup {w \in old : \E h \in Hits : asked[h] = w}
            /\ UNCHANGED <<asked, passed, clockTime>>

tick == /\ clockTime < LastTime /\ clockTime' = clockTime + 1
        /\ UNCHANGED <<counted, asked, passed, sweepAt, sweptUnder>>

Next == (\E h \in Hits : ask(h) \/ upsert(h) \/ fail(h)) \/ startSweep \/ sweep \/ tick

Spec == Init /\ [][Next]_vars

-----------------------------------------------------------------------------
TypeOK == /\ counted \in [Windows -> 0 .. MaxHits] /\ passed \in [Windows -> Nat]
          /\ asked \in [Hits -> Windows \cup {Unasked}]
          /\ sweepAt \in 0 .. LastTime \cup {Unasked} /\ clockTime \in 0 .. LastTime
          /\ sweptUnder \subseteq Windows

(* "The count is exact": the processes together let through no more than   *)
(* the budget of a window, and the sweep gives none of it back, unless a   *)
(* request was still on its way when its window was over and swept - which *)
(* the comment "a window past its end is never read again" leaves out.     *)
BudgetIsShared == \A w \in Windows \ sweptUnder : passed[w] <= HitBudget
=============================================================================
