---------------------------- MODULE MemoryBuckets ----------------------------
(***************************************************************************)
(* Rate limits counted inside one process: a bounded table of buckets, one *)
(* per key, each with the count of a window that begins with the first     *)
(* request.  A request is one step: nothing in consume awaits.             *)
(***************************************************************************)
EXTENDS Naturals, FiniteSets

CONSTANTS Keys,      \* callers
          Limit,     \* buckets the table may hold
          Budget,    \* requests of a window
          Window,    \* its length
          MaxTime    \* bound

VARIABLES table,     \* the keys that have a bucket
          older,     \* the order of the Map: pairs of them, the earlier first
          bucket,    \* of each key: its count and when its window ends
          time,
          refused,   \* history: until when a caller that spent its budget is to be refused
          slipped    \* history: callers let through before that

vars == <<table, older, bucket, time, refused, slipped>>

NoBucket == [count |-> 0, resetAt |-> 0]

Init == /\ table = {} /\ older = {} /\ bucket = [k \in Keys |-> NoBucket] /\ time = 0
        /\ refused = [k \in Keys |-> 0] /\ slipped = {}

-----------------------------------------------------------------------------
live(k) == bucket[k].resetAt > time
first(S) == {k \in S : \A j \in S : <<j, k>> \notin older}

(* deleteExpiredBuckets *)
withoutExpired == {k \in table : live(k)}

(* Seeded defect: a full table lets go of the oldest bucket. *)
withoutCheap_Oldest(t) == t \ first(t)

(* evictOneUnexhaustedBucket: the oldest with some budget left. *)
withoutCheap(t) == t \ first({k \in t : bucket[k].count < Budget})

(* Room for a key that is new or whose window has ended. *)
roomFor(k) == LET swept == IF Cardinality(table) >= Limit THEN withoutExpired ELSE table
              IN IF Cardinality(swept) >= Limit THEN withoutCheap(swept) ELSE swept

(* The bucket of an evicted key is gone with its count. *)
kept(t, x) == IF x \in t THEN bucket[x] ELSE NoBucket
order(t) == {p \in older : p[1] \in t /\ p[2] \in t}

(* A key in the Map keeps its place.                                       *)
store(t, k, b) ==
  /\ table' = t \cup {k}
  /\ older' = order(t) \cup (IF k \in t THEN {} ELSE t \X {k})
  /\ bucket' = [x \in Keys |-> IF x = k THEN b ELSE kept(t, x)]

(* rateLimit: the answer to the caller. *)
letThrough(k) == slipped' = IF time < refused[k] THEN slipped \cup {k} ELSE slipped

(* Bound: of a bucket over its budget nothing more is counted.             *)
count(k, t, b) ==
  /\ b.count <= Budget
  /\ store(t, k, [b EXCEPT !.count = @ + 1])
  /\ IF b.count < Budget THEN letThrough(k) ELSE UNCHANGED slipped
  /\ refused' = IF b.count + 1 >= Budget THEN [refused EXCEPT ![k] = b.resetAt] ELSE refused

consume(k) ==
  /\ IF k \in table /\ live(k) THEN count(k, table, bucket[k])
     ELSE IF Cardinality(roomFor(k)) < Limit
     THEN count(k, roomFor(k), [count |-> 0, resetAt |-> time + Window])
     ELSE /\ table' = roomFor(k) /\ older' = order(roomFor(k))
          /\ bucket' = [x \in Keys |-> kept(roomFor(k), x)]
          /\ UNCHANGED <<refused, slipped>>
  /\ UNCHANGED time

passTime == time < MaxTime /\ time' = time + 1 /\ UNCHANGED <<table, older, bucket, refused, slipped>>

Next == passTime \/ \E k \in Keys : consume(k)

Spec == Init /\ [][Next]_vars

-----------------------------------------------------------------------------
(* The table never outgrows its limit, and of two buckets one is older. *)
TypeOK == /\ table \subseteq Keys /\ Cardinality(table) <= Limit
          /\ older \subseteq table \X table
          /\ \A j, k \in table : <<j, k>> \in older <=> j # k /\ <<k, j>> \notin older
          /\ bucket \in [Keys -> [count : 0 .. Budget + 1, resetAt : 0 .. MaxTime + Window]]
          /\ time \in 0 .. MaxTime
          /\ refused \in [Keys -> 0 .. MaxTime + Window] /\ slipped \subseteq Keys

(* A flood of fresh keys cannot clear the record of whoever is limited: a  *)
(* caller that spent its budget is let through only after its window ends. *)
LimitedStayLimited == slipped = {}
=============================================================================
