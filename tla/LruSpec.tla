------------------------------ MODULE LruSpec ------------------------------
(***************************************************************************)
(* What a cache with least-recently-used eviction promises, without the    *)
(* list and the index that pkg/util/cache/lru.go keeps: it holds at most   *)
(* Limit keys, and makes room by giving up the key whose last use lies     *)
(* furthest back.                                                          *)
(***************************************************************************)
EXTENDS Naturals, FiniteSets

CONSTANTS Key, Value, None, Limit

VARIABLES
    val,        \* the value of each key, None if it is not held
    newer,      \* newer[k]: the keys used since the last use of k
    done,       \* the cache is closed
    ret         \* the result of the latest Get

vars == <<val, newer, done, ret>>

Held == {k \in Key : val[k] # None}

Init ==
    /\ val = [k \in Key |-> None]
    /\ newer = [k \in Key |-> {}]
    /\ done = FALSE
    /\ ret = None

Use(k) == newer' = [j \in Key |-> IF j = k THEN {} ELSE newer[j] \cup {k}]

Get(k) ==
    /\ ret' = val[k]
    /\ IF k \in Held THEN Use(k) ELSE UNCHANGED newer
    /\ UNCHANGED <<val, done>>

Update(k, v) ==
    /\ ~done
    /\ k \in Held
    /\ val' = [val EXCEPT ![k] = v]
    /\ Use(k)
    /\ UNCHANGED <<done, ret>>

Insert(k, v) ==
    /\ ~done
    /\ k \notin Held /\ Cardinality(Held) < Limit
    /\ val' = [val EXCEPT ![k] = v]
    /\ Use(k)
    /\ UNCHANGED <<done, ret>>

Replace(k, v, victim) ==
    /\ ~done
    /\ k \notin Held /\ Cardinality(Held) = Limit
    /\ victim \in Held /\ Held \ {victim} \subseteq newer[victim]
    /\ val' = [val EXCEPT ![victim] = None, ![k] = v]
    /\ Use(k)
    /\ UNCHANGED <<done, ret>>

Delete(k) ==
    /\ val' = [val EXCEPT ![k] = None]
    /\ UNCHANGED <<newer, done, ret>>

Close ==
    /\ done' = TRUE
    /\ val' = [k \in Key |-> None]
    /\ UNCHANGED <<newer, ret>>

Next ==
    \/ \E k \in Key : Get(k) \/ Delete(k)
    \/ \E k \in Key, v \in Value : Update(k, v) \/ Insert(k, v) \/ \E j \in Key : Replace(k, v, j)
    \/ Close

Spec == Init /\ [][Next]_vars

=============================================================================
