------------------------------ MODULE LruCache -----------------------------
(***************************************************************************)
(* pkg/util/cache/lru.go: a map from keys to the elements of a list, most  *)
(* recently used first.  Every operation holds mu from beginning to end,   *)
(* so each is one action.  Elements are objects: an element is a number    *)
(* here, free again when it is no longer in the list.                      *)
(***************************************************************************)
EXTENDS Naturals, Sequences, FiniteSets

CONSTANTS Key, Value, None, Limit

ASSUME LruConstants ==
    /\ Limit \in Nat \ {0}
    /\ None \notin Value

VARIABLES
    index,          \* c.cache: key -> element, 0 if the key is not in the map
    ll,             \* c.ll, front first
    entry,          \* the lruEntry of each element
    shut,           \* c.closed
    got,            \* the result of the latest Get
    newer           \* the keys used since the last use of each key (history)

lruVars == <<index, ll, entry, shut, got, newer>>

Elem == 1..(Limit + 1)
InList == {ll[i] : i \in DOMAIN ll}

LruInit ==
    /\ index = [k \in Key |-> 0]
    /\ ll = <<>>
    /\ entry = [e \in Elem |-> [key |-> None, value |-> None]]
    /\ shut = FALSE
    /\ got = None
    /\ newer = [k \in Key |-> {}]

Used(k) == newer' = [j \in Key |-> IF j = k THEN {} ELSE newer[j] \cup {k}]

\* The list without element e; e moved to the front.
Without(s, e) ==
    LET i == CHOOSE i \in DOMAIN s : s[i] = e IN
    [j \in 1..(Len(s) - 1) |-> s[IF j < i THEN j ELSE j + 1]]
MoveToFront(s, e) == <<e>> \o Without(s, e)

\* A hit that leaves the list alone.
LruGetNoMove(k) ==
    /\ got' = IF index[k] = 0 THEN None ELSE entry[index[k]].value
    /\ IF index[k] # 0 THEN Used(k) ELSE UNCHANGED newer
    /\ UNCHANGED <<index, ll, entry, shut>>

\* A closed cache has an empty map.
LruGet(k) ==
    /\ \/ /\ shut \/ index[k] = 0
          /\ got' = None
          /\ UNCHANGED <<ll, newer>>
       \/ /\ ~shut /\ index[k] # 0
          /\ ll' = MoveToFront(ll, index[k])
          /\ got' = entry[index[k]].value
          /\ Used(k)
    /\ UNCHANGED <<index, entry, shut>>

LruUpdate(k, v) ==
    /\ ~shut
    /\ index[k] # 0
    /\ ll' = MoveToFront(ll, index[k])
    /\ entry' = [entry EXCEPT ![index[k]].value = v]
    /\ Used(k)
    /\ UNCHANGED <<index, shut, got>>

\* An insertion that evicts only when the list is over twice the limit.
LruInsertLate(k, v) ==
    LET e == CHOOSE e \in Elem : e \notin InList IN
    /\ ~shut /\ index[k] = 0 /\ Len(ll) <= Limit
    /\ ll' = <<e>> \o ll
    /\ entry' = [entry EXCEPT ![e] = [key |-> k, value |-> v]]
    /\ index' = [index EXCEPT ![k] = e]
    /\ Used(k)
    /\ UNCHANGED <<shut, got>>

\* PushFront, then removeOldestLocked as long as the list is too long.
LruInsert(k, v) ==
    LET e == CHOOSE e \in Elem : e \notin InList
        pushed == <<e>> \o ll
        n == IF Len(pushed) > Limit THEN Limit ELSE Len(pushed)
        evicted == {entry[pushed[i]].key : i \in (n + 1)..Len(pushed)}
    IN
    /\ ~shut
    /\ index[k] = 0
    /\ ll' = SubSeq(pushed, 1, n)
    /\ entry' = [entry EXCEPT ![e] = [key |-> k, value |-> v]]
    /\ index' = [j \in Key |-> IF j \in evicted THEN 0 ELSE IF j = k THEN e ELSE index[j]]
    /\ Used(k)
    /\ UNCHANGED <<shut, got>>

LruDelete(k) ==
    /\ ~shut
    /\ index[k] # 0
    /\ ll' = Without(ll, index[k])
    /\ index' = [index EXCEPT ![entry[index[k]].key] = 0]
    /\ UNCHANGED <<entry, shut, got, newer>>

LruClose ==
    /\ ~shut
    /\ shut' = TRUE
    /\ index' = [k \in Key |-> 0]
    /\ ll' = <<>>
    /\ UNCHANGED <<entry, got, newer>>

LruNext ==
    \/ \E k \in Key : LruGet(k) \/ LruDelete(k)
    \/ \E k \in Key, v \in Value : LruUpdate(k, v) \/ LruInsert(k, v)
    \/ LruClose

LruBehaviour == LruInit /\ [][LruNext]_lruVars

----------------------------------------------------------------------------
(* Properties.                                                             *)

\* Types; the list never has more than Limit elements.
LruTypeOK ==
    /\ index \in [Key -> 0..(Limit + 1)]
    /\ ll \in Seq(Elem) /\ Len(ll) <= Limit
    /\ entry \in [Elem -> [key : Key \cup {None}, value : Value \cup {None}]]
    /\ shut \in BOOLEAN
    /\ got \in Value \cup {None}
    /\ newer \in [Key -> SUBSET Key]

\* The map and the list describe the same entries: every element of the list
\* is the one its key is mapped to, no element is there twice, and no key is
\* mapped to an element that has left the list (lru.go:110-120).
IndexMatchesList ==
    /\ \A i \in DOMAIN ll : entry[ll[i]].key \in Key /\ index[entry[ll[i]].key] = ll[i]
    /\ \A i, j \in DOMAIN ll : ll[i] = ll[j] => i = j
    /\ \A k \in Key : index[k] # 0 => index[k] \in InList /\ entry[index[k]].key = k

\* The list is in the order of use, most recent first.
OrderedByUse ==
    \A i, j \in DOMAIN ll : i < j => entry[ll[i]].key \in newer[entry[ll[j]].key]

\* The cache implements least-recently-used eviction.
Lru == INSTANCE LruSpec WITH
    val <- [k \in Key |-> IF index[k] = 0 THEN None ELSE entry[index[k]].value],
    done <- shut, ret <- got

\* ... as the specification in LruSpec: a Get returns what was last set and
\* not deleted or evicted, and what is evicted is the least recently used.
ImplementsLru == Lru!Spec

=============================================================================
