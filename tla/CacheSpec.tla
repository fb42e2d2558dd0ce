------------------------------ MODULE CacheSpec -----------------------------
(***************************************************************************)
(* What users of the shared caches rely on: every prefix is a map of its   *)
(* own, a value stays until it is overwritten, removed or, if it was given *)
(* a lifetime, vanishes, and a Get answers with the value or an error.     *)
(***************************************************************************)
CONSTANTS Prefix, Key, Value, Nil, Error, Gone

VARIABLES
    maps,       \* maps[p][k]: the value, Gone if there is none
    kept,       \* <<p, k>> of the values that were set without a lifetime
    answer      \* what the latest Get answered

vars == <<maps, kept, answer>>

Init == maps = [p \in Prefix |-> [k \in Key |-> Gone]] /\ kept = {} /\ answer = Nil

Put(p, k, v, lifetime) ==
    /\ maps' = [maps EXCEPT ![p] = [@ EXCEPT ![k] = v]]
    /\ kept' = IF lifetime THEN kept \ {<<p, k>>} ELSE kept \cup {<<p, k>>}
    /\ UNCHANGED answer

Remove(p, k) == Put(p, k, Gone, TRUE)

Vanish(p, k) ==
    /\ <<p, k>> \notin kept
    /\ maps' = [maps EXCEPT ![p] = [@ EXCEPT ![k] = Gone]]
    /\ UNCHANGED <<kept, answer>>

Read(p, k) == answer' = (IF maps[p][k] = Gone THEN Nil ELSE maps[p][k]) /\ UNCHANGED <<maps, kept>>

Fail == answer' = Error /\ UNCHANGED <<maps, kept>>

Next ==
    \/ \E p \in Prefix, k \in Key, v \in Value \cup {Nil}, t \in BOOLEAN : Put(p, k, v, t)
    \/ \E p \in Prefix, k \in Key : Remove(p, k) \/ Vanish(p, k) \/ Read(p, k)
    \/ Fail

Spec == Init /\ [][Next]_vars

=============================================================================
