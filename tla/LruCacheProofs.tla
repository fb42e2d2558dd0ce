--------------------------- MODULE LruCacheProofs --------------------------
(***************************************************************************)
(* The map and the list of the LRU cache agree, for any sets of keys and   *)
(* values and any capacity.                                                *)
(***************************************************************************)
EXTENDS LruCache, FiniteSetTheorems, TLAPS

USE LruConstants

Items(s) == {s[n] : n \in DOMAIN s}
Distinct(s) == \A m, n \in DOMAIN s : s[m] = s[n] => m = n
\* The elements of w come in the order they have in s.
InOrderOf(w, s) ==
    \A j, k \in DOMAIN w : j < k =>
        \E m, n \in DOMAIN s : m < n /\ w[j] = s[m] /\ w[k] = s[n]

\* list.Remove on a list without repetitions takes out one element and leaves
\* the others, each once.
LEMMA WithoutFacts ==
    ASSUME NEW S, NEW s \in Seq(S), NEW e \in Items(s), Distinct(s)
    PROVE  /\ Without(s, e) \in Seq(S)
           /\ Len(Without(s, e)) = Len(s) - 1
           /\ Items(Without(s, e)) = Items(s) \ {e}
           /\ Distinct(Without(s, e))
           /\ InOrderOf(Without(s, e), s)
<1> DEFINE p == CHOOSE n \in DOMAIN s : s[n] = e
           w == [j \in 1..(Len(s) - 1) |-> s[IF j < p THEN j ELSE j + 1]]
<1>1. p \in 1..Len(s) /\ s[p] = e
  BY DEF Items
<1>2. Without(s, e) = w
  BY DEF Without
<1> HIDE DEF p
<1>3. Len(s) \in Nat /\ Len(s) - 1 \in Nat
  BY <1>1
<1>4. \A j \in 1..(Len(s) - 1) : (IF j < p THEN j ELSE j + 1) \in 1..Len(s) /\ (IF j < p THEN j ELSE j + 1) # p
  BY <1>1, <1>3
<1>5. \A j \in 1..(Len(s) - 1) : w[j] \in S
  BY <1>4
<1>6. w \in Seq(S) /\ Len(w) = Len(s) - 1 /\ DOMAIN w = 1..(Len(s) - 1)
  BY <1>3, <1>5
<1>7. Items(w) \subseteq Items(s) \ {e}
  <2> SUFFICES ASSUME NEW j \in 1..(Len(s) - 1) PROVE w[j] \in Items(s) \ {e}
    BY <1>6 DEF Items
  <2> DEFINE q == IF j < p THEN j ELSE j + 1
  <2>1. q \in 1..Len(s) /\ q # p /\ w[j] = s[q]
    BY <1>4
  <2> QED
    BY <2>1, <1>1 DEF Items, Distinct
<1>8. Items(s) \ {e} \subseteq Items(w)
  <2> SUFFICES ASSUME NEW n \in 1..Len(s), s[n] # e PROVE s[n] \in Items(w)
    BY DEF Items
  <2>1. n # p
    BY <1>1
  <2>2. CASE n < p
    <3>1. n \in 1..(Len(s) - 1) /\ w[n] = s[n]
      BY <2>2, <1>1, <1>3
    <3> QED
      BY <3>1, <1>6 DEF Items
  <2>3. CASE n > p
    <3>1. n - 1 \in 1..(Len(s) - 1) /\ ~(n - 1 < p) /\ (n - 1) + 1 = n
      BY <2>3, <1>1, <1>3
    <3>2. w[n - 1] = s[n]
      BY <3>1
    <3> QED
      BY <3>1, <3>2, <1>6 DEF Items
  <2> QED
    BY <2>1, <2>2, <2>3, <1>1
<1>9. Distinct(w)
  <2> SUFFICES ASSUME NEW j \in 1..(Len(s) - 1), NEW k \in 1..(Len(s) - 1), w[j] = w[k] PROVE j = k
    BY <1>6 DEF Distinct
  <2> DEFINE q(x) == IF x < p THEN x ELSE x + 1
  <2>1. q(j) \in 1..Len(s) /\ q(k) \in 1..Len(s) /\ s[q(j)] = s[q(k)]
    BY <1>4
  <2>2. q(j) = q(k)
    BY <2>1 DEF Distinct
  <2> QED
    BY <2>2, <1>1
<1>10. InOrderOf(w, s)
  <2> SUFFICES ASSUME NEW j \in 1..(Len(s) - 1), NEW k \in 1..(Len(s) - 1), j < k
               PROVE  \E m, n \in DOMAIN s : m < n /\ w[j] = s[m] /\ w[k] = s[n]
    BY <1>6 DEF InOrderOf
  <2> DEFINE q(x) == IF x < p THEN x ELSE x + 1
  <2>1. q(j) \in DOMAIN s /\ q(k) \in DOMAIN s /\ w[j] = s[q(j)] /\ w[k] = s[q(k)]
    BY <1>4
  <2>2. q(j) < q(k)
    BY <1>1
  <2> QED
    BY <2>1, <2>2
<1> QED
  BY <1>2, <1>6, <1>7, <1>8, <1>9, <1>10

\* PushFront of an element that is not in the list.
LEMMA PushFacts ==
    ASSUME NEW S, NEW s \in Seq(S), NEW e \in S, e \notin Items(s), Distinct(s)
    PROVE  /\ <<e>> \o s \in Seq(S)
           /\ Len(<<e>> \o s) = Len(s) + 1
           /\ (<<e>> \o s)[1] = e
           /\ \A n \in 1..Len(s) : (<<e>> \o s)[n + 1] = s[n]
           /\ Items(<<e>> \o s) = Items(s) \cup {e}
           /\ Distinct(<<e>> \o s)
<1> DEFINE t == <<e>> \o s
<1>1. t \in Seq(S) /\ Len(t) = Len(s) + 1 /\ t[1] = e
  OBVIOUS
<1>2. \A n \in 1..Len(s) : t[n + 1] = s[n]
  OBVIOUS
<1>3. \A n \in 2..Len(t) : n - 1 \in 1..Len(s) /\ t[n] = s[n - 1]
  BY <1>1
<1> HIDE DEF t
<1>4. DOMAIN t = 1..Len(t) /\ DOMAIN s = 1..Len(s)
  BY <1>1
<1>5. Items(t) = Items(s) \cup {e}
  <2>1. Items(t) \subseteq Items(s) \cup {e}
    <3> SUFFICES ASSUME NEW n \in 1..Len(t) PROVE t[n] \in Items(s) \cup {e}
      BY <1>4 DEF Items
    <3>1. n = 1 \/ n \in 2..Len(t)
      BY <1>1
    <3> QED
      BY <3>1, <1>1, <1>3, <1>4 DEF Items
  <2>2. e \in Items(t)
    <3>1. 1 \in 1..Len(t)
      BY <1>1
    <3> QED
      BY <3>1, <1>1, <1>4 DEF Items
  <2>3. Items(s) \subseteq Items(t)
    <3> SUFFICES ASSUME NEW n \in 1..Len(s) PROVE s[n] \in Items(t)
      BY <1>4 DEF Items
    <3>1. n + 1 \in 1..Len(t) /\ t[n + 1] = s[n]
      BY <1>1, <1>2
    <3> QED
      BY <3>1, <1>4 DEF Items
  <2> QED
    BY <2>1, <2>2, <2>3
<1>6. Distinct(t)
  <2> SUFFICES ASSUME NEW m \in 1..Len(t), NEW n \in 1..Len(t), t[m] = t[n] PROVE m = n
    BY <1>4 DEF Distinct
  <2>1. \A k \in 2..Len(t) : t[k] # e
    BY <1>3, <1>4 DEF Items
  <2>2. CASE m = 1 \/ n = 1
    <3>1. m \notin 2..Len(t) /\ n \notin 2..Len(t)
      BY <2>1, <2>2, <1>1
    <3> QED
      BY <3>1, <1>1
  <2>3. CASE m # 1 /\ n # 1
    <3>1. m \in 2..Len(t) /\ n \in 2..Len(t)
      BY <2>3, <1>1
    <3>2. m - 1 = n - 1
      BY <3>1, <1>3, <1>4 DEF Distinct
    <3> QED
      BY <3>2, <1>1
  <2> QED
    BY <2>2, <2>3
<1> QED
  BY <1>1, <1>2, <1>5, <1>6 DEF t

\* MoveToFront keeps the elements, and the order of the others.
LEMMA MoveFacts ==
    ASSUME NEW S, NEW s \in Seq(S), NEW e \in Items(s), Distinct(s),
           NEW t, t = MoveToFront(s, e)
    PROVE  /\ t \in Seq(S) /\ Len(t) = Len(s)
           /\ Items(t) = Items(s)
           /\ Distinct(t)
           /\ \A m, n \in DOMAIN t : m < n =>
                \/ t[m] = e /\ t[n] # e
                \/ t[m] # e /\ t[n] # e /\ \E j, k \in DOMAIN s : j < k /\ t[m] = s[j] /\ t[n] = s[k]
<1> DEFINE w == Without(s, e)
<1>1. /\ w \in Seq(S) /\ Len(w) = Len(s) - 1
      /\ Items(w) = Items(s) \ {e} /\ Distinct(w)
      /\ InOrderOf(w, s)
  BY WithoutFacts
<1>2. e \in S /\ t = <<e>> \o w
  BY DEF Items, MoveToFront
<1> HIDE DEF w
<1>3. /\ t \in Seq(S) /\ Len(t) = Len(w) + 1 /\ t[1] = e
      /\ \A n \in 1..Len(w) : t[n + 1] = w[n]
      /\ Items(t) = Items(w) \cup {e} /\ Distinct(t)
  BY <1>1, <1>2, PushFacts
<1>4. DOMAIN t = 1..Len(s) /\ DOMAIN s = 1..Len(s) /\ Len(s) \in Nat /\ Len(t) = Len(s)
  BY <1>1, <1>3
<1>5. Items(t) = Items(s)
  BY <1>1, <1>3
<1>6. ASSUME NEW m \in 1..Len(s), NEW n \in 1..Len(s), m < n
      PROVE  \/ t[m] = e /\ t[n] # e
             \/ t[m] # e /\ t[n] # e /\ \E j, k \in DOMAIN s : j < k /\ t[m] = s[j] /\ t[n] = s[k]
  <2>1. t[n] # e
    <3>1. 1 \in DOMAIN t /\ n # 1
      BY <1>6, <1>4
    <3> QED
      BY <3>1, <1>3, <1>4 DEF Distinct
  <2>2. CASE m = 1
    BY <2>1, <2>2, <1>3
  <2>3. CASE m # 1
    <3>1. m - 1 \in 1..(Len(s) - 1) /\ n - 1 \in 1..(Len(s) - 1) /\ m - 1 < n - 1
      BY <1>6, <2>3, <1>4
    <3>2. t[m] = w[m - 1] /\ t[n] = w[n - 1]
      <4>1. (m - 1) + 1 = m /\ (n - 1) + 1 = n
        OBVIOUS
      <4> QED
        BY <3>1, <4>1, <1>1, <1>3
    <3>3. t[m] # e
      BY <2>3, <1>3, <1>4, <1>6 DEF Distinct
    <3>4. m - 1 \in DOMAIN w /\ n - 1 \in DOMAIN w
      BY <3>1, <1>1
    <3>5. PICK j \in DOMAIN s, k \in DOMAIN s : j < k /\ w[m - 1] = s[j] /\ w[n - 1] = s[k]
      BY <3>1, <3>4, <1>1 DEF InOrderOf
    <3> QED
      BY <2>1, <3>2, <3>3, <3>5
  <2> QED
    BY <2>2, <2>3
<1>7. \A m, n \in DOMAIN t : m < n =>
        \/ t[m] = e /\ t[n] # e
        \/ t[m] # e /\ t[n] # e /\ \E j, k \in DOMAIN s : j < k /\ t[m] = s[j] /\ t[n] = s[k]
  <2> SUFFICES ASSUME NEW m \in DOMAIN t, NEW n \in DOMAIN t, m < n
               PROVE  \/ t[m] = e /\ t[n] # e
                      \/ t[m] # e /\ t[n] # e /\ \E j, k \in DOMAIN s : j < k /\ t[m] = s[j] /\ t[n] = s[k]
    OBVIOUS
  <2>1. m \in 1..Len(s) /\ n \in 1..Len(s)
    BY <1>4
  <2> QED
    BY <2>1, <1>6
<1> QED
  BY <1>2, <1>3, <1>4, <1>5, <1>7

\* As many elements as positions.
LEMMA ItemsCard ==
    ASSUME NEW S, NEW s \in Seq(S), Distinct(s)
    PROVE  IsFiniteSet(Items(s)) /\ Cardinality(Items(s)) = Len(s)
<1>1. s \in Bijection(1..Len(s), Items(s))
  <2>1. s \in [1..Len(s) -> Items(s)]
    BY DEF Items
  <2> QED
    BY <2>1 DEF Distinct, Items, Bijection, Injection, Surjection, IsInjective
<1>2. ExistsBijection(1..Len(s), Items(s))
  BY <1>1 DEF ExistsBijection
<1> QED
  <2>1. Len(s) \in Nat
    OBVIOUS
  <2>2. IsFiniteSet(Items(s))
    BY <1>2, <2>1, FS_NatBijection
  <2> QED
    BY <1>2, <2>1, <2>2, FS_CountingElements

\* PushFront always finds an element that is not in the list.
LEMMA FreeElement ==
    ASSUME ll \in Seq(Elem), Len(ll) <= Limit, Distinct(ll)
    PROVE  \E e \in Elem : e \notin InList
<1>1. InList = Items(ll)
  BY DEF InList, Items
<1>2. IsFiniteSet(InList) /\ Cardinality(InList) <= Limit
  BY <1>1, ItemsCard
<1>3. Cardinality(Elem) = Limit + 1
  BY FS_Interval DEF Elem
<1>4. SUFFICES ASSUME Elem \subseteq InList PROVE FALSE
  OBVIOUS
<1>5. Cardinality(Elem) <= Cardinality(InList) /\ Cardinality(InList) \in Nat
  BY <1>2, <1>4, FS_Subset, FS_CardinalityType
<1> QED
  BY <1>2, <1>3, <1>5

----------------------------------------------------------------------------
(* The invariant.  The agreement of the map and the list needs the types;  *)
(* the order of use needs the agreement, because it speaks of the list     *)
(* through the keys of its elements.  That an element of the list holds a  *)
(* value, and not None, is what makes the map say which keys are held; a   *)
(* closed cache holds none.                                                *)

HoldsValues == \A x \in Items(ll) : entry[x].value \in Value
ClosedEmpty == shut => \A k \in Key : index[k] = 0

LruInv == LruTypeOK /\ IndexMatchesList /\ OrderedByUse /\ HoldsValues /\ ClosedEmpty

\* The same in terms of the elements of the list.
Linked(x) == entry[x].key \in Key /\ index[entry[x].key] = x
Mapped(k) == index[k] # 0 => index[k] \in Items(ll) /\ entry[index[k]].key = k

LEMMA Restated ==
    IndexMatchesList <=>
        (\A x \in Items(ll) : Linked(x)) /\ Distinct(ll) /\ (\A k \in Key : Mapped(k))
BY DEF IndexMatchesList, Linked, Mapped, Distinct, Items, InList

\* A use of a key that is in the map, by Get or by Set.
LEMMA UseStep ==
    ASSUME LruInv, NEW k \in Key, index[k] # 0,
           ll' = MoveToFront(ll, index[k]), Used(k), UNCHANGED index,
           entry' \in [Elem -> [key : Key \cup {None}, value : Value \cup {None}]],
           \A x \in Elem : entry'[x].key = entry[x].key,
           \A x \in Items(ll) : entry'[x].value \in Value
    PROVE  /\ HoldsValues'
           /\ ll' \in Seq(Elem) /\ Len(ll') <= Limit
           /\ newer' \in [Key -> SUBSET Key]
           /\ IndexMatchesList' /\ OrderedByUse'
<1> DEFINE e == index[k]
<1>0. LruTypeOK /\ IndexMatchesList /\ OrderedByUse
  BY DEF LruInv
<1>1. /\ e \in Items(ll) /\ entry[e].key = k /\ Distinct(ll)
      /\ \A x \in Items(ll) : Linked(x)
      /\ \A j \in Key : Mapped(j)
  BY <1>0, Restated DEF Mapped
<1>2. ll \in Seq(Elem) /\ Len(ll) <= Limit
  BY <1>0 DEF LruTypeOK
<1>3. /\ ll' \in Seq(Elem) /\ Len(ll') = Len(ll)
      /\ Items(ll') = Items(ll) /\ Distinct(ll')
      /\ \A m, n \in DOMAIN ll' : m < n =>
           \/ ll'[m] = e /\ ll'[n] # e
           \/ /\ ll'[m] # e /\ ll'[n] # e
              /\ \E i, j \in DOMAIN ll : i < j /\ ll'[m] = ll[i] /\ ll'[n] = ll[j]
  BY <1>1, <1>2, MoveFacts
<1>4. newer' = [j \in Key |-> IF j = k THEN {} ELSE newer[j] \cup {k}] /\ newer \in [Key -> SUBSET Key]
  BY <1>0 DEF Used, LruTypeOK
<1>5. Items(ll) \subseteq Elem
  BY <1>2 DEF Items
<1>6. IndexMatchesList'
  <2>1. \A x \in Items(ll') : Linked(x)'
    BY <1>1, <1>3, <1>5 DEF Linked
  <2>2. \A j \in Key : Mapped(j)'
    BY <1>1, <1>3, <1>5 DEF Mapped
  <2> QED
    BY <2>1, <2>2, <1>3 DEF IndexMatchesList, Linked, Mapped, Distinct, Items, InList
<1>7. OrderedByUse'
  <2> SUFFICES ASSUME NEW m \in DOMAIN ll', NEW n \in DOMAIN ll', m < n
               PROVE  entry'[ll'[m]].key \in newer'[entry'[ll'[n]].key]
    BY DEF OrderedByUse
  <2>1. ll'[m] \in Items(ll) /\ ll'[n] \in Items(ll)
    BY <1>3 DEF Items
  <2>2. entry'[ll'[m]].key = entry[ll'[m]].key /\ entry'[ll'[n]].key = entry[ll'[n]].key
    BY <2>1, <1>5
  <2>3. ll'[n] # e
    BY <1>3
  <2>4. entry[ll'[n]].key \in Key /\ entry[ll'[n]].key # k
    BY <2>1, <2>3, <1>1 DEF Linked
  <2>5. newer'[entry[ll'[n]].key] = newer[entry[ll'[n]].key] \cup {k}
    BY <2>4, <1>4
  <2>6. CASE ll'[m] = e
    BY <2>2, <2>5, <2>6, <1>1
  <2>7. CASE ll'[m] # e
    <3>1. PICK i \in DOMAIN ll, j \in DOMAIN ll : i < j /\ ll'[m] = ll[i] /\ ll'[n] = ll[j]
      BY <2>7, <1>3
    <3>2. entry[ll[i]].key \in newer[entry[ll[j]].key]
      BY <3>1, <1>0 DEF OrderedByUse
    <3> QED
      BY <3>1, <3>2, <2>2, <2>5
  <2> QED
    BY <2>6, <2>7
<1>8. HoldsValues'
  BY <1>3 DEF HoldsValues
<1> QED
  BY <1>2, <1>3, <1>4, <1>6, <1>7, <1>8

\* What Set leaves in the list when the key is new: the new element, and the
\* old ones but for those that are over the limit.
LEMMA InsertShape ==
    ASSUME LruInv, NEW k \in Key, NEW v \in Value, LruInsert(k, v)
    PROVE  \E e \in Elem, n \in 1..Limit :
             /\ e \notin Items(ll)
             /\ n = (IF Len(ll) < Limit THEN Len(ll) + 1 ELSE Limit)
             /\ ll' \in Seq(Elem) /\ Len(ll') = n
             /\ ll'[1] = e /\ \A j \in 2..n : j - 1 \in DOMAIN ll /\ ll'[j] = ll[j - 1]
             /\ Distinct(ll')
             /\ entry' = [entry EXCEPT ![e] = [key |-> k, value |-> v]]
             /\ index' = [j \in Key |-> IF j \in {entry[ll[q]].key : q \in n..Len(ll)} THEN 0
                                       ELSE IF j = k THEN e ELSE index[j]]
<1> DEFINE e == CHOOSE e \in Elem : e \notin InList
           pushed == <<e>> \o ll
           n == IF Len(pushed) > Limit THEN Limit ELSE Len(pushed)
<1>0. LruTypeOK /\ IndexMatchesList
  BY DEF LruInv
<1>1. ll \in Seq(Elem) /\ Len(ll) <= Limit /\ Distinct(ll) /\ DOMAIN ll = 1..Len(ll) /\ Len(ll) \in Nat
  BY <1>0, Restated DEF LruTypeOK
<1>2. e \in Elem /\ e \notin Items(ll)
  BY <1>1, FreeElement DEF InList, Items
<1>3. /\ ll' = SubSeq(pushed, 1, n)
      /\ entry' = [entry EXCEPT ![e] = [key |-> k, value |-> v]]
      /\ index' = [j \in Key |-> IF j \in {entry[pushed[i]].key : i \in (n + 1)..Len(pushed)} THEN 0
                                ELSE IF j = k THEN e ELSE index[j]]
  BY DEF LruInsert
<1> HIDE DEF e
<1>4. /\ pushed \in Seq(Elem) /\ Len(pushed) = Len(ll) + 1 /\ pushed[1] = e
      /\ \A j \in 1..Len(ll) : pushed[j + 1] = ll[j]
      /\ Distinct(pushed)
  BY <1>1, <1>2, PushFacts
<1> HIDE DEF pushed
<1>5. n \in 1..Limit /\ n <= Len(pushed) /\ n = (IF Len(ll) < Limit THEN Len(ll) + 1 ELSE Limit)
  BY <1>1, <1>4
<1> HIDE DEF n
<1>6. /\ ll' \in Seq(Elem) /\ Len(ll') = n /\ DOMAIN ll' = 1..n
      /\ \A j \in 1..n : ll'[j] = pushed[j]
  BY <1>3, <1>4, <1>5
<1>7. ll'[1] = e /\ \A j \in 2..n : j - 1 \in DOMAIN ll /\ ll'[j] = ll[j - 1]
  <2>1. ll'[1] = e
    BY <1>4, <1>5, <1>6
  <2>2. ASSUME NEW j \in 2..n PROVE j - 1 \in DOMAIN ll /\ ll'[j] = ll[j - 1]
    <3>1. j \in 1..n /\ j - 1 \in 1..Len(ll) /\ (j - 1) + 1 = j
      BY <1>1, <1>4, <1>5
    <3> QED
      BY <3>1, <1>1, <1>4, <1>6
  <2> QED
    BY <2>1, <2>2
<1>8. Distinct(ll')
  <2>1. \A j \in 1..n : j \in DOMAIN pushed
    BY <1>4, <1>5
  <2> QED
    BY <2>1, <1>4, <1>6 DEF Distinct
<1>9. {entry[pushed[i]].key : i \in (n + 1)..Len(pushed)} = {entry[ll[q]].key : q \in n..Len(ll)}
  <2>1. ASSUME NEW i \in (n + 1)..Len(pushed) PROVE i - 1 \in n..Len(ll) /\ pushed[i] = ll[i - 1]
    <3>1. i - 1 \in n..Len(ll) /\ i - 1 \in 1..Len(ll) /\ (i - 1) + 1 = i
      BY <1>1, <1>4, <1>5
    <3> QED
      BY <3>1, <1>4
  <2>2. ASSUME NEW q \in n..Len(ll) PROVE q + 1 \in (n + 1)..Len(pushed) /\ pushed[q + 1] = ll[q]
    BY <1>1, <1>4, <1>5
  <2> QED
    BY <2>1, <2>2
<1>10. index' = [j \in Key |-> IF j \in {entry[ll[q]].key : q \in n..Len(ll)} THEN 0
                              ELSE IF j = k THEN e ELSE index[j]]
  BY <1>3, <1>9
<1>11. entry' = [entry EXCEPT ![e] = [key |-> k, value |-> v]]
  BY <1>3
<1>12. ll' \in Seq(Elem) /\ Len(ll') = n
  BY <1>6
<1>13. n \in 1..Limit /\ n = (IF Len(ll) < Limit THEN Len(ll) + 1 ELSE Limit)
  BY <1>5
<1> WITNESS e \in Elem, n \in 1..Limit
<1> QED
  BY <1>2, <1>7, <1>8, <1>10, <1>11, <1>12, <1>13

\* A new key.
LEMMA InsertStep ==
    ASSUME LruInv, NEW k \in Key, NEW v \in Value, LruInsert(k, v)
    PROVE  LruInv'
<1>0. LruTypeOK /\ IndexMatchesList /\ OrderedByUse
  BY DEF LruInv
<1>1. PICK e \in Elem, n \in 1..Limit :
             /\ e \notin Items(ll)
             /\ n = (IF Len(ll) < Limit THEN Len(ll) + 1 ELSE Limit)
             /\ ll' \in Seq(Elem) /\ Len(ll') = n
             /\ ll'[1] = e /\ \A j \in 2..n : j - 1 \in DOMAIN ll /\ ll'[j] = ll[j - 1]
             /\ Distinct(ll')
             /\ entry' = [entry EXCEPT ![e] = [key |-> k, value |-> v]]
             /\ index' = [j \in Key |-> IF j \in {entry[ll[q]].key : q \in n..Len(ll)} THEN 0
                                       ELSE IF j = k THEN e ELSE index[j]]
  BY InsertShape
<1>2. /\ ll \in Seq(Elem) /\ Len(ll) <= Limit /\ DOMAIN ll = 1..Len(ll) /\ Len(ll) \in Nat
      /\ DOMAIN ll' = 1..n /\ Items(ll) \subseteq Elem
      /\ entry \in [Elem -> [key : Key \cup {None}, value : Value \cup {None}]]
      /\ index \in [Key -> 0..(Limit + 1)] /\ newer \in [Key -> SUBSET Key]
  BY <1>0, <1>1 DEF LruTypeOK, Items
<1>3. /\ \A x \in Items(ll) : Linked(x)
      /\ Distinct(ll)
      /\ \A j \in Key : Mapped(j)
  BY <1>0, Restated
<1>4. ~shut /\ index[k] = 0 /\ newer' = [j \in Key |-> IF j = k THEN {} ELSE newer[j] \cup {k}] /\ UNCHANGED <<shut, got>>
  BY DEF LruInsert, Used
<1>5. \A x \in Items(ll) : entry'[x] = entry[x] /\ entry[x].key \in Key /\ entry[x].key # k
  BY <1>1, <1>2, <1>3, <1>4 DEF Linked, Elem
<1>6. entry'[e].key = k
  BY <1>1, <1>2
<1>7. k \notin {entry[ll[q]].key : q \in n..Len(ll)}
  <2>1. \A q \in n..Len(ll) : ll[q] \in Items(ll)
    <3>1. \A q \in n..Len(ll) : q \in DOMAIN ll
      BY <1>2
    <3> QED
      BY <3>1 DEF Items
  <2> QED
    BY <2>1, <1>5
<1>8. LruTypeOK'
  <2>1. index' \in [Key -> 0..(Limit + 1)]
    BY <1>1, <1>2 DEF Elem
  <2>2. entry' \in [Elem -> [key : Key \cup {None}, value : Value \cup {None}]]
    BY <1>1, <1>2
  <2>3. newer' \in [Key -> SUBSET Key]
    BY <1>2, <1>4
  <2> QED
    BY <2>1, <2>2, <2>3, <1>0, <1>1, <1>4 DEF LruTypeOK
<1>9. ASSUME NEW j \in 1..n
      PROVE  \/ j = 1 /\ ll'[j] = e
             \/ /\ j \in 2..n /\ j - 1 \in DOMAIN ll /\ ll'[j] = ll[j - 1] /\ ll[j - 1] \in Items(ll)
                /\ entry[ll[j - 1]].key \notin {entry[ll[q]].key : q \in n..Len(ll)}
  <2>1. CASE j = 1
    BY <2>1, <1>1
  <2>2. CASE j # 1
    <3>1. j \in 2..n
      BY <2>2
    <3>2. j - 1 \in DOMAIN ll /\ ll'[j] = ll[j - 1] /\ ll[j - 1] \in Items(ll)
      BY <3>1, <1>1 DEF Items
    <3>3. ASSUME NEW q \in n..Len(ll), entry[ll[j - 1]].key = entry[ll[q]].key PROVE FALSE
      <4>1. q \in DOMAIN ll /\ ll[q] \in Items(ll) /\ q # j - 1
        <5>1. q \in DOMAIN ll /\ q # j - 1
          BY <1>2
        <5> QED
          BY <5>1 DEF Items
      <4>2. ll[q] = ll[j - 1]
        BY <4>1, <3>2, <3>3, <1>3 DEF Linked
      <4> QED
        BY <4>1, <4>2, <3>2, <1>3 DEF Distinct
    <3> QED
      BY <3>1, <3>2, <3>3
  <2> QED
    BY <2>1, <2>2
<1>10. ASSUME NEW x \in Items(ll') PROVE Linked(x)'
  <2>1. PICK j \in 1..n : x = ll'[j]
    BY <1>2 DEF Items
  <2>2. CASE x = e
    BY <2>2, <1>1, <1>6, <1>7 DEF Linked
  <2>3. CASE x # e
    <3>1. x \in Items(ll) /\ entry[x].key \notin {entry[ll[q]].key : q \in n..Len(ll)}
      BY <2>1, <2>3, <1>9
    <3> QED
      BY <3>1, <1>1, <1>3, <1>5 DEF Linked
  <2> QED
    BY <2>2, <2>3
<1>11. ASSUME NEW j \in Key, index'[j] # 0 PROVE index'[j] \in Items(ll') /\ entry'[index'[j]].key = j
  <2>1. j \notin {entry[ll[q]].key : q \in n..Len(ll)} /\ index'[j] = (IF j = k THEN e ELSE index[j])
    BY <1>1, <1>11
  <2>2. CASE j = k
    <3>1. 1 \in DOMAIN ll' /\ ll'[1] = e
      BY <1>1, <1>2
    <3> QED
      BY <3>1, <2>1, <2>2, <1>6 DEF Items
  <2>3. CASE j # k
    <3>1. index'[j] = index[j] /\ index[j] \in Items(ll) /\ entry[index[j]].key = j
      BY <2>1, <2>3, <1>3, <1>11 DEF Mapped
    <3>2. PICK q \in DOMAIN ll : index[j] = ll[q]
      BY <3>1 DEF Items
    <3>3. q \notin n..Len(ll)
      BY <3>1, <3>2, <2>1
    <3>4. q + 1 \in 2..n /\ (q + 1) - 1 = q
      BY <3>3, <1>2
    <3>5. ll'[q + 1] = ll[q] /\ q + 1 \in DOMAIN ll'
      BY <3>4, <1>1, <1>2
    <3> QED
      BY <3>1, <3>2, <3>5, <1>5 DEF Items
  <2> QED
    BY <2>2, <2>3
<1>12. IndexMatchesList'
  <2>1. \A j \in Key : Mapped(j)'
    BY <1>11 DEF Mapped
  <2> QED
    BY <2>1, <1>1, <1>10, ZenonT(60) DEF IndexMatchesList, Linked, Mapped, Distinct, Items, InList
<1>13. OrderedByUse'
  <2> SUFFICES ASSUME NEW m \in 1..n, NEW h \in 1..n, m < h
               PROVE  entry'[ll'[m]].key \in newer'[entry'[ll'[h]].key]
    BY <1>2 DEF OrderedByUse
  <2>1. h - 1 \in DOMAIN ll /\ ll'[h] = ll[h - 1] /\ ll[h - 1] \in Items(ll)
    <3>1. h # 1
      OBVIOUS
    <3> QED
      BY <3>1, <1>9
  <2>2. /\ entry'[ll'[h]].key = entry[ll[h - 1]].key
        /\ newer'[entry[ll[h - 1]].key] = newer[entry[ll[h - 1]].key] \cup {k}
    BY <2>1, <1>4, <1>5
  <2>3. CASE m = 1
    BY <2>2, <2>3, <1>1, <1>6
  <2>4. CASE m # 1
    <3>1. m - 1 \in DOMAIN ll /\ ll'[m] = ll[m - 1] /\ ll[m - 1] \in Items(ll)
      BY <2>4, <1>9
    <3>2. m - 1 < h - 1
      OBVIOUS
    <3>3. entry[ll[m - 1]].key \in newer[entry[ll[h - 1]].key]
      BY <3>1, <3>2, <2>1, <1>0 DEF OrderedByUse
    <3> QED
      BY <3>1, <3>3, <2>2, <1>5
  <2> QED
    BY <2>3, <2>4
<1>14. HoldsValues'
  <2> SUFFICES ASSUME NEW j \in 1..n PROVE entry'[ll'[j]].value \in Value
    BY <1>2 DEF HoldsValues, Items
  <2>1. entry'[e].value = v
    BY <1>1, <1>2
  <2>2. \A x \in Items(ll) : entry[x].value \in Value
    BY DEF LruInv, HoldsValues
  <2> QED
    BY <2>1, <2>2, <1>5, <1>9
<1> QED
  BY <1>4, <1>8, <1>12, <1>13, <1>14 DEF LruInv, ClosedEmpty

\* A hit of Get.
LEMMA GetStep ==
    ASSUME LruInv, NEW k \in Key, LruGet(k)
    PROVE  LruInv'
<1>0. LruTypeOK /\ IndexMatchesList /\ OrderedByUse /\ HoldsValues /\ ClosedEmpty
  BY DEF LruInv
<1>1. CASE shut \/ index[k] = 0
  <2>1. CASE UNCHANGED <<index, ll, entry, shut, newer>> /\ got' = None
    BY <2>1, <1>0 DEF LruInv, LruTypeOK, IndexMatchesList, OrderedByUse, HoldsValues, ClosedEmpty, Items, InList
  <2> QED
    BY <1>1, <2>1 DEF LruGet
<1>2. CASE ~shut /\ index[k] # 0
  <2>1. /\ ll' = MoveToFront(ll, index[k]) /\ got' = entry[index[k]].value
        /\ Used(k) /\ UNCHANGED <<index, entry, shut>>
    BY <1>2 DEF LruGet
  <2>2. /\ HoldsValues' /\ ll' \in Seq(Elem) /\ Len(ll') <= Limit
        /\ newer' \in [Key -> SUBSET Key]
        /\ IndexMatchesList' /\ OrderedByUse'
    BY <1>0, <1>2, <2>1, UseStep DEF LruTypeOK, HoldsValues
  <2>3. index[k] \in Items(ll)
    BY <1>0, <1>2, Restated DEF Mapped
  <2>4. got' \in Value
    BY <2>1, <2>3, <1>0 DEF HoldsValues
  <2> QED
    BY <2>1, <2>2, <2>4, <1>0, <1>2 DEF LruInv, LruTypeOK, ClosedEmpty
<1> QED
  BY <1>1, <1>2

\* Set of a key that is there.
LEMMA UpdateStep ==
    ASSUME LruInv, NEW k \in Key, NEW v \in Value, LruUpdate(k, v)
    PROVE  LruInv'
<1>0. LruTypeOK /\ IndexMatchesList /\ OrderedByUse /\ HoldsValues
  BY DEF LruInv
<1>1. /\ ~shut /\ index[k] # 0 /\ ll' = MoveToFront(ll, index[k])
      /\ entry' = [entry EXCEPT ![index[k]].value = v]
      /\ Used(k) /\ UNCHANGED <<index, shut, got>>
  BY DEF LruUpdate
<1>2. index[k] \in Items(ll) /\ Items(ll) \subseteq Elem
  BY <1>0, <1>1, Restated DEF Mapped, LruTypeOK, Items
<1>3. entry \in [Elem -> [key : Key \cup {None}, value : Value \cup {None}]]
  BY <1>0 DEF LruTypeOK
<1>4. /\ entry' \in [Elem -> [key : Key \cup {None}, value : Value \cup {None}]]
      /\ \A x \in Elem : entry'[x].key = entry[x].key
      /\ \A x \in Elem : entry'[x].value = IF x = index[k] THEN v ELSE entry[x].value
  BY <1>1, <1>2, <1>3
<1>5. \A x \in Items(ll) : entry'[x].value \in Value
  BY <1>0, <1>2, <1>4 DEF HoldsValues
<1>6. /\ HoldsValues' /\ ll' \in Seq(Elem) /\ Len(ll') <= Limit
      /\ newer' \in [Key -> SUBSET Key]
      /\ IndexMatchesList' /\ OrderedByUse'
  BY <1>0, <1>1, <1>4, <1>5, UseStep
<1> QED
  BY <1>0, <1>1, <1>4, <1>6 DEF LruInv, LruTypeOK, ClosedEmpty

LEMMA DeleteStep ==
    ASSUME LruInv, NEW k \in Key, LruDelete(k)
    PROVE  LruInv'
<1> DEFINE e == index[k]
<1>0. LruTypeOK /\ IndexMatchesList /\ OrderedByUse /\ HoldsValues
  BY DEF LruInv
<1>1. /\ e \in Items(ll) /\ entry[e].key = k /\ Distinct(ll)
      /\ \A x \in Items(ll) : Linked(x)
      /\ \A j \in Key : Mapped(j)
  BY <1>0, Restated DEF Mapped, LruDelete
<1>2. /\ ~shut /\ ll' = Without(ll, e) /\ index' = [index EXCEPT ![k] = 0]
      /\ UNCHANGED <<entry, shut, got, newer>>
  BY <1>1 DEF LruDelete
<1>3. ll \in Seq(Elem) /\ Len(ll) <= Limit /\ index \in [Key -> 0..(Limit + 1)]
  BY <1>0 DEF LruTypeOK
<1>4. /\ ll' \in Seq(Elem) /\ Len(ll') = Len(ll) - 1
      /\ Items(ll') = Items(ll) \ {e} /\ Distinct(ll') /\ InOrderOf(ll', ll)
  BY <1>1, <1>2, <1>3, WithoutFacts
<1>5. LruTypeOK'
  BY <1>0, <1>2, <1>3, <1>4 DEF LruTypeOK
<1>6. IndexMatchesList'
  <2>1. \A x \in Items(ll') : Linked(x)'
    BY <1>1, <1>2, <1>3, <1>4 DEF Linked
  <2>2. \A j \in Key : Mapped(j)'
    BY <1>1, <1>2, <1>3, <1>4 DEF Mapped
  <2> QED
    BY <2>1, <2>2, <1>4 DEF IndexMatchesList, Linked, Mapped, Distinct, Items, InList
<1>7. OrderedByUse'
  BY <1>0, <1>2, <1>4 DEF OrderedByUse, InOrderOf
<1>8. HoldsValues'
  BY <1>0, <1>2, <1>4 DEF HoldsValues
<1> QED
  BY <1>2, <1>5, <1>6, <1>7, <1>8 DEF LruInv, ClosedEmpty

LEMMA CloseStep ==
    ASSUME LruInv, LruClose
    PROVE  LruInv'
<1>1. /\ ll' = <<>> /\ index' = [k \in Key |-> 0] /\ shut' = TRUE
      /\ UNCHANGED <<entry, got, newer>>
  BY DEF LruClose
<1>2. ll' \in Seq(Elem) /\ Len(ll') = 0 /\ DOMAIN ll' = {}
  BY <1>1
<1>3. index' \in [Key -> 0..(Limit + 1)]
  BY <1>1
<1> QED
  BY <1>1, <1>2, <1>3
  DEF LruInv, LruTypeOK, IndexMatchesList, OrderedByUse, HoldsValues, ClosedEmpty, Items, InList

LEMMA InitInv == LruInit => LruInv
<1> SUFFICES ASSUME LruInit PROVE LruInv
  OBVIOUS
<1>1. ll \in Seq(Elem) /\ Len(ll) = 0 /\ DOMAIN ll = {}
  BY DEF LruInit
<1>2. LruTypeOK
  <2>1. index \in [Key -> 0..(Limit + 1)] /\ newer \in [Key -> SUBSET Key]
    BY DEF LruInit
  <2>2. entry \in [Elem -> [key : Key \cup {None}, value : Value \cup {None}]]
    BY DEF LruInit
  <2>3. shut \in BOOLEAN /\ got \in Value \cup {None}
    BY Zenon DEF LruInit
  <2>4. Len(ll) <= Limit
    BY <1>1
  <2> QED
    BY <1>1, <2>1, <2>2, <2>3, <2>4 DEF LruTypeOK
<1>3. IndexMatchesList /\ OrderedByUse /\ HoldsValues /\ ClosedEmpty
  BY <1>1 DEF LruInit, IndexMatchesList, OrderedByUse, HoldsValues, ClosedEmpty, Items
<1> QED
  BY <1>2, <1>3 DEF LruInv

LEMMA StepInv == LruInv /\ [LruNext]_lruVars => LruInv'
<1>1. ASSUME LruInv, LruNext PROVE LruInv'
  BY <1>1, GetStep, UpdateStep, InsertStep, DeleteStep, CloseStep DEF LruNext
<1>2. ASSUME LruInv, UNCHANGED lruVars PROVE LruInv'
  BY <1>2
  DEF lruVars, LruInv, LruTypeOK, IndexMatchesList, OrderedByUse, HoldsValues, ClosedEmpty, Items, InList
<1> QED
  BY <1>1, <1>2

\* Whatever is done with the cache, the list holds at most Limit elements, the
\* map and the list agree, and the list is in the order of use
\* (lru.go:35-120).
THEOREM LruInvAlways == LruBehaviour => [](LruTypeOK /\ IndexMatchesList /\ OrderedByUse)
<1>1. LruInit => LruInv
  BY InitInv
<1>2. LruInv /\ [LruNext]_lruVars => LruInv'
  BY StepInv
<1>3. LruInv => LruTypeOK /\ IndexMatchesList /\ OrderedByUse
  BY DEF LruInv
<1> QED
  BY <1>1, <1>2, <1>3, PTL DEF LruBehaviour

----------------------------------------------------------------------------
(* The cache implements LruSpec.                                           *)

Val == [k \in Key |-> IF index[k] = 0 THEN None ELSE entry[index[k]].value]

\* The keys held are those of the elements, and there are as many.
LEMMA HeldFacts ==
    ASSUME LruInv
    PROVE  /\ Lru!Held = {k \in Key : index[k] # 0}
           /\ Cardinality(Lru!Held) = Len(ll)
<1>0. LruTypeOK /\ IndexMatchesList /\ HoldsValues
  BY DEF LruInv
<1>1. (\A x \in Items(ll) : Linked(x)) /\ Distinct(ll) /\ (\A k \in Key : Mapped(k))
  BY <1>0, Restated
<1>2. Lru!Held = {k \in Key : index[k] # 0}
  BY <1>0, <1>1 DEF Lru!Held, Mapped, HoldsValues
<1>3. ll \in Seq(Elem) /\ Items(ll) \subseteq Elem /\ Len(ll) \in Nat
  BY <1>0 DEF LruTypeOK, Items
<1>4. IsFiniteSet(Items(ll)) /\ Cardinality(Items(ll)) = Len(ll)
  BY <1>1, <1>3, ItemsCard
<1> DEFINE H == {k \in Key : index[k] # 0}
           f == [x \in Items(ll) |-> entry[x].key]
<1>5. \A x \in Items(ll) : x # 0
  BY <1>3 DEF Elem
<1>6. f \in [Items(ll) -> H]
  BY <1>1, <1>5 DEF Linked
<1>7. \A x, y \in Items(ll) : f[x] = f[y] => x = y
  BY <1>1 DEF Linked
<1>8. \A k \in H : \E x \in Items(ll) : f[x] = k
  BY <1>1 DEF Mapped
<1>9. f \in Bijection(Items(ll), H)
  BY <1>6, <1>7, <1>8 DEF Bijection, Injection, Surjection, IsInjective
<1>10. ExistsBijection(Items(ll), H)
  BY <1>9 DEF ExistsBijection
<1>11. Cardinality(H) = Len(ll)
  BY <1>4, <1>10, FS_Bijection
<1> QED
  BY <1>2, <1>11

\* LruSpec counts the keys as FiniteSets does.
LEMMA SameCardinality == \A S : Lru!Cardinality(S) = Cardinality(S)
BY DEF Lru!Cardinality, Cardinality

LEMMA RefineGet ==
    ASSUME LruInv, NEW k \in Key, LruGet(k)
    PROVE  Lru!Get(k)
<1>1. Lru!Held = {j \in Key : index[j] # 0}
  BY HeldFacts
<1>2. index[k] = 0 \/ ~shut
  BY DEF LruInv, ClosedEmpty
<1> QED
  BY <1>1, <1>2 DEF Lru!Get, Lru!Use, LruGet, Used

LEMMA RefineUpdate ==
    ASSUME LruInv, NEW k \in Key, NEW v \in Value, LruUpdate(k, v)
    PROVE  Lru!Update(k, v)
<1>0. LruTypeOK /\ IndexMatchesList
  BY DEF LruInv
<1>1. Lru!Held = {j \in Key : index[j] # 0}
  BY HeldFacts
<1>2. (\A j \in Key : Mapped(j)) /\ index[k] # 0 /\ ~shut /\ Items(ll) \subseteq Elem
  BY <1>0, Restated DEF LruUpdate, LruTypeOK, Items
<1>3. \A j \in Key : j # k /\ index[j] # 0 => index[j] # index[k] /\ index[j] \in Elem
  BY <1>2 DEF Mapped
<1>4. index[k] \in Elem
  BY <1>2 DEF Mapped
<1>5. entry' = [entry EXCEPT ![index[k]].value = v] /\ index' = index
      /\ entry \in [Elem -> [key : Key \cup {None}, value : Value \cup {None}]]
  BY <1>0 DEF LruUpdate, LruTypeOK
<1>6. Val' = [Val EXCEPT ![k] = v]
  BY <1>2, <1>3, <1>4, <1>5 DEF Val
<1> QED
  BY <1>1, <1>2, <1>6 DEF Lru!Update, Lru!Use, LruUpdate, Used, Val

LEMMA RefineInsert ==
    ASSUME LruInv, NEW k \in Key, NEW v \in Value, LruInsert(k, v)
    PROVE  Lru!Insert(k, v) \/ \E j \in Key : Lru!Replace(k, v, j)
<1>0. LruTypeOK /\ IndexMatchesList /\ OrderedByUse
  BY DEF LruInv
<1>1. PICK e \in Elem, n \in 1..Limit :
             /\ e \notin Items(ll)
             /\ n = (IF Len(ll) < Limit THEN Len(ll) + 1 ELSE Limit)
             /\ entry' = [entry EXCEPT ![e] = [key |-> k, value |-> v]]
             /\ index' = [j \in Key |-> IF j \in {entry[ll[q]].key : q \in n..Len(ll)} THEN 0
                                       ELSE IF j = k THEN e ELSE index[j]]
  BY InsertShape
<1>2. /\ Len(ll) <= Limit /\ DOMAIN ll = 1..Len(ll) /\ Len(ll) \in Nat /\ Items(ll) \subseteq Elem
      /\ entry \in [Elem -> [key : Key \cup {None}, value : Value \cup {None}]]
      /\ index \in [Key -> 0..(Limit + 1)]
  BY <1>0 DEF LruTypeOK, Items
<1>3. (\A x \in Items(ll) : Linked(x)) /\ (\A j \in Key : Mapped(j))
  BY <1>0, Restated
<1>4. Lru!Held = {j \in Key : index[j] # 0} /\ Cardinality(Lru!Held) = Len(ll)
  BY HeldFacts
<1>5. ~shut /\ index[k] = 0 /\ Used(k) /\ UNCHANGED <<shut, got>>
  BY DEF LruInsert
<1>6. k \notin Lru!Held
  BY <1>4, <1>5
<1>7. e # 0 /\ entry'[e].value = v
  BY <1>1, <1>2 DEF Elem
<1>8. \A j \in Key : index[j] # 0 => entry'[index[j]] = entry[index[j]]
  BY <1>1, <1>2, <1>3 DEF Mapped
<1>9. CASE Len(ll) < Limit
  <2>1. {entry[ll[q]].key : q \in n..Len(ll)} = {}
    BY <1>1, <1>2, <1>9
  <2>2. index' = [j \in Key |-> IF j = k THEN e ELSE index[j]]
    BY <2>1, <1>1
  <2>3. Val' = [Val EXCEPT ![k] = v]
    BY <2>2, <1>5, <1>7, <1>8 DEF Val
  <2>4. Lru!Insert(k, v)
    BY <2>3, <1>4, <1>5, <1>6, <1>9, SameCardinality DEF Lru!Insert, Lru!Use, Used, Val
  <2> QED
    BY <2>4
<1>10. CASE Len(ll) = Limit
  <2>1. Limit \in DOMAIN ll /\ ll[Limit] \in Items(ll)
    <3>1. Limit \in DOMAIN ll
      BY <1>2, <1>10
    <3> QED
      BY <3>1 DEF Items
  <2>2. PICK w \in Key : w = entry[ll[Limit]].key /\ index[w] = ll[Limit] /\ index[w] # 0 /\ w # k
    BY <2>1, <1>2, <1>3, <1>5 DEF Linked, Elem
  <2>3. {entry[ll[q]].key : q \in n..Len(ll)} = {w}
    <3>1. n..Len(ll) = {Limit}
      BY <1>1, <1>2, <1>10
    <3> QED
      BY <3>1, <2>2
  <2>4. index' = [j \in Key |-> IF j = w THEN 0 ELSE IF j = k THEN e ELSE index[j]]
    BY <2>3, <1>1
  <2>5. w \in Lru!Held /\ Lru!Held \ {w} \subseteq newer[w]
    <3> SUFFICES ASSUME NEW j \in Key, index[j] # 0, j # w PROVE j \in newer[w]
      BY <2>2, <1>4
    <3>1. PICK q \in DOMAIN ll : index[j] = ll[q] /\ entry[ll[q]].key = j
      BY <1>3 DEF Mapped, Items
    <3>2. q < Limit
      BY <3>1, <2>2, <1>2, <1>10
    <3> QED
      BY <3>1, <3>2, <2>1, <2>2, <1>0 DEF OrderedByUse
  <2>6. Val' = [Val EXCEPT ![w] = None, ![k] = v]
    BY <2>2, <2>4, <1>5, <1>7, <1>8 DEF Val
  <2>7. Lru!Replace(k, v, w)
    BY <2>5, <2>6, <1>4, <1>5, <1>6, <1>10, SameCardinality DEF Lru!Replace, Lru!Use, Used, Val
  <2> QED
    BY <2>2, <2>7
<1>11. Len(ll) < Limit \/ Len(ll) = Limit
  <2>1. Len(ll) <= Limit /\ Len(ll) \in Nat
    BY <1>2
  <2> QED
    BY <2>1
<1> QED
  BY <1>9, <1>10, <1>11

LEMMA RefineDelete ==
    ASSUME LruInv, NEW k \in Key, LruDelete(k)
    PROVE  Lru!Delete(k)
<1>0. LruTypeOK /\ IndexMatchesList
  BY DEF LruInv
<1>1. entry[index[k]].key = k
  BY <1>0, Restated DEF Mapped, LruDelete
<1>2. index' = [index EXCEPT ![k] = 0] /\ UNCHANGED <<entry, shut, got, newer>>
  BY <1>1 DEF LruDelete
<1>3. index \in [Key -> 0..(Limit + 1)]
  BY <1>0 DEF LruTypeOK
<1>4. Val' = [Val EXCEPT ![k] = None]
  BY <1>2, <1>3 DEF Val
<1> QED
  BY <1>2, <1>4 DEF Lru!Delete, Val

\* The initial states of the cache are initial states of LruSpec.
LEMMA RefineInit == LruInit => Lru!Init
BY DEF LruInit, Lru!Init

\* Every step of the cache is a step of LruSpec or changes nothing there.
LEMMA RefineStep == LruInv /\ [LruNext]_lruVars => [Lru!Next]_(Lru!vars)
<1>1. ASSUME LruInv, LruNext PROVE Lru!Next
  <2>1. ASSUME NEW k \in Key, LruGet(k) PROVE Lru!Next
    BY <1>1, <2>1, RefineGet DEF Lru!Next
  <2>2. ASSUME NEW k \in Key, LruDelete(k) PROVE Lru!Next
    BY <1>1, <2>2, RefineDelete DEF Lru!Next
  <2>3. ASSUME NEW k \in Key, NEW v \in Value, LruUpdate(k, v) PROVE Lru!Next
    BY <1>1, <2>3, RefineUpdate DEF Lru!Next
  <2>4. ASSUME NEW k \in Key, NEW v \in Value, LruInsert(k, v) PROVE Lru!Next
    BY <1>1, <2>4, RefineInsert DEF Lru!Next
  <2>5. CASE LruClose
    <3>1. Lru!Close
      BY <2>5 DEF LruClose, Lru!Close
    <3> QED
      BY <3>1 DEF Lru!Next
  <2> QED
    BY <1>1, <2>1, <2>2, <2>3, <2>4, <2>5 DEF LruNext
<1>2. ASSUME UNCHANGED lruVars PROVE UNCHANGED Lru!vars
  BY <1>2 DEF lruVars, Lru!vars
<1> QED
  BY <1>1, <1>2

\* The cache implements least-recently-used eviction: the list and the map of
\* lru.go behave as LruSpec says, for any capacity.
THEOREM CacheImplementsLru == LruBehaviour => ImplementsLru
<1>1. LruInit => LruInv /\ Lru!Init
  BY InitInv, RefineInit
<1>2. LruInv /\ [LruNext]_lruVars => LruInv' /\ [Lru!Next]_(Lru!vars)
  BY StepInv, RefineStep
<1> QED
  BY <1>1, <1>2, PTL DEF LruBehaviour, ImplementsLru, Lru!Spec

=============================================================================
