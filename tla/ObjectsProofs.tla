---------------------------- MODULE ObjectsProofs ---------------------------
(***************************************************************************)
(* The objects of MCObjects, for every value of the constants: the caches  *)
(* in Redis implement independent maps; the prober counts every attempt    *)
(* once and its metric fits the round trips; the discovery server loses no *)
(* instance without a reason; an instance comes back from Nacos as it was  *)
(* registered, and a value from a byte stream as it was written.  The LRU  *)
(* cache has a module of its own.                                          *)
(***************************************************************************)
EXTENDS MCObjects, LruCacheProofs, DiscoFactoryProofs, SequenceTheorems,
        WellFoundedInduction, TLAPS

----------------------------------------------------------------------------
(* The caches in Redis, from the assumption that no two prefixes make the  *)
(* same Redis key.                                                         *)

USE SharedConstants DEF Absent

\* The maps that the users see.
View == [p \in Prefix |-> [k \in CacheKey |-> db[fullKey(p, k)].val]]

\* The inductive invariant: Redis has a lifetime for a key only if the latest
\* Set of the key gave it one.
KeptStays == \A p \in Prefix, k \in CacheKey : db[fullKey(p, k)].mortal => <<p, k>> \notin kept
SharedInv == SharedCacheTypeOK /\ KeptStays

\* Every step keeps the types.
LEMMA SharedTypeStep ==
    ASSUME SharedCacheTypeOK, [SharedNext]_sharedVars
    PROVE  SharedCacheTypeOK'
<1> USE DEF SharedCacheTypeOK
<1>0. \A p \in Prefix, k \in CacheKey : fullKey(p, k) \in RedisKeys
  BY DEF RedisKeys
<1>1. ASSUME NEW c \in Redis, NEW opt \in Options, New(c, opt) PROVE SharedCacheTypeOK'
  BY <1>1 DEF New
<1>2. ASSUME NEW c \in Redis, NEW p \in Prefix \cup {<<>>}, NewSharedCache(c, p) PROVE SharedCacheTypeOK'
  <2>1. (IF p = <<>> THEN SharedKeyPrefix ELSE p) \in Prefix
    OBVIOUS
  <2> QED
    BY <1>2, <2>1 DEF NewSharedCache
<1>3. ASSUME NEW c \in Redis, NEW p \in Prefix \cup {<<>>}, GetFails(c, p) \/ Close(c, p)
      PROVE SharedCacheTypeOK'
  BY <1>3 DEF GetFails, Close
<1>4. ASSUME NEW c \in Redis, NEW p \in Prefix, NEW k \in CacheKey, Get(c, p, k) PROVE SharedCacheTypeOK'
  BY <1>0, <1>4 DEF Get, Found
<1>5. ASSUME NEW c \in Redis, NEW p \in Prefix, NEW k \in CacheKey, Delete(c, p, k)
      PROVE SharedCacheTypeOK'
  BY <1>0, <1>5 DEF Delete
<1>6. ASSUME NEW c \in Redis, NEW p \in Prefix, NEW k \in CacheKey, NEW v \in CacheValue \cup {Nil},
             NEW ttl \in Int, SetWithTTL(c, p, k, v, ttl)
      PROVE SharedCacheTypeOK'
  BY <1>0, <1>6 DEF SetWithTTL
<1>7. ASSUME NEW c \in Redis, NEW k \in CacheKey, GetConfig(c, k) PROVE SharedCacheTypeOK'
  BY <1>0, <1>7 DEF GetConfig, Found
<1>8. ASSUME NEW x \in RedisKeys, Expires(x) PROVE SharedCacheTypeOK'
  BY <1>8 DEF Expires
<1>9. UNCHANGED sharedVars => SharedCacheTypeOK'
  BY DEF sharedVars
<1>10. {-1, 0, 1, 600} \subseteq Int
  OBVIOUS
<1> HIDE DEF SharedCacheTypeOK
<1> QED
  BY <1>1, <1>2, <1>3, <1>4, <1>5, <1>6, <1>7, <1>8, <1>9, <1>10
     DEF SharedNext, Set, SetConfig, DeleteConfig, NewRPCDiscoveryClient, CloseStorage

\* Writing one Redis key changes one entry of one map, and no other.
LEMMA OneKey ==
    ASSUME SharedCacheTypeOK, NEW p \in Prefix, NEW k \in CacheKey, NEW e,
           db' = [db EXCEPT ![fullKey(p, k)] = e]
    PROVE  /\ db'[fullKey(p, k)] = e
           /\ \A q \in Prefix, l \in CacheKey :
                  q # p \/ l # k => db'[fullKey(q, l)] = db[fullKey(q, l)]
<1>1. \A q \in Prefix, l \in CacheKey : fullKey(q, l) \in DOMAIN db
  BY DEF SharedCacheTypeOK, RedisKeys
<1>2. \A q \in Prefix, l \in CacheKey : fullKey(q, l) = fullKey(p, k) => q = p /\ l = k
  BY PrefixesApart, Zenon
<1> QED
  BY <1>1, <1>2

\* The same, for the maps that the users see.
LEMMA OneEntry ==
    ASSUME SharedCacheTypeOK, NEW p \in Prefix, NEW k \in CacheKey, NEW v, NEW m,
           db' = [db EXCEPT ![fullKey(p, k)] = [val |-> v, mortal |-> m]]
    PROVE  View' = [View EXCEPT ![p] = [@ EXCEPT ![k] = v]]
<1>1. /\ db'[fullKey(p, k)] = [val |-> v, mortal |-> m]
      /\ \A q \in Prefix, l \in CacheKey :
             q # p \/ l # k => db'[fullKey(q, l)] = db[fullKey(q, l)]
  BY OneKey, Zenon
<1>2. View' = [q \in Prefix |-> [l \in CacheKey |->
                    IF q = p /\ l = k THEN v ELSE db[fullKey(q, l)].val]]
  BY <1>1 DEF View
<1> QED
  BY <1>2 DEF View

\* Every step keeps the invariant.
LEMMA SharedInvStep ==
    ASSUME SharedInv, [SharedNext]_sharedVars
    PROVE  SharedInv'
<1> USE DEF SharedInv
<1>1. SharedCacheTypeOK'
  BY SharedTypeStep
<1>2. ASSUME NEW p \in Prefix, NEW k \in CacheKey, NEW e,
             db' = [db EXCEPT ![fullKey(p, k)] = e],
             kept' \subseteq kept \cup {<<p, k>>},
             e.mortal => <<p, k>> \notin kept'
      PROVE KeptStays'
  <2>1. /\ db'[fullKey(p, k)] = e
        /\ \A q \in Prefix, l \in CacheKey :
               q # p \/ l # k => db'[fullKey(q, l)] = db[fullKey(q, l)]
    BY <1>2, OneKey, Zenon
  <2> QED
    BY <1>2, <2>1 DEF KeptStays
<1>3. ASSUME UNCHANGED <<db, kept>> PROVE KeptStays'
  BY <1>3 DEF KeptStays
<1>4. ASSUME NEW c \in Redis, NEW opt \in Options, New(c, opt) PROVE UNCHANGED <<db, kept>>
  BY <1>4 DEF New
<1>5. ASSUME NEW c \in Redis, NEW p \in Prefix \cup {<<>>},
             NewSharedCache(c, p) \/ Close(c, p) \/ GetFails(c, p)
      PROVE UNCHANGED <<db, kept>>
  BY <1>5 DEF NewSharedCache, Close, GetFails
<1>6. ASSUME NEW c \in Redis, NEW p \in Prefix, NEW k \in CacheKey, Get(c, p, k) \/ GetConfig(c, k)
      PROVE UNCHANGED <<db, kept>>
  BY <1>6 DEF Get, GetConfig
<1>7. ASSUME NEW c \in Redis, NEW p \in Prefix, NEW k \in CacheKey, Delete(c, p, k) PROVE KeptStays'
  <2>1. db' = [db EXCEPT ![fullKey(p, k)] = Absent] /\ kept' = kept \ {<<p, k>>}
    BY <1>7 DEF Delete
  <2> QED
    BY <1>2, <2>1
<1>8. ASSUME NEW c \in Redis, NEW p \in Prefix, NEW k \in CacheKey, NEW v \in CacheValue \cup {Nil},
             NEW ttl \in Int, SetWithTTL(c, p, k, v, ttl)
      PROVE KeptStays'
  <2>1. /\ db' = [db EXCEPT ![fullKey(p, k)] = [val |-> v, mortal |-> ttl > 0]]
        /\ kept' = IF ttl > 0 THEN kept \ {<<p, k>>} ELSE kept \cup {<<p, k>>}
    BY <1>8 DEF SetWithTTL
  <2> QED
    BY <1>2, <2>1
<1>9. ASSUME NEW x \in RedisKeys, Expires(x) PROVE KeptStays'
  <2>1. PICK p \in Prefix, k \in CacheKey : x = fullKey(p, k)
    BY DEF RedisKeys
  <2>2. db' = [db EXCEPT ![fullKey(p, k)] = Absent] /\ kept' = kept
    BY <1>9, <2>1 DEF Expires
  <2> QED
    BY <1>2, <2>2
<1>10. UNCHANGED sharedVars => UNCHANGED <<db, kept>>
  BY DEF sharedVars
<1>11. ASSUME NEW c \in Redis, NEW k \in CacheKey, GetConfig(c, k) PROVE UNCHANGED <<db, kept>>
  BY <1>11 DEF GetConfig
<1>12. {-1, 0, 1, 600} \subseteq Int
  OBVIOUS
<1>13. CASE UNCHANGED sharedVars
  BY <1>1, <1>3, <1>10, <1>13
<1>14. ASSUME NEW c \in Redis, NEW p \in Prefix, NEW k \in CacheKey, NEW v \in CacheValue \cup {Nil},
              Set(c, p, k, v) \/ (\E ttl \in {-1, 0, 1} : SetWithTTL(c, p, k, v, ttl))
       PROVE KeptStays'
  BY <1>8, <1>12, <1>14 DEF Set
<1>15. ASSUME NEW c \in Redis, NEW k \in CacheKey,
              DeleteConfig(c, k) \/ (\E v \in CacheValue : SetConfig(c, k, v))
       PROVE KeptStays'
  BY <1>7, <1>14, <1>15 DEF SetConfig, DeleteConfig
<1>16. ASSUME NEW c \in Redis, NewRPCDiscoveryClient(c) \/ CloseStorage(c) PROVE UNCHANGED <<db, kept>>
  BY <1>5, <1>16 DEF NewRPCDiscoveryClient, CloseStorage
<1> HIDE DEF SharedInv
<1>17. ASSUME SharedNext PROVE KeptStays'
  BY <1>3, <1>4, <1>5, <1>6, <1>7, <1>9, <1>11, <1>14, <1>15, <1>16, <1>17 DEF SharedNext
<1> QED
  BY <1>1, <1>13, <1>17 DEF SharedInv

\* Nothing is in Redis.
LEMMA SharedInitInv == SharedInit => SharedInv
<1> SUFFICES ASSUME SharedInit PROVE SharedInv
  OBVIOUS
<1>1. SharedCacheTypeOK
  BY DEF SharedInit, SharedCacheTypeOK
<1>2. KeptStays
  BY DEF SharedInit, KeptStays
<1> QED
  BY <1>1, <1>2 DEF SharedInv

\* The inductive invariant: types, and no lifetime in Redis that the latest
\* Set of the key did not give, so that what was set for ever never vanishes.
THEOREM SharedInvAlways == SharedBehaviour => []SharedInv
<1>1. SharedInit => SharedInv
  BY SharedInitInv
<1>2. SharedInv /\ [SharedNext]_sharedVars => SharedInv'
  BY SharedInvStep
<1> QED
  BY <1>1, <1>2, PTL DEF SharedBehaviour

\* Every step is a step of the abstract caches or leaves them alone.
LEMMA SharedRefines ==
    ASSUME SharedInv, [SharedNext]_sharedVars
    PROVE  [Caches!Next]_(Caches!vars)
<1> USE DEF SharedInv
<1>1. ASSUME NEW p \in Prefix, NEW k \in CacheKey, NEW v \in CacheValue \cup {Nil}, NEW m \in BOOLEAN,
             db' = [db EXCEPT ![fullKey(p, k)] = [val |-> v, mortal |-> m]],
             kept' = IF m THEN kept \ {<<p, k>>} ELSE kept \cup {<<p, k>>}, UNCHANGED answer
      PROVE Caches!Next
  <2>1. View' = [View EXCEPT ![p] = [@ EXCEPT ![k] = v]]
    BY <1>1, OneEntry, ZenonT(60)
  <2>2. Caches!Put(p, k, v, m)
    BY <1>1, <2>1 DEF Caches!Put, View
  <2> QED
    BY <2>2 DEF Caches!Next
<1>2. ASSUME NEW p \in Prefix, NEW k \in CacheKey, db' = [db EXCEPT ![fullKey(p, k)] = Absent]
      PROVE View' = [View EXCEPT ![p] = [@ EXCEPT ![k] = Gone]]
  BY <1>2, OneEntry, Zenon
<1>3. ASSUME answer' = Error, UNCHANGED <<db, kept>> PROVE Caches!Next
  BY <1>3 DEF Caches!Next, Caches!Fail
<1>4. ASSUME NEW p \in Prefix, NEW k \in CacheKey, answer' = Found(p, k), UNCHANGED <<db, kept>>
      PROVE Caches!Next
  <2>1. Caches!Read(p, k)
    BY <1>4 DEF Caches!Read, Found
  <2> QED
    BY <2>1 DEF Caches!Next
<1>5. UNCHANGED <<db, kept, answer>> => UNCHANGED Caches!vars
  BY DEF Caches!vars
<1>6. ASSUME NEW c \in Redis, NEW opt \in Options, New(c, opt) PROVE UNCHANGED <<db, kept, answer>>
  BY <1>6 DEF New
<1>7. ASSUME NEW c \in Redis, NEW p \in Prefix \cup {<<>>}, NewSharedCache(c, p) \/ Close(c, p)
      PROVE UNCHANGED <<db, kept, answer>>
  BY <1>7 DEF NewSharedCache, Close
<1>8. ASSUME NEW c \in Redis, NEW p \in Prefix \cup {<<>>}, GetFails(c, p) PROVE Caches!Next
  BY <1>3, <1>8 DEF GetFails
<1>9. ASSUME NEW c \in Redis, NEW p \in Prefix, NEW k \in CacheKey, Get(c, p, k) PROVE Caches!Next
  BY <1>4, <1>9 DEF Get
<1>10. ASSUME NEW c \in Redis, NEW p \in Prefix, NEW k \in CacheKey, Delete(c, p, k) PROVE Caches!Next
  <2>1. /\ db' = [db EXCEPT ![fullKey(p, k)] = Absent]
        /\ kept' = kept \ {<<p, k>>} /\ UNCHANGED answer
    BY <1>10 DEF Delete
  <2>2. View' = [View EXCEPT ![p] = [@ EXCEPT ![k] = Gone]]
    BY <1>2, <2>1
  <2>3. Caches!Remove(p, k)
    BY <2>1, <2>2 DEF Caches!Remove, Caches!Put, View
  <2> QED
    BY <2>3 DEF Caches!Next
<1>11. ASSUME NEW c \in Redis, NEW p \in Prefix, NEW k \in CacheKey, NEW v \in CacheValue \cup {Nil},
              NEW ttl \in Int, SetWithTTL(c, p, k, v, ttl)
       PROVE Caches!Next
  <2>1. (ttl > 0) \in BOOLEAN
    OBVIOUS
  <2>2. /\ db' = [db EXCEPT ![fullKey(p, k)] = [val |-> v, mortal |-> ttl > 0]]
        /\ kept' = (IF ttl > 0 THEN kept \ {<<p, k>>} ELSE kept \cup {<<p, k>>}) /\ UNCHANGED answer
    BY <1>11 DEF SetWithTTL
  <2> QED
    BY <1>1, <2>1, <2>2
<1>12. ASSUME NEW c \in Redis, NEW k \in CacheKey, GetConfig(c, k) PROVE Caches!Next
  <2>1. \/ answer' = Error /\ UNCHANGED <<db, kept>>
        \/ answer' = Found(ConfigPrefix, k) /\ UNCHANGED <<db, kept>>
    BY <1>12 DEF GetConfig
  <2> QED
    BY <1>3, <1>4, <2>1
<1>13. ASSUME NEW x \in RedisKeys, Expires(x) PROVE Caches!Next
  <2>1. PICK p \in Prefix, k \in CacheKey : x = fullKey(p, k)
    BY DEF RedisKeys
  <2>2. /\ db' = [db EXCEPT ![fullKey(p, k)] = Absent] /\ db[fullKey(p, k)].mortal
        /\ UNCHANGED <<kept, answer>>
    BY <1>13, <2>1 DEF Expires
  <2>3. View' = [View EXCEPT ![p] = [@ EXCEPT ![k] = Gone]]
    BY <1>2, <2>2
  <2>4. <<p, k>> \notin kept
    BY <2>2 DEF KeptStays
  <2>5. Caches!Vanish(p, k)
    BY <2>2, <2>3, <2>4 DEF Caches!Vanish, View
  <2> QED
    BY <2>5 DEF Caches!Next
<1>14. UNCHANGED sharedVars => UNCHANGED <<db, kept, answer>>
  BY DEF sharedVars
<1> QED
  BY <1>5, <1>6, <1>7, <1>8, <1>9, <1>10, <1>11, <1>12, <1>13, <1>14
     DEF SharedNext, Set, SetConfig, DeleteConfig, NewRPCDiscoveryClient, CloseStorage

\* The caches that share a Redis implement independent maps: no operation on
\* one prefix is seen under another one, nothing but Set, Delete and the end
\* of its lifetime changes a value, and a value that was set without a
\* lifetime does not vanish, whatever lifetime its key had before
\* (shared.go:51-96).
THEOREM SharedImplementsCaches == SharedBehaviour => ImplementsCaches
<1>1. SharedInit => Caches!Init
  <2> SUFFICES ASSUME SharedInit PROVE Caches!Init
    OBVIOUS
  <2>1. \A p \in Prefix, k \in CacheKey : db[fullKey(p, k)] = Absent
    BY DEF SharedInit, RedisKeys
  <2>2. \A p \in Prefix, k \in CacheKey : db[fullKey(p, k)].val = Gone
    BY <2>1
  <2>3. View = [p \in Prefix |-> [k \in CacheKey |-> Gone]]
    BY <2>2, Zenon DEF View
  <2> QED
    BY <2>3 DEF SharedInit, Caches!Init, View
<1>2. SharedInv /\ [SharedNext]_sharedVars => [Caches!Next]_(Caches!vars)
  BY SharedRefines
<1> QED
  BY <1>1, <1>2, SharedInvAlways, PTL DEF SharedBehaviour, ImplementsCaches, Caches!Spec

----------------------------------------------------------------------------
(* The prober.                                                             *)

HIDE SharedConstants DEF Absent

\* A sequence over a set is one over a larger set.
LEMMA WiderSeq ==
    ASSUME NEW S, NEW T, S \subseteq T, NEW s \in Seq(S)
    PROVE  s \in Seq(T) /\ Len(s) \in Nat
<1>1. Len(s) \in Nat /\ s = [j \in 1..Len(s) |-> s[j]] /\ \A j \in 1..Len(s) : s[j] \in T
  OBVIOUS
<1> QED
  BY <1>1

\* Induction on the natural numbers, for a set.
LEMMA NatSetInduction ==
    ASSUME NEW T, 0 \in T, \A n \in Nat : n \in T => n + 1 \in T
    PROVE  Nat \subseteq T
<1> SUFFICES ASSUME Nat \ T # {} PROVE FALSE
  OBVIOUS
<1> DEFINE B == Nat \ T
           R == OpToRel(<, Nat)
<1>1. IsWellFoundedOn(R, Nat)
  BY NatLessThanWellFounded
<1>2. \A x, y \in Nat : x < y => <<x, y>> \in R
  BY DEF OpToRel
<1> HIDE DEF R
<1>3. PICK x \in B : \A y \in B : ~ (<<y, x>> \in R)
  BY <1>1, WFMin
<1>4. x # 0 /\ x \in Nat
  OBVIOUS
<1>5. PICK y \in Nat : x = y + 1
  <2>1. x - 1 \in Nat /\ x = (x - 1) + 1
    BY <1>4
  <2> QED
    BY <2>1
<1>6. y < x
  BY <1>5
<1>7. <<y, x>> \in R
  BY <1>2, <1>4, <1>6
<1>8. y \notin B
  BY <1>3, <1>7
<1> QED
  BY <1>5, <1>8

\* The partial sums of s are what Sum's recursive function says they are, and lie between
\* the multiples of a lower and an upper bound of s.
LEMMA SumBounds ==
    ASSUME NEW s \in Seq(Nat), NEW lo \in Nat, NEW hi \in Nat,
           \A k \in 1..Len(s) : lo <= s[k] /\ s[k] <= hi
    PROVE  Sum(s) \in Nat /\ lo * Len(s) <= Sum(s) /\ Sum(s) <= hi * Len(s)
<1> DEFINE Adds(f, m) == \A k \in 0..m : f[k] = IF k = 0 THEN 0 ELSE f[k - 1] + s[k]
           Bounded(f, m) == \A k \in 0..m : f[k] \in Nat /\ lo * k <= f[k] /\ f[k] <= hi * k
           T == {m \in Nat : m <= Len(s) => \E f : f = [k \in 0..m |-> f[k]] /\ Adds(f, m) /\ Bounded(f, m)}
<1>0. Len(s) \in Nat /\ \A k \in 1..Len(s) : s[k] \in Nat
  OBVIOUS
<1>1. 0 \in T
  <2> DEFINE f == [k \in 0..0 |-> 0]
  <2>1. f = [k \in 0..0 |-> f[k]] /\ f[0] = 0
    OBVIOUS
  <2>2. lo * 0 = 0 /\ hi * 0 = 0
    OBVIOUS
  <2> HIDE DEF f
  <2>3. \A k \in 0..0 : k = 0
    OBVIOUS
  <2>4. Adds(f, 0) /\ Bounded(f, 0)
    BY <2>1, <2>2, <2>3
  <2> QED
    BY <2>1, <2>4
<1>2. ASSUME NEW n \in Nat, n \in T PROVE n + 1 \in T
  <2> SUFFICES ASSUME n + 1 <= Len(s)
               PROVE  \E f : f = [k \in 0..(n + 1) |-> f[k]] /\ Adds(f, n + 1) /\ Bounded(f, n + 1)
    OBVIOUS
  <2>1. PICK f : Adds(f, n) /\ Bounded(f, n)
    <3>1. n <= Len(s)
      BY <1>0
    <3> HIDE DEF Adds, Bounded
    <3> QED
      BY <1>2, <3>1
  <2>2. s[n + 1] \in Nat /\ lo <= s[n + 1] /\ s[n + 1] <= hi
    BY <1>0
  <2> DEFINE g == [k \in 0..(n + 1) |-> IF k = n + 1 THEN f[n] + s[n + 1] ELSE f[k]]
  <2>3. g = [k \in 0..(n + 1) |-> g[k]] /\ g[n + 1] = f[n] + s[n + 1] /\ \A k \in 0..n : g[k] = f[k]
    OBVIOUS
  <2> HIDE DEF g
  <2>4. f[n] \in Nat /\ lo * n <= f[n] /\ f[n] <= hi * n
    BY <2>1
  <2>5. lo * (n + 1) = lo * n + lo /\ hi * (n + 1) = hi * n + hi /\ lo * n \in Nat /\ hi * n \in Nat
    OBVIOUS
  <2>6. g[n + 1] \in Nat /\ lo * (n + 1) <= g[n + 1] /\ g[n + 1] <= hi * (n + 1)
    <3>1. PICK a \in Nat, b \in Nat : a = lo * n /\ b = hi * n
      BY <2>5
    <3>2. PICK e \in Nat, x \in Nat : e = f[n] /\ x = s[n + 1] /\ g[n + 1] = e + x
      BY <2>2, <2>3, <2>4
    <3>3. lo * (n + 1) = a + lo /\ hi * (n + 1) = b + hi /\ a <= e /\ e <= b /\ lo <= x /\ x <= hi
      BY <2>2, <2>4, <2>5, <3>1, <3>2
    <3>4. e + x \in Nat /\ a + lo <= e + x /\ e + x <= b + hi
      BY <3>3
    <3> QED
      BY ONLY <3>2, <3>3, <3>4
  <2>7. \A k \in 0..(n + 1) : k = n + 1 \/ k \in 0..n
    OBVIOUS
  <2>8. Bounded(g, n + 1)
    BY <2>1, <2>3, <2>6, <2>7
  <2>9. Adds(g, n + 1)
    <3> SUFFICES ASSUME NEW k \in 0..(n + 1) PROVE g[k] = IF k = 0 THEN 0 ELSE g[k - 1] + s[k]
      OBVIOUS
    <3>1. CASE k = n + 1
      <4>1. k # 0 /\ k - 1 = n /\ n \in 0..n
        BY <3>1
      <4> QED
        BY <2>3, <3>1, <4>1
    <3>2. CASE k \in 0..n
      <4>1. k # 0 => k - 1 \in 0..n
        BY <3>2
      <4> QED
        BY <2>1, <2>3, <3>2, <4>1
    <3> QED
      BY <2>7, <3>1, <3>2
  <2> QED
    BY <2>3, <2>8, <2>9
<1>3. Nat \subseteq T
  <2> HIDE DEF T
  <2> QED
    BY <1>1, <1>2, NatSetInduction
<1>4. Len(s) \in T
  BY <1>0, <1>3
<1>5. PICK f : f = [k \in 0..Len(s) |-> f[k]] /\ Adds(f, Len(s)) /\ Bounded(f, Len(s))
  BY <1>0, <1>4
<1> DEFINE D(h) == [k \in 0..Len(s) |-> IF k = 0 THEN 0 ELSE h[k - 1] + s[k]]
           u == CHOOSE h : h = D(h)
<1>6. f = D(f)
  BY <1>5
<1>7. u = D(u)
  BY <1>6
<1>8. Sum(s) = u[Len(s)]
  BY DEF Sum
<1> HIDE DEF u
<1>9. \A k \in 0..Len(s) : u[k] = IF k = 0 THEN 0 ELSE u[k - 1] + s[k]
  BY <1>7
\* There is one function that does.
<1>10. u[Len(s)] = f[Len(s)]
  <2> DEFINE U == {m \in Nat : m <= Len(s) => u[m] = f[m]}
  <2>1. 0 \in U
    <3>1. 0 \in 0..Len(s)
      BY <1>0
    <3>2. f[0] = 0 /\ u[0] = 0
      BY <1>5, <1>9, <3>1
    <3> QED
      BY <3>2
  <2>2. ASSUME NEW n \in Nat, n \in U PROVE n + 1 \in U
    <3> SUFFICES ASSUME n + 1 <= Len(s) PROVE u[n + 1] = f[n + 1]
      OBVIOUS
    <3>1. u[n] = f[n]
      BY <1>0, <2>2
    <3>2. n + 1 \in 0..Len(s) /\ n + 1 # 0 /\ (n + 1) - 1 = n
      BY <1>0
    <3>3. f[n + 1] = f[(n + 1) - 1] + s[n + 1]
      BY <1>5, <3>2
    <3>4. u[n + 1] = u[(n + 1) - 1] + s[n + 1]
      BY <1>9, <3>2
    <3> QED
      BY <3>1, <3>2, <3>3, <3>4
  <2>3. Nat \subseteq U
    <3> HIDE DEF U
    <3> QED
      BY <2>1, <2>2, NatSetInduction
  <2>4. Len(s) \in U
    BY <1>0, <2>3
  <2> QED
    BY <1>0, <2>4
<1>11. Bounded(f, Len(s)) /\ Len(s) \in 0..Len(s)
  BY <1>0, <1>5
<1> QED
  BY <1>8, <1>10, <1>11

\* A sequence of numbers that is not empty has a least and a greatest element.
LEMMA Extremes ==
    ASSUME NEW s \in Seq(Nat), s # <<>>
    PROVE  \E x, y \in 1..Len(s) : \A k \in 1..Len(s) : s[x] <= s[k] /\ s[k] <= s[y]
<1>1. Len(s) \in Nat \ {0} /\ \A k \in 1..Len(s) : s[k] \in Nat
  OBVIOUS
<1> DEFINE Ends(m) == \E x, y \in 1..m : \A k \in 1..m : s[x] <= s[k] /\ s[k] <= s[y]
           T == {m \in Nat : m <= Len(s) /\ m # 0 => Ends(m)}
<1>2. 0 \in T
  OBVIOUS
<1>3. ASSUME NEW n \in Nat, n \in T PROVE n + 1 \in T
  <2> HIDE DEF Ends
  <2> SUFFICES ASSUME n + 1 <= Len(s) PROVE Ends(n + 1)
    OBVIOUS
  <2>0. \A k \in 1..(n + 1) : s[k] \in Nat /\ (k = n + 1 \/ k \in 1..n)
    BY <1>1
  <2>1. CASE n = 0
    <3>1. \A k \in 1..(n + 1) : k = 1
      BY <2>1
    <3>2. 1 \in 1..(n + 1)
      BY <2>1
    <3>3. \A k \in 1..(n + 1) : s[1] <= s[k] /\ s[k] <= s[1]
      BY <2>0, <3>1, <3>2, SMTT(60)
    <3> QED
      BY <3>2, <3>3 DEF Ends
  <2>2. CASE n # 0
    <3>1. PICK x, y \in 1..n : \A k \in 1..n : s[x] <= s[k] /\ s[k] <= s[y]
      <4>1. n <= Len(s)
        BY <1>1
      <4>2. Ends(n)
        BY <1>3, <2>2, <4>1
      <4> QED
        BY <4>2 DEF Ends
    <3>2. PICK v \in {x, n + 1} : s[v] <= s[x] /\ s[v] <= s[n + 1]
      BY <2>0
    <3>3. PICK w \in {y, n + 1} : s[y] <= s[w] /\ s[n + 1] <= s[w]
      BY <2>0
    <3>4. v \in 1..(n + 1) /\ w \in 1..(n + 1) /\ x \in 1..(n + 1) /\ y \in 1..(n + 1)
      OBVIOUS
    <3>5. \A k \in 1..(n + 1) : s[v] <= s[k] /\ s[k] <= s[w]
      <4>1. /\ s[v] \in Nat /\ s[w] \in Nat /\ s[x] \in Nat /\ s[y] \in Nat
        BY <2>0, <3>4
      <4>2. ASSUME NEW k \in 1..n PROVE s[v] <= s[k] /\ s[k] <= s[w]
        <5>1. s[k] \in Nat /\ s[x] <= s[k] /\ s[k] <= s[y]
          BY <1>1, <3>1
        <5>2. s[v] <= s[x] /\ s[y] <= s[w]
          BY <3>2, <3>3
        <5>3. \A a, b, c \in Nat : a <= b /\ b <= c => a <= c
          OBVIOUS
        <5> QED
          BY <4>1, <5>1, <5>2, <5>3, Zenon
      <4> QED
        BY <2>0, <3>2, <3>3, <4>2
    <3> QED
      BY <3>4, <3>5 DEF Ends
  <2> QED
    BY <2>1, <2>2
<1>4. Nat \subseteq T
  <2> HIDE DEF T
  <2> QED
    BY <1>2, <1>3, NatSetInduction
<1>5. Len(s) \in T
  BY <1>1, <1>4
<1> QED
  BY <1>1, <1>5

\* What integer division rounds off.
LEMMA Quotient ==
    ASSUME NEW a \in Nat, NEW m \in Nat \ {0}
    PROVE  /\ a \div m \in Nat /\ (a \div m) * m <= a /\ a < ((a \div m) + 1) * m
OBVIOUS

\* A factor can be cancelled.
LEMMA Cancel ==
    ASSUME NEW m \in Nat \ {0}, NEW p \in Nat, NEW q \in Nat, p * m < (q + 1) * m
    PROVE  p <= q
OBVIOUS

\* The mean of a sequence lies between its bounds.
LEMMA MeanFits ==
    ASSUME NEW s \in Seq(Nat), s # <<>>, NEW lo \in Nat, NEW hi \in Nat,
           \A k \in 1..Len(s) : lo <= s[k] /\ s[k] <= hi
    PROVE  Sum(s) \div Len(s) \in Nat /\ lo <= Sum(s) \div Len(s) /\ Sum(s) \div Len(s) <= hi
<1>1. PICK n \in Nat \ {0} : n = Len(s)
  OBVIOUS
<1>2. PICK t \in Nat : t = Sum(s) /\ lo * n <= t /\ t <= hi * n
  BY <1>1, SumBounds
<1>3. PICK q \in Nat : q = t \div n /\ q * n <= t /\ t < (q + 1) * n
  BY Quotient
<1>4. q <= hi
  <2>1. q * n < (hi + 1) * n
    <3>1. (hi + 1) * n = hi * n + n /\ hi * n \in Nat /\ q * n \in Nat
      OBVIOUS
    <3>2. PICK a \in Nat, b \in Nat : a = hi * n /\ b = q * n
      BY <3>1
    <3>3. b <= t /\ t <= a /\ (hi + 1) * n = a + n
      BY <1>2, <1>3, <3>1, <3>2
    <3>4. b < a + n
      BY ONLY <3>3
    <3> QED
      BY <3>2, <3>3, <3>4
  <2> QED
    BY <2>1, Cancel
<1>5. lo <= q
  <2>1. lo * n < (q + 1) * n
    <3>1. lo * n \in Nat /\ (q + 1) * n \in Nat
      OBVIOUS
    <3> QED
      BY ONLY <1>2, <1>3, <3>1, SMTT(60)
  <2> QED
    BY <2>1, Cancel
<1> QED
  BY <1>1, <1>2, <1>3, <1>4, <1>5

\* The mean of the differences of neighbours is not above the largest one.
LEMMA JitterFits ==
    ASSUME NEW s \in Seq(Nat), NEW lo \in Nat, NEW hi \in Nat, lo <= hi,
           \A k \in 1..Len(s) : lo <= s[k] /\ s[k] <= hi
    PROVE  jitterDuration(s) \in Nat /\ jitterDuration(s) <= hi - lo
<1>0. Len(s) \in Nat /\ hi - lo \in Nat
  OBVIOUS
<1>1. CASE Len(s) < 2
  BY <1>0, <1>1 DEF jitterDuration
<1>2. CASE Len(s) >= 2
  <2> DEFINE d == [k \in 1..(Len(s) - 1) |->
                    IF s[k + 1] >= s[k] THEN s[k + 1] - s[k] ELSE s[k] - s[k + 1]]
  <2>1. Len(s) - 1 \in Nat \ {0}
    BY <1>0, <1>2
  <2>2. ASSUME NEW k \in 1..(Len(s) - 1) PROVE d[k] \in Nat /\ d[k] <= hi - lo
    <3>1. k \in 1..Len(s) /\ k + 1 \in 1..Len(s)
      BY <1>0
    <3>2. PICK x \in Nat, y \in Nat : x = s[k] /\ y = s[k + 1]
      BY <3>1
    <3>3. lo <= x /\ x <= hi /\ lo <= y /\ y <= hi
      BY <3>1, <3>2
    <3>4. d[k] = IF y >= x THEN y - x ELSE x - y
      BY <3>2
    <3> QED
      BY ONLY <3>3, <3>4
  <2>3. jitterDuration(s) = Sum(d) \div (Len(s) - 1)
    <3>1. ~(Len(s) < 2)
      BY <1>0, <1>2
    <3> QED
      BY <3>1, Zenon DEF jitterDuration
  <2>4. DOMAIN d = 1..(Len(s) - 1) /\ d = [k \in 1..(Len(s) - 1) |-> d[k]]
    OBVIOUS
  <2> HIDE DEF d
  <2>5. d \in Seq(Nat) /\ Len(d) = Len(s) - 1 /\ d # <<>>
    <3>1. PICK n \in Nat \ {0} : n = Len(s) - 1
      BY <2>1
    <3>2. d = [k \in 1..n |-> d[k]] /\ \A k \in 1..n : d[k] \in Nat
      BY <2>2, <2>4, <3>1
    <3>3. d \in [1..n -> Nat]
      BY <3>2
    <3>4. d \in Seq(Nat) /\ Len(d) = n
      BY ONLY <3>3
    <3> QED
      BY <3>1, <3>4
  <2>6. \A k \in 1..Len(d) : 0 <= d[k] /\ d[k] <= hi - lo
    BY <2>2, <2>5, SMTT(60)
  <2>7. Sum(d) \div Len(d) \in Nat /\ Sum(d) \div Len(d) <= hi - lo
    BY <1>0, <2>5, <2>6, MeanFits
  <2> QED
    BY <2>3, <2>5, <2>7
<1> QED
  BY <1>0, <1>1, <1>2

USE ProberConstants

\* The count is inductive together with the types it speaks of and with the
\* bound of the loop variable where the body of the loop is entered.
CountInv ==
    /\ at \in {"idle", "loop", "pause", "request", "build", "done"}
    /\ i \in 0..ProbeCount
    /\ rtts \in Seq(Durations)
    /\ failures \in Nat
    /\ at \in {"pause", "request"} => i < ProbeCount
    /\ EveryProbeCounted

\* Every step of Probe keeps the count: leaving the loop early charges what is
\* left of it as failures, an answer or a last failed candidate ends one
\* attempt.
LEMMA CountStep ==
    ASSUME CountInv, ProbeNext
    PROVE  CountInv'
<1> USE DEF CountInv, EveryProbeCounted
<1>1. CASE Probe
  BY <1>1 DEF Probe
<1>2. CASE Expire
  BY <1>2 DEF Expire
<1>3. CASE LoopHead
  BY <1>3 DEF LoopHead
<1>4. CASE PauseExpires
  BY <1>4 DEF PauseExpires
<1>5. CASE PauseElapses
  BY <1>5 DEF PauseElapses
<1>6. ASSUME NEW d \in Durations, RequestSucceeds(d) PROVE CountInv'
  <2>1. rtts' \in Seq(Durations) /\ Len(rtts') = Len(rtts) + 1
    BY <1>6 DEF RequestSucceeds
  <2> QED
    BY <1>6, <2>1 DEF RequestSucceeds
<1>7. CASE RequestFails
  BY <1>7 DEF RequestFails
<1>8. CASE BuildResult
  BY <1>8 DEF BuildResult
<1> QED
  BY <1>1, <1>2, <1>3, <1>4, <1>5, <1>6, <1>7, <1>8 DEF ProbeNext, ProbeStep

\* EveryProbeCounted is an invariant of Probe, wherever the deadline is
\* noticed (net_prober.go:72-101).
THEOREM EveryProbeCountedAlways == ProbeBehaviour => []EveryProbeCounted
<1>1. ProbeInit => CountInv
  BY DEF ProbeInit, CountInv, EveryProbeCounted
<1>2. CountInv /\ [ProbeNext]_proberVars => CountInv'
  <2>1. CountInv /\ UNCHANGED proberVars => CountInv'
    BY DEF CountInv, EveryProbeCounted, proberVars
  <2> QED
    BY <2>1, CountStep
<1>3. CountInv => EveryProbeCounted
  BY DEF CountInv
<1> QED
  BY <1>1, <1>2, <1>3, PTL DEF ProbeBehaviour

\* buildResult with at least one answer.
LEMMA ResultFits ==
    ASSUME NEW s \in Seq(Nat), s # <<>>, NEW a, a = averageDuration(s) \div Ms
    PROVE  /\ a \in Nat /\ jitterDuration(s) \div Ms \in Nat
           /\ \E lo, hi \in {s[k] : k \in DOMAIN s} :
                /\ \A k \in DOMAIN s : lo <= s[k] /\ s[k] <= hi
                /\ lo < (a + 1) * Ms /\ a * Ms <= hi
                /\ (jitterDuration(s) \div Ms) * Ms <= hi - lo
<1>1. PICK x, y \in 1..Len(s) : \A k \in 1..Len(s) : s[x] <= s[k] /\ s[k] <= s[y]
  BY Extremes
<1>2. PICK lo \in Nat, hi \in Nat : lo = s[x] /\ hi = s[y]
  OBVIOUS
<1>3. (\A k \in 1..Len(s) : lo <= s[k] /\ s[k] <= hi) /\ lo <= hi
  BY <1>1, <1>2
<1>4. PICK q \in Nat : q = averageDuration(s) /\ lo <= q /\ q <= hi
  <2>1. averageDuration(s) = Sum(s) \div Len(s)
    BY Zenon DEF averageDuration
  <2> QED
    BY <1>3, <2>1, MeanFits
<1>5. PICK j \in Nat : j = jitterDuration(s) /\ j <= hi - lo
  BY <1>3, JitterFits
<1>6. a \in Nat /\ a * Ms <= q /\ q < (a + 1) * Ms
  BY <1>4, Quotient
<1>7. PICK e \in Nat : e = j \div Ms /\ e * Ms <= j
  BY Quotient
<1>8. lo < (a + 1) * Ms /\ a * Ms <= hi /\ e * Ms <= hi - lo
  <2>1. PICK u \in Nat, v \in Nat, w \in Nat : u = (a + 1) * Ms /\ v = a * Ms /\ w = e * Ms
    BY <1>6
  <2>2. lo < u /\ v <= hi /\ w <= hi - lo
    <3>1. v <= q /\ q < u /\ w <= j
      BY <1>6, <1>7, <2>1
    <3> QED
      BY ONLY <1>4, <1>5, <3>1, SMTT(60)
  <2> QED
    BY ONLY <2>1, <2>2
<1>9. DOMAIN s = 1..Len(s) /\ lo \in {s[k] : k \in DOMAIN s} /\ hi \in {s[k] : k \in DOMAIN s}
  BY <1>2, SMTT(60)
<1> QED
  BY <1>3, <1>5, <1>6, <1>7, <1>8, <1>9, Zenon

\* The count, the rest of the types, and the metric once there is one.
ProbeInv ==
    /\ CountInv
    /\ url \in 1..URLs /\ expired \in BOOLEAN
    /\ metric \in [reachable : BOOLEAN, rtt : Nat, jitter : Nat, lost : 0..ProbeCount]
    /\ MetricFits

\* Only buildResult changes the metric, and only it ends Probe.
LEMMA ProbeStepInv ==
    ASSUME ProbeInv, ProbeNext
    PROVE  ProbeInv'
<1> USE DEF ProbeInv
<1>0. CountInv'
  BY CountStep
<1>1. ASSUME ~BuildResult PROVE ProbeInv'
  <2>1. UNCHANGED metric
    BY <1>1 DEF ProbeNext, ProbeStep, Probe, Expire, LoopHead, PauseExpires, PauseElapses, RequestSucceeds, RequestFails
  <2>2. at' # "done"
    BY <1>1 DEF ProbeNext, ProbeStep, Probe, Expire, LoopHead, PauseExpires, PauseElapses, RequestSucceeds, RequestFails
  <2>3. url' \in 1..URLs
    BY <1>1 DEF ProbeNext, ProbeStep, Probe, Expire, LoopHead, PauseExpires, PauseElapses, RequestSucceeds, RequestFails
  <2>4. expired' \in BOOLEAN
    BY <1>1 DEF ProbeNext, ProbeStep, Probe, Expire, LoopHead, PauseExpires, PauseElapses, RequestSucceeds, RequestFails
  <2> QED
    BY <1>0, <2>1, <2>2, <2>3, <2>4 DEF MetricFits
<1>2. CASE BuildResult
  <2>0. /\ at = "build" /\ at' = "done" /\ UNCHANGED <<i, url, expired, rtts, failures>>
        /\ metric' = IF rtts = <<>>
                 THEN [reachable |-> FALSE, rtt |-> 5000, jitter |-> 5001, lost |-> ProbeCount]
                 ELSE [reachable |-> TRUE,
                       rtt |-> IF averageDuration(rtts) \div Ms = 0 THEN 1 ELSE averageDuration(rtts) \div Ms,
                       jitter |-> jitterDuration(rtts) \div Ms, lost |-> failures]
    <3> DEFINE Built(ms) ==
            IF rtts = <<>>
            THEN [reachable |-> FALSE, rtt |-> 5000, jitter |-> 5001, lost |-> ProbeCount]
            ELSE [reachable |-> TRUE, rtt |-> IF ms = 0 THEN 1 ELSE ms,
                  jitter |-> jitterDuration(rtts) \div Ms, lost |-> failures]
    <3>1. /\ at = "build" /\ at' = "done" /\ UNCHANGED <<i, url, expired, rtts, failures>>
          /\ metric' = Built(averageDuration(rtts) \div Ms)
      BY ONLY <1>2 DEF BuildResult
    <3> QED
      BY ONLY <3>1
  <2>1. Len(rtts) + failures = ProbeCount /\ rtts \in Seq(Durations) /\ failures \in Nat
    BY <2>0 DEF CountInv, EveryProbeCounted
  <2>2. rtts \in Seq(Nat) /\ Len(rtts) \in Nat
    BY <2>1, WiderSeq
  <2>3. CASE rtts = <<>>
    <3>1. metric' = [reachable |-> FALSE, rtt |-> 5000, jitter |-> 5001, lost |-> ProbeCount]
      BY <2>0, <2>3
    <3> QED
      BY <1>0, <2>0, <3>1 DEF MetricFits
  <2>4. CASE rtts # <<>>
    <3>1. PICK a, e : a = averageDuration(rtts) \div Ms /\ e = jitterDuration(rtts) \div Ms
      OBVIOUS
    <3>2. metric' = [reachable |-> TRUE, rtt |-> IF a = 0 THEN 1 ELSE a, jitter |-> e, lost |-> failures]
      BY <2>0, <2>4, <3>1
    <3>3. /\ a \in Nat /\ e \in Nat
          /\ \E lo, hi \in {rtts[k] : k \in DOMAIN rtts} :
                /\ \A k \in DOMAIN rtts : lo <= rtts[k] /\ rtts[k] <= hi
                /\ lo < (a + 1) * Ms /\ a * Ms <= hi /\ e * Ms <= hi - lo
      BY <2>2, <2>4, <3>1, ResultFits
    <3>4. Len(rtts) > 0 /\ failures \in 0..ProbeCount /\ failures < ProbeCount
      BY <2>1, <2>2, <2>4
    <3>5. PICK r \in Nat : r = IF a = 0 THEN 1 ELSE a
      BY <3>3
    <3>6. metric' = [reachable |-> TRUE, rtt |-> r, jitter |-> e, lost |-> failures]
      BY <3>2, <3>5
    <3>7. metric' \in [reachable : BOOLEAN, rtt : Nat, jitter : Nat, lost : 0..ProbeCount]
      <4>1. TRUE \in BOOLEAN
        OBVIOUS
      <4> QED
        BY <3>3, <3>4, <3>6, <4>1
    <3>8. PICK lo, hi \in {rtts[k] : k \in DOMAIN rtts} :
                /\ \A k \in DOMAIN rtts : lo <= rtts[k] /\ rtts[k] <= hi
                /\ lo < (a + 1) * Ms /\ a * Ms <= hi /\ e * Ms <= hi - lo
      BY <3>3
    <3>9. lo \in Nat /\ hi \in Nat
      BY <2>2
    <3>10. r >= 1 /\ lo < (r + 1) * Ms /\ (r = 1 \/ r * Ms <= hi)
      <4>1. CASE a = 0
        <5>1. r = 1 /\ (a + 1) * Ms = Ms /\ (r + 1) * Ms = Ms + Ms
          BY <3>5, <4>1
        <5> QED
          BY <3>8, <3>9, <5>1
      <4>2. CASE a # 0
        BY <3>3, <3>5, <3>8, <4>2
      <4> QED
        BY <4>1, <4>2
    <3>11. MetricFits'
      <4>1. metric'.reachable /\ metric'.lost < ProbeCount /\ metric'.rtt = r /\ metric'.jitter = e
        BY <3>4, <3>6
      <4>2. /\ lo \in {rtts'[k] : k \in DOMAIN rtts'} /\ hi \in {rtts'[k] : k \in DOMAIN rtts'}
            /\ \A k \in DOMAIN rtts' : lo <= rtts'[k] /\ rtts'[k] <= hi
        BY <2>0, <3>8
      <4> QED
        BY <3>8, <3>10, <4>1, <4>2, Zenon DEF MetricFits
    <3> QED
      BY <1>0, <2>0, <3>7, <3>11
  <2> QED
    BY <2>3, <2>4
<1> QED
  BY <1>1, <1>2

LEMMA ProbeInitInv == ProbeInit => ProbeInv
<1> SUFFICES ASSUME ProbeInit PROVE ProbeInv
  OBVIOUS
<1>1. CountInv
  BY DEF ProbeInit, CountInv, EveryProbeCounted
<1>2. metric \in [reachable : BOOLEAN, rtt : Nat, jitter : Nat, lost : 0..ProbeCount]
  BY DEF ProbeInit, NoMetric
<1>3. url \in 1..URLs /\ MetricFits
  BY DEF ProbeInit, MetricFits
<1>4. expired \in BOOLEAN
  BY DEF ProbeInit
<1> QED
  BY <1>1, <1>2, <1>3, <1>4 DEF ProbeInv

LEMMA ProbeStutter == ProbeInv /\ UNCHANGED proberVars => ProbeInv'
<1> SUFFICES ASSUME ProbeInv, UNCHANGED proberVars PROVE ProbeInv'
  OBVIOUS
<1>1. UNCHANGED <<at, i, url, expired, rtts, failures, metric>>
  BY DEF proberVars
<1>2. CountInv'
  BY <1>1 DEF ProbeInv, CountInv, EveryProbeCounted
<1>3. MetricFits'
  BY <1>1, Zenon DEF ProbeInv, MetricFits
<1> QED
  BY <1>1, <1>2, <1>3 DEF ProbeInv

LEMMA ProbeInvFacts == ProbeInv => ProbeTypeOK /\ MetricFits
<1> SUFFICES ASSUME ProbeInv PROVE ProbeTypeOK
  BY DEF ProbeInv
<1>1. failures \in 0..ProbeCount
  <2>1. Len(rtts) \in Nat
    BY DEF ProbeInv, CountInv
  <2> QED
    BY <2>1 DEF ProbeInv, CountInv, EveryProbeCounted
<1> QED
  BY <1>1 DEF ProbeInv, CountInv, ProbeTypeOK

\* The types of Probe; the loop variable never passes ProbeCount and the failures are
\* never more than the attempts (net_prober.go:72-101).
THEOREM ProbeTypeCorrect == ProbeBehaviour => []ProbeTypeOK
<1>1. ProbeInv /\ [ProbeNext]_proberVars => ProbeInv'
  BY ProbeStepInv, ProbeStutter
<1> QED
  BY <1>1, ProbeInitInv, ProbeInvFacts, PTL DEF ProbeBehaviour

\* The metric of buildResult (net_prober.go) describes the round trips, for
\* every number of attempts and every duration of an answer.
THEOREM MetricFitsAlways == ProbeBehaviour => []MetricFits
<1>1. ProbeInv /\ [ProbeNext]_proberVars => ProbeInv'
  BY ProbeStepInv, ProbeStutter
<1> QED
  BY <1>1, ProbeInitInv, ProbeInvFacts, PTL DEF ProbeBehaviour

----------------------------------------------------------------------------
(* The discovery server.  The factory is one of DiscoFactory whose         *)
(* goroutines are the connections, so that its invariant holds here.       *)

HIDE ProberConstants

\* The key under which a command looks for its client, and the client of an
\* instance.
Target(c) == <<c, IF cmd[c].op = "lookup" THEN "web" ELSE Named(cmd[c].name)>>
KeyOf(r) == <<r.conn, Named(r.name)>>

DiscoTypes ==
    /\ cmd \in [ConnId -> Command \cup {NoCmd} \cup [op : {"remove"}, name : SvcName, addr : Addr]]
    /\ online \subseteq ConnId /\ received \in 0..MaxCmds
    /\ registry \subseteq [name : SvcName, addr : Addr, conn : ConnId, cli : 1..clients]
    /\ ended \subseteq ConnId \X SvcName

\* A goroutine uses the entries of its own connection; with its client in hand
\* it has the one in the table, which nobody else changes.
Serving ==
    \A c \in ConnId : cmd[c] # NoCmd =>
        /\ handler[c].key = Target(c)
        /\ handler[c].pc = "rest" => handler[c].cli = serviceStorage[Target(c)] /\ handler[c].cli # 0
Ending == \A c \in ConnId : cmd[c].op = "remove" => <<c, cmd[c].name>> \in ended
\* The client of a registered instance is the one in the table, or its
\* connection has deregistered the name.
Alive == \A r \in registry : serviceStorage[KeyOf(r)] = r.cli \/ KeyOf(r) \in ended

DiscoInv == FactoryInv /\ DiscoTypes /\ Serving /\ Ending /\ Alive

\* The commands, and what they have in them.
LEMMA CommandFacts ==
    ASSUME DiscoTypes, NEW c \in ConnId
    PROVE  /\ cmd[c] # NoCmd <=> cmd[c].op # "none"
           /\ cmd[c].op \in {"register", "deregister", "remove"} =>
                cmd[c].name \in SvcName /\ cmd[c].addr \in Addr
           /\ cmd[c].op \in {"none", "register", "deregister", "remove", "lookup"}
           /\ cmd[c].op = "deregister" =>
                cmd[c] = [op |-> "deregister", name |-> cmd[c].name, addr |-> cmd[c].addr]
           /\ Target(c) \in Keys
<1>1. cmd[c] \in Command \cup {NoCmd} \cup [op : {"remove"}, name : SvcName, addr : Addr]
  BY DEF DiscoTypes
<1>0. NoCmd.op = "none" /\ NoCmd.name = Unnamed /\ Unnamed \in SvcName /\ "web" \in SvcName
  BY ServerConstants DEF NoCmd
<1>2. cmd[c].name \in SvcName
  BY <1>0, <1>1 DEF Command, Register, Deregister
<1>3. Target(c) \in Keys
  BY <1>0, <1>2 DEF Target, Named, Keys
<1>4. /\ cmd[c] # NoCmd <=> cmd[c].op # "none"
      /\ cmd[c].op \in {"none", "register", "deregister", "remove", "lookup"}
  BY <1>0, <1>1 DEF Command, Register, Deregister
<1>5. cmd[c].op \in {"register", "deregister", "remove"} => cmd[c].addr \in Addr
  BY <1>0, <1>1 DEF Command, Register, Deregister
<1>6. cmd[c].op = "deregister" =>
        cmd[c] = [op |-> "deregister", name |-> cmd[c].name, addr |-> cmd[c].addr]
  BY <1>0, <1>1 DEF Command, Register, Deregister
<1> QED
  BY <1>2, <1>3, <1>4, <1>5, <1>6

\* A step of the server is a step of its factory, or leaves the factory alone.
LEMMA DiscoUsesFactory ==
    ASSUME DiscoTypes, [DiscoNext]_discoVars
    PROVE  [FactoryNext]_factoryVars
<1>1. ConnId \subseteq Handler /\ {Unnamed, "web"} \subseteq SvcName
  BY ServerConstants
<1>2. ASSUME NEW c \in ConnId, NEW m \in Command, OnCmdDiscovery(c, m) PROVE FactoryNext
  <2>1. m.name \in SvcName
    BY <1>1 DEF Command, Register, Deregister
  <2>2. <<c, IF m.op = "lookup" THEN "web" ELSE Named(m.name)>> \in Keys
    BY <1>1, <2>1 DEF Keys, Named
  <2> QED
    BY <1>1, <1>2, <2>2 DEF OnCmdDiscovery, FactoryNext
<1>3. ASSUME NEW c \in ConnId, GetsClient(c) \/ GetsNone(c) PROVE FactoryNext
  BY <1>1, <1>3 DEF GetsClient, GetsNone, FactoryNext
<1>4. ASSUME NEW c \in ConnId, RemoveClient(c) PROVE FactoryNext
  <2>1. cmd[c].name \in SvcName
    BY <1>4, CommandFacts DEF RemoveClient, Ready
  <2>2. <<c, cmd[c].name>> \in Keys
    BY <2>1 DEF Keys
  <2>3. RemoveDiscoClient(c, <<c, cmd[c].name>>)
    BY <1>4 DEF RemoveClient
  <2> QED
    BY <1>1, <2>2, <2>3, Zenon DEF FactoryNext
<1>5. ASSUME NEW c \in ConnId, OnRegister(c) \/ OnClose(c) \/ OnDeregister(c) \/ LookupOrFail(c)
      PROVE UNCHANGED factoryVars
  BY <1>5 DEF OnRegister, OnClose, OnDeregister, LookupOrFail
<1>6. ASSUME NEW r \in registry, HeartbeatsEnd(r) PROVE UNCHANGED factoryVars
  BY <1>6 DEF HeartbeatsEnd
<1>7. UNCHANGED discoVars => UNCHANGED factoryVars
  BY DEF discoVars
<1> QED
  BY <1>2, <1>3, <1>4, <1>5, <1>6, <1>7 DEF DiscoNext

\* Every step keeps the types.
LEMMA DiscoTypesStep ==
    ASSUME Types, DiscoTypes, Types', Serving, [DiscoNext]_discoVars
    PROVE  DiscoTypes'
<1> USE DEF DiscoTypes
<1> DEFINE C == Command \cup {NoCmd} \cup [op : {"remove"}, name : SvcName, addr : Addr]
<1>1. clients \in Nat /\ clients' \in Nat
  BY FactoryConstants DEF Types
<1>2. ASSUME NEW c \in ConnId, NEW m \in Command, OnCmdDiscovery(c, m) PROVE DiscoTypes'
  <2>1. received' \in 0..MaxCmds /\ UNCHANGED <<clients, online, registry, ended>>
    BY <1>2, ServerConstants DEF OnCmdDiscovery, GetDiscoClient
  <2>2. cmd' = [cmd EXCEPT ![c] = m]
    BY <1>2 DEF OnCmdDiscovery
  <2>3. cmd' \in [ConnId -> C]
    BY <2>2
  <2> QED
    BY <2>1, <2>3
<1>3. ASSUME NEW c \in ConnId, GetsClient(c) PROVE DiscoTypes'
  <2>1. clients <= clients' /\ UNCHANGED <<cmd, online, received, registry, ended>>
    BY <1>1, <1>3 DEF GetsClient, NewClient, InsertClient
  <2>2. registry' \subseteq [name : SvcName, addr : Addr, conn : ConnId, cli : 1..clients']
    BY <1>1, <2>1
  <2> QED
    BY <2>1, <2>2
<1>4. ASSUME NEW c \in ConnId, GetsNone(c) PROVE DiscoTypes'
  <2>1. clients <= clients' /\ UNCHANGED <<online, received, registry, ended>>
    BY <1>1, <1>4 DEF GetsNone, NewConfigFails, NewNamingFails
  <2>2. registry' \subseteq [name : SvcName, addr : Addr, conn : ConnId, cli : 1..clients']
    BY <1>1, <2>1
  <2> QED
    BY <1>4, <2>1, <2>2 DEF GetsNone, Finish
<1>5. ASSUME NEW c \in ConnId, OnRegister(c) PROVE DiscoTypes'
  <2>1. cmd[c].name \in SvcName /\ cmd[c].addr \in Addr /\ cmd[c] # NoCmd
    BY <1>5, CommandFacts DEF OnRegister, Ready
  <2>2. handler[c].cli \in 1..clients
    <3>1. c \in Handler
      BY ServerConstants
    <3>2. handler[c].cli \in Nat /\ handler[c].cli <= clients
      BY <3>1 DEF Types
    <3>3. handler[c].cli # 0
      BY <1>5, <2>1 DEF Serving, OnRegister, Ready
    <3> QED
      BY <1>1, <3>2, <3>3
  <2> QED
    BY <1>5, <2>1, <2>2 DEF OnRegister, Finish, factoryVars
<1>6. ASSUME NEW c \in ConnId, OnDeregister(c) PROVE DiscoTypes'
  <2>1. cmd[c] \in [op : {"deregister"}, name : SvcName, addr : Addr]
    BY <1>6, CommandFacts DEF OnDeregister, Ready
  <2>2. cmd' \in [ConnId -> C]
    BY <1>6, <2>1 DEF OnDeregister
  <2>3. /\ registry' \subseteq registry /\ ended' = ended \cup {<<c, cmd[c].name>>}
        /\ UNCHANGED <<clients, online, received>>
    BY <1>6 DEF OnDeregister, factoryVars
  <2> QED
    BY <2>1, <2>2, <2>3
<1>7. ASSUME NEW c \in ConnId, RemoveClient(c) \/ LookupOrFail(c) PROVE DiscoTypes'
  BY <1>7 DEF RemoveClient, RemoveDiscoClient, LookupOrFail, Finish, factoryVars
<1>8. ASSUME NEW c \in ConnId, OnClose(c) PROVE DiscoTypes'
  BY <1>8 DEF OnClose, factoryVars
<1>9. ASSUME NEW r \in registry, HeartbeatsEnd(r) PROVE DiscoTypes'
  BY <1>9 DEF HeartbeatsEnd, factoryVars
<1>10. UNCHANGED discoVars => DiscoTypes'
  BY DEF discoVars, factoryVars
<1> HIDE DEF DiscoTypes
<1> QED
  BY <1>2, <1>3, <1>4, <1>5, <1>6, <1>7, <1>8, <1>9, <1>10 DEF DiscoNext

\* A step of another connection, or one that leaves the command, its goroutine
\* and the entries of its connection alone, keeps the facts of a connection.
LEMMA ServedOn ==
    ASSUME DiscoTypes, Serving, Ending, NEW d \in ConnId, ended \subseteq ended',
           cmd'[d] = cmd[d], handler'[d] = handler[d],
           \A k \in Keys : k[1] = d => serviceStorage'[k] = serviceStorage[k]
    PROVE  /\ cmd'[d] # NoCmd =>
                /\ handler'[d].key = Target(d)'
                /\ handler'[d].pc = "rest" =>
                        handler'[d].cli = serviceStorage'[Target(d)'] /\ handler'[d].cli # 0
           /\ cmd'[d].op = "remove" => <<d, cmd'[d].name>> \in ended'
<1>1. Target(d)' = Target(d) /\ Target(d) \in Keys /\ Target(d)[1] = d
  BY CommandFacts DEF Target
<1> QED
  BY <1>1 DEF Serving, Ending

\* Every step keeps what is known of the connections.
LEMMA ServingStep ==
    ASSUME FactoryInv, DiscoTypes, Serving, Ending, DiscoNext
    PROVE  Serving' /\ Ending'
<1> DEFINE Fits(d) ==
        /\ cmd'[d] # NoCmd =>
            /\ handler'[d].key = Target(d)'
            /\ handler'[d].pc = "rest" =>
                    handler'[d].cli = serviceStorage'[Target(d)'] /\ handler'[d].cli # 0
        /\ cmd'[d].op = "remove" => <<d, cmd'[d].name>> \in ended'
<1>0. /\ ConnId \subseteq Handler /\ NoCmd.op = "none"
      /\ handler \in [Handler -> [pc : {"rest", "new", "insert"}, key : Keys, cli : Nat]]
      /\ cmd = [c \in ConnId |-> cmd[c]] /\ serviceStorage = [k \in Keys |-> serviceStorage[k]]
  BY ServerConstants DEF FactoryInv, Types, DiscoTypes, NoCmd
<1>1. \A c \in ConnId : cmd[c] # NoCmd => handler[c].key = Target(c) /\ Target(c) \in Keys /\ Target(c)[1] = c
  BY CommandFacts DEF Serving, Target
<1>2. ASSUME \A d \in ConnId : Fits(d) PROVE Serving' /\ Ending'
  BY <1>2 DEF Serving, Ending
<1>3. ASSUME NEW c \in ConnId, ended \subseteq ended', Fits(c),
             \A d \in ConnId \ {c} : /\ cmd'[d] = cmd[d] /\ handler'[d] = handler[d]
                                     /\ \A k \in Keys : k[1] = d => serviceStorage'[k] = serviceStorage[k]
      PROVE Serving' /\ Ending'
  BY <1>2, <1>3, ServedOn
<1>4. ASSUME NEW c \in ConnId, cmd'[c] = NoCmd PROVE Fits(c)
  BY <1>0, <1>4
<1>5. ASSUME NEW c \in ConnId, NEW m \in Command, OnCmdDiscovery(c, m) PROVE Serving' /\ Ending'
  <2>1. /\ cmd' = [cmd EXCEPT ![c] = m] /\ UNCHANGED <<serviceStorage, ended>>
        /\ GetDiscoClient(c, <<c, IF m.op = "lookup" THEN "web" ELSE Named(m.name)>>)
    BY <1>5 DEF OnCmdDiscovery, GetDiscoClient
  <2>2. Target(c)' = <<c, IF m.op = "lookup" THEN "web" ELSE Named(m.name)>> /\ m.op # "remove"
    BY <1>0, <2>1 DEF Target, Command, Register, Deregister
  <2>3. GetDiscoClient(c, Target(c)')
    BY <2>1, <2>2
  <2>4. \A d \in ConnId \ {c} : cmd'[d] = cmd[d] /\ handler'[d] = handler[d]
    BY <1>0, <2>1, <2>3 DEF GetDiscoClient
  <2>5. cmd'[c].op # "remove"
    BY <1>0, <2>1, <2>2
  <2>6. handler'[c] = IF serviceStorage[Target(c)'] # 0
                      THEN [pc |-> "rest", key |-> Target(c)', cli |-> serviceStorage[Target(c)']]
                      ELSE [pc |-> "new", key |-> Target(c)', cli |-> 0]
    BY <1>0, <2>3 DEF GetDiscoClient
  <2>7. Fits(c)
    BY <2>1, <2>5, <2>6
  <2> QED
    BY <1>3, <2>1, <2>4, <2>7
<1>6. ASSUME NEW c \in ConnId, GetsClient(c) PROVE Serving' /\ Ending'
  <2>1. cmd[c] # NoCmd /\ UNCHANGED <<cmd, ended>> /\ (NewClient(c) \/ InsertClient(c))
    BY <1>6 DEF GetsClient
  <2>2. Target(c)' = Target(c) /\ handler[c].key = Target(c) /\ Target(c) \in Keys /\ Target(c)[1] = c
    BY <1>1, <2>1 DEF Target
  <2>3. CASE NewClient(c)
    <3>1. Fits(c)
      BY <1>0, <2>1, <2>2, <2>3 DEF NewClient, Ending
    <3> QED
      BY <1>0, <1>3, <2>1, <2>3, <3>1 DEF NewClient
  <2>4. CASE InsertClient(c)
    <3>1. handler[c].pc = "insert" /\ handler'[c].pc = "rest" /\ handler'[c].key = Target(c)
      BY <1>0, <2>2, <2>4 DEF InsertClient
    <3>2. CASE serviceStorage[Target(c)] # 0
      <4>1. UNCHANGED serviceStorage /\ handler'[c].cli = serviceStorage[Target(c)]
            /\ \A d \in ConnId \ {c} : handler'[d] = handler[d]
        BY <1>0, <2>2, <2>4, <3>2 DEF InsertClient
      <4>2. Fits(c)
        BY <2>1, <2>2, <3>1, <3>2, <4>1 DEF Ending
      <4> QED
        BY <1>3, <2>1, <4>1, <4>2
    <3>3. CASE serviceStorage[Target(c)] = 0
      <4>1. /\ serviceStorage' = [serviceStorage EXCEPT ![Target(c)] = handler[c].cli]
            /\ handler'[c].cli = handler[c].cli
            /\ \A d \in ConnId \ {c} : handler'[d] = handler[d]
        BY <1>0, <2>2, <2>4, <3>3 DEF InsertClient
      <4>2. handler[c].cli # 0
        BY <1>0, <3>1 DEF FactoryInv, Types, Accounted, Inserting
      <4>3. Fits(c)
        BY <1>0, <2>1, <2>2, <3>1, <4>1, <4>2 DEF Ending
      <4>4. \A d \in ConnId \ {c}, k \in Keys : k[1] = d => serviceStorage'[k] = serviceStorage[k]
        BY <1>0, <2>2, <4>1
      <4> QED
        BY <1>3, <2>1, <4>1, <4>3, <4>4
    <3> QED
      BY <3>2, <3>3
  <2> QED
    BY <2>1, <2>3, <2>4
<1>7. ASSUME NEW c \in ConnId, GetsNone(c) PROVE Serving' /\ Ending'
  <2>1. /\ cmd' = [cmd EXCEPT ![c] = NoCmd] /\ UNCHANGED <<serviceStorage, ended>>
        /\ handler' = [handler EXCEPT ![c] = AtRest]
    BY <1>7 DEF GetsNone, Finish, NewConfigFails, NewNamingFails
  <2> QED
    BY <1>0, <1>3, <1>4, <2>1
<1>8. ASSUME NEW c \in ConnId, OnRegister(c) \/ LookupOrFail(c) PROVE Serving' /\ Ending'
  <2>1. cmd' = [cmd EXCEPT ![c] = NoCmd] /\ UNCHANGED <<serviceStorage, handler, ended>>
    BY <1>8 DEF OnRegister, LookupOrFail, Finish, factoryVars
  <2> QED
    BY <1>0, <1>3, <1>4, <2>1
<1>9. ASSUME NEW c \in ConnId, OnDeregister(c) PROVE Serving' /\ Ending'
  <2>1. /\ cmd[c].op = "deregister" /\ cmd' = [cmd EXCEPT ![c].op = "remove"]
        /\ ended' = ended \cup {<<c, cmd[c].name>>} /\ UNCHANGED <<serviceStorage, handler>>
    BY <1>9 DEF OnDeregister, Ready, factoryVars
  <2>2. cmd[c] # NoCmd /\ cmd[c] = [op |-> "deregister", name |-> cmd[c].name, addr |-> cmd[c].addr]
    BY <2>1, CommandFacts
  <2>3. cmd'[c].op = "remove" /\ cmd'[c].name = cmd[c].name
    BY <1>0, <2>1, <2>2
  <2>4. Target(c)' = Target(c)
    BY <2>1, <2>3 DEF Target
  <2>5. Fits(c)
    BY <2>1, <2>2, <2>3, <2>4 DEF Serving
  <2> QED
    BY <1>0, <1>3, <2>1, <2>5
<1>10. ASSUME NEW c \in ConnId, RemoveClient(c) PROVE Serving' /\ Ending'
  <2>1. /\ cmd' = [cmd EXCEPT ![c] = NoCmd] /\ UNCHANGED ended
        /\ handler' = [handler EXCEPT ![c] = AtRest]
        /\ serviceStorage' = [serviceStorage EXCEPT ![<<c, cmd[c].name>>] = 0]
    BY <1>10 DEF RemoveClient, RemoveDiscoClient, Finish
  <2>2. \A d \in ConnId \ {c}, k \in Keys : k[1] = d => serviceStorage'[k] = serviceStorage[k]
    BY <1>0, <2>1
  <2> QED
    <3>1. \A d \in ConnId \ {c} : cmd'[d] = cmd[d] /\ handler'[d] = handler[d]
      BY <1>0, <2>1
    <3>2. cmd'[c] = NoCmd
      BY <1>0, <2>1
    <3> QED
      BY <1>3, <1>4, <2>1, <2>2, <3>1, <3>2
<1>11. ASSUME UNCHANGED <<cmd, handler, serviceStorage, ended>> PROVE Serving' /\ Ending'
  BY <1>11 DEF Serving, Ending, Target
<1>12. ASSUME NEW c \in ConnId, OnClose(c) PROVE Serving' /\ Ending'
  BY <1>11, <1>12 DEF OnClose, factoryVars
<1>13. ASSUME NEW r \in registry, HeartbeatsEnd(r) PROVE Serving' /\ Ending'
  BY <1>11, <1>13 DEF HeartbeatsEnd, factoryVars
<1> QED
  BY <1>5, <1>6, <1>7, <1>8, <1>9, <1>10, <1>12, <1>13 DEF DiscoNext

\* Every step keeps the client of a registered instance in the table until its
\* connection has deregistered the name.
LEMMA AliveStep ==
    ASSUME DiscoInv, DiscoNext
    PROVE  Alive'
<1> USE DEF DiscoInv
<1>0. /\ ConnId \subseteq Handler /\ serviceStorage = [k \in Keys |-> serviceStorage[k]]
      /\ \A r \in registry : KeyOf(r) \in Keys /\ r.cli # 0
  BY ServerConstants DEF FactoryInv, Types, DiscoTypes, KeyOf, Named, Keys
<1>1. ASSUME registry' \subseteq registry, ended \subseteq ended',
             \A k \in Keys : \/ serviceStorage'[k] = serviceStorage[k] \/ k \in ended
                            \/ serviceStorage[k] = 0
      PROVE Alive'
  BY <1>0, <1>1 DEF Alive, KeyOf
<1>2. ASSUME NEW c \in ConnId, NEW m \in Command, OnCmdDiscovery(c, m) PROVE Alive'
  BY <1>1, <1>2 DEF OnCmdDiscovery, GetDiscoClient
<1>3. ASSUME NEW c \in ConnId, GetsClient(c) PROVE Alive'
  <2>1. UNCHANGED <<registry, ended>> /\ (NewClient(c) \/ InsertClient(c))
    BY <1>3 DEF GetsClient
  <2>2. \A k \in Keys : serviceStorage'[k] = serviceStorage[k] \/ serviceStorage[k] = 0
    BY <1>0, <2>1 DEF NewClient, InsertClient
  <2> QED
    BY <1>1, <2>1, <2>2
<1>4. ASSUME NEW c \in ConnId, GetsNone(c) PROVE Alive'
  BY <1>1, <1>4 DEF GetsNone, NewConfigFails, NewNamingFails
<1>5. ASSUME NEW c \in ConnId, OnRegister(c) PROVE Alive'
  <2>1. /\ cmd[c].op = "register" /\ handler[c].pc = "rest" /\ UNCHANGED <<serviceStorage, ended>>
        /\ registry' = registry \cup
            {[name |-> cmd[c].name, addr |-> cmd[c].addr, conn |-> c, cli |-> handler[c].cli]}
    BY <1>5 DEF OnRegister, Ready, factoryVars
  <2>2. handler[c].cli = serviceStorage[<<c, Named(cmd[c].name)>>]
    BY <2>1, CommandFacts DEF Serving, Target
  <2> QED
    BY <2>1, <2>2 DEF Alive, KeyOf
<1>6. ASSUME NEW c \in ConnId, OnDeregister(c) PROVE Alive'
  <2>1. registry' \subseteq registry /\ ended \subseteq ended' /\ UNCHANGED serviceStorage
    BY <1>6 DEF OnDeregister, factoryVars
  <2> QED
    BY <1>1, <2>1
<1>7. ASSUME NEW c \in ConnId, RemoveClient(c) PROVE Alive'
  <2>1. /\ serviceStorage' = [serviceStorage EXCEPT ![<<c, cmd[c].name>>] = 0]
        /\ cmd[c].op = "remove" /\ UNCHANGED <<registry, ended>>
    BY <1>7 DEF RemoveClient, RemoveDiscoClient, Ready
  <2>2. <<c, cmd[c].name>> \in ended
    BY <2>1 DEF Ending
  <2> QED
    BY <1>0, <1>1, <2>1, <2>2
<1>8. ASSUME NEW c \in ConnId, LookupOrFail(c) \/ OnClose(c) PROVE Alive'
  BY <1>1, <1>8 DEF LookupOrFail, OnClose, factoryVars
<1>9. ASSUME NEW r \in registry, HeartbeatsEnd(r) PROVE Alive'
  BY <1>1, <1>9 DEF HeartbeatsEnd, factoryVars
<1> HIDE DEF DiscoInv
<1> QED
  BY <1>2, <1>3, <1>4, <1>5, <1>6, <1>7, <1>8, <1>9 DEF DiscoNext

\* The invariant holds at the beginning, and every step keeps it.
LEMMA DiscoInitInv ==
    ASSUME ConnId # {}, DiscoInit
    PROVE  DiscoInv
<1>1. Keys # {}
  <2>1. \A c \in ConnId : <<c, Unnamed>> \in Keys
    BY ServerConstants DEF Keys
  <2> QED
    BY <2>1
<1>2. FactoryInv
  BY <1>1, FactoryInit_Inv DEF DiscoInit
<1>3. DiscoTypes
  BY ServerConstants DEF DiscoInit, DiscoTypes
<1>4. \A c \in ConnId : cmd[c] = NoCmd
  BY DEF DiscoInit
<1>5. NoCmd.op # "remove"
  BY DEF NoCmd
<1>6. Serving /\ Ending /\ Alive
  BY <1>4, <1>5 DEF DiscoInit, Serving, Ending, Alive
<1> QED
  BY <1>2, <1>3, <1>6 DEF DiscoInv

LEMMA DiscoKept ==
    ASSUME ConnId # {}, DiscoInv, [DiscoNext]_discoVars
    PROVE  DiscoInv'
<1>1. Keys # {}
  <2>1. \A c \in ConnId : <<c, Unnamed>> \in Keys
    BY ServerConstants DEF Keys
  <2> QED
    BY <2>1
<1>2. FactoryInv'
  BY <1>1, DiscoUsesFactory, FactoryKept DEF DiscoInv
<1>3. DiscoTypes'
  BY <1>2, DiscoTypesStep DEF DiscoInv, FactoryInv
<1>4. CASE DiscoNext
  BY <1>2, <1>3, <1>4, ServingStep, AliveStep DEF DiscoInv
<1>5. CASE UNCHANGED discoVars
  BY <1>2, <1>3, <1>5 DEF DiscoInv, discoVars, factoryVars, Serving, Ending, Alive, Target, KeyOf
<1> QED
  BY <1>4, <1>5

\* The types in the words of the module.
LEMMA DiscoInvTypes == DiscoInv => DiscoTypeOK
BY InvTypes DEF DiscoInv, DiscoTypes, DiscoTypeOK

\* The types of the server and its factory (server.go, disco_cli_factory.go),
\* for any connections, names and addresses.
THEOREM DiscoTypeCorrect ==
    ASSUME ConnId # {}
    PROVE  DiscoBehaviour => []DiscoTypeOK
BY DiscoInitInv, DiscoInvTypes, DiscoKept, PTL DEF DiscoBehaviour

\* No instance is lost for another reason than a Deregister of it, or one of
\* its own connection under the name its client is kept under
\* (server.go:86-131, disco_cli_factory.go:62-71).
THEOREM InstanceLossExplainedAlways ==
    ASSUME ConnId # {}
    PROVE  DiscoBehaviour => InstanceLossExplained
<1> DEFINE Explained ==
        \A r \in registry \ registry' :
            \/ \E c \in ConnId : cmd[c] = [op |-> "deregister", name |-> r.name, addr |-> r.addr]
            \/ <<r.conn, Named(r.name)>> \in ended
<1>1. ASSUME DiscoInv, DiscoNext PROVE Explained
  <2> USE <1>1 DEF DiscoInv
  <2>1. ASSUME NEW c \in ConnId, OnDeregister(c) PROVE Explained
    <3>1. cmd[c] = [op |-> "deregister", name |-> cmd[c].name, addr |-> cmd[c].addr]
      BY <2>1, CommandFacts DEF OnDeregister, Ready
    <3>2. \A r \in registry \ registry' : r.name = cmd[c].name /\ r.addr = cmd[c].addr
      BY <2>1 DEF OnDeregister
    <3> QED
      BY <3>1, <3>2
  <2>2. ASSUME NEW q \in registry, HeartbeatsEnd(q) PROVE Explained
    <3>1. registry \ registry' \subseteq {q} /\ q.cli \notin opened
      BY <2>2 DEF HeartbeatsEnd
    <3>2. KeyOf(q) \in Keys /\ q.cli # 0
      BY ServerConstants DEF DiscoTypes, KeyOf, Named, Keys, FactoryInv, Types
    <3>3. serviceStorage[KeyOf(q)] # q.cli
      BY <3>1, <3>2 DEF FactoryInv, Accounted
    <3> QED
      BY <3>1, <3>3 DEF Alive, KeyOf
  <2>3. ASSUME registry \subseteq registry' PROVE Explained
    BY <2>3
  <2>4. ASSUME NEW c \in ConnId, NEW m \in Command, OnCmdDiscovery(c, m) PROVE Explained
    BY <2>3, <2>4 DEF OnCmdDiscovery
  <2>5. ASSUME NEW c \in ConnId, \/ GetsClient(c) \/ GetsNone(c) \/ OnRegister(c) \/ OnClose(c)
                                 \/ RemoveClient(c) \/ LookupOrFail(c)
        PROVE Explained
    BY <2>3, <2>5 DEF GetsClient, GetsNone, OnRegister, OnClose, RemoveClient, LookupOrFail
  <2> HIDE DEF DiscoInv
  <2> QED
    BY <2>1, <2>2, <2>4, <2>5 DEF DiscoNext
<1>2. DiscoInv /\ [DiscoNext]_discoVars => [Explained]_discoVars
  BY <1>1
<1> QED
  BY <1>2, DiscoInitInv, DiscoKept, PTL DEF DiscoBehaviour, InstanceLossExplained

----------------------------------------------------------------------------
(* An instance in the Nacos registry, from the assumption that the width   *)
(* of uint64 is a multiple of the width of int32.                          *)

\* Quotient and remainder, and a remainder recognised.
LEMMA DivMod ==
    ASSUME NEW a \in Int, NEW m \in Nat \ {0}
    PROVE  a \div m \in Int /\ a % m \in 0..(m - 1) /\ a = m * (a \div m) + (a % m)
OBVIOUS

LEMMA ModUnique ==
    ASSUME NEW m \in Nat \ {0}, NEW q \in Int, NEW r \in 0..(m - 1)
    PROVE  (m * q + r) % m = r
<1> DEFINE a == m * q + r
<1>1. a \in Int
  OBVIOUS
<1>2. a \div m \in Int /\ a % m \in 0..(m - 1) /\ a = m * (a \div m) + (a % m)
  BY <1>1, DivMod
<1> QED
  BY <1>2

\* The conversions: an int32 is itself, an int has some int32, and an int32
\* survives the way through uint64.
LEMMA Int32Facts ==
    /\ \A k \in Int : Int32(k) \in -Half..(Half - 1) /\ Uint64(k) \in 0..(Wide - 1)
    /\ \A k \in -Half..(Half - 1) : Int32(k) = k
<1>1. Half \in Nat \ {0} /\ Wide \in Nat \ {0}
  BY NacosConstants
<1>2. \A k \in Int : Int32(k) \in -Half..(Half - 1) /\ Uint64(k) \in 0..(Wide - 1)
  BY <1>1 DEF Int32, Uint64
<1>3. ASSUME NEW k \in -Half..(Half - 1) PROVE Int32(k) = k
  <2>1. (k + Half) \in 0..(2 * Half - 1) /\ 2 * Half \in Nat \ {0}
    BY <1>1
  <2> QED
    BY <1>1, <2>1 DEF Int32
<1> QED
  BY <1>2, <1>3

LEMMA PortBack ==
    ASSUME NEW k \in -Half..(Half - 1)
    PROVE  Int32(Uint64(k)) = k
<1> DEFINE m == 2 * Half
<1>1. m \in Nat \ {0} /\ k \in Int /\ Half \in Nat /\ Wide \in Nat \ {0} /\ Wide % m = 0
      /\ k + Half \in 0..(m - 1) /\ Int32(Uint64(k)) = ((Uint64(k) + Half) % m) - Half
  BY NacosConstants DEF Int32
<1> HIDE DEF m
<1>2. PICK j \in Int : Wide = m * j
  <2>1. Wide \div m \in Int /\ Wide = m * (Wide \div m) + (Wide % m)
    BY <1>1, DivMod
  <2>2. Wide = m * (Wide \div m)
    BY <1>1, <2>1
  <2> QED
    BY <2>1, <2>2
<1>3. PICK q \in Int : k = Wide * q + Uint64(k) /\ Uint64(k) \in Int
  <2>1. k \div Wide \in Int /\ k % Wide \in 0..(Wide - 1) /\ k = Wide * (k \div Wide) + (k % Wide)
    BY <1>1, DivMod
  <2>2. Uint64(k) = k % Wide
    BY DEF Uint64
  <2>3. k \div Wide \in Int /\ k = Wide * (k \div Wide) + Uint64(k) /\ Uint64(k) \in Int
    BY <2>1, <2>2
  <2> QED
    BY <2>3
<1>4. Uint64(k) + Half = m * (-(j * q)) + (k + Half)
  <2>1. k = (m * j) * q + Uint64(k)
    BY <1>2, <1>3
  <2>2. (m * j) * q = m * (j * q) /\ m * (-(j * q)) = -(m * (j * q)) /\ m * (j * q) \in Int
    BY <1>1
  <2> QED
    BY <1>1, <1>3, <2>1, <2>2
<1>5. -(j * q) \in Int
  OBVIOUS
<1>6. (Uint64(k) + Half) % m = k + Half
  BY <1>1, <1>4, <1>5, ModUnique
<1> QED
  BY <1>1, <1>6

\* Texts: a number is not blank, and it names one group.
LEMMA TextFacts ==
    /\ Blank \in Written /\ DefaultGroupName \in Written /\ \A k \in Int : Itoa(k) \in Written
    /\ DefaultGroupName # Blank /\ \A k : Itoa(k) # Blank /\ Itoa(k) # DefaultGroupName
    /\ \A j, k : Itoa(j) = Itoa(k) => j = k
    /\ \A k : Itoa(k).s = "num" /\ Itoa(k).n = k
<1>1. Blank \in Written /\ DefaultGroupName \in Written /\ \A k \in Int : Itoa(k) \in Written
  BY NacosConstants DEF Itoa, Written
<1>2. DefaultGroupName # Blank
  <2>1. DefaultGroupName.s = "DEFAULT_GROUP" /\ Blank.s = ""
    BY Zenon DEF DefaultGroupName, Blank, Text
  <2> QED
    BY <2>1, Zenon
<1>3. \A k : Itoa(k).s = "num" /\ Itoa(k).n = k
  BY DEF Itoa
<1>4. \A k : Itoa(k) # Blank /\ Itoa(k) # DefaultGroupName
  <2>1. DefaultGroupName.s = "DEFAULT_GROUP" /\ Blank.s = ""
    BY Zenon DEF DefaultGroupName, Blank, Text
  <2> QED
    BY <1>3, <2>1, Zenon
<1>5. \A j, k : Itoa(j) = Itoa(k) => j = k
  BY <1>3
<1> QED
  BY <1>1, <1>2, <1>3, <1>4, <1>5, Zenon

\* What RegisterInstance and toInstance make of an instance and an entry.
LEMMA FromInstanceType ==
    ASSUME NEW inst \in Instances
    PROVE  RegisterParam(inst) \in Entries
<1>1. inst.node \in Int /\ inst.innerPort \in Int /\ inst.publicPort \in Int /\ inst.privatePort \in Int
  BY NacosConstants DEF Instances
<1>2. Uint64(inst.privatePort) \in 0..(Wide - 1)
  BY <1>1, Int32Facts
<1>3. /\ Itoa(inst.node) \in Written /\ Itoa(inst.innerPort) \in Written
      /\ Itoa(inst.publicPort) \in Written
  BY <1>1, TextFacts
<1>4. inst.extra \in [MetaKey -> Written] /\ inst.innerIp \in Written /\ inst.publicIp \in Written
      /\ inst.privateIp \in Written /\ inst.name \in ServiceName
  BY DEF Instances, Metadata
<1>5. fromInstance(inst).meta \in [MetaKey -> Written]
  BY <1>3, <1>4 DEF fromInstance
<1>6. TRUE \in BOOLEAN
  OBVIOUS
<1>7. /\ fromInstance(inst).name = inst.name /\ fromInstance(inst).ip = inst.privateIp
      /\ fromInstance(inst).port = Uint64(inst.privatePort)
  BY DEF fromInstance
<1> QED
  BY <1>2, <1>3, <1>4, <1>5, <1>6, <1>7 DEF RegisterParam, Entries, Metadata

\* The registry changes the name only.
LEMMA AnswerFacts ==
    ASSUME NEW r \in Entries
    PROVE  /\ Answer(r) \in Entries /\ Answer(r).name = NameBack[r.name]
           /\ Answer(r).ip = r.ip /\ Answer(r).port = r.port
           /\ Answer(r).meta = r.meta /\ Answer(r).ephemeral = r.ephemeral
<1>1. r.name \in ServiceName
  BY DEF Entries
<1>2. NameBack[r.name] \in ServiceName
  BY <1>1, NacosConstants
<1> QED
  BY <1>2 DEF Answer, Entries

LEMMA ToInstanceType ==
    ASSUME NEW r \in Entries
    PROVE  toInstance(r) \in Instances
<1>1. r.meta \in [MetaKey -> Written] /\ r.ip \in Written /\ r.port \in Int
      /\ r.name \in ServiceName
  BY NacosConstants DEF Entries, Metadata
<1>0. r.ephemeral \in BOOLEAN /\ TRUE \in BOOLEAN
  BY DEF Entries
<1>2. /\ r.meta["inner_ip"] \in Written /\ r.meta["inner_port"] \in Written
      /\ r.meta["public_ip"] \in Written /\ r.meta["public_port"] \in Written
      /\ r.meta["node"] \in Written
  BY <1>1 DEF MetaKey
<1>3. \A t \in Written, d \in Int : AtoiOr(t, d) \in -Half..(Half - 1)
  BY Int32Facts DEF AtoiOr, Written
<1>4. \A t, u \in Written : OrElse(t, u) \in Written
  BY DEF OrElse
<1>5. Int32(r.port) \in -Half..(Half - 1)
  BY <1>1, Int32Facts
<1>6. /\ OrElse(r.meta["inner_ip"], r.ip) \in Written /\ OrElse(r.meta["public_ip"], r.ip) \in Written
      /\ AtoiOr(r.meta["inner_port"], r.port) \in -Half..(Half - 1)
      /\ AtoiOr(r.meta["public_port"], r.port) \in -Half..(Half - 1)
      /\ AtoiOr(r.meta["node"], 0) \in -Half..(Half - 1)
  <2>1. OrElse(r.meta["inner_ip"], r.ip) \in Written /\ OrElse(r.meta["public_ip"], r.ip) \in Written
    BY <1>1, <1>2, <1>4
  <2>2. 0 \in Int
    OBVIOUS
  <2>3. /\ AtoiOr(r.meta["inner_port"], r.port) \in -Half..(Half - 1)
        /\ AtoiOr(r.meta["public_port"], r.port) \in -Half..(Half - 1)
        /\ AtoiOr(r.meta["node"], 0) \in -Half..(Half - 1)
    BY <1>1, <1>2, <1>3, <2>2, Zenon
  <2> QED
    BY <2>1, <2>3
<1> QED
  BY <1>0, <1>1, <1>5, <1>6 DEF toInstance, Instances, Metadata

\* What fromInstance puts into the metadata.
LEMMA FromInstanceMeta ==
    ASSUME NEW inst \in Instances
    PROVE  LET meta == RegisterParam(inst).meta IN
           /\ meta = fromInstance(inst).meta
           /\ meta["inner_ip"] = inst.innerIp /\ meta["public_ip"] = inst.publicIp
           /\ meta["inner_port"] = Itoa(inst.innerPort) /\ meta["public_port"] = Itoa(inst.publicPort)
           /\ meta["node"] = Itoa(inst.node) /\ meta["zone"] = inst.extra["zone"]
<1>1. inst.extra \in [MetaKey -> Written]
  BY DEF Instances, Metadata
<1>2. /\ "inner_ip" \in MetaKey /\ "inner_port" \in MetaKey /\ "public_ip" \in MetaKey
      /\ "public_port" \in MetaKey /\ "node" \in MetaKey /\ "zone" \in MetaKey
  BY DEF MetaKey
<1> QED
  BY <1>1, <1>2 DEF fromInstance, RegisterParam

\* An instance comes back with every address, port and its node.
Returned(b, inst) ==
    /\ b.name = NameBack[inst.name] /\ b.ephemeral = TRUE
    /\ b.privateIp = inst.privateIp /\ b.privatePort = inst.privatePort
    /\ b.innerPort = inst.innerPort /\ b.publicPort = inst.publicPort
    /\ b.node = inst.node /\ b.extra = fromInstance(inst).meta /\ b.healthy = TRUE
    /\ b.innerIp = OrElse(inst.innerIp, inst.privateIp)
    /\ b.publicIp = OrElse(inst.publicIp, inst.privateIp)

LEMMA ComesBack ==
    ASSUME NEW inst \in Instances
    PROVE  Returned(toInstance(Answer(RegisterParam(inst))), inst)
<1>1. /\ inst.node \in -Half..(Half - 1) /\ inst.innerPort \in -Half..(Half - 1)
      /\ inst.publicPort \in -Half..(Half - 1) /\ inst.privatePort \in -Half..(Half - 1)
  BY DEF Instances
<1>2. \A k \in -Half..(Half - 1) : \A d : AtoiOr(Itoa(k), d) = k
  BY Int32Facts, TextFacts DEF AtoiOr
<1>3. Int32(Uint64(inst.privatePort)) = inst.privatePort
  BY <1>1, PortBack
<1> DEFINE r == RegisterParam(inst)
           a == Answer(r)
<1>4. /\ r.ip = inst.privateIp /\ r.port = Uint64(inst.privatePort) /\ r.name = inst.name
      /\ r.ephemeral = TRUE /\ r \in Entries
  BY FromInstanceType DEF fromInstance, RegisterParam
<1>5. /\ r.meta = fromInstance(inst).meta
      /\ r.meta["inner_ip"] = inst.innerIp /\ r.meta["public_ip"] = inst.publicIp
      /\ r.meta["inner_port"] = Itoa(inst.innerPort) /\ r.meta["public_port"] = Itoa(inst.publicPort)
      /\ r.meta["node"] = Itoa(inst.node)
  BY FromInstanceMeta
<1> HIDE DEF r
<1>6. /\ a.ip = r.ip /\ a.port = r.port /\ a.name = NameBack[r.name]
      /\ a.ephemeral = r.ephemeral /\ a.meta = r.meta
  BY <1>4, AnswerFacts
<1> HIDE DEF a
<1>7. Returned(toInstance(a), inst)
  BY <1>1, <1>2, <1>3, <1>4, <1>5, <1>6 DEF toInstance, Returned
<1> QED
  BY <1>7 DEF a, r

\* The inductive invariant: the entry is the one of the instance it was made
\* from, and what was found is what that entry reads as, under its name in its
\* group only.
NacosInv ==
    /\ reg = Nothing \/ reg \in Entries
    /\ orig = Nothing \/ (orig \in Instances /\ reg = RegisterParam(orig))
    /\ found = Nothing \/ (found \in Instances /\ reg # Nothing /\ found = toInstance(Answer(reg)))
    /\ asked # Nothing => (found # Nothing <=> Selected(asked))

\* Entries and instances have other fields than Nothing.
LEMMA NothingElse ==
    /\ Nothing \notin Entries /\ Nothing \notin Instances
    /\ \A x : toInstance(x) # Nothing
<1>1. DOMAIN Nothing = {"kind"}
  BY DEF Nothing
<1>2. \A x \in Entries : "group" \in DOMAIN x
  BY DEF Entries
<1>3. \A x \in Instances : "node" \in DOMAIN x
  BY DEF Instances
<1>4. \A x : "node" \in DOMAIN toInstance(x)
  BY DEF toInstance
<1> QED
  BY <1>1, <1>2, <1>3, <1>4

\* Every step keeps it.
LEMMA NacosStep ==
    ASSUME NacosInv, [NacosNext]_nacosVars
    PROVE  NacosInv'
<1> USE DEF NacosInv
<1>1. ASSUME NEW inst \in Instances, RegisterInstance(inst) PROVE NacosInv'
  BY <1>1, FromInstanceType DEF RegisterInstance
<1>2. ASSUME NEW r \in Foreign, RegisterForeign(r) PROVE NacosInv'
  BY <1>2, NacosConstants DEF RegisterForeign
<1>3. ASSUME NEW n, NEW g, GetServiceInstances(n, g) PROVE NacosInv'
  <2>1. reg # Nothing => toInstance(Answer(reg)) \in Instances /\ toInstance(Answer(reg)) # Nothing
    BY AnswerFacts, ToInstanceType, NothingElse
  <2>2. Selected(asked)' <=> Selected(asked')
    BY <1>3 DEF GetServiceInstances, Selected
  <2>3. /\ found' = IF Selected(asked') THEN toInstance(Answer(reg)) ELSE Nothing
        /\ reg' = reg /\ orig' = orig
    BY <1>3 DEF GetServiceInstances
  <2>4. Selected(asked') => reg # Nothing
    BY DEF Selected
  <2>5. found' # Nothing <=> Selected(asked)'
    BY <2>1, <2>2, <2>3, <2>4
  <2>6. found' = Nothing \/ (found' \in Instances /\ reg # Nothing /\ found' = toInstance(Answer(reg)))
    BY <2>1, <2>3, <2>4
  <2> QED
    BY <2>3, <2>5, <2>6
<1>4. ASSUME NEW inst, DeregisterInstance(inst) PROVE NacosInv'
  BY <1>4 DEF DeregisterInstance
<1>5. UNCHANGED nacosVars => NacosInv'
  BY DEF nacosVars, Selected
<1>6. Instance \subseteq Instances
  BY NacosConstants
<1>7. found # Nothing => found \in Instances
  OBVIOUS
<1> HIDE DEF NacosInv
<1> QED
  BY <1>1, <1>2, <1>3, <1>4, <1>5, <1>6, <1>7 DEF NacosNext, GetServiceInstancesByName

\* ReadsBack, from the invariant.
LEMMA InvReadsBack ==
    ASSUME NacosInv
    PROVE  ReadsBack
<1> USE DEF NacosInv
<1>1. ASSUME orig # Nothing, asked # Nothing
      PROVE  found # Nothing <=> asked = [name |-> orig.name, group |-> Itoa(orig.node)]
  <2>1. reg = RegisterParam(orig) /\ reg # Nothing /\ reg.group = Itoa(orig.node)
        /\ reg.name = orig.name
    BY <1>1, FromInstanceType, NothingElse DEF fromInstance, RegisterParam
  <2> QED
    BY <1>1, <2>1 DEF Selected
<1>2. ASSUME orig # Nothing, found # Nothing
      PROVE  /\ found.name = NameBack[orig.name]
             /\ \A f \in {"privateIp", "privatePort", "innerPort", "publicPort", "node"} : found[f] = orig[f]
             /\ \A f \in {"innerIp", "publicIp"} : found[f] = OrElse(orig[f], orig.privateIp)
             /\ found.extra["zone"] = orig.extra["zone"]
             /\ toInstance(Answer(RegisterParam(found))) =
                    [found EXCEPT !.name = NameBack[found.name],
                                  !.extra["inner_ip"] = found.innerIp,
                                  !.extra["public_ip"] = found.publicIp]
             /\ Names(DeregisterParam(orig), reg)
             /\ found.ephemeral /\ DeregisterParam(orig).ephemeral # reg.ephemeral
  <2>1. orig \in Instances /\ reg = RegisterParam(orig) /\ found \in Instances
        /\ found = toInstance(Answer(reg))
    BY <1>2
  <2>2. Returned(found, orig) /\ found.extra = reg.meta
    <3>1. Returned(found, orig)
      BY <2>1, ComesBack
    <3> QED
      BY <2>1, <3>1, FromInstanceMeta DEF Returned
  <2>3. found.extra["zone"] = orig.extra["zone"]
    BY <2>1, <2>2, FromInstanceMeta
  <2>4. Names(DeregisterParam(orig), reg) /\ found.ephemeral
        /\ DeregisterParam(orig).ephemeral # reg.ephemeral
    <3>1. orig.privatePort \in -Half..(Half - 1) /\ orig.node \in -Half..(Half - 1)
      BY <2>1 DEF Instances
    <3>2. Int32(Uint64(orig.privatePort)) = orig.privatePort /\ AtoiOr(Itoa(orig.node), 0) = orig.node
      BY <3>1, PortBack, Int32Facts, TextFacts DEF AtoiOr
    <3>3. reg.group = Itoa(orig.node) /\ reg.ip = orig.privateIp /\ reg.port = Uint64(orig.privatePort)
          /\ reg.name = orig.name /\ reg.ephemeral = TRUE
      BY <2>1 DEF fromInstance, RegisterParam
    <3>4. Names(DeregisterParam(orig), reg)
      BY <3>2, <3>3 DEF DeregisterParam, Names
    <3>5. DeregisterParam(orig).ephemeral = FALSE
      BY DEF DeregisterParam
    <3> QED
      BY <2>2, <3>3, <3>4, <3>5 DEF Returned
  <2> DEFINE again == toInstance(Answer(RegisterParam(found)))
             meta == fromInstance(found).meta
  <2>5. Returned(again, found)
    BY <2>1, ComesBack
  <2>6. again.innerIp = found.innerIp /\ again.publicIp = found.publicIp
    <3> HIDE DEF again
    <3> QED
      BY <2>2, <2>5 DEF OrElse, Returned
  <2>7. meta = [found.extra EXCEPT !["inner_ip"] = found.innerIp, !["public_ip"] = found.publicIp]
    <3>1. found.extra \in [MetaKey -> Written] /\ MetaKey =
            {"inner_ip", "inner_port", "public_ip", "public_port", "node", "zone"}
      BY <2>1 DEF Instances, Metadata, MetaKey
    <3>2. /\ found.extra["inner_port"] = Itoa(found.innerPort)
          /\ found.extra["public_port"] = Itoa(found.publicPort) /\ found.extra["node"] = Itoa(found.node)
      BY <2>1, <2>2, FromInstanceMeta DEF Returned
    <3>3. meta = [found.extra EXCEPT !["inner_ip"] = found.innerIp,
                                     !["inner_port"] = Itoa(found.innerPort),
                                     !["public_ip"] = found.publicIp,
                                     !["public_port"] = Itoa(found.publicPort),
                                     !["node"] = Itoa(found.node)]
      BY DEF fromInstance
    <3> HIDE DEF meta
    <3> QED
      BY <3>1, <3>2, <3>3
  <2>8. again = [found EXCEPT !.name = NameBack[found.name], !.extra = meta]
    <3>1. again \in Instances
      BY <2>1, FromInstanceType, AnswerFacts, ToInstanceType
    <3> HIDE DEF again, meta
    <3>2. /\ again.privateIp = found.privateIp /\ again.privatePort = found.privatePort
          /\ again.innerPort = found.innerPort /\ again.publicPort = found.publicPort
          /\ again.node = found.node /\ again.extra = meta /\ again.healthy = found.healthy
          /\ again.name = NameBack[found.name] /\ again.ephemeral = found.ephemeral
      BY <2>2, <2>5 DEF Returned, meta
    <3>3. NameBack[found.name] \in ServiceName
      BY <2>1, NacosConstants DEF Instances
    <3> DEFINE both == [found EXCEPT !.name = NameBack[found.name], !.extra = meta]
    <3>4. DOMAIN both = DOMAIN found /\ DOMAIN again = DOMAIN found
          /\ DOMAIN found = {"name", "privateIp", "innerIp", "publicIp", "privatePort", "innerPort",
                             "publicPort", "node", "healthy", "ephemeral", "extra"}
      BY <2>1, <3>1 DEF Instances
    <3>5. \A f \in DOMAIN found : both[f] = again[f]
      BY <2>1, <2>6, <3>2, <3>4
    <3>6. both = [f \in DOMAIN both |-> both[f]] /\ again = [f \in DOMAIN again |-> again[f]]
      BY <2>1, <3>1 DEF Instances
    <3> HIDE DEF both
    <3> QED
      BY <3>4, <3>5, <3>6 DEF both
  <2> HIDE DEF again, meta
  <2>9. again = [found EXCEPT !.name = NameBack[found.name],
                              !.extra["inner_ip"] = found.innerIp,
                              !.extra["public_ip"] = found.publicIp]
    BY <2>1, <2>7, <2>8 DEF Instances
  <2> QED
    BY <2>2, <2>3, <2>4, <2>9 DEF again, Returned
<1> QED
  BY <1>1, <1>2 DEF ReadsBack

LEMMA NacosInitInv == NacosInit => NacosInv
BY DEF NacosInit, NacosInv

\* Ports and nodes stay in the ranges of their integers.
LEMMA NacosInvTypes == NacosInv => NacosTypeOK
<1>1. \A x \in Entries : /\ x.port \in 0..(Wide - 1) /\ x.name \in ServiceName
                         /\ DOMAIN x = {"name", "group", "ip", "port", "meta", "ephemeral"}
  BY DEF Entries
<1>2. \A x \in Instances : \A p \in {"privatePort", "innerPort", "publicPort", "node"} :
          x[p] \in -Half..(Half - 1)
  BY DEF Instances
<1> QED
  BY <1>1, <1>2 DEF NacosInv, NacosTypeOK

\* The registry's entry and what is found are of their types
\* (nacos_client.go:208-279).
THEOREM NacosTypeCorrect == NacosBehaviour => []NacosTypeOK
BY NacosInitInv, NacosInvTypes, NacosStep, PTL DEF NacosBehaviour

\* An instance comes back from the registry with the addresses, ports and node
\* it was registered with, however often what was found is registered again;
\* a Deregister names it, but not as the ephemeral instance that it is
\* (nacos_client.go:175-179 and 208-279, nacos_naming_cli.go:50-120,
\* server.go:125).
THEOREM ReadsBackAlways == NacosBehaviour => []ReadsBack
BY NacosInitInv, InvReadsBack, NacosStep, PTL DEF NacosBehaviour

----------------------------------------------------------------------------
(* The byte streams.                                                       *)

\* An integer below m * m is two integers below m.
LEMMA Halves ==
    ASSUME NEW m \in Nat \ {0}, NEW v \in 0..(m * m - 1)
    PROVE  v \div m \in 0..(m - 1) /\ v % m \in 0..(m - 1) /\ (v \div m) * m + (v % m) = v
<1>1. v \in Int
  OBVIOUS
<1> DEFINE q == v \div m  r == v % m
<1>2. q \in Int /\ r \in 0..(m - 1) /\ v = m * q + r
  BY <1>1, DivMod
<1> HIDE DEF q, r
<1>3. q >= 0
  <2> SUFFICES ASSUME q <= -1 PROVE FALSE
    BY <1>2
  <2>1. m * q <= m * (-1)
    BY <1>2
  <2> QED
    BY <1>2, <2>1
<1>4. q <= m - 1
  <2> SUFFICES ASSUME q >= m PROVE FALSE
    BY <1>2
  <2>1. m * q >= m * m
    BY <1>2
  <2> QED
    BY <1>2, <2>1
<1>5. q * m = m * q
  BY <1>2
<1>6. q \in 0..(m - 1) /\ r \in 0..(m - 1) /\ q * m + r = v
  BY <1>2, <1>3, <1>4, <1>5
<1> QED
  BY <1>6 DEF q, r

\* Two sequences put together, and a part of one.
LEMMA Joined ==
    ASSUME NEW S, NEW s \in Seq(S), NEW t \in Seq(S)
    PROVE  /\ s \o t \in Seq(S) /\ Len(s \o t) = Len(s) + Len(t)
           /\ \A j \in 1..Len(s) : (s \o t)[j] = s[j]
           /\ \A j \in 1..Len(t) : (s \o t)[Len(s) + j] = t[j]
BY ConcatProperties

\* A part of a sequence.
LEMMA Sliced ==
    ASSUME NEW S, NEW s \in Seq(S), NEW m \in Nat, NEW n \in Nat, m + n <= Len(s)
    PROVE  /\ SubSeq(s, m + 1, m + n) \in Seq(S) /\ Len(SubSeq(s, m + 1, m + n)) = n
           /\ \A j \in 1..n : SubSeq(s, m + 1, m + n)[j] = s[m + j]
<1>1. \A j \in 1..n : s[m + j] \in S
  OBVIOUS
<1> QED
  BY <1>1

\* Two sequences of the same length with the same elements.
LEMMA SameSeq ==
    ASSUME NEW S, NEW s \in Seq(S), NEW t \in Seq(S), Len(s) = Len(t), \A j \in 1..Len(s) : s[j] = t[j]
    PROVE  s = t
OBVIOUS

\* Two parts of n bytes are put together and taken apart again.
LEMMA JoinFacts ==
    ASSUME NEW n \in Nat, NEW hi \in Seq(Byte), NEW lo \in Seq(Byte), Len(hi) = n, Len(lo) = n
    PROVE  /\ Join(hi, lo) \in Seq(Byte) /\ Len(Join(hi, lo)) = 2 * n
           /\ High(Join(hi, lo), n) = hi /\ Low(Join(hi, lo), n) = lo
<1>1. ASSUME NEW s \in Seq(Byte), NEW t \in Seq(Byte), Len(s) = n, Len(t) = n
      PROVE  /\ s \o t \in Seq(Byte) /\ Len(s \o t) = 2 * n
             /\ SubSeq(s \o t, 1, n) = s /\ SubSeq(s \o t, n + 1, 2 * n) = t
  <2>1. PICK u : u = s \o t
    OBVIOUS
  <2>2. /\ u \in Seq(Byte) /\ Len(u) = Len(s) + Len(t)
        /\ \A j \in 1..Len(s) : u[j] = s[j]
        /\ \A j \in 1..Len(t) : u[Len(s) + j] = t[j]
    BY <2>1, Joined
  <2>3. Len(u) = 2 * n /\ (\A j \in 1..n : u[j] = s[j]) /\ (\A j \in 1..n : u[n + j] = t[j])
    BY <1>1, <2>2
  <2>4. SubSeq(u, 1, n) = s
    <3>1. /\ SubSeq(u, 0 + 1, 0 + n) \in Seq(Byte) /\ Len(SubSeq(u, 0 + 1, 0 + n)) = n
          /\ \A j \in 1..n : SubSeq(u, 0 + 1, 0 + n)[j] = u[0 + j]
      BY <2>2, <2>3, Sliced
    <3>2. 0 + 1 = 1 /\ 0 + n = n /\ \A j \in 1..n : 0 + j = j
      OBVIOUS
    <3> QED
      BY <1>1, <2>3, <3>1, <3>2, SameSeq
  <2>5. SubSeq(u, n + 1, 2 * n) = t
    <3>1. /\ SubSeq(u, n + 1, n + n) \in Seq(Byte) /\ Len(SubSeq(u, n + 1, n + n)) = n
          /\ \A j \in 1..n : SubSeq(u, n + 1, n + n)[j] = u[n + j]
      BY <2>2, <2>3, Sliced
    <3>2. n + n = 2 * n
      OBVIOUS
    <3> QED
      BY <1>1, <2>3, <3>1, <3>2, SameSeq
  <2> QED
    BY <2>1, <2>2, <2>3, <2>4, <2>5
<1> QED
  BY <1>1 DEF Join, High, Low

\* What is put into 1, 2, 4 or 8 bytes is got from them.
LEMMA CodecFacts ==
    ASSUME NEW w \in Width, NEW v \in 0..(Values(w) - 1)
    PROVE  Encode(w, v) \in Seq(Byte) /\ Len(Encode(w, v)) = w /\ Decode(Encode(w, v)) = v
<1>0. Base \in Nat \ {0} /\ Base2 \in Nat \ {0} /\ Base4 \in Nat \ {0}
  <2>1. Base \in Nat \ {0}
    BY StreamConstants
  <2>2. \A m \in Nat \ {0} : m * m \in Nat \ {0}
    OBVIOUS
  <2> QED
    BY <2>1, <2>2 DEF Base2, Base4
<1>1. ASSUME NEW x \in 0..(Base - 1)
      PROVE <<x>> \in Seq(Byte) /\ Len(<<x>>) = 1 /\ <<x>>[1] = x
  BY DEF Byte
<1>2. ASSUME NEW x \in 0..(Base2 - 1)
      PROVE Put2(x) \in Seq(Byte) /\ Len(Put2(x)) = 2 /\ Get2(Put2(x)) = x
  <2>1. /\ x \div Base \in 0..(Base - 1) /\ x % Base \in 0..(Base - 1)
        /\ (x \div Base) * Base + (x % Base) = x
    BY <1>0, Halves DEF Base2
  <2> DEFINE hi == <<x \div Base>>  lo == <<x % Base>>
  <2>2. /\ hi \in Seq(Byte) /\ Len(hi) = 1 /\ hi[1] = x \div Base
        /\ lo \in Seq(Byte) /\ Len(lo) = 1 /\ lo[1] = x % Base
    BY <1>1, <2>1
  <2>3. Put2(x) = Join(hi, lo)
    BY DEF Put2
  <2> HIDE DEF hi, lo
  <2>4. /\ Join(hi, lo) \in Seq(Byte) /\ Len(Join(hi, lo)) = 2 * 1
        /\ High(Join(hi, lo), 1) = hi /\ Low(Join(hi, lo), 1) = lo
    BY <2>2, JoinFacts
  <2> QED
    BY <2>1, <2>2, <2>3, <2>4 DEF Get2
<1>3. ASSUME NEW x \in 0..(Base4 - 1)
      PROVE Put4(x) \in Seq(Byte) /\ Len(Put4(x)) = 4 /\ Get4(Put4(x)) = x
  <2>1. /\ x \div Base2 \in 0..(Base2 - 1) /\ x % Base2 \in 0..(Base2 - 1)
        /\ (x \div Base2) * Base2 + (x % Base2) = x
    BY <1>0, Halves DEF Base4
  <2> DEFINE hi == Put2(x \div Base2)  lo == Put2(x % Base2)
  <2>2. /\ hi \in Seq(Byte) /\ Len(hi) = 2 /\ Get2(hi) = x \div Base2
        /\ lo \in Seq(Byte) /\ Len(lo) = 2 /\ Get2(lo) = x % Base2
    BY <1>2, <2>1
  <2>3. Put4(x) = Join(hi, lo)
    BY DEF Put4
  <2> HIDE DEF hi, lo
  <2>4. /\ Join(hi, lo) \in Seq(Byte) /\ Len(Join(hi, lo)) = 2 * 2
        /\ High(Join(hi, lo), 2) = hi /\ Low(Join(hi, lo), 2) = lo
    BY <2>2, JoinFacts
  <2> QED
    BY <2>1, <2>2, <2>3, <2>4 DEF Get4
<1>4. ASSUME NEW x \in 0..(Base4 * Base4 - 1)
      PROVE Put8(x) \in Seq(Byte) /\ Len(Put8(x)) = 8 /\ Get8(Put8(x)) = x
  <2>1. /\ x \div Base4 \in 0..(Base4 - 1) /\ x % Base4 \in 0..(Base4 - 1)
        /\ (x \div Base4) * Base4 + (x % Base4) = x
    BY <1>0, Halves
  <2> DEFINE hi == Put4(x \div Base4)  lo == Put4(x % Base4)
  <2>2. /\ hi \in Seq(Byte) /\ Len(hi) = 4 /\ Get4(hi) = x \div Base4
        /\ lo \in Seq(Byte) /\ Len(lo) = 4 /\ Get4(lo) = x % Base4
    BY <1>3, <2>1
  <2>3. Put8(x) = Join(hi, lo)
    BY DEF Put8
  <2> HIDE DEF hi, lo
  <2>4. /\ Join(hi, lo) \in Seq(Byte) /\ Len(Join(hi, lo)) = 2 * 4
        /\ High(Join(hi, lo), 4) = hi /\ Low(Join(hi, lo), 4) = lo
    BY <2>2, JoinFacts
  <2> QED
    BY <2>1, <2>2, <2>3, <2>4 DEF Get8
<1>5. CASE w = 1
  BY <1>1, <1>5 DEF Values, Encode, Decode
<1>6. CASE w = 2
  <2>1. Encode(w, v) = Put2(v) /\ Values(w) = Base2
    BY <1>6 DEF Values, Encode
  <2>2. Len(Put2(v)) = 2 => Decode(Put2(v)) = Get2(Put2(v))
    BY DEF Decode
  <2> QED
    BY <1>2, <1>6, <2>1, <2>2
<1>7. CASE w = 4
  <2>1. Encode(w, v) = Put4(v) /\ Values(w) = Base4
    BY <1>7 DEF Values, Encode
  <2>2. Len(Put4(v)) = 4 => Decode(Put4(v)) = Get4(Put4(v))
    BY DEF Decode
  <2> QED
    BY <1>3, <1>7, <2>1, <2>2
<1>8. CASE w = 8
  <2>1. Encode(w, v) = Put8(v) /\ Values(w) = Base4 * Base4
    BY <1>8 DEF Values, Encode
  <2>2. Len(Put8(v)) = 8 => Decode(Put8(v)) = Get8(Put8(v))
    BY DEF Decode
  <2> QED
    BY <1>4, <1>8, <2>1, <2>2
<1> QED
  BY <1>5, <1>6, <1>7, <1>8 DEF Width

\* The bytes b of an item that has been written with room bytes left behind it:
\* a string that did not fit has left a length that leads out of the buffer.
Item == [kind : {"uint", "buff", "string", "half"}, size : Nat, value : Seq(Nat)]
Result == [ok : BOOLEAN, value : Seq(Nat)]

Image(it, b, room) ==
    /\ b \in Seq(Byte) /\ it.size = Len(b)
    /\ \/ /\ it.kind = "uint" /\ Len(b) \in Width
          /\ \E v \in 0..(Values(Len(b)) - 1) : it.value = <<v>> /\ b = Encode(Len(b), v)
       \/ it.kind = "buff" /\ it.value = b
       \/ /\ it.kind = "string" /\ it.value \in Seq(Byte) /\ Len(it.value) < Base2
          /\ b = Encode(2, Len(it.value)) \o it.value
       \/ it.kind = "half" /\ \E n \in 0..(Base2 - 1) : n > room /\ b = Encode(2, n)

\* Item k is in the buffer from cut[k - 1] to cut[k], and the cursor is at the
\* end of what was written or read.
At(b, x) == \A j \in 1..Len(b) : buff[x + j] = b[j]

Laid(cut) ==
    /\ cut[0] = 0 /\ \A k \in 0..Len(sent) : cut[k] \in Nat /\ cut[k] <= cut[Len(sent)]
    /\ \A k \in 1..Len(sent) :
        /\ cut[k] = cut[k - 1] + sent[k].size
        /\ \E b : Image(sent[k], b, Capacity - cut[k]) /\ At(b, cut[k - 1])
    /\ cut[Len(sent)] <= Capacity
    /\ side = "write" => pos = cut[Len(sent)]
    /\ side = "read" => Len(buff) = cut[Len(sent)] /\ pos = cut[Len(back)]

Echoes ==
    \A k \in 1..Len(back) :
        /\ back[k].ok = (sent[k].kind # "half")
        /\ back[k].ok => back[k].value = sent[k].value

StreamInv ==
    /\ StreamTypeOK
    /\ sent \in Seq(Item) /\ back \in Seq(Result)
    /\ side = "write" => Len(buff) = Capacity /\ back = <<>>
    /\ Echoes
    /\ \E cut : Laid(cut)

\* The byte order never changes, and so the bytes of an item do not.
LEMMA ImageStays ==
    ASSUME NEW it, NEW b, NEW room, UNCHANGED order
    PROVE  Image(it, b, room)' <=> Image(it, b, room)
<1>1. ASSUME NEW x, NEW y PROVE Join(x, y)' = Join(x, y)
  BY DEF Join
<1>2. ASSUME NEW v PROVE Put2(v)' = Put2(v)
  BY <1>1 DEF Put2
<1>3. ASSUME NEW v PROVE Put4(v)' = Put4(v)
  <2>1. PICK x, y : x = Put2(v \div Base2) /\ y = Put2(v % Base2)
    OBVIOUS
  <2>2. x = Put2(v \div Base2)' /\ y = Put2(v % Base2)'
    BY <1>2, <2>1
  <2> QED
    BY <1>1, <2>1, <2>2 DEF Put4
<1>4. ASSUME NEW v PROVE Put8(v)' = Put8(v)
  <2>1. PICK x, y : x = Put4(v \div Base4) /\ y = Put4(v % Base4)
    OBVIOUS
  <2>2. x = Put4(v \div Base4)' /\ y = Put4(v % Base4)'
    BY <1>3, <2>1
  <2> QED
    BY <1>1, <2>1, <2>2 DEF Put8
<1>5. ASSUME NEW w, NEW v PROVE Encode(w, v)' = Encode(w, v)
  BY <1>2, <1>3, <1>4 DEF Encode
<1> QED
  BY <1>5, Zenon DEF Image

\* Nothing written.
LEMMA StreamInitInv ==
    ASSUME StreamInit
    PROVE  StreamInv
<1> USE DEF StreamInit
<1>1. StreamTypeOK
  <2>1. Capacity \in Nat /\ 0 \in Byte
    BY StreamConstants DEF Byte
  <2> QED
    BY <2>1 DEF StreamTypeOK
<1>2. Laid([k \in Nat |-> 0])
  <2> DEFINE zero == [k \in Nat |-> 0]
  <2>1. zero[0] = 0
    OBVIOUS
  <2>2. Len(sent) = 0 /\ Capacity \in Nat /\ side = "write" /\ pos = 0
    BY StreamConstants
  <2> HIDE DEF zero
  <2> QED
    BY <2>1, <2>2 DEF Laid, zero
<1>3. sent \in Seq(Item) /\ back \in Seq(Result) /\ Echoes /\ Len(buff) = Capacity /\ back = <<>>
  BY StreamConstants DEF Echoes
<1> QED
  BY <1>1, <1>2, <1>3 DEF StreamInv

\* One more item: the cuts go on.
LEMMA CutGrows ==
    ASSUME NEW cut, NEW l \in Nat, NEW e \in Nat
    PROVE  \E d : d[l + 1] = e /\ \A k \in 0..l : d[k] = cut[k]
<1> DEFINE d == [k \in Nat |-> IF k = l + 1 THEN e ELSE cut[k]]
<1>1. d[l + 1] = e /\ \A k \in 0..l : d[k] = cut[k]
  OBVIOUS
<1> HIDE DEF d
<1> QED
  BY <1>1

\* Writing an item that fits keeps the invariant.
LEMMA WritesStep ==
    ASSUME StreamInv, side = "write", NEW kind, NEW v, NEW bytes, NEW it,
           it = [kind |-> kind, size |-> Len(bytes), value |-> v], it \in Item,
           Left >= Len(bytes), Image(it, bytes, Capacity - (pos + Len(bytes))),
           Writes(kind, v, bytes)
    PROVE  StreamInv'
<1>1. /\ buff \in Seq(Byte) /\ bytes \in Seq(Byte) /\ sent \in Seq(Item) /\ Len(buff) = Capacity
      /\ Capacity \in Nat /\ pos \in Nat /\ Len(bytes) \in Nat /\ pos + Len(bytes) <= Capacity
      /\ back = <<>>
  BY StreamConstants DEF StreamInv, StreamTypeOK, Image, Left
<1>2. /\ buff' = Patched(bytes) /\ pos' = pos + Len(bytes) /\ sent' = Append(sent, it)
      /\ UNCHANGED <<order, side, back>>
  BY DEF Writes
<1>3. PICK cut : Laid(cut)
  BY DEF StreamInv
<1>4. PICK L \in Nat : L = Len(sent)
  BY <1>1
<1>5. sent' \in Seq(Item) /\ Len(sent') = L + 1 /\ sent'[L + 1] = it /\ \A k \in 1..L : sent'[k] = sent[k]
  BY <1>1, <1>2, <1>4
<1>6. /\ buff' \in Seq(Byte) /\ Len(buff') = Capacity
      /\ \A x \in 1..pos : buff'[x] = buff[x]
      /\ \A j \in 1..Len(bytes) : buff'[pos + j] = bytes[j]
  <2>1. DOMAIN buff = 1..Capacity
    BY <1>1
  <2>2. \A x \in 1..Capacity :
            (IF x \in (pos + 1)..(pos + Len(bytes)) THEN bytes[x - pos] ELSE buff[x]) \in Byte
    BY <1>1
  <2>3. buff' = [x \in 1..Capacity |-> IF x \in (pos + 1)..(pos + Len(bytes)) THEN bytes[x - pos] ELSE buff[x]]
    BY <1>2, <2>1 DEF Patched
  <2>4. buff' \in Seq(Byte) /\ Len(buff') = Capacity
    BY <1>1, <2>2, <2>3
  <2>5. \A x \in 1..pos : buff'[x] = buff[x]
    BY <1>1, <2>3
  <2>6. \A j \in 1..Len(bytes) : buff'[pos + j] = bytes[j]
    <3>1. \A j \in 1..Len(bytes) : pos + j \in 1..Capacity /\ pos + j \in (pos + 1)..(pos + Len(bytes))
                                   /\ (pos + j) - pos = j
      BY <1>1
    <3> QED
      BY <2>3, <3>1
  <2> QED
    BY <2>4, <2>5, <2>6
<1>7. PICK d : d[L + 1] = pos + Len(bytes) /\ \A k \in 0..L : d[k] = cut[k]
  <2>1. pos + Len(bytes) \in Nat
    BY <1>1
  <2> QED
    BY <2>1, CutGrows
<1>8. /\ cut[0] = 0 /\ (\A k \in 0..L : cut[k] \in Nat /\ cut[k] <= pos) /\ pos = cut[L]
      /\ \A k \in 1..L : /\ cut[k] = cut[k - 1] + sent[k].size
                         /\ \E b : Image(sent[k], b, Capacity - cut[k]) /\ At(b, cut[k - 1])
  BY <1>3, <1>4 DEF Laid
<1>9. d[0] = 0 /\ \A k \in 0..(L + 1) : d[k] \in Nat /\ d[k] <= d[L + 1]
  <2>1. \A k \in 0..L : d[k] = cut[k] /\ cut[k] \in Nat /\ cut[k] <= pos
    BY <1>7, <1>8
  <2>2. d[L + 1] \in Nat /\ d[L + 1] >= pos
    BY <1>1, <1>7
  <2>3. \A k \in 0..(L + 1) : k = L + 1 \/ k \in 0..L
    OBVIOUS
  <2>4. 0 \in 0..L
    OBVIOUS
  <2>5. d[0] = 0
    BY <1>7, <1>8, <2>4
  <2>6. pos \in Nat
    BY <1>1
  <2> QED
    BY ONLY <2>1, <2>2, <2>3, <2>5, <2>6
<1>10. ASSUME NEW k \in 1..(L + 1)
       PROVE  /\ d[k] = d[k - 1] + sent'[k].size
              /\ (\E b : Image(sent[k], b, Capacity - d[k]) /\ At(b, d[k - 1]))'
  <2>1. CASE k = L + 1
    <3>1. d[k] = pos + Len(bytes) /\ d[k - 1] = pos /\ sent'[k] = it /\ it.size = Len(bytes)
      BY <1>5, <1>7, <1>8, <2>1
    <3>2. At(bytes, d[k - 1])'
      BY <1>6, <3>1 DEF At
    <3>3. Image(it, bytes, Capacity - d[k])'
      BY <1>2, <3>1, ImageStays
    <3> QED
      BY <3>1, <3>2, <3>3
  <2>2. CASE k \in 1..L
    <3>1. d[k] = cut[k] /\ d[k - 1] = cut[k - 1] /\ sent'[k] = sent[k]
          /\ cut[k] = cut[k - 1] + sent[k].size /\ cut[k] <= pos /\ cut[k - 1] \in Nat
      BY <1>5, <1>7, <1>8, <2>2, SMTT(60)
    <3>2. PICK b : Image(sent[k], b, Capacity - cut[k]) /\ At(b, cut[k - 1])
      BY <1>8, <2>2
    <3>3. Image(sent[k], b, Capacity - d[k])'
      <4>1. PICK e : e = sent[k]
        OBVIOUS
      <4>2. Image(e, b, Capacity - d[k])'
        BY <1>2, <3>1, <3>2, <4>1, ImageStays
      <4> QED
        BY <3>1, <4>1, <4>2
    <3>4. At(b, d[k - 1])'
      <4>1. sent[k].size = Len(b) /\ Len(b) \in Nat
        BY <3>2 DEF Image
      <4>2. \A j \in 1..Len(b) : cut[k - 1] + j \in 1..pos
        <5>1. cut[k - 1] + Len(b) <= pos /\ cut[k - 1] \in Nat
          BY <3>1, <4>1
        <5> QED
          BY ONLY <1>1, <4>1, <5>1, SMTT(60)
      <4> QED
        BY <1>6, <3>1, <3>2, <4>2 DEF At
    <3> QED
      BY <3>1, <3>3, <3>4
  <2> QED
    BY <2>1, <2>2
<1>11. Laid(d)'
  <2>1. Len(sent') = L + 1 /\ d[L + 1] <= Capacity /\ pos' = d[L + 1] /\ side' = "write"
    BY <1>1, <1>2, <1>5, <1>7
  <2>2. side' # "read"
    BY <2>1
  <2> QED
    BY <1>9, <1>10, <2>1, <2>2 DEF Laid
<1>12. StreamTypeOK'
  BY <1>1, <1>2, <1>5, <1>6 DEF StreamInv, StreamTypeOK
<1>13. Echoes' /\ back' \in Seq(Result)
  BY <1>1, <1>2 DEF Echoes
<1> QED
  BY <1>1, <1>2, <1>5, <1>6, <1>11, <1>12, <1>13 DEF StreamInv

\* The bytes of the item that is read next.
LEMMA NextItem ==
    ASSUME StreamInv, side = "read", Len(back) < Len(sent)
    PROVE  /\ Upcoming \in Item /\ Upcoming = sent[Len(back) + 1]
           /\ \E b, room : /\ Image(Upcoming, b, room) /\ At(b, pos) /\ Len(b) = Upcoming.size
                           /\ room \in Int /\ pos + Len(b) <= Len(buff)
                           /\ Len(buff) - (pos + Len(b)) <= room
<1>1. sent \in Seq(Item) /\ back \in Seq(Result) /\ buff \in Seq(Byte) /\ Len(buff) \in Nat /\ pos \in Nat
      /\ Capacity \in Nat
  BY StreamConstants DEF StreamInv, StreamTypeOK
<1>2. PICK cut : Laid(cut)
  BY DEF StreamInv
<1>3. PICK k \in 1..Len(sent) : k = Len(back) + 1
  BY <1>1
<1>4. Upcoming = sent[k] /\ sent[k] \in Item /\ k - 1 = Len(back)
  BY <1>1, <1>3 DEF Upcoming
<1>5. /\ cut[k] = cut[k - 1] + sent[k].size /\ cut[k] \in Nat /\ cut[k] <= cut[Len(sent)]
      /\ cut[Len(sent)] <= Capacity /\ Len(buff) = cut[Len(sent)] /\ pos = cut[k - 1]
      /\ \E b : Image(sent[k], b, Capacity - cut[k]) /\ At(b, cut[k - 1])
  <2>1. k \in 0..Len(sent) /\ Len(back) \in Nat
    BY <1>1
  <2>2. cut[k] \in Nat /\ cut[k] <= cut[Len(sent)]
    BY <1>2, <2>1 DEF Laid
  <2>3. /\ cut[k] = cut[k - 1] + sent[k].size
        /\ \E b : Image(sent[k], b, Capacity - cut[k]) /\ At(b, cut[k - 1])
    BY <1>2 DEF Laid
  <2>4. cut[Len(sent)] <= Capacity /\ Len(buff) = cut[Len(sent)] /\ pos = cut[Len(back)]
    BY <1>2 DEF Laid
  <2> QED
    BY <1>4, <2>2, <2>3, <2>4
<1>6. PICK b : Image(sent[k], b, Capacity - cut[k]) /\ At(b, pos)
  BY <1>5
<1>7. Len(b) = sent[k].size /\ Len(b) \in Nat
  BY <1>6 DEF Image
<1>8. PICK room \in Int : room = Capacity - cut[k]
  BY <1>1, <1>5
<1>9. cut[k] = pos + Len(b)
  BY <1>5, <1>7
<1>10. pos + Len(b) <= Len(buff) /\ Len(buff) - (pos + Len(b)) <= room
  BY <1>1, <1>5, <1>7, <1>8, <1>9
<1> QED
  BY <1>3, <1>4, <1>6, <1>7, <1>8, <1>10

\* Reading an item keeps the invariant, if the result is what was written.
LEMMA ReadsStep ==
    ASSUME StreamInv, side = "read", Len(back) < Len(sent), NEW n, NEW ok \in BOOLEAN, NEW v \in Seq(Nat),
           n = Upcoming.size, ok = (Upcoming.kind # "half"), ok => v = Upcoming.value, Reads(n, ok, v)
    PROVE  StreamInv'
<1>1. /\ sent \in Seq(Item) /\ back \in Seq(Result) /\ buff \in Seq(Byte) /\ pos \in Nat
      /\ Len(buff) \in Nat /\ Len(back) \in Nat /\ Len(sent) \in Nat /\ Capacity \in Nat
  BY StreamConstants DEF StreamInv, StreamTypeOK
<1>2. /\ pos' = pos + n /\ back' = Append(back, [ok |-> ok, value |-> v])
      /\ UNCHANGED <<order, buff, side, sent>>
  BY DEF Reads
<1>3. PICK r \in Result : r = [ok |-> ok, value |-> v]
  BY DEF Result
<1>4. back' \in Seq(Result) /\ Len(back') = Len(back) + 1 /\ back'[Len(back) + 1] = r
      /\ \A k \in 1..Len(back) : back'[k] = back[k]
  BY <1>1, <1>2, <1>3
<1>5. Upcoming = sent[Len(back) + 1] /\ Upcoming \in Item
  BY NextItem
<1>6. Echoes'
  <2>1. ASSUME NEW k \in 1..(Len(back) + 1)
        PROVE  /\ back'[k].ok = (sent[k].kind # "half")
               /\ back'[k].ok => back'[k].value = sent[k].value
    <3>1. CASE k = Len(back) + 1
      BY <1>3, <1>4, <1>5, <3>1
    <3>2. CASE k \in 1..Len(back)
      BY <1>4, <3>2 DEF StreamInv, Echoes
    <3> QED
      BY <1>1, <3>1, <3>2
  <2> QED
    BY <1>2, <1>4, <2>1 DEF Echoes
<1>7. PICK cut : Laid(cut)
  BY DEF StreamInv
<1>8. cut[Len(back) + 1] = cut[Len(back)] + n /\ pos = cut[Len(back)]
      /\ cut[Len(back) + 1] \in Nat /\ cut[Len(back) + 1] <= Len(buff)
  <2>0. Len(back) + 1 \in 1..Len(sent)
    BY ONLY <1>1, Len(back) < Len(sent)
  <2>1. PICK k \in 1..Len(sent) : k = Len(back) + 1
    BY <2>0
  <2>2. k - 1 = Len(back) /\ sent[k].size = n
    BY <1>1, <1>5, <2>1
  <2>3. cut[k] = cut[k - 1] + sent[k].size /\ cut[k] \in Nat /\ cut[k] <= Len(buff) /\ pos = cut[Len(back)]
    BY <1>7 DEF Laid
  <2> QED
    BY <2>1, <2>2, <2>3
<1>9. Laid(cut)'
  <2>1. \A k \in 1..Len(sent) : (\E b : Image(sent[k], b, Capacity - cut[k]) /\ At(b, cut[k - 1]))'
    <3> SUFFICES ASSUME NEW k \in 1..Len(sent)
                 PROVE  (\E b : Image(sent[k], b, Capacity - cut[k]) /\ At(b, cut[k - 1]))'
      OBVIOUS
    <3>1. PICK b, e : e = sent[k] /\ Image(e, b, Capacity - cut[k]) /\ At(b, cut[k - 1])
      BY <1>7 DEF Laid
    <3>2. Image(e, b, Capacity - cut[k])'
      BY <1>2, <3>1, ImageStays
    <3>3. At(b, cut[k - 1])' /\ e = sent'[k]
      BY <1>2, <3>1 DEF At
    <3> QED
      BY <3>2, <3>3
  <2>2. pos' = cut[Len(back')]
    BY <1>2, <1>4, <1>8
  <2> QED
    BY <1>2, <1>7, <2>1, <2>2 DEF Laid
<1>10. StreamTypeOK'
  BY <1>1, <1>2, <1>4, <1>8 DEF StreamInv, StreamTypeOK
<1>11. side' # "write"
  BY <1>2
<1> QED
  BY <1>1, <1>2, <1>4, <1>6, <1>9, <1>10, <1>11 DEF StreamInv

\* The texts fit in the two bytes of a length.
TextsFit == \A t \in Texts : Len(t) < Base2

\* Every step of a writer or a reader keeps the invariant.
LEMMA StreamStep ==
    ASSUME TextsFit, StreamInv, StreamNext
    PROVE  StreamInv'
<1>0. Base \in Nat /\ Base2 \in Nat \ {0} /\ Byte \subseteq Nat /\ Capacity \in Nat /\ 2 \in Width
  <2>1. Base \in Nat \ {0} /\ Capacity \in Nat
    BY StreamConstants
  <2> QED
    BY <2>1 DEF Base2, Byte, Width
<1>1. /\ buff \in Seq(Byte) /\ Len(buff) \in Nat /\ pos \in Nat /\ pos <= Len(buff)
      /\ side = "write" => Len(buff) = Capacity
  BY DEF StreamInv, StreamTypeOK
<1>2. ASSUME NEW t \in Texts
      PROVE  /\ t \in Seq(Byte) /\ t \in Seq(Nat) /\ Len(t) \in 0..(Base2 - 1)
             /\ Len(t) % Base2 = Len(t)
  <2>1. t \in Seq(Byte)
    BY StreamConstants
  <2>2. t \in Seq(Nat) /\ Len(t) \in Nat
    BY <1>0, <2>1, WiderSeq
  <2>3. Len(t) \in 0..(Base2 - 1)
    BY <1>0, <2>2 DEF TextsFit
  <2>4. \A m \in Nat \ {0} : \A x \in 0..(m - 1) : x % m = x
    OBVIOUS
  <2> QED
    BY <1>0, <2>1, <2>2, <2>3, <2>4
<1>3. ASSUME NEW x \in 0..(Base2 - 1)
      PROVE  Encode(2, x) \in Seq(Byte) /\ Len(Encode(2, x)) = 2 /\ Decode(Encode(2, x)) = x
  <2>1. Values(2) = Base2
    BY DEF Values
  <2> QED
    BY <1>0, <2>1, CodecFacts
<1>4. ASSUME NEW w \in Width, NEW v \in Samples(w), WriteUint(w, v) PROVE StreamInv'
  <2>1. v \in 0..(Values(w) - 1) /\ v \in Nat /\ w \in Nat
    BY DEF Samples, Width
  <2>2. PICK b : b = Encode(w, v)
    OBVIOUS
  <2>3. b \in Seq(Byte) /\ Len(b) = w
    BY <2>1, <2>2, CodecFacts
  <2>4. side = "write" /\ Left >= w /\ Writes("uint", <<v>>, b)
    BY <1>4, <2>2 DEF WriteUint
  <2>5. PICK it : it = [kind |-> "uint", size |-> Len(b), value |-> <<v>>]
    OBVIOUS
  <2>6. it \in Item
    BY <2>1, <2>3, <2>5 DEF Item
  <2>7. Image(it, b, Capacity - (pos + Len(b)))
    BY <2>1, <2>2, <2>3, <2>5 DEF Image
  <2> QED
    BY <2>3, <2>4, <2>5, <2>6, <2>7, WritesStep
<1>5. ASSUME NEW t \in Texts, WriteBuff(t) PROVE StreamInv'
  <2>1. t \in Seq(Byte) /\ t \in Seq(Nat) /\ Len(t) \in Nat
    BY <1>2
  <2>2. side = "write" /\ Left >= Len(t) /\ Writes("buff", t, t)
    BY <1>5 DEF WriteBuff
  <2>3. PICK it : it = [kind |-> "buff", size |-> Len(t), value |-> t]
    OBVIOUS
  <2>4. it \in Item /\ Image(it, t, Capacity - (pos + Len(t)))
    BY <2>1, <2>3 DEF Item, Image
  <2> QED
    BY <2>2, <2>3, <2>4, WritesStep
<1>6. ASSUME NEW t \in Texts, WriteString(t) PROVE StreamInv'
  <2>1. t \in Seq(Byte) /\ t \in Seq(Nat) /\ Len(t) \in 0..(Base2 - 1) /\ Len(t) % Base2 = Len(t)
    BY <1>2
  <2>2. PICK h : h = Encode(2, Len(t)) /\ h \in Seq(Byte) /\ Len(h) = 2
    BY <1>3, <2>1
  <2>9. h \o t \in Seq(Byte) /\ Len(h \o t) = Len(h) + Len(t)
    BY <2>1, <2>2, Joined
  <2>3. PICK b : b = h \o t /\ b \in Seq(Byte) /\ Len(b) = 2 + Len(t)
    BY <2>2, <2>9
  <2>4. side = "write" /\ Left >= Len(b) /\ Writes("string", t, b)
    BY <1>6, <2>1, <2>2, <2>3 DEF WriteString
  <2>5. PICK it : it = [kind |-> "string", size |-> Len(b), value |-> t]
    OBVIOUS
  <2>6. it \in Item
    BY <2>1, <2>3, <2>5 DEF Item
  <2>7. Image(it, b, Capacity - (pos + Len(b)))
    BY <1>0, <2>1, <2>2, <2>3, <2>5 DEF Image
  <2> QED
    BY <2>4, <2>5, <2>6, <2>7, WritesStep
<1>7. ASSUME NEW t \in Texts, WriteStringFails(t) PROVE StreamInv'
  <2>1. Len(t) \in 0..(Base2 - 1) /\ Len(t) % Base2 = Len(t)
    BY <1>2
  <2>2. PICK h : h = Encode(2, Len(t)) /\ h \in Seq(Byte) /\ Len(h) = 2
    BY <1>3, <2>1
  <2>3. side = "write" /\ Left >= 2 /\ Left < 2 + Len(t) /\ Writes("half", <<>>, h)
    BY <1>7, <2>1, <2>2 DEF WriteStringFails
  <2>4. PICK it : it = [kind |-> "half", size |-> Len(h), value |-> <<>>]
    OBVIOUS
  <2>5. it \in Item
    BY <2>2, <2>4 DEF Item
  <2>6. Len(t) > Capacity - (pos + Len(h))
    <3>1. Left = Capacity - pos
      BY <1>1, <2>3 DEF Left
    <3>2. Len(t) \in Nat
      BY <1>0, <2>1
    <3>3. Left < 2 + Len(t) /\ Len(h) = 2 /\ pos \in Nat /\ Capacity \in Nat
      BY <1>0, <1>1, <2>2, <2>3
    <3> QED
      BY ONLY <3>1, <3>2, <3>3
  <2>7. Image(it, h, Capacity - (pos + Len(h)))
    BY <2>1, <2>2, <2>4, <2>6 DEF Image
  <2> QED
    BY <2>2, <2>3, <2>4, <2>5, <2>7, WritesStep
<1>8. CASE PassOn
  <2>1. /\ side = "write" /\ side' = "read" /\ buff' = SubSeq(buff, 1, pos) /\ pos' = 0
        /\ UNCHANGED <<order, sent, back>>
    BY <1>8 DEF PassOn
  <2>2. /\ sent \in Seq(Item) /\ back = <<>> /\ Echoes /\ Len(sent) \in Nat /\ back' = <<>>
    BY <2>1 DEF StreamInv
  <2>3. /\ buff' \in Seq(Byte) /\ Len(buff') = pos
        /\ \A x \in 1..pos : buff'[x] = buff[x]
    <3>1. /\ SubSeq(buff, 0 + 1, 0 + pos) \in Seq(Byte) /\ Len(SubSeq(buff, 0 + 1, 0 + pos)) = pos
          /\ \A x \in 1..pos : SubSeq(buff, 0 + 1, 0 + pos)[x] = buff[0 + x]
      BY <1>1, Sliced
    <3>2. 0 + 1 = 1 /\ 0 + pos = pos /\ \A x \in 1..pos : 0 + x = x
      BY <1>1
    <3> QED
      BY <2>1, <3>1, <3>2
  <2>4. PICK cut : Laid(cut)
    BY DEF StreamInv
  <2>5. pos = cut[Len(sent)] /\ cut[0] = 0
    BY <2>1, <2>4 DEF Laid
  <2>6. \A k \in 1..Len(sent) : (\E b : Image(sent[k], b, Capacity - cut[k]) /\ At(b, cut[k - 1]))'
    <3> SUFFICES ASSUME NEW k \in 1..Len(sent)
                 PROVE  (\E b : Image(sent[k], b, Capacity - cut[k]) /\ At(b, cut[k - 1]))'
      OBVIOUS
    <3>1. PICK b, e : e = sent[k] /\ Image(e, b, Capacity - cut[k]) /\ At(b, cut[k - 1])
      BY <2>4 DEF Laid
    <3>2. Image(e, b, Capacity - cut[k])'
      BY <2>1, <3>1, ImageStays
    <3>3. e.size = Len(b) /\ Len(b) \in Nat
      BY <3>1 DEF Image
    <3>4. k \in 0..Len(sent) /\ k - 1 \in 0..Len(sent)
      BY <2>2
    <3>5. cut[k] = cut[k - 1] + Len(b) /\ cut[k] <= pos /\ cut[k] \in Nat /\ cut[k - 1] \in Nat
      BY <2>4, <2>5, <3>1, <3>3, <3>4 DEF Laid
    <3>6. \A j \in 1..Len(b) : cut[k - 1] + j \in 1..pos
      BY <1>1, <3>3, <3>5, SMTT(60)
    <3>7. At(b, cut[k - 1])' /\ e = sent'[k]
      BY <2>1, <2>3, <3>1, <3>6 DEF At
    <3> QED
      BY <3>2, <3>7
  <2>7. Laid(cut)'
    <3>1. Len(back') = 0 /\ side' # "write"
      BY <2>1, <2>2
    <3> QED
      BY <2>1, <2>3, <2>4, <2>5, <2>6, <3>1 DEF Laid
  <2>8. StreamTypeOK'
    BY <1>1, <2>1, <2>2, <2>3 DEF StreamInv, StreamTypeOK
  <2>9. Echoes' /\ back' \in Seq(Result) /\ sent' \in Seq(Item) /\ side' # "write"
    BY <2>1, <2>2 DEF Echoes
  <2> QED
    BY <2>7, <2>8, <2>9 DEF StreamInv
<1>10. ASSUME side = "read", Len(back) < Len(sent)
       PROVE  \E b, room : /\ Image(Upcoming, b, room) /\ Len(b) = Upcoming.size /\ b \in Seq(Byte)
                           /\ At(b, pos) /\ Ahead(Len(b)) = b
                           /\ room \in Int /\ pos + Len(b) <= Len(buff)
                           /\ Len(buff) - (pos + Len(b)) <= room
  <2>1. PICK b, room : /\ Image(Upcoming, b, room) /\ At(b, pos) /\ Len(b) = Upcoming.size
                       /\ room \in Int /\ pos + Len(b) <= Len(buff)
                       /\ Len(buff) - (pos + Len(b)) <= room
    BY <1>10, NextItem
  <2>2. b \in Seq(Byte) /\ Len(b) \in Nat
    BY <2>1 DEF Image
  <2>3. /\ Ahead(Len(b)) \in Seq(Byte) /\ Len(Ahead(Len(b))) = Len(b)
        /\ \A j \in 1..Len(b) : Ahead(Len(b))[j] = buff[pos + j]
    <3>1. PICK n \in Nat : n = Len(b) /\ pos + n <= Len(buff)
      BY <2>1, <2>2
    <3>2. /\ SubSeq(buff, pos + 1, pos + n) \in Seq(Byte) /\ Len(SubSeq(buff, pos + 1, pos + n)) = n
          /\ \A j \in 1..n : SubSeq(buff, pos + 1, pos + n)[j] = buff[pos + j]
      BY <1>1, <3>1, Sliced
    <3> QED
      BY <3>1, <3>2 DEF Ahead
  <2>4. \A j \in 1..Len(b) : Ahead(Len(b))[j] = b[j]
    BY <2>1, <2>3 DEF At
  <2>5. Ahead(Len(b)) = b
    BY <2>2, <2>3, <2>4, SameSeq
  <2> QED
    BY <2>1, <2>2, <2>5
<1>11. CASE ReadUint
  <2>1. side = "read" /\ Len(back) < Len(sent) /\ Upcoming.kind = "uint"
    BY <1>11 DEF ReadUint, Expects
  <2>2. PICK b, room : Image(Upcoming, b, room) /\ Len(b) = Upcoming.size /\ Ahead(Len(b)) = b
    BY <1>10, <2>1
  <2>3. PICK v \in 0..(Values(Len(b)) - 1) : Upcoming.value = <<v>> /\ b = Encode(Len(b), v) /\ Len(b) \in Width
    BY <2>1, <2>2 DEF Image
  <2>4. Decode(b) = v
    BY <2>3, CodecFacts
  <2>5. Reads(Upcoming.size, TRUE, <<v>>)
    BY <1>11, <2>2, <2>4 DEF ReadUint
  <2>6. <<v>> \in Seq(Nat) /\ TRUE \in BOOLEAN /\ TRUE = (Upcoming.kind # "half")
    BY <2>1
  <2> QED
    BY <2>1, <2>3, <2>5, <2>6, ReadsStep
<1>12. CASE ReadBuff
  <2>1. side = "read" /\ Len(back) < Len(sent) /\ Upcoming.kind = "buff"
    BY <1>12 DEF ReadBuff, Expects
  <2>2. PICK b, room : /\ Image(Upcoming, b, room) /\ Len(b) = Upcoming.size /\ b \in Seq(Byte)
                       /\ Ahead(Len(b)) = b
    BY <1>10, <2>1
  <2>3. Upcoming.value = b
    BY <2>1, <2>2 DEF Image
  <2>4. Reads(Upcoming.size, TRUE, b)
    BY <1>12, <2>2 DEF ReadBuff
  <2>5. b \in Seq(Nat) /\ TRUE \in BOOLEAN /\ TRUE = (Upcoming.kind # "half")
    BY <1>0, <2>1, <2>2, WiderSeq
  <2> QED
    BY <2>1, <2>3, <2>4, <2>5, ReadsStep
<1>13. CASE ReadString
  <2>1. side = "read" /\ Len(back) < Len(sent) /\ (Upcoming.kind = "string" \/ Upcoming.kind = "half")
    BY <1>13 DEF ReadString, Expects
  <2>2. PICK b, room : /\ Image(Upcoming, b, room) /\ Len(b) = Upcoming.size /\ b \in Seq(Byte)
                       /\ At(b, pos) /\ Ahead(Len(b)) = b
                       /\ room \in Int /\ pos + Len(b) <= Len(buff)
                       /\ Len(buff) - (pos + Len(b)) <= room
    BY <1>10, <2>1
  <2>3. CASE Upcoming.kind = "string"
    <3>1. PICK v : v = Upcoming.value
      OBVIOUS
    <3>2. v \in Seq(Byte) /\ Len(v) < Base2 /\ b = Encode(2, Len(v)) \o v
      BY <2>2, <2>3, <3>1 DEF Image
    <3>3. v \in Seq(Nat) /\ Len(v) \in 0..(Base2 - 1) /\ Len(v) \in Nat
      <4>1. v \in Seq(Nat) /\ Len(v) \in Nat
        BY <1>0, <3>2, WiderSeq
      <4> QED
        BY <1>0, <3>2, <4>1
    <3>4. PICK h : h = Encode(2, Len(v)) /\ h \in Seq(Byte) /\ Len(h) = 2 /\ Decode(h) = Len(v)
      BY <1>3, <3>3
    <3>5. /\ Len(b) = 2 + Len(v)
          /\ \A j \in 1..2 : b[j] = h[j]
          /\ \A j \in 1..Len(v) : b[2 + j] = v[j]
      <4>1. /\ Len(h \o v) = Len(h) + Len(v)
            /\ \A j \in 1..Len(h) : (h \o v)[j] = h[j]
            /\ \A j \in 1..Len(v) : (h \o v)[Len(h) + j] = v[j]
        BY <3>2, <3>4, Joined
      <4>2. b = h \o v
        BY <3>2, <3>4
      <4> QED
        BY <3>4, <4>1, <4>2
    <3>6. pos + 2 <= Len(buff) /\ Left - 2 >= Len(v) /\ (pos + 2) + Len(v) <= Len(buff)
      <4>1. pos + (2 + Len(v)) <= Len(buff) /\ Left = Len(buff) - pos
        BY <2>2, <3>5 DEF Left
      <4> QED
        BY ONLY <1>1, <3>3, <4>1
    <3>7. Ahead(2) = h
      <4>1. Ahead(2) \in Seq(Byte) /\ Len(Ahead(2)) = 2 /\ \A j \in 1..2 : Ahead(2)[j] = buff[pos + j]
        BY <1>1, <3>6, Sliced DEF Ahead
      <4>2. \A j \in 1..2 : j \in 1..Len(b)
        BY <3>3, <3>5
      <4>3. \A j \in 1..2 : buff[pos + j] = h[j]
        BY <2>2, <3>5, <4>2 DEF At
      <4> QED
        BY <3>4, <4>1, <4>3, SameSeq
    <3>8. SubSeq(buff, pos + 3, pos + 2 + Len(v)) = v
      <4>1. PICK q \in Nat : q = pos + 2
        BY <1>1
      <4>2. /\ SubSeq(buff, q + 1, q + Len(v)) \in Seq(Byte) /\ Len(SubSeq(buff, q + 1, q + Len(v))) = Len(v)
            /\ \A j \in 1..Len(v) : SubSeq(buff, q + 1, q + Len(v))[j] = buff[q + j]
        BY <1>1, <3>3, <3>6, <4>1, Sliced
      <4>3. \A j \in 1..Len(v) : 2 + j \in 1..Len(b) /\ q + j = pos + (2 + j)
        BY <1>1, <3>3, <3>5, <4>1
      <4>4. \A j \in 1..Len(v) : buff[q + j] = v[j]
        BY <2>2, <3>5, <4>3 DEF At
      <4>5. SubSeq(buff, q + 1, q + Len(v)) = v
        BY <3>2, <4>2, <4>4, SameSeq
      <4>6. pos + 3 = q + 1 /\ pos + 2 + Len(v) = q + Len(v)
        BY <1>1, <3>3, <4>1
      <4> QED
        BY <4>5, <4>6
    <3>9. Reads(2 + Len(v), TRUE, v)
      <4>1. Decode(Ahead(2)) = Len(v)
        BY <3>4, <3>7
      <4> QED
        BY <1>13, <3>6, <3>8, <4>1 DEF ReadString
    <3>10. TRUE \in BOOLEAN /\ TRUE = (Upcoming.kind # "half") /\ 2 + Len(v) = Upcoming.size
      BY <2>2, <2>3, <3>5
    <3> QED
      BY <2>1, <3>1, <3>3, <3>9, <3>10, ReadsStep
  <2>4. CASE Upcoming.kind = "half"
    <3>1. PICK n \in 0..(Base2 - 1) : n > room /\ b = Encode(2, n)
      BY <2>2, <2>4 DEF Image
    <3>2. Len(b) = 2 /\ Decode(b) = n
      BY <1>3, <3>1
    <3>3. Decode(Ahead(2)) = n
      BY <2>2, <3>2
    <3>4. ~(Left - 2 >= n)
      <4>1. Left = Len(buff) - pos /\ Len(buff) - (pos + 2) <= room /\ n > room /\ room \in Int /\ n \in Int
        <5>1. Left = Len(buff) - pos
          BY DEF Left
        <5>2. Len(buff) - (pos + Len(b)) <= room /\ room \in Int
          BY <2>2
        <5>3. Len(buff) - (pos + 2) <= room
          BY <3>2, <5>2
        <5> QED
          BY <3>1, <5>1, <5>2, <5>3
      <4> QED
        BY ONLY <1>1, <4>1
    <3>5. Reads(2, FALSE, <<>>)
      BY <1>13, <3>3, <3>4 DEF ReadString
    <3>6. FALSE \in BOOLEAN /\ FALSE = (Upcoming.kind # "half") /\ <<>> \in Seq(Nat) /\ 2 = Upcoming.size
      BY <2>2, <2>4, <3>2
    <3> QED
      BY <2>1, <3>5, <3>6, ReadsStep
  <2> QED
    BY <2>1, <2>3, <2>4
<1> QED
  BY <1>4, <1>5, <1>6, <1>7, <1>8, <1>11, <1>12, <1>13 DEF StreamNext

LEMMA StreamStutter ==
    ASSUME StreamInv, UNCHANGED streamVars
    PROVE  StreamInv'
<1>1. UNCHANGED <<order, buff, pos, side, sent, back>>
  BY DEF streamVars
<1>2. PICK cut : Laid(cut)
  BY DEF StreamInv
<1>3. Laid(cut)'
  <2>1. \A k \in 1..Len(sent) : (\E b : Image(sent[k], b, Capacity - cut[k]) /\ At(b, cut[k - 1]))'
    <3> SUFFICES ASSUME NEW k \in 1..Len(sent)
                 PROVE  (\E b : Image(sent[k], b, Capacity - cut[k]) /\ At(b, cut[k - 1]))'
      OBVIOUS
    <3>1. PICK b, e : e = sent[k] /\ Image(e, b, Capacity - cut[k]) /\ At(b, cut[k - 1])
      BY <1>2 DEF Laid
    <3>2. Image(e, b, Capacity - cut[k])'
      BY <1>1, <3>1, ImageStays
    <3>3. At(b, cut[k - 1])' /\ e = sent'[k]
      BY <1>1, <3>1 DEF At
    <3> QED
      BY <3>2, <3>3
  <2> QED
    BY <1>1, <1>2, <2>1 DEF Laid
<1>4. Echoes' /\ StreamTypeOK'
  BY <1>1 DEF StreamInv, Echoes, StreamTypeOK
<1> QED
  BY <1>1, <1>3, <1>4 DEF StreamInv

\* The items fill what was passed on, and so nothing is left over.
LEMMA StreamInvRoundTrip ==
    ASSUME StreamInv
    PROVE  RoundTrip
<1>1. /\ sent \in Seq(Item) /\ back \in Seq(Result) /\ Len(buff) \in Nat /\ pos \in Nat
      /\ Len(back) \in Nat /\ Len(sent) \in Nat /\ Len(back) <= Len(sent)
  BY DEF StreamInv, StreamTypeOK
<1>2. ASSUME side = "read", Len(back) = Len(sent) PROVE Left = 0
  <2>1. PICK cut : Laid(cut)
    BY DEF StreamInv
  <2>2. Len(buff) = cut[Len(sent)] /\ pos = cut[Len(back)]
    BY <1>2, <2>1 DEF Laid
  <2> QED
    BY <1>1, <1>2, <2>2 DEF Left
<1>3. ASSUME side = "read", Len(back) # Len(sent) PROVE Left >= Upcoming.size
  <2>1. Len(back) < Len(sent)
    BY <1>1, <1>3
  <2>2. PICK b : Len(b) = Upcoming.size /\ pos + Len(b) <= Len(buff) /\ Upcoming \in Item
    BY <1>3, <2>1, NextItem
  <2>3. Upcoming.size \in Nat
    BY <2>2 DEF Item
  <2> QED
    BY <1>1, <2>2, <2>3 DEF Left
<1>4. NothingLeftOver
  BY <1>2, <1>3 DEF NothingLeftOver
<1>5. DOMAIN back = 1..Len(back)
  BY <1>1
<1> QED
  BY <1>4, <1>5 DEF RoundTrip, StreamInv, Echoes

\* The items written to a stream (stream.go) stay in its buffer, one behind the
\* other, and the cursor is always at the end of one of them.
THEOREM StreamInvAlways ==
    ASSUME TextsFit
    PROVE  StreamBehaviour => []StreamInv
<1>1. StreamInv /\ [StreamNext]_streamVars => StreamInv'
  BY StreamStep, StreamStutter
<1> QED
  BY <1>1, StreamInitInv, PTL DEF StreamBehaviour

\* The cursor of a stream (stream.go) never leaves the buffer, whatever is written
\* or read, in both byte orders and for every size of a buffer.
THEOREM StreamTypeCorrect ==
    ASSUME TextsFit
    PROVE  StreamBehaviour => []StreamTypeOK
<1>1. StreamInv => StreamTypeOK
  BY DEF StreamInv
<1> QED
  BY <1>1, StreamInvAlways, PTL

\* What the Read methods of stream.go return is what the Write methods were given,
\* for every buffer, byte order and sequence of values, provided that a string's
\* length fits in the two bytes written for it.
THEOREM RoundTripAlways ==
    ASSUME TextsFit
    PROVE  StreamBehaviour => []RoundTrip
<1>1. StreamInv => RoundTrip
  BY StreamInvRoundTrip
<1> QED
  BY <1>1, StreamInvAlways, PTL

----------------------------------------------------------------------------
(* All objects of MCObjects together.                                      *)

ObjectsInv == LruInv /\ StreamInv /\ ProbeInv /\ NacosInv /\ DiscoInv /\ SharedInv

\* The types of all objects hold in every behaviour of the composed
\* specification, for every value of its constants.
THEOREM ObjectsTypeCorrect ==
    ASSUME ConnId # {}, TextsFit
    PROVE  Spec => []ObjectsTypeOK
<1>1. Init => ObjectsInv
  BY InitInv, StreamInitInv, ProbeInitInv, NacosInitInv, DiscoInitInv, SharedInitInv DEF Init, ObjectsInv
<1>2. ObjectsInv /\ [Next]_vars => ObjectsInv'
  <2> SUFFICES ASSUME ObjectsInv, [Next]_vars PROVE ObjectsInv'
    OBVIOUS
  <2>1. /\ [LruNext]_lruVars /\ [StreamNext]_streamVars /\ [ProbeNext]_proberVars
        /\ [NacosNext]_nacosVars /\ [DiscoNext]_discoVars /\ [SharedNext]_sharedVars
    BY DEF Next, vars
  <2>2. LruInv' /\ NacosInv' /\ DiscoInv' /\ SharedInv'
    BY <2>1, StepInv, NacosStep, DiscoKept, SharedInvStep DEF ObjectsInv
  <2>3. StreamInv'
    BY <2>1, StreamStep, StreamStutter DEF ObjectsInv
  <2>4. ProbeInv'
    BY <2>1, ProbeStepInv, ProbeStutter DEF ObjectsInv
  <2> QED
    BY <2>2, <2>3, <2>4 DEF ObjectsInv
<1>3. ObjectsInv => ObjectsTypeOK
  BY ProbeInvFacts, NacosInvTypes, DiscoInvTypes DEF ObjectsInv, ObjectsTypeOK, LruInv, StreamInv, SharedInv
<1> QED
  BY <1>1, <1>2, <1>3, PTL DEF Spec

=============================================================================
