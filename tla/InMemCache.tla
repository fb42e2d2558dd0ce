----------------------------- MODULE InMemCache ----------------------------
(***************************************************************************)
(* pkg/util/cache/inmem.go: a map with expiring items, used by several     *)
(* goroutines, and the goroutine that removes what has expired.            *)
(*                                                                         *)
(* Get looks at the item after it has released the lock and takes the lock *)
(* again to delete it.  Items are objects, numbered in the order in which  *)
(* they are made; Elapse lets the time of one run out.                     *)
(***************************************************************************)
EXTENDS Naturals, FiniteSets

CONSTANTS
    User,           \* goroutines that use the cache
    Name,           \* keys
    MaxItems        \* bound: items made

ASSUME InMemConstants == MaxItems \in Nat

VARIABLES
    store,          \* c.cache: key -> item, 0 if there is none
    made,           \* items made so far
    expired,        \* items whose expiration has passed
    shut,           \* c.closed
    closeCh,        \* closeCh is closed
    user,           \* user[u]: [pc, key, item] of the Get in progress
    cleaner,        \* "select", "lock" or "gone"
    now             \* the items expired at the cleaner's time.Now()

inmemVars == <<store, made, expired, shut, closeCh, user, cleaner, now>>

Item == 1..MaxItems
Idle == [pc |-> "idle", key |-> CHOOSE k \in Name : TRUE, item |-> 0]

InMemInit ==
    /\ store = [k \in Name |-> 0]
    /\ made = 0 /\ expired = {} /\ shut = FALSE /\ closeCh = FALSE
    /\ user = [u \in User |-> Idle]
    /\ cleaner = "select" /\ now = {}

----------------------------------------------------------------------------
(* Get.                                                                    *)

GetRead(u, k) ==
    /\ user[u].pc = "idle"
    /\ store[k] # 0
    /\ user' = [user EXCEPT ![u] = [pc |-> "check", key |-> k, item |-> store[k]]]
    /\ UNCHANGED <<store, made, expired, shut, closeCh, cleaner, now>>

GetCheck(u) ==
    /\ user[u].pc = "check"
    /\ user' = IF user[u].item \in expired THEN [user EXCEPT ![u].pc = "delete"]
               ELSE [user EXCEPT ![u] = Idle]
    /\ UNCHANGED <<store, made, expired, shut, closeCh, cleaner, now>>

\* The expired item's key is deleted, whatever it is mapped to by now.
GetDelete(u) ==
    /\ user[u].pc = "delete"
    /\ store' = [store EXCEPT ![user[u].key] = 0]
    /\ user' = [user EXCEPT ![u] = Idle]
    /\ UNCHANGED <<made, expired, shut, closeCh, cleaner, now>>

----------------------------------------------------------------------------
(* The others hold the lock from beginning to end.                         *)

\* A Set that does not look at c.closed.
SetUnchecked(u, k) ==
    /\ user[u].pc = "idle" /\ made < MaxItems
    /\ made' = made + 1
    /\ store' = [store EXCEPT ![k] = made + 1]
    /\ UNCHANGED <<expired, shut, closeCh, user, cleaner, now>>

\* SetWithTTL, and Set.
Set(u, k) ==
    /\ user[u].pc = "idle"
    /\ ~shut /\ made < MaxItems
    /\ made' = made + 1
    /\ store' = [store EXCEPT ![k] = made + 1]
    /\ UNCHANGED <<expired, shut, closeCh, user, cleaner, now>>

Delete(u, k) ==
    /\ user[u].pc = "idle"
    /\ store' = [store EXCEPT ![k] = 0]
    /\ UNCHANGED <<made, expired, shut, closeCh, user, cleaner, now>>

\* A Close that does not tell the cleaner.
CloseSilent(u) ==
    /\ user[u].pc = "idle" /\ ~shut
    /\ shut' = TRUE
    /\ store' = [k \in Name |-> 0]
    /\ UNCHANGED <<made, expired, closeCh, user, cleaner, now>>

Close(u) ==
    /\ user[u].pc = "idle"
    /\ ~shut
    /\ shut' = TRUE /\ closeCh' = TRUE
    /\ store' = [k \in Name |-> 0]
    /\ UNCHANGED <<made, expired, user, cleaner, now>>

Elapse(x) ==
    /\ x <= made /\ x \notin expired
    /\ expired' = expired \cup {x}
    /\ UNCHANGED <<store, made, shut, closeCh, user, cleaner, now>>

----------------------------------------------------------------------------
(* periodicCleanup.  With the tick and closeCh both ready, select takes    *)
(* either.                                                                 *)

CleanTick ==
    /\ cleaner = "select"
    /\ now' = expired
    /\ cleaner' = "lock"
    /\ UNCHANGED <<store, made, expired, shut, closeCh, user>>

\* A sweep of all that is not newer than an expired item.
CleanSweepOlder ==
    /\ cleaner = "lock"
    /\ store' = [k \in Name |-> IF \E x \in now : store[k] <= x THEN 0 ELSE store[k]]
    /\ cleaner' = "select" /\ now' = {}
    /\ UNCHANGED <<made, expired, shut, closeCh, user>>

CleanSweep ==
    /\ cleaner = "lock"
    /\ store' = [k \in Name |-> IF store[k] \in now THEN 0 ELSE store[k]]
    /\ cleaner' = "select" /\ now' = {}
    /\ UNCHANGED <<made, expired, shut, closeCh, user>>

CleanExit ==
    /\ cleaner = "select" /\ closeCh
    /\ cleaner' = "gone"
    /\ UNCHANGED <<store, made, expired, shut, closeCh, user, now>>

InMemNext ==
    \/ \E u \in User : GetCheck(u) \/ GetDelete(u) \/ Close(u)
    \/ \E u \in User, k \in Name : GetRead(u, k) \/ Set(u, k) \/ Delete(u, k)
    \/ \E x \in Item : Elapse(x)
    \/ CleanTick \/ CleanSweep \/ CleanExit

\* The ticker ticks, the lock is granted, and select, which picks at random
\* among what is ready, does not overlook closeCh for ever.
InMemFairness ==
    /\ WF_inmemVars(CleanTick) /\ WF_inmemVars(CleanSweep) /\ SF_inmemVars(CleanExit)

InMemBehaviour == InMemInit /\ [][InMemNext]_inmemVars /\ InMemFairness

----------------------------------------------------------------------------
(* Properties.                                                             *)

\* Types; an item is in the map under one key, and a closed cache stays empty,
\* whatever was in progress when it was closed (inmem.go:57-59, 93-95).
InMemTypeOK ==
    /\ store \in [Name -> 0..made] /\ made \in 0..MaxItems
    /\ \A j, k \in Name : store[j] = store[k] /\ store[j] # 0 => j = k
    /\ expired \subseteq 1..made /\ now \subseteq expired /\ {shut, closeCh} \subseteq BOOLEAN
    /\ user \in [User -> [pc : {"idle", "check", "delete"}, key : Name, item : 0..made]]
    /\ cleaner \in {"select", "lock", "gone"}
    /\ shut => \A k \in Name : store[k] = 0

\* An item that has not expired goes only by Set, Delete or Close, with one
\* exception: a Get that has found an older, expired item under the key and
\* deletes the newer one that was set meanwhile (inmem.go:36-38).
LossExplained ==
    [][\A k \in Name :
        store[k] # 0 /\ store'[k] = 0 /\ store[k] \notin expired /\ ~shut' =>
            \E u \in User :
                \/ Delete(u, k)
                \/ /\ user[u].pc = "delete" /\ user'[u].pc = "idle" /\ user[u].key = k
                   /\ user[u].item \in expired /\ user[u].item < store[k]]_inmemVars

\* What has expired leaves the map, read or not ...
ExpiredGoes == \A k \in Name, x \in Item : (store[k] = x /\ x \in expired) ~> (store[k] # x)

\* ... and the cleaner ends when the cache is closed.
CleanerEnds == shut ~> (cleaner = "gone")

\* The cleaner does its work as long as it has to, and no longer
\* (inmem.go:67-85).
CleanerServes == ExpiredGoes /\ CleanerEnds

=============================================================================
