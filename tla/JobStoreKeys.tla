---------------------------- MODULE JobStoreKeys ----------------------------
(***************************************************************************)
(* JobStore seen from one concurrency key: it implements SemaphoreKey.     *)
(***************************************************************************)
EXTENDS JobStore

KeyView(k) ==
  INSTANCE SemaphoreKey WITH
    Limits <- {Limit[j] : j \in OfKey(Jobs, k)}, MaxJobs <- Cardinality(Jobs),
    row <- sem[k], holders <- Cardinality(Holders(k)),
    waiters <- Cardinality(OfKey(blocked, k))

(***************************************************************************)
(* Seen from one key, the store is SemaphoreKey: all that is proved there, *)
(* above all that no slot leaks under mixed limits, holds of the store.    *)
(***************************************************************************)
ImplementsSemaphoreKey ==
  /\ \A k \in Keys : KeyView(k)!Init
  /\ [][\A k \in Keys : [KeyView(k)!Next]_(KeyView(k)!vars)]_vars

(***************************************************************************)
(* No slot of the store leaks, even when jobs of one key bring different   *)
(* limits: a semaphore never counts more slots than jobs that are ready or *)
(* running.                                                                *)
(***************************************************************************)
NoSlotLeaks == \A k \in Keys : KeyView(k)!NoLeakedSlot
=============================================================================
