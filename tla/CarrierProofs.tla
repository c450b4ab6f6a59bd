---------------------------- MODULE CarrierProofs ----------------------------
(***************************************************************************)
(* Proofs about what stands behind the objects C allocates itself, as      *)
(* MCMemory instantiates it: SyncCarriers, for any number of goroutines    *)
(* and engines, and ManagedFile, for any number of goroutines, FILEs and   *)
(* locks.                                                                  *)
(***************************************************************************)
EXTENDS MCMemory, SequenceTheorems, FiniteSetTheorems, TLAPS

-----------------------------------------------------------------------------
(* Facts about sequences.                                                  *)

LEMMA Members ==
  ASSUME NEW Elems, NEW s \in Seq(Elems)
  PROVE  /\ Len(s) \in Nat
         /\ DOMAIN s = 1 .. Len(s)
         /\ \A k \in 1 .. Len(s) : s[k] \in Elems
         /\ s # <<>> => Len(s) \in 1 .. Len(s)
<1>1. Len(s) \in Nat /\ DOMAIN s = 1 .. Len(s)
  BY LenProperties
<1>2. \A k \in 1 .. Len(s) : s[k] \in Elems
  BY ElementOfSeq
<1>3. s # <<>> => Len(s) # 0
  BY EmptySeq
<1> QED BY <1>1, <1>2, <1>3

LEMMA Push ==
  ASSUME NEW Elems, NEW s \in Seq(Elems), NEW e \in Elems, NEW t, t = Append(s, e)
  PROVE  /\ t \in Seq(Elems) /\ Len(t) = Len(s) + 1
         /\ t[Len(s) + 1] = e
         /\ \A j \in 1 .. Len(s) : t[j] = s[j]
BY AppendProperties

-----------------------------------------------------------------------------
(* SyncCarriers: the inductive invariant. *)

CarrierPoints ==
  {"out", "locking", "lock-slow", "lock-reload", "in", "leaving", "unlocking", "wait-slow",
   "wait-reload", "queueing", "dropping", "asleep", "telling", "waking"}

CarrierTypes ==
  /\ lock \in Engines \cup {None} /\ cond \in Engines \cup {None}
  /\ engOwner \in [Engines -> Users \cup {None}] /\ queue \in [Engines -> Seq(Users)]
  /\ item \in BOOLEAN
  /\ pcS \in [Users -> CarrierPoints] /\ role \in [Users -> {"none", "produce", "consume"}]
  /\ eng \in [Users -> Engines \cup {None}] /\ cv \in [Users -> Engines \cup {None}]
  /\ tell \in [Users -> BOOLEAN]

\* Whoever is past the lookup has the engine the lock's word names now.
LockUsed(p) ==
  /\ pcS[p] \in {"out", "lock-slow", "lock-reload"} => eng[p] = None
  /\ pcS[p] \in {"locking", "in", "leaving", "unlocking", "wait-slow", "wait-reload", "queueing",
                 "dropping", "asleep"} => eng[p] = lock
  /\ pcS[p] \in {"telling", "waking"} => eng[p] \in {None, lock}
  /\ pcS[p] \notin {"out", "lock-slow", "telling", "waking"} => lock # None
  /\ S!Inside(p) => lock # None /\ engOwner[lock] = p

\* The same of the condition; and who waits on it found no item.
CondUsed(p) ==
  /\ pcS[p] \in {"queueing", "dropping", "asleep", "waking"} => cv[p] = cond
  /\ pcS[p] \in {"wait-reload", "queueing", "dropping", "asleep", "waking"} => cond # None
  /\ pcS[p] \in {"wait-slow", "wait-reload", "queueing", "dropping"} => ~item
  /\ pcS[p] \in {"wait-slow", "wait-reload", "queueing", "dropping", "asleep"} => role[p] = "consume"
  /\ role[p] = "consume" => class = "mutex"
  /\ pcS[p] = "asleep" => \E i \in 1 .. Len(queue[cond]) : queue[cond][i] = p

\* The queue of the condition has each sleeper once, and nobody else but those
\* about to sleep.
QueueRight ==
  /\ cond # None =>
       \A i \in 1 .. Len(queue[cond]) : pcS[queue[cond][i]] \in {"asleep", "dropping"}
  /\ \A e \in Engines : \A i, j \in 1 .. Len(queue[e]) : queue[e][i] = queue[e][j] => i = j

CarrierInv ==
  /\ CarrierTypes /\ QueueRight /\ S!NoneLeftAsleep
  /\ \A p \in Users : LockUsed(p) /\ CondUsed(p)

LEMMA CarrierFacts == None \notin Users /\ None \notin Engines
BY MemoryConstants DEF S!SyncCarriersConstants

LEMMA NewIsEngine == S!AtHand => S!New \in Engines
BY DEF S!AtHand, S!New

LEMMA QueueFacts ==
  ASSUME CarrierTypes, NEW e \in Engines
  PROVE  /\ queue[e] \in Seq(Users) /\ Len(queue[e]) \in Nat
         /\ \A i \in 1 .. Len(queue[e]) : queue[e][i] \in Users
         /\ DOMAIN queue[e] = 1 .. Len(queue[e])
<1>1. queue[e] \in Seq(Users)
  BY DEF CarrierTypes
<1> QED
  BY <1>1, Members

LEMMA CarrierInit == S!Init => CarrierInv
<1> SUFFICES ASSUME S!Init PROVE CarrierInv
  OBVIOUS
<1>1. <<>> \in Seq(Users) /\ Len(<<>>) = 0
  BY EmptySeq
<1>2. CarrierTypes
  <2>1. queue \in [Engines -> Seq(Users)]
    BY <1>1 DEF S!Init
  <2> QED
    BY <2>1 DEF S!Init, CarrierTypes, CarrierPoints
<1>3. QueueRight
  BY <1>1 DEF S!Init, QueueRight
<1>4. S!NoneLeftAsleep
  BY DEF S!Init, S!NoneLeftAsleep
<1>5. \A p \in Users : LockUsed(p) /\ CondUsed(p)
  BY DEF S!Init, LockUsed, CondUsed, S!Inside, S!Locked
<1> QED
  BY <1>2, <1>3, <1>4, <1>5 DEF CarrierInv

-----------------------------------------------------------------------------
(* The calls. *)

\* Where no goroutine is in a call, the objects may change.
LEMMA ObjectsInv ==
  ASSUME CarrierInv, S!AllOut, CarrierTypes',
         UNCHANGED <<class, queue, pcS, role, eng, cv, item, tell>>,
         cond' = cond \/ cond' = None
  PROVE  CarrierInv'
<1>1. \A p \in Users : pcS[p] = "out"
  BY DEF S!AllOut
<1>2. QueueRight'
  BY DEF CarrierInv, QueueRight
<1>3. S!NoneLeftAsleep'
  BY <1>1 DEF S!NoneLeftAsleep
<1>4. ASSUME NEW p \in Users PROVE LockUsed(p)' /\ CondUsed(p)'
  <2>1. LockUsed(p)'
    BY <1>1 DEF CarrierInv, LockUsed, S!Inside, S!Locked
  <2>2. CondUsed(p)'
    BY <1>1 DEF CarrierInv, CondUsed
  <2> QED
    BY <2>1, <2>2
<1> QED
  BY <1>2, <1>3, <1>4 DEF CarrierInv

LEMMA InitLockInv ==
  ASSUME CarrierInv, NEW eager \in BOOLEAN, S!InitLock(eager)
  PROVE  CarrierInv'
<1>1. S!New \in Engines
  BY NewIsEngine DEF S!InitLock
<1> DEFINE e == S!New
<1>2. /\ S!AllOut /\ lock' = (IF eager THEN e ELSE None)
      /\ engOwner' = (IF eager THEN [engOwner EXCEPT ![e] = None] ELSE engOwner)
      /\ UNCHANGED <<class, cond, queue, pcS, role, eng, cv, item, tell>>
  BY DEF S!InitLock, S!clientVars
<1> HIDE DEF e
<1>3. CarrierTypes'
  BY <1>1, <1>2 DEF CarrierInv, CarrierTypes, e
<1> QED
  BY <1>2, <1>3, ObjectsInv

LEMMA DestroyInv ==
  ASSUME CarrierInv, S!DestroyLock \/ S!InitOrDestroyCond
  PROVE  CarrierInv'
<1>1. /\ S!AllOut /\ lock' \in {lock, None} /\ cond' \in {cond, None}
      /\ UNCHANGED <<class, engOwner, queue, pcS, role, eng, cv, item, tell>>
  BY DEF S!DestroyLock, S!InitOrDestroyCond, S!clientVars
<1>2. CarrierTypes'
  BY <1>1 DEF CarrierInv, CarrierTypes
<1> QED
  BY <1>1, <1>2, ObjectsInv

\* A step of p alone that leaves the words, the queues and the item alone and
\* moves nobody into or out of the waiting.
LEMMA LocalStep ==
  ASSUME CarrierInv, NEW p \in Users, CarrierTypes',
         UNCHANGED <<class, cond, queue>>,
         \A q \in Users : q # p =>
           /\ pcS'[q] = pcS[q] /\ role'[q] = role[q] /\ eng'[q] = eng[q] /\ cv'[q] = cv[q]
           /\ S!Inside(q) \/ lock # None => lock' = lock /\ (S!Inside(q) => engOwner'[lock] = engOwner[lock]),
         LockUsed(p)', CondUsed(p)',
         pcS[p] \notin {"asleep", "dropping"}, pcS'[p] \notin {"asleep", "dropping"},
         item' => item \/ \A q \in Users : q # p => pcS[q] \notin {"wait-slow", "wait-reload", "queueing", "dropping"},
         S!NoneLeftAsleep'
  PROVE  CarrierInv'
<1>1. QueueRight'
  <2>1. ASSUME cond # None, NEW i \in 1 .. Len(queue[cond])
        PROVE  pcS'[queue[cond][i]] = pcS[queue[cond][i]]
    <3>1. cond \in Engines /\ queue[cond][i] \in Users
      BY <2>1, QueueFacts DEF CarrierInv, CarrierTypes
    <3>2. pcS[queue[cond][i]] \in {"asleep", "dropping"}
      BY <2>1 DEF CarrierInv, QueueRight
    <3> QED
      BY <3>1, <3>2
  <2> QED
    BY <2>1 DEF CarrierInv, QueueRight
<1>2. ASSUME NEW q \in Users, q # p PROVE LockUsed(q)' /\ CondUsed(q)'
  <2>1. /\ pcS'[q] = pcS[q] /\ role'[q] = role[q] /\ eng'[q] = eng[q] /\ cv'[q] = cv[q]
        /\ S!Inside(q) \/ lock # None => lock' = lock /\ (S!Inside(q) => engOwner'[lock] = engOwner[lock])
        /\ LockUsed(q) /\ CondUsed(q)
    BY <1>2 DEF CarrierInv
  <2>2. S!Inside(q)' <=> S!Inside(q)
    BY <2>1 DEF S!Inside
  <2>3. LockUsed(q)'
    BY <2>1, <2>2 DEF LockUsed
  <2>4. CondUsed(q)'
    BY <1>2, <2>1 DEF CondUsed
  <2> QED
    BY <2>3, <2>4
<1> QED
  BY <1>1, <1>2 DEF CarrierInv

\* An announcement that is due stays due.
LEMMA StillDue ==
  ASSUME CarrierInv,
         \A q \in Users : pcS'[q] = "asleep" => pcS[q] = "asleep",
         item' => item,
         \A q \in Users : tell[q] => tell'[q],
         \A q \in Users : role[q] = "consume" /\ pcS[q] \in {"locking", "in"} =>
                            role'[q] = "consume" /\ pcS'[q] \in {"locking", "in"}
  PROVE  S!NoneLeftAsleep'
BY DEF CarrierInv, S!NoneLeftAsleep

LEMMA LockStartInv ==
  ASSUME CarrierInv, NEW p \in Users, NEW r \in {"produce", "consume"}, S!LockStart(p, r)
  PROVE  CarrierInv'
<1>1. /\ pcS[p] = "out" /\ (r = "consume" => class = "mutex")
      /\ role' = [role EXCEPT ![p] = r] /\ eng' = [eng EXCEPT ![p] = lock]
      /\ pcS' = [pcS EXCEPT ![p] = IF lock # None THEN "locking" ELSE "lock-slow"]
      /\ UNCHANGED <<class, lock, cond, engOwner, queue, item, cv, tell>>
  BY DEF S!LockStart, S!Look, S!Goto
<1>2. CarrierTypes'
  BY <1>1 DEF CarrierInv, CarrierTypes, CarrierPoints
<1>3. /\ \A q \in Users : q # p => pcS'[q] = pcS[q] /\ role'[q] = role[q] /\ eng'[q] = eng[q]
      /\ pcS'[p] = (IF lock # None THEN "locking" ELSE "lock-slow") /\ role'[p] = r /\ eng'[p] = lock
  BY <1>1 DEF CarrierInv, CarrierTypes
<1>4. LockUsed(p)' /\ CondUsed(p)'
  BY <1>1, <1>3 DEF LockUsed, CondUsed, S!Inside, S!Locked
<1>5. S!NoneLeftAsleep'
  BY <1>1, <1>3, StillDue
<1> QED
  BY <1>1, <1>2, <1>3, <1>4, <1>5, LocalStep

LEMMA LockSlowInv ==
  ASSUME CarrierInv, NEW p \in Users, S!LockSlow(p)
  PROVE  CarrierInv'
<1> DEFINE e == S!New
<1>1. /\ pcS[p] = "lock-slow" /\ e \in Engines /\ e # None
      /\ UNCHANGED <<class, cond, queue, cv, item, role, tell>>
      /\ \/ /\ lock = None /\ lock' = e /\ eng' = [eng EXCEPT ![p] = e]
            /\ engOwner' = [engOwner EXCEPT ![e] = None] /\ pcS' = [pcS EXCEPT ![p] = "locking"]
         \/ lock # None /\ pcS' = [pcS EXCEPT ![p] = "lock-reload"] /\ UNCHANGED <<lock, eng, engOwner>>
         \/ /\ lock # None /\ eng' = [eng EXCEPT ![p] = lock] /\ pcS' = [pcS EXCEPT ![p] = "locking"]
            /\ UNCHANGED <<lock, engOwner>>
  BY NewIsEngine, CarrierFacts DEF S!LockSlow, S!Publishes, S!Goto, S!clientVars
<1> HIDE DEF e
<1>2. CarrierTypes'
  BY <1>1, ZenonT(60) DEF CarrierInv, CarrierTypes, CarrierPoints
<1>3. /\ \A q \in Users : q # p => pcS'[q] = pcS[q] /\ eng'[q] = eng[q]
      /\ pcS'[p] \in {"locking", "lock-reload"}
      /\ pcS'[p] = "locking" => eng'[p] = lock' /\ lock' # None
      /\ pcS'[p] = "lock-reload" => eng'[p] = None /\ lock' # None
      /\ lock # None => lock' = lock /\ engOwner' = engOwner
  BY <1>1 DEF CarrierInv, CarrierTypes, LockUsed
<1>4. LockUsed(p)'
  BY <1>1, <1>3 DEF LockUsed, S!Inside, S!Locked
<1>5. CondUsed(p)'
  BY <1>1, <1>3 DEF CarrierInv, CondUsed
<1>6. S!NoneLeftAsleep'
  BY <1>1, <1>3, StillDue
<1>7. \A q \in Users : S!Inside(q) => lock # None
  BY DEF CarrierInv, LockUsed
<1> QED
  BY <1>1, <1>2, <1>3, <1>4, <1>5, <1>6, <1>7, LocalStep

LEMMA LockReloadInv ==
  ASSUME CarrierInv, NEW p \in Users, S!LockReload(p)
  PROVE  CarrierInv'
<1>1. /\ pcS[p] = "lock-reload" /\ eng' = [eng EXCEPT ![p] = lock]
      /\ pcS' = [pcS EXCEPT ![p] = "locking"]
      /\ UNCHANGED <<class, lock, cond, engOwner, queue, cv, item, role, tell>>
  BY DEF S!LockReload, S!Goto, S!clientVars
<1>2. CarrierTypes'
  BY <1>1 DEF CarrierInv, CarrierTypes, CarrierPoints
<1>3. /\ \A q \in Users : q # p => pcS'[q] = pcS[q] /\ eng'[q] = eng[q]
      /\ pcS'[p] = "locking" /\ eng'[p] = lock /\ lock # None
  BY <1>1 DEF CarrierInv, CarrierTypes, LockUsed
<1>4. LockUsed(p)' /\ CondUsed(p)'
  BY <1>1, <1>3 DEF CarrierInv, LockUsed, CondUsed, S!Inside, S!Locked
<1>5. S!NoneLeftAsleep'
  BY <1>1, <1>3, StillDue
<1> QED
  BY <1>1, <1>2, <1>3, <1>4, <1>5, LocalStep

LEMMA EngineLockInv ==
  ASSUME CarrierInv, NEW p \in Users, S!EngineLock(p)
  PROVE  CarrierInv'
<1>1. /\ pcS[p] = "locking" /\ eng[p] = lock /\ lock # None /\ lock \in Engines
  BY DEF S!EngineLock, CarrierInv, CarrierTypes, LockUsed
<1>2. /\ engOwner[lock] = None /\ engOwner' = [engOwner EXCEPT ![lock] = p]
      /\ cv' = [cv EXCEPT ![p] = None] /\ pcS' = [pcS EXCEPT ![p] = "in"]
      /\ UNCHANGED <<class, lock, cond, queue, eng, item, role, tell>>
  BY <1>1 DEF S!EngineLock, S!Goto, S!clientVars
<1>3. CarrierTypes'
  BY <1>1, <1>2 DEF CarrierInv, CarrierTypes, CarrierPoints
<1>4. /\ \A q \in Users : q # p => pcS'[q] = pcS[q] /\ cv'[q] = cv[q]
      /\ pcS'[p] = "in" /\ engOwner'[lock] = p
  BY <1>1, <1>2 DEF CarrierInv, CarrierTypes
<1>5. LockUsed(p)' /\ CondUsed(p)'
  BY <1>1, <1>2, <1>4 DEF CarrierInv, LockUsed, CondUsed, S!Inside, S!Locked
<1>6. S!NoneLeftAsleep'
  BY <1>1, <1>2, <1>4, StillDue
\* Nobody is inside: the owner would be he.
<1>7. \A q \in Users : ~S!Inside(q)
  BY <1>2, CarrierFacts DEF CarrierInv, LockUsed
<1> QED
  BY <1>1, <1>2, <1>3, <1>4, <1>5, <1>6, <1>7, LocalStep

LEMMA UnlockLookInv ==
  ASSUME CarrierInv, NEW p \in Users, S!UnlockLook(p)
  PROVE  CarrierInv'
<1>1. pcS[p] = "leaving" /\ lock # None /\ eng[p] = lock /\ engOwner[lock] = p
  BY DEF S!UnlockLook, CarrierInv, LockUsed, S!Inside, S!Locked
<1>2. /\ eng' = [eng EXCEPT ![p] = lock] /\ pcS' = [pcS EXCEPT ![p] = "unlocking"]
      /\ UNCHANGED <<class, lock, cond, engOwner, queue, cv, item, role, tell>>
  BY <1>1 DEF S!UnlockLook, S!Goto, S!clientVars
<1>3. CarrierTypes'
  BY <1>2 DEF CarrierInv, CarrierTypes, CarrierPoints
<1>4. /\ \A q \in Users : q # p => pcS'[q] = pcS[q] /\ eng'[q] = eng[q]
      /\ pcS'[p] = "unlocking" /\ eng'[p] = lock
  BY <1>2 DEF CarrierInv, CarrierTypes
<1>5. LockUsed(p)' /\ CondUsed(p)'
  BY <1>1, <1>2, <1>4 DEF CarrierInv, LockUsed, CondUsed, S!Inside, S!Locked
<1>6. S!NoneLeftAsleep'
  BY <1>1, <1>2, <1>4, StillDue
<1> QED
  BY <1>1, <1>2, <1>3, <1>4, <1>5, <1>6, LocalStep

LEMMA EngineUnlockInv ==
  ASSUME CarrierInv, NEW p \in Users, S!EngineUnlock(p)
  PROVE  CarrierInv'
<1>1. pcS[p] = "unlocking" /\ lock # None /\ lock \in Engines /\ eng[p] = lock /\ engOwner[lock] = p
      /\ S!Inside(p)
  BY DEF S!EngineUnlock, CarrierInv, CarrierTypes, LockUsed, S!Inside, S!Locked
<1>2. /\ engOwner' = [engOwner EXCEPT ![lock] = None] /\ eng' = [eng EXCEPT ![p] = None]
      /\ role' = [role EXCEPT ![p] = "none"]
      /\ pcS' = [pcS EXCEPT ![p] = IF tell[p] THEN "telling" ELSE "out"]
      /\ UNCHANGED <<class, lock, cond, queue, cv, item, tell>>
  BY <1>1 DEF S!EngineUnlock, S!Goto
<1>3. CarrierTypes'
  BY <1>2 DEF CarrierInv, CarrierTypes, CarrierPoints
<1>4. /\ \A q \in Users : q # p => pcS'[q] = pcS[q] /\ eng'[q] = eng[q] /\ role'[q] = role[q]
      /\ pcS'[p] \in {"telling", "out"} /\ eng'[p] = None /\ role'[p] = "none"
  BY <1>2 DEF CarrierInv, CarrierTypes
<1>5. LockUsed(p)' /\ CondUsed(p)'
  BY <1>1, <1>2, <1>4 DEF CarrierInv, LockUsed, CondUsed, S!Inside, S!Locked
<1>6. S!NoneLeftAsleep'
  BY <1>1, <1>2, <1>4, StillDue
<1>7. \A q \in Users : S!Inside(q) => q = p
  BY <1>1 DEF CarrierInv, LockUsed
<1> QED
  BY <1>1, <1>2, <1>3, <1>4, <1>5, <1>6, <1>7, LocalStep

LEMMA ProduceInv ==
  ASSUME CarrierInv, NEW p \in Users, S!Produce(p)
  PROVE  CarrierInv'
<1>1. pcS[p] = "in" /\ lock # None /\ eng[p] = lock /\ engOwner[lock] = p /\ role[p] = "produce"
  BY DEF S!Produce, CarrierInv, LockUsed, S!Inside, S!Locked
<1>2. /\ item' = TRUE /\ tell' = [tell EXCEPT ![p] = class = "mutex"]
      /\ pcS' = [pcS EXCEPT ![p] = "telling"] \/ pcS' = [pcS EXCEPT ![p] = "leaving"]
      /\ UNCHANGED <<class, lock, cond, engOwner, queue, role, eng, cv>>
  BY DEF S!Produce, S!Goto
<1>3. CarrierTypes'
  BY <1>2 DEF CarrierInv, CarrierTypes, CarrierPoints
<1>4. /\ \A q \in Users : q # p => pcS'[q] = pcS[q]
      /\ pcS'[p] \in {"telling", "leaving"} /\ tell'[p] = (class = "mutex")
  BY <1>2 DEF CarrierInv, CarrierTypes
<1>5. LockUsed(p)' /\ CondUsed(p)'
  BY <1>1, <1>2, <1>4 DEF CarrierInv, LockUsed, CondUsed, S!Inside, S!Locked
\* Who sleeps is a consumer, so the lock is a mutex.
<1>6. S!NoneLeftAsleep'
  BY <1>1, <1>4 DEF CarrierInv, CondUsed, S!NoneLeftAsleep
<1>7. \A q \in Users : q # p => pcS[q] \notin {"wait-slow", "wait-reload", "queueing", "dropping"}
  BY <1>1 DEF CarrierInv, LockUsed, S!Inside, S!Locked
<1> QED
  BY <1>1, <1>2, <1>3, <1>4, <1>5, <1>6, <1>7, LocalStep

LEMMA ConsumeInv ==
  ASSUME CarrierInv, NEW p \in Users, S!Consume(p)
  PROVE  CarrierInv'
<1>1. pcS[p] = "in" /\ lock # None /\ eng[p] = lock /\ engOwner[lock] = p
  BY DEF S!Consume, CarrierInv, LockUsed, S!Inside, S!Locked
<1>2. /\ item' = FALSE /\ pcS' = [pcS EXCEPT ![p] = "leaving"]
      /\ UNCHANGED <<class, lock, cond, engOwner, queue, role, eng, cv, tell>>
  BY DEF S!Consume, S!Goto
<1>3. CarrierTypes'
  BY <1>2 DEF CarrierInv, CarrierTypes, CarrierPoints
<1>4. (\A q \in Users : q # p => pcS'[q] = pcS[q]) /\ pcS'[p] = "leaving"
  BY <1>2 DEF CarrierInv, CarrierTypes
<1>5. LockUsed(p)' /\ CondUsed(p)'
  BY <1>1, <1>2, <1>4 DEF CarrierInv, LockUsed, CondUsed, S!Inside, S!Locked
<1>6. S!NoneLeftAsleep'
  BY <1>2 DEF S!NoneLeftAsleep
<1> QED
  BY <1>1, <1>2, <1>3, <1>4, <1>5, <1>6, LocalStep

LEMMA WaitStartInv ==
  ASSUME CarrierInv, NEW p \in Users, S!WaitStart(p)
  PROVE  CarrierInv'
<1>1. pcS[p] = "in" /\ lock # None /\ eng[p] = lock /\ engOwner[lock] = p /\ role[p] = "consume" /\ ~item
  BY DEF S!WaitStart, CarrierInv, LockUsed, S!Inside, S!Locked
<1>2. /\ cv' = [cv EXCEPT ![p] = cond]
      /\ pcS' = [pcS EXCEPT ![p] = IF cond # None THEN "queueing" ELSE "wait-slow"]
      /\ UNCHANGED <<class, lock, cond, engOwner, queue, role, eng, item, tell>>
  BY DEF S!WaitStart, S!Look, S!Goto, S!clientVars
<1>3. CarrierTypes'
  BY <1>2 DEF CarrierInv, CarrierTypes, CarrierPoints
<1>4. /\ \A q \in Users : q # p => pcS'[q] = pcS[q] /\ cv'[q] = cv[q]
      /\ pcS'[p] = (IF cond # None THEN "queueing" ELSE "wait-slow") /\ cv'[p] = cond
  BY <1>2 DEF CarrierInv, CarrierTypes
<1>5. LockUsed(p)' /\ CondUsed(p)'
  BY <1>1, <1>2, <1>4 DEF CarrierInv, LockUsed, CondUsed, S!Inside, S!Locked
<1>6. S!NoneLeftAsleep'
  BY <1>1, <1>2 DEF S!NoneLeftAsleep
<1> QED
  BY <1>1, <1>2, <1>3, <1>4, <1>5, <1>6, LocalStep

LEMMA WaitReloadInv ==
  ASSUME CarrierInv, NEW p \in Users, S!WaitReload(p)
  PROVE  CarrierInv'
<1>1. /\ pcS[p] = "wait-reload" /\ lock # None /\ eng[p] = lock /\ engOwner[lock] = p
      /\ role[p] = "consume" /\ ~item /\ cond # None
  BY DEF S!WaitReload, CarrierInv, LockUsed, CondUsed, S!Inside, S!Locked
<1>2. /\ cv' = [cv EXCEPT ![p] = cond] /\ pcS' = [pcS EXCEPT ![p] = "queueing"]
      /\ UNCHANGED <<class, lock, cond, engOwner, queue, role, eng, item, tell>>
  BY DEF S!WaitReload, S!Goto, S!clientVars
<1>3. CarrierTypes'
  BY <1>2 DEF CarrierInv, CarrierTypes, CarrierPoints
<1>4. /\ \A q \in Users : q # p => pcS'[q] = pcS[q] /\ cv'[q] = cv[q]
      /\ pcS'[p] = "queueing" /\ cv'[p] = cond
  BY <1>2 DEF CarrierInv, CarrierTypes
<1>5. LockUsed(p)' /\ CondUsed(p)'
  BY <1>1, <1>2, <1>4 DEF CarrierInv, LockUsed, CondUsed, S!Inside, S!Locked
<1>6. S!NoneLeftAsleep'
  BY <1>1, <1>2 DEF S!NoneLeftAsleep
<1> QED
  BY <1>1, <1>2, <1>3, <1>4, <1>5, <1>6, LocalStep

\* A new condition has an empty queue; nobody waits on one that is not there.
LEMMA WaitSlowInv ==
  ASSUME CarrierInv, NEW p \in Users, S!WaitSlow(p)
  PROVE  CarrierInv'
<1> DEFINE e == S!New
<1>1. /\ pcS[p] = "wait-slow" /\ lock # None /\ eng[p] = lock /\ engOwner[lock] = p
      /\ role[p] = "consume" /\ ~item
  BY DEF S!WaitSlow, CarrierInv, LockUsed, CondUsed, S!Inside, S!Locked
<1>2. /\ e \in Engines /\ e # None
      /\ UNCHANGED <<class, lock, engOwner, eng, item, role, tell>>
      /\ \/ /\ cond = None /\ cond' = e /\ cv' = [cv EXCEPT ![p] = e]
            /\ queue' = [queue EXCEPT ![e] = <<>>] /\ pcS' = [pcS EXCEPT ![p] = "queueing"]
         \/ cond # None /\ pcS' = [pcS EXCEPT ![p] = "wait-reload"] /\ UNCHANGED <<cond, cv, queue>>
         \/ /\ cond # None /\ cv' = [cv EXCEPT ![p] = cond] /\ pcS' = [pcS EXCEPT ![p] = "queueing"]
            /\ UNCHANGED <<cond, queue>>
  BY NewIsEngine, CarrierFacts DEF S!WaitSlow, S!Publishes, S!Goto, S!clientVars
<1> HIDE DEF e
<1>3. <<>> \in Seq(Users) /\ Len(<<>>) = 0
  BY EmptySeq
<1>4. CarrierTypes'
  <2>1. queue' \in [Engines -> Seq(Users)]
    BY <1>2, <1>3 DEF CarrierInv, CarrierTypes
  <2> QED
    BY <1>2, <2>1, ZenonT(60) DEF CarrierInv, CarrierTypes, CarrierPoints
<1>5. /\ \A q \in Users : q # p => pcS'[q] = pcS[q] /\ cv'[q] = cv[q]
      /\ pcS'[p] \in {"queueing", "wait-reload"} /\ cond' # None
      /\ pcS'[p] = "queueing" => cv'[p] = cond'
  BY <1>2 DEF CarrierInv, CarrierTypes
<1>6. LockUsed(p)' /\ CondUsed(p)'
  BY <1>1, <1>2, <1>5 DEF CarrierInv, LockUsed, CondUsed, S!Inside, S!Locked
<1>7. S!NoneLeftAsleep'
  BY <1>1, <1>2 DEF S!NoneLeftAsleep
<1>8. CASE cond # None
  BY <1>1, <1>2, <1>4, <1>5, <1>6, <1>7, <1>8, LocalStep
<1>9. CASE cond = None
  <2>1. /\ cond' = e /\ queue' = [queue EXCEPT ![e] = <<>>]
    BY <1>2, <1>9
  <2>2. queue'[e] = <<>> /\ \A f \in Engines : f # e => queue'[f] = queue[f]
    BY <1>2, <2>1 DEF CarrierInv, CarrierTypes
  <2>3. QueueRight'
    BY <1>3, <2>1, <2>2 DEF CarrierInv, QueueRight
  <2>4. ASSUME NEW q \in Users, q # p PROVE LockUsed(q)' /\ CondUsed(q)'
    <3>1. pcS'[q] = pcS[q] /\ cv'[q] = cv[q] /\ LockUsed(q) /\ CondUsed(q)
      BY <1>5, <2>4 DEF CarrierInv
    <3>2. pcS[q] \notin {"queueing", "dropping", "asleep", "waking", "wait-reload"}
      BY <1>9, <3>1 DEF CondUsed
    <3>3. S!Inside(q)' <=> S!Inside(q)
      BY <1>2, <3>1 DEF S!Inside
    <3>4. LockUsed(q)'
      BY <1>2, <3>1, <3>3 DEF LockUsed
    <3>5. CondUsed(q)'
      BY <1>2, <3>1, <3>2 DEF CondUsed
    <3> QED
      BY <3>4, <3>5
  <2> QED
    BY <1>4, <1>6, <1>7, <2>3, <2>4 DEF CarrierInv
<1> QED
  BY <1>8, <1>9

\* A waiter joins the queue once, before it gives the lock up.
LEMMA QueueInv ==
  ASSUME CarrierInv, NEW p \in Users, S!Queue(p)
  PROVE  CarrierInv'
<1>1. /\ pcS[p] = "queueing" /\ lock # None /\ eng[p] = lock /\ engOwner[lock] = p
      /\ role[p] = "consume" /\ ~item /\ cv[p] = cond /\ cond # None /\ cond \in Engines
      /\ role[p] = "consume" => class = "mutex"
  BY DEF S!Queue, CarrierInv, CarrierTypes, LockUsed, CondUsed, S!Inside, S!Locked
<1> DEFINE w == queue[cond]
<1>2. /\ eng' = [eng EXCEPT ![p] = lock] /\ pcS' = [pcS EXCEPT ![p] = "dropping"]
      /\ queue' = [queue EXCEPT ![cond] = Append(w, p)]
      /\ UNCHANGED <<class, lock, cond, engOwner, cv, item, role, tell>>
  BY <1>1 DEF S!Queue, S!Goto, S!clientVars
<1>3. w \in Seq(Users) /\ Len(w) \in Nat /\ \A i \in 1 .. Len(w) : w[i] \in Users
  BY <1>1, QueueFacts DEF CarrierInv
<1>4. queue'[cond] = Append(w, p) /\ \A f \in Engines : f # cond => queue'[f] = queue[f]
  BY <1>1, <1>2 DEF CarrierInv, CarrierTypes
<1> HIDE DEF w
<1>5. /\ Append(w, p) \in Seq(Users) /\ Len(Append(w, p)) = Len(w) + 1
      /\ Append(w, p)[Len(w) + 1] = p
      /\ \A i \in 1 .. Len(w) : Append(w, p)[i] = w[i]
  BY <1>3, Push
<1>6. CarrierTypes'
  <2>1. queue' \in [Engines -> Seq(Users)]
    BY <1>2, <1>5 DEF CarrierInv, CarrierTypes
  <2> QED
    BY <1>1, <1>2, <2>1 DEF CarrierInv, CarrierTypes, CarrierPoints
<1>7. /\ \A q \in Users : q # p => pcS'[q] = pcS[q] /\ eng'[q] = eng[q]
      /\ pcS'[p] = "dropping" /\ eng'[p] = lock
  BY <1>2 DEF CarrierInv, CarrierTypes
<1>8. \A i \in 1 .. Len(w) : pcS[w[i]] \in {"asleep", "dropping"} /\ w[i] # p
  BY <1>1 DEF CarrierInv, QueueRight, w
<1>9. QueueRight'
  <2>1. \A i \in 1 .. Len(w) + 1 : pcS'[queue'[cond][i]] \in {"asleep", "dropping"}
    <3> SUFFICES ASSUME NEW i \in 1 .. Len(w) + 1
                 PROVE  pcS'[queue'[cond][i]] \in {"asleep", "dropping"}
      OBVIOUS
    <3>1. CASE i = Len(w) + 1
      BY <1>4, <1>5, <1>7, <3>1
    <3>2. CASE i # Len(w) + 1
      <4>1. i \in 1 .. Len(w)
        BY <1>3, <3>2
      <4> QED
        BY <1>3, <1>4, <1>5, <1>7, <1>8, <4>1
    <3> QED
      BY <3>1, <3>2
  <2>2. \A i, j \in 1 .. Len(w) + 1 : queue'[cond][i] = queue'[cond][j] => i = j
    <3>1. \A i, j \in 1 .. Len(w) : w[i] = w[j] => i = j
      BY <1>1 DEF CarrierInv, QueueRight, w
    <3>2. \A i \in 1 .. Len(w) + 1 : i \in 1 .. Len(w) \/ i = Len(w) + 1
      BY <1>3
    <3>3. \A i \in 1 .. Len(w) : queue'[cond][i] = w[i] /\ w[i] # p
      BY <1>4, <1>5, <1>8
    <3>4. queue'[cond][Len(w) + 1] = p
      BY <1>4, <1>5
    <3> QED
      BY <3>1, <3>2, <3>3, <3>4
  <2>3. \A f \in Engines : f # cond => \A i, j \in 1 .. Len(queue'[f]) : queue'[f][i] = queue'[f][j] => i = j
    BY <1>4 DEF CarrierInv, QueueRight
  <2> QED
    BY <1>2, <1>4, <1>5, <2>1, <2>2, <2>3 DEF QueueRight
<1>10. S!NoneLeftAsleep'
  BY <1>1, <1>2 DEF S!NoneLeftAsleep
<1>11. LockUsed(p)' /\ CondUsed(p)'
  BY <1>1, <1>2, <1>7 DEF LockUsed, CondUsed, S!Inside, S!Locked
<1>12. ASSUME NEW q \in Users, q # p PROVE LockUsed(q)' /\ CondUsed(q)'
  <2>1. pcS'[q] = pcS[q] /\ eng'[q] = eng[q] /\ LockUsed(q) /\ CondUsed(q)
    BY <1>7, <1>12 DEF CarrierInv
  <2>2. S!Inside(q)' <=> S!Inside(q)
    BY <2>1 DEF S!Inside
  <2>3. LockUsed(q)'
    BY <1>2, <2>1, <2>2 DEF LockUsed
  <2>4. pcS[q] = "asleep" => \E i \in 1 .. Len(queue'[cond]) : queue'[cond][i] = q
    <3> SUFFICES ASSUME pcS[q] = "asleep"
                 PROVE  \E i \in 1 .. Len(queue'[cond]) : queue'[cond][i] = q
      OBVIOUS
    <3>1. PICK i \in 1 .. Len(w) : w[i] = q
      BY <2>1 DEF CondUsed, w
    <3>2. i \in 1 .. Len(queue'[cond]) /\ queue'[cond][i] = q
      BY <1>3, <1>4, <1>5, <3>1
    <3> QED
      BY <3>2
  <2>5. CondUsed(q)'
    BY <1>2, <2>1, <2>4 DEF CondUsed
  <2> QED
    BY <2>3, <2>5
<1> QED
  BY <1>6, <1>9, <1>10, <1>11, <1>12 DEF CarrierInv

LEMMA CarrierDropInv ==
  ASSUME CarrierInv, NEW p \in Users, S!Drop(p)
  PROVE  CarrierInv'
<1>1. /\ pcS[p] = "dropping" /\ lock # None /\ lock \in Engines /\ eng[p] = lock /\ engOwner[lock] = p
      /\ S!Inside(p) /\ role[p] = "consume" /\ ~item /\ cv[p] = cond /\ cond # None /\ cond \in Engines
      /\ role[p] = "consume" => class = "mutex"
  BY DEF S!Drop, CarrierInv, CarrierTypes, LockUsed, CondUsed, S!Inside, S!Locked
<1>2. /\ engOwner' = [engOwner EXCEPT ![lock] = None]
      /\ pcS' = [pcS EXCEPT ![p] = IF p \in S!ToSet(queue[cond]) THEN "asleep" ELSE "locking"]
      /\ UNCHANGED <<class, lock, cond, queue, eng, cv, item, role, tell>>
  BY <1>1 DEF S!Drop, S!Goto, S!clientVars
<1>3. CarrierTypes'
  BY <1>2 DEF CarrierInv, CarrierTypes, CarrierPoints
<1>4. /\ \A q \in Users : q # p => pcS'[q] = pcS[q]
      /\ pcS'[p] \in {"asleep", "locking"}
      /\ pcS'[p] = "asleep" <=> p \in S!ToSet(queue[cond])
  BY <1>2 DEF CarrierInv, CarrierTypes
<1>5. DOMAIN queue[cond] = 1 .. Len(queue[cond]) /\ \A i \in 1 .. Len(queue[cond]) : queue[cond][i] \in Users
  BY <1>1, QueueFacts DEF CarrierInv
<1>6. p \in S!ToSet(queue[cond]) <=> \E i \in 1 .. Len(queue[cond]) : queue[cond][i] = p
  BY <1>5 DEF S!ToSet
<1>7. QueueRight'
  <2>1. \A i \in 1 .. Len(queue[cond]) : pcS'[queue[cond][i]] \in {"asleep", "dropping"}
    BY <1>1, <1>4, <1>5, <1>6 DEF CarrierInv, QueueRight
  <2> QED
    BY <1>2, <2>1 DEF CarrierInv, QueueRight
<1>8. S!NoneLeftAsleep'
  BY <1>1, <1>2 DEF S!NoneLeftAsleep
<1>9. LockUsed(p)' /\ CondUsed(p)'
  BY <1>1, <1>2, <1>4, <1>6 DEF LockUsed, CondUsed, S!Inside, S!Locked
<1>10. ASSUME NEW q \in Users, q # p PROVE LockUsed(q)' /\ CondUsed(q)'
  <2>1. pcS'[q] = pcS[q] /\ LockUsed(q) /\ CondUsed(q) /\ ~S!Inside(q)
    BY <1>1, <1>4, <1>10 DEF CarrierInv, LockUsed
  <2>2. ~S!Inside(q)'
    BY <1>2, <2>1 DEF S!Inside
  <2>3. LockUsed(q)'
    BY <1>2, <2>1, <2>2 DEF LockUsed
  <2>4. CondUsed(q)'
    BY <1>2, <2>1 DEF CondUsed
  <2> QED
    BY <2>3, <2>4
<1> QED
  BY <1>3, <1>7, <1>8, <1>9, <1>10 DEF CarrierInv

\* A queue cut in two keeps its members.
LEMMA Cut ==
  ASSUME NEW Elems, NEW s \in Seq(Elems), NEW n \in 0 .. Len(s)
  PROVE  LET t == SubSeq(s, 1, n)
             u == SubSeq(s, n + 1, Len(s))
         IN  /\ t \in Seq(Elems) /\ Len(t) = n /\ \A j \in 1 .. n : t[j] = s[j]
             /\ u \in Seq(Elems) /\ Len(u) = Len(s) - n
             /\ \A j \in 1 .. Len(s) - n : u[j] = s[n + j]
<1> DEFINE k == Len(s)
<1>1. k \in Nat /\ \A j \in 1 .. k : s[j] \in Elems
  BY Members
<1> HIDE DEF k
<1>2. n \in Nat /\ n <= k /\ n \in Int /\ k \in Int /\ n + 1 \in Int
  BY <1>1 DEF k
<1> DEFINE t == SubSeq(s, 1, n)
           u == SubSeq(s, n + 1, k)
<1>3. t \in Seq(Elems) /\ Len(t) = n /\ \A j \in 1 .. n : t[j] = s[j]
  <2>1. \A j \in 1 .. n : s[j] \in Elems
    BY <1>1, <1>2
  <2>2. /\ t \in Seq(Elems)
        /\ Len(t) = IF 1 <= n THEN n - 1 + 1 ELSE 0
        /\ \A j \in 1 .. n - 1 + 1 : t[j] = s[1 + j - 1]
    BY <1>2, <2>1, SubSeqProperties
  <2> HIDE DEF t
  <2> QED
    BY <1>2, <2>2
<1>4. u \in Seq(Elems) /\ Len(u) = k - n /\ \A j \in 1 .. k - n : u[j] = s[n + j]
  <2>1. \A j \in n + 1 .. k : s[j] \in Elems
    BY <1>1, <1>2
  <2>2. /\ u \in Seq(Elems)
        /\ Len(u) = IF n + 1 <= k THEN k - (n + 1) + 1 ELSE 0
        /\ \A j \in 1 .. k - (n + 1) + 1 : u[j] = s[n + 1 + j - 1]
    BY <1>2, <2>1, SubSeqProperties
  <2> HIDE DEF u
  <2> QED
    BY <1>1, <1>2, <2>2
<1> QED
  BY <1>3, <1>4 DEF k, t, u

LEMMA TellLookInv ==
  ASSUME CarrierInv, NEW p \in Users, S!TellLook(p)
  PROVE  CarrierInv'
<1>1. /\ pcS[p] = "telling" /\ cv' = [cv EXCEPT ![p] = cond]
      /\ UNCHANGED <<class, lock, cond, engOwner, queue, item, role, eng>>
  BY DEF S!TellLook
<1>2. /\ LockUsed(p) /\ CondUsed(p)
      /\ eng[p] # None => lock # None /\ eng[p] = lock /\ engOwner[lock] = p
  BY <1>1 DEF CarrierInv, LockUsed, S!Inside
<1>3. CASE cond = None
  <2>1. /\ tell' = [tell EXCEPT ![p] = FALSE]
        /\ pcS' = [q \in Users |-> CASE q = p -> (IF eng[p] = None THEN "out" ELSE "leaving")
                                     [] q \in {} /\ pcS[q] = "asleep" -> "locking"
                                     [] OTHER -> pcS[q]]
    BY <1>3 DEF S!TellLook, S!Wakes
  <2>2. /\ \A q \in Users : q # p => pcS'[q] = pcS[q]
        /\ pcS'[p] = IF eng[p] = None THEN "out" ELSE "leaving"
    BY <2>1
  <2>3. pcS' \in [Users -> CarrierPoints]
    BY <2>1 DEF CarrierInv, CarrierTypes, CarrierPoints
  <2>4. CarrierTypes' /\ \A q \in Users : q # p => cv'[q] = cv[q]
    BY <1>1, <2>1, <2>3 DEF CarrierInv, CarrierTypes
  <2>5. LockUsed(p)' /\ CondUsed(p)'
    BY <1>1, <1>2, <2>2 DEF LockUsed, CondUsed, S!Inside, S!Locked
  <2>6. S!NoneLeftAsleep'
    <3>1. \A q \in Users : pcS'[q] # "asleep"
      BY <1>3, <2>2 DEF CarrierInv, CondUsed
    <3> QED
      BY <3>1 DEF S!NoneLeftAsleep
  <2>7. pcS'[p] \notin {"asleep", "dropping"}
    BY <2>2
  <2> QED
    BY <1>1, <2>2, <2>4, <2>5, <2>6, <2>7, LocalStep
<1>4. CASE cond # None
  <2>1. tell' = tell /\ pcS' = [pcS EXCEPT ![p] = "waking"]
    BY <1>4 DEF S!TellLook, S!Goto
  <2>2. CarrierTypes'
    BY <1>1, <2>1 DEF CarrierInv, CarrierTypes, CarrierPoints
  <2>3. /\ \A q \in Users : q # p => pcS'[q] = pcS[q] /\ cv'[q] = cv[q]
        /\ pcS'[p] = "waking" /\ cv'[p] = cond
    BY <1>1, <2>1 DEF CarrierInv, CarrierTypes
  <2>4. LockUsed(p)' /\ CondUsed(p)'
    BY <1>1, <1>2, <1>4, <2>3 DEF LockUsed, CondUsed, S!Inside, S!Locked
  <2>5. S!NoneLeftAsleep'
    BY <1>1, <2>1, <2>3, StillDue
  <2> QED
    BY <1>1, <2>2, <2>3, <2>4, <2>5, LocalStep
<1> QED
  BY <1>3, <1>4

\* Signal and broadcast: who is taken off the queue goes for the lock again,
\* and where there is an item one that slept is on its way to it.
LEMMA WakeInv ==
  ASSUME CarrierInv, NEW p \in Users, S!Wake(p)
  PROVE  CarrierInv'
<1> DEFINE w == queue[cond]
<1>1. /\ pcS[p] = "waking" /\ cv[p] = cond /\ cond # None /\ cond \in Engines
      /\ LockUsed(p) /\ CondUsed(p)
      /\ eng[p] # None => lock # None /\ eng[p] = lock /\ engOwner[lock] = p
  BY DEF S!Wake, CarrierInv, CarrierTypes, LockUsed, CondUsed, S!Inside
<1>2. PICK n \in {Len(w), IF w = <<>> THEN 0 ELSE 1} :
        /\ S!Wakes(p, S!ToSet(SubSeq(w, 1, n)))
        /\ queue' = [queue EXCEPT ![cond] = SubSeq(w, n + 1, Len(w))]
  BY <1>1 DEF S!Wake
<1>3. /\ tell' = [tell EXCEPT ![p] = FALSE] /\ cv' = [cv EXCEPT ![p] = None]
      /\ UNCHANGED <<class, lock, cond, engOwner, item, role, eng>>
  BY DEF S!Wake
<1>4. /\ w \in Seq(Users) /\ Len(w) \in Nat /\ (\A i \in 1 .. Len(w) : w[i] \in Users)
      /\ w # <<>> => Len(w) \in 1 .. Len(w)
  <2>1. w \in Seq(Users)
    BY <1>1, QueueFacts DEF CarrierInv
  <2> QED
    BY <2>1, Members
<1>5. n \in 0 .. Len(w) /\ (w # <<>> => n >= 1)
  BY <1>2, <1>4
<1> DEFINE t == SubSeq(w, 1, n)
           u == SubSeq(w, n + 1, Len(w))
<1>6. queue'[cond] = u /\ (\A f \in Engines : f # cond => queue'[f] = queue[f])
      /\ queue' = [queue EXCEPT ![cond] = u]
  BY <1>1, <1>2 DEF CarrierInv, CarrierTypes
<1>7. \A i, j \in 1 .. Len(w) : w[i] = w[j] => i = j
  BY <1>1 DEF CarrierInv, QueueRight
<1>8. \A i \in 1 .. Len(w) : pcS[w[i]] \in {"asleep", "dropping"} /\ w[i] # p
  BY <1>1 DEF CarrierInv, QueueRight
<1>9. S!Wakes(p, S!ToSet(t))
  BY <1>2
<1> HIDE DEF w
<1>10. /\ t \in Seq(Users) /\ Len(t) = n /\ \A j \in 1 .. n : t[j] = w[j]
       /\ u \in Seq(Users) /\ Len(u) = Len(w) - n /\ \A j \in 1 .. Len(w) - n : u[j] = w[n + j]
  BY <1>4, <1>5, Cut
<1> HIDE DEF t, u
<1>11. DOMAIN t = 1 .. n
  BY <1>10, Members
<1>12. \A q : q \in S!ToSet(t) <=> \E j \in 1 .. n : w[j] = q
  BY <1>10, <1>11 DEF S!ToSet
<1>13. /\ pcS'[p] = IF eng[p] = None THEN "out" ELSE "leaving"
       /\ \A q \in Users : q # p =>
            pcS'[q] = IF q \in S!ToSet(t) /\ pcS[q] = "asleep" THEN "locking" ELSE pcS[q]
       /\ pcS' \in [Users -> CarrierPoints]
  <2>1. pcS' = [q \in Users |-> CASE q = p -> (IF eng[p] = None THEN "out" ELSE "leaving")
                                  [] q \in S!ToSet(t) /\ pcS[q] = "asleep" -> "locking"
                                  [] OTHER -> pcS[q]]
    BY <1>9 DEF S!Wakes
  <2>6. p \notin S!ToSet(t)
    BY <1>5, <1>8, <1>12
  <2>2. pcS'[p] = IF eng[p] = None THEN "out" ELSE "leaving"
    <3>1. pcS'[p] = CASE p = p -> (IF eng[p] = None THEN "out" ELSE "leaving")
                      [] p \in S!ToSet(t) /\ pcS[p] = "asleep" -> "locking"
                      [] OTHER -> pcS[p]
      BY <2>1, Zenon
    <3> QED
      BY <2>6, <3>1
  <2>3. \A q \in Users : q # p =>
          pcS'[q] = IF q \in S!ToSet(t) /\ pcS[q] = "asleep" THEN "locking" ELSE pcS[q]
    <3> SUFFICES ASSUME NEW q \in Users, q # p
                 PROVE  pcS'[q] = IF q \in S!ToSet(t) /\ pcS[q] = "asleep" THEN "locking" ELSE pcS[q]
      OBVIOUS
    <3>1. pcS'[q] = CASE q = p -> (IF eng[p] = None THEN "out" ELSE "leaving")
                      [] q \in S!ToSet(t) /\ pcS[q] = "asleep" -> "locking"
                      [] OTHER -> pcS[q]
      BY <2>1, Zenon
    <3>2. CASE q \in S!ToSet(t) /\ pcS[q] = "asleep"
      BY <3>1, <3>2
    <3>3. CASE ~(q \in S!ToSet(t) /\ pcS[q] = "asleep")
      BY <3>1, <3>3
    <3> QED
      BY <3>2, <3>3
  <2>4. \A q \in Users : pcS'[q] \in CarrierPoints
    BY <2>2, <2>3 DEF CarrierInv, CarrierTypes, CarrierPoints
  <2>5. pcS' = [q \in Users |-> pcS'[q]]
    BY <2>1
  <2> QED
    BY <2>2, <2>3, <2>4, <2>5
<1>14. CarrierTypes'
  <2>1. queue' \in [Engines -> Seq(Users)]
    BY <1>6, <1>10 DEF CarrierInv, CarrierTypes
  <2> QED
    BY <1>1, <1>3, <1>13, <2>1 DEF CarrierInv, CarrierTypes
\* Who is left on the queue has not been woken.
<1>15. \A j \in 1 .. Len(u) : /\ u[j] = w[n + j] /\ n + j \in 1 .. Len(w)
                              /\ u[j] \in Users /\ u[j] # p /\ u[j] \notin S!ToSet(t)
  <2> SUFFICES ASSUME NEW j \in 1 .. Len(u)
               PROVE  /\ u[j] = w[n + j] /\ n + j \in 1 .. Len(w)
                      /\ u[j] \in Users /\ u[j] # p /\ u[j] \notin S!ToSet(t)
    OBVIOUS
  <2>1. u[j] = w[n + j] /\ n + j \in 1 .. Len(w)
    BY <1>4, <1>5, <1>10
  <2>2. \A i \in 1 .. n : i \in 1 .. Len(w) /\ i # n + j
    BY <1>4, <1>5, <1>10
  <2>3. u[j] \notin S!ToSet(t)
    BY <1>7, <1>12, <2>1, <2>2
  <2> QED
    BY <1>4, <1>8, <2>1, <2>3
<1>16. QueueRight'
  <2>1. \A j \in 1 .. Len(u) : pcS'[u[j]] \in {"asleep", "dropping"}
    BY <1>8, <1>13, <1>15
  <2>2. \A i, j \in 1 .. Len(u) : u[i] = u[j] => i = j
    <3> SUFFICES ASSUME NEW i \in 1 .. Len(u), NEW j \in 1 .. Len(u), u[i] = u[j] PROVE i = j
      OBVIOUS
    <3>1. n + i = n + j
      BY <1>7, <1>15
    <3> QED
      BY <1>5, <3>1
  <2> QED
    BY <1>3, <1>6, <2>1, <2>2 DEF CarrierInv, QueueRight
<1>17. LockUsed(p)' /\ CondUsed(p)'
  BY <1>1, <1>3, <1>13 DEF LockUsed, CondUsed, S!Inside, S!Locked
<1>18. ASSUME NEW q \in Users, q # p PROVE LockUsed(q)' /\ CondUsed(q)'
  <2>1. /\ eng'[q] = eng[q] /\ role'[q] = role[q] /\ cv'[q] = cv[q] /\ LockUsed(q) /\ CondUsed(q)
    BY <1>3, <1>18 DEF CarrierInv, CarrierTypes
  <2>2. CASE q \in S!ToSet(t) /\ pcS[q] = "asleep"
    <3>1. pcS'[q] = "locking"
      BY <1>13, <1>18, <2>2
    <3> QED
      BY <1>3, <2>1, <2>2, <3>1 DEF LockUsed, CondUsed, S!Inside, S!Locked
  <2>3. CASE ~(q \in S!ToSet(t) /\ pcS[q] = "asleep")
    <3>1. pcS'[q] = pcS[q]
      BY <1>13, <1>18, <2>3
    <3>2. S!Inside(q)' <=> S!Inside(q)
      BY <2>1, <3>1 DEF S!Inside
    <3>3. LockUsed(q)'
      BY <1>3, <2>1, <3>1, <3>2 DEF LockUsed
    <3>4. pcS[q] = "asleep" => \E j \in 1 .. Len(u) : u[j] = q
      <4> SUFFICES ASSUME pcS[q] = "asleep" PROVE \E j \in 1 .. Len(u) : u[j] = q
        OBVIOUS
      <4>1. PICK i \in 1 .. Len(w) : w[i] = q
        BY <2>1 DEF CondUsed, w
      <4>2. i \notin 1 .. n
        BY <1>12, <2>3, <4>1
      <4>3. i - n \in 1 .. Len(u) /\ u[i - n] = w[n + (i - n)] /\ n + (i - n) = i
        BY <1>4, <1>5, <1>10, <4>2
      <4> QED
        BY <4>1, <4>3
    <3>5. CondUsed(q)'
      BY <1>3, <1>6, <2>1, <3>1, <3>4 DEF CondUsed
    <3> QED
      BY <3>3, <3>5
  <2> QED
    BY <2>2, <2>3
<1>19. S!NoneLeftAsleep'
  <2> SUFFICES ASSUME item, NEW q \in Users, pcS'[q] = "asleep"
               PROVE  \E x \in Users : role'[x] = "consume" /\ pcS'[x] \in {"locking", "in"}
    BY <1>3 DEF S!NoneLeftAsleep
  <2>1. pcS[q] = "asleep" /\ q # p
    BY <1>13
  <2>2. w # <<>>
    <3>1. \E i \in 1 .. Len(w) : w[i] = q
      BY <2>1 DEF CarrierInv, CondUsed, w
    <3>2. Len(<<>>) = 0
      BY EmptySeq
    <3> QED
      BY <3>1, <3>2
  <2>3. 1 \in 1 .. n /\ 1 \in 1 .. Len(w)
    BY <1>4, <1>5, <2>2
  <2>4. w[1] \in Users /\ w[1] # p /\ w[1] \in S!ToSet(t) /\ pcS[w[1]] \in {"asleep", "dropping"}
    BY <1>4, <1>8, <1>12, <2>3
  <2>5. pcS[w[1]] = "asleep" /\ role[w[1]] = "consume"
    BY <2>4 DEF CarrierInv, CondUsed
  <2>6. pcS'[w[1]] = "locking" /\ role'[w[1]] = "consume"
    BY <1>3, <1>13, <2>4, <2>5
  <2> QED
    BY <2>4, <2>6
<1> QED
  BY <1>14, <1>16, <1>17, <1>18, <1>19 DEF CarrierInv

LEMMA CarrierKept ==
  ASSUME CarrierInv, UNCHANGED carrierVars
  PROVE  CarrierInv'
<1> USE DEF carrierVars
<1>1. CarrierTypes' /\ QueueRight' /\ S!NoneLeftAsleep'
  BY DEF CarrierInv, CarrierTypes, QueueRight, S!NoneLeftAsleep
<1>2. \A p \in Users : LockUsed(p)' /\ CondUsed(p)'
  BY DEF CarrierInv, LockUsed, CondUsed, S!Inside
<1> QED
  BY <1>1, <1>2 DEF CarrierInv

LEMMA CarrierStep == CarrierInv /\ [MCNext]_allVars => CarrierInv'
<1> SUFFICES ASSUME CarrierInv, [MCNext]_allVars PROVE CarrierInv'
  OBVIOUS
<1>1. CASE S!Next
  BY <1>1, InitLockInv, DestroyInv, LockStartInv, LockSlowInv, LockReloadInv, EngineLockInv,
     UnlockLookInv, EngineUnlockInv, ProduceInv, ConsumeInv, WaitStartInv, WaitSlowInv,
     WaitReloadInv, QueueInv, CarrierDropInv, TellLookInv, WakeInv DEF S!Next
<1>2. CASE UNCHANGED carrierVars
  BY <1>2, CarrierKept
<1> QED
  BY <1>1, <1>2 DEF MCNext, allVars

LEMMA CarrierMeaning == CarrierInv => S!CarriersSafe
<1> SUFFICES ASSUME CarrierInv PROVE S!CarriersSafe
  OBVIOUS
<1>1. S!TypeOK
  <2>1. ASSUME NEW e \in Engines PROVE S!IsInjective(queue[e]) /\ S!ToSet(queue[e]) \subseteq Users
    BY QueueFacts DEF CarrierInv, QueueRight, S!IsInjective, S!ToSet
  <2> QED
    BY <2>1 DEF CarrierInv, CarrierTypes, S!TypeOK
<1>2. S!OneInside
  BY DEF CarrierInv, CarrierTypes, CarrierPoints, LockUsed, S!OneInside
<1> QED
  BY <1>1, <1>2 DEF CarrierInv, S!CarriersSafe

-----------------------------------------------------------------------------
(* ManagedFile: the inductive invariant. *)

OpenPoints == {"preparing", "initialising", "adding"}
LockPoints == {"locking", "acquired", "retiring", "refused", "releasing", "unlinking", "forgetting"}
LoadPoints == {"loading", "publishing", "reloading"}
FilePoints == OpenPoints \cup LockPoints \cup LoadPoints \cup {"idle", "walking", "crashed"}
FileOps == F!Opening \cup F!Closing \cup {"use", "flushall", "none"}

ManagedTypes ==
  /\ race \in BOOLEAN /\ known \subseteq Files /\ active \subseteq Files /\ dirty \subseteq Files
  /\ ofl \in Seq(Files) /\ std \in Files \cup {None} /\ oflMu \in Clients \cup {None}
  /\ roots \in [Files -> SUBSET {"buffer", "object"}]
  /\ raw \in [Files -> SUBSET {"buffer", "object"}]
  /\ child \in [Files -> {"none", "running", "reaped"}]
  /\ slot \in [Files -> Locks \cup {None}]
  /\ lockOwner \in [Locks -> Clients \cup {None}] /\ count \in [Locks -> 0 .. 1]
  /\ pcF \in [Clients -> FilePoints] /\ op \in [Clients -> FileOps]
  /\ argF \in [Clients -> Files \cup {None}] /\ my \in [Clients -> Locks \cup {None}]
  /\ todo \in [Clients -> Seq(Files)] /\ due \in [Clients -> SUBSET Files]

\* What a goroutine at each point of a call has: the kind of call, its FILE and
\* its lock.
CallShape(p) ==
  /\ pcF[p] = "idle" => op[p] = "none" /\ argF[p] = None
  /\ pcF[p] \in OpenPoints => op[p] \in F!Opening /\ argF[p] \in Files
  /\ pcF[p] \in LoadPoints \cup LockPoints =>
       op[p] \in F!Closing \cup {"use", "flushall"} /\ argF[p] \in Files
  /\ pcF[p] \in {"retiring", "unlinking", "forgetting"} => op[p] \in F!Closing
  /\ pcF[p] = "walking" => op[p] = "flushall" /\ argF[p] = None
  /\ pcF[p] \in LockPoints => my[p] \in Locks
  /\ pcF[p] \in LoadPoints \cup OpenPoints \cup {"idle", "walking"} => my[p] = None
  /\ op[p] \in F!Closing \cup {"use"} => argF[p] \in Files
  /\ op[p] = "flushall" <=> oflMu = p

\* Who has closed the raw engine of f and has not finished with f.
Closer(p, f) ==
  /\ argF[p] = f /\ op[p] \in F!Closing
  /\ pcF[p] \in {"retiring", "releasing", "unlinking", "forgetting"}

\* f is open, or on the list until its closer takes it off.
Listable(f) == f \in active \/ \E p \in Clients : Closer(p, f) /\ pcF[p] # "forgetting"

\* Everybody who has a lock for f has the same.
Unforgotten(f) == f \in active \/ \E q \in Clients : Closer(q, f)

Listed(f) == f = std \/ \E i \in 1 .. Len(ofl) : ofl[i] = f

\* A FILE that is being opened belongs to the one goroutine that opens it.
OpensAlone(p) ==
  LET f == argF[p] IN
  pcF[p] \in OpenPoints =>
    /\ f \notin known /\ f \notin dirty /\ slot[f] = None /\ ~Listed(f)
    /\ \A q \in Clients : q # p => argF[q] # f
    /\ pcF[p] # "adding" => f \notin active /\ raw[f] = {} /\ "buffer" \in roots[f]
    /\ pcF[p] = "adding" => f \in active
    /\ pcF[p] = "preparing" => child[f] = "none"
    /\ op[p] # "fopen" /\ pcF[p] = "initialising" => "object" \in roots[f]
    /\ child[f] = "running" => "object" \in roots[f]

\* A FILE that is open, listed, locked or in use is known to clients, but for
\* one that is being added.
KnownRight(f) ==
  /\ Listed(f) \/ slot[f] # None => f \in known
  /\ f \in active => f \in known \/ \E p \in Clients : argF[p] = f /\ pcF[p] = "adding"
  /\ \A p \in Clients : argF[p] = f => f \in known \/ pcF[p] \in OpenPoints

\* What the raw engine points to is rooted, and only while it is open.
RootRight(f) ==
  /\ raw[f] \subseteq roots[f]
  /\ f \in active => "buffer" \in raw[f] /\ (child[f] = "running" => "object" \in roots[f])
  /\ raw[f] # {} => f \in active \/ \E p \in Clients : argF[p] = f /\ pcF[p] = "retiring"

\* A FILE is closed once, and until then listed.
ClosedOnce(f) ==
  /\ \A p \in Clients : Closer(p, f) => f \notin active /\ \A q \in Clients : Closer(q, f) => q = p
  /\ \A p \in Clients : argF[p] = f /\ pcF[p] = "acquired" => f \in active
  /\ \A p \in Clients : argF[p] = f /\ pcF[p] = "refused" => f \notin active
  /\ \A p \in Clients : argF[p] = f /\ pcF[p] = "forgetting" => ~Listed(f)
  /\ Listed(f) => Listable(f)
  /\ f \in active => Listed(f) \/ \E p \in Clients : argF[p] = f /\ pcF[p] = "adding"

\* Each lock is one FILE's.
LocksApart ==
  /\ \A f, g \in Files : slot[f] = slot[g] /\ slot[f] # None => f = g
  /\ \A p \in Clients, f \in Files : my[p] = slot[f] /\ my[p] # None => argF[p] = f
  /\ \A p, q \in Clients : my[p] = my[q] /\ my[p] # None => argF[p] = argF[q]

Holding(p) == pcF[p] \in {"acquired", "retiring", "refused", "releasing"}

\* A lock somebody owns is the one it took for its call, or no FILE has it any
\* more.
OwnedRight(l) ==
  /\ count[l] = IF lockOwner[l] = None THEN 0 ELSE 1
  /\ \A p \in Clients : lockOwner[l] = p =>
       \/ (Holding(p) \/ pcF[p] = "crashed") /\ my[p] = l
       \/ my[p] # l /\ \A f \in Files : slot[f] # l

\* Until a FILE's closer forgets its lock, all that have a lock for it have the
\* same, and who is past it owns it.
LockRight(p) ==
  LET f == argF[p] IN
  Unforgotten(f) =>
    /\ pcF[p] = "reloading" => slot[f] # None
    /\ my[p] # None => my[p] = slot[f]
    /\ Holding(p) => lockOwner[my[p]] = p

\* What fflush(NULL) has still to visit is on the list, and so is every file it
\* owes.
WalkRight(p) ==
  /\ op[p] = "flushall" => \A i \in 1 .. Len(todo[p]) : Listable(todo[p][i]) /\ todo[p][i] \in known
  /\ op[p] = "flushall" /\ pcF[p] \in LoadPoints \cup LockPoints =>
       Len(todo[p]) > 0 /\ todo[p][1] = argF[p]
  /\ due[p] \subseteq active
  /\ \A f \in due[p] : op[p] = "flushall" /\ \E i \in 1 .. Len(todo[p]) : todo[p][i] = f
  /\ op[p] = "flushall" /\ pcF[p] = "releasing" => argF[p] \notin due[p]

\* Without races: a FILE that is in use is open, and nobody but fflush(NULL)
\* calls one that is being closed.
Calm(p) ==
  ~race =>
    /\ pcF[p] # "crashed"
    /\ op[p] \in F!Closing =>
         /\ \A q \in Clients : q # p /\ argF[q] = argF[p] => op[q] = "flushall"
         /\ pcF[p] \in {"retiring", "releasing", "unlinking", "forgetting"} \/ argF[p] \in active
    /\ op[p] = "use" => argF[p] \in active

ListOnce == \A i, j \in 1 .. Len(ofl) : ofl[i] = ofl[j] => i = j

ManagedInv ==
  /\ ManagedTypes /\ LocksApart /\ ListOnce /\ dirty \subseteq active
  /\ \A p \in Clients : CallShape(p) /\ OpensAlone(p) /\ LockRight(p) /\ WalkRight(p) /\ Calm(p)
  /\ \A f \in Files : KnownRight(f) /\ RootRight(f) /\ ClosedOnce(f)
  /\ \A l \in Locks : OwnedRight(l)

LEMMA Pushed ==
  ASSUME NEW Elems, NEW s \in Seq(Elems), NEW e \in Elems
  PROVE  LET t == <<e>> \o s
         IN  /\ t \in Seq(Elems) /\ Len(t) = Len(s) + 1
             /\ \A j \in 1 .. Len(s) + 1 : t[j] = IF j = 1 THEN e ELSE s[j - 1]
<1> DEFINE r == <<e>>
<1>1. r \in Seq(Elems) /\ Len(r) = 1 /\ r[1] = e
  OBVIOUS
<1>2. Len(s) \in Nat
  BY Members
<1> HIDE DEF r
<1> DEFINE t == r \o s
<1>3. /\ t \in Seq(Elems) /\ Len(t) = Len(r) + Len(s)
      /\ \A j \in 1 .. Len(r) + Len(s) : t[j] = IF j <= Len(r) THEN r[j] ELSE s[j - Len(r)]
  BY <1>1, ConcatProperties
<1> HIDE DEF t
<1>4. t \in Seq(Elems) /\ Len(t) = Len(s) + 1 /\ \A j \in 1 .. Len(s) + 1 : t[j] = IF j = 1 THEN e ELSE s[j - 1]
  BY <1>1, <1>2, <1>3
<1> QED
  BY <1>4 DEF t, r


LEMMA ManagedFacts == None \notin Clients /\ None \notin Files /\ None \notin Locks
BY MemoryConstants DEF F!ManagedFileConstants

LEMMA Kinds ==
  /\ F!Closing = {"close", "pclose"} /\ F!Opening = {"fopen", "popen", "fmemopen"}
BY DEF F!Closing, F!Opening

LEMMA TodoFacts ==
  ASSUME ManagedTypes, NEW p \in Clients
  PROVE  /\ Len(todo[p]) \in Nat /\ DOMAIN todo[p] = 1 .. Len(todo[p])
         /\ \A i \in 1 .. Len(todo[p]) : todo[p][i] \in Files
         /\ todo[p] = <<>> <=> Len(todo[p]) = 0
         /\ Len(todo[p]) > 0 =>
              /\ Head(todo[p]) = todo[p][1]
              /\ Tail(todo[p]) \in Seq(Files) /\ Len(Tail(todo[p])) = Len(todo[p]) - 1
              /\ \A i \in 1 .. Len(todo[p]) - 1 : Tail(todo[p])[i] = todo[p][i + 1]
<1>1. todo[p] \in Seq(Files)
  BY DEF ManagedTypes
<1>2. todo[p] = <<>> <=> Len(todo[p]) = 0
  BY <1>1, EmptySeq
<1>3. Head(todo[p]) = todo[p][1]
  OBVIOUS
<1> QED
  BY <1>1, <1>2, <1>3, Members, HeadTailProperties

LEMMA OflFacts ==
  ASSUME ManagedTypes
  PROVE  /\ ofl \in Seq(Files) /\ Len(ofl) \in Nat /\ DOMAIN ofl = 1 .. Len(ofl)
         /\ \A i \in 1 .. Len(ofl) : ofl[i] \in Files
<1>1. ofl \in Seq(Files)
  BY DEF ManagedTypes
<1> QED
  BY <1>1, Members

\* Without races nobody meets a FILE whose lock is forgotten.
LEMMA CalmUnforgotten ==
  ASSUME ManagedInv, NEW p \in Clients, ~race,
         pcF[p] \in LoadPoints \cup {"locking", "acquired", "retiring", "refused", "releasing"}
  PROVE  Unforgotten(argF[p])
<1>1. CallShape(p) /\ Calm(p) /\ WalkRight(p)
  BY DEF ManagedInv
<1>2. pcF[p] \in LoadPoints \cup LockPoints /\ op[p] \in F!Closing \cup {"use", "flushall"}
  BY <1>1 DEF CallShape, LockPoints
<1>3. CASE op[p] = "flushall"
  <2>1. Len(todo[p]) > 0 /\ todo[p][1] = argF[p] /\ Len(todo[p]) \in Nat
    BY <1>1, <1>2, <1>3, TodoFacts DEF WalkRight, ManagedInv
  <2>2. Listable(argF[p])
    BY <1>1, <1>3, <2>1 DEF WalkRight
  <2> QED
    BY <2>2 DEF Listable, Unforgotten
<1>4. CASE op[p] # "flushall"
  BY <1>1, <1>2, <1>4 DEF Calm, Unforgotten, Closer
<1> QED
  BY <1>3, <1>4

\* Two goroutines do not work on one raw engine.
LEMMA InsideAlone ==
  ASSUME ManagedInv, NEW p \in Clients, NEW q \in Clients, argF[p] = argF[q],
         Unforgotten(argF[p]), Holding(p), Holding(q)
  PROVE  p = q
<1>1. my[p] # None /\ my[q] # None
  BY ManagedFacts DEF ManagedInv, CallShape, LockPoints, Holding
<1>2. my[p] = my[q] /\ lockOwner[my[p]] = p /\ lockOwner[my[q]] = q
  BY <1>1 DEF ManagedInv, LockRight
<1> QED
  BY <1>2

\* What nobody knows or works on is unused.
LEMMA FreshFile ==
  ASSUME ManagedInv, NEW f \in Files, F!Fresh(f)
  PROVE  /\ f \notin known /\ child[f] = "none" /\ \A q \in Clients : argF[q] # f
         /\ f \notin active /\ f \notin dirty /\ ~Listed(f) /\ slot[f] = None /\ raw[f] = {}
<1>1. f \notin known /\ child[f] = "none" /\ \A q \in Clients : argF[q] # f
  BY DEF F!Fresh
<1>2. KnownRight(f) /\ RootRight(f) /\ dirty \subseteq active
  BY DEF ManagedInv
<1> QED
  BY <1>1, <1>2 DEF KnownRight, RootRight

\* What fflush(NULL) sets out to visit is what is listed.
LEMMA WalkFacts ==
  ASSUME ManagedTypes, NEW t, t = (IF std = None THEN <<>> ELSE <<std>>) \o ofl
  PROVE  /\ t \in Seq(Files) /\ Len(t) \in Nat
         /\ \A i \in 1 .. Len(t) : t[i] \in Files /\ Listed(t[i])
         /\ \A f \in Files : Listed(f) => \E i \in 1 .. Len(t) : t[i] = f
<1>1. /\ ofl \in Seq(Files) /\ Len(ofl) \in Nat
      /\ \A i \in 1 .. Len(ofl) : ofl[i] \in Files
  BY OflFacts
<1>2. CASE std = None
  <2>1. t = ofl
    BY <1>1, <1>2, ConcatEmptySeq
  <2> QED
    BY <1>1, <1>2, <2>1, ManagedFacts DEF Listed
<1>3. CASE std # None
  <2>1. std \in Files
    BY <1>3 DEF ManagedTypes
  <2>2. /\ t \in Seq(Files) /\ Len(t) = Len(ofl) + 1
        /\ \A j \in 1 .. Len(ofl) + 1 : t[j] = IF j = 1 THEN std ELSE ofl[j - 1]
    BY <1>1, <1>3, <2>1, Pushed
  <2>3. \A i \in 1 .. Len(t) : t[i] \in Files /\ Listed(t[i])
    BY <1>1, <2>1, <2>2 DEF Listed
  <2>4. ASSUME NEW f \in Files, Listed(f) PROVE \E i \in 1 .. Len(t) : t[i] = f
    <3>1. CASE f = std
      BY <1>1, <2>2, <3>1
    <3>2. CASE f # std
      <4>1. PICK i \in 1 .. Len(ofl) : ofl[i] = f
        BY <2>4, <3>2 DEF Listed
      <4>2. i + 1 \in 1 .. Len(t) /\ t[i + 1] = f
        BY <1>1, <2>2, <4>1
      <4> QED
        BY <4>2
    <3> QED
      BY <3>1, <3>2
  <2> QED
    BY <1>1, <2>2, <2>3, <2>4
<1> QED
  BY <1>2, <1>3

LEMMA Removed ==
  ASSUME NEW Elems, NEW s \in Seq(Elems), NEW i \in 1 .. Len(s), NEW t, t = F!RemoveAt(s, i)
  PROVE  /\ t \in Seq(Elems) /\ Len(t) = Len(s) - 1
         /\ \A j \in 1 .. Len(s) - 1 : t[j] = IF j < i THEN s[j] ELSE s[j + 1]
<1> DEFINE u == SubSeq(s, 1, i - 1)
           v == SubSeq(s, i + 1, Len(s))
<1>1. Len(s) \in Nat /\ i \in 0 .. Len(s) /\ i - 1 \in 0 .. Len(s) /\ i \in Nat /\ i >= 1 /\ i <= Len(s)
  BY Members
<1>2. u \in Seq(Elems) /\ Len(u) = i - 1 /\ \A j \in 1 .. i - 1 : u[j] = s[j]
  BY <1>1, Cut
<1>3. v \in Seq(Elems) /\ Len(v) = Len(s) - i /\ \A j \in 1 .. Len(s) - i : v[j] = s[i + j]
  BY <1>1, Cut
<1>4. t = u \o v
  BY DEF F!RemoveAt
<1> HIDE DEF u, v
<1>5. /\ t \in Seq(Elems) /\ Len(t) = Len(u) + Len(v)
      /\ \A j \in 1 .. Len(u) + Len(v) : t[j] = IF j <= Len(u) THEN u[j] ELSE v[j - Len(u)]
  <2>1. u \in Seq(Elems) /\ v \in Seq(Elems)
    BY <1>2, <1>3
  <2>2. /\ u \o v \in Seq(Elems) /\ Len(u \o v) = Len(u) + Len(v)
        /\ \A j \in 1 .. Len(u) + Len(v) : (u \o v)[j] = IF j <= Len(u) THEN u[j] ELSE v[j - Len(u)]
    BY <2>1, ConcatProperties
  <2> QED
    BY <1>4, <2>2
<1>6. Len(t) = Len(s) - 1
  BY <1>1, <1>2, <1>3, <1>5
<1>7. ASSUME NEW j \in 1 .. Len(s) - 1 PROVE t[j] = IF j < i THEN s[j] ELSE s[j + 1]
  <2>1. CASE j < i
    <3>1. j \in 1 .. Len(u) + Len(v) /\ j <= Len(u) /\ j \in 1 .. i - 1
      BY <1>1, <1>2, <1>3, <2>1
    <3> QED
      BY <1>2, <1>5, <2>1, <3>1
  <2>2. CASE ~(j < i)
    <3>3. j \in 1 .. Len(u) + Len(v) /\ ~(j <= Len(u)) /\ j - (i - 1) \in 1 .. Len(s) - i /\ Len(u) = i - 1
      BY <1>1, <1>2, <1>3, <2>2
    <3>1. t[j] = v[j - (i - 1)] /\ j - (i - 1) \in 1 .. Len(s) - i
      BY <1>5, <3>3
    <3>2. v[j - (i - 1)] = s[i + (j - (i - 1))] /\ i + (j - (i - 1)) = j + 1
      BY <1>1, <1>3, <3>1
    <3> QED
      BY <2>2, <3>1, <3>2
  <2> QED
    BY <2>1, <2>2
<1> QED
  BY <1>5, <1>6, <1>7

\* mlib_ofl_remove takes one FILE off the list and leaves the others on it.
LEMMA Unlisted ==
  ASSUME ManagedTypes, ListOnce, NEW f \in Files,
         \/ f \notin F!ToSet(ofl) /\ ofl' = ofl
         \/ \E i \in DOMAIN ofl : ofl[i] = f /\ ofl' = F!RemoveAt(ofl, i)
  PROVE  /\ ofl' \in Seq(Files) /\ ListOnce'
         /\ \A g : (\E j \in 1 .. Len(ofl') : ofl'[j] = g) <=> (\E j \in 1 .. Len(ofl) : ofl[j] = g) /\ g # f
<1>1. /\ ofl \in Seq(Files) /\ Len(ofl) \in Nat /\ DOMAIN ofl = 1 .. Len(ofl)
      /\ \A i \in 1 .. Len(ofl) : ofl[i] \in Files
  BY OflFacts
<1>2. CASE f \notin F!ToSet(ofl) /\ ofl' = ofl
  BY <1>1, <1>2 DEF F!ToSet, ListOnce
<1>3. ASSUME NEW i \in DOMAIN ofl, ofl[i] = f, ofl' = F!RemoveAt(ofl, i)
      PROVE  /\ ofl' \in Seq(Files) /\ ListOnce'
             /\ \A g : (\E j \in 1 .. Len(ofl') : ofl'[j] = g) <=> (\E j \in 1 .. Len(ofl) : ofl[j] = g) /\ g # f
  <2> DEFINE t == ofl'
             n == Len(ofl)
  <2>1. /\ t \in Seq(Files) /\ Len(t) = n - 1
        /\ \A j \in 1 .. n - 1 : t[j] = IF j < i THEN ofl[j] ELSE ofl[j + 1]
    <3>1. ofl \in Seq(Files) /\ i \in 1 .. Len(ofl) /\ t = F!RemoveAt(ofl, i)
      BY <1>1, <1>3
    <3> HIDE DEF t
    <3> QED
      BY <3>1, Removed, ZenonT(60)
  <2>2. n \in Nat /\ i \in 1 .. n /\ ofl[i] = f /\ \A j, k \in 1 .. n : ofl[j] = ofl[k] => j = k
    BY <1>1, <1>3 DEF ListOnce
  <2> HIDE DEF t, n
  <2>3. ASSUME NEW j \in 1 .. n - 1, NEW k \in 1 .. n - 1, t[j] = t[k] PROVE j = k
    <3> DEFINE at(x) == IF x < i THEN x ELSE x + 1
    <3>1. at(j) \in 1 .. n /\ at(k) \in 1 .. n /\ t[j] = ofl[at(j)] /\ t[k] = ofl[at(k)]
      BY <2>1, <2>2
    <3>2. at(j) = at(k)
      BY <2>2, <2>3, <3>1
    <3> QED
      BY <2>2, <3>2
  <2>4. ASSUME NEW j \in 1 .. n - 1 PROVE t[j] # f /\ \E k \in 1 .. n : ofl[k] = t[j]
    <3> DEFINE k == IF j < i THEN j ELSE j + 1
    <3>1. k \in 1 .. n /\ t[j] = ofl[k] /\ k # i
      BY <2>1, <2>2
    <3> QED
      BY <2>2, <3>1
  <2>5. ASSUME NEW k \in 1 .. n, ofl[k] # f PROVE \E j \in 1 .. n - 1 : t[j] = ofl[k]
    <3> DEFINE j == IF k < i THEN k ELSE k - 1
    <3>1. k # i
      BY <2>2, <2>5
    <3>2. j \in 1 .. n - 1 /\ t[j] = ofl[k]
      BY <2>1, <2>2, <3>1
    <3> QED
      BY <3>2
  <2>6. Len(t) = n - 1 /\ \A g : (\E j \in 1 .. Len(t) : t[j] = g) <=> (\E j \in 1 .. n : ofl[j] = g) /\ g # f
    BY <2>1, <2>4, <2>5
  <2> QED
    BY <2>1, <2>3, <2>6 DEF t, n, ListOnce
<1> QED
  BY <1>2, <1>3


LEMMA LoadInv ==
  ASSUME ManagedInv, NEW p \in Clients, F!Load(p)
  PROVE  ManagedInv'
<1> DEFINE f == argF[p]
           l == slot[f]
<1>1. /\ CallShape(p) /\ OpensAlone(p) /\ LockRight(p) /\ WalkRight(p) /\ Calm(p)
      /\ pcF[p] = "loading" /\ f \in Files /\ my[p] = None
      /\ l \in Locks \cup {None}
  BY Kinds, ManagedFacts DEF F!Load, ManagedInv, ManagedTypes, CallShape, OpenPoints, LoadPoints, LockPoints
<1>2. /\ UNCHANGED <<race, known, ofl, std, oflMu, active, roots, raw, slot, lockOwner, count,
                     dirty, child, argF, op, todo, due>>
      /\ pcF' = [pcF EXCEPT ![p] = IF l = None THEN "publishing" ELSE "locking"]
      /\ my' = [my EXCEPT ![p] = l]
  BY <1>1 DEF F!Load, F!Goto, F!Done, F!listVars, F!fileVars, F!lockVars, F!callVars,
              F!Given, ManagedInv, ManagedTypes
<1>3. /\ pcF'[p] = (IF l = None THEN "publishing" ELSE "locking") /\ my'[p] = l
      /\ \A q \in Clients : q # p => pcF'[q] = pcF[q] /\ my'[q] = my[q]
  BY <1>1, <1>2 DEF ManagedInv, ManagedTypes
<1>4. \A g : \A q \in Clients : Closer(q, g)' <=> Closer(q, g)
  BY <1>1, <1>2, <1>3, Kinds DEF Closer
<1>5. \A g : Listed(g)' <=> Listed(g)
  BY <1>1, <1>2, <1>3 DEF Listed
<1>6. \A g : Unforgotten(g)' => Unforgotten(g)
  BY <1>1, <1>2, <1>3, <1>4 DEF Unforgotten
<1>7. \A g : Listable(g) => Listable(g)'
  BY <1>1, <1>2, <1>3, <1>4 DEF Listable
<1>8. ManagedTypes'
  BY <1>1, <1>2, Kinds DEF ManagedInv, ManagedTypes, FilePoints, FileOps, OpenPoints, LoadPoints, LockPoints
<1>9. ASSUME NEW q \in Clients PROVE CallShape(q)'
  BY <1>1, <1>2, <1>3, <1>5, Kinds, ManagedFacts DEF ManagedInv, ManagedTypes, CallShape, OpenPoints, LoadPoints, LockPoints
<1>10. ASSUME NEW q \in Clients PROVE OpensAlone(q)'
  BY <1>1, <1>2, <1>3, <1>5, Kinds, ManagedFacts DEF ManagedInv, CallShape, OpensAlone, OpenPoints, LoadPoints, LockPoints
<1>11. ASSUME NEW q \in Clients PROVE LockRight(q)'
  BY <1>1, <1>2, <1>3, <1>6, Kinds, ManagedFacts DEF ManagedInv, LockRight, Holding
<1>12. ASSUME NEW q \in Clients PROVE WalkRight(q)'
  BY <1>1, <1>2, <1>3, <1>7, Kinds, ManagedFacts DEF ManagedInv, WalkRight, OpenPoints, LoadPoints, LockPoints
<1>13. ASSUME NEW q \in Clients PROVE Calm(q)'
  BY <1>1, <1>2, <1>3, Kinds, ManagedFacts DEF ManagedInv, Calm
<1>14. ASSUME NEW g \in Files PROVE KnownRight(g)'
  BY <1>1, <1>2, <1>3, <1>5, Kinds, ManagedFacts DEF ManagedInv, KnownRight, OpenPoints, LoadPoints, LockPoints
<1>15. ASSUME NEW g \in Files PROVE RootRight(g)'
  BY <1>1, <1>2, <1>3, Kinds, ManagedFacts DEF ManagedInv, RootRight
<1>16. ASSUME NEW g \in Files PROVE ClosedOnce(g)'
  BY <1>1, <1>2, <1>3, <1>4, <1>5, <1>7, Kinds, ManagedFacts DEF ManagedInv, ClosedOnce
<1>17. LocksApart'
  <2>1. ASSUME NEW g \in Files, NEW h \in Files, slot'[g] = slot'[h], slot'[g] # None PROVE g = h
    BY <1>1, <1>2, <1>3, Kinds, ManagedFacts, <2>1 DEF ManagedInv, LocksApart
  <2>2. ASSUME NEW q \in Clients, NEW g \in Files, my'[q] = slot'[g], my'[q] # None PROVE argF'[q] = g
    BY <1>1, <1>2, <1>3, Kinds, ManagedFacts, <2>2 DEF ManagedInv, LocksApart
  <2>3. ASSUME NEW q \in Clients, NEW r \in Clients, my'[q] = my'[r], my'[q] # None
        PROVE  argF'[q] = argF'[r]
    BY <1>1, <1>2, <1>3, Kinds, ManagedFacts, <2>3 DEF ManagedInv, LocksApart
  <2> QED
    BY <2>1, <2>2, <2>3 DEF LocksApart
<1>18. ASSUME NEW m \in Locks PROVE OwnedRight(m)'
  <2>1. count'[m] = IF lockOwner'[m] = None THEN 0 ELSE 1
    BY <1>1, <1>2, <1>3, Kinds, ManagedFacts DEF ManagedInv, OwnedRight
  <2>2. ASSUME NEW q \in Clients, lockOwner'[m] = q
        PROVE  \/ (Holding(q)' \/ pcF'[q] = "crashed") /\ my'[q] = m
               \/ my'[q] # m /\ \A g \in Files : slot'[g] # m
    <3>1. CASE q = p
      BY <1>1, <1>2, <1>3, Kinds, ManagedFacts, <2>2, <3>1 DEF ManagedInv, OwnedRight, Holding
    <3>2. CASE q # p
      BY <1>1, <1>2, <1>3, Kinds, ManagedFacts, <2>2, <3>2 DEF ManagedInv, OwnedRight, Holding
    <3> QED
      BY <3>1, <3>2
  <2> QED
    BY <2>1, <2>2 DEF OwnedRight
<1>19. ListOnce' /\ (dirty \subseteq active)'
  BY <1>1, <1>2, <1>3 DEF ManagedInv, ListOnce
<1> QED
  BY <1>8, <1>9, <1>10, <1>11, <1>12, <1>13, <1>14, <1>15, <1>16, <1>17, <1>18, <1>19 DEF ManagedInv

LEMMA ReloadInv ==
  ASSUME ManagedInv, NEW p \in Clients, F!Reload(p)
  PROVE  ManagedInv'
<1> DEFINE f == argF[p]
           l == slot[f]
<1>1. /\ CallShape(p) /\ OpensAlone(p) /\ LockRight(p) /\ WalkRight(p) /\ Calm(p)
      /\ pcF[p] = "reloading" /\ f \in Files /\ my[p] = None
      /\ l \in Locks \cup {None}
  BY Kinds, ManagedFacts DEF F!Reload, ManagedInv, ManagedTypes, CallShape, OpenPoints, LoadPoints, LockPoints
<1>2. /\ UNCHANGED <<race, known, ofl, std, oflMu, active, roots, raw, slot, lockOwner, count,
                     dirty, child, argF, op, todo, due>>
      /\ pcF' = [pcF EXCEPT ![p] = IF l = None THEN "crashed" ELSE "locking"]
      /\ my' = [my EXCEPT ![p] = l]
  BY <1>1 DEF F!Reload, F!Goto, F!Done, F!listVars, F!fileVars, F!lockVars, F!callVars, F!Given
<1>3. /\ pcF'[p] = (IF l = None THEN "crashed" ELSE "locking") /\ my'[p] = l
      /\ \A q \in Clients : q # p => pcF'[q] = pcF[q] /\ my'[q] = my[q]
  BY <1>1, <1>2 DEF ManagedInv, ManagedTypes
<1>4. \A g : \A q \in Clients : Closer(q, g)' <=> Closer(q, g)
  BY <1>1, <1>2, <1>3, Kinds DEF Closer
<1>5. \A g : Listed(g)' <=> Listed(g)
  BY <1>1, <1>2, <1>3 DEF Listed
<1>6. \A g : Unforgotten(g)' => Unforgotten(g)
  BY <1>1, <1>2, <1>3, <1>4 DEF Unforgotten
<1>7. \A g : Listable(g) => Listable(g)'
  BY <1>1, <1>2, <1>3, <1>4 DEF Listable
<1>8. ~race => l # None
  BY <1>1, CalmUnforgotten, ManagedFacts DEF LockRight, LoadPoints
<1>9. ManagedTypes'
  BY <1>1, <1>2, Kinds DEF ManagedInv, ManagedTypes, FilePoints, FileOps, OpenPoints, LoadPoints, LockPoints
<1>10. ASSUME NEW q \in Clients PROVE CallShape(q)'
  BY <1>1, <1>2, <1>3, <1>5, Kinds, ManagedFacts DEF ManagedInv, ManagedTypes, CallShape, OpenPoints, LoadPoints, LockPoints
<1>11. ASSUME NEW q \in Clients PROVE OpensAlone(q)'
  BY <1>1, <1>2, <1>3, <1>5, Kinds, ManagedFacts DEF ManagedInv, CallShape, OpensAlone, OpenPoints, LoadPoints, LockPoints
<1>12. ASSUME NEW q \in Clients PROVE LockRight(q)'
  BY <1>1, <1>2, <1>3, <1>6, Kinds, ManagedFacts DEF ManagedInv, LockRight, Holding
<1>13. ASSUME NEW q \in Clients PROVE WalkRight(q)'
  BY <1>1, <1>2, <1>3, <1>7, Kinds, ManagedFacts DEF ManagedInv, WalkRight, OpenPoints, LoadPoints, LockPoints
<1>14. ASSUME NEW q \in Clients PROVE Calm(q)'
  BY <1>1, <1>2, <1>3, <1>8, Kinds DEF ManagedInv, Calm
<1>15. ASSUME NEW g \in Files PROVE KnownRight(g)'
  BY <1>1, <1>2, <1>3, <1>5, Kinds, ManagedFacts DEF ManagedInv, KnownRight, OpenPoints, LoadPoints, LockPoints
<1>16. ASSUME NEW g \in Files PROVE RootRight(g)'
  BY <1>1, <1>2, <1>3, Kinds, ManagedFacts DEF ManagedInv, RootRight
<1>17. ASSUME NEW g \in Files PROVE ClosedOnce(g)'
  BY <1>1, <1>2, <1>3, <1>4, <1>5, <1>7, Kinds, ManagedFacts DEF ManagedInv, ClosedOnce
<1>18. LocksApart'
  <2>1. ASSUME NEW g \in Files, NEW h \in Files, slot'[g] = slot'[h], slot'[g] # None PROVE g = h
    BY <1>1, <1>2, <1>3, Kinds, ManagedFacts, <2>1 DEF ManagedInv, LocksApart
  <2>2. ASSUME NEW q \in Clients, NEW g \in Files, my'[q] = slot'[g], my'[q] # None PROVE argF'[q] = g
    BY <1>1, <1>2, <1>3, Kinds, ManagedFacts, <2>2 DEF ManagedInv, LocksApart
  <2>3. ASSUME NEW q \in Clients, NEW r \in Clients, my'[q] = my'[r], my'[q] # None
        PROVE  argF'[q] = argF'[r]
    BY <1>1, <1>2, <1>3, Kinds, ManagedFacts, <2>3 DEF ManagedInv, LocksApart
  <2> QED
    BY <2>1, <2>2, <2>3 DEF LocksApart
<1>19. ASSUME NEW m \in Locks PROVE OwnedRight(m)'
  <2>1. count'[m] = IF lockOwner'[m] = None THEN 0 ELSE 1
    BY <1>1, <1>2, <1>3, Kinds, ManagedFacts DEF ManagedInv, OwnedRight
  <2>2. ASSUME NEW q \in Clients, lockOwner'[m] = q
        PROVE  \/ (Holding(q)' \/ pcF'[q] = "crashed") /\ my'[q] = m
               \/ my'[q] # m /\ \A g \in Files : slot'[g] # m
    <3>1. CASE q = p
      BY <1>1, <1>2, <1>3, Kinds, ManagedFacts, <2>2, <3>1 DEF ManagedInv, OwnedRight, Holding
    <3>2. CASE q # p
      BY <1>1, <1>2, <1>3, Kinds, ManagedFacts, <2>2, <3>2 DEF ManagedInv, OwnedRight, Holding
    <3> QED
      BY <3>1, <3>2
  <2> QED
    BY <2>1, <2>2 DEF OwnedRight
<1>20. ListOnce' /\ (dirty \subseteq active)'
  BY <1>1, <1>2, <1>3 DEF ManagedInv, ListOnce
<1> QED
  BY <1>9, <1>10, <1>11, <1>12, <1>13, <1>14, <1>15, <1>16, <1>17, <1>18, <1>19, <1>20 DEF ManagedInv

LEMMA PrepareInv ==
  ASSUME ManagedInv, NEW p \in Clients, F!Prepare(p)
  PROVE  ManagedInv'
<1> DEFINE f == argF[p]
<1>1. /\ CallShape(p) /\ OpensAlone(p) /\ LockRight(p) /\ WalkRight(p) /\ Calm(p)
      /\ pcF[p] = "preparing" /\ f \in Files /\ op[p] \in F!Opening
  BY Kinds, ManagedFacts DEF F!Prepare, ManagedInv, ManagedTypes, CallShape, OpenPoints, LoadPoints, LockPoints
<1>2. /\ UNCHANGED <<race, known, ofl, std, oflMu, active, raw, slot, lockOwner, count, dirty,
                     argF, op, my, todo, due>>
      /\ pcF' = [pcF EXCEPT ![p] = "initialising"]
      /\ roots' = [roots EXCEPT ![f] = IF op[p] = "fopen" THEN roots[f] ELSE roots[f] \cup {"object"}]
      /\ child' = [child EXCEPT ![f] = IF op[p] = "popen" THEN "running" ELSE child[f]]
  BY <1>1 DEF F!Prepare, F!Goto, F!Done, F!listVars, F!fileVars, F!lockVars, F!callVars,
              F!Rooted, ManagedInv, ManagedTypes
<1>3. /\ pcF'[p] = "initialising"
      /\ \A q \in Clients : q # p => pcF'[q] = pcF[q]
      /\ roots'[f] = (IF op[p] = "fopen" THEN roots[f] ELSE roots[f] \cup {"object"}) /\ child'[f] = (IF op[p] = "popen" THEN "running" ELSE child[f])
      /\ \A g \in Files : g # f => roots'[g] = roots[g] /\ child'[g] = child[g]
  BY <1>1, <1>2 DEF ManagedInv, ManagedTypes
<1>4. \A g : \A q \in Clients : Closer(q, g)' <=> Closer(q, g)
  BY <1>1, <1>2, <1>3, Kinds DEF Closer
<1>5. \A g : Listed(g)' <=> Listed(g)
  BY <1>1, <1>2, <1>3 DEF Listed
<1>6. \A g : Unforgotten(g)' => Unforgotten(g)
  BY <1>1, <1>2, <1>3, <1>4 DEF Unforgotten
<1>7. \A g : Listable(g) => Listable(g)'
  BY <1>1, <1>2, <1>3, <1>4 DEF Listable
<1>8. ManagedTypes'
  BY <1>1, <1>2, Kinds DEF ManagedInv, ManagedTypes, FilePoints, FileOps, OpenPoints, LoadPoints, LockPoints
<1>9. ASSUME NEW q \in Clients PROVE CallShape(q)'
  BY <1>1, <1>2, <1>3, <1>5, Kinds, ManagedFacts DEF ManagedInv, ManagedTypes, CallShape, OpenPoints, LoadPoints, LockPoints
<1>10. ASSUME NEW q \in Clients PROVE OpensAlone(q)'
  BY <1>1, <1>2, <1>3, <1>5, Kinds, ManagedFacts DEF ManagedInv, CallShape, OpensAlone, OpenPoints, LoadPoints, LockPoints
<1>11. ASSUME NEW q \in Clients PROVE LockRight(q)'
  BY <1>1, <1>2, <1>3, <1>6, Kinds, ManagedFacts DEF ManagedInv, LockRight, Holding
<1>12. ASSUME NEW q \in Clients PROVE WalkRight(q)'
  BY <1>1, <1>2, <1>3, <1>7, Kinds, ManagedFacts DEF ManagedInv, WalkRight, OpenPoints, LoadPoints, LockPoints
<1>13. ASSUME NEW q \in Clients PROVE Calm(q)'
  BY <1>1, <1>2, <1>3, Kinds, ManagedFacts DEF ManagedInv, Calm
<1>14. ASSUME NEW g \in Files PROVE KnownRight(g)'
  BY <1>1, <1>2, <1>3, <1>5, Kinds, ManagedFacts DEF ManagedInv, KnownRight, OpenPoints, LoadPoints, LockPoints
<1>15. ASSUME NEW g \in Files PROVE RootRight(g)'
  BY <1>1, <1>2, <1>3, Kinds, ManagedFacts DEF ManagedInv, RootRight
<1>16. ASSUME NEW g \in Files PROVE ClosedOnce(g)'
  BY <1>1, <1>2, <1>3, <1>4, <1>5, <1>7, Kinds, ManagedFacts DEF ManagedInv, ClosedOnce
<1>17. LocksApart' /\ ListOnce' /\ (dirty \subseteq active)'
  BY <1>2 DEF ManagedInv, LocksApart, ListOnce
<1>18. ASSUME NEW m \in Locks PROVE OwnedRight(m)'
  BY <1>1, <1>2, <1>3, Kinds, ManagedFacts DEF ManagedInv, OwnedRight, Holding
<1> QED
  BY <1>8, <1>9, <1>10, <1>11, <1>12, <1>13, <1>14, <1>15, <1>16, <1>17, <1>18 DEF ManagedInv

LEMMA RawOpenInv ==
  ASSUME ManagedInv, NEW p \in Clients, F!RawOpen(p)
  PROVE  ManagedInv'
<1> DEFINE f == argF[p]
<1>1. /\ CallShape(p) /\ OpensAlone(p) /\ LockRight(p) /\ WalkRight(p) /\ Calm(p)
      /\ pcF[p] = "initialising" /\ f \in Files /\ op[p] \in F!Opening /\ my[p] = None
      /\ "buffer" \in roots[f] /\ (op[p] = "fmemopen" \/ child[f] = "running" => "object" \in roots[f])
      /\ f \notin active /\ ~Listed(f) /\ \A q \in Clients : q # p => argF[q] # f
  BY Kinds, ManagedFacts DEF F!RawOpen, ManagedInv, ManagedTypes, CallShape, OpenPoints, LoadPoints, LockPoints, OpensAlone
<1>2. /\ UNCHANGED <<race, known, ofl, std, oflMu, roots, slot, lockOwner, count, dirty, child,
                     argF, op, my, todo, due>>
      /\ active' = active \cup {f}
      /\ pcF' = [pcF EXCEPT ![p] = "adding"]
      /\ raw' = [raw EXCEPT ![f] = IF op[p] = "fmemopen" THEN {"buffer", "object"} ELSE {"buffer"}]
  BY <1>1 DEF F!RawOpen, F!Goto, F!Done, F!listVars, F!fileVars, F!lockVars, F!callVars
<1>3. /\ pcF'[p] = "adding"
      /\ \A q \in Clients : q # p => pcF'[q] = pcF[q]
      /\ raw'[f] = (IF op[p] = "fmemopen" THEN {"buffer", "object"} ELSE {"buffer"})
      /\ \A g \in Files : g # f => raw'[g] = raw[g]
  BY <1>1, <1>2 DEF ManagedInv, ManagedTypes
<1>4. \A g : \A q \in Clients : Closer(q, g)' <=> Closer(q, g)
  BY <1>1, <1>2, <1>3, Kinds DEF Closer
<1>5. \A g : Listed(g)' <=> Listed(g)
  BY <1>1, <1>2, <1>3 DEF Listed
<1>6. \A g : Unforgotten(g)' => Unforgotten(g) \/ g = f
  BY <1>1, <1>2, <1>3, <1>4 DEF Unforgotten
<1>7. \A g : Listable(g) => Listable(g)'
  BY <1>1, <1>2, <1>3, <1>4 DEF Listable
<1>8. ManagedTypes'
  BY <1>1, <1>2, Kinds DEF ManagedInv, ManagedTypes, FilePoints, FileOps, OpenPoints, LoadPoints, LockPoints
<1>9. ASSUME NEW q \in Clients PROVE CallShape(q)'
  BY <1>1, <1>2, <1>3, <1>5, Kinds, ManagedFacts DEF ManagedInv, ManagedTypes, CallShape, OpenPoints, LoadPoints, LockPoints
<1>10. ASSUME NEW q \in Clients PROVE OpensAlone(q)'
  BY <1>1, <1>2, <1>3, <1>5, Kinds, ManagedFacts DEF ManagedInv, CallShape, OpensAlone, OpenPoints, LoadPoints, LockPoints
<1>11. ASSUME NEW q \in Clients PROVE LockRight(q)'
  <2>1. CASE argF[q] = f
    BY <1>1, <1>2, <1>3, <2>1 DEF LockRight, Holding
  <2>2. CASE argF[q] # f
    BY <1>1, <1>2, <1>3, <1>6, <2>2 DEF ManagedInv, LockRight, Holding
  <2> QED
    BY <2>1, <2>2
<1>12. ASSUME NEW q \in Clients PROVE WalkRight(q)'
  BY <1>1, <1>2, <1>3, <1>7, Kinds, ManagedFacts DEF ManagedInv, WalkRight, OpenPoints, LoadPoints, LockPoints
<1>13. ASSUME NEW q \in Clients PROVE Calm(q)'
  BY <1>1, <1>2, <1>3, Kinds, ManagedFacts DEF ManagedInv, Calm
<1>14. ASSUME NEW g \in Files PROVE KnownRight(g)'
  BY <1>1, <1>2, <1>3, <1>5, Kinds, ManagedFacts DEF ManagedInv, KnownRight, OpenPoints, LoadPoints, LockPoints
<1>15. ASSUME NEW g \in Files PROVE RootRight(g)'
  <2>1. CASE g = f
    <3>1. raw'[f] \subseteq roots'[f] /\ "buffer" \in raw'[f] /\ f \in active'
      BY <1>1, <1>2, <1>3
    <3>2. child'[f] = "running" => "object" \in roots'[f]
      BY <1>1, <1>2
    <3> QED
      BY <2>1, <3>1, <3>2 DEF RootRight
  <2>2. CASE g # f
    BY <1>1, <1>2, <1>3, <2>2 DEF ManagedInv, RootRight
  <2> QED
    BY <2>1, <2>2
<1>16. ASSUME NEW g \in Files PROVE ClosedOnce(g)'
  <2>1. CASE g = f
    BY <1>1, <1>2, <1>3, <1>4, <1>5, <2>1 DEF ClosedOnce, Closer, Listable
  <2>2. CASE g # f
    BY <1>1, <1>2, <1>3, <1>4, <1>5, <1>7, <2>2 DEF ManagedInv, ClosedOnce
  <2> QED
    BY <2>1, <2>2
<1>17. LocksApart'
  BY <1>1, <1>2, <1>3, Kinds, ManagedFacts DEF ManagedInv, LocksApart
<1>18. ASSUME NEW m \in Locks PROVE OwnedRight(m)'
  BY <1>1, <1>2, <1>3, Kinds, ManagedFacts DEF ManagedInv, OwnedRight, Holding
<1>19. ListOnce' /\ (dirty \subseteq active)'
  BY <1>1, <1>2, <1>3 DEF ManagedInv, ListOnce
<1> QED
  BY <1>8, <1>9, <1>10, <1>11, <1>12, <1>13, <1>14, <1>15, <1>16, <1>17, <1>18, <1>19 DEF ManagedInv

LEMMA OpenFailsInv ==
  ASSUME ManagedInv, NEW p \in Clients, F!OpenFails(p)
  PROVE  ManagedInv'
<1> DEFINE f == argF[p]
<1>1. /\ CallShape(p) /\ OpensAlone(p) /\ LockRight(p) /\ WalkRight(p) /\ Calm(p)
      /\ pcF[p] \in {"preparing", "initialising"} /\ f \in Files /\ op[p] \in F!Opening /\ my[p] = None
      /\ raw[f] = {} /\ f \notin active
  BY Kinds, ManagedFacts DEF F!OpenFails, ManagedInv, ManagedTypes, CallShape, OpenPoints, LoadPoints, LockPoints, OpensAlone
<1>2. /\ UNCHANGED <<race, known, ofl, std, oflMu, active, raw, slot, lockOwner, count, dirty,
                     todo, due>>
      /\ pcF' = [pcF EXCEPT ![p] = "idle"]
      /\ op' = [op EXCEPT ![p] = "none"]
      /\ argF' = [argF EXCEPT ![p] = None]
      /\ my' = [my EXCEPT ![p] = None]
      /\ roots' = [roots EXCEPT ![f] = {}]
      /\ child' = [child EXCEPT ![f] = IF child[f] = "running" THEN "reaped" ELSE child[f]]
  BY <1>1 DEF F!OpenFails, F!Goto, F!Done, F!listVars, F!fileVars, F!lockVars, F!callVars
<1>3. /\ pcF'[p] = "idle" /\ op'[p] = "none" /\ argF'[p] = None /\ my'[p] = None
      /\ \A q \in Clients : q # p => pcF'[q] = pcF[q] /\ op'[q] = op[q] /\ argF'[q] = argF[q] /\ my'[q] = my[q]
      /\ roots'[f] = {} /\ child'[f] = (IF child[f] = "running" THEN "reaped" ELSE child[f])
      /\ \A g \in Files : g # f => roots'[g] = roots[g] /\ child'[g] = child[g]
  BY <1>1, <1>2 DEF ManagedInv, ManagedTypes
<1>4. \A g : \A q \in Clients : Closer(q, g)' <=> Closer(q, g)
  BY <1>1, <1>2, <1>3, Kinds DEF Closer
<1>5. \A g : Listed(g)' <=> Listed(g)
  BY <1>1, <1>2, <1>3 DEF Listed
<1>6. \A g : Unforgotten(g)' => Unforgotten(g)
  BY <1>1, <1>2, <1>3, <1>4 DEF Unforgotten
<1>7. \A g : Listable(g) => Listable(g)'
  BY <1>1, <1>2, <1>3, <1>4 DEF Listable
<1>8. ManagedTypes'
  BY <1>1, <1>2, Kinds DEF ManagedInv, ManagedTypes, FilePoints, FileOps, OpenPoints, LoadPoints, LockPoints
<1>9. ASSUME NEW q \in Clients PROVE CallShape(q)'
  BY <1>1, <1>2, <1>3, <1>5, Kinds, ManagedFacts DEF ManagedInv, ManagedTypes, CallShape, OpenPoints, LoadPoints, LockPoints
<1>10. ASSUME NEW q \in Clients PROVE OpensAlone(q)'
  BY <1>1, <1>2, <1>3, <1>5, Kinds, ManagedFacts DEF ManagedInv, CallShape, OpensAlone, OpenPoints, LoadPoints, LockPoints
<1>11. ASSUME NEW q \in Clients PROVE LockRight(q)'
  BY <1>1, <1>2, <1>3, <1>6, Kinds, ManagedFacts DEF ManagedInv, LockRight, Holding
<1>12. ASSUME NEW q \in Clients PROVE WalkRight(q)'
  BY <1>1, <1>2, <1>3, <1>7, Kinds, ManagedFacts DEF ManagedInv, WalkRight, OpenPoints, LoadPoints, LockPoints
<1>13. ASSUME NEW q \in Clients PROVE Calm(q)'
  <2>1. CASE q = p
    BY <1>1, <1>2, <1>3, <2>1, Kinds DEF Calm
  <2>2. CASE q # p
    <3>1. /\ pcF'[q] = pcF[q] /\ op'[q] = op[q] /\ argF'[q] = argF[q] /\ race' = race /\ active' = active
          /\ Calm(q) /\ CallShape(q)
      BY <1>2, <1>3, <2>2 DEF ManagedInv
    <3>2. ASSUME NEW r \in Clients, r # q, argF'[r] = argF'[q], op[q] \in F!Closing
          PROVE  r # p /\ op'[r] = op[r] /\ argF'[r] = argF[r]
      BY <1>3, <3>1, <3>2, ManagedFacts DEF CallShape
    <3> QED
      BY <3>1, <3>2 DEF Calm
  <2> QED
    BY <2>1, <2>2
<1>14. ASSUME NEW g \in Files PROVE KnownRight(g)'
  BY <1>1, <1>2, <1>3, <1>5, Kinds, ManagedFacts DEF ManagedInv, KnownRight, OpenPoints, LoadPoints, LockPoints
<1>15. ASSUME NEW g \in Files PROVE RootRight(g)'
  <2>1. CASE g = f
    BY <1>1, <1>2, <1>3, Kinds, ManagedFacts, <2>1 DEF ManagedInv, RootRight
  <2>2. CASE g # f
    BY <1>1, <1>2, <1>3, Kinds, ManagedFacts, <2>2 DEF ManagedInv, RootRight
  <2> QED
    BY <2>1, <2>2
<1>16. ASSUME NEW g \in Files PROVE ClosedOnce(g)'
  BY <1>1, <1>2, <1>3, <1>4, <1>5, <1>7, Kinds, ManagedFacts DEF ManagedInv, ClosedOnce
<1>17. LocksApart'
  BY <1>1, <1>2, <1>3, Kinds, ManagedFacts DEF ManagedInv, LocksApart
<1>18. ASSUME NEW m \in Locks PROVE OwnedRight(m)'
  BY <1>1, <1>2, <1>3, Kinds, ManagedFacts DEF ManagedInv, OwnedRight, Holding
<1>19. ListOnce' /\ (dirty \subseteq active)'
  BY <1>1, <1>2, <1>3 DEF ManagedInv, ListOnce
<1> QED
  BY <1>8, <1>9, <1>10, <1>11, <1>12, <1>13, <1>14, <1>15, <1>16, <1>17, <1>18, <1>19 DEF ManagedInv

LEMMA UseInv ==
  ASSUME ManagedInv, NEW p \in Clients, F!Use(p)
  PROVE  ManagedInv'
<1> DEFINE f == argF[p]
<1>1. /\ CallShape(p) /\ OpensAlone(p) /\ LockRight(p) /\ WalkRight(p) /\ Calm(p)
      /\ pcF[p] = "acquired" /\ op[p] = "use" /\ f \in Files
  BY Kinds, ManagedFacts DEF F!Use, ManagedInv, ManagedTypes, CallShape, OpenPoints, LoadPoints, LockPoints
<1>2. /\ UNCHANGED <<race, known, ofl, std, oflMu, active, roots, raw, slot, lockOwner, count,
                     child, argF, op, my, todo>>
      /\ pcF' = [pcF EXCEPT ![p] = "releasing"]
      /\ \/ dirty' = dirty \cup {f} /\ due' = due
         \/ dirty' = dirty \ {f} /\ due' = [q \in Clients |-> due[q] \ {f}]
  BY <1>1 DEF F!Use, F!Goto, F!Done, F!listVars, F!fileVars, F!lockVars, F!callVars, F!Written
<1>3. /\ pcF'[p] = "releasing"
      /\ \A q \in Clients : q # p => pcF'[q] = pcF[q]
  BY <1>1, <1>2 DEF ManagedInv, ManagedTypes
<1>4. \A g : \A q \in Clients : Closer(q, g)' <=> Closer(q, g)
  BY <1>1, <1>2, <1>3, Kinds DEF Closer
<1>5. \A g : Listed(g)' <=> Listed(g)
  BY <1>1, <1>2, <1>3 DEF Listed
<1>6. \A g : Unforgotten(g)' => Unforgotten(g)
  BY <1>1, <1>2, <1>3, <1>4 DEF Unforgotten
<1>7. \A g : Listable(g) => Listable(g)'
  BY <1>1, <1>2, <1>3, <1>4 DEF Listable
<1>8. ManagedTypes'
  BY <1>1, <1>2, Kinds DEF ManagedInv, ManagedTypes, FilePoints, FileOps, OpenPoints, LoadPoints, LockPoints
<1>9. ASSUME NEW q \in Clients PROVE CallShape(q)'
  BY <1>1, <1>2, <1>3, <1>5, Kinds, ManagedFacts DEF ManagedInv, ManagedTypes, CallShape, OpenPoints, LoadPoints, LockPoints
<1>10. ASSUME NEW q \in Clients PROVE OpensAlone(q)'
  BY <1>1, <1>2, <1>3, <1>5, Kinds, ManagedFacts DEF ManagedInv, CallShape, OpensAlone, OpenPoints, LoadPoints, LockPoints
<1>11. ASSUME NEW q \in Clients PROVE LockRight(q)'
  BY <1>1, <1>2, <1>3, <1>6, Kinds, ManagedFacts DEF ManagedInv, LockRight, Holding
<1>12. ASSUME NEW q \in Clients PROVE WalkRight(q)'
  BY <1>1, <1>2, <1>3, <1>7, Kinds, ManagedFacts DEF ManagedInv, WalkRight, OpenPoints, LoadPoints, LockPoints
<1>13. ASSUME NEW q \in Clients PROVE Calm(q)'
  BY <1>1, <1>2, <1>3, Kinds, ManagedFacts DEF ManagedInv, Calm
<1>14. ASSUME NEW g \in Files PROVE KnownRight(g)'
  BY <1>1, <1>2, <1>3, <1>5, Kinds, ManagedFacts DEF ManagedInv, KnownRight, OpenPoints, LoadPoints, LockPoints
<1>15. ASSUME NEW g \in Files PROVE RootRight(g)'
  BY <1>1, <1>2, <1>3, Kinds, ManagedFacts DEF ManagedInv, RootRight
<1>16. ASSUME NEW g \in Files PROVE ClosedOnce(g)'
  BY <1>1, <1>2, <1>3, <1>4, <1>5, <1>7, Kinds, ManagedFacts DEF ManagedInv, ClosedOnce
<1>17. LocksApart'
  BY <1>1, <1>2, <1>3, Kinds, ManagedFacts DEF ManagedInv, LocksApart
<1>18. ASSUME NEW m \in Locks PROVE OwnedRight(m)'
  BY <1>1, <1>2, <1>3, Kinds, ManagedFacts DEF ManagedInv, OwnedRight, Holding
<1>19. ListOnce' /\ (dirty \subseteq active)'
  BY <1>1, <1>2, <1>3 DEF ManagedInv, ListOnce, ClosedOnce
<1> QED
  BY <1>8, <1>9, <1>10, <1>11, <1>12, <1>13, <1>14, <1>15, <1>16, <1>17, <1>18, <1>19 DEF ManagedInv

LEMMA FlushInv ==
  ASSUME ManagedInv, NEW p \in Clients, F!Flush(p)
  PROVE  ManagedInv'
<1> DEFINE f == argF[p]
<1>1. /\ CallShape(p) /\ OpensAlone(p) /\ LockRight(p) /\ WalkRight(p) /\ Calm(p)
      /\ pcF[p] = "acquired" /\ op[p] = "flushall" /\ f \in Files
  BY Kinds, ManagedFacts DEF F!Flush, ManagedInv, ManagedTypes, CallShape, OpenPoints, LoadPoints, LockPoints
<1>2. /\ UNCHANGED <<race, known, ofl, std, oflMu, active, roots, raw, slot, lockOwner, count,
                     child, argF, op, my, todo>>
      /\ dirty' = dirty \ {f}
      /\ due' = [q \in Clients |-> due[q] \ {f}]
      /\ pcF' = [pcF EXCEPT ![p] = "releasing"]
  BY <1>1 DEF F!Flush, F!Goto, F!Done, F!listVars, F!fileVars, F!lockVars, F!callVars,
              F!Written
<1>3. /\ pcF'[p] = "releasing"
      /\ \A q \in Clients : q # p => pcF'[q] = pcF[q]
  BY <1>1, <1>2 DEF ManagedInv, ManagedTypes
<1>4. \A g : \A q \in Clients : Closer(q, g)' <=> Closer(q, g)
  BY <1>1, <1>2, <1>3, Kinds DEF Closer
<1>5. \A g : Listed(g)' <=> Listed(g)
  BY <1>1, <1>2, <1>3 DEF Listed
<1>6. \A g : Unforgotten(g)' => Unforgotten(g)
  BY <1>1, <1>2, <1>3, <1>4 DEF Unforgotten
<1>7. \A g : Listable(g) => Listable(g)'
  BY <1>1, <1>2, <1>3, <1>4 DEF Listable
<1>8. ManagedTypes'
  BY <1>1, <1>2, Kinds DEF ManagedInv, ManagedTypes, FilePoints, FileOps, OpenPoints, LoadPoints, LockPoints
<1>9. ASSUME NEW q \in Clients PROVE CallShape(q)'
  BY <1>1, <1>2, <1>3, <1>5, Kinds, ManagedFacts DEF ManagedInv, ManagedTypes, CallShape, OpenPoints, LoadPoints, LockPoints
<1>10. ASSUME NEW q \in Clients PROVE OpensAlone(q)'
  BY <1>1, <1>2, <1>3, <1>5, Kinds, ManagedFacts DEF ManagedInv, CallShape, OpensAlone, OpenPoints, LoadPoints, LockPoints
<1>11. ASSUME NEW q \in Clients PROVE LockRight(q)'
  BY <1>1, <1>2, <1>3, <1>6, Kinds, ManagedFacts DEF ManagedInv, LockRight, Holding
<1>12. ASSUME NEW q \in Clients PROVE WalkRight(q)'
  BY <1>1, <1>2, <1>3, <1>7, Kinds, ManagedFacts DEF ManagedInv, WalkRight, OpenPoints, LoadPoints, LockPoints
<1>13. ASSUME NEW q \in Clients PROVE Calm(q)'
  BY <1>1, <1>2, <1>3, Kinds, ManagedFacts DEF ManagedInv, Calm
<1>14. ASSUME NEW g \in Files PROVE KnownRight(g)'
  BY <1>1, <1>2, <1>3, <1>5, Kinds, ManagedFacts DEF ManagedInv, KnownRight, OpenPoints, LoadPoints, LockPoints
<1>15. ASSUME NEW g \in Files PROVE RootRight(g)'
  BY <1>1, <1>2, <1>3, Kinds, ManagedFacts DEF ManagedInv, RootRight
<1>16. ASSUME NEW g \in Files PROVE ClosedOnce(g)'
  BY <1>1, <1>2, <1>3, <1>4, <1>5, <1>7, Kinds, ManagedFacts DEF ManagedInv, ClosedOnce
<1>17. LocksApart'
  BY <1>1, <1>2, <1>3, Kinds, ManagedFacts DEF ManagedInv, LocksApart
<1>18. ASSUME NEW m \in Locks PROVE OwnedRight(m)'
  BY <1>1, <1>2, <1>3, Kinds, ManagedFacts DEF ManagedInv, OwnedRight, Holding
<1>19. ListOnce' /\ (dirty \subseteq active)'
  BY <1>1, <1>2, <1>3 DEF ManagedInv, ListOnce
<1> QED
  BY <1>8, <1>9, <1>10, <1>11, <1>12, <1>13, <1>14, <1>15, <1>16, <1>17, <1>18, <1>19 DEF ManagedInv

LEMMA CloseRawInv ==
  ASSUME ManagedInv, NEW p \in Clients, F!CloseRaw(p)
  PROVE  ManagedInv'
<1> DEFINE f == argF[p]
<1>1. /\ CallShape(p) /\ OpensAlone(p) /\ LockRight(p) /\ WalkRight(p) /\ Calm(p)
      /\ pcF[p] = "acquired" /\ op[p] \in F!Closing /\ f \in Files /\ f \in active
  BY Kinds, ManagedFacts DEF F!CloseRaw, ManagedInv, ManagedTypes, CallShape, OpenPoints, LoadPoints, LockPoints, ClosedOnce
<1>2. /\ UNCHANGED <<race, known, ofl, std, oflMu, roots, raw, slot, lockOwner, count, child,
                     argF, op, my, todo>>
      /\ active' = active \ {f}
      /\ dirty' = dirty \ {f}
      /\ due' = [q \in Clients |-> due[q] \ {f}]
      /\ pcF' = [pcF EXCEPT ![p] = "retiring"]
  BY <1>1 DEF F!CloseRaw, F!Goto, F!Done, F!listVars, F!fileVars, F!lockVars, F!callVars,
              F!Written
<1>3. /\ pcF'[p] = "retiring"
      /\ \A q \in Clients : q # p => pcF'[q] = pcF[q]
  BY <1>1, <1>2 DEF ManagedInv, ManagedTypes
<1>4. \A g : \A q \in Clients : Closer(q, g)' <=> Closer(q, g) \/ (q = p /\ g = f)
  BY <1>1, <1>2, <1>3, Kinds DEF Closer
<1>5. \A g : Listed(g)' <=> Listed(g)
  BY <1>1, <1>2, <1>3 DEF Listed
<1>6. \A g : Unforgotten(g)' => Unforgotten(g)
  BY <1>1, <1>2, <1>3, <1>4 DEF Unforgotten
<1>7. \A g : Listable(g) => Listable(g)'
  BY <1>1, <1>2, <1>3, <1>4 DEF Listable
<1>8. ASSUME NEW q \in Clients, argF[q] = f, pcF[q] = "acquired" PROVE q = p
  BY <1>1, <1>8, InsideAlone DEF Unforgotten, Holding
<1>9. ManagedTypes'
  BY <1>1, <1>2, Kinds DEF ManagedInv, ManagedTypes, FilePoints, FileOps, OpenPoints, LoadPoints, LockPoints
<1>10. ASSUME NEW q \in Clients PROVE CallShape(q)'
  BY <1>1, <1>2, <1>3, <1>5, Kinds, ManagedFacts DEF ManagedInv, ManagedTypes, CallShape, OpenPoints, LoadPoints, LockPoints
<1>11. ASSUME NEW q \in Clients PROVE OpensAlone(q)'
  BY <1>1, <1>2, <1>3, <1>5, Kinds, ManagedFacts DEF ManagedInv, CallShape, OpensAlone, OpenPoints, LoadPoints, LockPoints
<1>12. ASSUME NEW q \in Clients PROVE LockRight(q)'
  BY <1>1, <1>2, <1>3, <1>6, Kinds, ManagedFacts DEF ManagedInv, LockRight, Holding
<1>13. ASSUME NEW q \in Clients PROVE WalkRight(q)'
  BY <1>1, <1>2, <1>3, <1>7, Kinds, ManagedFacts DEF ManagedInv, WalkRight, OpenPoints, LoadPoints, LockPoints
<1>14. ASSUME NEW q \in Clients PROVE Calm(q)'
  BY <1>1, <1>2, <1>3, Kinds, ManagedFacts DEF ManagedInv, Calm
<1>15. ASSUME NEW g \in Files PROVE KnownRight(g)'
  BY <1>1, <1>2, <1>3, <1>5, Kinds, ManagedFacts DEF ManagedInv, KnownRight, OpenPoints, LoadPoints, LockPoints
<1>16. ASSUME NEW g \in Files PROVE RootRight(g)'
  BY <1>1, <1>2, <1>3, Kinds, ManagedFacts DEF ManagedInv, RootRight
<1>17. ASSUME NEW g \in Files PROVE ClosedOnce(g)'
  <2>1. CASE g = f
    <3>1. \A q \in Clients : ~Closer(q, f)
      BY <1>1 DEF ManagedInv, ClosedOnce
    <3>2. Listable(g)'
      BY <1>1, <1>3, <1>4, <2>1 DEF Listable
    <3> QED
      BY <1>1, <1>2, <1>3, <1>4, <1>5, <1>8, <2>1, <3>1, <3>2 DEF ManagedInv, ClosedOnce
  <2>2. CASE g # f
    BY <1>1, <1>2, <1>3, <1>4, <1>5, <1>7, <2>2 DEF ManagedInv, ClosedOnce
  <2> QED
    BY <2>1, <2>2
<1>18. LocksApart'
  BY <1>1, <1>2, <1>3, Kinds, ManagedFacts DEF ManagedInv, LocksApart
<1>19. ASSUME NEW m \in Locks PROVE OwnedRight(m)'
  BY <1>1, <1>2, <1>3, Kinds, ManagedFacts DEF ManagedInv, OwnedRight, Holding
<1>20. ListOnce' /\ (dirty \subseteq active)'
  BY <1>1, <1>2, <1>3 DEF ManagedInv, ListOnce
<1> QED
  BY <1>9, <1>10, <1>11, <1>12, <1>13, <1>14, <1>15, <1>16, <1>17, <1>18, <1>19, <1>20 DEF ManagedInv

LEMMA RetireInv ==
  ASSUME ManagedInv, NEW p \in Clients, F!Retire(p)
  PROVE  ManagedInv'
<1> DEFINE f == argF[p]
<1>1. /\ CallShape(p) /\ OpensAlone(p) /\ LockRight(p) /\ WalkRight(p) /\ Calm(p)
      /\ pcF[p] = "retiring" /\ op[p] \in F!Closing /\ f \in Files /\ Closer(p, f) /\ f \notin active
  BY Kinds, ManagedFacts DEF F!Retire, ManagedInv, ManagedTypes, CallShape, OpenPoints, LoadPoints, LockPoints, Closer, ClosedOnce
<1>2. /\ UNCHANGED <<race, known, ofl, std, oflMu, active, slot, lockOwner, count, dirty,
                     child, argF, op, my, todo, due>>
      /\ pcF' = [pcF EXCEPT ![p] = "releasing"]
      /\ raw' = [raw EXCEPT ![f] = {}]
      /\ roots' = [roots EXCEPT ![f] = {}]
  BY <1>1 DEF F!Retire, F!Goto, F!Done, F!listVars, F!fileVars, F!lockVars, F!callVars
<1>3. /\ pcF'[p] = "releasing"
      /\ \A q \in Clients : q # p => pcF'[q] = pcF[q]
      /\ raw'[f] = {} /\ roots'[f] = {}
      /\ \A g \in Files : g # f => raw'[g] = raw[g] /\ roots'[g] = roots[g]
  BY <1>1, <1>2 DEF ManagedInv, ManagedTypes
<1>4. \A g : \A q \in Clients : Closer(q, g)' <=> Closer(q, g)
  BY <1>1, <1>2, <1>3, Kinds DEF Closer
<1>5. \A g : Listed(g)' <=> Listed(g)
  BY <1>1, <1>2, <1>3 DEF Listed
<1>6. \A g : Unforgotten(g)' => Unforgotten(g)
  BY <1>1, <1>2, <1>3, <1>4 DEF Unforgotten
<1>7. \A g : Listable(g) => Listable(g)'
  BY <1>1, <1>2, <1>3, <1>4 DEF Listable
<1>8. ManagedTypes'
  BY <1>1, <1>2, Kinds DEF ManagedInv, ManagedTypes, FilePoints, FileOps, OpenPoints, LoadPoints, LockPoints
<1>9. ASSUME NEW q \in Clients PROVE CallShape(q)'
  BY <1>1, <1>2, <1>3, <1>5, Kinds, ManagedFacts DEF ManagedInv, ManagedTypes, CallShape, OpenPoints, LoadPoints, LockPoints
<1>10. ASSUME NEW q \in Clients PROVE OpensAlone(q)'
  BY <1>1, <1>2, <1>3, <1>5, Kinds, ManagedFacts DEF ManagedInv, CallShape, OpensAlone, OpenPoints, LoadPoints, LockPoints
<1>11. ASSUME NEW q \in Clients PROVE LockRight(q)'
  BY <1>1, <1>2, <1>3, <1>6, Kinds, ManagedFacts DEF ManagedInv, LockRight, Holding
<1>12. ASSUME NEW q \in Clients PROVE WalkRight(q)'
  BY <1>1, <1>2, <1>3, <1>7, Kinds, ManagedFacts DEF ManagedInv, WalkRight, OpenPoints, LoadPoints, LockPoints
<1>13. ASSUME NEW q \in Clients PROVE Calm(q)'
  BY <1>1, <1>2, <1>3, Kinds, ManagedFacts DEF ManagedInv, Calm
<1>14. ASSUME NEW g \in Files PROVE KnownRight(g)'
  BY <1>1, <1>2, <1>3, <1>5, Kinds, ManagedFacts DEF ManagedInv, KnownRight, OpenPoints, LoadPoints, LockPoints
<1>15. ASSUME NEW g \in Files PROVE RootRight(g)'
  <2>1. CASE g = f
    BY <1>1, <1>2, <1>3, Kinds, ManagedFacts, <2>1 DEF ManagedInv, RootRight
  <2>2. CASE g # f
    BY <1>1, <1>2, <1>3, Kinds, ManagedFacts, <2>2 DEF ManagedInv, RootRight
  <2> QED
    BY <2>1, <2>2
<1>16. ASSUME NEW g \in Files PROVE ClosedOnce(g)'
  BY <1>1, <1>2, <1>3, <1>4, <1>5, <1>7, Kinds, ManagedFacts DEF ManagedInv, ClosedOnce
<1>17. LocksApart' /\ ListOnce' /\ (dirty \subseteq active)'
  BY <1>2 DEF ManagedInv, LocksApart, ListOnce
<1>18. ASSUME NEW m \in Locks PROVE OwnedRight(m)'
  BY <1>1, <1>2, <1>3, Kinds, ManagedFacts DEF ManagedInv, OwnedRight, Holding
<1> QED
  BY <1>8, <1>9, <1>10, <1>11, <1>12, <1>13, <1>14, <1>15, <1>16, <1>17, <1>18 DEF ManagedInv

LEMMA EnterInv ==
  ASSUME ManagedInv, NEW p \in Clients, NEW f \in Files,
         NEW o \in {"use"} \cup F!Closing, F!Enter(p, f, o)
  PROVE  ManagedInv'
<1>1. /\ CallShape(p) /\ OpensAlone(p) /\ LockRight(p) /\ WalkRight(p) /\ Calm(p)
      /\ pcF[p] = "idle" /\ f \in known /\ argF[p] = None /\ op[p] = "none" /\ my[p] = None
      /\ race \/ (f \in active /\ F!Unraced(p, f, o))
  BY Kinds, ManagedFacts DEF F!Enter, ManagedInv, ManagedTypes, CallShape, OpenPoints, LoadPoints, LockPoints
<1>2. /\ UNCHANGED <<race, known, ofl, std, oflMu, active, roots, raw, slot, lockOwner, count,
                     dirty, child, my, todo, due>>
      /\ pcF' = [pcF EXCEPT ![p] = "loading"]
      /\ op' = [op EXCEPT ![p] = o]
      /\ argF' = [argF EXCEPT ![p] = f]
  BY <1>1 DEF F!Enter, F!Goto, F!Done, F!listVars, F!fileVars, F!lockVars, F!callVars
<1>3. /\ pcF'[p] = "loading" /\ op'[p] = o /\ argF'[p] = f
      /\ \A q \in Clients : q # p => pcF'[q] = pcF[q] /\ op'[q] = op[q] /\ argF'[q] = argF[q]
  BY <1>1, <1>2 DEF ManagedInv, ManagedTypes
<1>4. \A g : \A q \in Clients : Closer(q, g)' <=> Closer(q, g)
  BY <1>1, <1>2, <1>3, Kinds DEF Closer
<1>5. \A g : Listed(g)' <=> Listed(g)
  BY <1>1, <1>2, <1>3 DEF Listed
<1>6. \A g : Unforgotten(g)' => Unforgotten(g)
  BY <1>1, <1>2, <1>3, <1>4 DEF Unforgotten
<1>7. \A g : Listable(g) => Listable(g)'
  BY <1>1, <1>2, <1>3, <1>4 DEF Listable
<1>8. ManagedTypes'
  BY <1>1, <1>2, Kinds DEF ManagedInv, ManagedTypes, FilePoints, FileOps, OpenPoints, LoadPoints, LockPoints
<1>9. ASSUME NEW q \in Clients PROVE CallShape(q)'
  BY <1>1, <1>2, <1>3, <1>5, Kinds, ManagedFacts DEF ManagedInv, ManagedTypes, CallShape, OpenPoints, LoadPoints, LockPoints
<1>10. ASSUME NEW q \in Clients PROVE OpensAlone(q)'
  BY <1>1, <1>2, <1>3, <1>5, Kinds, ManagedFacts DEF ManagedInv, CallShape, OpensAlone, OpenPoints, LoadPoints, LockPoints
<1>11. ASSUME NEW q \in Clients PROVE LockRight(q)'
  BY <1>1, <1>2, <1>3, <1>6, Kinds, ManagedFacts DEF ManagedInv, LockRight, Holding
<1>12. ASSUME NEW q \in Clients PROVE WalkRight(q)'
  BY <1>1, <1>2, <1>3, <1>7, Kinds, ManagedFacts DEF ManagedInv, WalkRight, OpenPoints, LoadPoints, LockPoints
<1>13. ASSUME NEW q \in Clients PROVE Calm(q)'
  <2>1. CASE q = p
    BY <1>1, <1>2, <1>3, <2>1, Kinds DEF Calm, F!Unraced
  <2>2. CASE q # p
    <3>1. /\ pcF'[q] = pcF[q] /\ op'[q] = op[q] /\ argF'[q] = argF[q] /\ race' = race
          /\ active \subseteq active' /\ Calm(q) /\ CallShape(q)
      BY <1>2, <1>3, <2>2 DEF ManagedInv
    <3>2. ASSUME ~race, NEW r \in Clients, r # q, argF'[r] = argF'[q], op[q] \in F!Closing
          PROVE  r # p
      BY <1>1, <1>3, <2>2, <3>1, <3>2 DEF F!Unraced
    <3> QED
      BY <1>3, <3>1, <3>2 DEF Calm
  <2> QED
    BY <2>1, <2>2
<1>14. ASSUME NEW g \in Files PROVE KnownRight(g)'
  BY <1>1, <1>2, <1>3, <1>5, Kinds, ManagedFacts DEF ManagedInv, KnownRight, OpenPoints, LoadPoints, LockPoints
<1>15. ASSUME NEW g \in Files PROVE RootRight(g)'
  BY <1>1, <1>2, <1>3, Kinds, ManagedFacts DEF ManagedInv, RootRight
<1>16. ASSUME NEW g \in Files PROVE ClosedOnce(g)'
  BY <1>1, <1>2, <1>3, <1>4, <1>5, <1>7, Kinds, ManagedFacts DEF ManagedInv, ClosedOnce
<1>17. LocksApart'
  BY <1>1, <1>2, <1>3, Kinds, ManagedFacts DEF ManagedInv, LocksApart
<1>18. ASSUME NEW m \in Locks PROVE OwnedRight(m)'
  BY <1>1, <1>2, <1>3, Kinds, ManagedFacts DEF ManagedInv, OwnedRight, Holding
<1>19. ListOnce' /\ (dirty \subseteq active)'
  BY <1>1, <1>2, <1>3 DEF ManagedInv, ListOnce
<1> QED
  BY <1>8, <1>9, <1>10, <1>11, <1>12, <1>13, <1>14, <1>15, <1>16, <1>17, <1>18, <1>19 DEF ManagedInv

LEMMA VisitInv ==
  ASSUME ManagedInv, NEW p \in Clients, F!Visit(p)
  PROVE  ManagedInv'
<1> DEFINE f == todo[p][1]
<1>1. /\ CallShape(p) /\ OpensAlone(p) /\ LockRight(p) /\ WalkRight(p) /\ Calm(p)
      /\ pcF[p] = "walking" /\ op[p] = "flushall" /\ Len(todo[p]) > 0 /\ f \in Files
      /\ argF[p] = None /\ my[p] = None /\ Listable(f) /\ f \in known
  BY TodoFacts, Kinds, ManagedFacts DEF F!Visit, ManagedInv, ManagedTypes, CallShape, OpenPoints, LoadPoints, LockPoints, WalkRight
<1>2. /\ UNCHANGED <<race, known, ofl, std, oflMu, active, roots, raw, slot, lockOwner, count,
                     dirty, child, op, my, todo, due>>
      /\ pcF' = [pcF EXCEPT ![p] = "loading"]
      /\ argF' = [argF EXCEPT ![p] = f]
  BY <1>1 DEF F!Visit, F!Goto, F!Done, F!listVars, F!fileVars, F!lockVars, F!callVars
<1>3. /\ pcF'[p] = "loading" /\ argF'[p] = f
      /\ \A q \in Clients : q # p => pcF'[q] = pcF[q] /\ argF'[q] = argF[q]
  BY <1>1, <1>2 DEF ManagedInv, ManagedTypes
<1>4. \A g : \A q \in Clients : Closer(q, g)' <=> Closer(q, g)
  BY <1>1, <1>2, <1>3, Kinds DEF Closer
<1>5. \A g : Listed(g)' <=> Listed(g)
  BY <1>1, <1>2, <1>3 DEF Listed
<1>6. \A g : Unforgotten(g)' => Unforgotten(g)
  BY <1>1, <1>2, <1>3, <1>4 DEF Unforgotten
<1>7. \A g : Listable(g) => Listable(g)'
  BY <1>1, <1>2, <1>3, <1>4 DEF Listable
<1>8. ManagedTypes'
  BY <1>1, <1>2, Kinds DEF ManagedInv, ManagedTypes, FilePoints, FileOps, OpenPoints, LoadPoints, LockPoints
<1>9. ASSUME NEW q \in Clients PROVE CallShape(q)'
  BY <1>1, <1>2, <1>3, <1>5, Kinds, ManagedFacts DEF ManagedInv, ManagedTypes, CallShape, OpenPoints, LoadPoints, LockPoints
<1>10. ASSUME NEW q \in Clients PROVE OpensAlone(q)'
  BY <1>1, <1>2, <1>3, <1>5, Kinds, ManagedFacts DEF ManagedInv, CallShape, OpensAlone, OpenPoints, LoadPoints, LockPoints
<1>11. ASSUME NEW q \in Clients PROVE LockRight(q)'
  BY <1>1, <1>2, <1>3, <1>6, Kinds, ManagedFacts DEF ManagedInv, LockRight, Holding
<1>12. ASSUME NEW q \in Clients PROVE WalkRight(q)'
  BY <1>1, <1>2, <1>3, <1>7, Kinds, ManagedFacts DEF ManagedInv, WalkRight, OpenPoints, LoadPoints, LockPoints
<1>13. ASSUME NEW q \in Clients PROVE Calm(q)'
  BY <1>1, <1>2, <1>3, Kinds, ManagedFacts DEF ManagedInv, Calm
<1>14. ASSUME NEW g \in Files PROVE KnownRight(g)'
  BY <1>1, <1>2, <1>3, <1>5, Kinds, ManagedFacts DEF ManagedInv, KnownRight, OpenPoints, LoadPoints, LockPoints
<1>15. ASSUME NEW g \in Files PROVE RootRight(g)'
  BY <1>1, <1>2, <1>3, Kinds, ManagedFacts DEF ManagedInv, RootRight
<1>16. ASSUME NEW g \in Files PROVE ClosedOnce(g)'
  BY <1>1, <1>2, <1>3, <1>4, <1>5, <1>7, Kinds, ManagedFacts DEF ManagedInv, ClosedOnce
<1>17. LocksApart'
  BY <1>1, <1>2, <1>3, Kinds, ManagedFacts DEF ManagedInv, LocksApart
<1>18. ASSUME NEW m \in Locks PROVE OwnedRight(m)'
  BY <1>1, <1>2, <1>3, Kinds, ManagedFacts DEF ManagedInv, OwnedRight, Holding
<1>19. ListOnce' /\ (dirty \subseteq active)'
  BY <1>1, <1>2, <1>3 DEF ManagedInv, ListOnce
<1> QED
  BY <1>8, <1>9, <1>10, <1>11, <1>12, <1>13, <1>14, <1>15, <1>16, <1>17, <1>18, <1>19 DEF ManagedInv

LEMMA FlushAllReturnsInv ==
  ASSUME ManagedInv, NEW p \in Clients, F!FlushAllReturns(p)
  PROVE  ManagedInv'
<1>1. /\ CallShape(p) /\ OpensAlone(p) /\ LockRight(p) /\ WalkRight(p) /\ Calm(p)
      /\ pcF[p] = "walking" /\ op[p] = "flushall" /\ Len(todo[p]) = 0
      /\ argF[p] = None /\ my[p] = None
  BY Kinds, ManagedFacts DEF F!FlushAllReturns, ManagedInv, ManagedTypes, CallShape, OpenPoints, LoadPoints, LockPoints
<1>2. /\ UNCHANGED <<race, known, ofl, std, active, roots, raw, slot, lockOwner, count, dirty,
                     child, todo>>
      /\ oflMu' = None
      /\ pcF' = [pcF EXCEPT ![p] = "idle"]
      /\ op' = [op EXCEPT ![p] = "none"]
      /\ argF' = [argF EXCEPT ![p] = None]
      /\ my' = [my EXCEPT ![p] = None]
      /\ due' = [due EXCEPT ![p] = {}]
  BY <1>1 DEF F!FlushAllReturns, F!Goto, F!Done, F!listVars, F!fileVars, F!lockVars, F!callVars
<1>3. /\ pcF'[p] = "idle" /\ op'[p] = "none" /\ argF'[p] = None /\ my'[p] = None /\ due'[p] = {}
      /\ \A q \in Clients : q # p => pcF'[q] = pcF[q] /\ op'[q] = op[q] /\ argF'[q] = argF[q] /\ my'[q] = my[q] /\ due'[q] = due[q]
  BY <1>1, <1>2 DEF ManagedInv, ManagedTypes
<1>4. \A g : \A q \in Clients : Closer(q, g)' <=> Closer(q, g)
  BY <1>1, <1>2, <1>3, Kinds DEF Closer
<1>5. \A g : Listed(g)' <=> Listed(g)
  BY <1>1, <1>2, <1>3 DEF Listed
<1>6. \A g : Unforgotten(g)' => Unforgotten(g)
  BY <1>1, <1>2, <1>3, <1>4 DEF Unforgotten
<1>7. \A g : Listable(g) => Listable(g)'
  BY <1>1, <1>2, <1>3, <1>4 DEF Listable
<1>8. ManagedTypes'
  BY <1>1, <1>2, Kinds DEF ManagedInv, ManagedTypes, FilePoints, FileOps, OpenPoints, LoadPoints, LockPoints
<1>9. ASSUME NEW q \in Clients PROVE CallShape(q)'
  BY <1>1, <1>2, <1>3, <1>5, Kinds, ManagedFacts DEF ManagedInv, ManagedTypes, CallShape, OpenPoints, LoadPoints, LockPoints
<1>10. ASSUME NEW q \in Clients PROVE OpensAlone(q)'
  BY <1>1, <1>2, <1>3, <1>5, Kinds, ManagedFacts DEF ManagedInv, CallShape, OpensAlone, OpenPoints, LoadPoints, LockPoints
<1>11. ASSUME NEW q \in Clients PROVE LockRight(q)'
  BY <1>1, <1>2, <1>3, <1>6, Kinds, ManagedFacts DEF ManagedInv, LockRight, Holding
<1>12. ASSUME NEW q \in Clients PROVE WalkRight(q)'
  BY <1>1, <1>2, <1>3, <1>7, Kinds, ManagedFacts DEF ManagedInv, WalkRight, OpenPoints, LoadPoints, LockPoints
<1>13. ASSUME NEW q \in Clients PROVE Calm(q)'
  <2>1. CASE q = p
    BY <1>1, <1>2, <1>3, <2>1, Kinds DEF Calm
  <2>2. CASE q # p
    <3>1. /\ pcF'[q] = pcF[q] /\ op'[q] = op[q] /\ argF'[q] = argF[q] /\ race' = race /\ active' = active
          /\ Calm(q) /\ CallShape(q)
      BY <1>2, <1>3, <2>2 DEF ManagedInv
    <3>2. ASSUME NEW r \in Clients, r # q, argF'[r] = argF'[q], op[q] \in F!Closing
          PROVE  r # p /\ op'[r] = op[r] /\ argF'[r] = argF[r]
      BY <1>3, <3>1, <3>2, ManagedFacts DEF CallShape
    <3> QED
      BY <3>1, <3>2 DEF Calm
  <2> QED
    BY <2>1, <2>2
<1>14. ASSUME NEW g \in Files PROVE KnownRight(g)'
  BY <1>1, <1>2, <1>3, <1>5, Kinds, ManagedFacts DEF ManagedInv, KnownRight, OpenPoints, LoadPoints, LockPoints
<1>15. ASSUME NEW g \in Files PROVE RootRight(g)'
  BY <1>1, <1>2, <1>3, Kinds, ManagedFacts DEF ManagedInv, RootRight
<1>16. ASSUME NEW g \in Files PROVE ClosedOnce(g)'
  BY <1>1, <1>2, <1>3, <1>4, <1>5, <1>7, Kinds, ManagedFacts DEF ManagedInv, ClosedOnce
<1>17. LocksApart'
  BY <1>1, <1>2, <1>3, Kinds, ManagedFacts DEF ManagedInv, LocksApart
<1>18. ASSUME NEW m \in Locks PROVE OwnedRight(m)'
  BY <1>1, <1>2, <1>3, Kinds, ManagedFacts DEF ManagedInv, OwnedRight, Holding
<1>19. ListOnce' /\ (dirty \subseteq active)'
  BY <1>1, <1>2, <1>3 DEF ManagedInv, ListOnce
<1> QED
  BY <1>8, <1>9, <1>10, <1>11, <1>12, <1>13, <1>14, <1>15, <1>16, <1>17, <1>18, <1>19 DEF ManagedInv

LEMMA PublishNewInv ==
  ASSUME ManagedInv, NEW p \in Clients, NEW l \in Locks, pcF[p] = "publishing", slot[argF[p]] = None,
         \A g \in Files : slot[g] # l, \A q \in Clients : my[q] # l,
         lockOwner' = [lockOwner EXCEPT ![l] = None], count' = [count EXCEPT ![l] = 0],
         slot' = [slot EXCEPT ![argF[p]] = l], F!Given(p, l),
         UNCHANGED <<race, known, ofl, std, oflMu, active, roots, raw, dirty, child, op, argF, todo, due>>
  PROVE  ManagedInv'
<1> DEFINE f == argF[p]
<1>1. /\ CallShape(p) /\ OpensAlone(p) /\ LockRight(p) /\ WalkRight(p) /\ Calm(p)
      /\ f \in Files /\ my[p] = None
  BY Kinds, ManagedFacts DEF ManagedInv, ManagedTypes, CallShape, OpenPoints, LoadPoints, LockPoints
<1>2. /\ UNCHANGED <<race, known, ofl, std, oflMu, active, roots, raw, dirty, child, argF, op,
                     todo, due>>
      /\ pcF' = [pcF EXCEPT ![p] = "locking"]
      /\ my' = [my EXCEPT ![p] = l]
      /\ slot' = [slot EXCEPT ![f] = l]
      /\ lockOwner' = [lockOwner EXCEPT ![l] = None]
      /\ count' = [count EXCEPT ![l] = 0]
  BY <1>1 DEF F!Goto, F!Done, F!listVars, F!fileVars, F!lockVars, F!callVars, F!Given
<1>3. /\ pcF'[p] = "locking" /\ my'[p] = l
      /\ \A q \in Clients : q # p => pcF'[q] = pcF[q] /\ my'[q] = my[q]
      /\ slot'[f] = l
      /\ \A g \in Files : g # f => slot'[g] = slot[g]
      /\ lockOwner'[l] = None /\ count'[l] = 0
      /\ \A m \in Locks : m # l => lockOwner'[m] = lockOwner[m] /\ count'[m] = count[m]
  BY <1>1, <1>2 DEF ManagedInv, ManagedTypes
<1>4. \A g : \A q \in Clients : Closer(q, g)' <=> Closer(q, g)
  BY <1>1, <1>2, <1>3, Kinds DEF Closer
<1>5. \A g : Listed(g)' <=> Listed(g)
  BY <1>1, <1>2, <1>3 DEF Listed
<1>6. \A g : Unforgotten(g)' => Unforgotten(g)
  BY <1>1, <1>2, <1>3, <1>4 DEF Unforgotten
<1>7. \A g : Listable(g) => Listable(g)'
  BY <1>1, <1>2, <1>3, <1>4 DEF Listable
<1>8. ManagedTypes'
  BY <1>1, <1>2, Kinds DEF ManagedInv, ManagedTypes, FilePoints, FileOps, OpenPoints, LoadPoints, LockPoints
<1>9. ASSUME NEW q \in Clients PROVE CallShape(q)'
  BY <1>1, <1>2, <1>3, <1>5, Kinds, ManagedFacts DEF ManagedInv, ManagedTypes, CallShape, OpenPoints, LoadPoints, LockPoints
<1>10. ASSUME NEW q \in Clients PROVE OpensAlone(q)'
  BY <1>1, <1>2, <1>3, <1>5, Kinds, ManagedFacts DEF ManagedInv, CallShape, OpensAlone, OpenPoints, LoadPoints, LockPoints
<1>11. ASSUME NEW q \in Clients PROVE LockRight(q)'
  BY <1>1, <1>2, <1>3, <1>6, Kinds, ManagedFacts DEF ManagedInv, LockRight, Holding
<1>12. ASSUME NEW q \in Clients PROVE WalkRight(q)'
  BY <1>1, <1>2, <1>3, <1>7, Kinds, ManagedFacts DEF ManagedInv, WalkRight, OpenPoints, LoadPoints, LockPoints
<1>13. ASSUME NEW q \in Clients PROVE Calm(q)'
  BY <1>1, <1>2, <1>3, Kinds, ManagedFacts DEF ManagedInv, Calm
<1>14. ASSUME NEW g \in Files PROVE KnownRight(g)'
  BY <1>1, <1>2, <1>3, <1>5, Kinds, ManagedFacts DEF ManagedInv, KnownRight, OpenPoints, LoadPoints, LockPoints
<1>15. ASSUME NEW g \in Files PROVE RootRight(g)'
  BY <1>1, <1>2, <1>3, Kinds, ManagedFacts DEF ManagedInv, RootRight
<1>16. ASSUME NEW g \in Files PROVE ClosedOnce(g)'
  BY <1>1, <1>2, <1>3, <1>4, <1>5, <1>7, Kinds, ManagedFacts DEF ManagedInv, ClosedOnce
<1>17. LocksApart'
  <2>1. ASSUME NEW g \in Files, NEW h \in Files, slot'[g] = slot'[h], slot'[g] # None PROVE g = h
    BY <1>1, <1>2, <1>3, Kinds, ManagedFacts, <2>1 DEF ManagedInv, LocksApart
  <2>2. ASSUME NEW q \in Clients, NEW g \in Files, my'[q] = slot'[g], my'[q] # None PROVE argF'[q] = g
    BY <1>1, <1>2, <1>3, Kinds, ManagedFacts, <2>2 DEF ManagedInv, LocksApart
  <2>3. ASSUME NEW q \in Clients, NEW r \in Clients, my'[q] = my'[r], my'[q] # None
        PROVE  argF'[q] = argF'[r]
    BY <1>1, <1>2, <1>3, Kinds, ManagedFacts, <2>3 DEF ManagedInv, LocksApart
  <2> QED
    BY <2>1, <2>2, <2>3 DEF LocksApart
<1>18. ASSUME NEW m \in Locks PROVE OwnedRight(m)'
  <2>1. count'[m] = IF lockOwner'[m] = None THEN 0 ELSE 1
    BY <1>1, <1>2, <1>3, Kinds, ManagedFacts DEF ManagedInv, OwnedRight
  <2>2. ASSUME NEW q \in Clients, lockOwner'[m] = q
        PROVE  \/ (Holding(q)' \/ pcF'[q] = "crashed") /\ my'[q] = m
               \/ my'[q] # m /\ \A g \in Files : slot'[g] # m
    <3>1. CASE q = p
      BY <1>1, <1>2, <1>3, Kinds, ManagedFacts, <2>2, <3>1 DEF ManagedInv, OwnedRight, Holding
    <3>2. CASE q # p
      BY <1>1, <1>2, <1>3, Kinds, ManagedFacts, <2>2, <3>2 DEF ManagedInv, OwnedRight, Holding
    <3> QED
      BY <3>1, <3>2
  <2> QED
    BY <2>1, <2>2 DEF OwnedRight
<1>19. ListOnce' /\ (dirty \subseteq active)'
  BY <1>1, <1>2, <1>3 DEF ManagedInv, ListOnce
<1> QED
  BY <1>8, <1>9, <1>10, <1>11, <1>12, <1>13, <1>14, <1>15, <1>16, <1>17, <1>18, <1>19 DEF ManagedInv

LEMMA PublishLateInv ==
  ASSUME ManagedInv, NEW p \in Clients, pcF[p] = "publishing", slot[argF[p]] # None, F!Goto(p, "reloading"),
         UNCHANGED <<race, known, ofl, std, oflMu, active, roots, raw, dirty, child, slot, lockOwner,
                     count, my, op, argF, todo, due>>
  PROVE  ManagedInv'
<1> DEFINE f == argF[p]
<1>1. /\ CallShape(p) /\ OpensAlone(p) /\ LockRight(p) /\ WalkRight(p) /\ Calm(p)
      /\ f \in Files /\ my[p] = None
  BY Kinds, ManagedFacts DEF ManagedInv, ManagedTypes, CallShape, OpenPoints, LoadPoints, LockPoints
<1>2. /\ UNCHANGED <<race, known, ofl, std, oflMu, active, roots, raw, slot, lockOwner, count,
                     dirty, child, argF, op, my, todo, due>>
      /\ pcF' = [pcF EXCEPT ![p] = "reloading"]
  BY <1>1 DEF F!Goto, F!Done, F!listVars, F!fileVars, F!lockVars, F!callVars
<1>3. /\ pcF'[p] = "reloading"
      /\ \A q \in Clients : q # p => pcF'[q] = pcF[q]
  BY <1>1, <1>2 DEF ManagedInv, ManagedTypes
<1>4. \A g : \A q \in Clients : Closer(q, g)' <=> Closer(q, g)
  BY <1>1, <1>2, <1>3, Kinds DEF Closer
<1>5. \A g : Listed(g)' <=> Listed(g)
  BY <1>1, <1>2, <1>3 DEF Listed
<1>6. \A g : Unforgotten(g)' => Unforgotten(g)
  BY <1>1, <1>2, <1>3, <1>4 DEF Unforgotten
<1>7. \A g : Listable(g) => Listable(g)'
  BY <1>1, <1>2, <1>3, <1>4 DEF Listable
<1>8. ManagedTypes'
  BY <1>1, <1>2, Kinds DEF ManagedInv, ManagedTypes, FilePoints, FileOps, OpenPoints, LoadPoints, LockPoints
<1>9. ASSUME NEW q \in Clients PROVE CallShape(q)'
  BY <1>1, <1>2, <1>3, <1>5, Kinds, ManagedFacts DEF ManagedInv, ManagedTypes, CallShape, OpenPoints, LoadPoints, LockPoints
<1>10. ASSUME NEW q \in Clients PROVE OpensAlone(q)'
  BY <1>1, <1>2, <1>3, <1>5, Kinds, ManagedFacts DEF ManagedInv, CallShape, OpensAlone, OpenPoints, LoadPoints, LockPoints
<1>11. ASSUME NEW q \in Clients PROVE LockRight(q)'
  BY <1>1, <1>2, <1>3, <1>6, Kinds, ManagedFacts DEF ManagedInv, LockRight, Holding
<1>12. ASSUME NEW q \in Clients PROVE WalkRight(q)'
  BY <1>1, <1>2, <1>3, <1>7, Kinds, ManagedFacts DEF ManagedInv, WalkRight, OpenPoints, LoadPoints, LockPoints
<1>13. ASSUME NEW q \in Clients PROVE Calm(q)'
  BY <1>1, <1>2, <1>3, Kinds, ManagedFacts DEF ManagedInv, Calm
<1>14. ASSUME NEW g \in Files PROVE KnownRight(g)'
  BY <1>1, <1>2, <1>3, <1>5, Kinds, ManagedFacts DEF ManagedInv, KnownRight, OpenPoints, LoadPoints, LockPoints
<1>15. ASSUME NEW g \in Files PROVE RootRight(g)'
  BY <1>1, <1>2, <1>3, Kinds, ManagedFacts DEF ManagedInv, RootRight
<1>16. ASSUME NEW g \in Files PROVE ClosedOnce(g)'
  BY <1>1, <1>2, <1>3, <1>4, <1>5, <1>7, Kinds, ManagedFacts DEF ManagedInv, ClosedOnce
<1>17. LocksApart' /\ ListOnce' /\ (dirty \subseteq active)'
  BY <1>2 DEF ManagedInv, LocksApart, ListOnce
<1>18. ASSUME NEW m \in Locks PROVE OwnedRight(m)'
  BY <1>1, <1>2, <1>3, Kinds, ManagedFacts DEF ManagedInv, OwnedRight, Holding
<1> QED
  BY <1>8, <1>9, <1>10, <1>11, <1>12, <1>13, <1>14, <1>15, <1>16, <1>17, <1>18 DEF ManagedInv

LEMMA LockInv ==
  ASSUME ManagedInv, NEW p \in Clients, F!Lock(p)
  PROVE  ManagedInv'
<1> DEFINE f == argF[p]
           l == my[p]
<1>1. /\ CallShape(p) /\ OpensAlone(p) /\ LockRight(p) /\ WalkRight(p) /\ Calm(p)
      /\ pcF[p] = "locking" /\ f \in Files /\ l \in Locks
      /\ lockOwner[l] = None
  BY Kinds, ManagedFacts, ZenonT(60)
  DEF F!Lock, ManagedInv, ManagedTypes, CallShape, OpenPoints, LoadPoints, LockPoints, OwnedRight,
      Holding
<1>2. /\ UNCHANGED <<race, known, ofl, std, oflMu, active, roots, raw, slot, dirty, child,
                     argF, op, my, todo, due>>
      /\ pcF' = [pcF EXCEPT ![p] = IF f \in active THEN "acquired" ELSE "refused"]
      /\ lockOwner' = [lockOwner EXCEPT ![l] = p]
      /\ count' = [count EXCEPT ![l] = 1]
  BY <1>1, ManagedFacts DEF F!Lock, F!Goto, F!Done, F!listVars, F!fileVars, F!lockVars,
                            F!callVars
<1>3. /\ pcF'[p] = (IF f \in active THEN "acquired" ELSE "refused")
      /\ \A q \in Clients : q # p => pcF'[q] = pcF[q]
      /\ lockOwner'[l] = p /\ count'[l] = 1
      /\ \A m \in Locks : m # l => lockOwner'[m] = lockOwner[m] /\ count'[m] = count[m]
  BY <1>1, <1>2 DEF ManagedInv, ManagedTypes
<1>4. \A g : \A q \in Clients : Closer(q, g)' <=> Closer(q, g)
  BY <1>1, <1>2, <1>3, Kinds DEF Closer
<1>5. \A g : Listed(g)' <=> Listed(g)
  BY <1>1, <1>2, <1>3 DEF Listed
<1>6. \A g : Unforgotten(g)' => Unforgotten(g)
  BY <1>1, <1>2, <1>3, <1>4 DEF Unforgotten
<1>7. \A g : Listable(g) => Listable(g)'
  BY <1>1, <1>2, <1>3, <1>4 DEF Listable
<1>8. ManagedTypes'
  BY <1>1, <1>2, Kinds DEF ManagedInv, ManagedTypes, FilePoints, FileOps, OpenPoints, LoadPoints, LockPoints
<1>9. ASSUME NEW q \in Clients PROVE CallShape(q)'
  BY <1>1, <1>2, <1>3, <1>5, Kinds, ManagedFacts DEF ManagedInv, ManagedTypes, CallShape, OpenPoints, LoadPoints, LockPoints
<1>10. ASSUME NEW q \in Clients PROVE OpensAlone(q)'
  BY <1>1, <1>2, <1>3, <1>5, Kinds, ManagedFacts DEF ManagedInv, CallShape, OpensAlone, OpenPoints, LoadPoints, LockPoints
<1>11. ASSUME NEW q \in Clients PROVE LockRight(q)'
  BY <1>1, <1>2, <1>3, <1>6, Kinds, ManagedFacts DEF ManagedInv, LockRight, Holding
<1>12. ASSUME NEW q \in Clients PROVE WalkRight(q)'
  BY <1>1, <1>2, <1>3, <1>7, Kinds, ManagedFacts DEF ManagedInv, WalkRight, OpenPoints, LoadPoints, LockPoints
<1>13. ASSUME NEW q \in Clients PROVE Calm(q)'
  BY <1>1, <1>2, <1>3, Kinds, ManagedFacts DEF ManagedInv, Calm
<1>14. ASSUME NEW g \in Files PROVE KnownRight(g)'
  BY <1>1, <1>2, <1>3, <1>5, Kinds, ManagedFacts DEF ManagedInv, KnownRight, OpenPoints, LoadPoints, LockPoints
<1>15. ASSUME NEW g \in Files PROVE RootRight(g)'
  BY <1>1, <1>2, <1>3, Kinds, ManagedFacts DEF ManagedInv, RootRight
<1>16. ASSUME NEW g \in Files PROVE ClosedOnce(g)'
  BY <1>1, <1>2, <1>3, <1>4, <1>5, <1>7, Kinds, ManagedFacts DEF ManagedInv, ClosedOnce
<1>17. LocksApart' /\ ListOnce' /\ (dirty \subseteq active)'
  BY <1>2 DEF ManagedInv, LocksApart, ListOnce
<1>18. ASSUME NEW m \in Locks PROVE OwnedRight(m)'
  <2>1. count'[m] = IF lockOwner'[m] = None THEN 0 ELSE 1
    BY <1>1, <1>2, <1>3, Kinds, ManagedFacts DEF ManagedInv, OwnedRight
  <2>2. ASSUME NEW q \in Clients, lockOwner'[m] = q
        PROVE  \/ (Holding(q)' \/ pcF'[q] = "crashed") /\ my'[q] = m
               \/ my'[q] # m /\ \A g \in Files : slot'[g] # m
    <3>1. CASE q = p
      BY <1>1, <1>2, <1>3, Kinds, ManagedFacts, <2>2, <3>1 DEF ManagedInv, OwnedRight, Holding
    <3>2. CASE q # p
      BY <1>1, <1>2, <1>3, Kinds, ManagedFacts, <2>2, <3>2 DEF ManagedInv, OwnedRight, Holding
    <3> QED
      BY <3>1, <3>2
  <2> QED
    BY <2>1, <2>2 DEF OwnedRight
<1> QED
  BY <1>8, <1>9, <1>10, <1>11, <1>12, <1>13, <1>14, <1>15, <1>16, <1>17, <1>18 DEF ManagedInv

LEMMA OflAddInv ==
  ASSUME ManagedInv, NEW p \in Clients, F!OflAdd(p)
  PROVE  ManagedInv'
<1> DEFINE f == argF[p]
           t == <<f>> \o ofl
<1>1. /\ CallShape(p) /\ OpensAlone(p) /\ LockRight(p) /\ WalkRight(p) /\ Calm(p)
      /\ pcF[p] = "adding" /\ f \in Files /\ my[p] = None /\ op[p] # "flushall"
      /\ f \in active /\ ~Listed(f) /\ \A q \in Clients : q # p => argF[q] # f
  BY Kinds, ManagedFacts DEF F!OflAdd, ManagedInv, ManagedTypes, CallShape, OpenPoints, LoadPoints, LockPoints, OpensAlone
<1>2. /\ UNCHANGED <<race, std, oflMu, active, roots, raw, slot, lockOwner, count, dirty,
                     child, todo, due>>
      /\ ofl' = t
      /\ known' = known \cup {f}
      /\ pcF' = [pcF EXCEPT ![p] = "idle"]
      /\ op' = [op EXCEPT ![p] = "none"]
      /\ argF' = [argF EXCEPT ![p] = None]
      /\ my' = [my EXCEPT ![p] = None]
  BY <1>1 DEF F!OflAdd, F!Goto, F!Done, F!listVars, F!fileVars, F!lockVars, F!callVars
<1> HIDE DEF t
<1>3. /\ pcF'[p] = "idle" /\ op'[p] = "none" /\ argF'[p] = None /\ my'[p] = None
      /\ \A q \in Clients : q # p => pcF'[q] = pcF[q] /\ op'[q] = op[q] /\ argF'[q] = argF[q] /\ my'[q] = my[q]
  BY <1>1, <1>2 DEF ManagedInv, ManagedTypes
<1>4. /\ t \in Seq(Files) /\ Len(t) = Len(ofl) + 1 /\ Len(ofl) \in Nat
       /\ \A j \in 1 .. Len(ofl) + 1 : t[j] = IF j = 1 THEN f ELSE ofl[j - 1]
  BY <1>1, OflFacts, Pushed DEF ManagedInv, t
<1>5. \A g : \A q \in Clients : Closer(q, g)' <=> Closer(q, g)
  BY <1>1, <1>2, <1>3, Kinds DEF Closer
<1>6. \A g : Listed(g)' <=> Listed(g) \/ g = f
  <2> SUFFICES ASSUME NEW g PROVE Listed(g)' <=> Listed(g) \/ g = f
    OBVIOUS
  <2>1. CASE g = f
    BY <1>2, <1>4, <2>1 DEF Listed
  <2>2. ASSUME Listed(g), g # std PROVE \E j \in 1 .. Len(t) : t[j] = g
    <3>1. PICK j \in 1 .. Len(ofl) : ofl[j] = g
      BY <2>2 DEF Listed
    <3>2. j + 1 \in 1 .. Len(t) /\ t[j + 1] = g
      BY <1>4, <3>1
    <3> QED
      BY <3>2
  <2>3. ASSUME NEW j \in 1 .. Len(t) PROVE t[j] = f \/ Listed(t[j])
    BY <1>4 DEF Listed
  <2> QED
    BY <1>2, <2>1, <2>2, <2>3 DEF Listed
<1>7. \A g : Unforgotten(g)' => Unforgotten(g)
  BY <1>1, <1>2, <1>3, <1>5 DEF Unforgotten
<1>8. \A g : Listable(g) => Listable(g)'
  BY <1>1, <1>2, <1>3, <1>5 DEF Listable
<1>9. ManagedTypes'
  BY <1>1, <1>2, <1>4, Kinds DEF ManagedInv, ManagedTypes, FilePoints, FileOps, OpenPoints, LoadPoints, LockPoints
<1>10. ASSUME NEW q \in Clients PROVE CallShape(q)'
  BY <1>1, <1>2, <1>3, <1>6, Kinds, ManagedFacts DEF ManagedInv, ManagedTypes, CallShape, OpenPoints, LoadPoints, LockPoints
<1>11. ASSUME NEW q \in Clients PROVE OpensAlone(q)'
  BY <1>1, <1>2, <1>3, <1>6, Kinds, ManagedFacts DEF ManagedInv, CallShape, OpensAlone, OpenPoints, LoadPoints, LockPoints
<1>12. ASSUME NEW q \in Clients PROVE LockRight(q)'
  BY <1>1, <1>2, <1>3, <1>7, Kinds, ManagedFacts DEF ManagedInv, LockRight, Holding
<1>13. ASSUME NEW q \in Clients PROVE WalkRight(q)'
  BY <1>1, <1>2, <1>3, <1>8, Kinds, ManagedFacts DEF ManagedInv, WalkRight, OpenPoints, LoadPoints, LockPoints
<1>14. ASSUME NEW q \in Clients PROVE Calm(q)'
  <2>1. CASE q = p
    BY <1>1, <1>2, <1>3, <2>1, Kinds DEF Calm
  <2>2. CASE q # p
    <3>1. /\ pcF'[q] = pcF[q] /\ op'[q] = op[q] /\ argF'[q] = argF[q] /\ race' = race /\ active' = active
          /\ Calm(q) /\ CallShape(q)
      BY <1>2, <1>3, <2>2 DEF ManagedInv
    <3>2. ASSUME NEW r \in Clients, r # q, argF'[r] = argF'[q], op[q] \in F!Closing
          PROVE  r # p /\ op'[r] = op[r] /\ argF'[r] = argF[r]
      BY <1>3, <3>1, <3>2, ManagedFacts DEF CallShape
    <3> QED
      BY <3>1, <3>2 DEF Calm
  <2> QED
    BY <2>1, <2>2
<1>15. ASSUME NEW g \in Files PROVE KnownRight(g)'
  BY <1>1, <1>2, <1>3, <1>6, Kinds, ManagedFacts DEF ManagedInv, KnownRight, OpenPoints, LoadPoints, LockPoints
<1>16. ASSUME NEW g \in Files PROVE RootRight(g)'
  BY <1>1, <1>2, <1>3, Kinds, ManagedFacts DEF ManagedInv, RootRight
<1>17. ASSUME NEW g \in Files PROVE ClosedOnce(g)'
  <2>1. CASE g = f
    BY <1>1, <1>2, <1>3, <1>5, <1>6, <2>1 DEF ClosedOnce, Closer, Listable
  <2>2. CASE g # f
    BY <1>1, <1>2, <1>3, <1>5, <1>6, <1>8, <2>2 DEF ManagedInv, ClosedOnce
  <2> QED
    BY <2>1, <2>2
<1>18. LocksApart'
  BY <1>1, <1>2, <1>3, Kinds, ManagedFacts DEF ManagedInv, LocksApart
<1>19. ASSUME NEW m \in Locks PROVE OwnedRight(m)'
  BY <1>1, <1>2, <1>3, Kinds, ManagedFacts DEF ManagedInv, OwnedRight, Holding
<1>20. ListOnce' /\ (dirty \subseteq active)'
  <2>1. ASSUME NEW i \in 1 .. Len(t), NEW j \in 1 .. Len(t), t[i] = t[j] PROVE i = j
    <3>1. \A k \in 1 .. Len(ofl) : ofl[k] # f
      BY <1>1 DEF Listed
    <3>2. \A k \in 1 .. Len(t) : k # 1 => k - 1 \in 1 .. Len(ofl) /\ t[k] = ofl[k - 1]
      BY <1>4
    <3>3. t[1] = f
      BY <1>4
    <3>4. CASE i = 1 \/ j = 1
      BY <2>1, <3>1, <3>2, <3>3, <3>4
    <3>5. CASE i # 1 /\ j # 1
      <4>1. i - 1 = j - 1
        BY <2>1, <3>2, <3>5 DEF ManagedInv, ListOnce
      <4> QED
        BY <1>4, <4>1
    <3> QED
      BY <3>4, <3>5
  <2> QED
    BY <1>2, <2>1 DEF ManagedInv, ListOnce
<1> QED
  BY <1>9, <1>10, <1>11, <1>12, <1>13, <1>14, <1>15, <1>16, <1>17, <1>18, <1>19, <1>20 DEF ManagedInv

LEMMA ForgetLockInv ==
  ASSUME ManagedInv, NEW p \in Clients, F!ForgetLock(p)
  PROVE  ManagedInv'
<1> DEFINE f == argF[p]
<1>1. /\ CallShape(p) /\ OpensAlone(p) /\ LockRight(p) /\ WalkRight(p) /\ Calm(p)
      /\ pcF[p] = "forgetting" /\ f \in Files /\ op[p] \in F!Closing
      /\ f \notin active /\ ~Listed(f)
  BY Kinds, ManagedFacts DEF F!ForgetLock, ManagedInv, ManagedTypes, CallShape, OpenPoints, LoadPoints, LockPoints, ClosedOnce, Closer
<1>2. /\ UNCHANGED <<race, ofl, std, oflMu, active, roots, raw, lockOwner, count, dirty, todo,
                     due>>
      /\ known' = IF race THEN known ELSE known \ {f}
      /\ pcF' = [pcF EXCEPT ![p] = "idle"]
      /\ op' = [op EXCEPT ![p] = "none"]
      /\ argF' = [argF EXCEPT ![p] = None]
      /\ my' = [my EXCEPT ![p] = None]
      /\ slot' = [slot EXCEPT ![f] = None]
      /\ child' = [child EXCEPT ![f] = IF op[p] = "pclose" THEN "reaped" ELSE child[f]]
  BY <1>1 DEF F!ForgetLock, F!Goto, F!Done, F!listVars, F!fileVars, F!lockVars, F!callVars,
              ManagedInv, ManagedTypes
<1>3. /\ pcF'[p] = "idle" /\ op'[p] = "none" /\ argF'[p] = None /\ my'[p] = None
      /\ \A q \in Clients : q # p => pcF'[q] = pcF[q] /\ op'[q] = op[q] /\ argF'[q] = argF[q] /\ my'[q] = my[q]
      /\ slot'[f] = None /\ child'[f] = (IF op[p] = "pclose" THEN "reaped" ELSE child[f])
      /\ \A g \in Files : g # f => slot'[g] = slot[g] /\ child'[g] = child[g]
  BY <1>1, <1>2 DEF ManagedInv, ManagedTypes
<1>4. \A g : \A q \in Clients : Closer(q, g)' <=> Closer(q, g) /\ q # p
  BY <1>1, <1>2, <1>3, Kinds DEF Closer
<1>5. \A g : Listed(g)' <=> Listed(g)
  BY <1>1, <1>2, <1>3 DEF Listed
<1>6. \A g : Unforgotten(g)' => Unforgotten(g)
  BY <1>1, <1>2, <1>3, <1>4 DEF Unforgotten
<1>7. \A g : Listable(g) => Listable(g)'
  BY <1>1, <1>2, <1>3, <1>4 DEF Listable
<1>8. \A g : g = f => ~Unforgotten(g)' /\ ~Listable(g)
  <2>1. \A q \in Clients : Closer(q, f) => q = p
    BY <1>1 DEF ManagedInv, ClosedOnce, Closer
  <2> QED
    BY <1>1, <1>2, <1>4, <2>1 DEF Unforgotten, Listable
<1>9. ManagedTypes'
  BY <1>1, <1>2, Kinds DEF ManagedInv, ManagedTypes, FilePoints, FileOps, OpenPoints, LoadPoints, LockPoints
<1>10. ASSUME NEW q \in Clients PROVE CallShape(q)'
  BY <1>1, <1>2, <1>3, <1>5, Kinds, ManagedFacts DEF ManagedInv, ManagedTypes, CallShape, OpenPoints, LoadPoints, LockPoints
<1>11. ASSUME NEW q \in Clients PROVE OpensAlone(q)'
  BY <1>1, <1>2, <1>3, <1>5, Kinds, ManagedFacts DEF ManagedInv, CallShape, OpensAlone, OpenPoints, LoadPoints, LockPoints
<1>12. ASSUME NEW q \in Clients PROVE LockRight(q)'
  BY <1>1, <1>2, <1>3, <1>6, <1>8, Kinds, ManagedFacts DEF ManagedInv, LockRight, Holding
<1>13. ASSUME NEW q \in Clients PROVE WalkRight(q)'
  <2>1. WalkRight(q) /\ (\A g \in Files : Listable(g) /\ g \in known => Listable(g)' /\ g \in known')
    BY <1>2, <1>7, <1>8 DEF ManagedInv
  <2>2. \A i \in 1 .. Len(todo[q]) : todo[q][i] \in Files
    BY TodoFacts DEF ManagedInv
  <2> QED
    BY <1>1, <1>2, <1>3, <2>1, <2>2, Kinds DEF WalkRight, LoadPoints, LockPoints
<1>14. ASSUME NEW q \in Clients PROVE Calm(q)'
  <2>1. CASE q = p
    BY <1>1, <1>2, <1>3, <2>1, Kinds DEF Calm
  <2>2. CASE q # p
    <3>1. /\ pcF'[q] = pcF[q] /\ op'[q] = op[q] /\ argF'[q] = argF[q] /\ race' = race /\ active' = active
          /\ Calm(q) /\ CallShape(q)
      BY <1>2, <1>3, <2>2 DEF ManagedInv
    <3>2. ASSUME NEW r \in Clients, r # q, argF'[r] = argF'[q], op[q] \in F!Closing
          PROVE  r # p /\ op'[r] = op[r] /\ argF'[r] = argF[r]
      BY <1>3, <3>1, <3>2, ManagedFacts DEF CallShape
    <3> QED
      BY <3>1, <3>2 DEF Calm
  <2> QED
    BY <2>1, <2>2
<1>15. ASSUME NEW g \in Files PROVE KnownRight(g)'
  <2>1. CASE g = f
    <3>1. ASSUME NEW q \in Clients, argF'[q] = f PROVE f \in known' \/ pcF'[q] \in OpenPoints
      <4>1. q # p /\ argF[q] = f /\ pcF'[q] = pcF[q]
        BY <1>1, <1>3, <3>1, ManagedFacts
      <4>2. CASE race
        BY <1>1, <1>2, <3>1, <4>1, <4>2 DEF ManagedInv, KnownRight
      <4>3. CASE ~race
        <5>1. op[q] = "flushall" /\ CallShape(q) /\ pcF[q] \in FilePoints /\ pcF[q] # "crashed" /\ WalkRight(q)
          BY <1>1, <4>1, <4>3 DEF Calm, ManagedInv, ManagedTypes
        <5>2. pcF[q] \notin LoadPoints \cup LockPoints
          BY <1>8, <4>1, <5>1, TodoFacts DEF WalkRight, ManagedInv
        <5>3. pcF[q] \in OpenPoints
          BY <1>1, <4>1, <5>1, <5>2, ManagedFacts DEF CallShape, FilePoints
        <5> QED
          BY <4>1, <5>3
      <4> QED
        BY <4>2, <4>3
    <3> QED
      BY <1>1, <1>2, <1>3, <1>5, <2>1, <3>1 DEF KnownRight
  <2>2. CASE g # f
    BY <1>1, <1>2, <1>3, <1>5, <2>2, ManagedFacts DEF ManagedInv, KnownRight
  <2> QED
    BY <2>1, <2>2
<1>16. ASSUME NEW g \in Files PROVE RootRight(g)'
  BY <1>1, <1>2, <1>3, Kinds, ManagedFacts DEF ManagedInv, RootRight
<1>17. ASSUME NEW g \in Files PROVE ClosedOnce(g)'
  BY <1>1, <1>2, <1>3, <1>4, <1>5, <1>7, Kinds, ManagedFacts DEF ManagedInv, ClosedOnce
<1>18. LocksApart'
  <2>1. ASSUME NEW g \in Files, NEW h \in Files, slot'[g] = slot'[h], slot'[g] # None PROVE g = h
    BY <1>1, <1>2, <1>3, Kinds, ManagedFacts, <2>1 DEF ManagedInv, LocksApart
  <2>2. ASSUME NEW q \in Clients, NEW g \in Files, my'[q] = slot'[g], my'[q] # None PROVE argF'[q] = g
    BY <1>1, <1>2, <1>3, Kinds, ManagedFacts, <2>2 DEF ManagedInv, LocksApart
  <2>3. ASSUME NEW q \in Clients, NEW r \in Clients, my'[q] = my'[r], my'[q] # None
        PROVE  argF'[q] = argF'[r]
    BY <1>1, <1>2, <1>3, Kinds, ManagedFacts, <2>3 DEF ManagedInv, LocksApart
  <2> QED
    BY <2>1, <2>2, <2>3 DEF LocksApart
<1>19. ASSUME NEW m \in Locks PROVE OwnedRight(m)'
  <2>1. count'[m] = IF lockOwner'[m] = None THEN 0 ELSE 1
    BY <1>1, <1>2, <1>3, Kinds, ManagedFacts DEF ManagedInv, OwnedRight
  <2>2. ASSUME NEW q \in Clients, lockOwner'[m] = q
        PROVE  \/ (Holding(q)' \/ pcF'[q] = "crashed") /\ my'[q] = m
               \/ my'[q] # m /\ \A g \in Files : slot'[g] # m
    <3>1. CASE q = p
      BY <1>1, <1>2, <1>3, Kinds, ManagedFacts, <2>2, <3>1 DEF ManagedInv, OwnedRight, Holding
    <3>2. CASE q # p
      BY <1>1, <1>2, <1>3, Kinds, ManagedFacts, <2>2, <3>2 DEF ManagedInv, OwnedRight, Holding
    <3> QED
      BY <3>1, <3>2
  <2> QED
    BY <2>1, <2>2 DEF OwnedRight
<1>20. ListOnce' /\ (dirty \subseteq active)'
  BY <1>1, <1>2, <1>3 DEF ManagedInv, ListOnce
<1> QED
  BY <1>9, <1>10, <1>11, <1>12, <1>13, <1>14, <1>15, <1>16, <1>17, <1>18, <1>19, <1>20 DEF ManagedInv

LEMMA FlushAllInv ==
  ASSUME ManagedInv, NEW p \in Clients, F!FlushAll(p)
  PROVE  ManagedInv'
<1> DEFINE t == (IF std = None THEN <<>> ELSE <<std>>) \o ofl
<1>1. /\ CallShape(p) /\ OpensAlone(p) /\ LockRight(p) /\ WalkRight(p) /\ Calm(p)
      /\ pcF[p] = "idle" /\ op[p] = "none" /\ argF[p] = None /\ my[p] = None /\ oflMu = None
      /\ t \in Seq(Files)
  BY WalkFacts, Kinds, ManagedFacts DEF F!FlushAll, ManagedInv, ManagedTypes, CallShape, OpenPoints, LoadPoints, LockPoints
<1>2. /\ UNCHANGED <<race, known, ofl, std, active, roots, raw, slot, lockOwner, count, dirty,
                     child, argF, my>>
      /\ oflMu' = p
      /\ pcF' = [pcF EXCEPT ![p] = "walking"]
      /\ op' = [op EXCEPT ![p] = "flushall"]
      /\ due' = [due EXCEPT ![p] = dirty]
      /\ todo' = [todo EXCEPT ![p] = t]
  BY <1>1 DEF F!FlushAll, F!Goto, F!Done, F!listVars, F!fileVars, F!lockVars, F!callVars
<1> HIDE DEF t
<1>3. /\ pcF'[p] = "walking" /\ op'[p] = "flushall" /\ due'[p] = dirty /\ todo'[p] = t
      /\ \A q \in Clients : q # p => pcF'[q] = pcF[q] /\ op'[q] = op[q] /\ due'[q] = due[q] /\ todo'[q] = todo[q]
  BY <1>1, <1>2 DEF ManagedInv, ManagedTypes
<1>4. \A g : \A q \in Clients : Closer(q, g)' <=> Closer(q, g)
  BY <1>1, <1>2, <1>3, Kinds DEF Closer
<1>5. \A g : Listed(g)' <=> Listed(g)
  BY <1>1, <1>2, <1>3 DEF Listed
<1>6. \A g : Unforgotten(g)' => Unforgotten(g)
  BY <1>1, <1>2, <1>3, <1>4 DEF Unforgotten
<1>7. \A g : Listable(g) => Listable(g)'
  BY <1>1, <1>2, <1>3, <1>4 DEF Listable
<1>8. ManagedTypes'
  BY <1>1, <1>2, Kinds DEF ManagedInv, ManagedTypes, FilePoints, FileOps, OpenPoints, LoadPoints, LockPoints
<1>9. ASSUME NEW q \in Clients PROVE CallShape(q)'
  BY <1>1, <1>2, <1>3, <1>5, Kinds, ManagedFacts DEF ManagedInv, ManagedTypes, CallShape, OpenPoints, LoadPoints, LockPoints
<1>10. ASSUME NEW q \in Clients PROVE OpensAlone(q)'
  BY <1>1, <1>2, <1>3, <1>5, Kinds, ManagedFacts DEF ManagedInv, CallShape, OpensAlone, OpenPoints, LoadPoints, LockPoints
<1>11. ASSUME NEW q \in Clients PROVE LockRight(q)'
  BY <1>1, <1>2, <1>3, <1>6, Kinds, ManagedFacts DEF ManagedInv, LockRight, Holding
<1>12. ASSUME NEW q \in Clients PROVE WalkRight(q)'
  <2>1. CASE q = p
    <3>1. \A f \in Files : Listed(f) => Listable(f)' /\ f \in known
      BY <1>7 DEF ManagedInv, ClosedOnce, KnownRight
    <3>2. \A f \in dirty : f \in Files /\ Listed(f)
      BY DEF ManagedInv, ManagedTypes, ClosedOnce, OpensAlone, OpenPoints
    <3>3. /\ \A i \in 1 .. Len(t) : t[i] \in Files /\ Listed(t[i])
          /\ \A f \in Files : Listed(f) => \E i \in 1 .. Len(t) : t[i] = f
      BY WalkFacts DEF ManagedInv, t
    <3> QED
      BY <1>2, <1>3, <2>1, <3>1, <3>2, <3>3 DEF WalkRight, ManagedInv, LoadPoints, LockPoints
  <2>2. CASE q # p
    BY <1>1, <1>2, <1>3, <1>7, <2>2 DEF ManagedInv, WalkRight
  <2> QED
    BY <2>1, <2>2
<1>13. ASSUME NEW q \in Clients PROVE Calm(q)'
  BY <1>1, <1>2, <1>3, Kinds, ManagedFacts DEF ManagedInv, Calm
<1>14. ASSUME NEW g \in Files PROVE KnownRight(g)'
  BY <1>1, <1>2, <1>3, <1>5, Kinds, ManagedFacts DEF ManagedInv, KnownRight, OpenPoints, LoadPoints, LockPoints
<1>15. ASSUME NEW g \in Files PROVE RootRight(g)'
  BY <1>1, <1>2, <1>3, Kinds, ManagedFacts DEF ManagedInv, RootRight
<1>16. ASSUME NEW g \in Files PROVE ClosedOnce(g)'
  BY <1>1, <1>2, <1>3, <1>4, <1>5, <1>7, Kinds, ManagedFacts DEF ManagedInv, ClosedOnce
<1>17. LocksApart' /\ ListOnce' /\ (dirty \subseteq active)'
  BY <1>2 DEF ManagedInv, LocksApart, ListOnce
<1>18. ASSUME NEW m \in Locks PROVE OwnedRight(m)'
  BY <1>1, <1>2, <1>3, Kinds, ManagedFacts DEF ManagedInv, OwnedRight, Holding
<1> QED
  BY <1>8, <1>9, <1>10, <1>11, <1>12, <1>13, <1>14, <1>15, <1>16, <1>17, <1>18 DEF ManagedInv

LEMMA AllocateInv ==
  ASSUME ManagedInv, NEW p \in Clients, NEW f \in Files, NEW o \in F!Opening, F!Allocate(p, f, o)
  PROVE  ManagedInv'
<1>1. /\ CallShape(p) /\ OpensAlone(p) /\ LockRight(p) /\ WalkRight(p) /\ Calm(p)
      /\ pcF[p] = "idle" /\ op[p] = "none" /\ argF[p] = None /\ my[p] = None
      /\ f \notin known /\ child[f] = "none" /\ \A q \in Clients : argF[q] # f
      /\ f \notin active /\ f \notin dirty /\ ~Listed(f) /\ slot[f] = None /\ raw[f] = {}
  BY FreshFile, Kinds, ManagedFacts DEF F!Allocate, ManagedInv, ManagedTypes, CallShape, OpenPoints, LoadPoints, LockPoints
<1>2. /\ UNCHANGED <<race, known, ofl, std, oflMu, active, raw, slot, lockOwner, count, dirty,
                     child, my, todo, due>>
      /\ pcF' = [pcF EXCEPT ![p] = "preparing"]
      /\ op' = [op EXCEPT ![p] = o]
      /\ argF' = [argF EXCEPT ![p] = f]
      /\ roots' = [roots EXCEPT ![f] = {"buffer"}]
  BY <1>1 DEF F!Allocate, F!Goto, F!Done, F!listVars, F!fileVars, F!lockVars, F!callVars
<1>3. /\ pcF'[p] = "preparing" /\ op'[p] = o /\ argF'[p] = f
      /\ \A q \in Clients : q # p => pcF'[q] = pcF[q] /\ op'[q] = op[q] /\ argF'[q] = argF[q]
      /\ roots'[f] = {"buffer"}
      /\ \A g \in Files : g # f => roots'[g] = roots[g]
  BY <1>1, <1>2 DEF ManagedInv, ManagedTypes
<1>4. \A g : \A q \in Clients : Closer(q, g)' <=> Closer(q, g)
  BY <1>1, <1>2, <1>3, Kinds DEF Closer
<1>5. \A g : Listed(g)' <=> Listed(g)
  BY <1>1, <1>2, <1>3 DEF Listed
<1>6. \A g : Unforgotten(g)' => Unforgotten(g)
  BY <1>1, <1>2, <1>3, <1>4 DEF Unforgotten
<1>7. \A g : Listable(g) => Listable(g)'
  BY <1>1, <1>2, <1>3, <1>4 DEF Listable
<1>8. ManagedTypes'
  BY <1>1, <1>2, Kinds DEF ManagedInv, ManagedTypes, FilePoints, FileOps, OpenPoints, LoadPoints, LockPoints
<1>9. ASSUME NEW q \in Clients PROVE CallShape(q)'
  BY <1>1, <1>2, <1>3, <1>5, Kinds, ManagedFacts DEF ManagedInv, ManagedTypes, CallShape, OpenPoints, LoadPoints, LockPoints
<1>10. ASSUME NEW q \in Clients PROVE OpensAlone(q)'
  BY <1>1, <1>2, <1>3, <1>5, Kinds, ManagedFacts DEF ManagedInv, CallShape, OpensAlone, OpenPoints, LoadPoints, LockPoints
<1>11. ASSUME NEW q \in Clients PROVE LockRight(q)'
  BY <1>1, <1>2, <1>3, <1>6, Kinds, ManagedFacts DEF ManagedInv, LockRight, Holding
<1>12. ASSUME NEW q \in Clients PROVE WalkRight(q)'
  BY <1>1, <1>2, <1>3, <1>7, Kinds, ManagedFacts DEF ManagedInv, WalkRight, OpenPoints, LoadPoints, LockPoints
<1>13. ASSUME NEW q \in Clients PROVE Calm(q)'
  BY <1>1, <1>2, <1>3, Kinds, ManagedFacts DEF ManagedInv, Calm
<1>14. ASSUME NEW g \in Files PROVE KnownRight(g)'
  BY <1>1, <1>2, <1>3, <1>5, Kinds, ManagedFacts DEF ManagedInv, KnownRight, OpenPoints, LoadPoints, LockPoints
<1>15. ASSUME NEW g \in Files PROVE RootRight(g)'
  BY <1>1, <1>2, <1>3, Kinds, ManagedFacts DEF ManagedInv, RootRight
<1>16. ASSUME NEW g \in Files PROVE ClosedOnce(g)'
  BY <1>1, <1>2, <1>3, <1>4, <1>5, <1>7, Kinds, ManagedFacts DEF ManagedInv, ClosedOnce
<1>17. LocksApart'
  BY <1>1, <1>2, <1>3, Kinds, ManagedFacts DEF ManagedInv, LocksApart
<1>18. ASSUME NEW m \in Locks PROVE OwnedRight(m)'
  BY <1>1, <1>2, <1>3, Kinds, ManagedFacts DEF ManagedInv, OwnedRight, Holding
<1>19. ListOnce' /\ (dirty \subseteq active)'
  BY <1>1, <1>2, <1>3 DEF ManagedInv, ListOnce
<1> QED
  BY <1>8, <1>9, <1>10, <1>11, <1>12, <1>13, <1>14, <1>15, <1>16, <1>17, <1>18, <1>19 DEF ManagedInv

LEMMA StdAgainInv ==
  ASSUME ManagedInv, NEW p \in Clients, NEW f \in Files, NEW o \in {"use", "close"}, pcF[p] = "idle", std # None, f = std, race \/ F!Unraced(p, f, o), op' = [op EXCEPT ![p] = o],
         argF' = [argF EXCEPT ![p] = f], F!Goto(p, "loading"),
         UNCHANGED <<race, known, ofl, std, oflMu, active, roots, raw, dirty, child, slot, lockOwner,
                     count, my, todo, due>>
  PROVE  ManagedInv'
<1>1. /\ CallShape(p) /\ OpensAlone(p) /\ LockRight(p) /\ WalkRight(p) /\ Calm(p)
      /\ pcF[p] = "idle" /\ op[p] = "none" /\ argF[p] = None /\ my[p] = None
      /\ f \in known
      /\ race \/ f \in active
  BY Kinds, ManagedFacts DEF ManagedInv, ManagedTypes, CallShape, OpenPoints, LoadPoints, LockPoints, KnownRight, ClosedOnce, Listed, Listable, Closer, F!Unraced
<1>2. /\ UNCHANGED <<race, known, ofl, std, oflMu, active, roots, raw, slot, lockOwner, count,
                     dirty, child, my, todo, due>>
      /\ pcF' = [pcF EXCEPT ![p] = "loading"]
      /\ op' = [op EXCEPT ![p] = o]
      /\ argF' = [argF EXCEPT ![p] = f]
  BY <1>1 DEF F!Goto, F!Done, F!listVars, F!fileVars, F!lockVars, F!callVars
<1>3. /\ pcF'[p] = "loading" /\ op'[p] = o /\ argF'[p] = f
      /\ \A q \in Clients : q # p => pcF'[q] = pcF[q] /\ op'[q] = op[q] /\ argF'[q] = argF[q]
  BY <1>1, <1>2 DEF ManagedInv, ManagedTypes
<1>4. \A g : \A q \in Clients : Closer(q, g)' <=> Closer(q, g)
  BY <1>1, <1>2, <1>3, Kinds DEF Closer
<1>5. \A g : Listed(g)' <=> Listed(g)
  BY <1>1, <1>2, <1>3 DEF Listed
<1>6. \A g : Unforgotten(g)' => Unforgotten(g)
  BY <1>1, <1>2, <1>3, <1>4 DEF Unforgotten
<1>7. \A g : Listable(g) => Listable(g)'
  BY <1>1, <1>2, <1>3, <1>4 DEF Listable
<1>8. ManagedTypes'
  BY <1>1, <1>2, Kinds DEF ManagedInv, ManagedTypes, FilePoints, FileOps, OpenPoints, LoadPoints, LockPoints
<1>9. ASSUME NEW q \in Clients PROVE CallShape(q)'
  BY <1>1, <1>2, <1>3, <1>5, Kinds, ManagedFacts DEF ManagedInv, ManagedTypes, CallShape, OpenPoints, LoadPoints, LockPoints
<1>10. ASSUME NEW q \in Clients PROVE OpensAlone(q)'
  BY <1>1, <1>2, <1>3, <1>5, Kinds, ManagedFacts DEF ManagedInv, CallShape, OpensAlone, OpenPoints, LoadPoints, LockPoints
<1>11. ASSUME NEW q \in Clients PROVE LockRight(q)'
  BY <1>1, <1>2, <1>3, <1>6, Kinds, ManagedFacts DEF ManagedInv, LockRight, Holding
<1>12. ASSUME NEW q \in Clients PROVE WalkRight(q)'
  BY <1>1, <1>2, <1>3, <1>7, Kinds, ManagedFacts DEF ManagedInv, WalkRight, OpenPoints, LoadPoints, LockPoints
<1>13. ASSUME NEW q \in Clients PROVE Calm(q)'
  <2>1. CASE q = p
    BY <1>1, <1>2, <1>3, <2>1, Kinds DEF Calm, F!Unraced
  <2>2. CASE q # p
    <3>1. /\ pcF'[q] = pcF[q] /\ op'[q] = op[q] /\ argF'[q] = argF[q] /\ race' = race
          /\ active \subseteq active' /\ Calm(q) /\ CallShape(q)
      BY <1>2, <1>3, <2>2 DEF ManagedInv
    <3>2. ASSUME ~race, NEW r \in Clients, r # q, argF'[r] = argF'[q], op[q] \in F!Closing
          PROVE  r # p
      BY <1>1, <1>3, <2>2, <3>1, <3>2 DEF F!Unraced
    <3> QED
      BY <1>3, <3>1, <3>2 DEF Calm
  <2> QED
    BY <2>1, <2>2
<1>14. ASSUME NEW g \in Files PROVE KnownRight(g)'
  BY <1>1, <1>2, <1>3, <1>5, Kinds, ManagedFacts DEF ManagedInv, KnownRight, OpenPoints, LoadPoints, LockPoints
<1>15. ASSUME NEW g \in Files PROVE RootRight(g)'
  BY <1>1, <1>2, <1>3, Kinds, ManagedFacts DEF ManagedInv, RootRight
<1>16. ASSUME NEW g \in Files PROVE ClosedOnce(g)'
  BY <1>1, <1>2, <1>3, <1>4, <1>5, <1>7, Kinds, ManagedFacts DEF ManagedInv, ClosedOnce
<1>17. LocksApart'
  BY <1>1, <1>2, <1>3, Kinds, ManagedFacts DEF ManagedInv, LocksApart
<1>18. ASSUME NEW m \in Locks PROVE OwnedRight(m)'
  BY <1>1, <1>2, <1>3, Kinds, ManagedFacts DEF ManagedInv, OwnedRight, Holding
<1>19. ListOnce' /\ (dirty \subseteq active)'
  BY <1>1, <1>2, <1>3 DEF ManagedInv, ListOnce
<1> QED
  BY <1>8, <1>9, <1>10, <1>11, <1>12, <1>13, <1>14, <1>15, <1>16, <1>17, <1>18, <1>19 DEF ManagedInv

LEMMA StdNewInv ==
  ASSUME ManagedInv, NEW p \in Clients, NEW f \in Files, NEW o \in {"use", "close"}, pcF[p] = "idle", std = None, F!Fresh(f), race \/ F!Unraced(p, f, o), op' = [op EXCEPT ![p] = o],
         argF' = [argF EXCEPT ![p] = f], F!Goto(p, "loading"), std' = f, known' = known \cup {f},
         active' = active \cup {f}, roots' = [roots EXCEPT ![f] = {"buffer"}],
         raw' = [raw EXCEPT ![f] = {"buffer"}],
         UNCHANGED <<race, ofl, oflMu, dirty, child, slot, lockOwner, count, my, todo, due>>
  PROVE  ManagedInv'
<1>1. /\ CallShape(p) /\ OpensAlone(p) /\ LockRight(p) /\ WalkRight(p) /\ Calm(p)
      /\ pcF[p] = "idle" /\ op[p] = "none" /\ argF[p] = None /\ my[p] = None
      /\ f \notin known /\ child[f] = "none" /\ \A q \in Clients : argF[q] # f
      /\ f \notin active /\ f \notin dirty /\ ~Listed(f) /\ slot[f] = None /\ raw[f] = {}
  BY FreshFile, Kinds, ManagedFacts DEF ManagedInv, ManagedTypes, CallShape, OpenPoints, LoadPoints, LockPoints
<1>2. /\ UNCHANGED <<race, ofl, oflMu, slot, lockOwner, count, dirty, child, my, todo, due>>
      /\ std' = f
      /\ known' = known \cup {f}
      /\ active' = active \cup {f}
      /\ pcF' = [pcF EXCEPT ![p] = "loading"]
      /\ op' = [op EXCEPT ![p] = o]
      /\ argF' = [argF EXCEPT ![p] = f]
      /\ roots' = [roots EXCEPT ![f] = {"buffer"}]
      /\ raw' = [raw EXCEPT ![f] = {"buffer"}]
  BY <1>1 DEF F!Goto, F!Done, F!listVars, F!fileVars, F!lockVars, F!callVars
<1>3. /\ pcF'[p] = "loading" /\ op'[p] = o /\ argF'[p] = f
      /\ \A q \in Clients : q # p => pcF'[q] = pcF[q] /\ op'[q] = op[q] /\ argF'[q] = argF[q]
      /\ roots'[f] = {"buffer"} /\ raw'[f] = {"buffer"}
      /\ \A g \in Files : g # f => roots'[g] = roots[g] /\ raw'[g] = raw[g]
  BY <1>1, <1>2 DEF ManagedInv, ManagedTypes
<1>4. \A g : \A q \in Clients : Closer(q, g)' <=> Closer(q, g)
  BY <1>1, <1>2, <1>3, Kinds DEF Closer
<1>5. \A g \in Files : Listed(g)' <=> Listed(g) \/ g = f
  BY <1>1, <1>2, <1>3, ManagedFacts DEF Listed
<1>6. \A g : Unforgotten(g)' => Unforgotten(g) \/ g = f
  BY <1>1, <1>2, <1>3, <1>4 DEF Unforgotten
<1>7. \A g : Listable(g) => Listable(g)'
  BY <1>1, <1>2, <1>3, <1>4 DEF Listable
<1>8. ManagedTypes'
  BY <1>1, <1>2, Kinds DEF ManagedInv, ManagedTypes, FilePoints, FileOps, OpenPoints, LoadPoints, LockPoints
<1>9. ASSUME NEW q \in Clients PROVE CallShape(q)'
  BY <1>1, <1>2, <1>3, <1>5, Kinds, ManagedFacts DEF ManagedInv, ManagedTypes, CallShape, OpenPoints, LoadPoints, LockPoints
<1>10. ASSUME NEW q \in Clients PROVE OpensAlone(q)'
  BY <1>1, <1>2, <1>3, <1>5, Kinds, ManagedFacts DEF ManagedInv, CallShape, OpensAlone, OpenPoints, LoadPoints, LockPoints
<1>11. ASSUME NEW q \in Clients PROVE LockRight(q)'
  <2>1. CASE argF[q] = f
    BY <1>1, <1>2, <1>3, <2>1 DEF LockRight, Holding
  <2>2. CASE argF[q] # f
    BY <1>1, <1>2, <1>3, <1>6, <2>2 DEF ManagedInv, LockRight, Holding
  <2> QED
    BY <2>1, <2>2
<1>12. ASSUME NEW q \in Clients PROVE WalkRight(q)'
  BY <1>1, <1>2, <1>3, <1>7, Kinds, ManagedFacts DEF ManagedInv, WalkRight, OpenPoints, LoadPoints, LockPoints
<1>13. ASSUME NEW q \in Clients PROVE Calm(q)'
  <2>1. CASE q = p
    BY <1>1, <1>2, <1>3, <2>1, Kinds DEF Calm, F!Unraced
  <2>2. CASE q # p
    <3>1. /\ pcF'[q] = pcF[q] /\ op'[q] = op[q] /\ argF'[q] = argF[q] /\ race' = race
          /\ active \subseteq active' /\ Calm(q) /\ CallShape(q)
      BY <1>2, <1>3, <2>2 DEF ManagedInv
    <3>2. ASSUME ~race, NEW r \in Clients, r # q, argF'[r] = argF'[q], op[q] \in F!Closing
          PROVE  r # p
      BY <1>1, <1>3, <2>2, <3>1, <3>2 DEF F!Unraced
    <3> QED
      BY <1>3, <3>1, <3>2 DEF Calm
  <2> QED
    BY <2>1, <2>2
<1>14. ASSUME NEW g \in Files PROVE KnownRight(g)'
  BY <1>1, <1>2, <1>3, <1>5, Kinds, ManagedFacts DEF ManagedInv, KnownRight, OpenPoints, LoadPoints, LockPoints
<1>15. ASSUME NEW g \in Files PROVE RootRight(g)'
  BY <1>1, <1>2, <1>3, Kinds, ManagedFacts DEF ManagedInv, RootRight
<1>16. ASSUME NEW g \in Files PROVE ClosedOnce(g)'
  <2>1. CASE g = f
    BY <1>1, <1>2, <1>3, <1>4, <1>5, <2>1 DEF ClosedOnce, Closer, Listable
  <2>2. CASE g # f
    BY <1>1, <1>2, <1>3, <1>4, <1>5, <1>7, <2>2 DEF ManagedInv, ClosedOnce
  <2> QED
    BY <2>1, <2>2
<1>17. LocksApart'
  BY <1>1, <1>2, <1>3, Kinds, ManagedFacts DEF ManagedInv, LocksApart
<1>18. ASSUME NEW m \in Locks PROVE OwnedRight(m)'
  BY <1>1, <1>2, <1>3, Kinds, ManagedFacts DEF ManagedInv, OwnedRight, Holding
<1>19. ListOnce' /\ (dirty \subseteq active)'
  BY <1>1, <1>2, <1>3 DEF ManagedInv, ListOnce
<1> QED
  BY <1>8, <1>9, <1>10, <1>11, <1>12, <1>13, <1>14, <1>15, <1>16, <1>17, <1>18, <1>19 DEF ManagedInv

LEMMA CollectInv ==
  ASSUME ManagedInv, NEW f \in Files, F!Collect(f)
  PROVE  ManagedInv'
<1>1. /\ TRUE
      /\ f \notin active /\ (\A q \in Clients : argF[q] # f) /\ ~Listed(f)
  BY OflFacts, Kinds, ManagedFacts DEF F!Collect, ManagedInv, ManagedTypes, CallShape, OpenPoints, LoadPoints, LockPoints, Listed, F!ToSet
<1>2. /\ UNCHANGED <<race, ofl, std, oflMu, active, roots, raw, lockOwner, count, dirty, argF,
                     op, pcF, my, todo, due>>
      /\ known' = known \ {f}
      /\ slot' = [slot EXCEPT ![f] = None]
      /\ child' = [child EXCEPT ![f] = "none"]
  BY <1>1 DEF F!Collect, F!Goto, F!Done, F!listVars, F!fileVars, F!lockVars, F!callVars
<1>3. /\ slot'[f] = None /\ child'[f] = "none"
      /\ \A g \in Files : g # f => slot'[g] = slot[g] /\ child'[g] = child[g]
  BY <1>1, <1>2 DEF ManagedInv, ManagedTypes
<1>4. \A g : \A q \in Clients : Closer(q, g)' <=> Closer(q, g)
  BY <1>1, <1>2, <1>3, Kinds DEF Closer
<1>5. \A g : Listed(g)' <=> Listed(g)
  BY <1>1, <1>2, <1>3 DEF Listed
<1>6. \A g : Unforgotten(g)' => Unforgotten(g)
  BY <1>1, <1>2, <1>3, <1>4 DEF Unforgotten
<1>7. \A g : Listable(g) => Listable(g)'
  BY <1>1, <1>2, <1>3, <1>4 DEF Listable
<1>8. ManagedTypes'
  BY <1>1, <1>2, Kinds DEF ManagedInv, ManagedTypes, FilePoints, FileOps, OpenPoints, LoadPoints, LockPoints
<1>9. ASSUME NEW q \in Clients PROVE CallShape(q)'
  BY <1>1, <1>2, <1>3, <1>5, Kinds, ManagedFacts DEF ManagedInv, ManagedTypes, CallShape, OpenPoints, LoadPoints, LockPoints
<1>10. ASSUME NEW q \in Clients PROVE OpensAlone(q)'
  BY <1>1, <1>2, <1>3, <1>5, Kinds, ManagedFacts DEF ManagedInv, CallShape, OpensAlone, OpenPoints, LoadPoints, LockPoints
<1>11. ASSUME NEW q \in Clients PROVE LockRight(q)'
  BY <1>1, <1>2, <1>3, <1>6, Kinds, ManagedFacts DEF ManagedInv, LockRight, Holding
<1>12. ASSUME NEW q \in Clients PROVE WalkRight(q)'
  <2>1. ~Listable(f)
    BY <1>1 DEF Listable, Closer
  <2>2. \A i \in 1 .. Len(todo[q]) : todo[q][i] \in Files
    BY TodoFacts DEF ManagedInv
  <2>3. WalkRight(q) /\ (\A g \in Files : Listable(g) /\ g \in known => Listable(g)' /\ g \in known')
    BY <1>2, <1>7, <2>1 DEF ManagedInv
  <2> QED
    BY <1>2, <2>2, <2>3 DEF WalkRight
<1>13. ASSUME NEW q \in Clients PROVE Calm(q)'
  BY <1>1, <1>2, <1>3, Kinds, ManagedFacts DEF ManagedInv, Calm
<1>14. ASSUME NEW g \in Files PROVE KnownRight(g)'
  BY <1>1, <1>2, <1>3, <1>5, Kinds, ManagedFacts DEF ManagedInv, KnownRight, OpenPoints, LoadPoints, LockPoints
<1>15. ASSUME NEW g \in Files PROVE RootRight(g)'
  BY <1>1, <1>2, <1>3, Kinds, ManagedFacts DEF ManagedInv, RootRight
<1>16. ASSUME NEW g \in Files PROVE ClosedOnce(g)'
  BY <1>1, <1>2, <1>3, <1>4, <1>5, <1>7, Kinds, ManagedFacts DEF ManagedInv, ClosedOnce
<1>17. LocksApart'
  BY <1>1, <1>2, <1>3, Kinds, ManagedFacts DEF ManagedInv, LocksApart
<1>18. ASSUME NEW m \in Locks PROVE OwnedRight(m)'
  BY <1>1, <1>2, <1>3, Kinds, ManagedFacts DEF ManagedInv, OwnedRight, Holding
<1>19. ListOnce' /\ (dirty \subseteq active)'
  BY <1>1, <1>2, <1>3 DEF ManagedInv, ListOnce
<1> QED
  BY <1>8, <1>9, <1>10, <1>11, <1>12, <1>13, <1>14, <1>15, <1>16, <1>17, <1>18, <1>19 DEF ManagedInv

LEMMA OflRemoveInv ==
  ASSUME ManagedInv, NEW p \in Clients, F!OflRemove(p)
  PROVE  ManagedInv'
<1> DEFINE f == argF[p]
<1>1. /\ CallShape(p) /\ OpensAlone(p) /\ LockRight(p) /\ WalkRight(p) /\ Calm(p)
      /\ pcF[p] = "unlinking" /\ f \in Files /\ op[p] \in F!Closing /\ oflMu = None /\ Closer(p, f)
      /\ f \notin active
  BY Kinds, ManagedFacts DEF F!OflRemove, ManagedInv, ManagedTypes, CallShape, OpenPoints, LoadPoints, LockPoints, Closer, ClosedOnce
<1>2. /\ UNCHANGED <<race, known, oflMu, active, roots, raw, slot, lockOwner, count, dirty,
                     child, argF, op, my, todo, due>>
      /\ pcF' = [pcF EXCEPT ![p] = "forgetting"]
      /\ std' = IF std = f THEN None ELSE std
  BY <1>1 DEF F!OflRemove, F!Goto, F!Done, F!listVars, F!fileVars, F!lockVars, F!callVars,
              F!Unlinked
<1>3. /\ pcF'[p] = "forgetting"
      /\ \A q \in Clients : q # p => pcF'[q] = pcF[q]
  BY <1>1, <1>2 DEF ManagedInv, ManagedTypes
<1>4. /\ ofl' \in Seq(Files) /\ ListOnce'
       /\ \A g : (\E j \in 1 .. Len(ofl') : ofl'[j] = g) <=> (\E j \in 1 .. Len(ofl) : ofl[j] = g) /\ g # f
  BY <1>1, Unlisted DEF ManagedInv, F!OflRemove
<1>5. \A g : \A q \in Clients : Closer(q, g)' <=> Closer(q, g)
  BY <1>1, <1>2, <1>3, Kinds DEF Closer
<1>6. \A g \in Files : Listed(g)' <=> Listed(g) /\ g # f
  BY <1>2, <1>4, ManagedFacts DEF Listed
<1>7. \A g : Unforgotten(g)' => Unforgotten(g)
  BY <1>1, <1>2, <1>3, <1>5 DEF Unforgotten
<1>8. \A g : Listable(g) /\ g # f => Listable(g)'
  <2>1. ASSUME NEW g, Listable(g), g # f PROVE Listable(g)'
    <3>1. CASE g \in active
      BY <1>2, <3>1 DEF Listable
    <3>2. ASSUME NEW q \in Clients, Closer(q, g), pcF[q] # "forgetting" PROVE Listable(g)'
      <4>1. q # p
        BY <2>1, <3>2 DEF Closer
      <4> QED
        BY <1>3, <1>5, <3>2, <4>1 DEF Listable
    <3> QED
      BY <2>1, <3>1, <3>2 DEF Listable
  <2> QED
    BY <2>1
<1>9. ManagedTypes'
  BY <1>1, <1>2, <1>4, Kinds DEF ManagedInv, ManagedTypes, FilePoints, FileOps, OpenPoints, LoadPoints, LockPoints
<1>10. ASSUME NEW q \in Clients PROVE CallShape(q)'
  BY <1>1, <1>2, <1>3, <1>6, Kinds, ManagedFacts DEF ManagedInv, ManagedTypes, CallShape, OpenPoints, LoadPoints, LockPoints
<1>11. ASSUME NEW q \in Clients PROVE OpensAlone(q)'
  BY <1>1, <1>2, <1>3, <1>6, Kinds, ManagedFacts DEF ManagedInv, CallShape, OpensAlone, OpenPoints, LoadPoints, LockPoints
<1>12. ASSUME NEW q \in Clients PROVE LockRight(q)'
  BY <1>1, <1>2, <1>3, <1>7, Kinds, ManagedFacts DEF ManagedInv, LockRight, Holding
<1>13. ASSUME NEW q \in Clients PROVE WalkRight(q)'
  <2>1. op[q] # "flushall"
    BY <1>1, ManagedFacts DEF ManagedInv, CallShape
  <2> QED
    BY <1>2, <1>3, <2>1 DEF ManagedInv, WalkRight
<1>14. ASSUME NEW q \in Clients PROVE Calm(q)'
  BY <1>1, <1>2, <1>3, Kinds, ManagedFacts DEF ManagedInv, Calm
<1>15. ASSUME NEW g \in Files PROVE KnownRight(g)'
  BY <1>1, <1>2, <1>3, <1>6, Kinds, ManagedFacts DEF ManagedInv, KnownRight, OpenPoints, LoadPoints, LockPoints
<1>16. ASSUME NEW g \in Files PROVE RootRight(g)'
  BY <1>1, <1>2, <1>3, Kinds, ManagedFacts DEF ManagedInv, RootRight
<1>17. ASSUME NEW g \in Files PROVE ClosedOnce(g)'
  BY <1>1, <1>2, <1>3, <1>5, <1>6, <1>8, Kinds, ManagedFacts DEF ManagedInv, ClosedOnce
<1>18. LocksApart'
  BY <1>1, <1>2, <1>3, Kinds, ManagedFacts DEF ManagedInv, LocksApart
<1>19. ASSUME NEW m \in Locks PROVE OwnedRight(m)'
  BY <1>1, <1>2, <1>3, Kinds, ManagedFacts DEF ManagedInv, OwnedRight, Holding
<1>20. ListOnce' /\ (dirty \subseteq active)'
  BY <1>2, <1>4 DEF ManagedInv
<1> QED
  BY <1>9, <1>10, <1>11, <1>12, <1>13, <1>14, <1>15, <1>16, <1>17, <1>18, <1>19, <1>20 DEF ManagedInv

LEMMA ReleaseCrashInv ==
  ASSUME ManagedInv, NEW p \in Clients, pcF[p] \in {"refused", "releasing"}, slot[argF[p]] = None, F!Goto(p, "crashed"),
         UNCHANGED <<race, known, ofl, std, oflMu, active, roots, raw, slot, dirty, child,
                     lockOwner, count, my, op, argF, todo, due>>
  PROVE  ManagedInv'
<1> DEFINE f == argF[p]
<1>1. /\ CallShape(p) /\ OpensAlone(p) /\ LockRight(p) /\ WalkRight(p) /\ Calm(p)
      /\ f \in Files
  BY Kinds, ManagedFacts DEF ManagedInv, ManagedTypes, CallShape, OpenPoints, LoadPoints, LockPoints
<1>2. /\ UNCHANGED <<race, known, ofl, std, oflMu, active, roots, raw, slot, lockOwner, count,
                     dirty, child, argF, op, my, todo, due>>
      /\ pcF' = [pcF EXCEPT ![p] = "crashed"]
  BY <1>1 DEF F!Goto, F!Done, F!listVars, F!fileVars, F!lockVars, F!callVars
<1>3. /\ pcF'[p] = "crashed"
      /\ \A q \in Clients : q # p => pcF'[q] = pcF[q]
  BY <1>1, <1>2 DEF ManagedInv, ManagedTypes
<1>4. ~Unforgotten(f)
  BY <1>1, ManagedFacts DEF LockRight, CallShape, LockPoints, Holding
<1>5. race /\ \A g : ~Closer(p, g)
  BY <1>1, <1>4, CalmUnforgotten DEF Unforgotten, Closer
<1>6. \A g : \A q \in Clients : Closer(q, g)' <=> Closer(q, g)
  BY <1>1, <1>2, <1>3, <1>5, Kinds DEF Closer
<1>7. \A g : Listed(g)' <=> Listed(g)
  BY <1>1, <1>2, <1>3 DEF Listed
<1>8. \A g : Unforgotten(g)' => Unforgotten(g)
  BY <1>1, <1>2, <1>3, <1>6 DEF Unforgotten
<1>9. \A g : Listable(g) => Listable(g)'
  BY <1>1, <1>2, <1>3, <1>6 DEF Listable
<1>10. ManagedTypes'
  BY <1>1, <1>2, Kinds DEF ManagedInv, ManagedTypes, FilePoints, FileOps, OpenPoints, LoadPoints, LockPoints
<1>11. ASSUME NEW q \in Clients PROVE CallShape(q)'
  BY <1>1, <1>2, <1>3, <1>7, Kinds, ManagedFacts DEF ManagedInv, ManagedTypes, CallShape, OpenPoints, LoadPoints, LockPoints
<1>12. ASSUME NEW q \in Clients PROVE OpensAlone(q)'
  BY <1>1, <1>2, <1>3, <1>7, Kinds, ManagedFacts DEF ManagedInv, CallShape, OpensAlone, OpenPoints, LoadPoints, LockPoints
<1>13. ASSUME NEW q \in Clients PROVE LockRight(q)'
  BY <1>1, <1>2, <1>3, <1>8, Kinds, ManagedFacts DEF ManagedInv, LockRight, Holding
<1>14. ASSUME NEW q \in Clients PROVE WalkRight(q)'
  BY <1>1, <1>2, <1>3, <1>9, Kinds, ManagedFacts DEF ManagedInv, WalkRight, OpenPoints, LoadPoints, LockPoints
<1>15. ASSUME NEW q \in Clients PROVE Calm(q)'
  BY <1>2, <1>5 DEF Calm
<1>16. ASSUME NEW g \in Files PROVE KnownRight(g)'
  BY <1>1, <1>2, <1>3, <1>7, Kinds, ManagedFacts DEF ManagedInv, KnownRight, OpenPoints, LoadPoints, LockPoints
<1>17. ASSUME NEW g \in Files PROVE RootRight(g)'
  BY <1>1, <1>2, <1>3, Kinds, ManagedFacts DEF ManagedInv, RootRight
<1>18. ASSUME NEW g \in Files PROVE ClosedOnce(g)'
  BY <1>1, <1>2, <1>3, <1>6, <1>7, <1>9, Kinds, ManagedFacts DEF ManagedInv, ClosedOnce
<1>19. LocksApart' /\ ListOnce' /\ (dirty \subseteq active)'
  BY <1>2 DEF ManagedInv, LocksApart, ListOnce
<1>20. ASSUME NEW m \in Locks PROVE OwnedRight(m)'
  BY <1>1, <1>2, <1>3, Kinds, ManagedFacts DEF ManagedInv, OwnedRight, Holding
<1> QED
  BY <1>10, <1>11, <1>12, <1>13, <1>14, <1>15, <1>16, <1>17, <1>18, <1>19, <1>20 DEF ManagedInv

LEMMA ReleaseWalkInv ==
  ASSUME ManagedInv, NEW p \in Clients, pcF[p] \in {"refused", "releasing"}, op[p] = "flushall",
         lockOwner' = [lockOwner EXCEPT ![slot[argF[p]]] = None], slot[argF[p]] # None,
         count' = [count EXCEPT ![slot[argF[p]]] = 0],
         todo' = [todo EXCEPT ![p] = Tail(@)], argF' = [argF EXCEPT ![p] = None],
         my' = [my EXCEPT ![p] = None], F!Goto(p, "walking"),
         UNCHANGED <<race, known, ofl, std, oflMu, active, roots, raw, slot, dirty, child, op, due>>
  PROVE  ManagedInv'
<1> DEFINE f == argF[p]
           l == slot[f]
<1>1. /\ CallShape(p) /\ OpensAlone(p) /\ LockRight(p) /\ WalkRight(p) /\ Calm(p)
      /\ f \in Files /\ l \in Locks /\ Len(todo[p]) > 0 /\ todo[p][1] = f
  BY TodoFacts, Kinds, ManagedFacts DEF ManagedInv, ManagedTypes, CallShape, OpenPoints, LoadPoints, LockPoints, WalkRight
<1>2. /\ UNCHANGED <<race, known, ofl, std, oflMu, active, roots, raw, slot, dirty, child, op,
                     due>>
      /\ pcF' = [pcF EXCEPT ![p] = "walking"]
      /\ lockOwner' = [lockOwner EXCEPT ![l] = None]
      /\ count' = [count EXCEPT ![l] = 0]
      /\ todo' = [todo EXCEPT ![p] = Tail(todo[p])]
      /\ argF' = [argF EXCEPT ![p] = None]
      /\ my' = [my EXCEPT ![p] = None]
  BY <1>1 DEF F!Goto, F!Done, F!listVars, F!fileVars, F!lockVars, F!callVars
<1>3. /\ pcF'[p] = "walking" /\ todo'[p] = Tail(todo[p]) /\ argF'[p] = None /\ my'[p] = None
      /\ \A q \in Clients : q # p => pcF'[q] = pcF[q] /\ todo'[q] = todo[q] /\ argF'[q] = argF[q] /\ my'[q] = my[q]
      /\ lockOwner'[l] = None /\ count'[l] = 0
      /\ \A m \in Locks : m # l => lockOwner'[m] = lockOwner[m] /\ count'[m] = count[m]
  BY <1>1, <1>2 DEF ManagedInv, ManagedTypes
<1>4. \A g : \A q \in Clients : Closer(q, g)' <=> Closer(q, g)
  BY <1>1, <1>2, <1>3, Kinds DEF Closer
<1>5. \A g : Listed(g)' <=> Listed(g)
  BY <1>1, <1>2, <1>3 DEF Listed
<1>6. \A g : Unforgotten(g)' => Unforgotten(g)
  BY <1>1, <1>2, <1>3, <1>4 DEF Unforgotten
<1>7. \A g : Listable(g) => Listable(g)'
  BY <1>1, <1>2, <1>3, <1>4 DEF Listable
<1>8. ManagedTypes'
  BY <1>1, <1>2, Kinds DEF ManagedInv, ManagedTypes, FilePoints, FileOps, OpenPoints, LoadPoints, LockPoints
<1>9. ASSUME NEW q \in Clients PROVE CallShape(q)'
  BY <1>1, <1>2, <1>3, <1>5, Kinds, ManagedFacts DEF ManagedInv, ManagedTypes, CallShape, OpenPoints, LoadPoints, LockPoints
<1>10. ASSUME NEW q \in Clients PROVE OpensAlone(q)'
  <2>1. CASE q = p
    BY <1>1, <1>2, <1>3, <1>5, Kinds, ManagedFacts, <2>1 DEF ManagedInv, CallShape, OpensAlone, OpenPoints, LoadPoints, LockPoints
  <2>2. CASE q # p
    BY <1>1, <1>2, <1>3, <1>5, Kinds, ManagedFacts, <2>2 DEF ManagedInv, CallShape, OpensAlone, OpenPoints, LoadPoints, LockPoints
  <2> QED
    BY <2>1, <2>2
<1>11. ASSUME NEW q \in Clients PROVE LockRight(q)'
  <2>1. CASE q = p
    BY <1>1, <1>2, <1>3, <1>6, <2>1 DEF LockRight, Holding
  <2>2. CASE q # p
    <3>1. ASSUME Unforgotten(argF[q]), Holding(q) PROVE my[q] # l
      <4>1. my[q] # None
        BY <3>1, ManagedFacts DEF ManagedInv, CallShape, LockPoints, Holding
      <4>2. CASE argF[q] = f
        BY <1>1, <2>2, <3>1, <4>2, InsideAlone DEF Holding
      <4>3. CASE argF[q] # f
        BY <1>1, <4>1, <4>3 DEF ManagedInv, LocksApart
      <4> QED
        BY <4>2, <4>3
    <3>2. /\ LockRight(q) /\ pcF'[q] = pcF[q] /\ argF'[q] = argF[q] /\ my'[q] = my[q] /\ slot' = slot
          /\ Unforgotten(argF[q])' => Unforgotten(argF[q])
      BY <1>2, <1>3, <1>6, <2>2 DEF ManagedInv
    <3>3. ASSUME Unforgotten(argF[q]), Holding(q) PROVE lockOwner'[my[q]] = q
      <4>1. my[q] \in Locks /\ lockOwner[my[q]] = q
        BY <3>2, <3>3, ManagedFacts DEF ManagedInv, CallShape, LockPoints, Holding, LockRight
      <4> QED
        BY <1>3, <3>1, <3>3, <4>1
    <3> QED
      BY <3>2, <3>3 DEF LockRight, Holding
  <2> QED
    BY <2>1, <2>2
<1>12. ASSUME NEW q \in Clients PROVE WalkRight(q)'
  <2>1. CASE q = p
    <3> DEFINE n == Len(todo[p])
    <3>6. PICK t : t = Tail(todo[p])
      OBVIOUS
    <3>1. /\ n \in Nat /\ n > 0 /\ Len(t) = n - 1 /\ todo[p][1] = f
          /\ \A i \in 1 .. n - 1 : t[i] = todo[p][i + 1]
          /\ \A i \in 1 .. n : todo[p][i] \in Files
      BY <1>1, <3>6, TodoFacts DEF ManagedInv
    <3>2. todo'[p] = t /\ due' = due /\ op' = op /\ active' = active /\ known' = known /\ pcF'[p] = "walking"
      BY <1>2, <1>3, <3>6
    <3> HIDE DEF n
    <3>3. f \notin due[p]
      BY <1>1 DEF ManagedInv, ClosedOnce, WalkRight
    <3>4. \A i \in 1 .. Len(t) : Listable(t[i])' /\ t[i] \in known'
      <4>1. ASSUME NEW i \in 1 .. Len(t) PROVE i + 1 \in 1 .. n /\ t[i] = todo[p][i + 1]
        BY <3>1
      <4>2. \A i \in 1 .. n : Listable(todo[p][i]) /\ todo[p][i] \in known
        BY <1>1 DEF WalkRight, n
      <4> QED
        BY <1>7, <3>2, <4>1, <4>2
    <3>5. \A g \in due[p] : \E i \in 1 .. Len(t) : t[i] = g
      <4>1. ASSUME NEW g \in due[p] PROVE \E i \in 1 .. Len(t) : t[i] = g
        <5>1. PICK i \in 1 .. n : todo[p][i] = g
          BY <1>1 DEF WalkRight, n
        <5>2. i # 1
          BY <3>1, <3>3, <5>1
        <5>3. i - 1 \in 1 .. Len(t) /\ t[i - 1] = g
          BY <3>1, <5>1, <5>2
        <5> QED
          BY <5>3
      <4> QED
        BY <4>1
    <3>7. todo'[q] = t /\ due'[q] = due[p] /\ op'[q] = "flushall" /\ pcF'[q] = "walking" /\ due[p] \subseteq active'
      BY <1>1, <1>2, <2>1, <3>2 DEF WalkRight
    <3>8. \A i \in 1 .. Len(todo'[q]) : Listable(todo[q][i])' /\ todo'[q][i] \in known'
      BY <3>4, <3>7
    <3>9. \A g \in due'[q] : op'[q] = "flushall" /\ \E i \in 1 .. Len(todo'[q]) : todo'[q][i] = g
      BY <3>5, <3>7
    <3> QED
      BY <3>7, <3>8, <3>9 DEF WalkRight, LoadPoints, LockPoints
  <2>2. CASE q # p
    BY <1>2, <1>3, <1>7, <2>2 DEF ManagedInv, WalkRight
  <2> QED
    BY <2>1, <2>2
<1>13. ASSUME NEW q \in Clients PROVE Calm(q)'
  BY <1>1, <1>2, <1>3, Kinds, ManagedFacts DEF ManagedInv, Calm
<1>14. ASSUME NEW g \in Files PROVE KnownRight(g)'
  BY <1>1, <1>2, <1>3, <1>5, Kinds, ManagedFacts DEF ManagedInv, KnownRight, OpenPoints, LoadPoints, LockPoints
<1>15. ASSUME NEW g \in Files PROVE RootRight(g)'
  BY <1>1, <1>2, <1>3, Kinds, ManagedFacts DEF ManagedInv, RootRight
<1>16. ASSUME NEW g \in Files PROVE ClosedOnce(g)'
  BY <1>1, <1>2, <1>3, <1>4, <1>5, <1>7, Kinds, ManagedFacts DEF ManagedInv, ClosedOnce
<1>17. LocksApart'
  BY <1>1, <1>2, <1>3, Kinds, ManagedFacts DEF ManagedInv, LocksApart
<1>18. ASSUME NEW m \in Locks PROVE OwnedRight(m)'
  <2>1. CASE m = l
    BY <1>1, <1>3, <2>1, ManagedFacts DEF OwnedRight
  <2>2. CASE m # l
    <3>1. count'[m] = count[m] /\ lockOwner'[m] = lockOwner[m] /\ slot' = slot /\ OwnedRight(m)
      BY <1>2, <1>3, <2>2 DEF ManagedInv
    <3>2. ASSUME lockOwner[m] = p PROVE my'[p] # m /\ \A g \in Files : slot[g] # m
      <4>1. ASSUME my[p] = m PROVE \A g \in Files : slot[g] # m
        BY <1>1, <2>2, <4>1, ManagedFacts DEF ManagedInv, LocksApart
      <4>2. \A g \in Files : slot[g] # m
        BY <1>1, <3>1, <3>2, <4>1 DEF OwnedRight
      <4> QED
        BY <1>1, <1>2, <1>3, <2>2, <4>2, ManagedFacts
    <3>3. ASSUME NEW q \in Clients, q # p, lockOwner[m] = q
          PROVE  \/ (Holding(q)' \/ pcF'[q] = "crashed") /\ my'[q] = m
                 \/ my'[q] # m /\ \A g \in Files : slot'[g] # m
      BY <1>2, <1>3, <3>1, <3>3 DEF OwnedRight, Holding
    <3> QED
      BY <3>1, <3>2, <3>3 DEF OwnedRight
  <2> QED
    BY <2>1, <2>2
<1>19. ListOnce' /\ (dirty \subseteq active)'
  BY <1>1, <1>2, <1>3 DEF ManagedInv, ListOnce
<1> QED
  BY <1>8, <1>9, <1>10, <1>11, <1>12, <1>13, <1>14, <1>15, <1>16, <1>17, <1>18, <1>19 DEF ManagedInv

LEMMA ReleaseCloseInv ==
  ASSUME ManagedInv, NEW p \in Clients, pcF[p] = "releasing", op[p] \in F!Closing,
         lockOwner' = [lockOwner EXCEPT ![slot[argF[p]]] = None], slot[argF[p]] # None,
         count' = [count EXCEPT ![slot[argF[p]]] = 0],
         F!Goto(p, "unlinking"),
         UNCHANGED <<race, known, ofl, std, oflMu, active, roots, raw, slot, dirty, child, op, my, argF, todo, due>>
  PROVE  ManagedInv'
<1> DEFINE f == argF[p]
           l == slot[f]
<1>1. /\ CallShape(p) /\ OpensAlone(p) /\ LockRight(p) /\ WalkRight(p) /\ Calm(p)
      /\ f \in Files /\ l \in Locks /\ Closer(p, f)
      /\ my[p] = l
  BY Kinds, ManagedFacts DEF ManagedInv, ManagedTypes, CallShape, OpenPoints, LoadPoints, LockPoints, Closer, LockRight, Unforgotten
<1>2. /\ UNCHANGED <<race, known, ofl, std, oflMu, active, roots, raw, slot, dirty, child,
                     argF, op, my, todo, due>>
      /\ pcF' = [pcF EXCEPT ![p] = "unlinking"]
      /\ lockOwner' = [lockOwner EXCEPT ![l] = None]
      /\ count' = [count EXCEPT ![l] = 0]
  BY <1>1 DEF F!Goto, F!Done, F!listVars, F!fileVars, F!lockVars, F!callVars
<1>3. /\ pcF'[p] = "unlinking"
      /\ \A q \in Clients : q # p => pcF'[q] = pcF[q]
      /\ lockOwner'[l] = None /\ count'[l] = 0
      /\ \A m \in Locks : m # l => lockOwner'[m] = lockOwner[m] /\ count'[m] = count[m]
  BY <1>1, <1>2 DEF ManagedInv, ManagedTypes
<1>4. \A g : \A q \in Clients : Closer(q, g)' <=> Closer(q, g)
  BY <1>1, <1>2, <1>3, Kinds DEF Closer
<1>5. \A g : Listed(g)' <=> Listed(g)
  BY <1>1, <1>2, <1>3 DEF Listed
<1>6. \A g : Unforgotten(g)' => Unforgotten(g)
  BY <1>1, <1>2, <1>3, <1>4 DEF Unforgotten
<1>7. \A g : Listable(g) => Listable(g)'
  BY <1>1, <1>2, <1>3, <1>4 DEF Listable
<1>8. ManagedTypes'
  BY <1>1, <1>2, Kinds DEF ManagedInv, ManagedTypes, FilePoints, FileOps, OpenPoints, LoadPoints, LockPoints
<1>9. ASSUME NEW q \in Clients PROVE CallShape(q)'
  BY <1>1, <1>2, <1>3, <1>5, Kinds, ManagedFacts DEF ManagedInv, ManagedTypes, CallShape, OpenPoints, LoadPoints, LockPoints
<1>10. ASSUME NEW q \in Clients PROVE OpensAlone(q)'
  BY <1>1, <1>2, <1>3, <1>5, Kinds, ManagedFacts DEF ManagedInv, CallShape, OpensAlone, OpenPoints, LoadPoints, LockPoints
<1>11. ASSUME NEW q \in Clients PROVE LockRight(q)'
  <2>1. CASE q = p
    BY <1>1, <1>2, <1>3, <1>6, <2>1 DEF LockRight, Holding
  <2>2. CASE q # p
    <3>1. ASSUME Unforgotten(argF[q]), Holding(q) PROVE my[q] # l
      <4>1. my[q] # None
        BY <3>1, ManagedFacts DEF ManagedInv, CallShape, LockPoints, Holding
      <4>2. CASE argF[q] = f
        BY <1>1, <2>2, <3>1, <4>2, InsideAlone DEF Holding
      <4>3. CASE argF[q] # f
        BY <1>1, <4>1, <4>3 DEF ManagedInv, LocksApart
      <4> QED
        BY <4>2, <4>3
    <3>2. /\ LockRight(q) /\ pcF'[q] = pcF[q] /\ argF'[q] = argF[q] /\ my'[q] = my[q] /\ slot' = slot
          /\ Unforgotten(argF[q])' => Unforgotten(argF[q])
      BY <1>2, <1>3, <1>6, <2>2 DEF ManagedInv
    <3>3. ASSUME Unforgotten(argF[q]), Holding(q) PROVE lockOwner'[my[q]] = q
      <4>1. my[q] \in Locks /\ lockOwner[my[q]] = q
        BY <3>2, <3>3, ManagedFacts DEF ManagedInv, CallShape, LockPoints, Holding, LockRight
      <4> QED
        BY <1>3, <3>1, <3>3, <4>1
    <3> QED
      BY <3>2, <3>3 DEF LockRight, Holding
  <2> QED
    BY <2>1, <2>2
<1>12. ASSUME NEW q \in Clients PROVE WalkRight(q)'
  BY <1>1, <1>2, <1>3, <1>7, Kinds, ManagedFacts DEF ManagedInv, WalkRight, OpenPoints, LoadPoints, LockPoints
<1>13. ASSUME NEW q \in Clients PROVE Calm(q)'
  BY <1>1, <1>2, <1>3, Kinds, ManagedFacts DEF ManagedInv, Calm
<1>14. ASSUME NEW g \in Files PROVE KnownRight(g)'
  BY <1>1, <1>2, <1>3, <1>5, Kinds, ManagedFacts DEF ManagedInv, KnownRight, OpenPoints, LoadPoints, LockPoints
<1>15. ASSUME NEW g \in Files PROVE RootRight(g)'
  BY <1>1, <1>2, <1>3, Kinds, ManagedFacts DEF ManagedInv, RootRight
<1>16. ASSUME NEW g \in Files PROVE ClosedOnce(g)'
  BY <1>1, <1>2, <1>3, <1>4, <1>5, <1>7, Kinds, ManagedFacts DEF ManagedInv, ClosedOnce
<1>17. LocksApart' /\ ListOnce' /\ (dirty \subseteq active)'
  BY <1>2 DEF ManagedInv, LocksApart, ListOnce
<1>18. ASSUME NEW m \in Locks PROVE OwnedRight(m)'
  <2>1. CASE m = l
    BY <1>1, <1>3, <2>1, ManagedFacts DEF OwnedRight
  <2>2. CASE m # l
    <3>1. count'[m] = count[m] /\ lockOwner'[m] = lockOwner[m] /\ slot' = slot /\ OwnedRight(m)
      BY <1>2, <1>3, <2>2 DEF ManagedInv
    <3>2. ASSUME lockOwner[m] = p PROVE my'[p] # m /\ \A g \in Files : slot[g] # m
      <4>1. ASSUME my[p] = m PROVE \A g \in Files : slot[g] # m
        BY <1>1, <2>2, <4>1, ManagedFacts DEF ManagedInv, LocksApart
      <4>2. \A g \in Files : slot[g] # m
        BY <1>1, <3>1, <3>2, <4>1 DEF OwnedRight
      <4> QED
        BY <1>1, <1>2, <1>3, <2>2, <4>2, ManagedFacts
    <3>3. ASSUME NEW q \in Clients, q # p, lockOwner[m] = q
          PROVE  \/ (Holding(q)' \/ pcF'[q] = "crashed") /\ my'[q] = m
                 \/ my'[q] # m /\ \A g \in Files : slot'[g] # m
      BY <1>2, <1>3, <3>1, <3>3 DEF OwnedRight, Holding
    <3> QED
      BY <3>1, <3>2, <3>3 DEF OwnedRight
  <2> QED
    BY <2>1, <2>2
<1> QED
  BY <1>8, <1>9, <1>10, <1>11, <1>12, <1>13, <1>14, <1>15, <1>16, <1>17, <1>18 DEF ManagedInv

LEMMA ReleaseDoneInv ==
  ASSUME ManagedInv, NEW p \in Clients, pcF[p] \in {"refused", "releasing"}, op[p] # "flushall", F!Done(p),
         op[p] \in F!Closing => pcF[p] = "refused",
         lockOwner' = [lockOwner EXCEPT ![slot[argF[p]]] = None], slot[argF[p]] # None,
         count' = [count EXCEPT ![slot[argF[p]]] = 0],
         UNCHANGED <<race, known, ofl, std, oflMu, active, roots, raw, slot, dirty, child, todo, due>>
  PROVE  ManagedInv'
<1> DEFINE f == argF[p]
           l == slot[f]
<1>1. /\ CallShape(p) /\ OpensAlone(p) /\ LockRight(p) /\ WalkRight(p) /\ Calm(p)
      /\ f \in Files /\ l \in Locks
  BY Kinds, ManagedFacts DEF ManagedInv, ManagedTypes, CallShape, OpenPoints, LoadPoints, LockPoints
<1>2. /\ UNCHANGED <<race, known, ofl, std, oflMu, active, roots, raw, slot, dirty, child,
                     todo, due>>
      /\ pcF' = [pcF EXCEPT ![p] = "idle"]
      /\ op' = [op EXCEPT ![p] = "none"]
      /\ argF' = [argF EXCEPT ![p] = None]
      /\ my' = [my EXCEPT ![p] = None]
      /\ lockOwner' = [lockOwner EXCEPT ![l] = None]
      /\ count' = [count EXCEPT ![l] = 0]
  BY <1>1 DEF F!Goto, F!Done, F!listVars, F!fileVars, F!lockVars, F!callVars
<1>3. /\ pcF'[p] = "idle" /\ op'[p] = "none" /\ argF'[p] = None /\ my'[p] = None
      /\ \A q \in Clients : q # p => pcF'[q] = pcF[q] /\ op'[q] = op[q] /\ argF'[q] = argF[q] /\ my'[q] = my[q]
      /\ lockOwner'[l] = None /\ count'[l] = 0
      /\ \A m \in Locks : m # l => lockOwner'[m] = lockOwner[m] /\ count'[m] = count[m]
  BY <1>1, <1>2 DEF ManagedInv, ManagedTypes
<1>4. \A g : \A q \in Clients : Closer(q, g)' <=> Closer(q, g)
  BY <1>1, <1>2, <1>3, Kinds DEF Closer
<1>5. \A g : Listed(g)' <=> Listed(g)
  BY <1>1, <1>2, <1>3 DEF Listed
<1>6. \A g : Unforgotten(g)' => Unforgotten(g)
  BY <1>1, <1>2, <1>3, <1>4 DEF Unforgotten
<1>7. \A g : Listable(g) => Listable(g)'
  BY <1>1, <1>2, <1>3, <1>4 DEF Listable
<1>8. ManagedTypes'
  BY <1>1, <1>2, Kinds DEF ManagedInv, ManagedTypes, FilePoints, FileOps, OpenPoints, LoadPoints, LockPoints
<1>9. ASSUME NEW q \in Clients PROVE CallShape(q)'
  BY <1>1, <1>2, <1>3, <1>5, Kinds, ManagedFacts DEF ManagedInv, ManagedTypes, CallShape, OpenPoints, LoadPoints, LockPoints
<1>10. ASSUME NEW q \in Clients PROVE OpensAlone(q)'
  BY <1>1, <1>2, <1>3, <1>5, Kinds, ManagedFacts DEF ManagedInv, CallShape, OpensAlone, OpenPoints, LoadPoints, LockPoints
<1>11. ASSUME NEW q \in Clients PROVE LockRight(q)'
  <2>1. CASE q = p
    BY <1>1, <1>2, <1>3, <1>6, <2>1 DEF LockRight, Holding
  <2>2. CASE q # p
    <3>1. ASSUME Unforgotten(argF[q]), Holding(q) PROVE my[q] # l
      <4>1. my[q] # None
        BY <3>1, ManagedFacts DEF ManagedInv, CallShape, LockPoints, Holding
      <4>2. CASE argF[q] = f
        BY <1>1, <2>2, <3>1, <4>2, InsideAlone DEF Holding
      <4>3. CASE argF[q] # f
        BY <1>1, <4>1, <4>3 DEF ManagedInv, LocksApart
      <4> QED
        BY <4>2, <4>3
    <3>2. /\ LockRight(q) /\ pcF'[q] = pcF[q] /\ argF'[q] = argF[q] /\ my'[q] = my[q] /\ slot' = slot
          /\ Unforgotten(argF[q])' => Unforgotten(argF[q])
      BY <1>2, <1>3, <1>6, <2>2 DEF ManagedInv
    <3>3. ASSUME Unforgotten(argF[q]), Holding(q) PROVE lockOwner'[my[q]] = q
      <4>1. my[q] \in Locks /\ lockOwner[my[q]] = q
        BY <3>2, <3>3, ManagedFacts DEF ManagedInv, CallShape, LockPoints, Holding, LockRight
      <4> QED
        BY <1>3, <3>1, <3>3, <4>1
    <3> QED
      BY <3>2, <3>3 DEF LockRight, Holding
  <2> QED
    BY <2>1, <2>2
<1>12. ASSUME NEW q \in Clients PROVE WalkRight(q)'
  BY <1>1, <1>2, <1>3, <1>7, Kinds, ManagedFacts DEF ManagedInv, WalkRight, OpenPoints, LoadPoints, LockPoints
<1>13. ASSUME NEW q \in Clients PROVE Calm(q)'
  <2>1. CASE q = p
    BY <1>1, <1>2, <1>3, <2>1, Kinds DEF Calm
  <2>2. CASE q # p
    <3>1. /\ pcF'[q] = pcF[q] /\ op'[q] = op[q] /\ argF'[q] = argF[q] /\ race' = race /\ active' = active
          /\ Calm(q) /\ CallShape(q)
      BY <1>2, <1>3, <2>2 DEF ManagedInv
    <3>2. ASSUME NEW r \in Clients, r # q, argF'[r] = argF'[q], op[q] \in F!Closing
          PROVE  r # p /\ op'[r] = op[r] /\ argF'[r] = argF[r]
      BY <1>3, <3>1, <3>2, ManagedFacts DEF CallShape
    <3> QED
      BY <3>1, <3>2 DEF Calm
  <2> QED
    BY <2>1, <2>2
<1>14. ASSUME NEW g \in Files PROVE KnownRight(g)'
  BY <1>1, <1>2, <1>3, <1>5, Kinds, ManagedFacts DEF ManagedInv, KnownRight, OpenPoints, LoadPoints, LockPoints
<1>15. ASSUME NEW g \in Files PROVE RootRight(g)'
  BY <1>1, <1>2, <1>3, Kinds, ManagedFacts DEF ManagedInv, RootRight
<1>16. ASSUME NEW g \in Files PROVE ClosedOnce(g)'
  BY <1>1, <1>2, <1>3, <1>4, <1>5, <1>7, Kinds, ManagedFacts DEF ManagedInv, ClosedOnce
<1>17. LocksApart'
  BY <1>1, <1>2, <1>3, Kinds, ManagedFacts DEF ManagedInv, LocksApart
<1>18. ASSUME NEW m \in Locks PROVE OwnedRight(m)'
  <2>1. CASE m = l
    BY <1>1, <1>3, <2>1, ManagedFacts DEF OwnedRight
  <2>2. CASE m # l
    <3>1. count'[m] = count[m] /\ lockOwner'[m] = lockOwner[m] /\ slot' = slot /\ OwnedRight(m)
      BY <1>2, <1>3, <2>2 DEF ManagedInv
    <3>2. ASSUME lockOwner[m] = p PROVE my'[p] # m /\ \A g \in Files : slot[g] # m
      <4>1. ASSUME my[p] = m PROVE \A g \in Files : slot[g] # m
        BY <1>1, <2>2, <4>1, ManagedFacts DEF ManagedInv, LocksApart
      <4>2. \A g \in Files : slot[g] # m
        BY <1>1, <3>1, <3>2, <4>1 DEF OwnedRight
      <4> QED
        BY <1>1, <1>2, <1>3, <2>2, <4>2, ManagedFacts
    <3>3. ASSUME NEW q \in Clients, q # p, lockOwner[m] = q
          PROVE  \/ (Holding(q)' \/ pcF'[q] = "crashed") /\ my'[q] = m
                 \/ my'[q] # m /\ \A g \in Files : slot'[g] # m
      BY <1>2, <1>3, <3>1, <3>3 DEF OwnedRight, Holding
    <3> QED
      BY <3>1, <3>2, <3>3 DEF OwnedRight
  <2> QED
    BY <2>1, <2>2
<1>19. ListOnce' /\ (dirty \subseteq active)'
  BY <1>1, <1>2, <1>3 DEF ManagedInv, ListOnce
<1> QED
  BY <1>8, <1>9, <1>10, <1>11, <1>12, <1>13, <1>14, <1>15, <1>16, <1>17, <1>18, <1>19 DEF ManagedInv

LEMMA PublishInv ==
  ASSUME ManagedInv, NEW p \in Clients, F!Publish(p)
  PROVE  ManagedInv'
<1>1. CASE slot[argF[p]] # None
  BY <1>1, PublishLateInv DEF F!Publish, F!lockVars, F!listVars, F!fileVars, F!callVars
<1>2. CASE slot[argF[p]] = None
  <2>1. PICK l \in Locks :
          /\ \A g \in Files : slot[g] # l
          /\ \A q \in Clients : my[q] # l
          /\ lockOwner' = [lockOwner EXCEPT ![l] = None] /\ count' = [count EXCEPT ![l] = 0]
          /\ slot' = [slot EXCEPT ![argF[p]] = l]
          /\ F!Given(p, l)
    BY <1>2 DEF F!Publish
  <2>2. /\ pcF[p] = "publishing"
        /\ UNCHANGED <<race, known, ofl, std, oflMu, active, roots, raw, dirty, child, op, argF, todo, due>>
    BY DEF F!Publish, F!listVars, F!fileVars, F!callVars
  <2> QED
    BY <1>2, <2>1, <2>2, PublishNewInv
<1> QED
  BY <1>1, <1>2

LEMMA ReleaseInv ==
  ASSUME ManagedInv, NEW p \in Clients, F!Release(p)
  PROVE  ManagedInv'
<1>1. /\ pcF[p] \in {"refused", "releasing"}
      /\ UNCHANGED <<race, known, ofl, std, oflMu, active, roots, raw, slot, dirty, child, due>>
  BY DEF F!Release, F!listVars, F!fileVars
<1>2. CASE slot[argF[p]] = None
  BY <1>1, <1>2, ReleaseCrashInv DEF F!Release, F!callVars
<1>3. CASE slot[argF[p]] # None
  <2> DEFINE l == slot[argF[p]]
  <2>1. argF[p] \in Files /\ op[p] \in F!Closing \cup {"use", "flushall"}
    BY <1>1 DEF ManagedInv, CallShape, LockPoints
  <2>2. l \in Locks
    BY <1>3, <2>1 DEF ManagedInv, ManagedTypes
  <2>3. OwnedRight(l) /\ count \in [Locks -> 0 .. 1] /\ lockOwner \in [Locks -> Clients \cup {None}]
    BY <2>2 DEF ManagedInv, ManagedTypes
  <2>4. F!Unlock(argF[p]) /\ F!GoesOn(p)
    BY <1>3 DEF F!Release
  <2>5. lockOwner' = [lockOwner EXCEPT ![l] = None] /\ count' = [count EXCEPT ![l] = 0]
    <3>1. CASE lockOwner[l] = None
      BY <2>2, <2>3, <2>4, <3>1 DEF F!Unlock, OwnedRight
    <3>2. CASE lockOwner[l] # None
      BY <2>2, <2>3, <2>4, <3>2 DEF F!Unlock, OwnedRight
    <3> QED
      BY <3>1, <3>2
  <2>6. CASE op[p] = "flushall"
    <3>1. /\ todo' = [todo EXCEPT ![p] = Tail(@)] /\ argF' = [argF EXCEPT ![p] = None]
          /\ my' = [my EXCEPT ![p] = None] /\ op' = op /\ F!Goto(p, "walking")
      BY <2>4, <2>6, Kinds DEF F!GoesOn
    <3> QED
      BY <1>1, <1>3, <2>5, <2>6, <3>1, ReleaseWalkInv
  <2>7. CASE op[p] \in F!Closing /\ pcF[p] = "releasing"
    <3>1. todo' = todo /\ argF' = argF /\ op' = op /\ my' = my /\ F!Goto(p, "unlinking")
      BY <2>4, <2>7, Kinds DEF F!GoesOn
    <3> QED
      BY <1>1, <1>3, <2>5, <2>7, <3>1, ReleaseCloseInv
  <2>8. CASE op[p] # "flushall" /\ ~(op[p] \in F!Closing /\ pcF[p] = "releasing")
    <3>1. todo' = todo /\ F!Done(p)
      BY <2>4, <2>8 DEF F!GoesOn
    <3> QED
      BY <1>1, <1>3, <2>5, <2>8, <3>1, ReleaseDoneInv
  <2> QED
    BY <2>6, <2>7, <2>8
<1> QED
  BY <1>2, <1>3

LEMMA StdCallInv ==
  ASSUME ManagedInv, NEW p \in Clients, NEW o \in {"use", "close"}, F!StdCall(p, o)
  PROVE  ManagedInv'
<1>1. PICK f \in Files :
        /\ race \/ F!Unraced(p, f, o)
        /\ F!StdFile(f)
        /\ op' = [op EXCEPT ![p] = o] /\ argF' = [argF EXCEPT ![p] = f]
  BY DEF F!StdCall
<1>2. /\ pcF[p] = "idle" /\ F!Goto(p, "loading")
      /\ UNCHANGED <<race, ofl, oflMu, dirty, child, slot, lockOwner, count, my, todo, due>>
  BY DEF F!StdCall, F!lockVars
<1>3. CASE std # None
  BY <1>1, <1>2, <1>3, StdAgainInv DEF F!StdFile
<1>4. CASE std = None
  BY <1>1, <1>2, <1>4, StdNewInv DEF F!StdFile
<1> QED
  BY <1>3, <1>4

LEMMA ManagedInit == F!Init => ManagedInv
<1> SUFFICES ASSUME F!Init PROVE ManagedInv
  OBVIOUS
<1>1. <<>> \in Seq(Files) /\ Len(<<>>) = 0
  BY EmptySeq
<1>2. ManagedTypes
  <2>1. todo \in [Clients -> Seq(Files)] /\ ofl \in Seq(Files)
    BY <1>1 DEF F!Init
  <2> QED
    BY <2>1 DEF F!Init, ManagedTypes, FilePoints, FileOps
<1>3. LocksApart /\ ListOnce /\ dirty \subseteq active
  BY <1>1 DEF F!Init, LocksApart, ListOnce
<1>4. ASSUME NEW p \in Clients
      PROVE  CallShape(p) /\ OpensAlone(p) /\ LockRight(p) /\ WalkRight(p) /\ Calm(p)
  BY <1>1, Kinds, ManagedFacts DEF F!Init, CallShape, OpensAlone, LockRight, WalkRight, Calm, Holding,
     OpenPoints, LoadPoints, LockPoints
<1>5. ASSUME NEW f \in Files PROVE KnownRight(f) /\ RootRight(f) /\ ClosedOnce(f)
  BY <1>1, Kinds, ManagedFacts DEF F!Init, KnownRight, RootRight, ClosedOnce, Listed, Listable, Closer
<1>6. ASSUME NEW l \in Locks PROVE OwnedRight(l)
  BY ManagedFacts DEF F!Init, OwnedRight
<1> QED
  BY <1>2, <1>3, <1>4, <1>5, <1>6 DEF ManagedInv

LEMMA ManagedKept ==
  ASSUME ManagedInv, UNCHANGED fileVars
  PROVE  ManagedInv'
<1> USE DEF fileVars
<1>1. ManagedTypes' /\ LocksApart' /\ ListOnce' /\ (dirty \subseteq active)'
  BY DEF ManagedInv, ManagedTypes, LocksApart, ListOnce
<1>2. \A g : (\A q \in Clients : Closer(q, g)' <=> Closer(q, g)) /\ (Listed(g)' <=> Listed(g))
  BY DEF Closer, Listed
<1>3. \A g : (Listable(g)' <=> Listable(g)) /\ (Unforgotten(g)' <=> Unforgotten(g))
  BY <1>2 DEF Listable, Unforgotten
<1>4. ASSUME NEW p \in Clients PROVE CallShape(p)' /\ OpensAlone(p)' /\ WalkRight(p)' /\ Calm(p)'
  BY <1>2, <1>3 DEF ManagedInv, CallShape, OpensAlone, WalkRight, Calm
<1>5. ASSUME NEW p \in Clients PROVE LockRight(p)'
  BY <1>3 DEF ManagedInv, LockRight, Holding
<1>6. ASSUME NEW f \in Files PROVE KnownRight(f)' /\ RootRight(f)' /\ ClosedOnce(f)'
  BY <1>2, <1>3 DEF ManagedInv, KnownRight, RootRight, ClosedOnce
<1>7. ASSUME NEW l \in Locks PROVE OwnedRight(l)'
  BY DEF ManagedInv, OwnedRight, Holding
<1> QED
  BY <1>1, <1>4, <1>5, <1>6, <1>7 DEF ManagedInv

LEMMA ManagedNext == ManagedInv /\ F!Next => ManagedInv'
<1> SUFFICES ASSUME ManagedInv, F!Next PROVE ManagedInv'
  OBVIOUS
<1>1. ASSUME NEW p \in Clients, F!Step(p) PROVE ManagedInv'
  BY <1>1, PrepareInv, RawOpenInv, OpenFailsInv, OflAddInv, LoadInv, PublishInv, ReloadInv, LockInv,
     ReleaseInv, UseInv, FlushInv, CloseRawInv, RetireInv, OflRemoveInv, ForgetLockInv, VisitInv,
     FlushAllReturnsInv DEF F!Step
<1> QED
  BY <1>1, FlushAllInv, StdCallInv, AllocateInv, EnterInv, CollectInv DEF F!Next

LEMMA ManagedStep == ManagedInv /\ [MCNext]_allVars => ManagedInv'
<1> SUFFICES ASSUME ManagedInv, [MCNext]_allVars PROVE ManagedInv'
  OBVIOUS
<1>1. CASE F!Next
  BY <1>1, ManagedNext
<1>2. CASE UNCHANGED fileVars
  BY <1>2, ManagedKept
<1> QED
  BY <1>1, <1>2 DEF MCNext, allVars

LEMMA ManagedMeaning == ManagedInv => F!ManagedSafe
<1> SUFFICES ASSUME ManagedInv PROVE F!ManagedSafe
  OBVIOUS
<1>1. F!TypeOK
  <2>1. F!ToSet(ofl) \subseteq Files /\ F!IsInjective(ofl)
    BY OflFacts DEF ManagedInv, ListOnce, F!ToSet, F!IsInjective
  <2> QED
    BY <2>1 DEF ManagedInv, ManagedTypes, F!TypeOK
<1>2. F!EngineExclusive
  <2>1. ASSUME NEW f \in Files, NEW p \in F!Inside(f)
        PROVE  p \in Clients /\ argF[p] = f /\ Holding(p) /\ Unforgotten(f) /\ (f \in active \/ pcF[p] = "retiring")
    <3>1. p \in Clients /\ argF[p] = f /\ pcF[p] \in {"acquired", "retiring"}
      BY <2>1 DEF F!Inside
    <3> QED
      BY <3>1 DEF ManagedInv, ClosedOnce, CallShape, Holding, Unforgotten, Closer
  <2>2. ASSUME NEW f \in Files, NEW p \in F!Inside(f), NEW q \in F!Inside(f) PROVE p = q
    BY <2>1, InsideAlone
  <2> QED
    BY <2>1, <2>2 DEF F!EngineExclusive
<1>3. F!EngineRooted
  <2>1. \A p \in Clients : pcF[p] = "retiring" => argF[p] \in F!BeingClosed
    BY DEF F!BeingClosed, ManagedInv, CallShape
  <2>2. \A f \in Files : raw[f] \subseteq roots[f] /\ (raw[f] # {} => f \in active \cup F!BeingClosed)
    BY <2>1 DEF ManagedInv, RootRight
  <2>3. \A f \in active : "buffer" \in raw[f] /\ (child[f] = "running" => "object" \in roots[f])
    BY DEF ManagedInv, ManagedTypes, RootRight
  <2> QED
    BY <2>2, <2>3 DEF F!EngineRooted
<1>4. F!Reached
  <2>1. \A f \in Files : Listed(f) <=> f \in F!ToSet(ofl) \cup {std}
    BY OflFacts DEF ManagedInv, F!ToSet, Listed
  <2>2. \A f : Listable(f) => f \in active \cup F!BeingClosed
    BY DEF Listable, Closer, F!BeingClosed
  <2>3. F!ToSet(ofl) \cup ({std} \ {None}) \subseteq Files
    BY OflFacts DEF ManagedInv, ManagedTypes, F!ToSet
  <2> QED
    BY <2>1, <2>2, <2>3 DEF F!Reached, ManagedInv, ManagedTypes, ClosedOnce
<1>5. F!NoFalseRefusal
  <2>1. ASSUME ~race, NEW p \in Clients, pcF[p] \in {"acquired", "retiring", "refused", "releasing"}
        PROVE  slot[argF[p]] = my[p]
    BY <2>1, CalmUnforgotten, ManagedFacts DEF ManagedInv, CallShape, LockRight, LockPoints
  <2>2. ASSUME ~race, NEW p \in Clients, pcF[p] = "refused" PROVE op[p] = "flushall"
    BY <2>2, Kinds DEF ManagedInv, CallShape, Calm, ClosedOnce, LockPoints
  <2> QED
    BY <2>1, <2>2 DEF F!NoFalseRefusal, F!KeepsItsLock, ManagedInv, Calm
<1>6. F!FlushAllFlushes
  BY TodoFacts DEF F!FlushAllFlushes, ManagedInv, ManagedTypes, WalkRight
<1>7. F!NobodyStuck
  <2> SUFFICES ASSUME ~race, NEW p \in Clients, pcF[p] # "idle"
               PROVE  \E q \in Clients : pcF[q] # "idle" /\ ~F!Blocked(q)
    BY DEF F!NobodyStuck
  \* Who waits for a FILE's lock waits for somebody who does not wait.
  <2>1. ASSUME NEW q \in Clients, pcF[q] = "locking", F!Blocked(q)
        PROVE  \E r \in Clients : pcF[r] # "idle" /\ ~F!Blocked(r)
    <3>1. my[q] \in Locks /\ lockOwner[my[q]] # None /\ argF[q] \in Files /\ my[q] = slot[argF[q]]
      BY <2>1, CalmUnforgotten, ManagedFacts DEF F!Blocked, ManagedInv, CallShape, LockRight, LockPoints
    <3>2. PICK r \in Clients : lockOwner[my[q]] = r
      BY <3>1 DEF ManagedInv, ManagedTypes
    <3>3. Holding(r)
      BY <3>1, <3>2 DEF ManagedInv, OwnedRight, Calm
    <3> QED
      BY <3>3 DEF Holding, F!Blocked
  <2>2. CASE ~F!Blocked(p)
    BY <2>2
  <2>3. CASE F!Blocked(p) /\ pcF[p] # "locking"
    <3>1. PICK q \in Clients : oflMu = q
      BY <2>3, ManagedFacts DEF F!Blocked, ManagedInv, ManagedTypes
    <3>2. op[q] = "flushall" /\ pcF[q] # "idle" /\ pcF[q] \notin {"adding", "unlinking"}
      BY <3>1, Kinds DEF ManagedInv, CallShape, OpenPoints
    <3>3. CASE pcF[q] = "locking"
      BY <2>1, <3>2, <3>3
    <3>4. CASE pcF[q] # "locking"
      BY <3>2, <3>4 DEF F!Blocked
    <3> QED
      BY <3>3, <3>4
  <2> QED
    BY <2>1, <2>2, <2>3
<1> QED
  BY <1>1, <1>2, <1>3, <1>4, <1>5, <1>6, <1>7 DEF F!ManagedSafe

-----------------------------------------------------------------------------
(* The theorems. *)

\* pthread.go, mlib/pthread.go, sem.go, mlib/sem.go, csrc/mlib/stdio.c: first
\* users of a C object agree on one engine and no consumer is left asleep beside
\* an item; one goroutine works on a FILE's raw engine, what it points to stays
\* rooted, exit and fflush(NULL) find every open stream, and somebody can always
\* go on: for any number of goroutines, engines, FILEs and locks.
THEOREM CarriersCorrect == MCSpec => []CarriersSafe
<1>1. MCInit => CarrierInv /\ ManagedInv
  BY CarrierInit, ManagedInit DEF MCInit
<1>2. CarrierInv /\ ManagedInv /\ [MCNext]_allVars => CarrierInv' /\ ManagedInv'
  BY CarrierStep, ManagedStep
<1>3. CarrierInv /\ ManagedInv => CarriersSafe
  BY CarrierMeaning, ManagedMeaning DEF CarriersSafe
<1> QED
  BY <1>1, <1>2, <1>3, PTL DEF MCSpec

\* csrc/mlib/stdio.c: the same of the managed FILE by itself, also where clients
\* use several FILEs of every kind while others close them, which the instance
\* leaves out.
THEOREM ManagedFilesCorrect == F!Spec => []F!ManagedSafe
<1>1. ManagedInv /\ [F!Next]_(F!vars) => ManagedInv'
  BY ManagedNext, ManagedKept DEF F!vars, fileVars
<1> QED
  BY <1>1, ManagedInit, ManagedMeaning, PTL DEF F!Spec

=============================================================================
