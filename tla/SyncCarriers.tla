---------------------------- MODULE SyncCarriers ----------------------------
(***************************************************************************)
(* The entry points of the synchronisation objects, over both carriers:    *)
(* the root package keeps the id of a handle in the C object (pthread.go,  *)
(* sem.go), mlib a pointer (mlib/pthread.go, mlib/sem.go).  A zero word is *)
(* an object nobody has used; the first user makes its engine, and unlock, *)
(* signal and the semaphore calls only look.  The engines (Pthread, RWLock *)
(* and Semaphore) are one step per call here.  Clients are producers and   *)
(* consumers of one item: a lock, of any class, and for a mutex a          *)
(* condition variable.                                                     *)
(***************************************************************************)
EXTENDS Naturals, Sequences, FiniteSets, SequencesExt

CONSTANTS
  Procs,    \* goroutines
  Engines,  \* the objects of posixsync
  None

SyncCarriersConstants == IsFiniteSet(Procs) /\ IsFiniteSet(Engines) /\ None \notin Procs \cup Engines

VARIABLES
  managed,   \* whether the carriers are mlib's
  class,     \* "mutex", "rwlock" or "sem", of the lock
  lock, cond,  \* the words of the two C objects
  owner,     \* owner[e]: who has locked engine e
  queue,     \* queue[e]: who waits on condition engine e
  item,      \* the clients' condition
  pc,        \* where each goroutine is
  role,      \* what it came for
  eng,       \* the lock's engine it was given
  cv,        \* and the condition's
  tell       \* whether it has still to announce its item

vars == <<managed, class, lock, cond, owner, queue, item, pc, role, eng, cv, tell>>
clientVars == <<item, role, tell>>

Goto(p, l) == pc' = [pc EXCEPT ![p] = l]

\* A new engine: one nothing refers to, while Engines has one.
IsNew(e) == e \notin {lock, cond} /\ \A p \in Procs : e \notin {eng[p], cv[p]}
AtHand == \E e \in Engines : IsNew(e)
New == CHOOSE e \in Engines : IsNew(e)

-----------------------------------------------------------------------------
\* pthread_mutex_init of a normal mutex, and of an rwlock, stores zero; of
\* another mutex, and sem_init, an engine.  Nobody uses the object yet.
AllOut == \A p \in Procs : pc[p] = "out"

InitLock(eager) ==
  /\ AllOut /\ AtHand
  /\ class = "rwlock" => ~eager
  /\ class = "sem" => eager
  /\ lock' = IF eager THEN New ELSE None
  /\ owner' = IF eager THEN [owner EXCEPT ![New] = None] ELSE owner
  /\ UNCHANGED <<managed, class, cond, queue, pc, eng, cv, clientVars>>

DestroyLock ==
  /\ AllOut /\ lock' = None
  /\ UNCHANGED <<managed, class, cond, owner, queue, pc, eng, cv, clientVars>>

InitOrDestroyCond ==
  /\ AllOut /\ cond' = None
  /\ UNCHANGED <<managed, class, lock, owner, queue, pc, eng, cv, clientVars>>

-----------------------------------------------------------------------------
\* loadOrInit... of mlib and lazyInit of the root look at the word, and go on
\* at "slow" when it is zero.
Look(p, word, then, slow) ==
  IF word # None THEN Goto(p, then) ELSE Goto(p, slow)

\* Faulty variant, for mutation: a store instead of a compare-and-swap.
Publishes_Store(word) == managed \/ word = None

\* Somebody else may have been first: the root looks again under the table's
\* lock, mlib compares and swaps.
Publishes(word) == word = None

\* Lock, and sem_wait, which does not make an engine.
LockStart(p, r) ==
  /\ pc[p] = "out"
  /\ class = "sem" => lock # None
  /\ r = "consume" => class = "mutex"
  /\ role' = [role EXCEPT ![p] = r]
  /\ eng' = [eng EXCEPT ![p] = lock]
  /\ Look(p, lock, "locking", "lock-slow")
  /\ UNCHANGED <<managed, class, lock, cond, owner, queue, item, cv, tell>>

LockSlow(p) ==
  /\ pc[p] = "lock-slow" /\ AtHand
  /\ IF Publishes(lock)
     THEN /\ lock' = New /\ eng' = [eng EXCEPT ![p] = New]
          /\ owner' = [owner EXCEPT ![New] = None]
          /\ Goto(p, "locking")
     ELSE IF managed
          THEN Goto(p, "lock-reload") /\ UNCHANGED <<lock, eng, owner>>
          ELSE eng' = [eng EXCEPT ![p] = lock] /\ Goto(p, "locking") /\ UNCHANGED <<lock, owner>>
  /\ UNCHANGED <<managed, class, cond, queue, cv, clientVars>>

LockReload(p) ==
  /\ pc[p] = "lock-reload"
  /\ eng' = [eng EXCEPT ![p] = lock]
  /\ Goto(p, "locking")
  /\ UNCHANGED <<managed, class, lock, cond, owner, queue, cv, clientVars>>

EngineLock(p) ==
  /\ pc[p] = "locking" /\ owner[eng[p]] = None
  /\ owner' = [owner EXCEPT ![eng[p]] = p]
  /\ cv' = [cv EXCEPT ![p] = None]
  /\ Goto(p, "in")
  /\ UNCHANGED <<managed, class, lock, cond, queue, eng, clientVars>>

\* Unlock, and sem_post: the word is read again, and never made.
UnlockLook(p) ==
  /\ pc[p] = "leaving"
  /\ eng' = [eng EXCEPT ![p] = lock]
  /\ Goto(p, IF lock = None THEN "refused" ELSE "unlocking")
  /\ UNCHANGED <<managed, class, lock, cond, owner, queue, cv, clientVars>>

EngineUnlock(p) ==
  /\ pc[p] = "unlocking"
  /\ owner' = IF owner[eng[p]] = p THEN [owner EXCEPT ![eng[p]] = None] ELSE owner
  /\ eng' = [eng EXCEPT ![p] = None]
  /\ role' = [role EXCEPT ![p] = "none"]
  /\ Goto(p, IF tell[p] THEN "telling" ELSE "out")
  /\ UNCHANGED <<managed, class, lock, cond, queue, cv, item, tell>>

-----------------------------------------------------------------------------
\* The client in its critical section: a producer makes the item and announces
\* it before or after it unlocks; a consumer takes it or waits for it.
Produce(p) ==
  /\ pc[p] = "in" /\ role[p] = "produce"
  /\ item' = TRUE
  /\ tell' = [tell EXCEPT ![p] = class = "mutex"]
  /\ \/ class = "mutex" /\ Goto(p, "telling")
     \/ Goto(p, "leaving")
  /\ UNCHANGED <<managed, class, lock, cond, owner, queue, role, eng, cv>>

Consume(p) ==
  /\ pc[p] = "in" /\ role[p] = "consume" /\ item
  /\ item' = FALSE
  /\ Goto(p, "leaving")
  /\ UNCHANGED <<managed, class, lock, cond, owner, queue, role, eng, cv, tell>>

\* condWait: the condition's engine, made where there is none, the mutex's, and
\* Wait, which queues the caller before it unlocks.
WaitStart(p) ==
  /\ pc[p] = "in" /\ role[p] = "consume" /\ ~item
  /\ cv' = [cv EXCEPT ![p] = cond]
  /\ Look(p, cond, "queueing", "wait-slow")
  /\ UNCHANGED <<managed, class, lock, cond, owner, queue, eng, clientVars>>

WaitSlow(p) ==
  /\ pc[p] = "wait-slow" /\ AtHand
  /\ IF Publishes(cond)
     THEN /\ cond' = New /\ cv' = [cv EXCEPT ![p] = New]
          /\ queue' = [queue EXCEPT ![New] = <<>>]
          /\ Goto(p, "queueing")
     ELSE IF managed
          THEN Goto(p, "wait-reload") /\ UNCHANGED <<cond, cv, queue>>
          ELSE cv' = [cv EXCEPT ![p] = cond] /\ Goto(p, "queueing") /\ UNCHANGED <<cond, queue>>
  /\ UNCHANGED <<managed, class, lock, owner, eng, clientVars>>

WaitReload(p) ==
  /\ pc[p] = "wait-reload"
  /\ cv' = [cv EXCEPT ![p] = cond]
  /\ Goto(p, "queueing")
  /\ UNCHANGED <<managed, class, lock, cond, owner, queue, eng, clientVars>>

Queue(p) ==
  /\ pc[p] = "queueing"
  /\ eng' = [eng EXCEPT ![p] = lock]
  /\ IF lock = None
     THEN Goto(p, "refused") /\ UNCHANGED queue
     ELSE queue' = [queue EXCEPT ![cv[p]] = Append(@, p)] /\ Goto(p, "dropping")
  /\ UNCHANGED <<managed, class, lock, cond, owner, cv, clientVars>>

\* A waiter that was chosen meanwhile goes straight on to lock again.
Drop(p) ==
  /\ pc[p] = "dropping"
  /\ owner' = [owner EXCEPT ![eng[p]] = None]
  /\ Goto(p, IF p \in ToSet(queue[cv[p]]) THEN "asleep" ELSE "locking")
  /\ UNCHANGED <<managed, class, lock, cond, queue, eng, cv, clientVars>>

\* Signal takes the first waiter, Broadcast all; neither makes an engine.
Wakes(p, S) ==
  pc' = [q \in Procs |-> CASE q = p -> IF eng[p] = None THEN "out" ELSE "leaving"
                           [] q \in S /\ pc[q] = "asleep" -> "locking"
                           [] OTHER -> pc[q]]

TellLook(p) ==
  /\ pc[p] = "telling"
  /\ cv' = [cv EXCEPT ![p] = cond]
  /\ IF cond = None
     THEN tell' = [tell EXCEPT ![p] = FALSE] /\ Wakes(p, {})
     ELSE tell' = tell /\ Goto(p, "waking")
  /\ UNCHANGED <<managed, class, lock, cond, owner, queue, item, role, eng>>

Wake(p) ==
  LET waiters == queue[cv[p]] IN
  /\ pc[p] = "waking"
  /\ \E n \in {Len(waiters), IF waiters = <<>> THEN 0 ELSE 1} :
       /\ Wakes(p, ToSet(SubSeq(waiters, 1, n)))
       /\ queue' = [queue EXCEPT ![cv[p]] = SubSeq(waiters, n + 1, Len(waiters))]
  /\ tell' = [tell EXCEPT ![p] = FALSE]
  /\ cv' = [cv EXCEPT ![p] = None]
  /\ UNCHANGED <<managed, class, lock, cond, owner, item, role, eng>>

-----------------------------------------------------------------------------
Init ==
  /\ managed \in BOOLEAN /\ class \in {"mutex", "rwlock", "sem"}
  /\ lock = None /\ cond = None
  /\ owner = [e \in Engines |-> None] /\ queue = [e \in Engines |-> <<>>]
  /\ item = FALSE
  /\ pc = [p \in Procs |-> "out"] /\ role = [p \in Procs |-> "none"]
  /\ eng = [p \in Procs |-> None] /\ cv = eng /\ tell = [p \in Procs |-> FALSE]

Next ==
  \/ \E eager \in BOOLEAN : InitLock(eager)
  \/ DestroyLock \/ InitOrDestroyCond
  \/ \E p \in Procs :
       \/ \E r \in {"produce", "consume"} : LockStart(p, r)
       \/ LockSlow(p) \/ LockReload(p) \/ EngineLock(p) \/ UnlockLook(p) \/ EngineUnlock(p)
       \/ Produce(p) \/ Consume(p)
       \/ WaitStart(p) \/ WaitSlow(p) \/ WaitReload(p) \/ Queue(p) \/ Drop(p)
       \/ TellLook(p) \/ Wake(p)

Spec == Init /\ [][Next]_vars

-----------------------------------------------------------------------------
Locked == {"in", "leaving", "unlocking", "wait-slow", "wait-reload", "queueing", "dropping"}
Inside(p) == pc[p] \in Locked \/ (pc[p] \in {"telling", "waking"} /\ eng[p] # None)

TypeOK ==
  /\ {lock, cond} \subseteq Engines \cup {None}
  /\ owner \in [Engines -> Procs \cup {None}]
  /\ \A e \in Engines : IsInjective(queue[e]) /\ ToSet(queue[e]) \subseteq Procs

\* One goroutine at a time is inside, and it is the owner of the engine the
\* object denotes now: first users agree on one engine, and unlock finds the
\* one that lock used.
OneInside ==
  /\ \A p, q \in Procs : Inside(p) /\ Inside(q) => p = q
  /\ \A p \in Procs : Inside(p) => lock # None /\ owner[lock] = p
  /\ \A p \in Procs : pc[p] # "refused"

\* A consumer that sleeps while there is an item: the announcement is still to
\* come, or another consumer is on its way to the item.
NoneLeftAsleep ==
  item /\ (\E p \in Procs : pc[p] = "asleep") =>
    \E q \in Procs :
      \/ tell[q]
      \/ role[q] = "consume" /\ pc[q] \in {"locking", "in"}

CarriersSafe == TypeOK /\ OneInside /\ NoneLeftAsleep
=============================================================================
