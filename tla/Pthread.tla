------------------------------ MODULE Pthread ------------------------------
(***************************************************************************)
(* internal/posixsync/pthread.go: mutexes and condition variables; and     *)
(* thread.go's pthread_once, which shares no state with them.              *)
(*                                                                         *)
(* The three pthread mutex kinds are built over one Go sync.Mutex          *)
(* ("held").  Ownership is a separate word, written after the sync.Mutex   *)
(* is taken and cleared before it is released, so other goroutines see the *)
(* states in between.                                                      *)
(*                                                                         *)
(* The waiter of a condition variable queues a fresh one-token channel     *)
(* under the condition's own lock (c.mu), gives its mutex up whole,        *)
(* whatever its recursion depth, sleeps, and takes it back at that depth.  *)
(* A step that holds c.mu from beginning to end and cannot block is one    *)
(* action; cmu records the one case in which a goroutine blocks while      *)
(* holding it.                                                             *)
(***************************************************************************)
EXTENDS Integers, Sequences, FiniteSets, SequencesExt

CONSTANTS
  Procs,     \* goroutines
  MaxDepth,  \* bound on the nesting of a recursive mutex
  NoOwner    \* the goid 0 that owner holds when nobody owns the mutex

ASSUME MutexAssumption ==
  /\ NoOwner \notin Procs
  /\ MaxDepth \in Nat \ {0}

Kinds == {"normal", "recursive", "errorcheck"}

VARIABLES
  kind,    \* Mutex.kind, fixed by NewMutex
  held,    \* the sync.Mutex is locked
  owner,   \* Mutex.owner
  count,   \* Mutex.count
  pc,      \* where each goroutine is in its call
  result,  \* what its last call returned
  depth    \* ghost: locks each goroutine obtained and has not given back

mutexVars == <<kind, held, owner, count, pc, result, depth>>

\* Goroutines parked in sync.Mutex.Lock.
Parked == {"acquiring", "reacquiring"}

Goto(p, l) == pc' = [pc EXCEPT ![p] = l]
Return(p, r) == Goto(p, "idle") /\ result' = [result EXCEPT ![p] = r]

Deepen(p) == depth' = [depth EXCEPT ![p] = @ + 1]

\* Ownership is tracked for every kind but NORMAL.
Tracked == kind # "normal"
Owns(p) == Tracked /\ owner = p

-----------------------------------------------------------------------------

\* Lock, by a goroutine that does not own a tracked mutex.  Relocking a NORMAL
\* mutex one holds is a self-deadlock that POSIX leaves to the caller.
LockCall(p) ==
  /\ pc[p] = "idle"
  /\ ~Owns(p)
  /\ ~Tracked => depth[p] = 0
  /\ Goto(p, "acquiring")
  /\ UNCHANGED <<kind, held, owner, count, result, depth>>

\* Lock or TryLock, by the owner of a recursive mutex.
Relock(p) ==
  /\ pc[p] = "idle"
  /\ Owns(p)
  /\ kind = "recursive"
  /\ depth[p] < MaxDepth
  /\ count' = count + 1
  /\ Deepen(p)
  /\ Return(p, "ok")
  /\ UNCHANGED <<kind, held, owner>>

\* Lock (EDEADLK) and TryLock (EBUSY), by the owner of an errorcheck mutex.
RelockRefused(p) ==
  /\ pc[p] = "idle"
  /\ Owns(p)
  /\ kind = "errorcheck"
  /\ \E r \in {"deadlock", "busy"} : Return(p, r)
  /\ UNCHANGED <<kind, held, owner, count, depth>>

\* sync.Mutex taken by p: a NORMAL lock is complete, the others stamp first.
Taken(p) ==
  /\ ~held
  /\ held' = TRUE
  /\ IF Tracked
     THEN Goto(p, "stamping") /\ UNCHANGED <<result, depth>>
     ELSE Return(p, "ok") /\ Deepen(p)
  /\ UNCHANGED <<kind, owner, count>>

Acquire(p) == pc[p] = "acquiring" /\ Taken(p)

\* Faulty variant, for mutation: the recursion count is not restarted.
Stamp_KeepsCount(p) ==
  /\ pc[p] = "stamping"
  /\ owner' = p
  /\ count' = count + 1
  /\ Deepen(p)
  /\ Return(p, "ok")
  /\ UNCHANGED <<kind, held>>

\* owner.Store(self); count = 1.
Stamp(p) ==
  /\ pc[p] = "stamping"
  /\ owner' = p
  /\ count' = 1
  /\ Deepen(p)
  /\ Return(p, "ok")
  /\ UNCHANGED <<kind, held>>

\* sync.Mutex.TryLock fails when the mutex is locked, and may fail while a
\* parked goroutine competes for it.
TryLockFails(p) ==
  \/ held
  \/ \E q \in Procs \ {p} : pc[q] \in Parked

TryLock(p) ==
  /\ pc[p] = "idle"
  /\ ~Owns(p)
  /\ \/ Taken(p)
     \/ /\ TryLockFails(p)
        /\ Return(p, "busy")
        /\ UNCHANGED <<kind, held, owner, count, depth>>

\* TimedLock whose first TryLock says EBUSY (to the owner of an errorcheck
\* mutex too): from here on it polls.
TimedLockCall(p) ==
  /\ pc[p] = "idle"
  /\ IF Owns(p) THEN kind = "errorcheck" ELSE TryLockFails(p)
  /\ Goto(p, "polling")
  /\ UNCHANGED <<kind, held, owner, count, result, depth>>

PollTakes(p) ==
  /\ pc[p] = "polling"
  /\ ~Owns(p)
  /\ Taken(p)

PollTimesOut(p) ==
  /\ pc[p] = "polling"
  /\ Return(p, "timedout")
  /\ UNCHANGED <<kind, held, owner, count, depth>>

\* Faulty variants, for mutation: no check of the owner, and one lock of the
\* recursion too many.
Unlock_AnyOwner(p) ==
  /\ pc[p] = "idle"
  /\ Tracked => owner # NoOwner
  /\ ~Tracked => depth[p] > 0
  /\ owner' = NoOwner
  /\ Goto(p, "releasing")
  /\ depth' = [depth EXCEPT ![p] = IF @ > 0 THEN @ - 1 ELSE 0]
  /\ UNCHANGED <<kind, held, count, result>>

Unlock_OffByOne(p) ==
  /\ pc[p] = "idle"
  /\ Tracked => owner = p
  /\ ~Tracked => depth[p] > 0
  /\ count' = IF kind = "recursive" THEN count - 1 ELSE count
  /\ depth' = [depth EXCEPT ![p] = @ - 1]
  /\ IF kind = "recursive" /\ count >= 1
     THEN Return(p, "ok") /\ UNCHANGED owner
     ELSE owner' = NoOwner /\ Goto(p, "releasing") /\ UNCHANGED result
  /\ UNCHANGED <<kind, held>>

\* Unlock up to the release of the sync.Mutex.  Unlocking a NORMAL mutex that
\* one does not hold is left to the caller, as in POSIX.
Unlock(p) ==
  /\ pc[p] = "idle"
  /\ ~Tracked => depth[p] > 0
  /\ IF Tracked /\ owner # p
     THEN Return(p, "permission") /\ UNCHANGED <<owner, count, depth>>
     ELSE /\ count' = IF kind = "recursive" THEN count - 1 ELSE count
          /\ depth' = [depth EXCEPT ![p] = @ - 1]
          /\ IF kind = "recursive" /\ count > 1
             THEN Return(p, "ok") /\ UNCHANGED owner
             ELSE /\ owner' = IF Tracked THEN NoOwner ELSE owner
                  /\ Goto(p, "releasing")
                  /\ UNCHANGED result
  /\ UNCHANGED <<kind, held>>

Release(p) ==
  /\ pc[p] = "releasing"
  /\ held' = FALSE
  /\ Return(p, "ok")
  /\ UNCHANGED <<kind, owner, count, depth>>

-----------------------------------------------------------------------------

MutexInit ==
  /\ kind \in Kinds
  /\ held = FALSE
  /\ owner = NoOwner
  /\ count = 0
  /\ pc = [p \in Procs |-> "idle"]
  /\ result = [p \in Procs |-> "none"]
  /\ depth = [p \in Procs |-> 0]

MutexOp(p) ==
  \/ LockCall(p) \/ Relock(p) \/ RelockRefused(p) \/ Acquire(p) \/ Stamp(p)
  \/ TryLock(p) \/ TimedLockCall(p) \/ PollTakes(p) \/ PollTimesOut(p)
  \/ Unlock(p) \/ Release(p)

MutexNext == \E p \in Procs : MutexOp(p)

MutexSpec == MutexInit /\ [][MutexNext]_mutexVars

-----------------------------------------------------------------------------

Pcs == {"idle", "acquiring", "stamping", "polling", "releasing"}
Results == {"none", "ok", "busy", "permission", "deadlock", "timedout"}

\* Type invariant.
MutexTypeOK ==
  /\ kind \in Kinds
  /\ held \in BOOLEAN
  /\ owner \in Procs \cup {NoOwner}
  /\ count \in 0..MaxDepth
  /\ pc \in [Procs -> Pcs]
  /\ result \in [Procs -> Results]
  /\ depth \in [Procs -> 0..MaxDepth]

\* The goroutines whose lock is not free for others: the ones inside the
\* mutex, and the ones between taking the sync.Mutex and stamping it, or
\* between clearing the owner and releasing it.
Inside == {p \in Procs : depth[p] > 0 \/ pc[p] \in {"stamping", "releasing"}}

\* Mutual exclusion across all three kinds, TryLock, TimedLock and the
\* windows around the owner word: at most one goroutine is inside, and only
\* while the sync.Mutex is locked.  Since a goroutine that is releasing is
\* inside, sync.Mutex.Unlock never meets an unlocked mutex (a fatal error).
MutualExclusion ==
  /\ \A p, q \in Inside : p = q
  /\ Inside # {} => held

\* The recursion count is the number of locks the owner has to give back, and
\* the owner word names a goroutine exactly while it is inside: an owner check
\* that ran against a stale word would release, or refuse, the wrong lock.
OwnerExact ==
  Tracked =>
    \A p \in Procs :
      /\ owner = p <=> depth[p] > 0
      /\ owner = p => count = (IF kind = "recursive" THEN depth[p] ELSE 1)

\* A mutex of any kind keeps the others out, and only its owner, at its last
\* level, lets them in (posixsync/pthread.go:56-134).
MutexSafe == MutualExclusion /\ OwnerExact

\* Every blocking Lock returns, although TryLock and TimedLock callers may
\* overtake it, if holders give the mutex back.
LockReturns == \A p \in Procs : pc[p] = "acquiring" ~> depth[p] > 0

-----------------------------------------------------------------------------
(* Condition variables                                                     *)

VARIABLES
  waiters,   \* Cond.waiters
  token,     \* token[p]: the channel p queued holds a token
  cmu,       \* who is blocked while holding c.mu
  sending,   \* sending[p]: the waiters Broadcast has still to send to
  saved,     \* savedCount of each Wait
  timedOut,  \* the result each Wait will return
  chosen,    \* ghost: waiters that a signal or broadcast took off the queue
  entered    \* ghost: the depth at which each goroutine entered Wait

condVars == <<waiters, token, cmu, sending, saved, timedOut, chosen, entered>>
vars == <<mutexVars, condVars>>

Waiting == ToSet(waiters)
Sleeping == {"asleep", "napping"}   \* without and with a deadline

-----------------------------------------------------------------------------

\* Faulty variant, for mutation: the channel is not queued before the mutex
\* is given up.
WaitEnqueue_Late(p) ==
  /\ pc[p] = "idle"
  /\ depth[p] > 0
  /\ Goto(p, "queued")
  /\ token' = [token EXCEPT ![p] = FALSE]
  /\ timedOut' = [timedOut EXCEPT ![p] = FALSE]
  /\ entered' = [entered EXCEPT ![p] = depth[p]]
  /\ UNCHANGED <<kind, held, owner, count, result, depth, waiters, cmu, sending, saved, chosen>>

\* Wait, by a goroutine that holds the mutex, up to the end of the section
\* under c.mu that queues its channel.
WaitEnqueue(p) ==
  /\ pc[p] = "idle"
  /\ depth[p] > 0
  /\ cmu = NoOwner
  /\ waiters' = Append(waiters, p)
  /\ token' = [token EXCEPT ![p] = FALSE]
  /\ timedOut' = [timedOut EXCEPT ![p] = FALSE]
  /\ entered' = [entered EXCEPT ![p] = depth[p]]
  /\ Goto(p, "queued")
  /\ UNCHANGED <<kind, held, owner, count, result, depth, cmu, sending, saved, chosen>>

\* The owner and recursion words are put aside.
WaitDisown(p) ==
  /\ pc[p] = "queued"
  /\ IF Tracked
     THEN /\ saved' = [saved EXCEPT ![p] = count]
          /\ count' = 0
          /\ owner' = NoOwner
     ELSE UNCHANGED <<saved, count, owner>>
  /\ depth' = [depth EXCEPT ![p] = 0]
  /\ Goto(p, "dropping")
  /\ UNCHANGED <<kind, held, result, waiters, token, cmu, sending, timedOut, chosen, entered>>

\* m.mu.Unlock, and to sleep, with a deadline or without.
WaitDrop(p) ==
  /\ pc[p] = "dropping"
  /\ held' = FALSE
  /\ \E how \in Sleeping : Goto(p, how)
  /\ UNCHANGED <<kind, owner, count, result, depth, condVars>>

\* <-w, or WaitWall returning true.
Woken(p) ==
  /\ pc[p] \in Sleeping
  /\ token[p]
  /\ token' = [token EXCEPT ![p] = FALSE]
  /\ chosen' = chosen \ {p}
  /\ Goto(p, "reacquiring")
  /\ UNCHANGED <<kind, held, owner, count, result, depth,
                 waiters, cmu, sending, saved, timedOut, entered>>

\* WaitWall finds the deadline passed, whether or not a token has arrived.
DeadlinePasses(p) ==
  /\ pc[p] = "napping"
  /\ Goto(p, "expired")
  /\ UNCHANGED <<kind, held, owner, count, result, depth, condVars>>

\* WaiterIndex finds p's channel, which is cut out of the queue.
Dequeue(p) ==
  \E i \in DOMAIN waiters :
    /\ waiters[i] = p
    /\ waiters' = RemoveAt(waiters, i)

\* Faulty variant, for mutation: time out although a signal chose this waiter.
Expire_Always(p) ==
  /\ pc[p] = "expired"
  /\ cmu = NoOwner
  /\ Dequeue(p) \/ (p \notin Waiting /\ UNCHANGED waiters)
  /\ timedOut' = [timedOut EXCEPT ![p] = TRUE]
  /\ Goto(p, "reacquiring")
  /\ UNCHANGED <<kind, held, owner, count, result, depth, token, cmu, sending, saved, chosen, entered>>

\* Under c.mu again: still queued means timed out.  Otherwise a signal chose
\* this waiter, and it waits for the token, keeping c.mu.
Expire(p) ==
  /\ pc[p] = "expired"
  /\ cmu = NoOwner
  /\ IF p \in Waiting
     THEN /\ Dequeue(p)
          /\ timedOut' = [timedOut EXCEPT ![p] = TRUE]
          /\ Goto(p, "reacquiring")
          /\ UNCHANGED cmu
     ELSE /\ cmu' = p
          /\ Goto(p, "draining")
          /\ UNCHANGED <<waiters, timedOut>>
  /\ UNCHANGED <<kind, held, owner, count, result, depth, token, sending, saved, chosen, entered>>

\* Faulty variant, for mutation: c.mu stays locked.
Drain_KeepsLock(p) ==
  /\ pc[p] = "draining"
  /\ token[p]
  /\ token' = [token EXCEPT ![p] = FALSE]
  /\ chosen' = chosen \ {p}
  /\ Goto(p, "reacquiring")
  /\ UNCHANGED <<kind, held, owner, count, result, depth,
                 waiters, cmu, sending, saved, timedOut, entered>>

\* The token arrives, and c.mu is unlocked.
Drain(p) ==
  /\ pc[p] = "draining"
  /\ token[p]
  /\ token' = [token EXCEPT ![p] = FALSE]
  /\ chosen' = chosen \ {p}
  /\ cmu' = NoOwner
  /\ Goto(p, "reacquiring")
  /\ UNCHANGED <<kind, held, owner, count, result, depth,
                 waiters, sending, saved, timedOut, entered>>

WaitOutcome(p) == IF timedOut[p] THEN "timedout" ELSE "ok"

\* m.mu.Lock; a NORMAL mutex is complete with it.
Reacquire(p) ==
  /\ pc[p] = "reacquiring"
  /\ ~held
  /\ held' = TRUE
  /\ IF Tracked
     THEN Goto(p, "restoring") /\ UNCHANGED <<result, depth>>
     ELSE /\ Return(p, WaitOutcome(p))
          /\ depth' = [depth EXCEPT ![p] = entered[p]]
  /\ UNCHANGED <<kind, owner, count, condVars>>

\* The owner and recursion words are put back.
Restore(p) ==
  /\ pc[p] = "restoring"
  /\ owner' = p
  /\ count' = saved[p]
  /\ depth' = [depth EXCEPT ![p] = entered[p]]
  /\ Return(p, WaitOutcome(p))
  /\ UNCHANGED <<kind, held, condVars>>

-----------------------------------------------------------------------------

\* Signal with a waiter: it takes the oldest and sends it its token, under
\* c.mu.  The caller need not hold the mutex.  Without a waiter nothing changes.
Signal(p) ==
  /\ pc[p] = "idle"
  /\ cmu = NoOwner
  /\ waiters # <<>>
  /\ ~token[Head(waiters)]     \* else the send blocks
  /\ token' = [token EXCEPT ![Head(waiters)] = TRUE]
  /\ chosen' = chosen \cup {Head(waiters)}
  /\ waiters' = Tail(waiters)
  /\ UNCHANGED <<mutexVars, cmu, sending, saved, timedOut, entered>>

\* Broadcast takes the whole queue under c.mu ...
BroadcastTake(p) ==
  /\ pc[p] = "idle"
  /\ cmu = NoOwner
  /\ waiters # <<>>
  /\ sending' = [sending EXCEPT ![p] = waiters]
  /\ waiters' = <<>>
  /\ chosen' = chosen \cup Waiting
  /\ Goto(p, "broadcasting")
  /\ UNCHANGED <<kind, held, owner, count, result, depth, token, cmu, saved, timedOut, entered>>

\* ... and sends to each waiter after unlocking it.
BroadcastSend(p) ==
  /\ pc[p] = "broadcasting"
  /\ sending[p] # <<>>
  /\ ~token[Head(sending[p])]     \* else the send blocks
  /\ token' = [token EXCEPT ![Head(sending[p])] = TRUE]
  /\ sending' = [sending EXCEPT ![p] = Tail(@)]
  /\ Goto(p, IF Len(sending[p]) = 1 THEN "idle" ELSE "broadcasting")
  /\ UNCHANGED <<kind, held, owner, count, result, depth,
                 waiters, cmu, saved, timedOut, chosen, entered>>

-----------------------------------------------------------------------------

Init ==
  /\ MutexInit
  /\ waiters = <<>>
  /\ token = [p \in Procs |-> FALSE]
  /\ cmu = NoOwner
  /\ sending = [p \in Procs |-> <<>>]
  /\ saved = [p \in Procs |-> 0]
  /\ timedOut = [p \in Procs |-> FALSE]
  /\ chosen = {}
  /\ entered = [p \in Procs |-> 0]

\* The mutex calls a client of a condition variable makes meanwhile.
MutexStep(p) == MutexOp(p) /\ UNCHANGED condVars

WaitStep(p) ==
  \/ WaitEnqueue(p) \/ WaitDisown(p) \/ WaitDrop(p) \/ Woken(p)
  \/ DeadlinePasses(p) \/ Expire(p) \/ Drain(p) \/ Reacquire(p) \/ Restore(p)

Next ==
  \E p \in Procs :
    \/ MutexStep(p)
    \/ WaitStep(p)
    \/ Signal(p) \/ BroadcastTake(p) \/ BroadcastSend(p)

Spec == Init /\ [][Next]_vars

(***************************************************************************)
(* Go's sync.Mutex hands the lock to a goroutine that has waited 1 ms, so  *)
(* one parked on the mutex, or on c.mu (Expire), is not overtaken for      *)
(* ever; goroutines inside the library run; a polling one sees its         *)
(* deadline; and a client does not relock for ever, at any depth, without  *)
(* giving a lock back or waiting.  No fairness for Signal, Broadcast or    *)
(* the deadline: nobody promises to wake a sleeper.                        *)
(***************************************************************************)
TakesLock(p) == (Acquire(p) /\ UNCHANGED condVars) \/ Reacquire(p) \/ Expire(p)

GivesBack(p, d) ==
  /\ depth[p] = d /\ d > 0
  /\ WaitEnqueue(p) \/ (Unlock(p) /\ UNCHANGED condVars)

Runs(p) ==
  \/ (Stamp(p) \/ Release(p) \/ PollTimesOut(p)) /\ UNCHANGED condVars
  \/ WaitDisown(p) \/ WaitDrop(p) \/ Woken(p) \/ Drain(p) \/ Restore(p)
  \/ BroadcastSend(p)

Fairness ==
  \A p \in Procs :
    /\ WF_vars(Runs(p))
    /\ SF_vars(TakesLock(p))
    /\ \A d \in 1..MaxDepth : SF_vars(GivesBack(p, d))

FairSpec == Spec /\ Fairness

-----------------------------------------------------------------------------

WaitPcs == {"queued", "dropping", "expired", "draining", "reacquiring", "restoring"} \cup Sleeping

\* Type invariant.
TypeOK ==
  /\ kind \in Kinds /\ held \in BOOLEAN /\ owner \in Procs \cup {NoOwner}
  /\ count \in 0..MaxDepth
  /\ pc \in [Procs -> Pcs \cup WaitPcs \cup {"broadcasting"}]
  /\ result \in [Procs -> Results]
  /\ depth \in [Procs -> 0..MaxDepth] /\ entered \in [Procs -> 0..MaxDepth]
  /\ waiters \in Seq(Procs)
  /\ token \in [Procs -> BOOLEAN]
  /\ cmu \in Procs \cup {NoOwner}
  /\ sending \in [Procs -> Seq(Procs)]
  /\ saved \in [Procs -> 0..MaxDepth]
  /\ timedOut \in [Procs -> BOOLEAN]
  /\ chosen \subseteq Procs

\* Mutual exclusion with waiters in it: a waiter that gives the mutex up, or
\* takes it back, is inside until the sync.Mutex is unlocked, from the moment
\* it is locked.
WaitInside == Inside \cup {p \in Procs : pc[p] \in {"dropping", "restoring"}}
WaitMutualExclusion ==
  /\ \A p, q \in WaitInside : p = q
  /\ WaitInside # {} <=> held

\* No missed wakeup: a goroutine that has let go of the mutex inside Wait, and
\* has not been woken, is in the queue where a later signal finds it, or a
\* signal or broadcast has already chosen it.
NoMissedWakeup ==
  \A p \in Procs : pc[p] \in Sleeping \cup {"dropping", "expired"} => p \in Waiting \cup chosen

\* No swallowed signal: a waiter that a signal or broadcast chose has its token
\* or will get exactly one, still waits for it, and does not time out.
TokensOnTheWay == {p \in Procs : token[p]} \cup UNION {ToSet(sending[q]) : q \in Procs}
NoSwallowedSignal ==
  /\ chosen = TokensOnTheWay
  /\ \A p \in chosen : pc[p] \in {"queued", "dropping", "expired", "draining"} \cup Sleeping

SignalsReachWaiters == NoMissedWakeup /\ NoSwallowedSignal

\* Signal sends while it holds c.mu: the channel of a queued waiter, and of a
\* waiter a broadcast still has to reach, has room, and no waiter is queued or
\* due twice.
SendNeverBlocks ==
  /\ IsInjective(waiters)
  /\ \A p \in Waiting : ~token[p]
  /\ \A q \in Procs :
       /\ IsInjective(sending[q])
       /\ \A p \in ToSet(sending[q]) : ~token[p] /\ p \notin Waiting

WaitSafe == TypeOK /\ WaitMutualExclusion /\ SendNeverBlocks

\* A condition variable's whole safety: a waiter is under the mutex whenever it
\* is not asleep, it is never asleep beside a signal that was meant for it, and
\* no sender blocks (posixsync/pthread.go:185-283).
CondSafe == WaitSafe /\ SignalsReachWaiters

\* A waiter that was chosen, or whose deadline passes, gets the mutex back, also
\* when its timer fired first and it drains its token, keeping c.mu locked,
\* while a broadcast is still sending.
WaitReturns ==
  \A p \in Procs : p \in chosen \/ pc[p] = "expired" ~> depth[p] > 0

-----------------------------------------------------------------------------
(* pthread_once of thread.go: the swap of _state elects one goroutine to   *)
(* run the initializer; the others spin until it has set _done.            *)

VARIABLES
  done,       \* pthread_once_t._done
  onceState,  \* pthread_once_t._state
  oncePc,     \* "idle", "electing", "initializing", "finishing", "spinning" or "returned"
  effect      \* ghost: who began the initializer, and whether it is complete

onceVars == <<done, onceState, oncePc, effect>>

OnceGoto(p, l) == oncePc' = [oncePc EXCEPT ![p] = l]

\* The first load of _done.
FastPath(p) ==
  /\ oncePc[p] \in {"idle", "returned"}
  /\ OnceGoto(p, IF done = 1 THEN "returned" ELSE "electing")
  /\ UNCHANGED <<done, onceState, effect>>

Elect(p) ==
  /\ oncePc[p] = "electing"
  /\ IF onceState = 0
     THEN /\ onceState' = 1
          /\ OnceGoto(p, "initializing")
          /\ effect' = [effect EXCEPT !.begun = @ \cup {p}]
     ELSE OnceGoto(p, "spinning") /\ UNCHANGED <<onceState, effect>>
  /\ UNCHANGED done

\* The initializer returns.
InitReturns(p) ==
  /\ oncePc[p] = "initializing"
  /\ OnceGoto(p, "finishing")
  /\ effect' = [effect EXCEPT !.complete = TRUE]
  /\ UNCHANGED <<done, onceState>>

SetDone(p) ==
  /\ oncePc[p] = "finishing"
  /\ done' = 1
  /\ OnceGoto(p, "returned")
  /\ UNCHANGED <<onceState, effect>>

\* Faulty variant, for mutation: the losers watch _state instead of _done.
Spin_OnState(p) ==
  /\ oncePc[p] = "spinning"
  /\ onceState = 1
  /\ OnceGoto(p, "returned")
  /\ UNCHANGED <<done, onceState, effect>>

\* The loop of a loser, when it sees _done.
Spin(p) ==
  /\ oncePc[p] = "spinning"
  /\ done = 1
  /\ OnceGoto(p, "returned")
  /\ UNCHANGED <<done, onceState, effect>>

OnceInit ==
  /\ done = 0
  /\ onceState = 0
  /\ oncePc = [p \in Procs |-> "idle"]
  /\ effect = [begun |-> {}, complete |-> FALSE]

OnceRuns(p) == Elect(p) \/ InitReturns(p) \/ SetDone(p) \/ Spin(p)

OnceNext == \E p \in Procs : FastPath(p) \/ OnceRuns(p)

OnceSpec == OnceInit /\ [][OnceNext]_onceVars

\* Type invariant.
OnceTypeOK ==
  /\ done \in 0..1 /\ onceState \in 0..1
  /\ oncePc \in [Procs -> {"idle", "electing", "initializing", "finishing", "spinning", "returned"}]
  /\ effect \in [begun : SUBSET Procs, complete : BOOLEAN]

\* The initializer is begun by one goroutine at most, and no caller, early or
\* late, returns before it is complete.
OneInitializer == \A p, q \in effect.begun : p = q
ReturnsAfterInit == \A p \in Procs : oncePc[p] = "returned" => effect.complete

\* Every caller returns, if the initializer does: one that ends its thread instead
\* leaves every other caller spinning.
CallersReturn == \A p \in Procs : oncePc[p] = "electing" ~> oncePc[p] = "returned"

=============================================================================
