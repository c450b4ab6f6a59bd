------------------------------- MODULE RWLock -------------------------------
(***************************************************************************)
(* The pthread_rwlock of internal/posixsync/pthread.go: one Go RWMutex and *)
(* a writeHeld flag.  POSIX has a single unlock for both modes, and the    *)
(* code decides by the flag alone, without knowing who calls.              *)
(*                                                                         *)
(* sync.RWMutex: a writer takes the inner mutex ("gate"), which parks new  *)
(* readers, waits for the readers it found to leave, and on leaving admits *)
(* every parked reader before the next writer.                             *)
(***************************************************************************)
EXTENDS Integers, FiniteSets

CONSTANTS
  Procs,     \* goroutines
  MaxReads,  \* bound on the read locks one goroutine holds
  Nobody

RWLockConstants ==
  /\ Nobody \notin Procs
  /\ MaxReads \in Nat \ {0}

VARIABLES
  gate,       \* the writer pending or active in the RWMutex, or Nobody
  writeHeld,  \* RWLock.writeHeld
  pc,
  reads,      \* reads[p]: read locks p holds
  writes      \* ghost: the goroutines holding the write lock

vars == <<gate, writeHeld, pc, reads, writes>>

Readers == {p \in Procs : reads[p] > 0}
Goto(p, l) == pc' = [pc EXCEPT ![p] = l]
Holds(p) == reads[p] > 0 \/ p \in writes

-----------------------------------------------------------------------------

\* RLock, also TryRLock, with no writer in the gate.  (A goroutine never asks
\* for a read lock while it holds the write lock.)
ReadLock(p) ==
  /\ pc[p] = "idle" /\ p \notin writes /\ reads[p] < MaxReads
  /\ gate = Nobody
  /\ reads' = [reads EXCEPT ![p] = @ + 1]
  /\ UNCHANGED <<gate, writeHeld, pc, writes>>

\* RLock with a writer pending or active: parked until that writer leaves.
\* TryRLock instead returns EBUSY and changes nothing.
ReadPark(p) ==
  /\ pc[p] = "idle" /\ p \notin writes /\ reads[p] < MaxReads
  /\ gate # Nobody
  /\ Goto(p, "parked")
  /\ UNCHANGED <<gate, writeHeld, reads, writes>>

WriteCall(p) ==
  /\ pc[p] = "idle" /\ ~Holds(p)
  /\ Goto(p, "queueing")
  /\ UNCHANGED <<gate, writeHeld, reads, writes>>

\* Lock takes the inner mutex and stops new readers.
WriteGate(p) ==
  /\ pc[p] = "queueing"
  /\ gate = Nobody
  /\ gate' = p
  /\ Goto(p, "pending")
  /\ UNCHANGED <<writeHeld, reads, writes>>

\* The last reader that was there has left.
WriteEnter(p) ==
  /\ pc[p] = "pending"
  /\ Readers = {}
  /\ Goto(p, "stamping")
  /\ UNCHANGED <<gate, writeHeld, reads, writes>>

\* Faulty variant, for mutation: TryWriteLock forgets the readers.
TryWriteLock_IgnoresReaders(p) ==
  /\ pc[p] = "idle" /\ ~Holds(p)
  /\ gate = Nobody
  /\ gate' = p
  /\ Goto(p, "stamping")
  /\ UNCHANGED <<writeHeld, reads, writes>>

\* TryLock, when it succeeds; otherwise EBUSY changes nothing.
TryWriteLock(p) ==
  /\ pc[p] = "idle" /\ ~Holds(p)
  /\ gate = Nobody
  /\ Readers = {}
  /\ gate' = p
  /\ Goto(p, "stamping")
  /\ UNCHANGED <<writeHeld, reads, writes>>

\* writeHeld.Store(true), and the write lock is the caller's.
Stamp(p) ==
  /\ pc[p] = "stamping"
  /\ writeHeld' = TRUE
  /\ writes' = writes \cup {p}
  /\ Goto(p, "idle")
  /\ UNCHANGED <<gate, reads>>

\* Unlock, by a holder in either mode: the flag decides, and is cleared while
\* the write lock is still held.
Unlock(p) ==
  /\ pc[p] = "idle" /\ Holds(p)
  /\ writeHeld' = FALSE
  /\ Goto(p, IF writeHeld THEN "write-unlocking" ELSE "read-unlocking")
  /\ UNCHANGED <<gate, reads, writes>>

\* Faulty variant, for mutation: parked readers are not admitted.
WriteRelease_KeepsParked(p) ==
  /\ pc[p] = "write-unlocking"
  /\ gate' = Nobody
  /\ writes' = writes \ {p}
  /\ Goto(p, "idle")
  /\ UNCHANGED <<writeHeld, reads>>

\* RWMutex.Unlock: every parked reader is in, and the gate is open.
WriteRelease(p) ==
  /\ pc[p] = "write-unlocking"
  /\ gate' = Nobody
  /\ writes' = writes \ {p}
  /\ LET parked == {q \in Procs : pc[q] = "parked"} IN
     /\ reads' = [q \in Procs |-> IF q \in parked THEN reads[q] + 1 ELSE reads[q]]
     /\ pc' = [q \in Procs |-> IF q = p \/ q \in parked THEN "idle" ELSE pc[q]]
  /\ UNCHANGED writeHeld

\* RWMutex.RUnlock.
ReadRelease(p) ==
  /\ pc[p] = "read-unlocking"
  /\ reads' = [reads EXCEPT ![p] = @ - 1]
  /\ Goto(p, "idle")
  /\ UNCHANGED <<gate, writeHeld, writes>>

-----------------------------------------------------------------------------

Init ==
  /\ gate = Nobody
  /\ writeHeld = FALSE
  /\ pc = [p \in Procs |-> "idle"]
  /\ reads = [p \in Procs |-> 0]
  /\ writes = {}

Next ==
  \E p \in Procs :
    \/ ReadLock(p) \/ ReadPark(p) \/ ReadRelease(p)
    \/ WriteCall(p) \/ WriteGate(p) \/ WriteEnter(p) \/ TryWriteLock(p) \/ Stamp(p)
    \/ Unlock(p) \/ WriteRelease(p)

Spec == Init /\ [][Next]_vars

\* The inner mutex is a sync.Mutex, hence starvation-free; goroutines inside
\* the library run; holders unlock, at every read depth.
Runs(p) == WriteEnter(p) \/ Stamp(p) \/ WriteRelease(p) \/ ReadRelease(p)
GivesBack(p, d) == reads[p] = d /\ Unlock(p)

Fairness ==
  \A p \in Procs :
    /\ WF_vars(Runs(p))
    /\ SF_vars(WriteGate(p))
    /\ \A d \in 0..MaxReads : SF_vars(GivesBack(p, d))

FairSpec == Spec /\ Fairness

-----------------------------------------------------------------------------

\* Type invariant.
TypeOK ==
  /\ gate \in Procs \cup {Nobody}
  /\ writeHeld \in BOOLEAN
  /\ pc \in [Procs -> {"idle", "parked", "queueing", "pending", "stamping",
                       "write-unlocking", "read-unlocking"}]
  /\ reads \in [Procs -> 0..MaxReads]
  /\ writes \subseteq Procs

\* A writer is alone: no other writer and no reader holds the lock, from the
\* moment the RWMutex lets it in to the moment it releases it.
Writers == writes \cup {p \in Procs : pc[p] = "stamping"}
WriterAlone ==
  /\ \A p, q \in Writers : p = q
  /\ Writers # {} => Readers = {} /\ gate \in Writers

\* The unlock releases the mode its caller holds: the flag read by a reader is
\* never a writer's, and a writer always finds its own.  The wrong branch is a
\* fatal error in Go, or lets a second writer in.
UnlockReleasesOwnMode ==
  \A p \in Procs :
    /\ pc[p] = "write-unlocking" => p \in writes /\ gate = p
    /\ pc[p] = "read-unlocking" => reads[p] > 0 /\ p \notin writes

\* The flag is exactly "somebody holds the write lock and is not giving it
\* back", outside the two windows between the RWMutex and the flag.
FlagExact ==
  writeHeld <=> \E p \in writes : pc[p] # "write-unlocking"

\* Neither mode starves the other: a blocked writer gets in although readers
\* keep coming, a parked reader although writers keep coming.
WriterGetsIn == \A p \in Procs : pc[p] = "queueing" ~> p \in writes
ReaderGetsIn == \A p \in Procs : pc[p] = "parked" ~> reads[p] > 0

=============================================================================
