------------------------------- MODULE MCSync -------------------------------
(***************************************************************************)
(* TLC instance of the objects goroutines wait on: a condition variable    *)
(* with its mutex and a pthread_once_t (Pthread), a semaphore, an rwlock,  *)
(* the locks of stdio.  They share no state, so a behaviour exercises one  *)
(* of them, "part", and the others stay in one initial state: the instance *)
(* has the states of the five, not of their product.                       *)
(***************************************************************************)
EXTENDS Pthread, TLC

CONSTANTS
  MaxValue, MaxPosts,  \* Semaphore
  MaxReads,            \* RWLock
  Files, Region        \* StdioLocks

VARIABLES
  part,
  semCount, semWaiters, inbox, semPc, semResult, initial, posts, passed,
  gate, writeHeld, rwPc, reads, writes,
  ofl, oflMu, life, dirty, fileOwner, fileCount, filePc, op, arg, todo, region, due

S == INSTANCE Semaphore WITH count <- semCount, waiters <- semWaiters,
                             pc <- semPc, result <- semResult
RW == INSTANCE RWLock WITH Nobody <- NoOwner, pc <- rwPc
L == INSTANCE StdioLocks WITH Nobody <- NoOwner, owner <- fileOwner,
                              count <- fileCount, pc <- filePc

semVars ==
  <<semCount, semWaiters, inbox, semPc, semResult, initial, posts, passed>>
rwVars == <<gate, writeHeld, rwPc, reads, writes>>
fileVars ==
  <<ofl, oflMu, life, dirty, fileOwner, fileCount, filePc, op, arg, todo, region, due>>
allVars == <<part, vars, semVars, rwVars, onceVars, fileVars>>

ASSUME MCSyncAssumption ==
  S!SemaphoreConstants /\ RW!RWLockConstants /\ L!StdioLocksConstants

Symmetry == Permutations(Procs) \cup Permutations(Files)

MCInit ==
  /\ part \in {"cond", "semaphore", "rwlock", "once", "files"}
  /\ Init /\ S!Init /\ RW!Init /\ OnceInit /\ L!Init
  /\ part # "cond" => kind = "normal"
  /\ part # "semaphore" => initial = 0

\* A step of one part.
Cond(A) ==
  part = "cond" /\ A /\ UNCHANGED <<part, semVars, rwVars, onceVars, fileVars>>
Sem(A) ==
  part = "semaphore" /\ A /\ UNCHANGED <<part, vars, rwVars, onceVars, fileVars>>
RWL(A) ==
  part = "rwlock" /\ A /\ UNCHANGED <<part, vars, semVars, onceVars, fileVars>>
Onc(A) ==
  part = "once" /\ A /\ UNCHANGED <<part, vars, semVars, rwVars, fileVars>>
Fil(A) ==
  part = "files" /\ A /\ UNCHANGED <<part, vars, semVars, rwVars, onceVars>>

MCNext == Cond(Next) \/ Sem(S!Next) \/ RWL(RW!Next) \/ Onc(OnceNext) \/ Fil(L!Next)

MCSpec == MCInit /\ [][MCNext]_allVars

\* The fairness of the five parts, one condition for the steps of the same
\* kind, since a behaviour has steps of one part only.  It is for instances in
\* which no lock nests (MaxDepth = MaxReads = 1): a goroutine that holds a lock
\* holds it once, so the fairness at each depth is the one at depth 1 (a write
\* lock counts as depth 0).
MCFairSpec ==
  /\ MCSpec
  /\ \A p \in Procs :
       /\ WF_allVars(\/ Cond(Runs(p)) \/ Sem(S!Progress(p))
                     \/ RWL(RW!Runs(p)) \/ Onc(OnceRuns(p)) \/ Fil(L!Runs(p)))
       /\ SF_allVars(\/ Cond(TakesLock(p)) \/ RWL(RW!WriteGate(p))
                     \/ Fil(L!TakesLock(p)))
       /\ SF_allVars(\/ Cond(GivesBack(p, 1)) \/ Fil(L!GivesBack(p))
                     \/ RWL(RW!GivesBack(p, 0) \/ RW!GivesBack(p, 1)))

-----------------------------------------------------------------------------
\* Semaphore: no token is lost, made up, banked past a waiter or sent to a
\* waiter that has left; a waiter that lost a race with its timer has one; and
\* tokens go out in arrival order (semaphore.go:42-100).
SemaphoreSafe ==
  /\ [](S!TypeOK /\ S!Conservation /\ S!NoStrandedWaiter)
  /\ [](S!QueueExact /\ S!LateHasToken)
  /\ S!FirstComeFirstServed

\* RWLock: a writer is alone, and the one unlock of both modes releases the
\* mode its caller holds (pthread.go:141-175).
RWLockSafe ==
  RW!TypeOK /\ RW!WriterAlone /\ RW!UnlockReleasesOwnMode /\ RW!FlagExact

\* Once: the initializer is begun once, and nobody returns before it is
\* complete (thread.go, PthreadOnce).
OnceSafe == OnceTypeOK /\ OneInitializer /\ ReturnsAfterInit

\* StdioLocks: fflush(NULL) never walks onto a freed FILE, flushes what had
\* output, and no path of fopen, fclose and fflush closes a circle of waiting
\* goroutines (csrc/stdio.c:1569-1587, 1817-1841).
FileLocksSafe ==
  /\ L!TypeOK /\ L!WalkIsSafe /\ L!WorkersOwn /\ L!NothingLost
  /\ L!FlushAllFlushes /\ L!NoCircularWait

\* stdio.go:40-42: flockfile, "stdio calls" and funlockfile compose.
NoCircularWait == L!NoCircularWait

\* Semaphore: a waiter that is handed a token returns with it, and a wait with
\* a deadline returns.
SemaphoreReturns == S!GrantedReturns /\ S!TimedReturns

\* RWLock: neither mode starves the other; Once: every caller returns, if the
\* initializer does.
RWLockAndOnceGetIn == RW!WriterGetsIn /\ RW!ReaderGetsIn /\ CallersReturn

\* StdioLocks: fflush(NULL) and fclose return although the streams stay busy.
FlushAndCloseReturn == L!FlushAllReturns /\ L!CloseReturns
=============================================================================
