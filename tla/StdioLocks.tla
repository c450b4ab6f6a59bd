----------------------------- MODULE StdioLocks -----------------------------
(***************************************************************************)
(* The locks of stdio: one recursive lock per FILE (stdio.go,              *)
(* internal/posixstdio/lock.go) and the lock of the open-file list         *)
(* (csrc/stdio.c).  fflush(NULL) takes every file's lock while it holds    *)
(* the list's; every other function must not take the list's lock while it *)
(* holds a file's.  A stream's data are abstracted to "has unwritten       *)
(* output", its descriptor and buffer to its life cycle.                   *)
(***************************************************************************)
EXTENDS Naturals, Sequences, FiniteSets, SequencesExt

CONSTANTS
  Procs,   \* goroutines
  Files,   \* addresses of FILE objects, reused after free
  Region,  \* the calls clients make between flockfile and funlockfile
  Nobody

StdioLocksConstants ==
  /\ IsFiniteSet(Procs) /\ IsFiniteSet(Files)
  /\ Nobody \notin Procs \cup Files
  /\ Region \subseteq {"write", "flush", "open", "flushall"}

VARIABLES
  ofl,     \* the open-file list, newest first
  oflMu,   \* who holds its lock
  life,    \* life[f]: "free", "open" or "closed" (fd closed, not yet freed)
  dirty,   \* dirty[f]: output is buffered
  owner,   \* the owner of each file's lock
  count,   \* and its recursion depth
  pc,      \* where each goroutine is
  op,      \* the call it makes
  arg,     \* the file the call is about
  todo,    \* the rest of the list fflush(NULL) has still to visit
  region,  \* ghost: the file each goroutine has locked with flockfile
  due      \* ghost: files that had output when its fflush(NULL) was called

vars == <<ofl, oflMu, life, dirty, owner, count, pc, op, arg, todo, region, due>>

Goto(p, l) == pc' = [pc EXCEPT ![p] = l]
InRegion(p) == region[p] # Nobody
Allowed(p, o) == pc[p] = "idle" /\ (InRegion(p) => o \in Region)

\* The file's output is written: nobody's fflush(NULL) is waiting for it.
Written(f) ==
  /\ dirty' = [dirty EXCEPT ![f] = FALSE]
  /\ due' = [q \in Procs |-> due[q] \ {f}]

-----------------------------------------------------------------------------

\* FLOCK, in every function that works on one stream: write (fputs, fwrite,
\* ...), fflush(f), fclose(f) and flockfile(f) itself.
CallOn(p, f, o) ==
  /\ IF o = "close"
     THEN /\ pc[p] = "idle" /\ ~InRegion(p)
          \* the client is done with the stream
          /\ \A q \in Procs \ {p} : arg[q] # f /\ region[q] # f
     ELSE IF o = "hold" THEN pc[p] = "idle" /\ ~InRegion(p)
     \* inside a region, single-stream calls are about the stream it holds
     ELSE Allowed(p, o) /\ (InRegion(p) => f = region[p])
  /\ life[f] = "open"
  /\ \A q \in Procs : ~(arg[q] = f /\ op[q] = "close")
  /\ op' = [op EXCEPT ![p] = o]
  /\ arg' = [arg EXCEPT ![p] = f]
  /\ Goto(p, "locking")
  /\ UNCHANGED <<ofl, oflMu, life, dirty, owner, count, todo, due, region>>

\* Lock.Lock goes on: nobody has the lock, or the caller has it already.
Free(p, f) == owner[f] \in {Nobody, p}

Take(p, f) ==
  /\ Free(p, f)
  /\ owner' = [owner EXCEPT ![f] = p]
  /\ count' = [count EXCEPT ![f] = @ + 1]

\* Lock.Unlock: the last unlock releases.
GiveBack(f) ==
  /\ count' = [count EXCEPT ![f] = @ - 1]
  /\ owner' = IF count[f] = 1 THEN [owner EXCEPT ![f] = Nobody] ELSE owner

Locked(p) ==
  /\ pc[p] = "locking"
  /\ Take(p, arg[p])
  /\ Goto(p, "locked")
  /\ UNCHANGED <<ofl, oflMu, life, dirty, op, arg, todo, due, region>>

Done(p) ==
  /\ Goto(p, "idle")
  /\ op' = [op EXCEPT ![p] = "none"]
  /\ arg' = [arg EXCEPT ![p] = Nobody]

\* The body of the call and its FUNLOCK.
Write(p) ==
  /\ pc[p] = "locked" /\ op[p] = "write"
  /\ dirty' \in {[dirty EXCEPT ![arg[p]] = TRUE], dirty}  \* the write may fit, or be flushed
  /\ GiveBack(arg[p])
  /\ Done(p)
  /\ UNCHANGED <<ofl, oflMu, life, todo, due, region>>

Flush(p) ==
  /\ pc[p] = "locked" /\ op[p] = "flush"
  /\ Written(arg[p])
  /\ GiveBack(arg[p])
  /\ Done(p)
  /\ UNCHANGED <<ofl, oflMu, life, todo, region>>

\* flockfile keeps the lock; funlockfile gives it back.
FlockReturns(p) ==
  /\ pc[p] = "locked" /\ op[p] = "hold"
  /\ region' = [region EXCEPT ![p] = arg[p]]
  /\ Done(p)
  /\ UNCHANGED <<ofl, oflMu, life, dirty, owner, count, todo, due>>

FunlockFile(p, f) ==
  /\ pc[p] = "idle" /\ region[p] = f
  /\ GiveBack(f)
  /\ region' = [region EXCEPT ![p] = Nobody]
  /\ UNCHANGED <<ofl, oflMu, life, dirty, pc, op, arg, todo, due>>

\* Faulty variant, for mutation: fclose unlinks inside the file's lock.
CloseBody_KeepsLock(p) ==
  /\ pc[p] = "locked" /\ op[p] = "close"
  /\ Written(arg[p])
  /\ life' = [life EXCEPT ![arg[p]] = "closed"]
  /\ Goto(p, "unlinking")
  /\ UNCHANGED <<ofl, oflMu, owner, count, op, arg, todo, region>>

\* fclose: flush and close under the file's lock ...
CloseBody(p) ==
  /\ pc[p] = "locked" /\ op[p] = "close"
  /\ Written(arg[p])
  /\ life' = [life EXCEPT ![arg[p]] = "closed"]
  /\ GiveBack(arg[p])
  /\ Goto(p, "unlinking")
  /\ UNCHANGED <<ofl, oflMu, op, arg, todo, region>>

\* ... unlink under the list's ...
Unlink(p) ==
  /\ pc[p] = "unlinking"
  /\ oflMu = Nobody
  /\ \E i \in DOMAIN ofl : ofl[i] = arg[p] /\ ofl' = RemoveAt(ofl, i)
  /\ Goto(p, "freeing")
  /\ UNCHANGED <<oflMu, life, dirty, owner, count, op, arg, todo, due, region>>

\* ... then drop the lock's table entry and free the object.
DropAndFree(p) ==
  /\ pc[p] = "freeing"
  /\ life' = [life EXCEPT ![arg[p]] = "free"]
  /\ owner' = [owner EXCEPT ![arg[p]] = Nobody]
  /\ count' = [count EXCEPT ![arg[p]] = 0]
  /\ Done(p)
  /\ UNCHANGED <<ofl, oflMu, dirty, todo, due, region>>

\* fopen, fdopen: a new FILE ...
OpenCall(p, f) ==
  /\ Allowed(p, "open")
  /\ life[f] = "free"
  /\ \A q \in Procs : arg[q] # f
  /\ op' = [op EXCEPT ![p] = "open"]
  /\ arg' = [arg EXCEPT ![p] = f]
  /\ Goto(p, "adding")
  /\ UNCHANGED <<ofl, oflMu, life, dirty, owner, count, todo, due, region>>

\* ... added to the list under its lock.
OflAdd(p) ==
  /\ pc[p] = "adding"
  /\ oflMu = Nobody
  /\ ofl' = <<arg[p]>> \o ofl
  /\ life' = [life EXCEPT ![arg[p]] = "open"]
  /\ Done(p)
  /\ UNCHANGED <<oflMu, dirty, owner, count, todo, due, region>>

-----------------------------------------------------------------------------

\* fflush(NULL).
FlushAllCall(p) ==
  /\ Allowed(p, "flushall")
  /\ op' = [op EXCEPT ![p] = "flushall"]
  /\ Goto(p, "listing")
  /\ due' = [due EXCEPT ![p] = {f \in ToSet(ofl) : dirty[f] /\ life[f] = "open"}]
  /\ UNCHANGED <<ofl, oflMu, life, dirty, owner, count, arg, todo, region>>

OflLock(p) ==
  /\ pc[p] = "listing"
  /\ oflMu = Nobody
  /\ oflMu' = p
  /\ todo' = [todo EXCEPT ![p] = ofl]
  /\ Goto(p, "walking")
  /\ UNCHANGED <<ofl, life, dirty, owner, count, op, arg, due, region>>

WalkLock(p) ==
  /\ pc[p] = "walking" /\ todo[p] # <<>>
  /\ Take(p, Head(todo[p]))
  /\ Goto(p, "visiting")
  /\ UNCHANGED <<ofl, oflMu, life, dirty, op, arg, todo, due, region>>

\* Faulty variant, for mutation: the walk does not go on.
WalkFlush_Stays(p) ==
  /\ pc[p] = "visiting"
  /\ Written(Head(todo[p]))
  /\ GiveBack(Head(todo[p]))
  /\ Goto(p, "walking")
  /\ UNCHANGED <<ofl, oflMu, life, op, arg, todo, region>>

WalkFlush(p) ==
  /\ pc[p] = "visiting"
  /\ Written(Head(todo[p]))
  /\ GiveBack(Head(todo[p]))
  /\ todo' = [todo EXCEPT ![p] = Tail(@)]
  /\ Goto(p, "walking")
  /\ UNCHANGED <<ofl, oflMu, life, op, arg, region>>

OflUnlock(p) ==
  /\ pc[p] = "walking" /\ todo[p] = <<>>
  /\ oflMu' = Nobody
  /\ Done(p)
  /\ UNCHANGED <<ofl, life, dirty, owner, count, todo, due, region>>

-----------------------------------------------------------------------------

Init ==
  /\ ofl = <<>>
  /\ oflMu = Nobody
  /\ life = [f \in Files |-> "free"]
  /\ dirty = [f \in Files |-> FALSE]
  /\ owner = [f \in Files |-> Nobody]
  /\ count = [f \in Files |-> 0]
  /\ pc = [p \in Procs |-> "idle"]
  /\ op = [p \in Procs |-> "none"]
  /\ arg = [p \in Procs |-> Nobody]
  /\ todo = [p \in Procs |-> <<>>]
  /\ region = [p \in Procs |-> Nobody]
  /\ due = [p \in Procs |-> {}]

Step(p) ==
  \/ Locked(p) \/ Write(p) \/ Flush(p) \/ FlockReturns(p)
  \/ CloseBody(p) \/ Unlink(p) \/ DropAndFree(p) \/ OflAdd(p)
  \/ OflLock(p) \/ WalkLock(p) \/ WalkFlush(p) \/ OflUnlock(p)

Next ==
  \E p \in Procs :
    \/ Step(p)
    \/ FlushAllCall(p)
    \/ \E f \in Files :
         \/ OpenCall(p, f) \/ FunlockFile(p, f)
         \/ \E o \in {"write", "flush", "close", "hold"} : CallOn(p, f, o)

Spec == Init /\ [][Next]_vars

\* Both kinds of lock are sync.Mutexes, hence starvation-free; goroutines
\* inside stdio run; a client leaves its flockfile region.
TakesLock(p) == Locked(p) \/ Unlink(p) \/ OflAdd(p) \/ OflLock(p) \/ WalkLock(p)

Runs(p) ==
  \/ Write(p) \/ Flush(p) \/ FlockReturns(p) \/ CloseBody(p)
  \/ DropAndFree(p) \/ WalkFlush(p) \/ OflUnlock(p)

GivesBack(p) == \E f \in Files : FunlockFile(p, f)

Fairness ==
  \A p \in Procs : WF_vars(Runs(p)) /\ SF_vars(TakesLock(p)) /\ SF_vars(GivesBack(p))

FairSpec == Spec /\ Fairness

-----------------------------------------------------------------------------

\* Type invariant.
TypeOK ==
  /\ ofl \in Seq(Files) /\ oflMu \in Procs \cup {Nobody}
  /\ life \in [Files -> {"free", "open", "closed"}]
  /\ dirty \in [Files -> BOOLEAN]
  /\ owner \in [Files -> Procs \cup {Nobody}]
  /\ count \in [Files -> 0..2]
  /\ pc \in [Procs -> {"idle", "locking", "locked", "unlinking", "freeing", "adding",
                       "listing", "walking", "visiting"}]
  /\ op \in [Procs -> {"none", "write", "flush", "close", "hold", "open", "flushall"}]
  /\ arg \in [Procs -> Files \cup {Nobody}]
  /\ todo \in [Procs -> Seq(Files)]
  /\ region \in [Procs -> Files \cup {Nobody}]
  /\ due \in [Procs -> SUBSET Files]

\* The walk of fflush(NULL) never stands on, or has before it, a FILE that is
\* not on the list or was freed, although fclose runs concurrently.
WalkIsSafe ==
  \A p \in Procs : pc[p] \in {"walking", "visiting"} =>
    \A i \in 1..Len(todo[p]) : todo[p][i] \in ToSet(ofl) /\ life[todo[p][i]] # "free"

\* Whoever works on a stream owns its lock for the whole of the work, and from
\* flockfile to funlockfile, however often the calls in between lock it again.
WorkersOwn ==
  \A p \in Procs :
    /\ pc[p] = "locked" => owner[arg[p]] = p
    /\ pc[p] = "visiting" => owner[Head(todo[p])] = p
    /\ InRegion(p) => owner[region[p]] = p

\* Output is not lost: a FILE is freed, and reused, only when it was written
\* out, and its lock is dropped only while nobody owns it.
NothingLost ==
  /\ \A f \in Files : life[f] # "open" => ~dirty[f]
  /\ \A p \in Procs : pc[p] = "freeing" => owner[arg[p]] = Nobody

\* When fflush(NULL) returns, every stream that had output when it was called
\* has been written since.
FlushAllFlushes ==
  \A p \in Procs : pc[p] = "walking" /\ todo[p] = <<>> => due[p] = {}

\* No goroutines wait for each other in a circle.
WaitsFor(p, q) ==
  \/ pc[p] = "locking" /\ owner[arg[p]] = q /\ p # q
  \/ pc[p] = "walking" /\ todo[p] # <<>> /\ owner[Head(todo[p])] = q /\ p # q
  \/ pc[p] \in {"unlinking", "adding", "listing"} /\ oflMu = q
NoCircularWait ==
  \A S \in (SUBSET Procs) \ {{}} : \E p \in S : \A q \in S : ~WaitsFor(p, q)

\* fflush(NULL) and fclose return, although other goroutines keep streams busy.
FlushAllReturns == \A p \in Procs : pc[p] = "listing" ~> pc[p] = "idle"
CloseReturns == \A p \in Procs : op[p] = "close" ~> op[p] = "none"

=============================================================================
