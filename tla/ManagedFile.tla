----------------------------- MODULE ManagedFile -----------------------------
(***************************************************************************)
(* The FILE of mlib (csrc/mlib/stdio.c, mlib/stdio.go): a collected object *)
(* around the root package's raw engine, whose addresses the collector     *)
(* does not see, with a managed root for each, a lock published in the     *)
(* object by one compare-and-swap, and a list of open files with its own   *)
(* lock.  fclose retires the engine under the FILE's lock, unlinks under   *)
(* the list's and forgets the lock last.  Every function on one stream is  *)
(* acquire, the raw function, release, and is a "use".                     *)
(***************************************************************************)
EXTENDS Naturals, Sequences, FiniteSets, SequencesExt

CONSTANTS
  Procs,   \* goroutines
  Files,   \* FILE objects, collected and made again
  Locks,   \* posixstdio.Lock objects
  None

ManagedFileConstants ==
  IsFiniteSet(Procs) /\ IsFiniteSet(Files) /\ IsFiniteSet(Locks) /\ None \notin Procs \cup Files \cup Locks

VARIABLES
  race,     \* whether clients use a FILE while it is closed, and afterwards
  known,    \* the FILEs clients have a pointer to
  ofl,      \* the list of open files, newest first
  std,      \* the FILE of one standard stream, made on first use
  oflMu,    \* who holds the list's lock
  active,   \* the FILEs that are open
  roots,    \* roots[f]: what the collector finds through f
  raw,      \* raw[f]: what the raw engine inside f has the address of
  slot,     \* slot[f]: _lock_state
  owner, count,  \* of each lock
  dirty,    \* files with unwritten output
  child,    \* child[f]: the command of a popen stream
  pc, op, arg,   \* where each goroutine is, in which call, about which FILE
  my,       \* the lock it was given by loadOrCreateFileLock
  todo,     \* what fflush(NULL) has still to visit
  due       \* ghost: the files whose output it was called for

vars == <<race, known, ofl, std, oflMu, active, roots, raw, slot, owner, count, dirty, child,
          pc, op, arg, my, todo, due>>
fileVars == <<active, roots, raw, dirty, child>>
lockVars == <<slot, owner, count, my>>
listVars == <<ofl, std, oflMu>>
callVars == <<op, arg, todo>>

Goto(p, l) == pc' = [pc EXCEPT ![p] = l]
Done(p) ==
  /\ Goto(p, "idle")
  /\ op' = [op EXCEPT ![p] = "none"] /\ arg' = [arg EXCEPT ![p] = None]
  /\ my' = [my EXCEPT ![p] = None]

Closing == {"close", "pclose"}
Opening == {"fopen", "popen", "fmemopen"}
BeingClosed == {arg[p] : p \in {q \in Procs : op[q] \in Closing}}

-----------------------------------------------------------------------------
Fresh(f) == f \notin known /\ child[f] = "none" /\ \A q \in Procs : arg[q] # f

\* mlib_file_allocate: a zeroed object no client has, with its buffer.
Allocate(p, f, o) ==
  /\ pc[p] = "idle" /\ Fresh(f)
  /\ roots' = [roots EXCEPT ![f] = {"buffer"}]
  /\ op' = [op EXCEPT ![p] = o] /\ arg' = [arg EXCEPT ![p] = f]
  /\ Goto(p, "preparing")
  /\ UNCHANGED <<race, known, listVars, active, raw, dirty, child, lockVars, todo, due>>

\* popen stores the process it started, fmemopen the client's memory or its own,
\* before the next call that may collect.
Rooted(f) == [roots EXCEPT ![f] = @ \cup {"object"}]

Prepare(p) ==
  LET f == arg[p] IN
  /\ pc[p] = "preparing"
  /\ roots' = IF op[p] = "fopen" THEN roots ELSE Rooted(f)
  /\ child' = IF op[p] = "popen" THEN [child EXCEPT ![f] = "running"] ELSE child
  /\ Goto(p, "initialising")
  /\ UNCHANGED <<race, known, listVars, active, raw, dirty, lockVars, callVars, due>>

\* __c2go_file_raw_open and the like: the raw engine gets the addresses.
RawOpen(p) ==
  LET f == arg[p] IN
  /\ pc[p] = "initialising"
  /\ raw' = [raw EXCEPT ![f] = IF op[p] = "fmemopen" THEN {"buffer", "object"} ELSE {"buffer"}]
  /\ active' = active \cup {f}
  /\ Goto(p, "adding")
  /\ UNCHANGED <<race, known, listVars, roots, dirty, child, lockVars, callVars, due>>

\* An opening function fails at its first step or at the raw engine's: it
\* clears the roots, and popen reaps its child.
OpenFails(p) ==
  LET f == arg[p] IN
  /\ pc[p] \in {"preparing", "initialising"}
  /\ roots' = [roots EXCEPT ![f] = {}]
  /\ child' = [child EXCEPT ![f] = IF @ = "running" THEN "reaped" ELSE @]
  /\ Done(p)
  /\ UNCHANGED <<race, known, listVars, active, raw, dirty, slot, owner, count, todo, due>>

\* mlib_ofl_add.
OflAdd(p) ==
  /\ pc[p] = "adding" /\ oflMu = None
  /\ ofl' = <<arg[p]>> \o ofl
  /\ known' = known \cup {arg[p]}
  /\ Done(p)
  /\ UNCHANGED <<race, std, oflMu, fileVars, slot, owner, count, todo, due>>

-----------------------------------------------------------------------------
\* What clients may do with f where they do not race with fclose.
Unraced(p, f, o) ==
  /\ \A q \in Procs \ {p} : arg[q] = f => op[q] \notin Closing
  /\ o \in Closing =>
       \A q \in Procs : arg[q] = f => op[q] = "flushall"

\* A call on one stream enters mlib_file_acquire.  pclose reads the process
\* first, without the lock.
Enter(p, f, o) ==
  /\ pc[p] = "idle" /\ f \in known
  /\ race \/ (f \in active /\ Unraced(p, f, o))
  /\ o = "pclose" => "object" \in roots[f] /\ child[f] = "running"
  /\ op' = [op EXCEPT ![p] = o] /\ arg' = [arg EXCEPT ![p] = f]
  /\ Goto(p, "loading")
  /\ UNCHANGED <<race, known, listVars, fileVars, lockVars, todo, due>>

\* mlib_stdfile, under the list's lock: the first caller makes the stream.
StdFile(f) ==
  /\ oflMu = None
  /\ IF std # None
     THEN f = std /\ UNCHANGED <<std, known, roots, raw, active>>
     ELSE /\ Fresh(f)
          /\ std' = f /\ known' = known \cup {f} /\ active' = active \cup {f}
          /\ roots' = [roots EXCEPT ![f] = {"buffer"}] /\ raw' = [raw EXCEPT ![f] = {"buffer"}]

\* puts, printf, getchar and the like are calls on the stream it returns, and so
\* is fclose(stdout).
StdCall(p, o) ==
  /\ pc[p] = "idle"
  /\ \E f \in Files :
       /\ race \/ Unraced(p, f, o)
       /\ StdFile(f)
       /\ op' = [op EXCEPT ![p] = o] /\ arg' = [arg EXCEPT ![p] = f]
  /\ Goto(p, "loading")
  /\ UNCHANGED <<race, ofl, oflMu, dirty, child, lockVars, todo, due>>

-----------------------------------------------------------------------------
\* loadOrCreateFileLock: load, compare-and-swap with a new lock, load again.
Given(p, l) ==
  /\ my' = [my EXCEPT ![p] = l]
  /\ Goto(p, IF l = None THEN "crashed" ELSE "locking")

Load(p) ==
  /\ pc[p] = "loading"
  /\ IF slot[arg[p]] # None THEN Given(p, slot[arg[p]]) ELSE Goto(p, "publishing") /\ UNCHANGED my
  /\ UNCHANGED <<race, known, listVars, fileVars, slot, owner, count, callVars, due>>

Publish(p) ==
  LET f == arg[p] IN
  /\ pc[p] = "publishing"
  /\ \/ /\ slot[f] = None
        /\ \E l \in Locks :
             /\ \A g \in Files : slot[g] # l
             /\ \A q \in Procs : my[q] # l
             /\ owner' = [owner EXCEPT ![l] = None] /\ count' = [count EXCEPT ![l] = 0]
             /\ slot' = [slot EXCEPT ![f] = l]
             /\ Given(p, l)
     \/ slot[f] # None /\ Goto(p, "reloading") /\ UNCHANGED lockVars
  /\ UNCHANGED <<race, known, listVars, fileVars, callVars, due>>

Reload(p) ==
  /\ pc[p] = "reloading"
  /\ Given(p, slot[arg[p]])
  /\ UNCHANGED <<race, known, listVars, fileVars, slot, owner, count, callVars, due>>

\* Lock.Lock, and the look at _active behind it.
Lock(p) ==
  LET l == my[p] IN
  /\ pc[p] = "locking" /\ owner[l] \in {None, p}
  /\ owner' = [owner EXCEPT ![l] = p] /\ count' = [count EXCEPT ![l] = IF owner[l] = p THEN @ + 1 ELSE 1]
  /\ Goto(p, IF arg[p] \in active THEN "acquired" ELSE "refused")
  /\ UNCHANGED <<race, known, listVars, fileVars, slot, my, callVars, due>>

\* mlib_file_release unlocks whatever lock the FILE has now.  (An unlock nobody
\* owes takes the count below 0, and the next Lock sets it to 1.)
Unlock(f) ==
  LET l == slot[f] IN
  /\ count' = [count EXCEPT ![l] = IF @ = 0 THEN 0 ELSE @ - 1]
  /\ owner' = IF count[l] = 1 THEN [owner EXCEPT ![l] = None] ELSE owner

\* Where a goroutine goes on after a release: fclose unlinks, fflush(NULL)
\* visits the next file, the others return.
GoesOn(p) ==
  CASE op[p] = "flushall" ->
         /\ todo' = [todo EXCEPT ![p] = Tail(@)]
         /\ arg' = [arg EXCEPT ![p] = None] /\ my' = [my EXCEPT ![p] = None]
         /\ op' = op /\ Goto(p, "walking")
    [] op[p] \in Closing /\ pc[p] = "releasing" ->
         todo' = todo /\ arg' = arg /\ op' = op /\ my' = my /\ Goto(p, "unlinking")
    [] OTHER -> todo' = todo /\ Done(p)

Release(p) ==
  /\ pc[p] \in {"refused", "releasing"}
  /\ IF slot[arg[p]] = None
     THEN Goto(p, "crashed") /\ UNCHANGED <<owner, count, my, callVars>>
     ELSE Unlock(arg[p]) /\ GoesOn(p)
  /\ UNCHANGED <<race, known, listVars, fileVars, slot, due>>

-----------------------------------------------------------------------------
\* The raw function: it leaves output in the buffer, or writes what there is.
Written(f) ==
  /\ dirty' = dirty \ {f}
  /\ due' = [q \in Procs |-> due[q] \ {f}]

Use(p) ==
  /\ pc[p] = "acquired" /\ op[p] = "use"
  /\ \/ dirty' = dirty \cup {arg[p]} /\ due' = due
     \/ Written(arg[p])
  /\ Goto(p, "releasing")
  /\ UNCHANGED <<race, known, listVars, active, roots, raw, child, lockVars, callVars>>

Flush(p) ==
  /\ pc[p] = "acquired" /\ op[p] = "flushall"
  /\ Written(arg[p])
  /\ Goto(p, "releasing")
  /\ UNCHANGED <<race, known, listVars, active, roots, raw, child, lockVars, callVars>>

\* fclose: close the raw engine, forget its addresses ...
CloseRaw(p) ==
  LET f == arg[p] IN
  /\ pc[p] = "acquired" /\ op[p] \in Closing
  /\ active' = active \ {f}
  /\ Written(f)
  /\ Goto(p, "retiring")
  /\ UNCHANGED <<race, known, listVars, roots, raw, child, lockVars, callVars>>

\* ... then their roots, still under the lock ...
Retire(p) ==
  LET f == arg[p] IN
  /\ pc[p] = "retiring"
  /\ raw' = [raw EXCEPT ![f] = {}]
  /\ roots' = [roots EXCEPT ![f] = {}]
  /\ Goto(p, "releasing")
  /\ UNCHANGED <<race, known, listVars, active, dirty, child, lockVars, callVars, due>>

\* Faulty variant, for mutation: a standard stream stays where it was.
Unlinked_KeepsStd(f) == std' = std

Unlinked(f) == std' = IF std = f THEN None ELSE std

\* ... mlib_ofl_remove ...
OflRemove(p) ==
  /\ pc[p] = "unlinking" /\ oflMu = None
  /\ \/ arg[p] \notin ToSet(ofl) /\ ofl' = ofl
     \/ \E i \in DOMAIN ofl : ofl[i] = arg[p] /\ ofl' = RemoveAt(ofl, i)
  /\ Unlinked(arg[p])
  /\ Goto(p, "forgetting")
  /\ UNCHANGED <<race, known, oflMu, fileVars, lockVars, callVars, due>>

\* ... and the lock.  pclose waits for the process it read.
ForgetLock(p) ==
  LET f == arg[p] IN
  /\ pc[p] = "forgetting"
  /\ slot' = [slot EXCEPT ![f] = None]
  /\ known' = IF race THEN known ELSE known \ {f}
  /\ child' = IF op[p] = "pclose" THEN [child EXCEPT ![f] = "reaped"] ELSE child
  /\ Done(p)
  /\ UNCHANGED <<race, listVars, active, roots, raw, dirty, owner, count, todo, due>>

-----------------------------------------------------------------------------
\* fflush(NULL): the standard streams and the list, under the list's lock.
FlushAll(p) ==
  /\ pc[p] = "idle" /\ oflMu = None
  /\ oflMu' = p
  /\ todo' = [todo EXCEPT ![p] = (IF std = None THEN <<>> ELSE <<std>>) \o ofl]
  /\ due' = [due EXCEPT ![p] = dirty]
  /\ op' = [op EXCEPT ![p] = "flushall"]
  /\ Goto(p, "walking")
  /\ UNCHANGED <<race, known, ofl, std, fileVars, lockVars, arg>>

Visit(p) ==
  /\ pc[p] = "walking" /\ todo[p] # <<>>
  /\ arg' = [arg EXCEPT ![p] = Head(todo[p])]
  /\ Goto(p, "loading")
  /\ UNCHANGED <<race, known, listVars, fileVars, lockVars, op, todo, due>>

FlushAllReturns(p) ==
  /\ pc[p] = "walking" /\ todo[p] = <<>>
  /\ oflMu' = None
  /\ due' = [due EXCEPT ![p] = {}]
  /\ Done(p)
  /\ UNCHANGED <<race, known, ofl, std, fileVars, slot, owner, count, todo>>

\* The collector: a FILE that clients have forgotten, and its child, are gone.
Collect(f) ==
  /\ f \in known \/ child[f] # "none"
  /\ f \notin active /\ \A p \in Procs : arg[p] # f
  /\ f \notin ToSet(ofl) \cup {std}
  /\ known' = known \ {f}
  /\ child' = [child EXCEPT ![f] = "none"]
  /\ slot' = [slot EXCEPT ![f] = None]
  /\ UNCHANGED <<race, listVars, active, roots, raw, dirty, owner, count, my, pc, callVars, due>>

-----------------------------------------------------------------------------
Init ==
  /\ race \in BOOLEAN
  /\ known = {} /\ ofl = <<>> /\ std = None /\ oflMu = None /\ active = {} /\ dirty = {}
  /\ roots = [f \in Files |-> {}] /\ raw = roots
  /\ slot = [f \in Files |-> None] /\ child = [f \in Files |-> "none"]
  /\ owner = [l \in Locks |-> None] /\ count = [l \in Locks |-> 0]
  /\ pc = [p \in Procs |-> "idle"] /\ op = [p \in Procs |-> "none"]
  /\ arg = [p \in Procs |-> None] /\ my = arg
  /\ todo = [p \in Procs |-> <<>>] /\ due = [p \in Procs |-> {}]

\* What a goroutine does to finish the call it is in.
Step(p) ==
  \/ Prepare(p) \/ RawOpen(p) \/ OpenFails(p) \/ OflAdd(p)
  \/ Load(p) \/ Publish(p) \/ Reload(p) \/ Lock(p) \/ Release(p)
  \/ Use(p) \/ Flush(p) \/ CloseRaw(p) \/ Retire(p) \/ OflRemove(p) \/ ForgetLock(p)
  \/ Visit(p) \/ FlushAllReturns(p)

Next ==
  /\ \A p \in Procs : pc[p] # "crashed"
  /\ \/ \E p \in Procs :
          \/ Step(p)
          \/ FlushAll(p)
          \/ \E o \in {"use", "close"} : StdCall(p, o)
          \/ \E f \in Files :
               \/ \E o \in Opening : Allocate(p, f, o)
               \/ \E o \in {"use"} \cup Closing : Enter(p, f, o)
     \/ \E f \in Files : Collect(f)

Spec == Init /\ [][Next]_vars

-----------------------------------------------------------------------------
TypeOK ==
  /\ race \in BOOLEAN /\ known \subseteq Files /\ active \subseteq Files /\ dirty \subseteq Files
  /\ ToSet(ofl) \subseteq Files /\ IsInjective(ofl) /\ std \in Files \cup {None}
  /\ oflMu \in Procs \cup {None}
  /\ \A f \in Files :
       /\ roots[f] \subseteq {"buffer", "object"} /\ raw[f] \subseteq {"buffer", "object"}
       /\ slot[f] \in Locks \cup {None} /\ child[f] \in {"none", "running", "reaped"}
  /\ owner \in [Locks -> Procs \cup {None}] /\ count \in [Locks -> 0..2]

\* Who works on the raw engine of f.
Inside(f) == {p \in Procs : arg[p] = f /\ pc[p] \in {"acquired", "retiring"}}

\* One goroutine at a time works on an engine, and only on one that is open or
\* that it is closing itself: also where clients call a stream while another
\* goroutine closes it, or afterwards.
EngineExclusive ==
  \A f \in Files :
    /\ \A p, q \in Inside(f) : p = q
    /\ \A p \in Inside(f) : f \in active \/ pc[p] = "retiring"

\* Whatever the raw engine has the address of, the collector finds through the
\* FILE; and a FILE finds a child that somebody has still to wait for.
EngineRooted ==
  /\ \A f \in Files : raw[f] \subseteq roots[f]
  /\ \A f \in active : "buffer" \in raw[f] /\ (child[f] = "running" => "object" \in roots[f])
  /\ \A f \in Files : raw[f] # {} => f \in active \cup BeingClosed

\* fflush(NULL) and exit find every open stream, and the next caller of
\* mlib_stdfile never gets a closed one.
Reached ==
  /\ \A f \in active : f \in ToSet(ofl) \cup {std} \/ \E p \in Procs : arg[p] = f /\ pc[p] = "adding"
  /\ ToSet(ofl) \cup ({std} \ {None}) \subseteq active \cup BeingClosed

\* A goroutine gives back the lock it took: "waiters can never switch lock
\* instances while fclose is retiring the stream" (csrc/mlib/stdio.c:246).
KeepsItsLock ==
  /\ \A p \in Procs : pc[p] # "crashed"
  /\ \A p \in Procs : pc[p] \in {"acquired", "retiring", "refused", "releasing"} => slot[arg[p]] = my[p]

\* Without a race no call meets a closed stream but that of fflush(NULL).
NoFalseRefusal ==
  ~race => KeepsItsLock /\ \A p \in Procs : pc[p] = "refused" => op[p] = "flushall"

\* What was buffered when fflush(NULL) was called is written when it returns.
FlushAllFlushes == \A p \in Procs : pc[p] = "walking" /\ todo[p] = <<>> => due[p] = {}

\* Who waits for the list's lock, or for a FILE's.
Blocked(p) ==
  \/ pc[p] \in {"adding", "unlinking"} /\ oflMu # None
  \/ pc[p] = "locking" /\ owner[my[p]] \notin {None, p}

\* The list's lock and the files' are taken in one order: while a call is under
\* way some goroutine can go on.
NobodyStuck ==
  ~race /\ (\E p \in Procs : pc[p] # "idle") => \E p \in Procs : pc[p] # "idle" /\ ~Blocked(p)

ManagedSafe ==
  /\ TypeOK /\ EngineExclusive /\ EngineRooted /\ Reached
  /\ NoFalseRefusal /\ FlushAllFlushes /\ NobodyStuck
=============================================================================
