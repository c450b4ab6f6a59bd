------------------------------ MODULE MCMemory ------------------------------
(***************************************************************************)
(* TLC instance of what the memory C works on rests on: the registries     *)
(* that keep Go objects alive for C (HandleTable, Environ), the allocator  *)
(* (Malloc) and mlib's search containers (csrc/mlib/search.c: LinkedQueue, *)
(* SearchTree and HashTable), and the words of C objects that goroutines   *)
(* share: the synchronisation objects of both packages (SyncCarriers) and  *)
(* the FILEs of mlib (ManagedFile).  They share no state, so a behaviour   *)
(* exercises one of them, "part", and the others stay in one initial       *)
(* state: the instance has the states of all, not of their product.        *)
(*                                                                         *)
(* Clients of mlib's FILEs that race with fclose have one FILE.            *)
(*                                                                         *)
(* The allocator runs with as many addresses as can be in use at once and  *)
(* blocks of one byte ("many"), where the collector leaves the number of   *)
(* the second slot in what it takes back, and with FewAddresses and two    *)
(* sizes ("sizes"), where realloc has a smaller size to copy and every     *)
(* number is left.                                                         *)
(*                                                                         *)
(* The tree is exercised from the empty tree, over all trees of a few      *)
(* keys, and from the sparsest tree of height 5 ("sparse"), where one      *)
(* deletion has to rotate at two levels; from there keys are deleted in    *)
(* every order.                                                            *)
(***************************************************************************)
EXTENDS HandleTable, TLC

CONSTANTS
  Parts,
  Getters, Mutators, Names, EnvValues, Unset, MaxBufs, MaxSnaps, MallocFails,
  Elements, NilElement,
  TreeKeys, NoKey, MAXH,
  TableKeys, Values, NoValue, MINSIZE, MAXSLOTS,
  Threads, Addresses, FewAddresses, NoAddress, MaxSize,
  Users, Engines,
  Clients, Files, OneFile, Locks, None

VARIABLES
  part,
  osEnv, envCache, bufs, environ, arrays, pcE, argE, built, hold, quiet,
  changed, seen,
  next, previous, listed,
  root, heap, held,
  created, mask, used, entries, found, dict,
  mallocRegistry, mallocFreeIdx, mem, hdr, filled, pcM, nbytes, idx, ap, np,
  live, stale, promise,
  managed, class, lock, cond, engOwner, queue, item, pcS, role, eng, cv, tell,
  race, known, ofl, std, oflMu, active, roots, raw, slot, lockOwner, count, dirty,
  child, pcF, op, argF, my, todo, due

-----------------------------------------------------------------------------
(* The parts                                                               *)

\* Some of the keys collide in a table of eight slots and part in one of
\* sixteen, some collide in both, and one chain wraps around.
HashOf ==
  [k \in TableKeys |->
     CASE k = 1 -> 7 [] k = 2 -> 7 [] k = 3 -> 15 [] k = 4 -> 0
       [] k = 5 -> 8 [] k = 6 -> 3 [] OTHER -> 19]

\* The keys that may be entered with either value; the others get the first.
TwoValued == {1, 3}

\* The value of the names that have one before C runs: it is like any other.
OneValue == CHOOSE v \in EnvValues : TRUE

\* mlib's FILEs: the goroutines are alike, and so are the locks.
Symmetry == Permutations(Clients) \cup Permutations(Locks)

E == INSTANCE Environ WITH Procs <- Getters, Values <- EnvValues, pc <- pcE, arg <- argE
Q == INSTANCE LinkedQueue WITH Nil <- NilElement
T == INSTANCE SearchTree WITH Keys <- TreeKeys, Nodes <- TreeKeys, Nil <- NilElement
L == INSTANCE SearchTree WITH Keys <- 1 .. 12, Nodes <- 1 .. 12, MAXH <- MAXH + 1,
                              Nil <- NilElement
H == INSTANCE HashTable WITH Keys <- TableKeys, Hash <- HashOf, result <- found
M == INSTANCE Malloc WITH pc <- pcM, Reissued <- FALSE
S == INSTANCE SyncCarriers WITH Procs <- Users, owner <- engOwner, pc <- pcS
F == INSTANCE ManagedFile WITH Procs <- Clients, owner <- lockOwner, pc <- pcF, arg <- argF

ASSUME MemoryConstants ==
  /\ M!MallocConstants /\ E!EnvironConstants
  /\ S!SyncCarriersConstants /\ F!ManagedFileConstants /\ OneFile \in Files
  /\ Q!LinkedQueueConstants /\ H!HashTableConstants
  /\ T!SearchTreeConstants /\ L!SearchTreeConstants

environVars ==
  <<osEnv, envCache, bufs, environ, arrays, pcE, argE, built, hold, quiet,
    changed, seen>>
queueVars == <<next, previous, listed>>
treeVars == <<root, heap, held>>
tableVars == <<created, mask, used, entries, found, dict>>
searchVars == <<queueVars, treeVars, tableVars>>
mallocVars ==
  <<mallocRegistry, mallocFreeIdx, mem, hdr, filled, pcM, nbytes, idx, ap, np,
    live, stale, promise>>
carrierVars ==
  <<managed, class, lock, cond, engOwner, queue, item, pcS, role, eng, cv, tell>>
fileVars ==
  <<race, known, ofl, std, oflMu, active, roots, raw, slot, lockOwner, count, dirty,
    child, pcF, op, argF, my, todo, due>>
allVars ==
  <<part, vars, environVars, searchVars, mallocVars, carrierVars, fileVars>>

\* Node n of the sparsest tree holds key n; its children and its height.
Sparse ==
  [n \in 1 .. 12 |->
     CASE n = 8 -> <<5, 11, 5>> [] n = 5 -> <<3, 7, 4>>
       [] n = 3 -> <<2, 4, 3>>  [] n = 11 -> <<10, 12, 3>>
       [] n \in {2, 7, 10} -> <<n - 1, NilElement, 2>>
       [] OTHER -> <<NilElement, NilElement, 1>>]

SparseInit ==
  /\ root = 8
  /\ heap = [n \in 1 .. 12 |->
               [key |-> n, height |-> Sparse[n][3],
                child |-> [d \in {0, 1} |-> Sparse[n][d + 1]]]]
  /\ held = 1 .. 12

MCInit ==
  /\ part \in Parts
  /\ Init /\ E!Init /\ Q!Init /\ H!Init /\ M!Init /\ S!Init /\ F!Init
  /\ IF part = "sparse" THEN SparseInit ELSE T!Init
  /\ osEnv \in [Names -> IF part = "environ" THEN {OneValue, Unset} ELSE {Unset}]
  /\ part # "carriers" => ~managed /\ class = "mutex"
  /\ part # "files" => ~race

MCNext ==
  \/ /\ UNCHANGED <<part, carrierVars, fileVars>>
     /\ \/ part = "handles" /\ Next /\ UNCHANGED <<environVars, searchVars, mallocVars>>
        \/ part = "environ" /\ E!Next /\ UNCHANGED <<vars, searchVars, mallocVars>>
        \/ /\ part \in {"many", "sizes"} /\ M!Next
           /\ part = "many" =>
                /\ \A t \in Threads : nbytes'[t] <= 1
                /\ \A a \in Addresses :
                     mem[a] = "taken" /\ mem'[a] = "unused" => hdr'[a].idx = 2
           /\ part = "sizes" => \A t \in Threads : np'[t] \in FewAddresses \cup {NoAddress}
           /\ UNCHANGED <<vars, environVars, searchVars>>
  \/ /\ UNCHANGED <<part, vars, environVars, mallocVars, carrierVars, fileVars>>
     /\ \/ part = "queue" /\ Q!Next /\ UNCHANGED <<treeVars, tableVars>>
        \/ part = "tree" /\ T!Next /\ UNCHANGED <<queueVars, tableVars>>
        \/ /\ part = "sparse" /\ \E k \in held : L!TDelete(k)
           /\ UNCHANGED <<queueVars, tableVars>>
        \/ /\ part = "hash" /\ H!Next
           /\ \A k \in TableKeys \ TwoValued : dict'[k] # 2
           /\ UNCHANGED <<queueVars, treeVars>>
  \/ /\ UNCHANGED <<part, vars, environVars, searchVars, mallocVars>>
     /\ \/ part = "carriers" /\ S!Next /\ UNCHANGED fileVars
        \/ /\ part = "files" /\ F!Next /\ UNCHANGED carrierVars
           /\ race => known' \subseteq {OneFile} /\ \A p \in Clients : op'[p] \notin {"popen", "fmemopen"}

MCSpec == MCInit /\ [][MCNext]_allVars

-----------------------------------------------------------------------------
\* Environ: a string getenv returned stays rooted, environ shows the
\* environment, no array of it is lost, and getenv returns a value its name had
\* during the call, never an older copy from the cache (process.go, env.c).
EnvironSafe ==
  /\ [](E!TypeOK /\ E!PointerUntilNextCall /\ E!EnvironFresh /\ E!NoArrayLost)
  /\ E!GetenvNotStale

\* Malloc: a block the program owns is rooted, by the slot its header names;
\* what the program stored survives other calls and realloc; the registry names
\* live blocks and blocks in the making only; and a second free of an address
\* that was not handed out again does nothing (malloc.go:95-160).
MallocSafe ==
  /\ [](M!LiveBlockRooted /\ M!BytesSurvive /\ M!RegistryExact)
  /\ [][\A t \in Threads : M!StaleFree(t) => UNCHANGED <<mallocRegistry, mallocFreeIdx>>]_mallocVars

\* The containers.  LinkedQueue: neighbours agree on their links
\* (search.c:48-82).  SearchTree: the AVL balance and the recorded heights, the
\* order of twalk, what tfind finds, that detached nodes hold nothing, and that
\* the path arrays suffice (search.c:84-330).  HashTable: every search ends,
\* and finds what each key was entered with; the count is exact; and ENTER
\* returns the entry that is in the table after a rebuild (search.c:333-560).
ContainersSafe ==
  /\ [](part = "queue" => Q!LinksAgree)
  /\ [](part = "tree" =>
          T!TypeOK /\ T!Balanced /\ T!WalkIsSorted /\ T!FindFinds
            /\ T!DetachedKeepsNothing /\ T!PathFits)
  /\ [](part = "sparse" =>
          L!Balanced /\ L!WalkIsSorted /\ L!DetachedKeepsNothing /\ L!PathFits)
  /\ [](part = "hash" => H!TypeOK /\ H!SearchesEnd /\ H!AgreesWithDict /\ H!UsedExact)
  /\ H!ResultIsCurrent

\* SyncCarriers: first users of an object agree on one engine, unlock finds the
\* one lock used, and no consumer is left asleep beside an item
\* (pthread.go, mlib/pthread.go, sem.go, mlib/sem.go).  ManagedFile: one
\* goroutine works on a raw engine, what it points to stays rooted, exit and
\* fflush(NULL) find every open stream, and no circle of goroutines waits
\* (csrc/mlib/stdio.c).
CarriersSafe == S!CarriersSafe /\ F!ManagedSafe

\* csrc/mlib/stdio.c:245-247 "The state pointer is kept for the carrier's full
\* lifetime, so waiters can never switch lock instances while fclose is
\* retiring the stream."
KeepsItsLock == part = "files" => F!KeepsItsLock
=============================================================================
