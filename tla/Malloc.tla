------------------------------- MODULE Malloc -------------------------------
(***************************************************************************)
(* The allocator behind malloc, calloc, realloc, aligned_alloc and free    *)
(* (malloc.go).  C memory is not scanned by Go's collector, so each block  *)
(* is a Go slice kept alive by a slot of mallocRegistry, and a 16-byte     *)
(* header in front of the payload says which slot.  free() trusts nothing: *)
(* it reads the header of the pointer it is given and checks that the slot *)
(* holds a slice containing that pointer.                                  *)
(*                                                                         *)
(* An address stands for a slice and for the one payload pointer into it.  *)
(* Memory that nothing roots is taken back by the collector: other Go      *)
(* objects then write over its header and its bytes, and a later make may  *)
(* return the same address.  The program may free a block twice, but, save *)
(* where Reissued is set, not once the address is that of a new block.     *)
(* Otherwise a block is used by one thread at a time, as C requires.       *)
(***************************************************************************)
EXTENDS Integers, Sequences, FiniteSets

CONSTANTS
    Threads,
    Addresses,     \* what make([]byte) may return, within one behaviour
    NoAddress,
    MaxSize,       \* largest size asked for
    Reissued       \* are freed pointers used after their address was reissued

MallocConstants ==
    /\ NoAddress \notin Addresses
    /\ IsFiniteSet(Addresses)
    /\ MaxSize \in Nat \ {0}
    /\ Reissued \in BOOLEAN

VARIABLES
    mallocRegistry,  \* slot -> address it roots, or NoAddress
    mallocFreeIdx,   \* recycled slots, used from the end
    mem,             \* address -> "unused" or "taken"
    hdr,             \* address -> [idx, size], the two words before the payload
    filled,          \* address -> leading payload bytes that hold what C stored
    pc,              \* thread -> the step it is at
    nbytes,          \* thread -> size of the block being made
    idx,             \* thread -> slot of the block being made
    ap,              \* thread -> block being reallocated
    np,              \* thread -> block being made
    live,            \* ghost: addresses the program owns
    stale,           \* ghost: addresses it freed once and may still hold
    promise          \* ghost: address -> bytes of it the program may rely on

registry == <<mallocRegistry, mallocFreeIdx>>
memory == <<mem, hdr, filled>>
locals == <<nbytes, idx, ap, np>>
ghosts == <<live, stale, promise>>
vars == <<registry, memory, pc, locals, ghosts>>

Slots == 1 .. Len(mallocRegistry)
Roots(a) == {i \in Slots : mallocRegistry[i] = a}
Smaller(m, n) == IF m < n THEN m ELSE n
Sizes == 0 .. MaxSize

\* The program calls with a block that no other call is at work on.
Idle(a) == \A t \in Threads : a \notin {ap[t], np[t]}

----------------------------------------------------------------------------
(* malloc, calloc, aligned_alloc                                           *)

Init ==
    /\ mallocRegistry = <<>> /\ mallocFreeIdx = <<>>
    /\ mem = [a \in Addresses |-> "unused"]
    /\ hdr = [a \in Addresses |-> [idx |-> 1, size |-> 0]]
    /\ filled = [a \in Addresses |-> 0]
    /\ pc = [t \in Threads |-> "idle"]
    /\ nbytes = [t \in Threads |-> 0]
    /\ idx = [t \in Threads |-> 0]
    /\ ap = [t \in Threads |-> NoAddress]
    /\ np = [t \in Threads |-> NoAddress]
    /\ live = {} /\ stale = {}
    /\ promise = [a \in Addresses |-> 0]

\* The containment check left out: whatever slot the header names.
Lookup_Unchecked(a) == hdr[a].idx \in Slots /\ mallocRegistry[hdr[a].idx] # NoAddress

\* mallocLookup: the slot the header names exists and roots the slice p is in.
Lookup(a) == hdr[a].idx \in Slots /\ mallocRegistry[hdr[a].idx] = a

\* Under mallocMu: a valid block gives its slot back, anything else is ignored.
Release(a) ==
    IF Lookup(a)
    THEN /\ mallocRegistry' = [mallocRegistry EXCEPT ![hdr[a].idx] = NoAddress]
         /\ mallocFreeIdx' = Append(mallocFreeIdx, hdr[a].idx)
    ELSE UNCHANGED registry

\* The call thread t is in returns.
Return(t) ==
    /\ pc' = [pc EXCEPT ![t] = "idle"]
    /\ nbytes' = [nbytes EXCEPT ![t] = 0]
    /\ idx' = [idx EXCEPT ![t] = 0]
    /\ ap' = [ap EXCEPT ![t] = NoAddress]
    /\ np' = [np EXCEPT ![t] = NoAddress]

\* Thread t is to make a block of n bytes, of one where the program said 0.
StartMake(t, n) ==
    /\ pc' = [pc EXCEPT ![t] = "make"]
    /\ nbytes' = [nbytes EXCEPT ![t] = IF n = 0 THEN 1 ELSE n]

Malloc(t) ==
    /\ pc[t] = "idle"
    /\ \E n \in Sizes : StartMake(t, n)
    /\ UNCHANGED <<registry, memory, idx, ap, np, ghosts>>

\* mallocMake: the runtime makes a zeroed slice, whose header words so name
\* the registry's first slot until they are written.
Make(t) == \E a \in Addresses :
    /\ pc[t] = "make"
    /\ mem[a] = "unused"
    /\ mem' = [mem EXCEPT ![a] = "taken"]
    /\ hdr' = [hdr EXCEPT ![a] = [idx |-> 1, size |-> 0]]
    /\ filled' = [filled EXCEPT ![a] = 0]
    /\ np' = [np EXCEPT ![t] = a]
    /\ pc' = [pc EXCEPT ![t] = "root"]
    /\ stale' = IF Reissued THEN stale ELSE stale \ {a}
    /\ UNCHANGED <<registry, nbytes, idx, ap, live, promise>>

\* realloc that frees its block although no new one could be made.
MakeFails_FreesOld(t) ==
    /\ pc[t] = "make"
    /\ IF ap[t] = NoAddress THEN UNCHANGED registry ELSE Release(ap[t])
    /\ Return(t)
    /\ UNCHANGED <<memory, ghosts>>

\* The size overflows, or make panics: NULL and ENOMEM.
MakeFails(t) ==
    /\ pc[t] = "make"
    /\ Return(t)
    /\ UNCHANGED <<registry, memory, ghosts>>

\* Under mallocMu: the slice takes a recycled slot, or a new one.
Root(t) ==
    /\ pc[t] = "root"
    /\ LET k == Len(mallocFreeIdx) IN
         \/ /\ k > 0
            /\ idx' = [idx EXCEPT ![t] = mallocFreeIdx[k]]
            /\ mallocRegistry' = [mallocRegistry EXCEPT ![mallocFreeIdx[k]] = np[t]]
            /\ mallocFreeIdx' = SubSeq(mallocFreeIdx, 1, k - 1)
         \/ /\ k = 0
            /\ idx' = [idx EXCEPT ![t] = Len(mallocRegistry) + 1]
            /\ mallocRegistry' = Append(mallocRegistry, np[t])
            /\ UNCHANGED mallocFreeIdx
    /\ pc' = [pc EXCEPT ![t] = "header"]
    /\ UNCHANGED <<memory, nbytes, ap, np, ghosts>>

\* The lock is given up before the header is written.  malloc returns then;
\* realloc goes on to copy.
Header(t) ==
    /\ pc[t] = "header"
    /\ hdr' = [hdr EXCEPT ![np[t]] = [idx |-> idx[t], size |-> nbytes[t]]]
    /\ IF ap[t] = NoAddress
       THEN /\ Return(t)
            /\ live' = live \cup {np[t]}
            /\ promise' = [promise EXCEPT ![np[t]] = 0]
       ELSE /\ pc' = [pc EXCEPT ![t] = "copy"]
            /\ UNCHANGED <<locals, live, promise>>
    /\ UNCHANGED <<registry, mem, filled, stale>>

----------------------------------------------------------------------------
(* free and realloc                                                        *)

Free(t) == \E a \in live :
    /\ pc[t] = "idle" /\ Idle(a)
    /\ Release(a)
    /\ live' = live \ {a}
    /\ stale' = stale \cup {a}
    /\ UNCHANGED <<memory, pc, locals, promise>>

\* free of a pointer kept from before: a double free.
StaleFree(t) == \E a \in stale :
    /\ pc[t] = "idle"
    /\ Release(a)
    /\ UNCHANGED <<memory, pc, locals, ghosts>>

\* realloc(p, 0) frees first and then makes a block of one byte.
ReallocZero(t) == \E a \in live :
    /\ pc[t] = "idle" /\ Idle(a)
    /\ Release(a)
    /\ live' = live \ {a}
    /\ stale' = stale \cup {a}
    /\ StartMake(t, 0)
    /\ UNCHANGED <<memory, idx, ap, np, promise>>

\* realloc(p, n): p is looked up under the lock, which is then given up; a
\* pointer that is not valid gets NULL.
Realloc(t) == \E a \in live, n \in Sizes \ {0} :
    /\ pc[t] = "idle" /\ Idle(a)
    /\ Lookup(a)
    /\ StartMake(t, n)
    /\ ap' = [ap EXCEPT ![t] = a]
    /\ UNCHANGED <<registry, memory, idx, np, ghosts>>

\* The smaller of both sizes is copied, without the lock.
Copy(t) ==
    /\ pc[t] = "copy"
    /\ LET copyN == Smaller(hdr[ap[t]].size, nbytes[t]) IN
         filled' = [filled EXCEPT ![np[t]] = Smaller(filled[ap[t]], copyN)]
    /\ pc' = [pc EXCEPT ![t] = "free"]
    /\ UNCHANGED <<registry, mem, hdr, locals, ghosts>>

\* Only now is the old block freed and the new one returned.
ReallocDone(t) ==
    /\ pc[t] = "free"
    /\ Release(ap[t])
    /\ live' = (live \ {ap[t]}) \cup {np[t]}
    /\ stale' = stale \cup {ap[t]}
    /\ promise' = [promise EXCEPT ![np[t]] = Smaller(promise[ap[t]], nbytes[t])]
    /\ Return(t)
    /\ UNCHANGED memory

----------------------------------------------------------------------------
(* The program and the collector                                           *)

\* The program fills a block it owns.
Store == \E a \in live :
    /\ Idle(a)
    /\ filled' = [filled EXCEPT ![a] = hdr[a].size]
    /\ promise' = [promise EXCEPT ![a] = hdr[a].size]
    /\ UNCHANGED <<registry, mem, hdr, pc, locals, live, stale>>

\* A slice that no slot and no running call holds is collected, and another
\* Go object writes over it.
Reclaim == \E a \in Addresses, scribble \in 1 .. Cardinality(Addresses) + 1 :
    /\ mem[a] = "taken" /\ Roots(a) = {} /\ Idle(a)
    /\ mem' = [mem EXCEPT ![a] = "unused"]
    /\ hdr' = [hdr EXCEPT ![a].idx = scribble]
    /\ filled' = [filled EXCEPT ![a] = 0]
    /\ UNCHANGED <<registry, pc, locals, ghosts>>

Next ==
    \/ \E t \in Threads :
          \/ Malloc(t) \/ Make(t) \/ MakeFails(t) \/ Root(t) \/ Header(t)
          \/ Free(t) \/ StaleFree(t) \/ ReallocZero(t) \/ Realloc(t)
          \/ Copy(t) \/ ReallocDone(t)
    \/ Store
    \/ Reclaim

Spec == Init /\ [][Next]_vars

----------------------------------------------------------------------------
TypeOK ==
    /\ mallocRegistry \in Seq(Addresses \cup {NoAddress})
    /\ mallocFreeIdx \in Seq(Nat \ {0})
    /\ mem \in [Addresses -> {"unused", "taken"}]
    /\ hdr \in [Addresses -> [idx : Nat, size : Sizes]]
    /\ filled \in [Addresses -> Sizes]
    /\ pc \in [Threads -> {"idle", "make", "root", "header", "copy", "free"}]
    /\ nbytes \in [Threads -> Sizes]
    /\ idx \in [Threads -> Nat]
    /\ ap \in [Threads -> Addresses \cup {NoAddress}]
    /\ np \in [Threads -> Addresses \cup {NoAddress}]
    /\ live \subseteq Addresses /\ stale \subseteq Addresses
    /\ promise \in [Addresses -> Sizes]

\* A block the program owns is rooted, by one slot, the one its header names:
\* the collector cannot take it, and free will find it.  A failed realloc, a
\* thread between its lookup and its copy, or another thread that recycles
\* slots meanwhile changes nothing of that.
LiveBlockRooted ==
    \A a \in live : mem[a] = "taken" /\ Roots(a) = {hdr[a].idx}

\* The free list holds every slot that roots nothing, once each.
FreeIdxExact ==
    /\ {mallocFreeIdx[k] : k \in 1 .. Len(mallocFreeIdx)} = Roots(NoAddress)
    /\ Len(mallocFreeIdx) = Cardinality(Roots(NoAddress))

\* What the program stored in a block stays there, also over realloc, up to
\* the smaller of the two sizes.
BytesSurvive == \A a \in live : filled[a] >= promise[a]

\* A slot roots a block the program can still free, or one a call is making:
\* no path of realloc, failing or not, loses a block.
NoBlockLeaks ==
    \A i \in Slots : mallocRegistry[i] \in
        live \cup {NoAddress} \cup {np[t] : t \in Threads}

RegistryExact == TypeOK /\ FreeIdxExact /\ NoBlockLeaks

\* malloc.go:101-104: "The containment check makes a stale or foreign pointer
\* a no-op instead of corrupting an innocent registry slot."  Also where the
\* header it reads has been written over, or names a slot that was recycled.
StaleFreeIsNoop ==
    [][\A t \in Threads : StaleFree(t) => UNCHANGED registry]_vars

============================================================================
