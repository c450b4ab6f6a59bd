---------------------------- MODULE HandleTable ----------------------------
(***************************************************************************)
(* The dense id -> object registry of handle.go: the substrate that roots  *)
(* Go state on behalf of unmanaged C memory.  A C carrier (a pthread mutex,*)
(* a semaphore, a DIR, ...) stores only a 64-bit id; the table keeps the   *)
(* object reachable while the id is live.                                  *)
(*                                                                         *)
(* The packed id gen<<32 | (idx+1) is the record [gen, slot]: the packing  *)
(* is injective while fewer than 2^32 slots exist, and slot 0 is exactly   *)
(* the reserved id 0.  The generation keeps its width: it is counted       *)
(* modulo GenMod (2^32 in the code).                                       *)
(***************************************************************************)
EXTENDS Integers, Sequences, FiniteSets

CONSTANTS
  Procs,     \* goroutines that call into the table
  Carriers,  \* C objects with an _id field resolved by lazyInit
  GenMod,    \* number of generations: 2^32 in the code
  MaxObj     \* bound on the objects created in a behaviour

ASSUME HandleTableAssumption ==
  /\ GenMod \in Nat \ {0}
  /\ MaxObj \in Nat

VARIABLES
  registry,  \* slot -> object, or Nil for a free slot
  gens,      \* slot -> generation
  freelist,  \* recycled slots, a stack
  carrier,   \* the _id field of each C object
  pc,        \* where each goroutine is in its call
  arg,       \* the carrier and the id the call in progress works on
  result,    \* the object the goroutine's last lazyInit returned
  raced,     \* ghost: a destroy hit the carrier since that call began
  made,      \* ghost: number of objects created so far
  history,   \* ghost: every id ever issued, its object and the object's carrier
  owner,     \* ghost: the object made for each carrier, Nil once destroyed
  wrapped    \* ghost: some generation counter has wrapped around

table == <<registry, gens, freelist>>
calls == <<pc, arg, result, raced>>
vars == <<table, carrier, calls, made, history, owner, wrapped>>

Nil == 0
NoId == [gen |-> 0, slot |-> 0]
NoArg == [c |-> Nil, id |-> NoId]

Ids == [gen : Nat, slot : Nat]
Slots == DOMAIN registry
FreeSlots == {freelist[k] : k \in DOMAIN freelist}

-----------------------------------------------------------------------------
(* The unexported helpers of handle.go. *)

\* Faulty variant, for mutation: slotOf without the generation check.
SlotOf_AnyGeneration(id) == IF id.slot \in Slots THEN id.slot ELSE 0

\* slotOf: the slot an id names, or 0 when the id is stale or out of range.
SlotOf(id) ==
  IF id.slot \in Slots /\ gens[id.slot] = id.gen THEN id.slot ELSE 0

\* getLocked: the object an id resolves to, or Nil.
Resolve(id) == IF SlotOf(id) = 0 THEN Nil ELSE registry[SlotOf(id)]

\* The slot allocLocked is about to use: the top of the stack or a new one.
NextSlot ==
  IF freelist # <<>> THEN freelist[Len(freelist)] ELSE Len(registry) + 1

\* Faulty variant, for mutation: a new slot without a generation.
AllocLocked_NoGeneration(o) ==
  /\ registry' = IF freelist # <<>> THEN [registry EXCEPT ![NextSlot] = o]
                                    ELSE Append(registry, o)
  /\ freelist' = IF freelist # <<>> THEN SubSeq(freelist, 1, Len(freelist) - 1)
                                    ELSE freelist
  /\ UNCHANGED gens

\* allocLocked: root o.  Only a new slot touches gens, with generation 0.
AllocLocked(o) ==
  IF freelist # <<>>
  THEN /\ registry' = [registry EXCEPT ![NextSlot] = o]
       /\ freelist' = SubSeq(freelist, 1, Len(freelist) - 1)
       /\ UNCHANGED gens
  ELSE /\ registry' = Append(registry, o)
       /\ gens' = Append(gens, 0)
       /\ UNCHANGED freelist

\* The id the object rooted by AllocLocked receives.
NextId ==
  [gen |-> IF freelist # <<>> THEN gens[NextSlot] ELSE 0, slot |-> NextSlot]

\* gens[idx]++ on a fixed-width counter.
NextGen(g) == IF g + 1 = GenMod THEN 0 ELSE g + 1

\* Faulty variants, for mutation: free without retiring the id, ...
FreeLocked_KeepsGeneration(id) ==
  LET i == SlotOf(id)
  IN  IF i # 0 /\ registry[i] # Nil
      THEN /\ registry' = [registry EXCEPT ![i] = Nil]
           /\ freelist' = Append(freelist, i)
           /\ UNCHANGED <<gens, wrapped>>
      ELSE UNCHANGED <<table, wrapped>>

\* free: drop the root, retire the id, recycle the slot; otherwise a no-op.
FreeLocked(id) ==
  LET i == SlotOf(id)
  IN  IF i # 0 /\ registry[i] # Nil
      THEN /\ registry' = [registry EXCEPT ![i] = Nil]
           /\ gens' = [gens EXCEPT ![i] = NextGen(@)]
           /\ freelist' = Append(freelist, i)
           /\ wrapped' = (wrapped \/ gens[i] + 1 = GenMod)
      ELSE UNCHANGED <<table, wrapped>>

-----------------------------------------------------------------------------
(* Operations.  alloc, get, free and the slow path of lazyInit run under   *)
(* the table's lock and are one step each.                                 *)

\* The bound MaxObj leaves room for every lazyInit already on its slow path.
Room == made + Cardinality({q \in Procs : pc[q] = "slow"}) < MaxObj

\* Ghost bookkeeping of one new object, made for carrier c or for none.
Issue(c) ==
  /\ made < MaxObj
  /\ made' = made + 1
  /\ history' = history \cup {[id |-> NextId, obj |-> made + 1, home |-> c]}

\* alloc: an eagerly rooted object whose id is handed to C as a scalar.
Alloc(p) ==
  /\ pc[p] = "idle"
  /\ Room
  /\ Issue(Nil)
  /\ AllocLocked(made + 1)
  /\ UNCHANGED <<carrier, calls, owner, wrapped>>

\* free on an id C holds: a first close, a double close, or any stale copy.
\* The id of a carrier's current object is never among them: C frees that
\* one through Destroy.
Free(p) ==
  /\ pc[p] = "idle"
  /\ \E h \in history :
       /\ \A c \in Carriers : owner[c] # h.obj
       /\ FreeLocked(h.id)
  /\ UNCHANGED <<carrier, calls, made, history, owner>>

\* lazyInit, the unlocked load that decides between the two paths.
LazyLoad(p, c) ==
  /\ pc[p] = "idle"
  /\ carrier[c] = NoId => Room
  /\ pc' = [pc EXCEPT ![p] = IF carrier[c] # NoId THEN "get" ELSE "slow"]
  /\ arg' = [arg EXCEPT ![p] = [c |-> c, id |-> carrier[c]]]
  /\ raced' = [raced EXCEPT ![p] = FALSE]
  /\ UNCHANGED <<table, carrier, result, made, history, owner, wrapped>>

Return(p, o) ==
  /\ result' = [result EXCEPT ![p] = o]
  /\ pc' = [pc EXCEPT ![p] = "idle"]

\* lazyInit, the fast path: get(id) with the id loaded earlier.
LazyGet(p) ==
  /\ pc[p] = "get"
  /\ Return(p, Resolve(arg[p].id))
  /\ UNCHANGED <<table, carrier, arg, raced, made, history, owner, wrapped>>

\* Faulty variant, for mutation: the slow path without its re-check.
LazySlow_NoRecheck(p) ==
  LET c == arg[p].c
  IN  /\ pc[p] = "slow"
      /\ Issue(c)
      /\ AllocLocked(made + 1)
      /\ carrier' = [carrier EXCEPT ![c] = NextId]
      /\ owner' = [owner EXCEPT ![c] = made + 1]
      /\ Return(p, made + 1)
      /\ UNCHANGED <<arg, raced, wrapped>>

\* lazyInit, the slow path: re-check under the write lock, then make, root
\* and publish the object.
LazySlow(p) ==
  LET c == arg[p].c
  IN  /\ pc[p] = "slow"
      /\ \/ /\ carrier[c] # NoId
            /\ Return(p, Resolve(carrier[c]))
            /\ UNCHANGED <<table, carrier, made, history, owner>>
         \/ /\ carrier[c] = NoId
            /\ Issue(c)
            /\ AllocLocked(made + 1)
            /\ carrier' = [carrier EXCEPT ![c] = NextId]
            /\ owner' = [owner EXCEPT ![c] = made + 1]
            /\ Return(p, made + 1)
      /\ UNCHANGED <<arg, raced, wrapped>>

\* A destroy of the C object: atomically swap its id for 0 ...
DestroySwap(p, c) ==
  /\ pc[p] = "idle"
  /\ pc' = [pc EXCEPT ![p] = "free"]
  /\ arg' = [arg EXCEPT ![p] = [c |-> c, id |-> carrier[c]]]
  /\ carrier' = [carrier EXCEPT ![c] = NoId]
  /\ owner' = [owner EXCEPT ![c] = Nil]
  /\ raced' = [q \in Procs |-> raced[q] \/ q = p \/ arg[q].c = c]
  /\ UNCHANGED <<table, result, made, history, wrapped>>

\* ... then free the id the swap returned (free(0) is a no-op).
DestroyFree(p) ==
  /\ pc[p] = "free"
  /\ FreeLocked(arg[p].id)
  /\ pc' = [pc EXCEPT ![p] = "idle"]
  /\ UNCHANGED <<carrier, arg, result, raced, made, history, owner>>

-----------------------------------------------------------------------------

Init ==
  /\ registry = <<>>
  /\ gens = <<>>
  /\ freelist = <<>>
  /\ carrier = [c \in Carriers |-> NoId]
  /\ pc = [p \in Procs |-> "idle"]
  /\ arg = [p \in Procs |-> NoArg]
  /\ result = [p \in Procs |-> Nil]
  /\ raced = [p \in Procs |-> TRUE]
  /\ made = 0
  /\ history = {}
  /\ owner = [c \in Carriers |-> Nil]
  /\ wrapped = FALSE

Step(p) ==
  \/ Alloc(p)
  \/ Free(p)
  \/ \E c \in Carriers : LazyLoad(p, c)
  \/ LazyGet(p)
  \/ LazySlow(p)
  \/ \E c \in Carriers : DestroySwap(p, c)
  \/ DestroyFree(p)

Next == \E p \in Procs : Step(p)

Spec == Init /\ [][Next]_vars

-----------------------------------------------------------------------------
(* Properties. *)

Handles == [id : Ids, obj : Nat \ {0}, home : Carriers \cup {Nil}]

\* Types, and the shape the three slices share.
TypeOK ==
  /\ registry \in Seq(Nat)
  /\ gens \in Seq(0 .. GenMod - 1)
  /\ Len(gens) = Len(registry)
  /\ freelist \in Seq(Slots)
  /\ carrier \in [Carriers -> Ids]
  /\ pc \in [Procs -> {"idle", "get", "slow", "free"}]
  /\ arg \in [Procs -> [c : Carriers \cup {Nil}, id : Ids]]
  /\ \A p \in Procs : pc[p] # "idle" => arg[p].c \in Carriers
  /\ result \in [Procs -> Nat]
  /\ raced \in [Procs -> BOOLEAN]
  /\ made \in Nat
  /\ history \in SUBSET Handles
  /\ owner \in [Carriers -> Nat]
  /\ wrapped \in BOOLEAN

\* The free list holds every empty slot exactly once: allocLocked can never
\* hand one slot to two objects, and no empty slot is lost (handle.go:22-23,
\* the registry is bounded by the live objects' high-water mark).
FreeListExact ==
  /\ \A j, k \in DOMAIN freelist : j # k => freelist[j] # freelist[k]
  /\ \A i \in Slots : registry[i] = Nil <=> i \in FreeSlots

\* Until a generation counter wraps, an id resolves to the object it was
\* issued for or to nothing: however many stale copies C keeps, no get and
\* no free reaches a later occupant of the slot (handle.go:45-47).
StaleIdsMiss ==
  ~wrapped => \A h \in history : Resolve(h.id) \in {h.obj, Nil}

\* The comment of handle.go:45-47 as written, without the proviso.
DoubleCloseNeverHitsNewOccupant ==
  \A h \in history : Resolve(h.id) \in {h.obj, Nil}

\* A carrier that holds an id holds the id of the object made for it, and
\* that object is still rooted: no other close, stale or double, unroots it.
CarrierRooted ==
  ~wrapped => \A c \in Carriers :
    carrier[c] # NoId => /\ owner[c] # Nil
                         /\ Resolve(carrier[c]) = owner[c]

\* Every caller of lazyInit whose carrier was not destroyed meanwhile got the
\* one object now published there: concurrent first users agree, none gets
\* nil, and exactly one state is created (handle.go:126-130).
LazyInitAgrees ==
  ~wrapped => \A p \in Procs :
    (pc[p] = "idle" /\ ~raced[p]) =>
      /\ result[p] # Nil
      /\ result[p] = Resolve(carrier[arg[p].c])

\* Every live object made for a carrier is still denoted by that carrier, or
\* by the id a destroy has swapped out and is about to free: no root leaks.
NoLeakedRoot ==
  ~wrapped => \A h \in history :
    (h.home # Nil /\ Resolve(h.id) = h.obj) =>
      \/ owner[h.home] = h.obj /\ carrier[h.home] = h.id
      \/ \E p \in Procs : pc[p] = "free" /\ arg[p].id = h.id

\* The registry grows only while every slot is occupied, so its length is the
\* high-water mark of the concurrently live objects (handle.go:16-17).
GrowsOnlyWhenFull ==
  [][Len(registry') > Len(registry) => \A i \in Slots : registry[i] # Nil]_vars

-----------------------------------------------------------------------------
(* The table implements a map from handles to objects that has no ids at   *)
(* all, as long as fewer objects are made than a generation can count.     *)
Live == {registry[i] : i \in Slots} \ {Nil}
Bound == [c \in Carriers |-> Resolve(carrier[c])]
Map == INSTANCE HandleMap WITH live <- Live, bound <- Bound, made <- made

\* Every step of the table is a step of the abstract map, or a stutter.
ImplementsMap == Map!Spec
============================================================================
