---------------------------- MODULE MemoryProofs ----------------------------
(***************************************************************************)
(* Proofs about HandleTable, for any number of goroutines, carriers,       *)
(* objects and generations; about Malloc, for any number of threads,       *)
(* addresses and sizes; and about Environ, for any number of goroutines    *)
(* and names.                                                              *)
(***************************************************************************)
EXTENDS MCMemory, SequenceTheorems, FiniteSetTheorems, TLAPS

-----------------------------------------------------------------------------
(* The slice operations of allocLocked and free, as facts about sequences. *)

LEMMA Members ==
  ASSUME NEW Elems, NEW s \in Seq(Elems)
  PROVE  /\ Len(s) \in Nat
         /\ DOMAIN s = 1 .. Len(s)
         /\ \A k \in 1 .. Len(s) : s[k] \in Elems
         /\ s # <<>> => Len(s) \in 1 .. Len(s)
<1>1. Len(s) \in Nat /\ DOMAIN s = 1 .. Len(s)
  BY LenProperties
<1>2. \A k \in 1 .. Len(s) : s[k] \in Elems
  BY ElementOfSeq
<1>3. s # <<>> => Len(s) # 0
  BY EmptySeq
<1> QED BY <1>1, <1>2, <1>3

LEMMA Put ==
  ASSUME NEW Elems, NEW s \in Seq(Elems), NEW i \in 1 .. Len(s), NEW e \in Elems,
         NEW t, t = [s EXCEPT ![i] = e]
  PROVE  /\ t \in Seq(Elems) /\ Len(t) = Len(s)
         /\ t[i] = e
         /\ \A j \in 1 .. Len(s) : j # i => t[j] = s[j]
BY ExceptSeq

LEMMA Push ==
  ASSUME NEW Elems, NEW s \in Seq(Elems), NEW e \in Elems, NEW t, t = Append(s, e)
  PROVE  /\ t \in Seq(Elems) /\ Len(t) = Len(s) + 1
         /\ t[Len(s) + 1] = e
         /\ \A j \in 1 .. Len(s) : t[j] = s[j]
BY AppendProperties

LEMMA Pop ==
  ASSUME NEW Elems, NEW s \in Seq(Elems), s # <<>>
  PROVE  LET t == SubSeq(s, 1, Len(s) - 1)
         IN  /\ t \in Seq(Elems) /\ Len(t) = Len(s) - 1
             /\ \A j \in 1 .. Len(s) - 1 : t[j] = s[j]
<1> DEFINE n == Len(s) - 1
<1>1. n \in Nat /\ \A j \in 1 .. n : s[j] \in Elems
  BY Members
<1> HIDE DEF n
<1> DEFINE u == SubSeq(s, 1, n)
<1>2. /\ u \in Seq(Elems)
      /\ Len(u) = IF 1 <= n THEN n - 1 + 1 ELSE 0
      /\ \A j \in 1 .. n - 1 + 1 : u[j] = s[1 + j - 1]
  BY <1>1, SubSeqProperties
<1> HIDE DEF u
<1>3. u \in Seq(Elems) /\ Len(u) = n /\ \A j \in 1 .. n : u[j] = s[j]
  BY <1>1, <1>2
<1> QED BY <1>3 DEF n, u

-----------------------------------------------------------------------------
(* What allocLocked and free do to the three slices. *)

\* The part of TypeOK about the slices.
TableOK ==
  /\ registry \in Seq(Nat)
  /\ gens \in Seq(0 .. GenMod - 1)
  /\ Len(gens) = Len(registry)
  /\ freelist \in Seq(1 .. Len(registry))

\* TableOK and FreeListExact, with the set of free slots spelled out.
LEMMA TableFacts ==
  ASSUME TableOK
  PROVE  /\ Len(registry) \in Nat /\ Slots = 1 .. Len(registry)
         /\ DOMAIN gens = Slots
         /\ \A i \in Slots : registry[i] \in Nat /\ gens[i] \in 0 .. GenMod - 1
         /\ Len(freelist) \in Nat
         /\ \A k \in 1 .. Len(freelist) : freelist[k] \in Slots
         /\ freelist # <<>> => Len(freelist) \in 1 .. Len(freelist)
         /\ FreeListExact <=>
              /\ \A j, k \in 1 .. Len(freelist) : j # k => freelist[j] # freelist[k]
              /\ \A i \in Slots : registry[i] = Nil <=>
                   \E k \in 1 .. Len(freelist) : freelist[k] = i
<1>1. registry \in Seq(Nat) /\ gens \in Seq(0 .. GenMod - 1)
      /\ Len(gens) = Len(registry) /\ freelist \in Seq(1 .. Len(registry))
  BY DEF TableOK
<1>2. Len(registry) \in Nat /\ DOMAIN registry = 1 .. Len(registry)
      /\ \A i \in 1 .. Len(registry) : registry[i] \in Nat
  BY <1>1, Members
<1>3. DOMAIN gens = 1 .. Len(registry)
      /\ \A i \in 1 .. Len(registry) : gens[i] \in 0 .. GenMod - 1
  BY <1>1, Members
<1>4. /\ Len(freelist) \in Nat /\ DOMAIN freelist = 1 .. Len(freelist)
      /\ \A k \in 1 .. Len(freelist) : freelist[k] \in 1 .. Len(registry)
      /\ freelist # <<>> => Len(freelist) \in 1 .. Len(freelist)
  BY <1>1, Members
<1>5. \A i : i \in FreeSlots <=> \E k \in 1 .. Len(freelist) : freelist[k] = i
  BY <1>4 DEF FreeSlots
<1>6. Slots = 1 .. Len(registry)
  BY <1>2 DEF Slots
<1>7. FreeListExact <=>
        /\ \A j, k \in 1 .. Len(freelist) : j # k => freelist[j] # freelist[k]
        /\ \A i \in Slots : registry[i] = Nil <=>
             \E k \in 1 .. Len(freelist) : freelist[k] = i
  <2> HIDE DEF Slots, FreeSlots
  <2>1. DOMAIN freelist = 1 .. Len(freelist)
    BY <1>4
  <2> QED BY <1>5, <2>1 DEF FreeListExact
<1> QED BY <1>2, <1>3, <1>4, <1>6, <1>7

\* allocLocked writes one slot that was free or new, and pops or grows.
LEMMA AllocEffect ==
  ASSUME TableOK, FreeListExact, NEW o \in Nat \ {0}, AllocLocked(o)
  PROVE  /\ TableOK' /\ FreeListExact'
         /\ NextSlot \in Slots' /\ NextSlot # 0
         /\ Slots' = Slots \cup {NextSlot}
         /\ NextSlot \in Slots => registry[NextSlot] = Nil
         /\ registry'[NextSlot] = o
         /\ \A i \in Slots : i # NextSlot => registry'[i] = registry[i]
         /\ \A i \in Slots : gens'[i] = gens[i]
         /\ NextId = [gen |-> gens'[NextSlot], slot |-> NextSlot]
<1> DEFINE n == Len(registry)
           m == Len(freelist)
<1>1. /\ n \in Nat /\ Slots = 1 .. n
      /\ m \in Nat /\ \A k \in 1 .. m : freelist[k] \in Slots
      /\ freelist # <<>> => m \in 1 .. m
      /\ \A j, k \in 1 .. m : j # k => freelist[j] # freelist[k]
      /\ \A i \in Slots : registry[i] = Nil <=> \E k \in 1 .. m : freelist[k] = i
  BY TableFacts
<1>2. registry \in Seq(Nat) /\ gens \in Seq(0 .. GenMod - 1)
      /\ Len(gens) = n /\ freelist \in Seq(1 .. n)
  BY DEF TableOK
<1>3. CASE freelist # <<>>
  <2>1. NextSlot = freelist[m] /\ NextSlot \in 1 .. n /\ m \in 1 .. m
    BY <1>1, <1>3 DEF NextSlot
  <2>2. /\ registry' = [registry EXCEPT ![NextSlot] = o]
        /\ freelist' = SubSeq(freelist, 1, m - 1)
        /\ gens' = gens
    BY <1>3 DEF AllocLocked
  <2>3. /\ registry' \in Seq(Nat) /\ Len(registry') = n
        /\ registry'[NextSlot] = o
        /\ \A j \in 1 .. n : j # NextSlot => registry'[j] = registry[j]
    BY <1>2, <2>1, <2>2, Put
  <2>4. /\ freelist' \in Seq(1 .. n) /\ Len(freelist') = m - 1
        /\ \A j \in 1 .. m - 1 : freelist'[j] = freelist[j]
    <3>1. freelist \in Seq(1 .. n) /\ freelist # <<>>
          /\ freelist' = SubSeq(freelist, 1, Len(freelist) - 1)
      BY <1>2, <1>3, <2>2
    <3> DEFINE Elems == 1 .. n
    <3>2. freelist \in Seq(Elems)
      BY <3>1
    <3> HIDE DEF Elems
    <3>3. /\ freelist' \in Seq(Elems) /\ Len(freelist') = Len(freelist) - 1
          /\ \A j \in 1 .. Len(freelist) - 1 : freelist'[j] = freelist[j]
      <4>1. LET t == SubSeq(freelist, 1, Len(freelist) - 1)
            IN  /\ t \in Seq(Elems) /\ Len(t) = Len(freelist) - 1
                /\ \A j \in 1 .. Len(freelist) - 1 : t[j] = freelist[j]
        BY <3>1, <3>2, Pop
      <4> QED BY <4>1, <3>1
    <3> QED BY <3>3 DEF Elems
  <2>5. TableOK'
    BY <1>2, <2>2, <2>3, <2>4 DEF TableOK
  <2>6. Slots' = 1 .. n
    BY <2>3, Members DEF Slots
  <2>7. /\ \A j, k \in 1 .. Len(freelist') : j # k => freelist'[j] # freelist'[k]
        /\ \A i \in Slots' : registry'[i] = Nil <=>
             \E k \in 1 .. Len(freelist') : freelist'[k] = i
    <3> HIDE DEF n, m
    <3>1. \A j, k \in 1 .. Len(freelist') : j # k => freelist'[j] # freelist'[k]
      BY <1>1, <2>4
    <3>2. ASSUME NEW i \in 1 .. n
          PROVE  (\E k \in 1 .. m - 1 : freelist[k] = i)
                   <=> (i # NextSlot /\ \E k \in 1 .. m : freelist[k] = i)
      <4>1. \A k \in 1 .. m : k = m \/ k \in 1 .. m - 1
        BY <1>1
      <4>2. \A k \in 1 .. m - 1 : k \in 1 .. m /\ freelist[k] # NextSlot
        BY <1>1, <2>1
      <4> QED BY <4>1, <4>2, <2>1
    <3>3. ASSUME NEW i \in 1 .. n
          PROVE  registry'[i] = Nil <=> \E k \in 1 .. m - 1 : freelist'[k] = i
      <4>1. registry'[i] = Nil <=> (i # NextSlot /\ registry[i] = Nil)
        BY <2>1, <2>3 DEF Nil
      <4>2. registry[i] = Nil <=> \E k \in 1 .. m : freelist[k] = i
        BY <1>1
      <4>3. (\E k \in 1 .. m - 1 : freelist'[k] = i)
              <=> (\E k \in 1 .. m - 1 : freelist[k] = i)
        BY <2>4 DEF m
      <4> QED BY <3>2, <4>1, <4>2, <4>3
    <3> QED BY <3>1, <3>3, <2>4, <2>6
  <2>8. FreeListExact'
    <3>1. DOMAIN freelist' = 1 .. Len(freelist')
      BY <2>4, Members
    <3> QED BY <2>7, <3>1 DEF FreeListExact, FreeSlots
  <2>9. NextSlot \in Slots => registry[NextSlot] = Nil
    BY <1>1, <2>1
  <2>10. NextId = [gen |-> gens'[NextSlot], slot |-> NextSlot]
    BY <1>3, <2>2 DEF NextId
  <2> QED
    BY <1>1, <2>1, <2>2, <2>3, <2>5, <2>6, <2>8, <2>9, <2>10
<1>4. CASE freelist = <<>>
  <2>1. NextSlot = n + 1 /\ NextSlot \notin Slots /\ NextSlot # 0
    BY <1>1, <1>4 DEF NextSlot
  <2>2. /\ registry' = Append(registry, o)
        /\ gens' = Append(gens, 0)
        /\ freelist' = freelist
    BY <1>4 DEF AllocLocked
  <2>3. /\ registry' \in Seq(Nat) /\ Len(registry') = n + 1
        /\ registry'[n + 1] = o
        /\ \A i \in 1 .. n : registry'[i] = registry[i]
    BY <1>2, <2>2, Push
  <2>4. 0 \in 0 .. GenMod - 1
    BY HandleTableAssumption
  <2>5. /\ gens' \in Seq(0 .. GenMod - 1) /\ Len(gens') = n + 1
        /\ gens'[n + 1] = 0
        /\ \A i \in 1 .. n : gens'[i] = gens[i]
    BY <1>2, <2>2, <2>4, Push
  <2>6. TableOK'
    <3>1. freelist' \in Seq(1 .. n + 1)
      BY <1>4, <2>2, EmptySeq
    <3> QED BY <2>3, <2>5, <3>1 DEF TableOK
  <2>7. Slots' = 1 .. n + 1
    BY <2>3, Members DEF Slots
  <2>8. DOMAIN freelist' = {}
    BY <1>4, <2>2
  <2>9. m = 0
    BY <1>4
  <2>10. FreeListExact'
    BY <1>1, <2>3, <2>7, <2>8, <2>9 DEF FreeListExact, FreeSlots, Nil
  <2>11. NextId = [gen |-> gens'[NextSlot], slot |-> NextSlot]
    BY <1>4, <2>1, <2>5 DEF NextId
  <2> QED
    BY <1>1, <2>1, <2>3, <2>5, <2>6, <2>7, <2>10, <2>11
<1> QED BY <1>3, <1>4

\* free either leaves the table alone or empties the one occupied slot whose
\* generation the id carries, and moves that slot to the next generation.
LEMMA FreeEffect ==
  ASSUME TableOK, FreeListExact, wrapped \in BOOLEAN,
         NEW id \in Ids, FreeLocked(id)
  PROVE  /\ TableOK' /\ FreeListExact' /\ wrapped' \in BOOLEAN
         /\ wrapped => wrapped'
         /\ Slots' = Slots
         /\ \/ UNCHANGED <<registry, gens, freelist, wrapped>>
            \/ /\ id.slot \in Slots /\ gens[id.slot] = id.gen
               /\ registry[id.slot] # Nil /\ registry'[id.slot] = Nil
               /\ \A i \in Slots : i # id.slot => /\ registry'[i] = registry[i]
                                                /\ gens'[i] = gens[i]
               /\ ~wrapped' => gens'[id.slot] = gens[id.slot] + 1
<1> DEFINE n == Len(registry)
           m == Len(freelist)
           i == SlotOf(id)
<1>1. /\ n \in Nat /\ Slots = 1 .. n
      /\ \A j \in Slots : gens[j] \in 0 .. GenMod - 1
      /\ m \in Nat /\ \A k \in 1 .. m : freelist[k] \in Slots
      /\ \A j, k \in 1 .. m : j # k => freelist[j] # freelist[k]
      /\ \A j \in Slots : registry[j] = Nil <=> \E k \in 1 .. m : freelist[k] = j
  BY TableFacts
<1>2. registry \in Seq(Nat) /\ gens \in Seq(0 .. GenMod - 1)
      /\ Len(gens) = n /\ freelist \in Seq(1 .. n)
  BY DEF TableOK
<1>3. CASE i # 0 /\ registry[i] # Nil
  <2>1. i = id.slot /\ i \in 1 .. n /\ gens[i] = id.gen
    BY <1>1, <1>3 DEF SlotOf
  <2>2. /\ registry' = [registry EXCEPT ![i] = Nil]
        /\ gens' = [gens EXCEPT ![i] = NextGen(gens[i])]
        /\ freelist' = Append(freelist, i)
        /\ wrapped' = (wrapped \/ gens[i] + 1 = GenMod)
    BY <1>3 DEF FreeLocked
  <2> HIDE DEF i
  <2>3. Nil \in Nat
    BY DEF Nil
  <2>4. /\ registry' \in Seq(Nat) /\ Len(registry') = n
        /\ registry'[i] = Nil
        /\ \A j \in 1 .. n : j # i => registry'[j] = registry[j]
    BY <1>2, <2>1, <2>2, <2>3, Put
  <2>5. gens[i] \in 0 .. GenMod - 1 /\ NextGen(gens[i]) \in 0 .. GenMod - 1
    BY <1>1, <2>1, HandleTableAssumption DEF NextGen
  <2>6. /\ gens' \in Seq(0 .. GenMod - 1) /\ Len(gens') = n
        /\ gens'[i] = NextGen(gens[i])
        /\ \A j \in 1 .. n : j # i => gens'[j] = gens[j]
    BY <1>2, <2>1, <2>2, <2>5, Put
  <2>7. wrapped' \in BOOLEAN /\ (wrapped => wrapped')
        /\ (~wrapped' => gens'[i] = gens[i] + 1)
    BY <2>2, <2>6 DEF NextGen
  <2>8. /\ freelist' \in Seq(1 .. n) /\ Len(freelist') = m + 1
        /\ freelist'[m + 1] = i
        /\ \A k \in 1 .. m : freelist'[k] = freelist[k]
    <3> DEFINE Elems == 1 .. n
    <3>1. freelist \in Seq(Elems) /\ i \in Elems
      BY <1>2, <2>1
    <3> HIDE DEF Elems
    <3>2. /\ freelist' \in Seq(Elems) /\ Len(freelist') = Len(freelist) + 1
          /\ freelist'[Len(freelist) + 1] = i
          /\ \A k \in 1 .. Len(freelist) : freelist'[k] = freelist[k]
      BY <2>2, <3>1, Push
    <3> QED BY <3>2 DEF Elems
  <2>9. Slots' = Slots
    BY <1>1, <2>4, Members DEF Slots
  <2>10. TableOK'
    BY <2>4, <2>6, <2>8 DEF TableOK
  <2>11. FreeListExact'
    <3> HIDE DEF n, m
    <3>1. \A k \in 1 .. m : freelist[k] # i
      BY <1>1, <1>3, <2>1
    <3>2. \A k \in 1 .. m + 1 : k = m + 1 \/ k \in 1 .. m
      BY <1>1
    <3>3. m + 1 \in 1 .. m + 1 /\ \A k \in 1 .. m : k \in 1 .. m + 1
      BY <1>1
    <3>4. \A j, k \in 1 .. m + 1 : j # k => freelist'[j] # freelist'[k]
      BY <1>1, <2>8, <3>1, <3>2
    <3>5. ASSUME NEW j \in Slots
          PROVE  registry'[j] = Nil <=> \E k \in 1 .. m + 1 : freelist'[k] = j
      <4>1. registry'[j] = Nil <=> (j = i \/ registry[j] = Nil)
        BY <1>1, <2>4
      <4>2. (\E k \in 1 .. m + 1 : freelist'[k] = j)
              <=> (j = i \/ \E k \in 1 .. m : freelist[k] = j)
        BY <2>8, <3>2, <3>3
      <4> QED BY <1>1, <4>1, <4>2
    <3>6. DOMAIN freelist' = 1 .. m + 1
      BY <2>8, Members
    <3> QED BY <2>9, <3>4, <3>5, <3>6 DEF FreeListExact, FreeSlots
  <2> QED
    BY <1>1, <1>3, <2>1, <2>4, <2>6, <2>7, <2>9, <2>10, <2>11 DEF i
<1>4. CASE ~(i # 0 /\ registry[i] # Nil)
  <2>1. UNCHANGED <<registry, gens, freelist, wrapped>>
    BY <1>4 DEF FreeLocked, table
  <2> QED
    BY <2>1 DEF TableOK, FreeListExact, FreeSlots, Slots
<1> QED BY <1>3, <1>4

-----------------------------------------------------------------------------
(* The inductive invariant.  Its first part is about the table alone.      *)

\* Objects are numbered in the order they are made.
Fresh ==
  /\ \A i \in Slots : registry[i] <= made
  /\ \A h \in history : h.obj <= made

\* No id is ahead of its slot's generation, and an id of the current
\* generation names the occupant.
Current ==
  \A h \in history :
    /\ h.id.slot \in Slots
    /\ h.id.gen <= gens[h.id.slot]
    /\ h.id.gen = gens[h.id.slot] => registry[h.id.slot] = h.obj

Core ==
  /\ TableOK
  /\ FreeListExact
  /\ made \in Nat /\ wrapped \in BOOLEAN
  /\ history \in SUBSET Handles
  /\ Fresh
  /\ ~wrapped => Current

\* The second part relates the table to the carriers and the calls.
CallsOK ==
  /\ carrier \in [Carriers -> Ids]
  /\ owner \in [Carriers -> Nat]
  /\ pc \in [Procs -> {"idle", "get", "slow", "free"}]
  /\ arg \in [Procs -> [c : Carriers \cup {Nil}, id : Ids]]
  /\ \A p \in Procs : pc[p] # "idle" => arg[p].c \in Carriers
  /\ result \in [Procs -> Nat]
  /\ raced \in [Procs -> BOOLEAN]

\* A carrier's id was issued for its owner, and no two carriers share one.
CarrierIds ==
  \A c \in Carriers :
    /\ carrier[c] = NoId => owner[c] = Nil
    /\ carrier[c] # NoId =>
         /\ owner[c] # Nil
         /\ [id |-> carrier[c], obj |-> owner[c], home |-> c] \in history
    /\ \A d \in Carriers : c # d /\ owner[c] # Nil => owner[c] # owner[d]

\* The id a destroy is about to free belongs to no carrier any more.
PendingFree ==
  \A p \in Procs : pc[p] = "free" /\ arg[p].id # NoId =>
    \E h \in history : h.id = arg[p].id /\ \A c \in Carriers : owner[c] # h.obj

\* Undisturbed lazyInit calls are on the way to their carrier's owner.
Undisturbed ==
  \A p \in Procs : ~raced[p] =>
    /\ arg[p].c \in Carriers
    /\ pc[p] # "free"
    /\ pc[p] = "get" => arg[p].id = carrier[arg[p].c] /\ arg[p].id # NoId
    /\ pc[p] = "idle" => /\ carrier[arg[p].c] # NoId
                         /\ ~wrapped => result[p] = owner[arg[p].c]

Inv ==
  /\ Core
  /\ CallsOK
  /\ CarrierIds
  /\ CarrierRooted
  /\ PendingFree
  /\ Undisturbed
  /\ NoLeakedRoot

-----------------------------------------------------------------------------
(* What a step of the table does to the meaning of the issued ids.         *)

\* Rooting a new object leaves the meaning of every issued id alone.
LEMMA AllocCore ==
  ASSUME Core, NEW c \in Carriers \cup {Nil},
         Issue(c), AllocLocked(made + 1), wrapped' = wrapped,
         NEW id, id = NextId
  PROVE  /\ Core'
         /\ id \in Ids /\ id # NoId
         /\ Resolve(id)' = made + 1
         /\ ~wrapped => \A h \in history : Resolve(h.id)' = Resolve(h.id)
<1> DEFINE o == made + 1
           s == NextSlot
<1>1. /\ TableOK /\ FreeListExact /\ made \in Nat /\ wrapped \in BOOLEAN
      /\ history \in SUBSET Handles /\ Fresh /\ (~wrapped => Current)
  BY DEF Core
<1>2. o \in Nat \ {0} /\ made' = o
  BY <1>1 DEF Issue
<1>3. history' = history \cup {[id |-> id, obj |-> o, home |-> c]}
  BY DEF Issue
<1>4. /\ TableOK' /\ FreeListExact'
      /\ s \in Slots' /\ s # 0
      /\ Slots' = Slots \cup {s}
      /\ s \in Slots => registry[s] = Nil
      /\ registry'[s] = o
      /\ \A i \in Slots : i # s => registry'[i] = registry[i]
      /\ \A i \in Slots : gens'[i] = gens[i]
      /\ id = [gen |-> gens'[s], slot |-> s]
  BY <1>1, <1>2, AllocEffect
<1> HIDE DEF o, s
<1>5. /\ Slots \subseteq Nat /\ Slots' \subseteq Nat
      /\ 0 \notin Slots /\ 0 \notin Slots'
      /\ \A i \in Slots : gens[i] \in Nat /\ registry[i] \in Nat
      /\ \A i \in Slots' : gens'[i] \in Nat
  <2>1. \A k \in Nat : 1 .. k \subseteq Nat /\ 0 \notin 1 .. k
    OBVIOUS
  <2>2. Len(registry) \in Nat /\ Slots = 1 .. Len(registry)
        /\ \A i \in Slots : registry[i] \in Nat /\ gens[i] \in 0 .. GenMod - 1
    BY <1>1, TableFacts
  <2>3. registry' \in Seq(Nat) /\ gens' \in Seq(0 .. GenMod - 1)
        /\ Len(gens') = Len(registry')
    BY <1>4 DEF TableOK
  <2>4. Len(registry') \in Nat /\ Slots' = 1 .. Len(registry')
        /\ \A i \in Slots' : gens'[i] \in 0 .. GenMod - 1
    BY <2>3, Members DEF Slots
  <2> QED BY <2>1, <2>2, <2>4, HandleTableAssumption
<1>6. id \in Ids /\ id # NoId /\ id.slot = s /\ id.gen = gens'[s]
  BY <1>4, <1>5 DEF Ids, NoId
<1>7. Resolve(id)' = o
  BY <1>4, <1>5, <1>6 DEF Resolve, SlotOf
<1>8. history' \in SUBSET Handles
  BY <1>1, <1>2, <1>3, <1>6 DEF Handles
<1>9. \A h \in history : h.id.slot \in Nat /\ h.id.gen \in Nat /\ h.obj \in Nat \ {0}
  BY <1>1 DEF Handles, Ids
<1>10. Fresh'
  <2>1. \A i \in Slots' : registry'[i] <= o
    BY <1>1, <1>2, <1>4, <1>5 DEF Fresh, o
  <2>2. \A h \in history' : h.obj <= o
    BY <1>1, <1>2, <1>3, <1>9 DEF Fresh, o
  <2> QED BY <1>2, <2>1, <2>2 DEF Fresh
<1>11. ASSUME ~wrapped, NEW h \in history
       PROVE  /\ h.id.slot \in Slots' /\ h.id.gen <= gens'[h.id.slot]
              /\ h.id.gen = gens'[h.id.slot] => registry'[h.id.slot] = h.obj
              /\ Resolve(h.id)' = Resolve(h.id)
  <2>1. /\ h.id.slot \in Slots /\ h.id.gen <= gens[h.id.slot]
        /\ h.id.gen = gens[h.id.slot] => registry[h.id.slot] = h.obj
    BY <1>1, <1>11 DEF Current
  <2>2. h.id.gen = gens[h.id.slot] => h.id.slot # s
    BY <1>4, <1>9, <2>1 DEF Nil
  <2>3. h.id.slot \in Slots' /\ gens'[h.id.slot] = gens[h.id.slot]
    BY <1>4, <2>1
  <2>4. h.id.gen = gens[h.id.slot] => registry'[h.id.slot] = registry[h.id.slot]
    BY <1>4, <2>1, <2>2
  <2>5. Resolve(h.id)' = Resolve(h.id)
    BY <1>5, <2>1, <2>3, <2>4 DEF Resolve, SlotOf
  <2> QED BY <2>1, <2>3, <2>4, <2>5
<1>12. ~wrapped => Current'
  <2>1. id.slot \in Slots' /\ id.gen = gens'[id.slot]
        /\ registry'[id.slot] = o
    BY <1>4, <1>6
  <2>2. gens'[s] <= gens'[s]
    BY <1>4, <1>5
  <2> QED BY <1>3, <1>6, <1>11, <2>1, <2>2 DEF Current
<1> QED
  BY <1>1, <1>2, <1>4, <1>6, <1>7, <1>8, <1>10, <1>11, <1>12 DEF Core, o

\* Freeing an id makes the ids of its object resolve to nothing, and leaves
\* the meaning of every id of another slot alone.
LEMMA FreeCore ==
  ASSUME Core, NEW id \in Ids, FreeLocked(id), UNCHANGED <<made, history>>
  PROVE  /\ Core' /\ (wrapped => wrapped')
         /\ ~wrapped' => \A h \in history :
              Resolve(h.id)' = IF Resolve(id) # Nil /\ h.id.slot = id.slot
                               THEN Nil ELSE Resolve(h.id)
<1>1. /\ TableOK /\ FreeListExact /\ made \in Nat /\ wrapped \in BOOLEAN
      /\ history \in SUBSET Handles /\ Fresh /\ (~wrapped => Current)
  BY DEF Core
<1>2. /\ TableOK' /\ FreeListExact' /\ wrapped' \in BOOLEAN
      /\ wrapped => wrapped'
      /\ Slots' = Slots
      /\ \/ UNCHANGED <<registry, gens, freelist, wrapped>>
         \/ /\ id.slot \in Slots /\ gens[id.slot] = id.gen
            /\ registry[id.slot] # Nil /\ registry'[id.slot] = Nil
            /\ \A i \in Slots : i # id.slot => /\ registry'[i] = registry[i]
                                             /\ gens'[i] = gens[i]
            /\ ~wrapped' => gens'[id.slot] = gens[id.slot] + 1
  BY <1>1, FreeEffect
<1>3. /\ 0 \notin Slots
      /\ \A i \in Slots : gens[i] \in Nat /\ registry[i] \in Nat
  <2>1. \A k \in Nat : 0 \notin 1 .. k
    OBVIOUS
  <2> QED BY <1>1, <2>1, TableFacts
<1>4. \A h \in history : h.id.slot \in Nat /\ h.id.gen \in Nat /\ h.obj \in Nat \ {0}
  BY <1>1 DEF Handles, Ids
<1>5. id.slot \in Nat /\ id.gen \in Nat
  BY DEF Ids
<1>6. CASE UNCHANGED <<registry, gens, freelist, wrapped>>
  <2>1. Core'
    BY <1>1, <1>2, <1>6 DEF Core, Fresh, Current
  <2>2. \A h \in history : Resolve(h.id)' = Resolve(h.id)
    BY <1>6 DEF Resolve, SlotOf, Slots
  <2>3. Resolve(id) = Nil
    <3> SUFFICES ASSUME Resolve(id) # Nil PROVE FALSE
      OBVIOUS
    <3>1. SlotOf(id) # 0 /\ registry[SlotOf(id)] # Nil /\ SlotOf(id) \in Slots
      BY DEF Resolve, SlotOf
    <3>2. registry' = [registry EXCEPT ![SlotOf(id)] = Nil]
      BY <3>1 DEF FreeLocked
    <3>3. registry'[SlotOf(id)] = Nil
      BY <3>1, <3>2 DEF Slots
    <3> QED BY <1>6, <3>1, <3>3
  <2> QED BY <1>2, <2>1, <2>2, <2>3
<1>7. CASE /\ id.slot \in Slots /\ gens[id.slot] = id.gen
           /\ registry[id.slot] # Nil /\ registry'[id.slot] = Nil
           /\ \A i \in Slots : i # id.slot => /\ registry'[i] = registry[i]
                                            /\ gens'[i] = gens[i]
           /\ ~wrapped' => gens'[id.slot] = gens[id.slot] + 1
  <2>1. Resolve(id) # Nil
    BY <1>3, <1>7 DEF Resolve, SlotOf
  <2>2. Fresh'
    <3>1. \A i \in Slots : registry'[i] <= made
      BY <1>1, <1>3, <1>7 DEF Fresh, Nil
    <3> QED BY <1>1, <1>2, <3>1 DEF Fresh
  <2>3. ASSUME ~wrapped', NEW h \in history
        PROVE  /\ h.id.slot \in Slots' /\ h.id.gen <= gens'[h.id.slot]
               /\ h.id.gen = gens'[h.id.slot] => registry'[h.id.slot] = h.obj
               /\ Resolve(h.id)' = IF h.id.slot = id.slot THEN Nil ELSE Resolve(h.id)
    <3>1. /\ h.id.slot \in Slots /\ h.id.gen <= gens[h.id.slot]
          /\ h.id.gen = gens[h.id.slot] => registry[h.id.slot] = h.obj
      BY <1>1, <1>2, <2>3 DEF Current
    <3>2. CASE h.id.slot = id.slot
      <4>1. gens'[h.id.slot] = gens[h.id.slot] + 1
        BY <1>7, <2>3, <3>2
      <4>2. h.id.gen < gens'[h.id.slot]
        BY <1>3, <1>4, <3>1, <4>1
      <4>3. Resolve(h.id)' = Nil
        BY <1>4, <4>1, <4>2, <1>3, <3>1 DEF Resolve, SlotOf
      <4> QED BY <1>2, <1>3, <1>4, <3>1, <3>2, <4>1, <4>2, <4>3
    <3>3. CASE h.id.slot # id.slot
      <4>1. gens'[h.id.slot] = gens[h.id.slot] /\ registry'[h.id.slot] = registry[h.id.slot]
        BY <1>7, <3>1, <3>3
      <4>2. Resolve(h.id)' = Resolve(h.id)
        BY <1>2, <1>3, <3>1, <4>1 DEF Resolve, SlotOf
      <4> QED BY <1>2, <3>1, <3>3, <4>1, <4>2
    <3> QED BY <3>2, <3>3
  <2>4. ~wrapped' => Current'
    BY <2>3 DEF Current
  <2>5. Core'
    BY <1>1, <1>2, <2>2, <2>4 DEF Core
  <2> QED BY <1>2, <2>1, <2>3, <2>5
<1> QED BY <1>2, <1>6, <1>7

-----------------------------------------------------------------------------
(* The invariant holds initially and is preserved by every step.           *)

LEMMA CoreFacts ==
  ASSUME Core
  PROVE  /\ StaleIdsMiss
         /\ \A id \in Ids : Resolve(id) \in Nat
         /\ \A id : id.slot = 0 => Resolve(id) = Nil
         /\ \A h \in history : /\ h.id \in Ids
                               /\ h.obj \in Nat \ {0} /\ h.obj <= made
                               /\ h.home \in Carriers \cup {Nil}
<1>1. /\ TableOK /\ history \in SUBSET Handles /\ Fresh /\ (~wrapped => Current)
  BY DEF Core
<1>2. \A i \in Slots : registry[i] \in Nat
  BY <1>1, TableFacts
<1>3. StaleIdsMiss
  BY <1>1 DEF StaleIdsMiss, Current, Resolve, SlotOf
<1>4. \A id \in Ids : Resolve(id) \in Nat
  BY <1>2 DEF Resolve, SlotOf, Nil
<1>5. \A id : id.slot = 0 => Resolve(id) = Nil
  BY DEF Resolve, SlotOf
<1>6. \A h \in history : /\ h.id \in Ids
                         /\ h.obj \in Nat \ {0} /\ h.obj <= made
                         /\ h.home \in Carriers \cup {Nil}
  BY <1>1 DEF Handles, Fresh
<1> QED BY <1>3, <1>4, <1>5, <1>6

LEMMA InitInv == Init => Inv
<1> SUFFICES ASSUME Init PROVE Inv
  OBVIOUS
<1>1. registry = <<>> /\ gens = <<>> /\ freelist = <<>> /\ history = {}
      /\ made = 0 /\ wrapped = FALSE
  BY DEF Init
<1>2. TableOK
  BY <1>1, EmptySeq DEF TableOK
<1>3. DOMAIN registry = {} /\ DOMAIN freelist = {}
  BY <1>1
<1>4. FreeListExact /\ Fresh /\ Current
  BY <1>1, <1>3 DEF FreeListExact, Fresh, Current, Slots
<1>5. Core
  BY <1>1, <1>2, <1>4 DEF Core
<1>6. NoId \in Ids
  BY DEF NoId, Ids
<1>7. CallsOK
  BY <1>6 DEF Init, CallsOK, NoArg, Nil
<1>8. CarrierIds /\ CarrierRooted
  BY DEF Init, CarrierIds, CarrierRooted
<1>9. PendingFree /\ Undisturbed /\ NoLeakedRoot
  BY DEF Init, PendingFree, Undisturbed, NoLeakedRoot
<1> QED BY <1>5, <1>7, <1>8, <1>9 DEF Inv

LEMMA AllocInv ==
  ASSUME Inv, NEW p \in Procs, Alloc(p)
  PROVE  Inv'
<1>1. /\ Issue(Nil) /\ AllocLocked(made + 1)
      /\ UNCHANGED <<carrier, pc, arg, result, raced, owner, wrapped>>
  BY DEF Alloc, calls
<1>2. Core
  BY DEF Inv
<1>3. PICK id : id = NextId
  OBVIOUS
<1>4. Core' /\ (~wrapped => \A h \in history : Resolve(h.id)' = Resolve(h.id))
  BY <1>1, <1>2, <1>3, AllocCore
<1>5. history' = history \cup {[id |-> id, obj |-> made + 1, home |-> Nil]}
  BY <1>1, <1>3 DEF Issue
<1>6. CallsOK' /\ Undisturbed'
  BY <1>1 DEF Inv, CallsOK, Undisturbed
<1>7. CarrierIds' /\ PendingFree'
  BY <1>1, <1>5 DEF Inv, CarrierIds, PendingFree
<1>8. CarrierRooted'
  <2> SUFFICES ASSUME ~wrapped, NEW c \in Carriers, carrier[c] # NoId
               PROVE  owner[c] # Nil /\ Resolve(carrier[c])' = owner[c]
    BY <1>1 DEF CarrierRooted, Resolve, SlotOf, Slots
  <2>1. owner[c] # Nil /\ Resolve(carrier[c]) = owner[c]
        /\ [id |-> carrier[c], obj |-> owner[c], home |-> c] \in history
    BY DEF Inv, CarrierRooted, CarrierIds
  <2>2. PICK h \in history : h.id = carrier[c]
    BY <2>1
  <2>3. Resolve(carrier[c])' = Resolve(h.id)'
    BY <1>1, <2>2 DEF Resolve, SlotOf
  <2> QED BY <1>4, <2>1, <2>2, <2>3
<1>9. NoLeakedRoot'
  BY <1>1, <1>4, <1>5 DEF Inv, NoLeakedRoot
<1> QED BY <1>4, <1>6, <1>7, <1>8, <1>9 DEF Inv

\* A free of an id no carrier owns unroots no carrier's object.
LEMMA FreeUnowned ==
  ASSUME Inv, NEW id \in Ids, FreeLocked(id),
         UNCHANGED <<made, history, carrier, owner>>,
         \/ id = NoId
         \/ \E h \in history : h.id = id /\ \A c \in Carriers : owner[c] # h.obj
  PROVE  /\ Core' /\ CarrierRooted' /\ (wrapped => wrapped')
         /\ ~wrapped' => \A h \in history :
              /\ Resolve(h.id)' \in {Resolve(h.id), Nil}
              /\ h.id = id => Resolve(h.id)' = Nil
<1>1. Core /\ CarrierRooted /\ CarrierIds
  BY DEF Inv
<1>2. /\ Core' /\ (wrapped => wrapped')
      /\ ~wrapped' => \A h \in history :
           Resolve(h.id)' = IF Resolve(id) # Nil /\ h.id.slot = id.slot
                            THEN Nil ELSE Resolve(h.id)
  BY <1>1, FreeCore
<1>3. wrapped \in BOOLEAN /\ wrapped' \in BOOLEAN
  BY <1>1, <1>2 DEF Core
<1>4. CarrierRooted'
  <2> SUFFICES ASSUME ~wrapped', NEW c \in Carriers, carrier[c] # NoId
               PROVE  owner[c] # Nil /\ Resolve(carrier[c])' = owner[c]
    BY DEF CarrierRooted, Resolve, SlotOf, Slots
  <2>1. owner[c] # Nil /\ Resolve(carrier[c]) = owner[c]
        /\ [id |-> carrier[c], obj |-> owner[c], home |-> c] \in history
    BY <1>1, <1>2, <1>3 DEF CarrierRooted, CarrierIds
  <2>2. PICK k \in history : k.id = carrier[c]
    BY <2>1
  <2>3. Resolve(carrier[c])' = Resolve(k.id)'
    BY <2>2 DEF Resolve, SlotOf
  <2>4. CASE Resolve(id) = Nil
    BY <1>2, <2>1, <2>2, <2>3, <2>4
  <2>5. CASE Resolve(id) # Nil
    <3>1. id.slot # 0
      BY <1>1, <2>5, CoreFacts
    <3>2. PICK h \in history : h.id = id /\ owner[c] # h.obj
      BY <3>1 DEF NoId
    <3>3. Resolve(id) = h.obj
      BY <1>1, <1>2, <1>3, <2>5, <3>2, CoreFacts DEF StaleIdsMiss
    <3>4. k.id.slot # id.slot
      BY <2>1, <2>2, <2>5, <3>2, <3>3 DEF Resolve, SlotOf
    <3> QED BY <1>2, <2>1, <2>2, <2>3, <3>4
  <2> QED BY <2>4, <2>5
<1> QED BY <1>2, <1>4

LEMMA FreeInv ==
  ASSUME Inv, NEW p \in Procs, Free(p)
  PROVE  Inv'
<1>1. /\ UNCHANGED <<carrier, pc, arg, result, raced, made, history, owner>>
      /\ \E h \in history : (\A c \in Carriers : owner[c] # h.obj) /\ FreeLocked(h.id)
  BY DEF Free, calls
<1>2. PICK h \in history : (\A c \in Carriers : owner[c] # h.obj) /\ FreeLocked(h.id)
  BY <1>1
<1>3. Core /\ h.id \in Ids
  BY CoreFacts DEF Inv
<1>4. /\ Core' /\ CarrierRooted' /\ (wrapped => wrapped')
      /\ ~wrapped' => \A k \in history : Resolve(k.id)' \in {Resolve(k.id), Nil}
  BY <1>1, <1>2, <1>3, FreeUnowned
<1>5. CallsOK' /\ CarrierIds' /\ PendingFree' /\ Undisturbed'
  BY <1>1, <1>4 DEF Inv, CallsOK, CarrierIds, PendingFree, Undisturbed
<1>6. NoLeakedRoot'
  <2>1. \A k \in history : k.obj # Nil
    BY <1>3, CoreFacts DEF Nil
  <2>2. wrapped' \in BOOLEAN /\ wrapped \in BOOLEAN
    BY <1>3, <1>4 DEF Core
  <2> SUFFICES ASSUME ~wrapped', NEW k \in history, k.home # Nil, Resolve(k.id)' = k.obj
               PROVE  \/ owner[k.home] = k.obj /\ carrier[k.home] = k.id
                      \/ \E q \in Procs : pc[q] = "free" /\ arg[q].id = k.id
    BY <1>1 DEF NoLeakedRoot
  <2> QED BY <1>4, <2>1, <2>2 DEF Inv, NoLeakedRoot
<1> QED BY <1>4, <1>5, <1>6 DEF Inv

LEMMA DestroyFreeInv ==
  ASSUME Inv, NEW p \in Procs, DestroyFree(p)
  PROVE  Inv'
<1>1. /\ pc[p] = "free" /\ FreeLocked(arg[p].id)
      /\ pc' = [pc EXCEPT ![p] = "idle"]
      /\ UNCHANGED <<carrier, arg, result, raced, made, history, owner>>
  BY DEF DestroyFree
<1>2. Core /\ CallsOK /\ arg[p].id \in Ids
  BY DEF Inv, CallsOK
<1>3. arg[p].id = NoId \/ \E h \in history : h.id = arg[p].id
                            /\ \A c \in Carriers : owner[c] # h.obj
  BY <1>1 DEF Inv, PendingFree
<1>4. /\ Core' /\ CarrierRooted' /\ (wrapped => wrapped')
      /\ ~wrapped' => \A k \in history :
           /\ Resolve(k.id)' \in {Resolve(k.id), Nil}
           /\ k.id = arg[p].id => Resolve(k.id)' = Nil
  BY <1>1, <1>2, <1>3, FreeUnowned
<1>5. CallsOK'
  BY <1>1, <1>2 DEF CallsOK
<1>6. pc'[p] = "idle" /\ \A q \in Procs : q # p => pc'[q] = pc[q]
  BY <1>1, <1>2 DEF CallsOK
<1>7. CarrierIds' /\ PendingFree'
  BY <1>1, <1>6 DEF Inv, CarrierIds, PendingFree
<1>8. Undisturbed'
  <2> SUFFICES ASSUME NEW q \in Procs, ~raced[q]
               PROVE  /\ arg[q].c \in Carriers
                      /\ pc'[q] # "free"
                      /\ pc'[q] = "get" => arg[q].id = carrier[arg[q].c] /\ arg[q].id # NoId
                      /\ pc'[q] = "idle" => /\ carrier[arg[q].c] # NoId
                                            /\ ~wrapped' => result[q] = owner[arg[q].c]
    BY <1>1 DEF Undisturbed
  <2>1. q # p
    BY <1>1 DEF Inv, Undisturbed
  <2> QED BY <1>4, <1>6, <2>1 DEF Inv, Undisturbed
<1>9. NoLeakedRoot'
  <2>1. \A k \in history : k.obj # Nil
    BY <1>2, CoreFacts DEF Nil
  <2> SUFFICES ASSUME ~wrapped', NEW k \in history, k.home # Nil, Resolve(k.id)' = k.obj
               PROVE  \/ owner[k.home] = k.obj /\ carrier[k.home] = k.id
                      \/ \E q \in Procs : pc'[q] = "free" /\ arg[q].id = k.id
    BY <1>1 DEF NoLeakedRoot
  <2>2. Resolve(k.id) = k.obj /\ k.id # arg[p].id
    BY <1>4, <2>1
  <2> QED BY <1>4, <1>6, <2>2 DEF Inv, NoLeakedRoot
<1> QED BY <1>4, <1>5, <1>7, <1>8, <1>9 DEF Inv

LEMMA LazyLoadInv ==
  ASSUME Inv, NEW p \in Procs, NEW c \in Carriers, LazyLoad(p, c)
  PROVE  Inv'
<1>1. /\ pc[p] = "idle"
      /\ pc' = [pc EXCEPT ![p] = IF carrier[c] # NoId THEN "get" ELSE "slow"]
      /\ arg' = [arg EXCEPT ![p] = [c |-> c, id |-> carrier[c]]]
      /\ raced' = [raced EXCEPT ![p] = FALSE]
      /\ UNCHANGED <<registry, gens, freelist, carrier, result, made, history, owner, wrapped>>
  BY DEF LazyLoad, table
<1>2. CallsOK
  BY DEF Inv
<1>3. carrier[c] \in Ids
  BY <1>2 DEF CallsOK
<1>4. /\ pc'[p] = IF carrier[c] # NoId THEN "get" ELSE "slow"
      /\ arg'[p] = [c |-> c, id |-> carrier[c]]
      /\ \A q \in Procs : q # p => /\ pc'[q] = pc[q] /\ arg'[q] = arg[q]
                                   /\ raced'[q] = raced[q]
  BY <1>1, <1>2 DEF CallsOK
<1>5. CallsOK'
  BY <1>1, <1>2, <1>3, <1>4 DEF CallsOK
<1>6. Core' /\ CarrierIds' /\ CarrierRooted'
  BY <1>1 DEF Inv, Core, TableOK, FreeListExact, Slots, FreeSlots, Fresh, Current,
              CarrierIds, CarrierRooted, Resolve, SlotOf
<1>7. PendingFree'
  BY <1>1, <1>4 DEF Inv, PendingFree
<1>8. Undisturbed'
  BY <1>1, <1>4 DEF Inv, Undisturbed
<1>9. NoLeakedRoot'
  <2>1. \A k \in history : Resolve(k.id)' = Resolve(k.id)
    BY <1>1 DEF Resolve, SlotOf, Slots
  <2> QED BY <1>1, <1>4, <2>1 DEF Inv, NoLeakedRoot
<1> QED BY <1>5, <1>6, <1>7, <1>8, <1>9 DEF Inv

\* A call that only returns: the fast path, and the slow path that lost.
LEMMA ReturnInv ==
  ASSUME Inv, NEW p \in Procs, NEW o \in Nat, Return(p, o),
         pc[p] \in {"get", "slow"},
         UNCHANGED <<registry, gens, freelist, carrier, arg, raced, made, history, owner, wrapped>>,
         ~raced[p] => /\ carrier[arg[p].c] # NoId
                      /\ ~wrapped => o = owner[arg[p].c]
  PROVE  Inv'
<1>1. result' = [result EXCEPT ![p] = o] /\ pc' = [pc EXCEPT ![p] = "idle"]
  BY DEF Return
<1>2. CallsOK
  BY DEF Inv
<1>3. /\ pc'[p] = "idle" /\ result'[p] = o
      /\ \A q \in Procs : q # p => pc'[q] = pc[q] /\ result'[q] = result[q]
  BY <1>1, <1>2 DEF CallsOK
<1>4. CallsOK'
  BY <1>1, <1>2, <1>3 DEF CallsOK
<1>5. Core' /\ CarrierIds' /\ CarrierRooted'
  BY DEF Inv, Core, TableOK, FreeListExact, Slots, FreeSlots, Fresh, Current,
         CarrierIds, CarrierRooted, Resolve, SlotOf
<1>6. PendingFree'
  BY <1>3 DEF Inv, PendingFree
<1>7. Undisturbed'
  BY <1>3 DEF Inv, Undisturbed
<1>8. NoLeakedRoot'
  <2>1. \A k \in history : Resolve(k.id)' = Resolve(k.id)
    BY DEF Resolve, SlotOf, Slots
  <2> QED BY <1>3, <2>1 DEF Inv, NoLeakedRoot
<1> QED BY <1>4, <1>5, <1>6, <1>7, <1>8 DEF Inv

LEMMA LazyGetInv ==
  ASSUME Inv, NEW p \in Procs, LazyGet(p)
  PROVE  Inv'
<1> DEFINE o == Resolve(arg[p].id)
<1>1. /\ pc[p] = "get" /\ Return(p, o)
      /\ UNCHANGED <<registry, gens, freelist, carrier, arg, raced, made, history, owner, wrapped>>
  BY DEF LazyGet, table
<1>2. arg[p].id \in Ids /\ Core
  BY DEF Inv, CallsOK
<1>3. o \in Nat
  BY <1>2, CoreFacts
<1>4. ~raced[p] => /\ carrier[arg[p].c] # NoId
                   /\ ~wrapped => o = owner[arg[p].c]
  BY <1>1 DEF Inv, Undisturbed, CarrierRooted
<1> HIDE DEF o
<1> QED BY <1>1, <1>3, <1>4, ReturnInv

LEMMA LazySlowInv ==
  ASSUME Inv, NEW p \in Procs, LazySlow(p)
  PROVE  Inv'
<1> DEFINE c == arg[p].c
<1>1. pc[p] = "slow" /\ c \in Carriers
  BY DEF LazySlow, Inv, CallsOK
<1>2. UNCHANGED <<arg, raced, wrapped>>
  BY DEF LazySlow
<1>3. CASE /\ carrier[c] # NoId /\ Return(p, Resolve(carrier[c]))
           /\ UNCHANGED <<registry, gens, freelist, carrier, made, history, owner>>
  <2> DEFINE o == Resolve(carrier[c])
  <2>1. carrier[c] \in Ids /\ Core
    BY <1>1 DEF Inv, CallsOK
  <2>2. o \in Nat
    BY <2>1, CoreFacts
  <2>3. ~wrapped => o = owner[c]
    BY <1>1, <1>3 DEF Inv, CarrierRooted
  <2>4. Return(p, o)
    BY <1>3
  <2> HIDE DEF o
  <2> QED BY <1>1, <1>2, <1>3, <2>2, <2>3, <2>4, ReturnInv
<1>4. CASE /\ carrier[c] = NoId /\ Issue(c) /\ AllocLocked(made + 1)
           /\ carrier' = [carrier EXCEPT ![c] = NextId]
           /\ owner' = [owner EXCEPT ![c] = made + 1]
           /\ Return(p, made + 1)
  <2>1. Core /\ CallsOK /\ CarrierIds /\ made \in Nat
    BY DEF Inv, Core
  <2>2. PICK id : id = NextId
    OBVIOUS
  <2>3. /\ Core' /\ id \in Ids /\ id # NoId /\ Resolve(id)' = made + 1
        /\ ~wrapped => \A h \in history : Resolve(h.id)' = Resolve(h.id)
    BY <1>1, <1>2, <1>4, <2>1, <2>2, AllocCore
  <2>4. history' = history \cup {[id |-> id, obj |-> made + 1, home |-> c]}
    BY <1>4, <2>2 DEF Issue
  <2>5. /\ carrier' = [carrier EXCEPT ![c] = id] /\ owner' = [owner EXCEPT ![c] = made + 1]
        /\ result' = [result EXCEPT ![p] = made + 1]
        /\ pc' = [pc EXCEPT ![p] = "idle"]
    BY <1>4, <2>2 DEF Return
  <2> HIDE DEF c
  <2>6. /\ carrier'[c] = id /\ owner'[c] = made + 1
        /\ pc'[p] = "idle" /\ result'[p] = made + 1
        /\ \A d \in Carriers : d # c => carrier'[d] = carrier[d] /\ owner'[d] = owner[d]
        /\ \A q \in Procs : q # p => pc'[q] = pc[q] /\ result'[q] = result[q]
    BY <1>1, <2>1, <2>5 DEF CallsOK
  <2>7. \A h \in history : h.obj <= made /\ h.obj # 0 /\ h.obj \in Nat
    BY <2>1, CoreFacts
  <2>8. \A d \in Carriers : owner[d] # made + 1
    <3> SUFFICES ASSUME NEW d \in Carriers, owner[d] = made + 1 PROVE FALSE
      OBVIOUS
    <3>1. owner[d] # Nil
      BY <2>1 DEF Nil
    <3>2. [id |-> carrier[d], obj |-> owner[d], home |-> d] \in history
      BY <2>1, <3>1 DEF CarrierIds
    <3>3. owner[d] <= made
      BY <2>7, <3>2
    <3> QED BY <2>1, <3>3
  <2>9. CallsOK'
    <3>1. carrier' \in [Carriers -> Ids] /\ owner' \in [Carriers -> Nat]
      <4>1. carrier \in [Carriers -> Ids] /\ owner \in [Carriers -> Nat] /\ made + 1 \in Nat
        BY <2>1 DEF CallsOK
      <4> QED BY <2>3, <2>5, <4>1
    <3>2. pc' \in [Procs -> {"idle", "get", "slow", "free"}] /\ result' \in [Procs -> Nat]
      BY <2>1, <2>5 DEF CallsOK
    <3>3. \A q \in Procs : pc'[q] # "idle" => arg[q].c \in Carriers
      BY <2>1, <2>6 DEF CallsOK
    <3> QED BY <1>2, <2>1, <3>1, <3>2, <3>3 DEF CallsOK
  <2>10. CarrierIds'
    <3>1. made + 1 # Nil
      BY <2>1 DEF Nil
    <3>2. [id |-> carrier'[c], obj |-> owner'[c], home |-> c] \in history'
      BY <2>4, <2>6
    <3>3. ASSUME NEW d \in Carriers
          PROVE  /\ carrier'[d] = NoId => owner'[d] = Nil
                 /\ carrier'[d] # NoId =>
                      /\ owner'[d] # Nil
                      /\ [id |-> carrier'[d], obj |-> owner'[d], home |-> d] \in history'
      BY <2>1, <2>3, <2>4, <2>6, <3>1, <3>2 DEF CarrierIds
    <3>4. ASSUME NEW d \in Carriers, NEW e \in Carriers, d # e, owner'[d] # Nil
          PROVE  owner'[d] # owner'[e]
      BY <2>1, <2>6, <2>8, <3>4 DEF CarrierIds
    <3> QED BY <3>3, <3>4 DEF CarrierIds
  <2>11. CarrierRooted'
    <3> SUFFICES ASSUME ~wrapped, NEW d \in Carriers, carrier'[d] # NoId
                 PROVE  owner'[d] # Nil /\ Resolve(carrier[d])' = owner'[d]
      BY <1>2 DEF CarrierRooted
    <3>1. CASE d = c
      <4>1. Resolve(carrier[d])' = Resolve(id)'
        BY <2>6, <3>1 DEF Resolve, SlotOf
      <4> QED BY <2>1, <2>3, <2>6, <3>1, <4>1 DEF Nil
    <3>2. CASE d # c
      <4>1. owner[d] # Nil /\ Resolve(carrier[d]) = owner[d]
            /\ [id |-> carrier[d], obj |-> owner[d], home |-> d] \in history
        BY <2>6, <3>2 DEF Inv, CarrierRooted, CarrierIds
      <4>2. PICK h \in history : h.id = carrier[d]
        BY <4>1
      <4>3. Resolve(carrier[d])' = Resolve(h.id)'
        BY <2>6, <3>2, <4>2 DEF Resolve, SlotOf
      <4> QED BY <2>3, <2>6, <3>2, <4>1, <4>2, <4>3
    <3> QED BY <3>1, <3>2
  <2>12. PendingFree'
    <3> SUFFICES ASSUME NEW q \in Procs, pc'[q] = "free", arg[q].id # NoId
                 PROVE  \E h \in history' : h.id = arg[q].id
                          /\ \A d \in Carriers : owner'[d] # h.obj
      BY <1>2 DEF PendingFree
    <3>1. pc[q] = "free"
      BY <2>6
    <3>2. PICK h \in history : h.id = arg[q].id /\ \A d \in Carriers : owner[d] # h.obj
      BY <3>1 DEF Inv, PendingFree
    <3>3. h.obj # made + 1
      BY <2>1, <2>7
    <3> QED BY <2>4, <2>6, <3>2, <3>3
  <2>13. Undisturbed'
    <3> SUFFICES ASSUME NEW q \in Procs, ~raced[q]
                 PROVE  /\ arg[q].c \in Carriers
                        /\ pc'[q] # "free"
                        /\ pc'[q] = "get" => arg[q].id = carrier'[arg[q].c] /\ arg[q].id # NoId
                        /\ pc'[q] = "idle" => /\ carrier'[arg[q].c] # NoId
                                              /\ ~wrapped => result'[q] = owner'[arg[q].c]
      BY <1>2 DEF Undisturbed
    <3>1. CASE q = p
      BY <1>1, <2>3, <2>6, <3>1 DEF c
    <3>2. CASE q # p
      <4>1. /\ arg[q].c \in Carriers /\ pc[q] # "free"
            /\ pc[q] = "get" => arg[q].id = carrier[arg[q].c] /\ arg[q].id # NoId
            /\ pc[q] = "idle" => /\ carrier[arg[q].c] # NoId
                                 /\ ~wrapped => result[q] = owner[arg[q].c]
        BY DEF Inv, Undisturbed
      <4>2. pc[q] \in {"get", "idle"} => arg[q].c # c
        BY <1>4, <4>1 DEF c
      <4> QED BY <2>6, <3>2, <4>1, <4>2
    <3> QED BY <3>1, <3>2
  <2>14. NoLeakedRoot'
    <3> SUFFICES ASSUME ~wrapped, NEW k \in history', k.home # Nil, Resolve(k.id)' = k.obj
                 PROVE  \/ owner'[k.home] = k.obj /\ carrier'[k.home] = k.id
                        \/ \E q \in Procs : pc'[q] = "free" /\ arg[q].id = k.id
      BY <1>2 DEF NoLeakedRoot
    <3>1. CASE k = [id |-> id, obj |-> made + 1, home |-> c]
      BY <2>6, <3>1
    <3>2. CASE k \in history
      <4>1. Resolve(k.id) = k.obj /\ k.obj # Nil /\ k.home \in Carriers
        BY <2>1, <2>3, <3>2, CoreFacts DEF Nil
      <4>2. k.id # NoId
        BY <2>1, <4>1, CoreFacts DEF NoId
      <4>3. CASE owner[k.home] = k.obj /\ carrier[k.home] = k.id
        <5>1. k.home # c
          BY <1>4, <4>2, <4>3 DEF c
        <5> QED BY <2>6, <4>1, <4>3, <5>1
      <4>4. CASE \E q \in Procs : pc[q] = "free" /\ arg[q].id = k.id
        BY <1>1, <2>6, <4>4
      <4> QED BY <3>2, <4>1, <4>3, <4>4 DEF Inv, NoLeakedRoot
    <3> QED BY <2>4, <3>1, <3>2
  <2> QED BY <2>3, <2>9, <2>10, <2>11, <2>12, <2>13, <2>14 DEF Inv
<1> QED BY <1>3, <1>4 DEF LazySlow, table

LEMMA DestroySwapInv ==
  ASSUME Inv, NEW p \in Procs, NEW c \in Carriers, DestroySwap(p, c)
  PROVE  Inv'
<1>1. /\ pc[p] = "idle"
      /\ pc' = [pc EXCEPT ![p] = "free"]
      /\ arg' = [arg EXCEPT ![p] = [c |-> c, id |-> carrier[c]]]
      /\ carrier' = [carrier EXCEPT ![c] = NoId]
      /\ owner' = [owner EXCEPT ![c] = Nil]
      /\ raced' = [q \in Procs |-> raced[q] \/ q = p \/ arg[q].c = c]
      /\ UNCHANGED <<registry, gens, freelist, result, made, history, wrapped>>
  BY DEF DestroySwap, table
<1>2. CallsOK /\ CarrierIds /\ Core
  BY DEF Inv
<1>3. NoId \in Ids /\ carrier[c] \in Ids
  BY <1>2 DEF CallsOK, NoId, Ids
<1>4. /\ pc'[p] = "free" /\ arg'[p] = [c |-> c, id |-> carrier[c]]
      /\ carrier'[c] = NoId /\ owner'[c] = Nil
      /\ \A d \in Carriers : d # c => carrier'[d] = carrier[d] /\ owner'[d] = owner[d]
      /\ \A q \in Procs : q # p => pc'[q] = pc[q] /\ arg'[q] = arg[q]
      /\ \A q \in Procs : raced'[q] = (raced[q] \/ q = p \/ arg[q].c = c)
  BY <1>1, <1>2 DEF CallsOK
<1>5. CallsOK'
  <2>1. raced' \in [Procs -> BOOLEAN]
    BY <1>1, <1>2 DEF CallsOK
  <2> QED BY <1>1, <1>2, <1>3, <1>4, <2>1 DEF CallsOK, Nil
<1>6. Core'
  BY <1>1, <1>2 DEF Core, TableOK, FreeListExact, Slots, FreeSlots, Fresh, Current
<1>7. \A h \in history : Resolve(h.id)' = Resolve(h.id)
  BY <1>1 DEF Resolve, SlotOf, Slots
<1>8. CarrierIds'
  BY <1>1, <1>2, <1>4 DEF CarrierIds
<1>9. CarrierRooted'
  <2> SUFFICES ASSUME ~wrapped, NEW d \in Carriers, carrier'[d] # NoId
               PROVE  owner'[d] # Nil /\ Resolve(carrier[d])' = owner'[d]
    BY <1>1 DEF CarrierRooted
  <2>1. d # c
    BY <1>4
  <2>2. Resolve(carrier[d])' = Resolve(carrier[d])
    BY <1>1, <1>4, <2>1 DEF Resolve, SlotOf, Slots
  <2> QED BY <1>4, <2>1, <2>2 DEF Inv, CarrierRooted
<1>10. PendingFree'
  <2> SUFFICES ASSUME NEW q \in Procs, pc'[q] = "free", arg'[q].id # NoId
               PROVE  \E h \in history : h.id = arg'[q].id
                        /\ \A d \in Carriers : owner'[d] # h.obj
    BY <1>1 DEF PendingFree
  <2>1. \A h \in history : h.obj # Nil
    BY <1>2, CoreFacts DEF Nil
  <2>2. CASE q = p
    <3>1. arg'[q].id = carrier[c] /\ carrier[c] # NoId
      BY <1>4, <2>2
    <3>2. /\ owner[c] # Nil
          /\ [id |-> carrier[c], obj |-> owner[c], home |-> c] \in history
      BY <1>2, <3>1 DEF CarrierIds
    <3>3. \A d \in Carriers : owner'[d] # owner[c]
      BY <1>2, <1>4, <3>2 DEF CarrierIds
    <3> QED BY <3>1, <3>2, <3>3
  <2>3. CASE q # p
    <3>1. PICK h \in history : h.id = arg[q].id /\ \A d \in Carriers : owner[d] # h.obj
      BY <1>4, <2>3 DEF Inv, PendingFree
    <3> QED BY <1>4, <2>1, <2>3, <3>1
  <2> QED BY <2>2, <2>3
<1>11. Undisturbed'
  <2> SUFFICES ASSUME NEW q \in Procs, ~raced'[q]
               PROVE  /\ arg'[q].c \in Carriers
                      /\ pc'[q] # "free"
                      /\ pc'[q] = "get" => arg'[q].id = carrier'[arg'[q].c] /\ arg'[q].id # NoId
                      /\ pc'[q] = "idle" => /\ carrier'[arg'[q].c] # NoId
                                            /\ ~wrapped => result[q] = owner'[arg'[q].c]
    BY <1>1 DEF Undisturbed
  <2>1. q # p /\ ~raced[q] /\ arg[q].c # c
    BY <1>4
  <2> QED BY <1>4, <2>1 DEF Inv, Undisturbed
<1>12. NoLeakedRoot'
  <2> SUFFICES ASSUME ~wrapped, NEW k \in history, k.home # Nil, Resolve(k.id)' = k.obj
               PROVE  \/ owner'[k.home] = k.obj /\ carrier'[k.home] = k.id
                      \/ \E q \in Procs : pc'[q] = "free" /\ arg'[q].id = k.id
    BY <1>1 DEF NoLeakedRoot
  <2>1. \/ owner[k.home] = k.obj /\ carrier[k.home] = k.id
        \/ \E q \in Procs : pc[q] = "free" /\ arg[q].id = k.id
    BY <1>7 DEF Inv, NoLeakedRoot
  <2>2. k.home \in Carriers
    BY <1>2, CoreFacts
  <2> QED BY <1>1, <1>4, <2>1, <2>2
<1> QED BY <1>5, <1>6, <1>8, <1>9, <1>10, <1>11, <1>12 DEF Inv

-----------------------------------------------------------------------------
(* The theorems. *)

\* The invariant holds in every reachable state.
THEOREM Invariance == Spec => []Inv
<1>1. Inv /\ [Next]_vars => Inv'
  <2> SUFFICES ASSUME Inv, [Next]_vars PROVE Inv'
    OBVIOUS
  <2>1. ASSUME NEW p \in Procs, Step(p) PROVE Inv'
    BY <2>1, AllocInv, FreeInv, LazyLoadInv, LazyGetInv, LazySlowInv,
       DestroySwapInv, DestroyFreeInv DEF Step
  <2>2. CASE UNCHANGED vars
    <3>1. UNCHANGED <<registry, gens, freelist, carrier, pc, arg, result, raced,
                      made, history, owner, wrapped>>
      BY <2>2 DEF vars, table, calls
    <3> QED
      BY <3>1 DEF Inv, Core, TableOK, FreeListExact, Slots, FreeSlots, Fresh, Current,
         CallsOK, CarrierIds, CarrierRooted, PendingFree, Undisturbed, NoLeakedRoot,
         Resolve, SlotOf
  <2> QED BY <2>1, <2>2 DEF Next
<1> QED BY <1>1, InitInv, PTL DEF Spec

\* Every variable keeps its type, and the three slices their common shape.
THEOREM TypeCorrect == Spec => []TypeOK
<1>1. Inv => TypeOK
  <2> SUFFICES ASSUME Inv PROVE TypeOK
    OBVIOUS
  <2>1. TableOK
    BY DEF Inv, Core
  <2>2. Slots = 1 .. Len(registry)
    BY <2>1, TableFacts
  <2> QED BY <2>1, <2>2 DEF Inv, Core, CallsOK, TableOK, TypeOK
<1> QED BY <1>1, Invariance, PTL

\* allocLocked and free keep the free list exactly the set of empty slots.
THEOREM FreeListCorrect == Spec => []FreeListExact
<1>1. Inv => FreeListExact
  BY DEF Inv, Core
<1> QED BY <1>1, Invariance, PTL

\* A stale id never reaches a later occupant of its slot, short of a wrap of
\* the generation counter.
THEOREM StaleIdsNeverAlias == Spec => []StaleIdsMiss
<1>1. Inv => StaleIdsMiss
  BY CoreFacts DEF Inv
<1> QED BY <1>1, Invariance, PTL

\* No close of anything else unroots the object a carrier denotes.
THEOREM CarriersStayRooted == Spec => []CarrierRooted
<1>1. Inv => CarrierRooted
  BY DEF Inv
<1> QED BY <1>1, Invariance, PTL

\* Concurrent first users of one carrier all get its one object.
THEOREM LazyInitUnique == Spec => []LazyInitAgrees
<1>1. Inv => LazyInitAgrees
  BY DEF Inv, Undisturbed, CarrierRooted, LazyInitAgrees
<1> QED BY <1>1, Invariance, PTL

\* No object made for a carrier stays rooted after its destroy completed.
THEOREM RootsNeverLeak == Spec => []NoLeakedRoot
<1>1. Inv => NoLeakedRoot
  BY DEF Inv
<1> QED BY <1>1, Invariance, PTL

\* A call of allocLocked or free that makes the registry longer found every
\* slot occupied.
LEMMA AllocGrows ==
  ASSUME Inv, NEW o \in Nat, AllocLocked(o), Len(registry') > Len(registry)
  PROVE  \A i \in Slots : registry[i] # Nil
<1>1. TableOK /\ FreeListExact
  BY DEF Inv, Core
<1>2. freelist = <<>>
  <2>1. SUFFICES ASSUME freelist # <<>> PROVE FALSE
    OBVIOUS
  <2>2. NextSlot \in 1 .. Len(registry) /\ registry' = [registry EXCEPT ![NextSlot] = o]
    BY <1>1, <2>1, TableFacts DEF NextSlot, AllocLocked
  <2>3. Len(registry') = Len(registry) /\ Len(registry) \in Nat
    BY <1>1, <2>2, Put, Members DEF TableOK
  <2> QED BY <2>3
<1>3. \A i \in Slots : registry[i] = Nil => \E k \in 1 .. Len(freelist) : freelist[k] = i
  BY <1>1, TableFacts
<1> QED BY <1>2, <1>3

LEMMA FreeKeepsLength ==
  ASSUME Inv, NEW id, FreeLocked(id)
  PROVE  Len(registry') = Len(registry)
<1>1. TableOK
  BY DEF Inv, Core
<1>2. CASE SlotOf(id) # 0 /\ registry[SlotOf(id)] # Nil
  <2>1. SlotOf(id) \in 1 .. Len(registry)
    BY <1>1, <1>2, TableFacts DEF SlotOf
  <2>2. registry' = [registry EXCEPT ![SlotOf(id)] = Nil]
    BY <1>2 DEF FreeLocked
  <2> QED BY <1>1, <2>1, <2>2, Put DEF TableOK, Nil
<1>3. CASE ~(SlotOf(id) # 0 /\ registry[SlotOf(id)] # Nil)
  BY <1>3 DEF FreeLocked, table
<1> QED BY <1>2, <1>3

\* The registry never grows beyond the most objects that were live at once.
THEOREM RegistryBounded == Spec => GrowsOnlyWhenFull
<1>1. ASSUME Inv, [Next]_vars, Len(registry') > Len(registry)
      PROVE  \A i \in Slots : registry[i] # Nil
  <2>1. Len(registry) \in Nat /\ made \in Nat
    <3>1. TableOK /\ made \in Nat
      BY <1>1 DEF Inv, Core
    <3> QED BY <3>1, TableFacts
  <2>2. registry' # registry
    BY <1>1, <2>1
  <2>3. PICK p \in Procs : Step(p)
    BY <1>1, <2>2 DEF Next, vars, table
  <2>4. CASE AllocLocked(made + 1)
    BY <1>1, <2>1, <2>4, AllocGrows
  <2>5. CASE \E id : FreeLocked(id)
    BY <1>1, <2>1, <2>5, FreeKeepsLength
  <2>6. registry' = registry \/ AllocLocked(made + 1) \/ \E id : FreeLocked(id)
    BY <2>3 DEF Step, Alloc, Free, LazyLoad, LazyGet, LazySlow, DestroySwap,
       DestroyFree, table
  <2> QED BY <2>2, <2>4, <2>5, <2>6
<1>2. Inv /\ [Next]_vars
        => [Len(registry') > Len(registry) => \A i \in Slots : registry[i] # Nil]_vars
  BY <1>1
<1> QED BY <1>2, Invariance, PTL DEF Spec, GrowsOnlyWhenFull

-----------------------------------------------------------------------------
(* The table implements HandleMap, as long as no generation wraps.         *)

\* What the refinement needs besides Inv: no object is in two slots, and the
\* generation of a slot counts objects that were made.
Occupied(i) == IF registry[i] # Nil THEN 1 ELSE 0
Once ==
  /\ made <= MaxObj
  /\ \A i, j \in Slots : registry[i] = registry[j] /\ registry[i] # Nil => i = j
  /\ ~wrapped => \A i \in Slots : gens[i] + Occupied(i) <= made

LEMMA AllocOnce ==
  ASSUME Core, Once, made < MaxObj, made' = made + 1, wrapped' = wrapped,
         AllocLocked(made + 1)
  PROVE  Once' /\ Live' = Live \cup {made + 1}
<1>1. TableOK /\ FreeListExact /\ made \in Nat /\ Fresh
  BY DEF Core
<1>2. made + 1 \in Nat \ {0}
  BY <1>1
<1>3. /\ NextSlot \in Slots' /\ Slots' = Slots \cup {NextSlot}
      /\ NextSlot \in Slots => registry[NextSlot] = Nil
      /\ registry'[NextSlot] = made + 1
      /\ \A i \in Slots : i # NextSlot => registry'[i] = registry[i]
      /\ \A i \in Slots : gens'[i] = gens[i]
      /\ NextId = [gen |-> gens'[NextSlot], slot |-> NextSlot]
  BY <1>1, <1>2, AllocEffect
<1>4. \A i \in Slots : registry[i] <= made /\ registry[i] \in Nat /\ gens[i] \in Nat
  BY <1>1, TableFacts DEF Fresh
<1>5. NextSlot \notin Slots => gens'[NextSlot] = 0
  <2>1. freelist # <<>> => NextSlot \in Slots
    BY <1>1, TableFacts DEF NextSlot
  <2>2. freelist = <<>> => NextId.gen = 0
    BY DEF NextId
  <2> QED BY <1>3, <2>1, <2>2
<1>6. \A i, j \in Slots' : registry'[i] = registry'[j] /\ registry'[i] # Nil => i = j
  BY <1>1, <1>3, <1>4 DEF Once
<1>7. ~wrapped => \A i \in Slots' : gens'[i] + Occupied(i)' <= made + 1
  <2> SUFFICES ASSUME ~wrapped, NEW i \in Slots'
               PROVE  gens'[i] + Occupied(i)' <= made + 1
    OBVIOUS
  <2>1. CASE i # NextSlot
    BY <1>1, <1>3, <1>4, <2>1 DEF Once, Occupied, Nil
  <2>2. CASE i = NextSlot /\ i \in Slots
    BY <1>1, <1>3, <1>4, <2>2 DEF Once, Occupied, Nil
  <2>3. CASE i = NextSlot /\ i \notin Slots
    BY <1>1, <1>3, <1>5, <2>3 DEF Occupied, Nil
  <2> QED BY <2>1, <2>2, <2>3
<1>8. Live' = Live \cup {made + 1}
  <2>1. Live' = {registry'[i] : i \in Slots'} \ {Nil}
    BY DEF Live, Nil
  <2> QED BY <1>1, <1>3, <2>1 DEF Live, Nil
<1> QED BY <1>1, <1>6, <1>7, <1>8, HandleTableAssumption DEF Once

LEMMA FreeOnce ==
  ASSUME Core, Once, made' = made, NEW id \in Ids, FreeLocked(id)
  PROVE  /\ Once'
         /\ \/ UNCHANGED <<registry, gens, freelist, wrapped>>
            \/ /\ Resolve(id) # Nil /\ Live' = Live \ {Resolve(id)}
               /\ id.slot \in Slots
               /\ gens[id.slot] + 1 <= made \/ wrapped
               /\ wrapped' = (wrapped \/ gens[id.slot] + 1 = GenMod)
<1>1. TableOK /\ FreeListExact /\ made \in Nat /\ Fresh /\ wrapped \in BOOLEAN
  BY DEF Core
<1>2. /\ wrapped' \in BOOLEAN /\ (wrapped => wrapped') /\ Slots' = Slots
      /\ \/ UNCHANGED <<registry, gens, freelist, wrapped>>
         \/ /\ id.slot \in Slots /\ gens[id.slot] = id.gen
            /\ registry[id.slot] # Nil /\ registry'[id.slot] = Nil
            /\ \A i \in Slots : i # id.slot => /\ registry'[i] = registry[i]
                                             /\ gens'[i] = gens[i]
            /\ ~wrapped' => gens'[id.slot] = gens[id.slot] + 1
  BY <1>1, FreeEffect
<1>3. \A i \in Slots : registry[i] \in Nat /\ gens[i] \in Nat /\ i # 0
  BY <1>1, TableFacts
<1>4. CASE UNCHANGED <<registry, gens, freelist, wrapped>>
  BY <1>4 DEF Once, Slots, Occupied
<1>5. CASE ~UNCHANGED <<registry, gens, freelist, wrapped>>
  <2>1. /\ id.slot \in Slots /\ gens[id.slot] = id.gen
        /\ registry[id.slot] # Nil /\ registry'[id.slot] = Nil
        /\ \A i \in Slots : i # id.slot => /\ registry'[i] = registry[i]
                                         /\ gens'[i] = gens[i]
        /\ ~wrapped' => gens'[id.slot] = gens[id.slot] + 1
    BY <1>2, <1>5
  <2>2. SlotOf(id) = id.slot /\ Resolve(id) = registry[id.slot]
    BY <1>3, <2>1 DEF SlotOf, Resolve
  <2>3. \A i, j \in Slots' : registry'[i] = registry'[j] /\ registry'[i] # Nil => i = j
    BY <1>2, <2>1 DEF Once
  <2>4. ~wrapped' => \A i \in Slots' : gens'[i] + Occupied(i)' <= made
    BY <1>1, <1>2, <1>3, <2>1 DEF Once, Occupied
  <2>5. Live' = Live \ {Resolve(id)}
    <3>1. Live' = {registry'[i] : i \in Slots'} \ {Nil}
      BY DEF Live, Nil
    <3> QED BY <1>2, <2>1, <2>2, <3>1 DEF Live, Once
  <2>6. gens[id.slot] + 1 <= made \/ wrapped
    BY <1>1, <1>3, <2>1 DEF Once, Occupied
  <2>7. wrapped' = (wrapped \/ gens[id.slot] + 1 = GenMod)
    BY <1>3, <2>1, <2>2 DEF FreeLocked
  <2> QED BY <2>1, <2>2, <2>3, <2>4, <2>5, <2>6, <2>7 DEF Once
<1> QED BY <1>4, <1>5

LEMMA StepOnce == Inv /\ Once /\ [Next]_vars => Once'
<1> SUFFICES ASSUME Inv, Once, [Next]_vars PROVE Once'
  OBVIOUS
<1>1. Core
  BY DEF Inv
<1>2. ASSUME NEW p \in Procs, Step(p) PROVE Once'
  <2>1. CASE Alloc(p)
    BY <1>1, <2>1, AllocOnce DEF Alloc, Issue
  <2>2. CASE Free(p)
    BY <1>1, <2>2, FreeOnce, CoreFacts DEF Free
  <2>3. CASE LazySlow(p)
    <3>1. \/ UNCHANGED <<registry, gens, freelist, made, wrapped>>
          \/ Issue(arg[p].c) /\ AllocLocked(made + 1) /\ UNCHANGED wrapped
      BY <2>3 DEF LazySlow, table
    <3> QED BY <1>1, <3>1, AllocOnce DEF Issue, Once, Slots, Occupied
  <2>4. CASE DestroyFree(p)
    <3>1. arg[p].id \in Ids
      BY DEF Inv, CallsOK
    <3> QED BY <1>1, <2>4, <3>1, FreeOnce DEF DestroyFree
  <2>5. CASE \/ LazyGet(p)
             \/ \E c \in Carriers : LazyLoad(p, c) \/ DestroySwap(p, c)
    BY <2>5 DEF LazyGet, LazyLoad, DestroySwap, table, Once, Slots, Occupied
  <2> QED BY <1>2, <2>1, <2>2, <2>3, <2>4, <2>5 DEF Step
<1>3. CASE UNCHANGED vars
  BY <1>3 DEF vars, table, Once, Slots, Occupied
<1> QED BY <1>2, <1>3 DEF Next

LEMMA OnceInvariance == Spec => []Once
<1>1. Init => Once
  BY HandleTableAssumption DEF Init, Once, Slots
<1> QED BY <1>1, StepOnce, Invariance, PTL DEF Spec

\* Until a generation wraps, a carrier denotes the object made for it.
LEMMA BoundIsOwner ==
  ASSUME Inv, ~wrapped
  PROVE  Bound = owner
<1>1. \A c \in Carriers : Resolve(carrier[c]) = owner[c]
  <2> SUFFICES ASSUME NEW c \in Carriers PROVE Resolve(carrier[c]) = owner[c]
    OBVIOUS
  <2>1. CASE carrier[c] = NoId
    <3>1. Core /\ owner[c] = Nil
      BY <2>1 DEF Inv, CarrierIds
    <3>2. NoId.slot = 0
      BY DEF NoId
    <3>3. Resolve(NoId) = Nil
      BY <3>1, <3>2, CoreFacts
    <3> QED BY <2>1, <3>1, <3>3
  <2>2. CASE carrier[c] # NoId
    BY <2>2 DEF Inv, CarrierRooted
  <2> QED BY <2>1, <2>2
<1> QED BY <1>1 DEF Bound, Inv, CallsOK

\* A close of an id that no carrier owns is a Drop, or does nothing.
LEMMA FreeMapped ==
  ASSUME Inv, Once, ~wrapped, ~wrapped', UNCHANGED <<made, owner>>,
         NEW id \in Ids, FreeLocked(id),
         \/ id = NoId
         \/ \E h \in history : h.id = id /\ \A c \in Carriers : owner[c] # h.obj
  PROVE  Live' = Live \/ \E o \in Live : Live' = Live \ {o} /\ \A c \in Carriers : owner[c] # o
<1>1. Core
  BY DEF Inv
<1>2. CASE UNCHANGED <<registry, gens, freelist, wrapped>>
  BY <1>2 DEF Live, Slots
<1>3. CASE Resolve(id) # Nil /\ Live' = Live \ {Resolve(id)}
  <2>1. PICK h \in history : h.id = id /\ \A c \in Carriers : owner[c] # h.obj
    BY <1>1, <1>3, CoreFacts DEF NoId
  <2>2. Resolve(id) = h.obj
    BY <1>1, <1>3, <2>1, CoreFacts DEF StaleIdsMiss
  <2>3. Resolve(id) \in Live
    <3>1. \A i \in Slots : i # 0
      BY <1>1, TableFacts DEF Core
    <3> QED BY <1>3, <3>1 DEF Resolve, SlotOf, Live
  <2> QED BY <1>3, <2>1, <2>2, <2>3
<1> QED BY <1>1, <1>2, <1>3, FreeOnce

LEMMA MapStep ==
  ASSUME Inv, Inv', Once, ~wrapped, ~wrapped', [Next]_vars
  PROVE  Map!Next \/ UNCHANGED <<Live, Bound, made>>
<1> USE DEF Map!Next, Map!Nil
<1>1. Bound = owner /\ Bound' = owner'
  <2>1. (Inv /\ ~wrapped => Bound = owner)'
    BY BoundIsOwner, PTL
  <2> QED BY <2>1, BoundIsOwner
<1>2. Core /\ owner \in [Carriers -> Nat]
  BY DEF Inv, CallsOK
<1>3. ASSUME NEW p \in Procs, Step(p)
      PROVE  Map!Next \/ UNCHANGED <<Live, Bound, made>>
  <2>1. CASE Alloc(p)
    <3>1. made' = made + 1 /\ Live' = Live \cup {made + 1} /\ made < MaxObj /\ owner' = owner
      BY <1>2, <2>1, AllocOnce DEF Alloc, Issue
    <3> QED BY <1>1, <3>1 DEF Map!New, Map!Root
  <2>2. CASE Free(p)
    <3>1. UNCHANGED <<made, owner>> /\ \E h \in history :
             (\A c \in Carriers : owner[c] # h.obj) /\ FreeLocked(h.id)
      BY <2>2 DEF Free
    <3>2. Live' = Live \/ \E o \in Live : Live' = Live \ {o} /\ \A c \in Carriers : owner[c] # o
      BY <1>2, <3>1, CoreFacts, FreeMapped
    <3> QED BY <1>1, <3>1, <3>2 DEF Map!Drop
  <2>3. CASE LazySlow(p)
    <3>1. CASE UNCHANGED <<table, carrier, made, history, owner>>
      BY <1>1, <3>1 DEF table, Live, Slots
    <3>2. CASE /\ carrier[arg[p].c] = NoId
               /\ Issue(arg[p].c) /\ AllocLocked(made + 1)
               /\ owner' = [owner EXCEPT ![arg[p].c] = made + 1]
               /\ UNCHANGED wrapped
      <4>1. arg[p].c \in Carriers
        BY <2>3 DEF LazySlow, Inv, CallsOK
      <4>2. owner[arg[p].c] = Nil
        BY <3>2, <4>1 DEF Inv, CarrierIds
      <4>3. made' = made + 1 /\ Live' = Live \cup {made + 1} /\ made < MaxObj
        BY <1>2, <3>2, AllocOnce DEF Issue
      <4> QED BY <1>1, <3>2, <4>1, <4>2, <4>3 DEF Map!Bind, Map!Root, Nil
    <3> QED BY <2>3, <3>1, <3>2 DEF LazySlow
  <2>4. ASSUME NEW c \in Carriers, DestroySwap(p, c)
        PROVE  Map!Next
    <3>1. owner' = [owner EXCEPT ![c] = Nil] /\ UNCHANGED <<Live, made>>
      BY <2>4 DEF DestroySwap, table, Live, Slots
    <3> QED BY <1>1, <3>1 DEF Map!Unbind, Nil
  <2>5. CASE DestroyFree(p)
    <3>1. UNCHANGED <<made, owner>> /\ FreeLocked(arg[p].id) /\ pc[p] = "free"
      BY <2>5 DEF DestroyFree
    <3>2. arg[p].id \in Ids
      BY DEF Inv, CallsOK
    <3>3. \/ arg[p].id = NoId
          \/ \E h \in history : h.id = arg[p].id /\ \A c \in Carriers : owner[c] # h.obj
      BY <3>1 DEF Inv, PendingFree
    <3>4. Live' = Live \/ \E o \in Live : Live' = Live \ {o} /\ \A c \in Carriers : owner[c] # o
      BY <3>1, <3>2, <3>3, FreeMapped
    <3> QED BY <1>1, <3>1, <3>4 DEF Map!Drop
  <2>6. CASE LazyGet(p) \/ \E c \in Carriers : LazyLoad(p, c)
    BY <1>1, <2>6 DEF LazyGet, LazyLoad, table, Live, Slots
  <2> QED BY <1>3, <2>1, <2>2, <2>3, <2>4, <2>5, <2>6 DEF Step
<1>4. CASE UNCHANGED vars
  BY <1>1, <1>4 DEF vars, table, Live, Slots
<1> QED BY <1>3, <1>4 DEF Next

\* Until a generation wraps, the table is a map from C carriers to rooted objects
\* in which every step is atomic (handle.go:33-37, 90-152).
THEOREM TableIsMap == Spec /\ []~wrapped => Map!Spec
<1>1. Init => Map!Init
  BY CoreFacts, BoundIsOwner, InitInv DEF Init, Map!Init, Map!Nil, Live, Slots, Nil
<1>2. Inv /\ Inv' /\ Once /\ ~wrapped /\ ~wrapped' /\ [Next]_vars
        => [Map!Next]_<<Live, Bound, made>>
  BY MapStep
<1> QED BY <1>1, <1>2, Invariance, OnceInvariance, PTL DEF Spec, Map!Spec, Map!mapVars

\* Where fewer objects are made than a generation can count, none wraps.
THEOREM TableImplementsMap ==
  ASSUME MaxObj < GenMod
  PROVE  Spec => ImplementsMap
<1>1. Init => ~wrapped
  BY DEF Init
<1>2. Inv /\ Once /\ ~wrapped /\ [Next]_vars => ~wrapped'
  <2> SUFFICES ASSUME Inv, Once, ~wrapped, [Next]_vars PROVE ~wrapped'
    OBVIOUS
  <2>1. Core /\ made \in Nat /\ \A i \in Slots : gens[i] \in Nat
    BY TableFacts DEF Inv, Core
  <2>2. ASSUME NEW id \in Ids, FreeLocked(id), made' = made PROVE ~wrapped'
    <3>1. \/ UNCHANGED wrapped
          \/ /\ id.slot \in Slots /\ gens[id.slot] + 1 <= made
             /\ wrapped' = (gens[id.slot] + 1 = GenMod)
      BY <2>1, <2>2, FreeOnce
    <3>2. made <= MaxObj
      BY DEF Once
    <3>3. CASE UNCHANGED wrapped
      BY <3>3
    <3>4. CASE /\ id.slot \in Slots /\ gens[id.slot] + 1 <= made
               /\ wrapped' = (gens[id.slot] + 1 = GenMod)
      <4>1. gens[id.slot] + 1 # GenMod
        BY <2>1, <3>2, <3>4, HandleTableAssumption
      <4> QED BY <3>4, <4>1
    <3> QED BY <3>1, <3>3, <3>4
  <2>3. ASSUME NEW p \in Procs, Step(p) PROVE ~wrapped'
    <3>1. CASE Free(p)
      BY <2>1, <2>2, <3>1, CoreFacts DEF Free
    <3>2. CASE DestroyFree(p)
      BY <2>2, <3>2 DEF DestroyFree, Inv, CallsOK
    <3>3. CASE ~Free(p) /\ ~DestroyFree(p)
      BY <2>3, <3>3 DEF Step, Alloc, LazyLoad, LazyGet, LazySlow, DestroySwap
    <3> QED BY <3>1, <3>2, <3>3
  <2> QED BY <2>3 DEF Next, vars
<1>3. Spec => []~wrapped
  BY <1>1, <1>2, Invariance, OnceInvariance, PTL DEF Spec
<1> QED BY <1>3, TableIsMap, PTL DEF ImplementsMap

-----------------------------------------------------------------------------
(* Malloc: the inductive invariant. *)

\* The free list holds every slot that roots nothing, once each.
FreeIdx ==
  /\ \A k \in 1 .. Len(mallocFreeIdx) :
       mallocFreeIdx[k] \in M!Slots /\ mallocRegistry[mallocFreeIdx[k]] = NoAddress
  /\ \A i \in M!Slots :
       mallocRegistry[i] = NoAddress => \E k \in 1 .. Len(mallocFreeIdx) : mallocFreeIdx[k] = i
  /\ \A j, k \in 1 .. Len(mallocFreeIdx) : mallocFreeIdx[j] = mallocFreeIdx[k] => j = k

\* A slot roots memory that the collector has not taken, and no two the same.
SlotsApart ==
  /\ \A i, j \in M!Slots :
       mallocRegistry[i] = mallocRegistry[j] /\ mallocRegistry[i] # NoAddress => i = j
  /\ \A i \in M!Slots : mallocRegistry[i] # NoAddress => mem[mallocRegistry[i]] = "taken"

\* A block the program owns is found by its header, and holds what was promised.
LiveOwned ==
  \A a \in live : M!Lookup(a) /\ promise[a] <= hdr[a].size /\ promise[a] <= filled[a]

\* A block freed once is rooted by nothing until its address is issued again.
StaleGone ==
  \A a \in stale :
    a \notin live /\ (\A t \in Threads : np[t] # a) /\ \A i \in M!Slots : mallocRegistry[i] # a

\* How far a thread is with the block it makes and the one it reallocates.
MallocCall(t) ==
  /\ pcM[t] = "idle" => ap[t] = NoAddress
  /\ pcM[t] \in {"idle", "make"} <=> np[t] = NoAddress
  /\ pcM[t] \in {"copy", "free"} => ap[t] # NoAddress
  /\ ap[t] # NoAddress => ap[t] \in live
  /\ np[t] # NoAddress => np[t] \notin live /\ mem[np[t]] = "taken"
  /\ pcM[t] = "root" => \A i \in M!Slots : mallocRegistry[i] # np[t]
  /\ pcM[t] = "header" => idx[t] \in M!Slots /\ mallocRegistry[idx[t]] = np[t]
  /\ pcM[t] \in {"copy", "free"} => M!Lookup(np[t]) /\ hdr[np[t]].size = nbytes[t]
  /\ pcM[t] = "free" => M!Smaller(promise[ap[t]], nbytes[t]) <= filled[np[t]]

CallsApart ==
  \A t, q \in Threads :
    /\ np[t] # NoAddress /\ np[t] = np[q] => t = q
    /\ ap[t] # NoAddress /\ ap[t] = ap[q] => t = q

MallocInv ==
  /\ M!TypeOK /\ FreeIdx /\ SlotsApart /\ LiveOwned /\ StaleGone
  /\ (\A t \in Threads : MallocCall(t)) /\ CallsApart /\ M!NoBlockLeaks

LEMMA MallocFacts == NoAddress \notin Addresses /\ MaxSize \in Nat \ {0}
BY MemoryConstants DEF M!MallocConstants

LEMMA SizeFacts == 0 \in M!Sizes /\ 1 \in M!Sizes /\ \A n \in M!Sizes : n \in Nat
BY MallocFacts DEF M!Sizes

LEMMA MallocTypes ==
  ASSUME M!TypeOK
  PROVE  /\ mallocRegistry \in Seq(Addresses \cup {NoAddress})
         /\ mallocFreeIdx \in Seq(Nat \ {0})
         /\ Len(mallocRegistry) \in Nat /\ Len(mallocFreeIdx) \in Nat
         /\ \A i \in M!Slots : mallocRegistry[i] \in Addresses \cup {NoAddress}
         /\ \A k \in 1 .. Len(mallocFreeIdx) : mallocFreeIdx[k] \in Nat \ {0}
<1>1. mallocRegistry \in Seq(Addresses \cup {NoAddress}) /\ mallocFreeIdx \in Seq(Nat \ {0})
  BY DEF M!TypeOK
<1>2. Len(mallocRegistry) \in Nat
      /\ \A i \in 1 .. Len(mallocRegistry) : mallocRegistry[i] \in Addresses \cup {NoAddress}
  BY <1>1, Members
<1>3. Len(mallocFreeIdx) \in Nat
      /\ \A k \in 1 .. Len(mallocFreeIdx) : mallocFreeIdx[k] \in Nat \ {0}
  BY <1>1, Members
<1> QED
  BY <1>1, <1>2, <1>3 DEF M!Slots

LEMMA MallocInit == M!Init => MallocInv
<1> SUFFICES ASSUME M!Init PROVE MallocInv
  OBVIOUS
<1>1. Len(mallocRegistry) = 0 /\ Len(mallocFreeIdx) = 0
  BY EmptySeq DEF M!Init
<1>2. M!Slots = {} /\ 1 .. Len(mallocFreeIdx) = {}
  BY <1>1 DEF M!Slots
<1>3. M!TypeOK
  <2>1. mallocRegistry \in Seq(Addresses \cup {NoAddress}) /\ mallocFreeIdx \in Seq(Nat \ {0})
    BY EmptySeq DEF M!Init
  <2>2. hdr \in [Addresses -> [idx : Nat, size : M!Sizes]]
    BY SizeFacts DEF M!Init
  <2>3. filled \in [Addresses -> M!Sizes] /\ promise \in [Addresses -> M!Sizes]
    BY SizeFacts DEF M!Init
  <2>4. nbytes \in [Threads -> M!Sizes] /\ idx \in [Threads -> Nat]
    BY SizeFacts DEF M!Init
  <2> QED
    BY <2>1, <2>2, <2>3, <2>4 DEF M!Init, M!TypeOK
<1>4. FreeIdx /\ SlotsApart /\ M!NoBlockLeaks
  BY <1>2 DEF FreeIdx, SlotsApart, M!NoBlockLeaks
<1>5. LiveOwned /\ StaleGone
  BY DEF M!Init, LiveOwned, StaleGone
<1>6. \A t \in Threads : MallocCall(t)
  BY DEF M!Init, MallocCall
<1>7. CallsApart
  BY DEF M!Init, CallsApart
<1> QED
  BY <1>3, <1>4, <1>5, <1>6, <1>7 DEF MallocInv

-----------------------------------------------------------------------------
(* What Release and Root do to the registry and to its free list. *)

LEMMA ReleaseEffect ==
  ASSUME M!TypeOK, FreeIdx, NEW a \in Addresses, M!Lookup(a), M!Release(a)
  PROVE  /\ M!Slots' = M!Slots /\ hdr[a].idx \in M!Slots
         /\ \A i \in M!Slots :
              mallocRegistry'[i] = IF i = hdr[a].idx THEN NoAddress ELSE mallocRegistry[i]
         /\ mallocRegistry' \in Seq(Addresses \cup {NoAddress})
         /\ mallocFreeIdx' \in Seq(Nat \ {0})
         /\ FreeIdx'
<1> DEFINE h == hdr[a].idx  n == Len(mallocFreeIdx)
<1>1. h \in M!Slots /\ mallocRegistry[h] = a /\ h \in Nat \ {0}
  BY MallocTypes DEF M!Lookup, M!Slots
<1>2. /\ mallocRegistry' = [mallocRegistry EXCEPT ![h] = NoAddress]
      /\ mallocFreeIdx' = Append(mallocFreeIdx, h)
  BY DEF M!Release
<1> HIDE DEF h
<1>3. /\ mallocRegistry' \in Seq(Addresses \cup {NoAddress})
      /\ Len(mallocRegistry') = Len(mallocRegistry)
      /\ mallocRegistry'[h] = NoAddress
      /\ \A j \in 1 .. Len(mallocRegistry) : j # h => mallocRegistry'[j] = mallocRegistry[j]
  <2> DEFINE Elems == Addresses \cup {NoAddress}
  <2>1. mallocRegistry \in Seq(Elems) /\ h \in 1 .. Len(mallocRegistry) /\ NoAddress \in Elems
    BY <1>1, MallocTypes DEF M!Slots
  <2> HIDE DEF Elems
  <2>2. /\ mallocRegistry' \in Seq(Elems) /\ Len(mallocRegistry') = Len(mallocRegistry)
        /\ mallocRegistry'[h] = NoAddress
        /\ \A j \in 1 .. Len(mallocRegistry) : j # h => mallocRegistry'[j] = mallocRegistry[j]
    BY <1>2, <2>1, Put
  <2> QED
    BY <2>2 DEF Elems
<1>4. /\ mallocFreeIdx' \in Seq(Nat \ {0}) /\ Len(mallocFreeIdx') = n + 1
      /\ mallocFreeIdx'[n + 1] = h
      /\ \A j \in 1 .. n : mallocFreeIdx'[j] = mallocFreeIdx[j]
  <2> DEFINE Elems == Nat \ {0}
  <2>1. mallocFreeIdx \in Seq(Elems) /\ h \in Elems
    BY <1>1, MallocTypes
  <2> HIDE DEF Elems
  <2>2. /\ mallocFreeIdx' \in Seq(Elems) /\ Len(mallocFreeIdx') = n + 1
        /\ mallocFreeIdx'[n + 1] = h
        /\ \A j \in 1 .. n : mallocFreeIdx'[j] = mallocFreeIdx[j]
    BY <1>2, <2>1, Push
  <2> QED
    BY <2>2 DEF Elems
<1>5. M!Slots' = M!Slots
  BY <1>3 DEF M!Slots
<1>6. a # NoAddress /\ n \in Nat
  BY MallocFacts, MallocTypes
<1> HIDE DEF n
<1>7. FreeIdx'
  <2>1. \A k \in 1 .. n : mallocFreeIdx[k] \in M!Slots /\ mallocFreeIdx[k] # h
                          /\ mallocRegistry'[mallocFreeIdx[k]] = NoAddress
    BY <1>1, <1>3, <1>6 DEF FreeIdx, M!Slots, n
  <2>2. \A k \in 1 .. n + 1 : mallocFreeIdx'[k] = IF k = n + 1 THEN h ELSE mallocFreeIdx[k]
    BY <1>4, <1>6
  <2>3. \A k \in 1 .. n + 1 :
          mallocFreeIdx'[k] \in M!Slots /\ mallocRegistry'[mallocFreeIdx'[k]] = NoAddress
    BY <1>1, <1>3, <1>6, <2>1, <2>2
  <2>4. \A i \in M!Slots :
          mallocRegistry'[i] = NoAddress => \E k \in 1 .. n + 1 : mallocFreeIdx'[k] = i
    <3> SUFFICES ASSUME NEW i \in M!Slots, mallocRegistry'[i] = NoAddress
                 PROVE  \E k \in 1 .. n + 1 : mallocFreeIdx'[k] = i
      OBVIOUS
    <3>1. CASE i = h
      BY <3>1, <1>4, <1>6
    <3>2. CASE i # h
      <4>1. PICK k \in 1 .. n : mallocFreeIdx[k] = i
        BY <3>2, <1>3 DEF FreeIdx, M!Slots, n
      <4> QED
        BY <4>1, <1>4, <1>6
    <3> QED
      BY <3>1, <3>2
  <2>5. \A j, k \in 1 .. n + 1 : mallocFreeIdx'[j] = mallocFreeIdx'[k] => j = k
    <3>1. \A j, k \in 1 .. n : mallocFreeIdx[j] = mallocFreeIdx[k] => j = k
      BY DEF FreeIdx, n
    <3> QED
      BY <2>1, <2>2, <3>1, <1>6
  <2> QED
    BY <1>4, <1>5, <2>3, <2>4, <2>5 DEF FreeIdx
<1> QED
  BY <1>1, <1>3, <1>4, <1>5, <1>7 DEF h, M!Slots

LEMMA RootEffect ==
  ASSUME M!TypeOK, FreeIdx, NEW t \in Threads, M!Root(t), np[t] \in Addresses
  PROVE  \E s \in Nat \ {0} :
           /\ M!Slots' = M!Slots \cup {s}
           /\ s \in M!Slots => mallocRegistry[s] = NoAddress
           /\ idx' = [idx EXCEPT ![t] = s]
           /\ mallocRegistry'[s] = np[t]
           /\ \A i \in M!Slots : i # s => mallocRegistry'[i] = mallocRegistry[i]
           /\ mallocRegistry' \in Seq(Addresses \cup {NoAddress})
           /\ mallocFreeIdx' \in Seq(Nat \ {0})
           /\ FreeIdx'
<1> DEFINE n == Len(mallocFreeIdx)  m == Len(mallocRegistry)
           Elems == Addresses \cup {NoAddress}
<1>1. /\ mallocRegistry \in Seq(Elems) /\ np[t] \in Elems /\ mallocFreeIdx \in Seq(Nat \ {0})
      /\ m \in Nat /\ n \in Nat /\ M!Slots = 1 .. m
      /\ np[t] # NoAddress
  BY MallocTypes, MallocFacts DEF M!Slots
<1> HIDE DEF Elems
<1>2. CASE n > 0
  <2> DEFINE s == mallocFreeIdx[n]
  <2>1. /\ idx' = [idx EXCEPT ![t] = s]
        /\ mallocRegistry' = [mallocRegistry EXCEPT ![s] = np[t]]
        /\ mallocFreeIdx' = SubSeq(mallocFreeIdx, 1, n - 1)
    BY <1>1, <1>2 DEF M!Root
  <2>2. n \in 1 .. n
    BY <1>1, <1>2
  <2>3. s \in M!Slots /\ mallocRegistry[s] = NoAddress /\ s \in Nat \ {0}
    BY <1>1, <2>2 DEF FreeIdx
  <2> HIDE DEF s
  <2>4. /\ mallocRegistry' \in Seq(Elems) /\ Len(mallocRegistry') = m
        /\ mallocRegistry'[s] = np[t]
        /\ \A j \in 1 .. m : j # s => mallocRegistry'[j] = mallocRegistry[j]
    BY <1>1, <2>1, <2>3, Put
  <2>5. /\ mallocFreeIdx' \in Seq(Nat \ {0}) /\ Len(mallocFreeIdx') = n - 1
        /\ \A j \in 1 .. n - 1 : mallocFreeIdx'[j] = mallocFreeIdx[j]
    <3>1. mallocFreeIdx # <<>>
      BY <1>2, EmptySeq
    <3> DEFINE Idx == Nat \ {0}
    <3>2. mallocFreeIdx \in Seq(Idx)
      BY <1>1
    <3> HIDE DEF Idx
    <3>3. LET x == SubSeq(mallocFreeIdx, 1, Len(mallocFreeIdx) - 1)
          IN  /\ x \in Seq(Idx) /\ Len(x) = Len(mallocFreeIdx) - 1
              /\ \A j \in 1 .. Len(mallocFreeIdx) - 1 : x[j] = mallocFreeIdx[j]
      BY <3>1, <3>2, Pop
    <3> QED
      BY <2>1, <3>3 DEF Idx
  <2>6. M!Slots' = M!Slots \cup {s}
    BY <1>1, <2>3, <2>4 DEF M!Slots
  <2>7. FreeIdx'
    <3>1. \A k \in 1 .. n - 1 : k \in 1 .. n /\ mallocFreeIdx[k] # s
      BY <1>1, <2>2 DEF FreeIdx, s
    <3>2. \A k \in 1 .. n - 1 :
            mallocFreeIdx'[k] \in M!Slots /\ mallocRegistry'[mallocFreeIdx'[k]] = NoAddress
      <4> SUFFICES ASSUME NEW k \in 1 .. n - 1
                   PROVE  mallocFreeIdx'[k] \in M!Slots
                          /\ mallocRegistry'[mallocFreeIdx'[k]] = NoAddress
        OBVIOUS
      <4>1. /\ mallocFreeIdx'[k] = mallocFreeIdx[k] /\ mallocFreeIdx[k] # s
            /\ mallocFreeIdx[k] \in M!Slots /\ mallocRegistry[mallocFreeIdx[k]] = NoAddress
        BY <2>5, <3>1 DEF FreeIdx
      <4>2. mallocRegistry'[mallocFreeIdx[k]] = mallocRegistry[mallocFreeIdx[k]]
        BY <1>1, <2>4, <4>1
      <4> QED
        BY <4>1, <4>2
    <3>3. \A i \in M!Slots :
            mallocRegistry'[i] = NoAddress => \E k \in 1 .. n - 1 : mallocFreeIdx'[k] = i
      <4> SUFFICES ASSUME NEW i \in M!Slots, mallocRegistry'[i] = NoAddress
                   PROVE  \E k \in 1 .. n - 1 : mallocFreeIdx'[k] = i
        OBVIOUS
      <4>1. i # s /\ mallocRegistry[i] = NoAddress
        BY <1>1, <2>4
      <4>2. PICK k \in 1 .. n : mallocFreeIdx[k] = i
        BY <4>1 DEF FreeIdx
      <4>3. k \in 1 .. n - 1
        BY <1>1, <4>1, <4>2 DEF s
      <4> QED
        BY <4>2, <4>3, <2>5
    <3>4. \A j, k \in 1 .. n - 1 : mallocFreeIdx'[j] = mallocFreeIdx'[k] => j = k
      BY <2>5, <3>1 DEF FreeIdx
    <3>5. M!Slots' = M!Slots
      BY <2>3, <2>6
    <3> QED
      BY <2>5, <3>2, <3>3, <3>4, <3>5 DEF FreeIdx
  <2> QED
    BY <1>1, <2>1, <2>3, <2>4, <2>5, <2>6, <2>7 DEF Elems
<1>3. CASE n = 0
  <2>1. /\ idx' = [idx EXCEPT ![t] = m + 1]
        /\ mallocRegistry' = Append(mallocRegistry, np[t])
        /\ mallocFreeIdx' = mallocFreeIdx
    BY <1>1, <1>3 DEF M!Root
  <2>2. /\ mallocRegistry' \in Seq(Elems) /\ Len(mallocRegistry') = m + 1
        /\ mallocRegistry'[m + 1] = np[t]
        /\ \A j \in 1 .. m : mallocRegistry'[j] = mallocRegistry[j]
    BY <1>1, <2>1, Push
  <2>3. M!Slots' = M!Slots \cup {m + 1} /\ m + 1 \notin M!Slots /\ m + 1 \in Nat \ {0}
    BY <1>1, <2>2 DEF M!Slots
  <2>4. 1 .. n = {}
    BY <1>3
  <2>5. FreeIdx'
    <3>1. \A i \in M!Slots' : mallocRegistry'[i] # NoAddress
      BY <1>1, <2>2, <2>3, <2>4 DEF FreeIdx
    <3> QED
      BY <2>1, <2>4, <3>1 DEF FreeIdx
  <2> QED
    BY <1>1, <2>1, <2>2, <2>3, <2>5 DEF Elems
<1>4. n > 0 \/ n = 0
  BY <1>1
<1> QED
  BY <1>2, <1>3, <1>4

-----------------------------------------------------------------------------
(* The calls, one action at a time. *)

\* What a step that leaves the registry, the headers and the blocks alone keeps.
LEMMA RegistryKept ==
  ASSUME MallocInv, UNCHANGED <<mallocRegistry, mallocFreeIdx>>
  PROVE  FreeIdx' /\ M!Slots' = M!Slots
BY DEF MallocInv, FreeIdx, M!Slots

LEMMA MallocStartInv ==
  ASSUME MallocInv, NEW t \in Threads, M!Malloc(t)
  PROVE  MallocInv'
<1>1. PICK n \in M!Sizes : M!StartMake(t, n)
  BY DEF M!Malloc
<1>2. (IF n = 0 THEN 1 ELSE n) \in M!Sizes
  BY SizeFacts
<1>3. M!TypeOK'
  BY <1>1, <1>2 DEF MallocInv, M!TypeOK, M!Malloc, M!StartMake, M!registry, M!memory, M!ghosts
<1>4. FreeIdx' /\ M!Slots' = M!Slots
  BY RegistryKept DEF M!Malloc, M!registry
<1>5. SlotsApart' /\ LiveOwned' /\ StaleGone'
  BY <1>4 DEF MallocInv, SlotsApart, LiveOwned, StaleGone, M!Lookup, M!Malloc, M!registry, M!memory, M!ghosts
<1>6. ASSUME NEW q \in Threads PROVE MallocCall(q)'
  <2>1. CASE q = t
    BY <1>1, <2>1 DEF MallocInv, MallocCall, M!TypeOK, M!Malloc, M!StartMake
  <2>2. CASE q # t
    <3>1. pcM'[q] = pcM[q] /\ nbytes'[q] = nbytes[q]
      BY <1>1, <2>2 DEF MallocInv, M!TypeOK, M!StartMake
    <3> QED
      BY <1>4, <3>1 DEF MallocInv, MallocCall, M!Lookup, M!Malloc, M!registry, M!memory, M!ghosts
  <2> QED
    BY <2>1, <2>2
<1>7. CallsApart' /\ M!NoBlockLeaks'
  BY <1>4 DEF MallocInv, CallsApart, M!NoBlockLeaks, M!Malloc, M!registry, M!ghosts
<1> QED
  BY <1>3, <1>4, <1>5, <1>6, <1>7 DEF MallocInv

LEMMA MakeInv ==
  ASSUME MallocInv, NEW t \in Threads, M!Make(t)
  PROVE  MallocInv'
<1>1. PICK a \in Addresses :
        /\ pcM[t] = "make" /\ mem[a] = "unused"
        /\ mem' = [mem EXCEPT ![a] = "taken"]
        /\ hdr' = [hdr EXCEPT ![a] = [idx |-> 1, size |-> 0]]
        /\ filled' = [filled EXCEPT ![a] = 0]
        /\ np' = [np EXCEPT ![t] = a]
        /\ pcM' = [pcM EXCEPT ![t] = "root"]
        /\ stale' = stale \ {a}
        /\ UNCHANGED <<mallocRegistry, mallocFreeIdx, nbytes, idx, ap, live, promise>>
  BY DEF M!Make, M!registry
<1>2. M!TypeOK'
  <2>1. hdr' \in [Addresses -> [idx : Nat, size : M!Sizes]] /\ filled' \in [Addresses -> M!Sizes]
    BY <1>1, SizeFacts DEF MallocInv, M!TypeOK
  <2> QED
    BY <1>1, <2>1 DEF MallocInv, M!TypeOK
<1>3. FreeIdx' /\ M!Slots' = M!Slots
  BY <1>1, RegistryKept
<1>4. /\ \A b \in Addresses : b # a => mem'[b] = mem[b] /\ hdr'[b] = hdr[b] /\ filled'[b] = filled[b]
      /\ mem'[a] = "taken"
      /\ \A q \in Threads : np'[q] = IF q = t THEN a ELSE np[q]
      /\ \A q \in Threads : pcM'[q] = IF q = t THEN "root" ELSE pcM[q]
  BY <1>1 DEF MallocInv, M!TypeOK
<1>5. \A i \in M!Slots : mallocRegistry[i] # a
  BY <1>1, MallocFacts DEF MallocInv, SlotsApart
<1>6. a \notin live /\ (\A q \in Threads : np[q] # a) /\ np[t] = NoAddress /\ live \subseteq Addresses
      /\ a # NoAddress
  BY <1>1, <1>5, MallocFacts DEF MallocInv, LiveOwned, MallocCall, M!Lookup, M!TypeOK
<1>7. SlotsApart'
  BY <1>1, <1>3, <1>4, MallocTypes DEF MallocInv, SlotsApart
<1>8. LiveOwned'
  BY <1>1, <1>3, <1>4, <1>6 DEF MallocInv, LiveOwned, M!Lookup
<1>9. StaleGone'
  BY <1>1, <1>3, <1>4 DEF MallocInv, StaleGone
<1>10. ASSUME NEW q \in Threads PROVE MallocCall(q)'
  <2>1. CASE q = t
    BY <1>1, <1>3, <1>4, <1>5, <1>6, <2>1 DEF MallocInv, MallocCall
  <2>2. CASE q # t
    <3>1. pcM'[q] = pcM[q] /\ np'[q] = np[q] /\ (np[q] # NoAddress => np[q] \in Addresses /\ np[q] # a)
      BY <1>4, <1>6, <2>2 DEF MallocInv, M!TypeOK
    <3>2. MallocCall(q)
      BY DEF MallocInv
    <3> QED
      BY <1>1, <1>3, <1>4, <3>1, <3>2 DEF MallocCall, M!Lookup
  <2> QED
    BY <2>1, <2>2
<1>11. CallsApart'
  BY <1>1, <1>4, <1>6 DEF MallocInv, CallsApart
<1>12. M!NoBlockLeaks'
  <2>1. \A i \in M!Slots : mallocRegistry[i] \in live \cup {NoAddress} \cup {np[q] : q \in Threads}
    BY DEF MallocInv, M!NoBlockLeaks
  <2>2. \A q \in Threads : np[q] # NoAddress => np'[q] = np[q]
    BY <1>4, <1>6
  <2> QED
    BY <1>1, <1>3, <2>1, <2>2 DEF M!NoBlockLeaks
<1> QED
  BY <1>2, <1>3, <1>7, <1>8, <1>9, <1>10, <1>11, <1>12 DEF MallocInv

\* A call that returns keeps the other calls as they are.
LEMMA ReturnEffect ==
  ASSUME M!TypeOK, NEW t \in Threads, M!Return(t)
  PROVE  /\ pcM' \in [Threads -> {"idle", "make", "root", "header", "copy", "free"}]
         /\ nbytes' \in [Threads -> M!Sizes] /\ idx' \in [Threads -> Nat]
         /\ ap' \in [Threads -> Addresses \cup {NoAddress}]
         /\ np' \in [Threads -> Addresses \cup {NoAddress}]
         /\ pcM'[t] = "idle" /\ ap'[t] = NoAddress /\ np'[t] = NoAddress
         /\ \A q \in Threads : q # t =>
              /\ pcM'[q] = pcM[q] /\ nbytes'[q] = nbytes[q] /\ idx'[q] = idx[q]
              /\ ap'[q] = ap[q] /\ np'[q] = np[q]
<1>1. nbytes' \in [Threads -> M!Sizes] /\ idx' \in [Threads -> Nat]
  BY SizeFacts DEF M!Return, M!TypeOK
<1> QED
  BY <1>1 DEF M!Return, M!TypeOK

LEMMA MakeFailsInv ==
  ASSUME MallocInv, NEW t \in Threads, M!MakeFails(t)
  PROVE  MallocInv'
<1>1. /\ pcM[t] = "make" /\ M!Return(t)
      /\ UNCHANGED <<mallocRegistry, mallocFreeIdx, mem, hdr, filled, live, stale, promise>>
  BY DEF M!MakeFails, M!registry, M!memory, M!ghosts
<1>2. M!TypeOK'
  BY <1>1, ReturnEffect DEF MallocInv, M!TypeOK
<1>3. FreeIdx' /\ M!Slots' = M!Slots
  BY <1>1, RegistryKept
<1>4. SlotsApart' /\ LiveOwned'
  BY <1>1, <1>3 DEF MallocInv, SlotsApart, LiveOwned, M!Lookup
<1>5. np[t] = NoAddress
  BY <1>1 DEF MallocInv, MallocCall
<1>6. \A q \in Threads : np'[q] = np[q]
  BY <1>1, <1>5, ReturnEffect DEF MallocInv
<1>7. StaleGone'
  BY <1>1, <1>3, <1>6 DEF MallocInv, StaleGone
<1>8. ASSUME NEW q \in Threads PROVE MallocCall(q)'
  <2>1. CASE q = t
    BY <1>1, <2>1, ReturnEffect DEF MallocInv, MallocCall
  <2>2. CASE q # t
    <3>1. /\ pcM'[q] = pcM[q] /\ nbytes'[q] = nbytes[q] /\ idx'[q] = idx[q]
          /\ ap'[q] = ap[q] /\ np'[q] = np[q]
      BY <1>1, <2>2, ReturnEffect DEF MallocInv
    <3> QED
      BY <1>1, <1>3, <3>1 DEF MallocInv, MallocCall, M!Lookup
  <2> QED
    BY <2>1, <2>2
<1>9. CallsApart'
  <2>1. \A q \in Threads : ap'[q] # NoAddress => ap'[q] = ap[q]
    BY <1>1, ReturnEffect DEF MallocInv
  <2> QED
    BY <1>6, <2>1 DEF MallocInv, CallsApart
<1>10. M!NoBlockLeaks'
  BY <1>1, <1>3, <1>6 DEF MallocInv, M!NoBlockLeaks
<1> QED
  BY <1>2, <1>3, <1>4, <1>7, <1>8, <1>9, <1>10 DEF MallocInv

LEMMA RootInv ==
  ASSUME MallocInv, NEW t \in Threads, M!Root(t)
  PROVE  MallocInv'
<1>1. /\ pcM[t] = "root" /\ pcM' = [pcM EXCEPT ![t] = "header"]
      /\ UNCHANGED <<mem, hdr, filled, nbytes, ap, np, live, stale, promise>>
  BY DEF M!Root, M!memory, M!ghosts
<1>2. MallocCall(t) /\ np[t] \in Addresses /\ np[t] # NoAddress
  BY <1>1 DEF MallocInv, MallocCall, M!TypeOK
<1>3. PICK s \in Nat \ {0} :
        /\ M!Slots' = M!Slots \cup {s}
        /\ s \in M!Slots => mallocRegistry[s] = NoAddress
        /\ idx' = [idx EXCEPT ![t] = s]
        /\ mallocRegistry'[s] = np[t]
        /\ \A i \in M!Slots : i # s => mallocRegistry'[i] = mallocRegistry[i]
        /\ mallocRegistry' \in Seq(Addresses \cup {NoAddress})
        /\ mallocFreeIdx' \in Seq(Nat \ {0})
        /\ FreeIdx'
  BY <1>2, RootEffect DEF MallocInv
<1>4. M!TypeOK'
  BY <1>1, <1>3 DEF MallocInv, M!TypeOK
<1>5. \A q \in Threads : /\ idx'[q] = IF q = t THEN s ELSE idx[q]
                         /\ pcM'[q] = IF q = t THEN "header" ELSE pcM[q]
  BY <1>1, <1>3 DEF MallocInv, M!TypeOK
<1>6. \A i \in M!Slots : mallocRegistry[i] # np[t]
  BY <1>1, <1>2 DEF MallocCall
\* What the registry said of other addresses it says still.
<1>7. \A i \in M!Slots : mallocRegistry[i] # NoAddress => mallocRegistry'[i] = mallocRegistry[i]
  BY <1>3
<1>8. \A i \in M!Slots' : mallocRegistry'[i] # np[t] => i \in M!Slots /\ mallocRegistry'[i] = mallocRegistry[i]
  BY <1>3
<1>9. \A b \in Addresses : M!Lookup(b) => M!Lookup(b)'
  BY <1>1, <1>3, <1>7, MallocFacts DEF M!Lookup
<1>10. SlotsApart'
  <2>1. \A i \in M!Slots' : mallocRegistry'[i] = np[t] => i = s
    BY <1>3, <1>6
  <2>2. ASSUME NEW i \in M!Slots', NEW j \in M!Slots',
               mallocRegistry'[i] = mallocRegistry'[j], mallocRegistry'[i] # NoAddress
        PROVE  i = j
    BY <1>8, <2>1, <2>2 DEF MallocInv, SlotsApart
  <2>3. \A i \in M!Slots' : mallocRegistry'[i] # NoAddress => mem[mallocRegistry'[i]] = "taken"
    BY <1>2, <1>8 DEF MallocInv, MallocCall, SlotsApart
  <2> QED
    BY <1>1, <2>2, <2>3 DEF SlotsApart
<1>11. LiveOwned'
  BY <1>1, <1>9 DEF MallocInv, LiveOwned, M!TypeOK
<1>12. StaleGone'
  BY <1>1, <1>8 DEF MallocInv, StaleGone
<1>13. ASSUME NEW q \in Threads PROVE MallocCall(q)'
  <2>1. CASE q = t
    BY <1>1, <1>2, <1>3, <1>5, <2>1 DEF MallocCall
  <2>2. CASE q # t
    <3>1. MallocCall(q) /\ idx'[q] = idx[q] /\ pcM'[q] = pcM[q]
      BY <1>5, <2>2 DEF MallocInv
    <3>2. np[q] # NoAddress => np[q] # np[t] /\ np[q] \in Addresses
      BY <1>2, <2>2 DEF MallocInv, CallsApart, M!TypeOK
    <3>3. pcM[q] = "root" => \A i \in M!Slots' : mallocRegistry'[i] # np[q]
      BY <1>8, <3>1, <3>2 DEF MallocCall
    <3>4. pcM[q] = "header" => idx[q] \in M!Slots' /\ mallocRegistry'[idx[q]] = np[q]
      BY <1>3, <1>7, <3>1, <3>2 DEF MallocCall
    <3> QED
      BY <1>1, <1>9, <3>1, <3>2, <3>3, <3>4 DEF MallocCall
  <2> QED
    BY <2>1, <2>2
<1>14. CallsApart'
  BY <1>1 DEF MallocInv, CallsApart
<1>15. M!NoBlockLeaks'
  <2>1. \A i \in M!Slots : mallocRegistry[i] \in live \cup {NoAddress} \cup {np[q] : q \in Threads}
    BY DEF MallocInv, M!NoBlockLeaks
  <2> QED
    BY <1>1, <1>8, <2>1 DEF M!NoBlockLeaks
<1> QED
  BY <1>3, <1>4, <1>10, <1>11, <1>12, <1>13, <1>14, <1>15 DEF MallocInv

LEMMA HeaderInv ==
  ASSUME MallocInv, NEW t \in Threads, M!Header(t)
  PROVE  MallocInv'
<1>0. PICK a \in Addresses : a = np[t]
  BY ZenonT(60) DEF M!Header, MallocInv, MallocCall, M!TypeOK
<1>1. /\ pcM[t] = "header"
      /\ hdr' = [hdr EXCEPT ![a] = [idx |-> idx[t], size |-> nbytes[t]]]
      /\ UNCHANGED <<mallocRegistry, mallocFreeIdx, mem, filled, stale>>
  BY <1>0 DEF M!Header, M!registry
<1>2. /\ MallocCall(t) /\ a \in Addresses /\ a # NoAddress /\ a \notin live
      /\ idx[t] \in M!Slots /\ mallocRegistry[idx[t]] = a
  BY <1>0, <1>1 DEF MallocInv, MallocCall, M!TypeOK
<1>3. FreeIdx' /\ M!Slots' = M!Slots
  BY <1>1, RegistryKept
<1>4. hdr' \in [Addresses -> [idx : Nat, size : M!Sizes]]
  BY <1>1 DEF MallocInv, M!TypeOK
<1>5. /\ hdr'[a].idx = idx[t] /\ hdr'[a].size = nbytes[t]
      /\ \A b \in Addresses : b # a => hdr'[b] = hdr[b]
  BY <1>1, <1>2 DEF MallocInv, M!TypeOK
<1>6. /\ M!Lookup(a)'
      /\ \A b \in Addresses : b # a => (M!Lookup(b) <=> M!Lookup(b)')
  <2>1. M!Lookup(a)'
    BY <1>1, <1>2, <1>3, <1>5 DEF M!Lookup
  <2>2. ASSUME NEW b \in Addresses, b # a PROVE M!Lookup(b) <=> M!Lookup(b)'
    <3>1. hdr'[b] = hdr[b]
      BY <1>5, <2>2
    <3> QED
      BY <1>1, <1>3, <3>1 DEF M!Lookup
  <2> QED
    BY <2>1, <2>2
<1>7. SlotsApart'
  BY <1>1, <1>3 DEF MallocInv, SlotsApart
<1>8. CASE ap[t] = NoAddress
  <2>1. M!Return(t) /\ live' = live \cup {a} /\ promise' = [promise EXCEPT ![a] = 0]
    BY <1>0, <1>8 DEF M!Header
  <2>2. promise' \in [Addresses -> M!Sizes] /\ promise'[a] = 0
        /\ \A b \in Addresses : b # a => promise'[b] = promise[b]
    BY <1>2, <2>1, SizeFacts DEF MallocInv, M!TypeOK
  <2>3. M!TypeOK'
    BY <1>1, <1>2, <1>4, <2>1, <2>2, ReturnEffect DEF MallocInv, M!TypeOK
  <2>4. LiveOwned'
    <3>1. nbytes[t] \in Nat /\ filled[a] \in Nat
      BY <1>2 DEF MallocInv, M!TypeOK, M!Sizes
    <3>2. promise'[a] <= hdr'[a].size /\ promise'[a] <= filled'[a]
      BY <1>1, <1>5, <2>2, <3>1
    <3>3. \A b \in live : b # a /\ b \in Addresses
      BY <1>2 DEF MallocInv, M!TypeOK
    <3>4. ASSUME NEW b \in live
          PROVE  M!Lookup(b)' /\ promise'[b] <= hdr'[b].size /\ promise'[b] <= filled'[b]
      <4>1. hdr'[b] = hdr[b] /\ promise'[b] = promise[b] /\ (M!Lookup(b) <=> M!Lookup(b)')
        BY <1>5, <1>6, <2>2, <3>3
      <4> QED
        BY <1>1, <4>1 DEF MallocInv, LiveOwned
    <3>5. M!Lookup(a)' /\ live' = live \cup {a}
      BY <1>6, <2>1
    <3> QED
      BY <3>2, <3>4, <3>5 DEF LiveOwned
  <2>5. \A q \in Threads : np'[q] # NoAddress => np'[q] = np[q]
    BY <2>1, ReturnEffect DEF MallocInv
  <2>6. StaleGone'
    <3>1. a \notin stale
      BY <1>0 DEF MallocInv, StaleGone
    <3>2. NoAddress \notin stale
      BY MallocFacts DEF MallocInv, M!TypeOK
    <3> QED
      BY <1>1, <1>3, <2>1, <2>5, <3>1, <3>2 DEF MallocInv, StaleGone
  <2>7. ASSUME NEW q \in Threads PROVE MallocCall(q)'
    <3>1. CASE q = t
      BY <2>1, <3>1, ReturnEffect DEF MallocInv, MallocCall
    <3>2. CASE q # t
      <4>1. /\ pcM'[q] = pcM[q] /\ nbytes'[q] = nbytes[q] /\ idx'[q] = idx[q]
            /\ ap'[q] = ap[q] /\ np'[q] = np[q]
        BY <2>1, <3>2, ReturnEffect DEF MallocInv
      <4>2. MallocCall(q) /\ (np[q] # NoAddress => np[q] # a /\ np[q] \in Addresses)
        BY <1>0, <1>2, <3>2 DEF MallocInv, CallsApart, M!TypeOK
      <4>3. ap[q] # NoAddress => ap[q] # a /\ ap[q] \in Addresses
        BY <1>2, <4>2 DEF MallocInv, MallocCall, M!TypeOK
      <4>4. pcM[q] \in {"copy", "free"} => ap[q] # NoAddress /\ np[q] # NoAddress
        BY <4>2 DEF MallocCall
      <4> QED
        BY <1>1, <1>3, <1>5, <1>6, <2>1, <2>2, <4>1, <4>2, <4>3, <4>4 DEF MallocCall
    <3> QED
      BY <3>1, <3>2
  <2>8. CallsApart'
    <3>1. \A q \in Threads : ap'[q] # NoAddress => ap'[q] = ap[q]
      BY <2>1, ReturnEffect DEF MallocInv
    <3> QED
      BY <2>5, <3>1 DEF MallocInv, CallsApart
  <2>9. M!NoBlockLeaks'
    <3>1. \A i \in M!Slots : mallocRegistry[i] \in live \cup {NoAddress} \cup {np[q] : q \in Threads}
      BY DEF MallocInv, M!NoBlockLeaks
    <3>2. \A q \in Threads : q # t => np'[q] = np[q]
      BY <2>1, ReturnEffect DEF MallocInv
    <3>3. \A q \in Threads : np[q] \in live' \/ np[q] \in {np'[x] : x \in Threads}
      BY <1>0, <2>1, <3>2
    <3> QED
      BY <1>1, <1>3, <2>1, <3>1, <3>3 DEF M!NoBlockLeaks
  <2> QED
    BY <1>3, <1>7, <2>3, <2>4, <2>6, <2>7, <2>8, <2>9 DEF MallocInv
<1>9. CASE ap[t] # NoAddress
  <2>1. /\ pcM' = [pcM EXCEPT ![t] = "copy"]
        /\ UNCHANGED <<nbytes, idx, ap, np, live, promise>>
    BY <1>9 DEF M!Header, M!locals
  <2>2. M!TypeOK'
    BY <1>1, <1>4, <2>1 DEF MallocInv, M!TypeOK
  <2>3. \A q \in Threads : pcM'[q] = IF q = t THEN "copy" ELSE pcM[q]
    BY <2>1 DEF MallocInv, M!TypeOK
  <2>4. LiveOwned'
    <3>1. \A b \in live : b # a /\ b \in Addresses
      BY <1>2 DEF MallocInv, M!TypeOK
    <3> QED
      BY <1>1, <1>5, <1>6, <2>1, <3>1 DEF MallocInv, LiveOwned
  <2>5. StaleGone'
    BY <1>1, <1>3, <2>1 DEF MallocInv, StaleGone
  <2>6. ASSUME NEW q \in Threads PROVE MallocCall(q)'
    <3>1. CASE q = t
      BY <1>0, <1>1, <1>2, <1>3, <1>5, <1>6, <1>9, <2>1, <2>3, <3>1 DEF MallocCall
    <3>2. CASE q # t
      <4>1. MallocCall(q) /\ (np[q] # NoAddress => np[q] # a /\ np[q] \in Addresses)
        BY <1>0, <1>2, <3>2 DEF MallocInv, CallsApart, M!TypeOK
      <4>2. pcM[q] \in {"copy", "free"} => np[q] # NoAddress
        BY <4>1 DEF MallocCall
      <4> QED
        BY <1>1, <1>3, <1>5, <1>6, <2>1, <2>3, <3>2, <4>1, <4>2 DEF MallocCall
    <3> QED
      BY <3>1, <3>2
  <2>7. CallsApart' /\ M!NoBlockLeaks'
    BY <1>1, <1>3, <2>1 DEF MallocInv, CallsApart, M!NoBlockLeaks
  <2> QED
    BY <1>3, <1>7, <2>2, <2>4, <2>5, <2>6, <2>7 DEF MallocInv
<1> QED
  BY <1>8, <1>9

-----------------------------------------------------------------------------
(* free and realloc. *)

\* A valid block leaves the registry and nothing else does.
LEMMA ReleaseKeeps ==
  ASSUME MallocInv, NEW a \in live, M!Release(a), UNCHANGED <<mem, hdr>>
  PROVE  /\ FreeIdx' /\ M!Slots' = M!Slots /\ SlotsApart'
         /\ mallocRegistry' \in Seq(Addresses \cup {NoAddress})
         /\ mallocFreeIdx' \in Seq(Nat \ {0})
         /\ \A i \in M!Slots : mallocRegistry'[i] # a
         /\ \A i \in M!Slots : mallocRegistry[i] # a => mallocRegistry'[i] = mallocRegistry[i]
         /\ \A i \in M!Slots : mallocRegistry'[i] \in {NoAddress, mallocRegistry[i]}
         /\ \A b \in Addresses \ {a} : M!Lookup(b) => M!Lookup(b)'
<1> DEFINE h == hdr[a].idx
<1>1. a \in Addresses /\ a # NoAddress /\ M!Lookup(a)
  BY MallocFacts DEF MallocInv, LiveOwned, M!TypeOK
<1>2. /\ M!Slots' = M!Slots /\ h \in M!Slots
      /\ \A i \in M!Slots : mallocRegistry'[i] = IF i = h THEN NoAddress ELSE mallocRegistry[i]
      /\ mallocRegistry' \in Seq(Addresses \cup {NoAddress})
      /\ mallocFreeIdx' \in Seq(Nat \ {0})
      /\ FreeIdx'
  BY <1>1, ReleaseEffect DEF MallocInv
<1>3. mallocRegistry[h] = a
  BY <1>1 DEF M!Lookup
<1> HIDE DEF h
<1>4. \A i \in M!Slots : mallocRegistry[i] = a => i = h
  BY <1>1, <1>2, <1>3 DEF MallocInv, SlotsApart
<1>5. SlotsApart'
  <2>1. \A i, j \in M!Slots :
          mallocRegistry'[i] = mallocRegistry'[j] /\ mallocRegistry'[i] # NoAddress => i = j
    BY <1>2 DEF MallocInv, SlotsApart
  <2>2. \A i \in M!Slots : mallocRegistry'[i] # NoAddress => mem[mallocRegistry'[i]] = "taken"
    BY <1>2 DEF MallocInv, SlotsApart
  <2> QED
    BY <1>2, <2>1, <2>2 DEF SlotsApart
<1>6. \A b \in Addresses \ {a} : M!Lookup(b) => M!Lookup(b)'
  BY <1>2, <1>3 DEF M!Lookup
<1> QED
  BY <1>1, <1>2, <1>3, <1>4, <1>5, <1>6

\* Another call, which is not at work on the block released, goes on as before.
LEMMA OtherCall ==
  ASSUME MallocInv, NEW a \in live, M!Release(a), UNCHANGED <<mem, hdr, filled>>,
         NEW q \in Threads, ap[q] # a, np[q] # a,
         live \ {a} \subseteq live', np[q] \notin live' \/ np[q] = NoAddress,
         pcM'[q] = pcM[q], nbytes'[q] = nbytes[q], idx'[q] = idx[q],
         ap'[q] = ap[q], np'[q] = np[q],
         ap[q] # NoAddress => promise'[ap[q]] = promise[ap[q]]
  PROVE  MallocCall(q)'
<1>1. MallocCall(q) /\ np[q] \in Addresses \cup {NoAddress}
  BY DEF MallocInv, M!TypeOK
<1>2. /\ M!Slots' = M!Slots
      /\ \A i \in M!Slots : mallocRegistry[i] # a => mallocRegistry'[i] = mallocRegistry[i]
      /\ \A i \in M!Slots : mallocRegistry'[i] \in {NoAddress, mallocRegistry[i]}
      /\ \A b \in Addresses \ {a} : M!Lookup(b) => M!Lookup(b)'
  BY ReleaseKeeps
<1>3. pcM[q] = "root" => \A i \in M!Slots : mallocRegistry'[i] # np[q]
  BY <1>1, <1>2 DEF MallocCall
<1>4. pcM[q] = "header" => mallocRegistry'[idx[q]] = np[q]
  BY <1>1, <1>2 DEF MallocCall
<1>5. pcM[q] \in {"copy", "free"} => M!Lookup(np[q])'
  BY <1>1, <1>2 DEF MallocCall
<1>6. pcM[q] \in {"copy", "free"} => ap[q] # NoAddress
  BY <1>1 DEF MallocCall
<1> QED
  BY <1>1, <1>2, <1>3, <1>4, <1>5, <1>6 DEF MallocCall

\* free of a block that no call is at work on.
LEMMA FreedBlock ==
  ASSUME MallocInv, NEW a \in live, M!Idle(a), M!Release(a),
         UNCHANGED <<mem, hdr, filled, ap, np, promise>>,
         live' = live \ {a}, stale' = stale \cup {a}
  PROVE  /\ FreeIdx' /\ SlotsApart' /\ LiveOwned' /\ StaleGone' /\ CallsApart'
         /\ M!NoBlockLeaks'
<1>1. \A q \in Threads : ap[q] # a /\ np[q] # a
  BY DEF M!Idle
<1>2. live \subseteq Addresses
  BY DEF MallocInv, M!TypeOK
<1>3. LiveOwned'
  BY <1>2, ReleaseKeeps DEF MallocInv, LiveOwned
<1>4. StaleGone'
  <2>1. ASSUME NEW b \in stale, b # a, NEW i \in M!Slots PROVE mallocRegistry'[i] # b
    <3>1. mallocRegistry[i] # b /\ b # NoAddress
      BY <2>1, MallocFacts DEF MallocInv, StaleGone, M!TypeOK
    <3> QED
      BY <3>1, ReleaseKeeps
  <2>2. \A i \in M!Slots : mallocRegistry'[i] # a
    BY ReleaseKeeps
  <2>3. M!Slots' = M!Slots
    BY ReleaseKeeps
  <2> QED
    BY <1>1, <2>1, <2>2, <2>3 DEF MallocInv, StaleGone
<1>5. CallsApart'
  BY DEF MallocInv, CallsApart
<1>6. M!NoBlockLeaks'
  <2>1. \A i \in M!Slots : mallocRegistry[i] \in live \cup {NoAddress} \cup {np[q] : q \in Threads}
    BY DEF MallocInv, M!NoBlockLeaks
  <2>2. \A i \in M!Slots : mallocRegistry'[i] # a /\ mallocRegistry'[i] \in {NoAddress, mallocRegistry[i]}
    BY ReleaseKeeps
  <2>3. M!Slots' = M!Slots
    BY ReleaseKeeps
  <2> QED
    BY <2>1, <2>2, <2>3 DEF M!NoBlockLeaks
<1> QED
  BY <1>3, <1>4, <1>5, <1>6, ReleaseKeeps

LEMMA FreeBlockInv ==
  ASSUME MallocInv, NEW t \in Threads, M!Free(t)
  PROVE  MallocInv'
<1>1. PICK a \in live :
        /\ M!Idle(a) /\ M!Release(a)
        /\ live' = live \ {a} /\ stale' = stale \cup {a}
        /\ UNCHANGED <<mem, hdr, filled, pcM, nbytes, idx, ap, np, promise>>
  BY DEF M!Free, M!memory, M!locals
<1>2. /\ FreeIdx' /\ SlotsApart' /\ LiveOwned' /\ StaleGone' /\ CallsApart'
      /\ M!NoBlockLeaks'
  BY <1>1, FreedBlock
<1>3. M!TypeOK'
  BY <1>1, ReleaseKeeps DEF MallocInv, M!TypeOK
<1>4. ASSUME NEW q \in Threads PROVE MallocCall(q)'
  <2>1. np[q] \notin live' \/ np[q] = NoAddress
    BY <1>1 DEF MallocInv, MallocCall
  <2> QED
    BY <1>1, <2>1, OtherCall DEF M!Idle
<1> QED
  BY <1>2, <1>3, <1>4 DEF MallocInv

LEMMA ReallocZeroInv ==
  ASSUME MallocInv, NEW t \in Threads, M!ReallocZero(t)
  PROVE  MallocInv'
<1>1. PICK a \in live :
        /\ pcM[t] = "idle" /\ M!Idle(a) /\ M!Release(a) /\ M!StartMake(t, 0)
        /\ live' = live \ {a} /\ stale' = stale \cup {a}
        /\ UNCHANGED <<mem, hdr, filled, idx, ap, np, promise>>
  BY DEF M!ReallocZero, M!memory
<1>2. /\ FreeIdx' /\ SlotsApart' /\ LiveOwned' /\ StaleGone' /\ CallsApart'
      /\ M!NoBlockLeaks'
  BY <1>1, FreedBlock
<1>3. 1 \in M!Sizes
  BY SizeFacts
<1>4. M!TypeOK'
  BY <1>1, <1>3, ReleaseKeeps DEF MallocInv, M!TypeOK, M!StartMake
<1>5. ASSUME NEW q \in Threads PROVE MallocCall(q)'
  <2>1. CASE q = t
    BY <1>1, <2>1 DEF MallocInv, MallocCall, M!TypeOK, M!StartMake
  <2>2. CASE q # t
    <3>1. pcM'[q] = pcM[q] /\ nbytes'[q] = nbytes[q]
      BY <1>1, <2>2 DEF MallocInv, M!TypeOK, M!StartMake
    <3>2. np[q] \notin live' \/ np[q] = NoAddress
      BY <1>1 DEF MallocInv, MallocCall
    <3> QED
      BY <1>1, <3>1, <3>2, OtherCall DEF M!Idle
  <2> QED
    BY <2>1, <2>2
<1> QED
  BY <1>2, <1>4, <1>5 DEF MallocInv

\* A double free finds no slot that holds the block.
LEMMA StaleFreeDoesNothing ==
  ASSUME MallocInv, NEW t \in Threads, M!StaleFree(t)
  PROVE  UNCHANGED mallocVars
<1>1. PICK a \in stale : M!Release(a) /\ UNCHANGED <<M!memory, pcM, M!locals, M!ghosts>>
  BY DEF M!StaleFree
<1>2. ~M!Lookup(a)
  BY DEF MallocInv, StaleGone, M!Lookup
<1> QED
  BY <1>1, <1>2 DEF M!Release, M!registry, M!memory, M!locals, M!ghosts, mallocVars

LEMMA ReallocInv ==
  ASSUME MallocInv, NEW t \in Threads, M!Realloc(t)
  PROVE  MallocInv'
<1>1. PICK a \in live, n \in M!Sizes \ {0} :
        /\ pcM[t] = "idle" /\ M!Idle(a) /\ M!StartMake(t, n)
        /\ ap' = [ap EXCEPT ![t] = a]
        /\ UNCHANGED <<mallocRegistry, mallocFreeIdx, mem, hdr, filled, idx, np, live, stale, promise>>
  BY DEF M!Realloc, M!registry, M!memory, M!ghosts
<1>2. n \in M!Sizes /\ n # 0 /\ a \in Addresses /\ a # NoAddress
  BY MallocFacts DEF MallocInv, M!TypeOK
<1>3. /\ \A q \in Threads : ap'[q] = IF q = t THEN a ELSE ap[q]
      /\ \A q \in Threads : q # t => pcM'[q] = pcM[q] /\ nbytes'[q] = nbytes[q]
      /\ pcM'[t] = "make"
  BY <1>1 DEF MallocInv, M!TypeOK, M!StartMake
<1>4. M!TypeOK'
  BY <1>1, <1>2 DEF MallocInv, M!TypeOK, M!StartMake
<1>5. FreeIdx' /\ M!Slots' = M!Slots
  BY <1>1, RegistryKept
<1>6. SlotsApart' /\ LiveOwned' /\ StaleGone' /\ M!NoBlockLeaks'
  BY <1>1, <1>5 DEF MallocInv, SlotsApart, LiveOwned, StaleGone, M!Lookup, M!NoBlockLeaks
<1>7. ASSUME NEW q \in Threads PROVE MallocCall(q)'
  <2>1. MallocCall(q)
    BY DEF MallocInv
  <2>2. CASE q = t
    BY <1>1, <1>3, <2>1, <2>2 DEF MallocCall
  <2>3. CASE q # t
    BY <1>1, <1>3, <1>5, <2>1, <2>3 DEF MallocCall, M!Lookup
  <2> QED
    BY <2>2, <2>3
<1>8. CallsApart'
  BY <1>1, <1>3 DEF MallocInv, CallsApart, M!Idle
<1> QED
  BY <1>4, <1>5, <1>6, <1>7, <1>8 DEF MallocInv

\* A step that changes no variable of the allocator.
LEMMA MallocKept ==
  ASSUME MallocInv, UNCHANGED mallocVars
  PROVE  MallocInv'
<1> USE DEF mallocVars
<1>1. FreeIdx' /\ M!Slots' = M!Slots
  BY RegistryKept
<1>2. M!TypeOK'
  BY DEF MallocInv, M!TypeOK
<1>3. SlotsApart' /\ LiveOwned' /\ StaleGone' /\ CallsApart' /\ M!NoBlockLeaks'
  BY <1>1 DEF MallocInv, SlotsApart, LiveOwned, StaleGone, CallsApart, M!Lookup, M!NoBlockLeaks
<1>4. \A t \in Threads : MallocCall(t)'
  BY <1>1 DEF MallocInv, MallocCall, M!Lookup
<1> QED
  BY <1>1, <1>2, <1>3, <1>4 DEF MallocInv

LEMMA CopyInv ==
  ASSUME MallocInv, NEW t \in Threads, M!Copy(t)
  PROVE  MallocInv'
<1>1. PICK a \in live, b \in Addresses :
        /\ a = ap[t] /\ b = np[t] /\ a \in Addresses /\ b \notin live
        /\ M!Lookup(a) /\ M!Lookup(b) /\ hdr[b].size = nbytes[t]
        /\ promise[a] <= hdr[a].size /\ promise[a] <= filled[a]
  <2>1. pcM[t] = "copy" /\ MallocCall(t) /\ live \subseteq Addresses
        /\ np[t] \in Addresses \cup {NoAddress}
    BY DEF MallocInv, M!Copy, M!TypeOK
  <2>2. ap[t] \in live /\ np[t] \in Addresses /\ np[t] \notin live /\ M!Lookup(np[t])
        /\ hdr[np[t]].size = nbytes[t]
    BY <2>1 DEF MallocCall
  <2> QED
    BY <2>1, <2>2 DEF MallocInv, LiveOwned
<1>2. /\ pcM' = [pcM EXCEPT ![t] = "free"]
      /\ filled' = [filled EXCEPT ![b] = M!Smaller(filled[a], M!Smaller(hdr[a].size, nbytes[t]))]
      /\ UNCHANGED <<mallocRegistry, mallocFreeIdx, mem, hdr, nbytes, idx, ap, np, live, stale, promise>>
  BY <1>1 DEF M!Copy, M!registry, M!locals, M!ghosts
<1>3. /\ hdr[a].size \in M!Sizes /\ nbytes[t] \in M!Sizes /\ filled[a] \in M!Sizes
      /\ promise[a] \in M!Sizes
  BY <1>1 DEF MallocInv, M!TypeOK
<1> DEFINE n == M!Smaller(filled[a], M!Smaller(hdr[a].size, nbytes[t]))
<1>4. n \in M!Sizes /\ M!Smaller(promise[a], nbytes[t]) <= n
  BY <1>1, <1>3 DEF M!Smaller, M!Sizes
<1>5. filled' = [filled EXCEPT ![b] = n]
  BY <1>2
<1> HIDE DEF n
<1>6. /\ filled'[b] = n
      /\ \A c \in Addresses : c # b => filled'[c] = filled[c]
      /\ \A q \in Threads : pcM'[q] = IF q = t THEN "free" ELSE pcM[q]
  BY <1>1, <1>2, <1>5 DEF MallocInv, M!TypeOK
<1>7. M!TypeOK'
  BY <1>2, <1>4, <1>5 DEF MallocInv, M!TypeOK
<1>8. FreeIdx' /\ M!Slots' = M!Slots
  BY <1>2, RegistryKept
<1>9. LiveOwned'
  <2>1. \A c \in live : c # b /\ c \in Addresses
    BY <1>1 DEF MallocInv, M!TypeOK
  <2> QED
    BY <1>2, <1>6, <1>8, <2>1 DEF MallocInv, LiveOwned, M!Lookup
<1>10. SlotsApart' /\ StaleGone' /\ CallsApart' /\ M!NoBlockLeaks'
  BY <1>2, <1>8 DEF MallocInv, SlotsApart, StaleGone, CallsApart, M!NoBlockLeaks
<1>11. ASSUME NEW q \in Threads PROVE MallocCall(q)'
  <2>1. MallocCall(q)
    BY DEF MallocInv
  <2>2. CASE q = t
    <3>1. M!Lookup(np[q])' /\ hdr'[np[q]].size = nbytes'[q]
      BY <1>1, <1>2, <1>8, <2>2 DEF M!Lookup
    <3>2. M!Smaller(promise[ap[q]], nbytes[q]) <= filled'[np[q]]
      BY <1>1, <1>4, <1>6, <2>2
    <3>3. pcM[q] = "copy" /\ pcM'[q] = "free"
      BY <1>6, <2>2 DEF M!Copy
    <3> QED
      BY <1>2, <2>1, <3>1, <3>2, <3>3 DEF MallocCall
  <2>3. CASE q # t
    <3>1. np[q] # NoAddress => np[q] # b /\ np[q] \in Addresses
      BY <1>1, <2>3, MallocFacts DEF MallocInv, CallsApart, M!TypeOK
    <3>2. pcM[q] = "free" => np[q] # NoAddress
      BY <2>1 DEF MallocCall
    <3>3. pcM'[q] = pcM[q] /\ (pcM[q] = "free" => filled'[np[q]] = filled[np[q]])
      BY <1>6, <2>3, <3>1, <3>2
    <3> QED
      BY <1>2, <1>8, <2>1, <3>3 DEF MallocCall, M!Lookup
  <2> QED
    BY <2>2, <2>3
<1> QED
  BY <1>7, <1>8, <1>9, <1>10, <1>11 DEF MallocInv

LEMMA ReallocDoneInv ==
  ASSUME MallocInv, NEW t \in Threads, M!ReallocDone(t)
  PROVE  MallocInv'
<1>1. PICK a \in live, b \in Addresses :
        /\ a = ap[t] /\ b = np[t] /\ a \in Addresses /\ b \notin live
        /\ M!Lookup(b) /\ hdr[b].size = nbytes[t]
        /\ M!Smaller(promise[a], nbytes[t]) <= filled[b]
  <2>1. pcM[t] = "free" /\ MallocCall(t) /\ live \subseteq Addresses
        /\ np[t] \in Addresses \cup {NoAddress}
    BY DEF MallocInv, M!ReallocDone, M!TypeOK
  <2> QED
    BY <2>1 DEF MallocCall
<1> DEFINE n == M!Smaller(promise[a], nbytes[t])
<1>2. /\ M!Release(a) /\ M!Return(t)
      /\ live' = (live \ {a}) \cup {b} /\ stale' = stale \cup {a}
      /\ promise' = [promise EXCEPT ![b] = n]
      /\ UNCHANGED <<mem, hdr, filled>>
  BY <1>1 DEF M!ReallocDone, M!memory
<1>3. n \in M!Sizes /\ n <= nbytes[t] /\ n <= filled[b]
  <2>1. nbytes[t] \in M!Sizes /\ promise[a] \in M!Sizes
    BY <1>1 DEF MallocInv, M!TypeOK
  <2> QED
    BY <1>1, <2>1 DEF M!Smaller, M!Sizes
<1> HIDE DEF n
<1>4. promise' \in [Addresses -> M!Sizes] /\ promise'[b] = n
      /\ \A c \in Addresses : c # b => promise'[c] = promise[c]
  BY <1>1, <1>2, <1>3 DEF MallocInv, M!TypeOK
<1>5. a # b /\ b # NoAddress /\ a # NoAddress /\ live \subseteq Addresses
  BY <1>1, MallocFacts DEF MallocInv, M!TypeOK
<1>6. M!TypeOK'
  BY <1>1, <1>2, <1>4, ReleaseKeeps, ReturnEffect DEF MallocInv, M!TypeOK
<1>7. \A c \in Addresses \ {a} : M!Lookup(c) => M!Lookup(c)'
  BY <1>2, ReleaseKeeps
<1>8. LiveOwned'
  <2>1. M!Lookup(b)' /\ promise'[b] <= hdr'[b].size /\ promise'[b] <= filled'[b]
    BY <1>1, <1>2, <1>3, <1>4, <1>5, <1>7
  <2>2. ASSUME NEW c \in live, c # a
        PROVE  M!Lookup(c)' /\ promise'[c] <= hdr'[c].size /\ promise'[c] <= filled'[c]
    BY <1>1, <1>2, <1>4, <1>5, <1>7, <2>2 DEF MallocInv, LiveOwned
  <2> QED
    BY <1>2, <2>1, <2>2 DEF LiveOwned
\* Neither block is another call's.
<1>9. \A q \in Threads : q # t =>
        /\ np[q] # NoAddress => np[q] # b /\ np[q] # a
        /\ ap[q] # a /\ (ap[q] # NoAddress => ap[q] # b)
        /\ pcM'[q] = pcM[q] /\ nbytes'[q] = nbytes[q] /\ idx'[q] = idx[q]
        /\ ap'[q] = ap[q] /\ np'[q] = np[q]
  <2> SUFFICES ASSUME NEW q \in Threads, q # t
               PROVE  /\ np[q] # NoAddress => np[q] # b /\ np[q] # a
                      /\ ap[q] # a /\ (ap[q] # NoAddress => ap[q] # b)
                      /\ pcM'[q] = pcM[q] /\ nbytes'[q] = nbytes[q] /\ idx'[q] = idx[q]
                      /\ ap'[q] = ap[q] /\ np'[q] = np[q]
    OBVIOUS
  <2>1. /\ pcM'[q] = pcM[q] /\ nbytes'[q] = nbytes[q] /\ idx'[q] = idx[q]
        /\ ap'[q] = ap[q] /\ np'[q] = np[q]
    BY <1>2, ReturnEffect DEF MallocInv
  <2>2. MallocCall(q) /\ (np[q] # NoAddress => np[q] # np[t]) /\ (ap[q] # NoAddress => ap[q] # ap[t])
    BY DEF MallocInv, CallsApart
  <2> QED
    BY <1>1, <1>5, <2>1, <2>2 DEF MallocCall
<1>10. \A q \in Threads : /\ np'[q] # NoAddress => q # t /\ np'[q] = np[q]
                          /\ ap'[q] # NoAddress => q # t /\ ap'[q] = ap[q]
  BY <1>2, ReturnEffect DEF MallocInv
<1>11. StaleGone'
  <2>1. \A c \in stale : c # a /\ c # b
    BY <1>1 DEF MallocInv, StaleGone
  <2>2. ASSUME NEW c \in stale, NEW i \in M!Slots PROVE mallocRegistry'[i] # c
    <3>1. mallocRegistry[i] # c /\ c # NoAddress
      BY MallocFacts DEF MallocInv, StaleGone, M!TypeOK
    <3> QED
      BY <1>2, <3>1, ReleaseKeeps
  <2>3. M!Slots' = M!Slots /\ \A i \in M!Slots : mallocRegistry'[i] # a
    BY <1>2, ReleaseKeeps
  <2>4. \A c \in stale : c \notin live' /\ \A q \in Threads : np'[q] # c
    <3> SUFFICES ASSUME NEW c \in stale PROVE c \notin live' /\ \A q \in Threads : np'[q] # c
      OBVIOUS
    <3>1. c # NoAddress /\ c \notin live /\ \A q \in Threads : np[q] # c
      BY MallocFacts DEF MallocInv, StaleGone, M!TypeOK
    <3> QED
      BY <1>2, <1>10, <2>1, <3>1
  <2>5. a \notin live' /\ \A q \in Threads : np'[q] # a
    BY <1>2, <1>5, <1>9, <1>10
  <2> QED
    BY <1>2, <2>2, <2>3, <2>4, <2>5 DEF StaleGone
<1>12. ASSUME NEW q \in Threads PROVE MallocCall(q)'
  <2>1. CASE q = t
    BY <1>2, <2>1, ReturnEffect DEF MallocInv, MallocCall
  <2>2. CASE q # t
    <3>1. np[q] \notin live' \/ np[q] = NoAddress
      BY <1>2, <1>9, <2>2 DEF MallocInv, MallocCall
    <3>2. ap[q] # NoAddress => promise'[ap[q]] = promise[ap[q]]
      BY <1>4, <1>9, <2>2 DEF MallocInv, M!TypeOK
    <3>3. ap[q] # a /\ np[q] # a /\ live \ {a} \subseteq live'
      BY <1>2, <1>5, <1>9, <2>2
    <3>4. /\ pcM'[q] = pcM[q] /\ nbytes'[q] = nbytes[q] /\ idx'[q] = idx[q]
          /\ ap'[q] = ap[q] /\ np'[q] = np[q]
      BY <1>9, <2>2
    <3> QED
      BY <1>2, <3>1, <3>2, <3>3, <3>4, OtherCall
  <2> QED
    BY <2>1, <2>2
<1>13. CallsApart'
  BY <1>10 DEF MallocInv, CallsApart
<1>14. M!NoBlockLeaks'
  <2>1. \A i \in M!Slots : mallocRegistry[i] \in live \cup {NoAddress} \cup {np[q] : q \in Threads}
    BY DEF MallocInv, M!NoBlockLeaks
  <2>2. /\ \A i \in M!Slots : mallocRegistry'[i] # a /\ mallocRegistry'[i] \in {NoAddress, mallocRegistry[i]}
        /\ M!Slots' = M!Slots
    BY <1>2, ReleaseKeeps
  <2>3. \A q \in Threads : np[q] \in live' \/ np[q] \in {np'[x] : x \in Threads}
    BY <1>1, <1>2, <1>9
  <2> QED
    BY <1>2, <2>1, <2>2, <2>3 DEF M!NoBlockLeaks
<1>15. FreeIdx' /\ SlotsApart'
  BY <1>2, ReleaseKeeps
<1> QED
  BY <1>6, <1>8, <1>11, <1>12, <1>13, <1>14, <1>15 DEF MallocInv

-----------------------------------------------------------------------------
(* The program and the collector. *)

LEMMA StoreInv ==
  ASSUME MallocInv, M!Store
  PROVE  MallocInv'
<1>1. PICK a \in live :
        /\ M!Idle(a)
        /\ filled' = [filled EXCEPT ![a] = hdr[a].size]
        /\ promise' = [promise EXCEPT ![a] = hdr[a].size]
        /\ UNCHANGED <<mallocRegistry, mallocFreeIdx, mem, hdr, pcM, nbytes, idx, ap, np, live, stale>>
  BY DEF M!Store, M!registry, M!locals
<1>2. a \in Addresses /\ live \subseteq Addresses /\ hdr[a].size \in M!Sizes
  BY DEF MallocInv, M!TypeOK
<1>3. /\ filled' \in [Addresses -> M!Sizes] /\ promise' \in [Addresses -> M!Sizes]
      /\ filled'[a] = hdr[a].size /\ promise'[a] = hdr[a].size
      /\ \A b \in Addresses : b # a => filled'[b] = filled[b] /\ promise'[b] = promise[b]
  BY <1>1, <1>2 DEF MallocInv, M!TypeOK
<1>4. M!TypeOK'
  BY <1>1, <1>3 DEF MallocInv, M!TypeOK
<1>5. FreeIdx' /\ M!Slots' = M!Slots
  BY <1>1, RegistryKept
<1>6. LiveOwned'
  <2>1. hdr[a].size <= hdr[a].size
    BY <1>2 DEF M!Sizes
  <2> QED
    BY <1>1, <1>2, <1>3, <1>5, <2>1 DEF MallocInv, LiveOwned, M!Lookup
<1>7. SlotsApart' /\ StaleGone' /\ CallsApart' /\ M!NoBlockLeaks'
  BY <1>1, <1>5 DEF MallocInv, SlotsApart, StaleGone, CallsApart, M!NoBlockLeaks
<1>8. ASSUME NEW q \in Threads PROVE MallocCall(q)'
  <2>1. MallocCall(q) /\ ap[q] # a /\ np[q] # a
    BY <1>1 DEF MallocInv, M!Idle
  <2>2. pcM[q] = "free" => ap[q] \in Addresses /\ np[q] \in Addresses
    BY <1>2, <2>1 DEF MallocInv, MallocCall, M!TypeOK
  <2>3. pcM[q] = "free" => promise'[ap[q]] = promise[ap[q]] /\ filled'[np[q]] = filled[np[q]]
    BY <1>3, <2>1, <2>2
  <2> QED
    BY <1>1, <1>5, <2>1, <2>3 DEF MallocCall, M!Lookup
<1> QED
  BY <1>4, <1>5, <1>6, <1>7, <1>8 DEF MallocInv

LEMMA ReclaimInv ==
  ASSUME MallocInv, M!Reclaim
  PROVE  MallocInv'
<1>1. PICK a \in Addresses, scribble \in 1 .. M!Cardinality(Addresses) + 1 :
        /\ mem[a] = "taken" /\ M!Roots(a) = {} /\ M!Idle(a)
        /\ mem' = [mem EXCEPT ![a] = "unused"]
        /\ hdr' = [hdr EXCEPT ![a].idx = scribble]
        /\ filled' = [filled EXCEPT ![a] = 0]
        /\ UNCHANGED <<mallocRegistry, mallocFreeIdx, pcM, nbytes, idx, ap, np, live, stale, promise>>
  BY DEF M!Reclaim, M!registry, M!locals, M!ghosts
<1>2. scribble \in Nat
  OBVIOUS
<1>3. 0 \in M!Sizes
  BY SizeFacts
<1>4. M!TypeOK'
  <2>1. hdr' \in [Addresses -> [idx : Nat, size : M!Sizes]]
    BY <1>1, <1>2 DEF MallocInv, M!TypeOK
  <2>2. filled' \in [Addresses -> M!Sizes] /\ mem' \in [Addresses -> {"unused", "taken"}]
    BY <1>1, <1>3 DEF MallocInv, M!TypeOK
  <2> QED
    BY <1>1, <2>1, <2>2 DEF MallocInv, M!TypeOK
<1>5. \A b \in Addresses : b # a => mem'[b] = mem[b] /\ hdr'[b] = hdr[b] /\ filled'[b] = filled[b]
  BY <1>1 DEF MallocInv, M!TypeOK
<1>6. FreeIdx' /\ M!Slots' = M!Slots
  BY <1>1, RegistryKept
<1>7. \A i \in M!Slots : mallocRegistry[i] # a
  BY <1>1 DEF M!Roots
<1>8. \A b \in Addresses : b # a => (M!Lookup(b) <=> M!Lookup(b)')
  <2> SUFFICES ASSUME NEW b \in Addresses, b # a PROVE M!Lookup(b) <=> M!Lookup(b)'
    OBVIOUS
  <2>1. hdr'[b] = hdr[b]
    BY <1>5
  <2> QED
    BY <1>1, <1>6, <2>1 DEF M!Lookup
<1>9. a \notin live
  BY <1>7 DEF MallocInv, LiveOwned, M!Lookup
<1>10. SlotsApart'
  <2>1. \A i \in M!Slots : mallocRegistry[i] # NoAddress =>
          mallocRegistry[i] \in Addresses /\ mallocRegistry[i] # a
    BY <1>7, MallocTypes DEF MallocInv
  <2> QED
    BY <1>1, <1>5, <1>6, <2>1 DEF MallocInv, SlotsApart
<1>11. LiveOwned'
  <2>1. \A b \in live : b \in Addresses /\ b # a
    BY <1>9 DEF MallocInv, M!TypeOK
  <2> QED
    BY <1>1, <1>5, <1>8, <2>1 DEF MallocInv, LiveOwned
<1>12. StaleGone' /\ CallsApart' /\ M!NoBlockLeaks'
  BY <1>1, <1>6 DEF MallocInv, StaleGone, CallsApart, M!NoBlockLeaks
<1>13. ASSUME NEW q \in Threads PROVE MallocCall(q)'
  <2>1. MallocCall(q) /\ np[q] # a /\ (np[q] # NoAddress => np[q] \in Addresses)
    BY <1>1 DEF MallocInv, M!Idle, M!TypeOK
  <2>2. np[q] # NoAddress =>
          /\ mem'[np[q]] = mem[np[q]] /\ hdr'[np[q]] = hdr[np[q]] /\ filled'[np[q]] = filled[np[q]]
          /\ M!Lookup(np[q]) <=> M!Lookup(np[q])'
    <3> SUFFICES ASSUME NEW b \in Addresses, b = np[q], b # a
                 PROVE  /\ mem'[b] = mem[b] /\ hdr'[b] = hdr[b] /\ filled'[b] = filled[b]
                        /\ M!Lookup(b) <=> M!Lookup(np[q])'
      BY <2>1
    <3>1. M!Lookup(np[q])' <=> M!Lookup(b)'
      BY <1>1 DEF M!Lookup
    <3> QED
      BY <1>5, <1>8, <3>1
  <2>3. pcM[q] \in {"copy", "free"} => np[q] # NoAddress
    BY <2>1 DEF MallocCall
  <2> QED
    BY <1>1, <1>6, <2>1, <2>2, <2>3 DEF MallocCall
<1> QED
  BY <1>4, <1>6, <1>10, <1>11, <1>12, <1>13 DEF MallocInv

LEMMA MallocStep ==
  ASSUME MallocInv, [MCNext]_allVars
  PROVE  MallocInv' /\ [\A t \in Threads : M!StaleFree(t) => UNCHANGED <<mallocRegistry, mallocFreeIdx>>]_mallocVars
<1>1. CASE M!Next
  <2>1. MallocInv'
    <3>1. ASSUME NEW t \in Threads, M!StaleFree(t) PROVE MallocInv'
      BY <3>1, StaleFreeDoesNothing, MallocKept
    <3> QED
      BY <1>1, <3>1, MallocStartInv, MakeInv, MakeFailsInv, RootInv, HeaderInv, FreeBlockInv,
         ReallocZeroInv, ReallocInv, CopyInv, ReallocDoneInv, StoreInv, ReclaimInv
         DEF M!Next
  <2>2. \A t \in Threads : M!StaleFree(t) => UNCHANGED <<mallocRegistry, mallocFreeIdx>>
    BY StaleFreeDoesNothing DEF mallocVars
  <2> QED
    BY <2>1, <2>2
<1>2. CASE UNCHANGED mallocVars
  BY <1>2, MallocKept
<1> QED
  BY <1>1, <1>2 DEF MCNext, allVars

-----------------------------------------------------------------------------
(* What the invariant says of the registry. *)

\* The free list is as long as the set of the slots that root nothing.
LEMMA FreeIdxCount ==
  ASSUME MallocInv
  PROVE  M!FreeIdxExact
<1> DEFINE n == Len(mallocFreeIdx)
           Spare == M!Roots(NoAddress)
           f == [k \in 1 .. n |-> mallocFreeIdx[k]]
<1>1. n \in Nat
  BY MallocTypes DEF MallocInv
<1> HIDE DEF n
<1>2. \A k \in 1 .. n : mallocFreeIdx[k] \in Spare
  BY DEF MallocInv, FreeIdx, M!Roots, n
<1>3. \A i \in Spare : \E k \in 1 .. n : mallocFreeIdx[k] = i
  BY DEF MallocInv, FreeIdx, M!Roots, n
<1>4. \A j, k \in 1 .. n : mallocFreeIdx[j] = mallocFreeIdx[k] => j = k
  BY DEF MallocInv, FreeIdx, n
<1> HIDE DEF Spare
<1>5. f \in Bijection(1 .. n, Spare)
  <2>1. f \in [1 .. n -> Spare] /\ \A k \in 1 .. n : f[k] = mallocFreeIdx[k]
    BY <1>2
  <2> HIDE DEF f
  <2>2. f \in Injection(1 .. n, Spare)
    BY <1>4, <2>1 DEF Injection, IsInjective
  <2>3. f \in Surjection(1 .. n, Spare)
    BY <1>3, <2>1 DEF Surjection
  <2> QED
    BY <2>2, <2>3 DEF Bijection
<1>6. ExistsBijection(1 .. n, Spare)
  BY <1>5 DEF ExistsBijection
<1>7. Cardinality(Spare) = n
  BY <1>1, <1>6, FS_CountingElements
<1>8. M!Cardinality(Spare) = Cardinality(Spare)
  BY DEF M!Cardinality, Cardinality
<1>9. {mallocFreeIdx[k] : k \in 1 .. n} = Spare
  BY <1>2, <1>3
<1> QED
  BY <1>7, <1>8, <1>9 DEF M!FreeIdxExact, Spare, n

LEMMA MallocMeaning ==
  ASSUME MallocInv
  PROVE  M!LiveBlockRooted /\ M!BytesSurvive /\ M!RegistryExact
<1>1. ASSUME NEW a \in live PROVE mem[a] = "taken" /\ M!Roots(a) = {hdr[a].idx}
  <2>1. M!Lookup(a) /\ a # NoAddress
    BY MallocFacts DEF MallocInv, LiveOwned, M!TypeOK
  <2> QED
    BY <2>1 DEF MallocInv, SlotsApart, M!Lookup, M!Roots
<1>2. M!BytesSurvive
  <2>1. \A a \in live : promise[a] \in Nat /\ filled[a] \in Nat /\ promise[a] <= filled[a]
    <3>1. \A a \in Addresses : promise[a] \in Nat /\ filled[a] \in Nat
      <4>1. promise \in [Addresses -> M!Sizes] /\ filled \in [Addresses -> M!Sizes]
        BY DEF MallocInv, M!TypeOK
      <4>2. \A n \in M!Sizes : n \in Nat
        BY DEF M!Sizes
      <4> QED
        BY <4>1, <4>2
    <3>2. live \subseteq Addresses /\ \A a \in live : promise[a] <= filled[a]
      BY DEF MallocInv, LiveOwned, M!TypeOK
    <3> QED
      BY <3>1, <3>2
  <2> QED
    BY <2>1 DEF M!BytesSurvive
<1>3. M!RegistryExact
  BY FreeIdxCount DEF MallocInv, M!RegistryExact
<1> QED
  BY <1>1, <1>2, <1>3 DEF M!LiveBlockRooted

\* malloc.go:95-160: a block the program owns is rooted by the one slot its
\* header names and keeps what was stored in it, the registry names no block
\* that is lost, and a second free of an address that was not handed out again
\* does nothing, for every number of threads and of addresses.
THEOREM MallocCorrect == MCSpec => MallocSafe
<1>1. MCInit => MallocInv
  BY MallocInit DEF MCInit
<1>2. MallocInv /\ [MCNext]_allVars =>
        MallocInv' /\ [\A t \in Threads : M!StaleFree(t) => UNCHANGED <<mallocRegistry, mallocFreeIdx>>]_mallocVars
  BY MallocStep
<1>3. MallocInv => M!LiveBlockRooted /\ M!BytesSurvive /\ M!RegistryExact
  BY MallocMeaning
<1> QED
  BY <1>1, <1>2, <1>3, PTL DEF MCSpec, MallocSafe

-----------------------------------------------------------------------------
(* Environ: the inductive invariant. *)

LEMMA AsSeq ==
  ASSUME NEW Elems, NEW n \in Nat, NEW f \in [1 .. n -> Elems]
  PROVE  f \in Seq(Elems) /\ Len(f) = n
OBVIOUS

Buffers == [name : Names, value : EnvValues]
Environments == [env : [Names -> E!Maybe], freed : BOOLEAN]

\* The cache has under a name only buffers of that name.
CacheNames ==
  \A n \in Names : envCache[n] # 0 => bufs[envCache[n]].name = n

\* A pointer the program may use is the cached one of its name.
HeldCached ==
  \A p \in Getters : quiet[p] => hold[p] # 0 /\ envCache[bufs[hold[p]].name] = hold[p]

\* How far a getenv is with the value it looks up.
LookedUp(p) ==
  /\ pcE[p] = "lookup" => osEnv[argE[p].name] \in seen[p]
  /\ pcE[p] = "cache" => argE[p].value \in seen[p] /\ argE[p].value \in EnvValues

EnvInv ==
  /\ E!TypeOK /\ CacheNames /\ HeldCached
  /\ \A p \in Getters : LookedUp(p)

\* One goroutine at a time changes the environment, as C requires.
OneWriter == \A p, q \in Mutators : p = q

Reading == {"idle", "lookup", "cache"}

\* How far a rebuild of environ is.
Rebuilding(p) ==
  /\ p \notin Mutators => pcE[p] \in Reading
  /\ built[p] # 0 <=> pcE[p] = "publish"
  /\ pcE[p] = "publish" => ~arrays[built[p]].freed /\ arrays[built[p]].env = osEnv
  /\ pcE[p] \in {"snapshot", "publish"} => arrays[environ].freed

ArrayInv ==
  /\ EnvInv /\ environ # 0 /\ E!NoArrayLost
  /\ \A p \in Getters : Rebuilding(p)
  /\ (\A m \in Mutators : pcE[m] \in Reading \cup {"set"}) =>
       ~arrays[environ].freed /\ arrays[environ].env = osEnv

LEMMA EnvFacts ==
  /\ Mutators \subseteq Getters /\ Unset \notin EnvValues /\ MaxBufs \in Nat /\ MaxSnaps \in Nat
  /\ E!NoCall.name \in Names /\ E!NoCall.value = Unset
BY MemoryConstants DEF E!EnvironConstants, E!NoCall

LEMMA EnvTypes ==
  ASSUME E!TypeOK
  PROVE  /\ Len(bufs) \in Nat /\ Len(arrays) \in Nat
         /\ \A b \in 1 .. Len(bufs) : bufs[b].name \in Names /\ bufs[b].value \in EnvValues
         /\ \A i \in 1 .. Len(arrays) : arrays[i] \in Environments
         /\ bufs \in Seq(Buffers) /\ arrays \in Seq(Environments)
<1>1. bufs \in Seq(Buffers) /\ arrays \in Seq(Environments)
  BY DEF E!TypeOK, Buffers, Environments
<1>2. Len(bufs) \in Nat /\ \A b \in 1 .. Len(bufs) : bufs[b] \in Buffers
  BY <1>1, Members
<1>3. Len(arrays) \in Nat /\ \A i \in 1 .. Len(arrays) : arrays[i] \in Environments
  BY <1>1, Members
<1> QED
  BY <1>1, <1>2, <1>3 DEF Buffers

LEMMA EnvInit == E!Init => ArrayInv
<1> SUFFICES ASSUME E!Init PROVE ArrayInv
  OBVIOUS
<1>1. Len(bufs) = 0 /\ bufs \in Seq(Buffers)
  BY EmptySeq DEF E!Init
<1>2. /\ osEnv \in [Names -> E!Maybe]
      /\ arrays = <<[env |-> osEnv, freed |-> FALSE]>>
  BY DEF E!Init
<1>3. [env |-> osEnv, freed |-> FALSE] \in Environments
  BY <1>2 DEF Environments
<1>4. /\ arrays \in Seq(Environments) /\ Len(arrays) = 1
      /\ arrays[1] = [env |-> osEnv, freed |-> FALSE]
  BY <1>2, <1>3
<1>5. E!NoCall \in [name : Names, value : E!Maybe]
  BY EnvFacts DEF E!NoCall, E!Maybe
<1>6. E!TypeOK
  <2>1. argE \in [Getters -> [name : Names, value : E!Maybe]]
    BY <1>5 DEF E!Init
  <2>2. bufs \in Seq([name : Names, value : EnvValues])
        /\ arrays \in Seq([env : [Names -> E!Maybe], freed : BOOLEAN])
    BY <1>1, <1>4 DEF Buffers, Environments
  <2> QED
    BY <1>1, <1>2, <1>4, <2>1, <2>2 DEF E!Init, E!TypeOK
<1>7. EnvInv
  BY <1>6 DEF E!Init, EnvInv, CacheNames, HeldCached, LookedUp
<1>8. E!NoArrayLost
  BY <1>4 DEF E!Init, E!NoArrayLost
<1> QED
  BY <1>4, <1>7, <1>8 DEF E!Init, ArrayInv, Rebuilding, Reading

-----------------------------------------------------------------------------
(* What the pieces that several calls share do. *)

LEMMA OsWriteEffect ==
  ASSUME EnvInv, NEW env \in [Names -> E!Maybe], E!OsWrite(env)
  PROVE  /\ osEnv' \in [Names -> E!Maybe] /\ osEnv' = env
         /\ seen' \in [Getters -> SUBSET E!Maybe]
         /\ changed' \subseteq 1 .. Len(bufs)
         /\ \A q \in Getters : pcE[q] \in {"lookup", "cache"} =>
              seen'[q] = seen[q] \cup {env[argE[q].name]}
<1>1. changed' \subseteq 1 .. Len(bufs)
  BY DEF EnvInv, E!TypeOK, E!OsWrite
<1>2. seen' = [q \in Getters |-> IF pcE[q] \in {"lookup", "cache"}
                                 THEN seen[q] \cup {env[argE[q].name]} ELSE {}]
  BY DEF E!OsWrite
<1>3. \A q \in Getters : seen[q] \in SUBSET E!Maybe /\ env[argE[q].name] \in E!Maybe
  BY DEF EnvInv, E!TypeOK
<1> QED
  BY <1>1, <1>2, <1>3 DEF E!OsWrite

\* A call that begins with a write of the environment, or goes on with one.
LEMMA OsWriteInv ==
  ASSUME EnvInv, NEW env \in [Names -> E!Maybe], E!OsWrite(env), NEW p \in Getters,
         pcE[p] \notin {"lookup", "cache"},
         pcE' \in [Getters -> {"idle", "lookup", "cache", "set", "drop", "clear", "free",
                               "snapshot", "publish"}],
         argE' \in [Getters -> [name : Names, value : E!Maybe]],
         pcE'[p] \in {"drop", "clear"},
         \A q \in Getters : q # p => pcE'[q] = pcE[q] /\ argE'[q] = argE[q],
         UNCHANGED <<envCache, bufs, hold, quiet, environ, arrays, built>>
  PROVE  EnvInv'
<1>1. E!TypeOK'
  BY OsWriteEffect DEF EnvInv, E!TypeOK
<1>2. CacheNames' /\ HeldCached'
  BY DEF EnvInv, CacheNames, HeldCached
<1>3. ASSUME NEW q \in Getters PROVE LookedUp(q)'
  <2>1. CASE q = p
    BY <2>1 DEF LookedUp
  <2>2. CASE q # p
    <3>1. pcE'[q] = pcE[q] /\ argE'[q] = argE[q] /\ LookedUp(q)
      BY <2>2 DEF EnvInv
    <3>2. osEnv' = env /\ (pcE[q] \in {"lookup", "cache"} => seen'[q] = seen[q] \cup {env[argE[q].name]})
      BY OsWriteEffect
    <3> QED
      BY <3>1, <3>2 DEF LookedUp
  <2> QED
    BY <2>1, <2>2
<1> QED
  BY <1>1, <1>2, <1>3 DEF EnvInv

-----------------------------------------------------------------------------
(* The calls keep the cache and the value looked up right. *)

LEMMA GetenvInv ==
  ASSUME EnvInv, NEW p \in Getters, NEW n \in Names, E!Getenv(p, n)
  PROVE  EnvInv'
<1>1. /\ pcE' = [pcE EXCEPT ![p] = "lookup"]
      /\ argE' = [argE EXCEPT ![p] = [name |-> n, value |-> Unset]]
      /\ seen' = [seen EXCEPT ![p] = {osEnv[n]}]
      /\ UNCHANGED <<osEnv, changed, envCache, bufs, hold, quiet, environ, arrays, built>>
  BY DEF E!Getenv, E!Goto, E!cacheState, E!arrayState
<1>2. osEnv[n] \in E!Maybe /\ Unset \in E!Maybe
  BY DEF EnvInv, E!TypeOK, E!Maybe
<1>3. E!TypeOK'
  BY <1>1, <1>2 DEF EnvInv, E!TypeOK
<1>4. CacheNames' /\ HeldCached'
  BY <1>1 DEF EnvInv, CacheNames, HeldCached
<1>5. ASSUME NEW q \in Getters PROVE LookedUp(q)'
  BY <1>1 DEF EnvInv, E!TypeOK, LookedUp
<1> QED
  BY <1>3, <1>4, <1>5 DEF EnvInv

LEMMA LookupEnvInv ==
  ASSUME EnvInv, NEW p \in Getters, E!LookupEnv(p)
  PROVE  EnvInv'
<1> DEFINE v == osEnv[argE[p].name]
<1>1. /\ pcE[p] = "lookup"
      /\ UNCHANGED <<osEnv, changed, envCache, bufs, environ, arrays, built>>
      /\ \/ /\ v = Unset /\ E!Return(p)
            /\ hold' = [hold EXCEPT ![p] = 0] /\ quiet' = [quiet EXCEPT ![p] = FALSE]
            /\ seen' = [seen EXCEPT ![p] = {}]
         \/ /\ v # Unset /\ pcE' = [pcE EXCEPT ![p] = "cache"]
            /\ argE' = [argE EXCEPT ![p].value = v]
            /\ UNCHANGED <<hold, quiet, seen>>
  BY DEF E!LookupEnv, E!Goto, E!arrayState
<1>2. v \in E!Maybe /\ v \in seen[p]
  BY <1>1 DEF EnvInv, E!TypeOK, LookedUp
<1> HIDE DEF v
<1>3. CASE v = Unset
  <2>1. /\ pcE' = [pcE EXCEPT ![p] = "idle"] /\ argE' = [argE EXCEPT ![p] = E!NoCall]
        /\ hold' = [hold EXCEPT ![p] = 0] /\ quiet' = [quiet EXCEPT ![p] = FALSE]
        /\ seen' = [seen EXCEPT ![p] = {}]
    BY <1>1, <1>3 DEF E!Return, E!Goto
  <2>2. E!NoCall \in [name : Names, value : E!Maybe]
    BY EnvFacts DEF E!NoCall, E!Maybe
  <2>3. E!TypeOK'
    BY <1>1, <2>1, <2>2 DEF EnvInv, E!TypeOK
  <2>4. CacheNames' /\ HeldCached'
    BY <1>1, <2>1 DEF EnvInv, E!TypeOK, CacheNames, HeldCached
  <2>5. ASSUME NEW q \in Getters PROVE LookedUp(q)'
    BY <1>1, <2>1 DEF EnvInv, E!TypeOK, LookedUp
  <2> QED
    BY <2>3, <2>4, <2>5 DEF EnvInv
<1>4. CASE v # Unset
  <2>1. /\ pcE' = [pcE EXCEPT ![p] = "cache"]
        /\ argE' = [argE EXCEPT ![p].value = v]
        /\ UNCHANGED <<hold, quiet, seen>>
    BY <1>1, <1>4
  <2>2. E!TypeOK'
    BY <1>1, <1>2, <2>1 DEF EnvInv, E!TypeOK
  <2>3. CacheNames' /\ HeldCached'
    BY <1>1, <2>1 DEF EnvInv, CacheNames, HeldCached
  <2>4. v \in EnvValues
    BY <1>2, <1>4 DEF E!Maybe
  <2>5. ASSUME NEW q \in Getters PROVE LookedUp(q)'
    <3>1. CASE q = p
      BY <1>2, <2>1, <2>4, <3>1 DEF EnvInv, E!TypeOK, LookedUp
    <3>2. CASE q # p
      BY <1>1, <2>1, <3>2 DEF EnvInv, E!TypeOK, LookedUp
    <3> QED
      BY <3>1, <3>2
  <2> QED
    BY <2>2, <2>3, <2>5 DEF EnvInv
<1> QED
  BY <1>3, <1>4

\* The copy handed out is the cached one of its name and holds a value the name
\* had during the call.
LEMMA CacheCopyInv ==
  ASSUME EnvInv, NEW p \in Getters, E!CacheCopy(p)
  PROVE  EnvInv' /\ bufs'[hold'[p]].value \in seen[p]
<1> DEFINE n == argE[p].name  v == argE[p].value
<1>1. /\ pcE' = [pcE EXCEPT ![p] = "idle"] /\ argE' = [argE EXCEPT ![p] = E!NoCall]
      /\ seen' = [seen EXCEPT ![p] = {}]
      /\ UNCHANGED <<osEnv, environ, arrays, built>>
  BY DEF E!CacheCopy, E!Return, E!Goto, E!arrayState
<1>2. n \in Names /\ v \in EnvValues /\ v \in seen[p]
  BY DEF EnvInv, E!TypeOK, E!CacheCopy, LookedUp
<1>3. \/ /\ E!Cached(n, v) /\ E!Deliver(p, envCache[n], quiet)
         /\ UNCHANGED <<envCache, bufs, changed>>
      \/ /\ bufs' = Append(bufs, [name |-> n, value |-> v])
         /\ envCache' = [envCache EXCEPT ![n] = Len(bufs')]
         /\ changed' = IF osEnv[n] = v THEN changed ELSE changed \cup {Len(bufs')}
         /\ E!Deliver(p, Len(bufs'), E!Disturb(n))
  BY DEF E!CacheCopy
<1> HIDE DEF n, v
<1>4. E!NoCall \in [name : Names, value : E!Maybe]
  BY EnvFacts DEF E!NoCall, E!Maybe
<1>5. /\ pcE' \in [Getters -> {"idle", "lookup", "cache", "set", "drop", "clear", "free",
                               "snapshot", "publish"}]
      /\ argE' \in [Getters -> [name : Names, value : E!Maybe]]
      /\ seen' \in [Getters -> SUBSET E!Maybe]
  BY <1>1, <1>4 DEF EnvInv, E!TypeOK
<1>6. ASSUME NEW q \in Getters PROVE LookedUp(q)'
  BY <1>1 DEF EnvInv, E!TypeOK, LookedUp
<1>7. CASE E!Cached(n, v) /\ E!Deliver(p, envCache[n], quiet) /\ UNCHANGED <<envCache, bufs, changed>>
  <2>1. /\ hold' = [hold EXCEPT ![p] = envCache[n]] /\ quiet' = [quiet EXCEPT ![p] = TRUE]
        /\ envCache[n] # 0 /\ bufs[envCache[n]].value = v
    BY <1>7 DEF E!Deliver, E!Cached
  <2>2. envCache[n] \in 0 .. Len(bufs)
    BY <1>2 DEF EnvInv, E!TypeOK
  <2>3. E!TypeOK'
    BY <1>1, <1>5, <1>7, <2>1, <2>2 DEF EnvInv, E!TypeOK
  <2>4. CacheNames' /\ bufs[envCache[n]].name = n
    BY <1>2, <1>7, <2>1 DEF EnvInv, CacheNames
  <2>5. HeldCached'
    <3>1. hold'[p] = envCache[n] /\ \A q \in Getters : q # p => hold'[q] = hold[q] /\ quiet'[q] = quiet[q]
      BY <2>1 DEF EnvInv, E!TypeOK
    <3> QED
      BY <1>7, <2>1, <2>4, <3>1 DEF EnvInv, HeldCached
  <2>6. bufs'[hold'[p]].value = v
    BY <1>7, <2>1 DEF EnvInv, E!TypeOK
  <2> QED
    BY <1>2, <1>6, <2>3, <2>4, <2>5, <2>6 DEF EnvInv
<1>8. CASE /\ bufs' = Append(bufs, [name |-> n, value |-> v])
           /\ envCache' = [envCache EXCEPT ![n] = Len(bufs')]
           /\ changed' = IF osEnv[n] = v THEN changed ELSE changed \cup {Len(bufs')}
           /\ E!Deliver(p, Len(bufs'), E!Disturb(n))
  <2> DEFINE k == Len(bufs) + 1
             e == [name |-> n, value |-> v]
  <2>1. /\ bufs' \in Seq(Buffers) /\ Len(bufs') = k /\ k \in Nat /\ Len(bufs) \in Nat
        /\ bufs'[k] = e
        /\ \A b \in 1 .. Len(bufs) : bufs'[b] = bufs[b]
    <3>1. e \in Buffers /\ bufs \in Seq(Buffers) /\ Len(bufs) \in Nat
      BY <1>2, EnvTypes DEF EnvInv, Buffers
    <3>2. bufs' = Append(bufs, e)
      BY <1>8
    <3> HIDE DEF e
    <3> QED
      BY <3>1, <3>2, Push
  <2>2. bufs'[k].name = n /\ bufs'[k].value = v
    BY <2>1
  <2> HIDE DEF e
  <2>3. /\ hold' = [hold EXCEPT ![p] = k]
        /\ quiet' = [E!Disturb(n) EXCEPT ![p] = TRUE]
        /\ envCache' = [envCache EXCEPT ![n] = k]
        /\ changed' \subseteq changed \cup {k}
    BY <1>8, <2>1 DEF E!Deliver
  <2> HIDE DEF k
  <2>4. 0 \in 0 .. k /\ k \in 0 .. k /\ k \in 1 .. k /\ k = Len(bufs) + 1
    BY <2>1 DEF k
  <2>5. /\ hold' \in [Getters -> 0 .. k] /\ envCache' \in [Names -> 0 .. k]
        /\ changed' \subseteq 1 .. k
    <3>1. /\ \A i \in 0 .. Len(bufs) : i \in 0 .. k
          /\ \A i \in 1 .. Len(bufs) : i \in 1 .. k
      BY <2>1, <2>4
    <3>2. hold \in [Getters -> 0 .. Len(bufs)] /\ envCache \in [Names -> 0 .. Len(bufs)]
          /\ changed \subseteq 1 .. Len(bufs)
      BY DEF EnvInv, E!TypeOK
    <3>3. hold' \in [Getters -> 0 .. k] /\ envCache' \in [Names -> 0 .. k]
      BY <2>3, <2>4, <3>1, <3>2
    <3>4. changed' \subseteq 1 .. k
      BY <2>3, <2>4, <3>1, <3>2
    <3> QED
      BY <3>3, <3>4
  <2>6. quiet' \in [Getters -> BOOLEAN]
        /\ \A q \in Getters : q # p => quiet'[q] = IF quiet[q] THEN bufs[hold[q]].name # n ELSE FALSE
    BY <2>3 DEF EnvInv, E!TypeOK, E!Disturb
  <2>7. bufs' \in Seq([name : Names, value : EnvValues])
    BY <2>1 DEF Buffers
  <2>8. E!TypeOK'
    BY <1>1, <1>5, <2>1, <2>5, <2>6, <2>7 DEF EnvInv, E!TypeOK
  <2>9. \A m \in Names : envCache'[m] = IF m = n THEN k ELSE envCache[m]
    BY <2>3 DEF EnvInv, E!TypeOK
  <2>10. CacheNames'
    <3>1. ASSUME NEW m \in Names, m # n, envCache[m] # 0 PROVE bufs'[envCache[m]] = bufs[envCache[m]]
      BY <2>1, <3>1 DEF EnvInv, E!TypeOK
    <3> QED
      BY <2>2, <2>9, <3>1 DEF EnvInv, CacheNames
  <2>11. HeldCached'
    <3> SUFFICES ASSUME NEW q \in Getters, quiet'[q]
                 PROVE  hold'[q] # 0 /\ envCache'[bufs'[hold'[q]].name] = hold'[q]
      BY DEF HeldCached
    <3>1. CASE q = p
      <4>1. hold'[q] = k /\ k # 0
        BY <2>3, <2>4, <2>1, <3>1 DEF EnvInv, E!TypeOK
      <4> QED
        BY <1>2, <2>2, <2>9, <4>1
    <3>2. CASE q # p
      <4>1. hold'[q] = hold[q] /\ hold[q] \in 0 .. Len(bufs)
        BY <2>3, <3>2 DEF EnvInv, E!TypeOK
      <4>2. quiet[q] /\ bufs[hold[q]].name # n
        BY <2>6, <3>2
      <4>3. hold[q] # 0 /\ envCache[bufs[hold[q]].name] = hold[q]
        BY <4>2 DEF EnvInv, HeldCached
      <4>4. hold[q] \in 1 .. Len(bufs) /\ bufs'[hold[q]] = bufs[hold[q]] /\ bufs[hold[q]].name \in Names
        BY <2>1, <4>1, <4>3, EnvTypes DEF EnvInv
      <4> QED
        BY <2>9, <4>1, <4>2, <4>3, <4>4
    <3> QED
      BY <3>1, <3>2
  <2>12. hold'[p] = k
    BY <2>3 DEF EnvInv, E!TypeOK
  <2> QED
    BY <1>2, <1>6, <2>2, <2>8, <2>10, <2>11, <2>12 DEF EnvInv
<1> QED
  BY <1>3, <1>7, <1>8

\* A call that begins, other than getenv: its step and its argument.
LEMMA BeginEffect ==
  ASSUME EnvInv, NEW p \in Getters, NEW n \in Names, NEW v \in E!Maybe,
         NEW point \in {"set", "drop", "clear"}, E!Begin(p, n, v, point)
  PROVE  /\ pcE[p] = "idle" /\ p \in Mutators
         /\ pcE' \in [Getters -> {"idle", "lookup", "cache", "set", "drop", "clear", "free",
                                  "snapshot", "publish"}]
         /\ argE' \in [Getters -> [name : Names, value : E!Maybe]]
         /\ pcE'[p] = point
         /\ \A q \in Getters : q # p => pcE'[q] = pcE[q] /\ argE'[q] = argE[q]
BY DEF E!Begin, E!Goto, EnvInv, E!TypeOK

\* The environments that setenv, unsetenv and clearenv write.
LEMMA Written ==
  ASSUME EnvInv
  PROVE  /\ \A n \in Names, v \in E!Maybe : [osEnv EXCEPT ![n] = v] \in [Names -> E!Maybe]
         /\ Unset \in E!Maybe /\ (\A v \in EnvValues : v \in E!Maybe)
         /\ [n \in Names |-> Unset] \in [Names -> E!Maybe]
BY DEF EnvInv, E!TypeOK, E!Maybe

LEMMA SetenvInv ==
  ASSUME EnvInv, NEW p \in Getters, NEW n \in Names, NEW v \in EnvValues, E!Setenv(p, n, v)
  PROVE  EnvInv'
<1>1. /\ E!Begin(p, n, Unset, "drop") /\ E!OsWrite([osEnv EXCEPT ![n] = v])
      /\ UNCHANGED <<envCache, bufs, hold, quiet, environ, arrays, built>>
  BY DEF E!Setenv, E!cacheState, E!arrayState
<1>2. Unset \in E!Maybe /\ [osEnv EXCEPT ![n] = v] \in [Names -> E!Maybe]
  BY Written
<1> QED
  BY <1>1, <1>2, BeginEffect, OsWriteInv

LEMMA UnsetenvInv ==
  ASSUME EnvInv, NEW p \in Getters, NEW n \in Names, E!Unsetenv(p, n)
  PROVE  EnvInv'
<1>1. /\ E!Begin(p, n, Unset, "drop") /\ E!OsWrite([osEnv EXCEPT ![n] = Unset])
      /\ UNCHANGED <<envCache, bufs, hold, quiet, environ, arrays, built>>
  BY DEF E!Unsetenv, E!cacheState, E!arrayState
<1>2. Unset \in E!Maybe /\ [osEnv EXCEPT ![n] = Unset] \in [Names -> E!Maybe]
  BY Written
<1> QED
  BY <1>1, <1>2, BeginEffect, OsWriteInv

LEMMA ClearenvInv ==
  ASSUME EnvInv, NEW p \in Getters, E!Clearenv(p)
  PROVE  EnvInv'
<1>1. /\ E!Begin(p, E!NoCall.name, Unset, "clear") /\ E!OsWrite([n \in Names |-> Unset])
      /\ UNCHANGED <<envCache, bufs, hold, quiet, environ, arrays, built>>
  BY DEF E!Clearenv, E!cacheState, E!arrayState
<1>2. Unset \in E!Maybe /\ [n \in Names |-> Unset] \in [Names -> E!Maybe]
  BY Written
<1>3. E!NoCall.name \in Names
  BY EnvFacts
<1> QED
  BY <1>1, <1>2, <1>3, BeginEffect, OsWriteInv

LEMMA SetLookedInv ==
  ASSUME EnvInv, NEW p \in Getters, E!SetLooked(p)
  PROVE  EnvInv'
<1> DEFINE env == [osEnv EXCEPT ![argE[p].name] = argE[p].value]
<1>1. /\ pcE[p] = "set" /\ E!OsWrite(env) /\ pcE' = [pcE EXCEPT ![p] = "drop"]
      /\ UNCHANGED <<argE, envCache, bufs, hold, quiet, environ, arrays, built>>
  BY DEF E!SetLooked, E!Goto, E!cacheState, E!arrayState
<1>2. env \in [Names -> E!Maybe]
  BY Written DEF EnvInv, E!TypeOK
<1> HIDE DEF env
<1>3. /\ pcE' \in [Getters -> {"idle", "lookup", "cache", "set", "drop", "clear", "free",
                               "snapshot", "publish"}]
      /\ argE' \in [Getters -> [name : Names, value : E!Maybe]]
      /\ pcE'[p] = "drop"
      /\ \A q \in Getters : q # p => pcE'[q] = pcE[q] /\ argE'[q] = argE[q]
  BY <1>1 DEF EnvInv, E!TypeOK
<1> QED
  BY <1>1, <1>2, <1>3, OsWriteInv

LEMMA SetenvIfUnsetInv ==
  ASSUME EnvInv, NEW p \in Getters, NEW n \in Names, NEW v \in EnvValues, E!SetenvIfUnset(p, n, v)
  PROVE  EnvInv'
<1>1. /\ E!Begin(p, n, v, "set")
      /\ UNCHANGED <<osEnv, seen, changed, envCache, bufs, hold, quiet, environ, arrays, built>>
  BY DEF E!SetenvIfUnset, E!osState, E!cacheState, E!arrayState
<1>2. v \in E!Maybe
  BY Written
<1>3. /\ pcE' \in [Getters -> {"idle", "lookup", "cache", "set", "drop", "clear", "free",
                               "snapshot", "publish"}]
      /\ argE' \in [Getters -> [name : Names, value : E!Maybe]]
      /\ pcE'[p] = "set"
      /\ \A q \in Getters : q # p => pcE'[q] = pcE[q] /\ argE'[q] = argE[q]
  BY <1>1, <1>2, BeginEffect
<1>4. E!TypeOK'
  BY <1>1, <1>3 DEF EnvInv, E!TypeOK
<1>5. CacheNames' /\ HeldCached'
  BY <1>1 DEF EnvInv, CacheNames, HeldCached
<1>6. ASSUME NEW q \in Getters PROVE LookedUp(q)'
  BY <1>1, <1>3 DEF EnvInv, LookedUp
<1> QED
  BY <1>4, <1>5, <1>6 DEF EnvInv

LEMMA DropInv ==
  ASSUME EnvInv, NEW p \in Getters, E!Drop(p)
  PROVE  EnvInv'
<1>1. /\ pcE' = [pcE EXCEPT ![p] = "free"]
      /\ UNCHANGED <<osEnv, seen, changed, bufs, hold, environ, arrays, built, argE>>
  BY DEF E!Drop, E!Goto, E!osState, E!arrayState
<1>2. ASSUME NEW q \in Getters PROVE LookedUp(q)'
  BY <1>1 DEF EnvInv, E!TypeOK, LookedUp
<1>3. CASE /\ envCache' = [envCache EXCEPT ![argE[p].name] = 0]
           /\ quiet' = E!Disturb(argE[p].name)
  <2> DEFINE n == argE[p].name
  <2>1. n \in Names
    BY DEF EnvInv, E!TypeOK
  <2>2. envCache' = [envCache EXCEPT ![n] = 0] /\ quiet' = E!Disturb(n)
    BY <1>3
  <2> HIDE DEF n
  <2>3. /\ \A m \in Names : envCache'[m] = IF m = n THEN 0 ELSE envCache[m]
        /\ \A q \in Getters : quiet'[q] => quiet[q] /\ bufs[hold[q]].name # n
        /\ quiet' \in [Getters -> BOOLEAN]
    BY <2>1, <2>2 DEF EnvInv, E!TypeOK, E!Disturb
  <2>4. envCache' \in [Names -> 0 .. Len(bufs)]
    BY <2>1, <2>2, EnvTypes DEF EnvInv, E!TypeOK
  <2>5. E!TypeOK'
    BY <1>1, <2>3, <2>4 DEF EnvInv, E!TypeOK
  <2>6. CacheNames'
    BY <1>1, <2>3 DEF EnvInv, CacheNames
  <2>7. HeldCached'
    <3> SUFFICES ASSUME NEW q \in Getters, quiet'[q]
                 PROVE  hold[q] # 0 /\ envCache'[bufs[hold[q]].name] = hold[q]
      BY <1>1 DEF HeldCached
    <3>1. hold[q] # 0 /\ envCache[bufs[hold[q]].name] = hold[q] /\ bufs[hold[q]].name # n
      BY <2>3 DEF EnvInv, HeldCached
    <3>2. bufs[hold[q]].name \in Names
      BY <3>1, EnvTypes, SMTT(30) DEF EnvInv, E!TypeOK
    <3> QED
      BY <2>3, <3>1, <3>2
  <2> QED
    BY <1>2, <2>5, <2>6, <2>7 DEF EnvInv
<1>4. CASE envCache' = [n \in Names |-> 0] /\ quiet' = [q \in Getters |-> FALSE]
  <2>1. 0 \in 0 .. Len(bufs)
    BY EnvTypes DEF EnvInv
  <2>2. E!TypeOK'
    BY <1>1, <1>4, <2>1 DEF EnvInv, E!TypeOK
  <2>3. CacheNames' /\ HeldCached'
    BY <1>4 DEF CacheNames, HeldCached
  <2> QED
    BY <1>2, <2>2, <2>3 DEF EnvInv
<1> QED
  BY <1>3, <1>4 DEF E!Drop

\* What __environ_sync does to the arrays.
LEMMA ArrayEffect ==
  ASSUME EnvInv, NEW p \in Getters
  PROVE  /\ E!FreeArray(p) =>
              /\ arrays' \in Seq(Environments) /\ Len(arrays') = Len(arrays)
              /\ \A i \in 1 .. Len(arrays) :
                   /\ arrays'[i].freed = (i = environ \/ arrays[i].freed)
                   /\ arrays'[i].env = arrays[i].env
         /\ E!Snapshot(p) =>
              /\ arrays' \in Seq(Environments) /\ Len(arrays') = Len(arrays) + 1
              /\ arrays'[Len(arrays) + 1] = [env |-> osEnv, freed |-> FALSE]
              /\ \A i \in 1 .. Len(arrays) : arrays'[i] = arrays[i]
<1> DEFINE k == Len(arrays)
<1>1. arrays \in Seq(Environments) /\ k \in Nat /\ \A i \in 1 .. k : arrays[i] \in Environments
  BY EnvTypes DEF EnvInv
<1> HIDE DEF k
<1>2. ASSUME E!FreeArray(p)
      PROVE  /\ arrays' \in Seq(Environments) /\ Len(arrays') = k
             /\ \A i \in 1 .. k :
                  /\ arrays'[i].freed = (i = environ \/ arrays[i].freed)
                  /\ arrays'[i].env = arrays[i].env
  <2>1. arrays' = [i \in 1 .. k |-> IF i = environ THEN [arrays[i] EXCEPT !.freed = TRUE]
                                    ELSE arrays[i]]
    BY <1>2 DEF E!FreeArray, k
  <2>2. \A i \in 1 .. k : /\ [arrays[i] EXCEPT !.freed = TRUE] \in Environments
                          /\ [arrays[i] EXCEPT !.freed = TRUE].freed = TRUE
                          /\ [arrays[i] EXCEPT !.freed = TRUE].env = arrays[i].env
                          /\ arrays[i].freed \in BOOLEAN
    BY <1>1 DEF Environments
  <2>3. arrays' \in [1 .. k -> Environments]
    BY <1>1, <2>1, <2>2
  <2>4. arrays' \in Seq(Environments) /\ Len(arrays') = k
    BY <1>1, <2>3, AsSeq
  <2>5. ASSUME NEW i \in 1 .. k
        PROVE  /\ arrays'[i].freed = (i = environ \/ arrays[i].freed)
               /\ arrays'[i].env = arrays[i].env
    <3>1. CASE i = environ
      BY <2>1, <2>2, <3>1
    <3>2. CASE i # environ
      BY <2>1, <2>2, <3>2
    <3> QED
      BY <3>1, <3>2
  <2> QED
    BY <2>4, <2>5
<1>3. ASSUME E!Snapshot(p)
      PROVE  /\ arrays' \in Seq(Environments) /\ Len(arrays') = k + 1
             /\ arrays'[k + 1] = [env |-> osEnv, freed |-> FALSE]
             /\ \A i \in 1 .. k : arrays'[i] = arrays[i]
  <2> DEFINE e == [env |-> osEnv, freed |-> FALSE]
  <2>1. e \in Environments /\ arrays' = Append(arrays, e)
    BY <1>3 DEF EnvInv, E!TypeOK, E!Snapshot, Environments
  <2> HIDE DEF e
  <2>2. /\ arrays' \in Seq(Environments) /\ Len(arrays') = Len(arrays) + 1
        /\ arrays'[Len(arrays) + 1] = e
        /\ \A i \in 1 .. Len(arrays) : arrays'[i] = arrays[i]
    BY <1>1, <2>1, Push
  <2> QED
    BY <2>2 DEF e, k
<1> QED
  BY <1>2, <1>3 DEF k

LEMMA ArraysInv ==
  ASSUME EnvInv, NEW p \in Getters, E!FreeArray(p) \/ E!Snapshot(p) \/ E!Publish(p)
  PROVE  EnvInv'
<1>1. UNCHANGED <<osEnv, seen, changed, envCache, bufs, hold, quiet>>
  BY DEF E!FreeArray, E!Snapshot, E!Publish, E!osState, E!cacheState
<1>2. CacheNames' /\ HeldCached'
  BY <1>1 DEF EnvInv, CacheNames, HeldCached
<1>3. /\ \A q \in Getters : q # p => pcE'[q] = pcE[q] /\ argE'[q] = argE[q]
      /\ pcE' \in [Getters -> {"idle", "lookup", "cache", "set", "drop", "clear", "free",
                               "snapshot", "publish"}]
      /\ pcE'[p] \in {"snapshot", "publish", "idle"}
      /\ argE' \in [Getters -> [name : Names, value : E!Maybe]]
  <2>1. E!NoCall \in [name : Names, value : E!Maybe]
    BY EnvFacts DEF E!NoCall, E!Maybe
  <2>2. \/ pcE' = [pcE EXCEPT ![p] = "snapshot"] /\ argE' = argE
        \/ pcE' = [pcE EXCEPT ![p] = "publish"] /\ argE' = argE
        \/ pcE' = [pcE EXCEPT ![p] = "idle"] /\ argE' = [argE EXCEPT ![p] = E!NoCall]
    BY DEF E!FreeArray, E!Snapshot, E!Publish, E!Goto, E!Return
  <2> QED
    BY <2>1, <2>2, ZenonT(60) DEF EnvInv, E!TypeOK
<1>4. ASSUME NEW q \in Getters PROVE LookedUp(q)'
  BY <1>1, <1>3 DEF EnvInv, LookedUp
<1>5. environ' \in 0 .. Len(arrays') /\ built' \in [Getters -> 0 .. Len(arrays')]
  <2> DEFINE k == Len(arrays)  m == Len(arrays')
  <2>1. k \in Nat /\ environ \in 0 .. k /\ built \in [Getters -> 0 .. k]
    BY EnvTypes DEF EnvInv, E!TypeOK
  <2>2. CASE E!FreeArray(p)
    BY <2>1, <2>2, ArrayEffect DEF E!FreeArray
  <2>3. CASE E!Snapshot(p)
    <3>1. m = k + 1 /\ environ' = environ
          /\ (built' = [built EXCEPT ![p] = m] \/ built' = [built EXCEPT ![p] = 0])
      BY <2>3, ArrayEffect DEF E!Snapshot
    <3> HIDE DEF k, m
    <3>2. m \in 0 .. m /\ 0 \in 0 .. m /\ \A i \in 0 .. k : i \in 0 .. m
      BY <2>1, <3>1
    <3>3. environ' \in 0 .. m /\ built' \in [Getters -> 0 .. m]
      BY <2>1, <3>1, <3>2
    <3> QED
      BY <3>3 DEF m
  <2>4. CASE E!Publish(p)
    <3>1. 0 \in 0 .. k
      BY <2>1
    <3> QED
      BY <2>1, <2>4, <3>1 DEF E!Publish
  <2> QED
    BY <2>2, <2>3, <2>4
<1>6. arrays' \in Seq(Environments)
  <2>1. CASE E!Publish(p)
    BY <2>1, EnvTypes DEF EnvInv, E!Publish
  <2> QED
    BY <2>1, ArrayEffect
<1>7. E!TypeOK'
  BY <1>1, <1>3, <1>5, <1>6 DEF EnvInv, E!TypeOK, Environments
<1> QED
  BY <1>2, <1>4, <1>7 DEF EnvInv

\* A step that changes no variable of the environment.
LEMMA EnvKept ==
  ASSUME EnvInv, UNCHANGED environVars
  PROVE  EnvInv'
<1> USE DEF environVars
<1>1. E!TypeOK'
  BY DEF EnvInv, E!TypeOK
<1>2. CacheNames' /\ HeldCached' /\ \A q \in Getters : LookedUp(q)'
  BY DEF EnvInv, CacheNames, HeldCached, LookedUp
<1> QED
  BY <1>1, <1>2 DEF EnvInv

\* Only the step under envMu ends a getenv that found a value.
LEMMA Answers ==
  ASSUME EnvInv, E!Next, NEW p \in Getters, pcE[p] = "cache", pcE'[p] = "idle"
  PROVE  E!CacheCopy(p)
<1>1. PICK q \in Getters :
        \/ \E n \in Names : E!Getenv(q, n) \/ E!Unsetenv(q, n)
        \/ \E n \in Names, v \in EnvValues : E!Setenv(q, n, v) \/ E!SetenvIfUnset(q, n, v)
        \/ E!Clearenv(q) \/ E!SetLooked(q)
        \/ E!LookupEnv(q) \/ E!CacheCopy(q) \/ E!Drop(q)
        \/ E!FreeArray(q) \/ E!Snapshot(q) \/ E!Publish(q)
  BY DEF E!Next
<1>2. \E point \in {"idle", "lookup", "cache", "set", "drop", "clear", "free",
                    "snapshot", "publish"} : pcE' = [pcE EXCEPT ![q] = point]
  BY <1>1 DEF E!Getenv, E!Unsetenv, E!Setenv, E!SetenvIfUnset, E!Clearenv, E!SetLooked, E!LookupEnv,
     E!CacheCopy, E!Drop, E!FreeArray, E!Snapshot, E!Publish, E!Begin, E!Goto, E!Return
<1>3. q = p
  BY <1>2 DEF EnvInv, E!TypeOK
<1> QED
  BY <1>1, <1>3 DEF E!Getenv, E!Unsetenv, E!Setenv, E!SetenvIfUnset, E!Clearenv, E!SetLooked,
     E!LookupEnv, E!Drop, E!FreeArray, E!Snapshot, E!Publish, E!Begin

NotStale ==
  \A p \in Getters : pcE[p] = "cache" /\ pcE'[p] = "idle" => bufs'[hold'[p]].value \in seen[p]

LEMMA EnvStep ==
  ASSUME EnvInv, [MCNext]_allVars
  PROVE  EnvInv' /\ [NotStale]_(E!vars)
<1>1. CASE E!Next
  <2>1. EnvInv'
    BY <1>1, GetenvInv, LookupEnvInv, CacheCopyInv, SetenvInv, UnsetenvInv, ClearenvInv, SetLookedInv,
       SetenvIfUnsetInv, DropInv, ArraysInv DEF E!Next
  <2>2. NotStale
    BY <1>1, Answers, CacheCopyInv DEF NotStale
  <2> QED
    BY <2>1, <2>2
<1>2. CASE UNCHANGED environVars
  <2>1. UNCHANGED E!vars
    BY <1>2 DEF environVars, E!vars, E!osState, E!cacheState, E!arrayState
  <2> QED
    BY <1>2, <2>1, EnvKept
<1> QED
  BY <1>1, <1>2 DEF MCNext, allVars

LEMMA HeldRooted == EnvInv => E!PointerUntilNextCall
<1> SUFFICES ASSUME EnvInv, NEW p \in Getters, quiet[p]
             PROVE  \E n \in Names : envCache[n] = hold[p]
  BY DEF E!PointerUntilNextCall, E!Rooted
<1>1. hold[p] # 0 /\ envCache[bufs[hold[p]].name] = hold[p]
  BY DEF EnvInv, HeldCached
<1>2. bufs[hold[p]].name \in Names
  BY <1>1, EnvTypes DEF EnvInv, E!TypeOK
<1> QED
  BY <1>1, <1>2

\* process.go:82-105: the string getenv returned stays rooted until the next
\* call of the same name, and it is a value the name had during the call, for
\* any number of goroutines that read and write the environment at once.
THEOREM GetenvCorrect == MCSpec => [](E!TypeOK /\ E!PointerUntilNextCall) /\ E!GetenvNotStale
<1>1. MCInit => EnvInv
  BY EnvInit DEF MCInit, ArrayInv
<1>2. EnvInv /\ [MCNext]_allVars => EnvInv' /\ [NotStale]_(E!vars)
  BY EnvStep
<1>3. EnvInv => E!TypeOK /\ E!PointerUntilNextCall
  BY HeldRooted DEF EnvInv
<1>4. MCSpec => [](E!TypeOK /\ E!PointerUntilNextCall) /\ [][NotStale]_(E!vars)
  BY <1>1, <1>2, <1>3, PTL DEF MCSpec
<1> QED
  BY <1>4 DEF E!GetenvNotStale, NotStale

-----------------------------------------------------------------------------
(* One goroutine at a time rebuilds environ. *)

\* What a step of p that leaves the arrays alone keeps.
LEMMA RebuildKept ==
  ASSUME ArrayInv, EnvInv', NEW p \in Getters,
         \A q \in Getters : q # p => pcE'[q] = pcE[q],
         UNCHANGED <<environ, arrays, built>>,
         pcE[p] \notin {"publish", "snapshot"}, pcE'[p] \notin {"publish", "snapshot"},
         \/ p \in Mutators /\ OneWriter /\ pcE'[p] \notin Reading \cup {"set"}
         \/ /\ osEnv' = osEnv /\ pcE[p] \in Reading
            /\ pcE'[p] \in Reading \/ (pcE'[p] = "set" /\ p \in Mutators)
  PROVE  ArrayInv'
<1>1. ASSUME NEW q \in Getters PROVE Rebuilding(q)'
  <2>1. CASE q = p
    BY <2>1 DEF ArrayInv, Rebuilding, Reading
  <2>2. CASE q # p
    <3>1. pcE'[q] = pcE[q] /\ Rebuilding(q)
      BY <2>2 DEF ArrayInv
    <3>2. pcE[q] = "publish" => osEnv' = osEnv
      BY <2>2, <3>1 DEF Rebuilding, Reading, OneWriter
    <3> QED
      BY <3>1, <3>2 DEF Rebuilding
  <2> QED
    BY <2>1, <2>2
<1>2. (\A m \in Mutators : pcE'[m] \in Reading \cup {"set"}) =>
        osEnv' = osEnv /\ \A m \in Mutators : pcE[m] \in Reading \cup {"set"}
  BY EnvFacts
<1>3. E!NoArrayLost'
  BY DEF ArrayInv, E!NoArrayLost
<1> QED
  BY <1>1, <1>2, <1>3 DEF ArrayInv

\* Where no allocation fails and one goroutine writes, each call keeps it.
LEMMA ArrayStep ==
  ASSUME OneWriter, ~MallocFails, ArrayInv, EnvInv', E!Next
  PROVE  ArrayInv'
<1>1. PICK p \in Getters :
        \/ \E n \in Names : E!Getenv(p, n) \/ E!Unsetenv(p, n)
        \/ \E n \in Names, v \in EnvValues : E!Setenv(p, n, v) \/ E!SetenvIfUnset(p, n, v)
        \/ E!Clearenv(p) \/ E!SetLooked(p)
        \/ E!LookupEnv(p) \/ E!CacheCopy(p) \/ E!Drop(p)
        \/ E!FreeArray(p) \/ E!Snapshot(p) \/ E!Publish(p)
  BY DEF E!Next
<1>2. EnvInv /\ Mutators \subseteq Getters /\ \A q \in Getters : Rebuilding(q)
  BY EnvFacts DEF ArrayInv
<1>3. CASE \/ \E n \in Names : E!Getenv(p, n)
           \/ \E n \in Names, v \in EnvValues : E!SetenvIfUnset(p, n, v)
           \/ E!LookupEnv(p) \/ E!CacheCopy(p)
  <2>1. /\ UNCHANGED <<osEnv, environ, arrays, built>> /\ pcE[p] \in Reading
        /\ \/ pcE' = [pcE EXCEPT ![p] = "lookup"] \/ pcE' = [pcE EXCEPT ![p] = "cache"]
           \/ pcE' = [pcE EXCEPT ![p] = "idle"]
           \/ pcE' = [pcE EXCEPT ![p] = "set"] /\ p \in Mutators
    BY <1>3 DEF E!Getenv, E!SetenvIfUnset, E!LookupEnv, E!CacheCopy, E!Begin, E!Goto, E!Return,
       E!osState, E!arrayState, Reading
  <2>2. /\ \A q \in Getters : q # p => pcE'[q] = pcE[q]
        /\ pcE'[p] \in Reading \/ (pcE'[p] = "set" /\ p \in Mutators)
    BY <1>2, <2>1 DEF EnvInv, E!TypeOK, Reading
  <2>3. pcE[p] \notin {"publish", "snapshot"} /\ pcE'[p] \notin {"publish", "snapshot"}
    BY <2>1, <2>2 DEF Reading
  <2> QED
    BY <2>1, <2>2, <2>3, RebuildKept
<1>4. CASE \/ \E n \in Names : E!Unsetenv(p, n)
           \/ \E n \in Names, v \in EnvValues : E!Setenv(p, n, v)
           \/ E!Clearenv(p) \/ E!SetLooked(p) \/ E!Drop(p)
  <2>1. /\ UNCHANGED <<environ, arrays, built>> /\ pcE[p] \in {"idle", "set", "drop", "clear"}
        /\ p \in Mutators \/ pcE[p] \notin Reading
        /\ \/ pcE' = [pcE EXCEPT ![p] = "drop"] \/ pcE' = [pcE EXCEPT ![p] = "clear"]
           \/ pcE' = [pcE EXCEPT ![p] = "free"]
    BY <1>4 DEF E!Unsetenv, E!Setenv, E!Clearenv, E!SetLooked, E!Drop, E!Begin, E!Goto,
       E!arrayState, Reading
  <2>2. p \in Mutators
    BY <1>2, <2>1 DEF Rebuilding
  <2>3. /\ \A q \in Getters : q # p => pcE'[q] = pcE[q]
        /\ pcE'[p] \in {"drop", "clear", "free"}
    BY <1>2, <2>1 DEF EnvInv, E!TypeOK
  <2>4. pcE[p] \notin {"publish", "snapshot"} /\ pcE'[p] \notin {"publish", "snapshot"}
        /\ pcE'[p] \notin Reading \cup {"set"}
    BY <2>1, <2>3 DEF Reading
  <2> QED
    BY <2>1, <2>2, <2>3, <2>4, RebuildKept
<1>5. CASE E!FreeArray(p) \/ E!Snapshot(p) \/ E!Publish(p)
  <2>1. /\ pcE[p] \in {"free", "snapshot", "publish"} /\ osEnv' = osEnv
        /\ \A q \in Getters : q # p => pcE'[q] = pcE[q]
        /\ pcE'[p] = IF pcE[p] = "free" THEN "snapshot"
                     ELSE IF pcE[p] = "snapshot" THEN "publish" ELSE "idle"
    BY <1>2, <1>5 DEF EnvInv, E!TypeOK, E!FreeArray, E!Snapshot, E!Publish, E!Goto, E!Return, E!osState
  <2>2. p \in Mutators
    BY <1>2, <2>1 DEF Rebuilding, Reading
  <2>3. \A q \in Getters : q # p => q \notin Mutators /\ pcE[q] \in Reading /\ built[q] = 0
    BY <1>2, <2>2 DEF OneWriter, Rebuilding, Reading
  <2>4. /\ environ \in 1 .. Len(arrays) /\ Len(arrays) \in Nat
        /\ built \in [Getters -> 0 .. Len(arrays)]
    <3>1. Len(arrays) \in Nat
      BY <1>2, EnvTypes DEF EnvInv
    <3>2. environ \in 0 .. Len(arrays) /\ environ # 0 /\ built \in [Getters -> 0 .. Len(arrays)]
      BY <1>2 DEF ArrayInv, EnvInv, E!TypeOK
    <3> QED
      BY <3>1, <3>2
  <2>5. ASSUME NEW q \in Getters, q # p, built'[q] = built[q] PROVE Rebuilding(q)'
    BY <2>1, <2>3, <2>5 DEF Rebuilding, Reading
  <2>6. CASE E!FreeArray(p)
    <3>1. /\ environ' = environ /\ built' = built /\ pcE[p] = "free" /\ pcE'[p] = "snapshot"
          /\ Len(arrays') = Len(arrays)
          /\ \A i \in 1 .. Len(arrays) : arrays'[i].freed = (i = environ \/ arrays[i].freed)
      BY <1>2, <2>1, <2>6, ArrayEffect DEF E!FreeArray
    <3>2. Rebuilding(p)'
      BY <1>2, <2>2, <2>4, <3>1 DEF Rebuilding
    <3>3. E!NoArrayLost'
      BY <2>4, <3>1 DEF ArrayInv, E!NoArrayLost
    <3>4. ~\A m \in Mutators : pcE'[m] \in Reading \cup {"set"}
      BY <2>2, <3>1 DEF Reading
    <3> QED
      BY <2>5, <3>1, <3>2, <3>3, <3>4 DEF ArrayInv
  <2>7. CASE E!Snapshot(p)
    <3> DEFINE k == Len(arrays)
    <3>1. /\ environ' = environ /\ pcE[p] = "snapshot" /\ pcE'[p] = "publish"
          /\ Len(arrays') = k + 1
          /\ arrays'[k + 1] = [env |-> osEnv, freed |-> FALSE]
          /\ \A i \in 1 .. k : arrays'[i] = arrays[i]
      BY <1>2, <2>1, <2>7, ArrayEffect DEF E!Snapshot
    <3>2. built' = [built EXCEPT ![p] = k + 1]
      BY <2>7, <3>1 DEF E!Snapshot
    <3> HIDE DEF k
    <3>3. built'[p] = k + 1 /\ \A q \in Getters : q # p => built'[q] = built[q]
      BY <2>4, <3>2
    <3>4. k \in Nat /\ environ \in 1 .. k /\ k = Len(arrays)
      BY <2>4 DEF k
    <3>5. Rebuilding(p)'
      <4>1. arrays'[environ].freed
        BY <1>2, <3>1, <3>4 DEF Rebuilding
      <4>2. k + 1 # 0 /\ ~arrays'[k + 1].freed /\ arrays'[k + 1].env = osEnv
        BY <3>1, <3>4
      <4> QED
        BY <2>1, <2>2, <3>1, <3>3, <4>1, <4>2 DEF Rebuilding
    <3>6. E!NoArrayLost'
      <4>1. built[p] = 0
        BY <1>2, <3>1 DEF Rebuilding
      <4>2. ASSUME NEW i \in 1 .. k
            PROVE  arrays'[i].freed \/ i = environ \/ \E q \in Getters : built'[q] = i
        <5>1. arrays[i].freed \/ i = environ \/ \E q \in Getters : built[q] = i
          BY <3>4 DEF ArrayInv, E!NoArrayLost
        <5> QED
          BY <3>1, <3>3, <3>4, <4>1, <5>1
      <4>3. \A i \in 1 .. k + 1 : i \in 1 .. k \/ i = k + 1
        BY <3>4
      <4> QED
        BY <3>1, <3>3, <4>2, <4>3 DEF E!NoArrayLost
    <3>7. ~\A m \in Mutators : pcE'[m] \in Reading \cup {"set"}
      BY <2>2, <3>1 DEF Reading
    <3> QED
      BY <2>5, <3>1, <3>3, <3>5, <3>6, <3>7 DEF ArrayInv
  <2>8. CASE E!Publish(p)
    <3>1. /\ environ' = built[p] /\ arrays' = arrays /\ pcE[p] = "publish" /\ pcE'[p] = "idle"
          /\ built' = [built EXCEPT ![p] = 0]
      BY <2>1, <2>8 DEF E!Publish
    <3>2. built'[p] = 0 /\ \A q \in Getters : q # p => built'[q] = built[q]
      BY <2>4, <3>1
    <3>3. built[p] # 0 /\ ~arrays[built[p]].freed /\ arrays[built[p]].env = osEnv /\ arrays[environ].freed
      BY <1>2, <3>1 DEF Rebuilding
    <3>4. Rebuilding(p)'
      BY <2>2, <3>1, <3>2 DEF Rebuilding
    <3>5. E!NoArrayLost'
      <4>1. ASSUME NEW i \in 1 .. Len(arrays)
            PROVE  arrays[i].freed \/ i = built[p]
        <5>1. arrays[i].freed \/ i = environ \/ \E q \in Getters : built[q] = i
          BY DEF ArrayInv, E!NoArrayLost
        <5>2. i # 0
          BY <2>4
        <5> QED
          BY <2>3, <3>3, <5>1, <5>2
      <4> QED
        BY <3>1, <4>1 DEF E!NoArrayLost
    <3> QED
      BY <2>1, <2>5, <3>1, <3>2, <3>3, <3>4, <3>5 DEF ArrayInv
  <2> QED
    BY <1>5, <2>6, <2>7, <2>8
<1> QED
  BY <1>1, <1>3, <1>4, <1>5

LEMMA ArrayFresh == ArrayInv => E!EnvironFresh
<1> SUFFICES ASSUME ArrayInv, \A m \in Mutators : pcE[m] \in {"idle", "lookup", "cache"}
             PROVE  environ # 0 /\ ~arrays[environ].freed /\ arrays[environ].env = osEnv
  BY DEF E!EnvironFresh
<1> QED
  BY DEF ArrayInv, Reading

\* process.go and env.c:8-13, where one goroutine at a time changes the
\* environment and no allocation of an array fails: all of EnvironSafe, so
\* environ is a live array that shows the environment whenever no change is
\* under way, and no array is lost.
THEOREM EnvironCorrect ==
  ASSUME OneWriter, ~MallocFails
  PROVE  MCSpec => EnvironSafe
<1>1. MCInit => ArrayInv
  BY EnvInit DEF MCInit
<1>2. ArrayInv /\ [MCNext]_allVars => ArrayInv'
  <2> SUFFICES ASSUME ArrayInv, [MCNext]_allVars PROVE ArrayInv'
    OBVIOUS
  <2>1. EnvInv'
    BY EnvStep DEF ArrayInv
  <2>2. CASE E!Next
    BY <2>1, <2>2, ArrayStep
  <2>3. CASE UNCHANGED environVars
    BY <2>1, <2>3 DEF environVars, ArrayInv, Rebuilding, E!NoArrayLost
  <2> QED
    BY <2>2, <2>3 DEF MCNext, allVars
<1>3. ArrayInv => E!EnvironFresh /\ E!NoArrayLost
  BY ArrayFresh DEF ArrayInv
<1>4. MCSpec => [](E!EnvironFresh /\ E!NoArrayLost)
  BY <1>1, <1>2, <1>3, PTL DEF MCSpec
<1> QED
  BY <1>4, GetenvCorrect, PTL DEF EnvironSafe

-----------------------------------------------------------------------------
(* The queue: the agreement of its links and the freedom of what was       *)
(* removed are inductive together.                                         *)

QueueInv == Q!TypeOK /\ Q!LinksAgree /\ Q!RemovedIsFree

LEMMA QueueStep == QueueInv /\ [Q!Next]_(Q!vars) => QueueInv'
<1> SUFFICES ASSUME QueueInv, [Q!Next]_(Q!vars) PROVE QueueInv'
  OBVIOUS
<1> USE MemoryConstants DEF Q!LinkedQueueConstants, QueueInv, Q!TypeOK, Q!LinksAgree, Q!RemovedIsFree
<1>1. ASSUME NEW e \in Elements, Q!StartCircle(e) PROVE QueueInv'
  BY <1>1 DEF Q!StartCircle
<1>2. ASSUME NEW e \in Elements, Q!InsFirst(e) PROVE QueueInv'
  BY <1>2 DEF Q!InsFirst
<1>3. ASSUME NEW e \in Elements, NEW b \in Elements, Q!InsAfter(e, b) PROVE QueueInv'
  BY <1>3 DEF Q!InsAfter
<1>4. ASSUME NEW e \in Elements, Q!RemQue(e) PROVE QueueInv'
  BY <1>4 DEF Q!RemQue
<1>5. CASE UNCHANGED Q!vars
  BY <1>5 DEF Q!vars
<1> QED BY <1>1, <1>2, <1>3, <1>4, <1>5 DEF Q!Next

\* Every operation keeps both directions in step and removed elements apart.
THEOREM LinksCorrect == Q!Spec => [](Q!LinksAgree /\ Q!RemovedIsFree)
<1>1. Q!Init => QueueInv
  BY MemoryConstants
  DEF Q!LinkedQueueConstants, Q!Init, QueueInv, Q!TypeOK, Q!LinksAgree, Q!RemovedIsFree
<1>2. QueueInv => Q!LinksAgree /\ Q!RemovedIsFree
  BY DEF QueueInv
<1> QED BY <1>1, <1>2, QueueStep, PTL DEF Q!Spec

=============================================================================
