----------------------------- MODULE SyncProofs -----------------------------
(***************************************************************************)
(* Proofs about the objects goroutines wait on, each on its own and for    *)
(* any number of goroutines: the mutex of any kind and the condition       *)
(* variable over it, pthread_once, the rwlock, the semaphore, the locks of *)
(* stdio.                                                                  *)
(***************************************************************************)
EXTENDS MCSync, SequenceTheorems, FiniteSetTheorems, TLAPS

-----------------------------------------------------------------------------
(* The mutex and the condition variable over it: the inductive invariant.  *)

\* p keeps every other goroutine out of the mutex.
In(p) ==
  \/ depth[p] > 0
  \/ pc[p] \in {"stamping", "releasing", "dropping", "restoring"}

\* In Wait, from giving the mutex up to having it back.
Outside == WaitPcs \ {"queued"}

\* The sync.Mutex is locked by the one goroutine that is in.
Exclusive ==
  /\ \A p, q \in Procs : In(p) /\ In(q) => p = q
  /\ held <=> \E p \in Procs : In(p)

\* How deep a goroutine may be in, and what a waiter has to put back.
Depths ==
  \A p \in Procs :
    /\ pc[p] \in {"acquiring", "stamping", "releasing"} \cup Outside => depth[p] = 0
    /\ pc[p] \in {"stamping", "restoring"} => Tracked
    /\ kind # "recursive" => depth[p] <= 1
    /\ pc[p] = "queued" => depth[p] = entered[p]
    /\ pc[p] \in WaitPcs => /\ entered[p] > 0
                            /\ kind # "recursive" => entered[p] = 1
    /\ pc[p] \in Outside /\ Tracked =>
         saved[p] = IF kind = "recursive" THEN entered[p] ELSE 1

Ownership == Exclusive /\ OwnerExact /\ Depths

\* A waiter that has not been told that it is woken.
Untold == {"queued", "dropping", "expired"} \cup Sleeping

\* The queue, the waiters a broadcast took off it, and the tokens: a waiter is
\* in one of them at a time, and in no two places of one.
Queues ==
  /\ IsInjective(waiters)
  /\ \A q \in Procs : /\ IsInjective(sending[q])
                      /\ pc[q] # "broadcasting" => sending[q] = <<>>
  /\ \A p \in Waiting : pc[p] \in Untold /\ ~token[p] /\ p \notin chosen
  /\ \A q \in Procs : \A p \in ToSet(sending[q]) : ~token[p] /\ p \in chosen
  /\ \A q, r \in Procs : \A p \in ToSet(sending[q]) \cap ToSet(sending[r]) : q = r
  /\ \A p \in Procs : token[p] => p \in chosen
  /\ \A p \in chosen : /\ pc[p] \in Untold \cup {"draining"}
                       /\ token[p] \/ \E q \in Procs : p \in ToSet(sending[q])
  /\ \A p \in Procs : /\ pc[p] \in Untold => p \in Waiting \cup chosen
                      /\ pc[p] = "draining" => p \in chosen

Inv == TypeOK /\ Ownership /\ Queues

-----------------------------------------------------------------------------
(* Queues of distinct elements.                                            *)

LEMMA EmptyQueue ==
  ASSUME NEW Elems
  PROVE  <<>> \in Seq(Elems) /\ IsInjective(<<>>) /\ ToSet(<<>>) = {}
BY EmptySeq DEF IsInjective, ToSet

LEMMA QueueMembers ==
  ASSUME NEW Elems, NEW s \in Seq(Elems)
  PROVE  /\ Len(s) \in Nat /\ DOMAIN s = 1 .. Len(s)
         /\ \A i \in 1 .. Len(s) : s[i] \in Elems
         /\ ToSet(s) \subseteq Elems
         /\ s # <<>> => Len(s) >= 1
<1>1. Len(s) \in Nat /\ DOMAIN s = 1 .. Len(s)
  BY LenProperties
<1>2. \A i \in 1 .. Len(s) : s[i] \in Elems
  BY ElementOfSeq
<1>3. s # <<>> => Len(s) # 0
  BY EmptySeq
<1> QED BY <1>1, <1>2, <1>3 DEF ToSet

LEMMA Enqueued ==
  ASSUME NEW Elems, NEW s \in Seq(Elems), IsInjective(s), NEW e \in Elems, e \notin ToSet(s)
  PROVE  /\ Append(s, e) \in Seq(Elems) /\ IsInjective(Append(s, e))
         /\ ToSet(Append(s, e)) = ToSet(s) \cup {e}
<1> DEFINE t == Append(s, e)
<1>1. /\ t \in Seq(Elems) /\ Len(t) = Len(s) + 1
      /\ \A i \in 1 .. Len(s) : t[i] = s[i]
      /\ t[Len(s) + 1] = e
  BY AppendProperties
<1> HIDE DEF t
<1>2. Len(s) \in Nat /\ DOMAIN s = 1 .. Len(s) /\ DOMAIN t = 1 .. Len(s) + 1
  BY <1>1, QueueMembers
<1>3. \A i \in 1 .. Len(s) : s[i] # e
  BY <1>2 DEF ToSet
<1>4. IsInjective(t)
  <2>1. \A i, j \in 1 .. Len(s) : s[i] = s[j] => i = j
    BY <1>2 DEF IsInjective
  <2> QED BY <1>1, <1>2, <1>3, <2>1 DEF IsInjective
<1>5. ToSet(t) = ToSet(s) \cup {e}
  BY <1>1, <1>2 DEF ToSet
<1> QED BY <1>1, <1>4, <1>5 DEF t

LEMMA Removed ==
  ASSUME NEW Elems, NEW s \in Seq(Elems), IsInjective(s), NEW i \in DOMAIN s,
         NEW t, t = RemoveAt(s, i)
  PROVE  t \in Seq(Elems) /\ IsInjective(t) /\ ToSet(t) = ToSet(s) \ {s[i]}
<1> DEFINE n == Len(s)
           u == SubSeq(s, 1, i - 1)
           v == SubSeq(s, i + 1, n)
<1>1. /\ n \in Nat /\ DOMAIN s = 1 .. n /\ i \in 1 .. n
      /\ \A j \in 1 .. n : s[j] \in Elems
  BY QueueMembers
<1>2. /\ u \in Seq(Elems) /\ Len(u) = i - 1
      /\ \A j \in 1 .. i - 1 : u[j] = s[j]
  <2>1. \A j \in 1 .. i - 1 : s[j] \in Elems
    BY <1>1
  <2>2. /\ u \in Seq(Elems)
        /\ Len(u) = IF 1 <= i - 1 THEN i - 1 - 1 + 1 ELSE 0
        /\ \A j \in 1 .. i - 1 - 1 + 1 : u[j] = s[1 + j - 1]
    BY <1>1, <2>1, SubSeqProperties
  <2> HIDE DEF u
  <2>3. \A j \in 1 .. i - 1 : j \in 1 .. i - 1 - 1 + 1 /\ 1 + j - 1 = j
    BY <1>1
  <2> QED BY <1>1, <2>2, <2>3
<1>3. /\ v \in Seq(Elems) /\ Len(v) = n - i
      /\ \A j \in 1 .. n - i : v[j] = s[i + j]
  <2>1. \A j \in i + 1 .. n : s[j] \in Elems
    BY <1>1
  <2>2. /\ v \in Seq(Elems)
        /\ Len(v) = IF i + 1 <= n THEN n - (i + 1) + 1 ELSE 0
        /\ \A j \in 1 .. n - (i + 1) + 1 : v[j] = s[i + 1 + j - 1]
    BY <1>1, <2>1, SubSeqProperties
  <2> HIDE DEF n, v
  <2>3. \A j \in 1 .. n - i : j \in 1 .. n - (i + 1) + 1 /\ i + 1 + j - 1 = i + j
    BY <1>1
  <2> QED BY <1>1, <2>2, <2>3
<1> HIDE DEF n, u, v
<1>4. /\ t \in Seq(Elems) /\ Len(t) = n - 1
      /\ \A j \in 1 .. n - 1 : t[j] = IF j < i THEN s[j] ELSE s[j + 1]
  <2>1. t = u \o v
    BY DEF RemoveAt, n, u, v
  <2>2. /\ u \o v \in Seq(Elems) /\ Len(u \o v) = Len(u) + Len(v)
        /\ \A j \in 1 .. Len(u) + Len(v) :
             (u \o v)[j] = IF j <= Len(u) THEN u[j] ELSE v[j - Len(u)]
    BY <1>2, <1>3, ConcatProperties
  <2>3. Len(t) = n - 1
    BY <1>1, <1>2, <1>3, <2>1, <2>2
  <2>4. ASSUME NEW j \in 1 .. n - 1 PROVE t[j] = IF j < i THEN s[j] ELSE s[j + 1]
    <3>1. t[j] = IF j <= i - 1 THEN u[j] ELSE v[j - (i - 1)]
      BY <1>1, <1>2, <1>3, <2>1, <2>2
    <3>2. CASE j < i
      BY <1>1, <1>2, <3>1, <3>2
    <3>3. CASE ~(j < i)
      <4>1. j - (i - 1) \in 1 .. n - i /\ i + (j - (i - 1)) = j + 1
        BY <1>1, <3>3
      <4>2. v[j - (i - 1)] = s[i + (j - (i - 1))]
        BY <1>3, <4>1
      <4>3. ~(j <= i - 1)
        BY <1>1, <3>3
      <4> QED BY <3>1, <3>3, <4>1, <4>2, <4>3
    <3> QED BY <3>2, <3>3
  <2> QED BY <2>1, <2>2, <2>3, <2>4
<1>5. DOMAIN t = 1 .. n - 1
  BY <1>4, QueueMembers
<1>6. \A j, k \in 1 .. n : s[j] = s[k] => j = k
  BY <1>1 DEF IsInjective
<1>7. IsInjective(t)
  <2> SUFFICES ASSUME NEW j \in 1 .. n - 1, NEW k \in 1 .. n - 1, t[j] = t[k] PROVE j = k
    BY <1>5 DEF IsInjective
  <2> QED BY <1>1, <1>4, <1>6
<1>8. ToSet(t) \subseteq ToSet(s) \ {s[i]}
  <2> SUFFICES ASSUME NEW j \in 1 .. n - 1
               PROVE  \E k \in 1 .. n : k # i /\ t[j] = s[k] /\ s[k] # s[i]
    BY <1>1, <1>5 DEF ToSet
  <2> DEFINE k == IF j < i THEN j ELSE j + 1
  <2>1. k \in 1 .. n /\ k # i /\ t[j] = s[k]
    BY <1>1, <1>4
  <2> QED BY <1>1, <1>6, <2>1
<1>9. ToSet(s) \ {s[i]} \subseteq ToSet(t)
  <2> SUFFICES ASSUME NEW k \in 1 .. n, k # i PROVE \E j \in 1 .. n - 1 : t[j] = s[k]
    BY <1>1, <1>5 DEF ToSet
  <2> DEFINE j == IF k < i THEN k ELSE k - 1
  <2>1. j \in 1 .. n - 1 /\ t[j] = s[k]
    BY <1>1, <1>4
  <2> QED BY <2>1
<1> QED BY <1>4, <1>7, <1>8, <1>9

LEMMA Dequeued ==
  ASSUME NEW Elems, NEW s \in Seq(Elems), IsInjective(s), s # <<>>
  PROVE  /\ Head(s) \in ToSet(s) /\ Tail(s) \in Seq(Elems) /\ IsInjective(Tail(s))
         /\ ToSet(Tail(s)) = ToSet(s) \ {Head(s)}
         /\ Len(s) = 1 => Tail(s) = <<>>
<1> DEFINE n == Len(s)
           t == Tail(s)
<1>1. n \in Nat /\ n >= 1 /\ DOMAIN s = 1 .. n
  BY QueueMembers
<1>2. /\ Head(s) = s[1] /\ t \in Seq(Elems) /\ Len(t) = n - 1
      /\ \A j \in 1 .. n - 1 : t[j] = s[j + 1]
  BY HeadTailProperties
<1> HIDE DEF n, t
<1>3. DOMAIN t = 1 .. n - 1
  BY <1>2, QueueMembers
<1>4. \A j, k \in 1 .. n : s[j] = s[k] => j = k
  BY <1>1 DEF IsInjective
<1>5. Head(s) \in ToSet(s)
  BY <1>1, <1>2 DEF ToSet
<1>6. IsInjective(t)
  BY <1>1, <1>2, <1>3, <1>4 DEF IsInjective
<1>7. ToSet(t) \subseteq ToSet(s) \ {s[1]}
  <2> SUFFICES ASSUME NEW j \in 1 .. n - 1 PROVE t[j] \in ToSet(s) /\ t[j] # s[1]
    BY <1>3 DEF ToSet
  <2>1. j + 1 \in 1 .. n /\ 1 \in 1 .. n /\ j + 1 # 1
    BY <1>1
  <2> QED BY <1>1, <1>2, <1>4, <2>1 DEF ToSet
<1>8. ToSet(s) \ {s[1]} \subseteq ToSet(t)
  <2> SUFFICES ASSUME NEW k \in 1 .. n, k # 1 PROVE \E j \in 1 .. n - 1 : t[j] = s[k]
    BY <1>1, <1>3 DEF ToSet
  <2>1. k - 1 \in 1 .. n - 1 /\ k - 1 + 1 = k
    BY <1>1
  <2> QED BY <1>2, <2>1
<1>9. n = 1 => t = <<>>
  BY <1>2, EmptySeq
<1> QED BY <1>2, <1>5, <1>6, <1>7, <1>8, <1>9 DEF n, t

\* A queue that takes a new element in front.
LEMMA Prepended ==
  ASSUME NEW Elems, NEW s \in Seq(Elems), IsInjective(s), NEW e \in Elems, e \notin ToSet(s)
  PROVE  /\ <<e>> \o s \in Seq(Elems) /\ IsInjective(<<e>> \o s)
         /\ ToSet(<<e>> \o s) = ToSet(s) \cup {e}
<1> DEFINE h == <<e>>
           t == h \o s
<1>1. h \in Seq(Elems) /\ Len(h) = 1 /\ h[1] = e
  OBVIOUS
<1>2. /\ Len(s) \in Nat /\ DOMAIN s = 1 .. Len(s)
      /\ \A i \in 1 .. Len(s) : s[i] # e
      /\ \A i, j \in 1 .. Len(s) : s[i] = s[j] => i = j
  BY QueueMembers DEF ToSet, IsInjective
<1> HIDE DEF h
<1>3. /\ t \in Seq(Elems) /\ Len(t) = Len(h) + Len(s)
      /\ \A i \in 1 .. Len(h) + Len(s) : t[i] = IF i <= Len(h) THEN h[i] ELSE s[i - Len(h)]
  BY <1>1, ConcatProperties
<1> HIDE DEF t
<1>4. /\ Len(t) = Len(s) + 1 /\ DOMAIN t = 1 .. Len(s) + 1 /\ t[1] = e
      /\ \A i \in 1 .. Len(s) : t[i + 1] = s[i]
  BY <1>1, <1>2, <1>3, QueueMembers
<1>5. \A i \in 2 .. Len(s) + 1 : i - 1 \in 1 .. Len(s) /\ t[i] = s[i - 1]
  BY <1>1, <1>2, <1>3
<1>6. IsInjective(t)
  <2> SUFFICES ASSUME NEW i \in 1 .. Len(s) + 1, NEW j \in 1 .. Len(s) + 1, t[i] = t[j]
               PROVE  i = j
    BY <1>4 DEF IsInjective
  <2>1. CASE i = 1
    BY <1>2, <1>4, <1>5, <2>1
  <2>2. CASE j = 1
    BY <1>2, <1>4, <1>5, <2>2
  <2>3. CASE i # 1 /\ j # 1
    BY <1>2, <1>5, <2>3
  <2> QED BY <2>1, <2>2, <2>3
<1>7. ToSet(t) \subseteq ToSet(s) \cup {e}
  BY <1>2, <1>4, <1>5, SMTT(30) DEF ToSet
<1>8. e \in ToSet(t)
  BY <1>2, <1>4 DEF ToSet
<1>9. ToSet(s) \subseteq ToSet(t)
  <2> SUFFICES ASSUME NEW i \in 1 .. Len(s) PROVE \E j \in DOMAIN t : t[j] = s[i]
    BY <1>2 DEF ToSet
  <2> QED BY <1>2, <1>4
<1> QED BY <1>3, <1>6, <1>7, <1>8, <1>9 DEF t, h

\* What is left of a queue when its head is taken.
LEMMA Walked ==
  ASSUME NEW Elems, NEW s \in Seq(Elems), s # <<>>
  PROVE  /\ Head(s) \in Elems /\ Head(s) \in ToSet(s)
         /\ Tail(s) \in Seq(Elems) /\ ToSet(Tail(s)) \subseteq ToSet(s)
         /\ ToSet(s) \subseteq ToSet(Tail(s)) \cup {Head(s)}
<1> DEFINE t == Tail(s)
<1>1. /\ Head(s) = s[1] /\ t \in Seq(Elems) /\ Len(t) = Len(s) - 1
      /\ \A i \in 1 .. Len(s) - 1 : t[i] = s[i + 1]
  BY HeadTailProperties
<1> HIDE DEF t
<1>2. /\ Len(s) \in Nat /\ Len(s) >= 1 /\ DOMAIN s = 1 .. Len(s) /\ s[1] \in Elems
      /\ DOMAIN t = 1 .. Len(s) - 1
  BY <1>1, QueueMembers
<1>3. ToSet(t) \subseteq ToSet(s)
  <2> SUFFICES ASSUME NEW i \in 1 .. Len(s) - 1 PROVE t[i] \in ToSet(s)
    BY <1>2 DEF ToSet
  <2>1. i + 1 \in 1 .. Len(s) /\ t[i] = s[i + 1]
    BY <1>1, <1>2
  <2> QED BY <1>2, <2>1 DEF ToSet
<1>4. ToSet(s) \subseteq ToSet(t) \cup {s[1]}
  <2>1. ASSUME NEW i \in 1 .. Len(s), i # 1 PROVE s[i] \in ToSet(t)
    <3>1. i - 1 \in 1 .. Len(s) - 1 /\ i - 1 + 1 = i
      BY <1>2, <2>1
    <3>2. t[i - 1] = s[i - 1 + 1]
      BY <1>1, <3>1
    <3> QED BY <1>2, <3>1, <3>2 DEF ToSet
  <2> QED BY <1>2, <2>1 DEF ToSet
<1>5. s[1] \in ToSet(s)
  BY <1>2 DEF ToSet
<1> QED BY <1>1, <1>2, <1>3, <1>4, <1>5 DEF t

-----------------------------------------------------------------------------
(* The calls of the mutex.                                                 *)

\* What TypeOK says of the variables of the mutex.
LEMMA MutexFacts ==
  ASSUME TypeOK
  PROVE  /\ kind \in Kinds /\ held \in BOOLEAN
         /\ count \in Nat /\ count <= MaxDepth
         /\ DOMAIN pc = Procs /\ DOMAIN depth = Procs
         /\ pc = [q \in Procs |-> pc[q]] /\ depth = [q \in Procs |-> depth[q]]
         /\ \A q \in Procs : /\ depth[q] \in Nat /\ depth[q] <= MaxDepth
                              /\ entered[q] \in Nat /\ saved[q] \in Nat
BY MutexAssumption DEF TypeOK

\* A goroutine takes the free sync.Mutex: nobody is in, so it comes in alone.
LEMMA Takes ==
  ASSUME TypeOK, Ownership, NEW p \in Procs, UNCHANGED condVars,
         pc[p] \in {"idle", "acquiring", "polling"}, Taken(p)
  PROVE  TypeOK' /\ Ownership'
<1>1. /\ \A q \in Procs : depth[q] \in Nat
      /\ UNCHANGED <<kind, owner, count, saved, entered>>
  BY MutexFacts DEF Taken, condVars
<1>2. /\ ~held /\ held'
      /\ Tracked' = Tracked
      /\ \A q \in Procs : q # p => pc'[q] = pc[q] /\ depth'[q] = depth[q]
      /\ \/ Tracked /\ pc'[p] = "stamping" /\ depth'[p] = depth[p]
         \/ ~Tracked /\ pc'[p] = "idle" /\ depth'[p] = depth[p] + 1
  BY MutexFacts DEF Taken, Goto, Return, Deepen, Tracked
<1>3. depth[p] = 0
  BY <1>1, <1>2 DEF Ownership, Exclusive, In
<1>4. Exclusive'
  BY <1>1, <1>2, <1>3 DEF Ownership, Exclusive, In
<1>5. OwnerExact'
  BY <1>1, <1>2, <1>3 DEF Ownership, OwnerExact
<1>6. Depths'
  BY <1>1, <1>2, <1>3 DEF Ownership, Depths, Outside, WaitPcs, Sleeping
<1>7. TypeOK'
  <2>1. depth[p] + 1 \in 0 .. MaxDepth
    BY <1>3, MutexAssumption
  <2> QED BY <2>1 DEF TypeOK, Taken, Goto, Return, Deepen, condVars, Pcs, Results
<1> QED BY <1>4, <1>5, <1>6, <1>7 DEF Ownership

\* A call that changes no more than where p is, and what it answers.
LEMMA Moves ==
  ASSUME TypeOK, Ownership, NEW p \in Procs, UNCHANGED condVars,
         UNCHANGED <<kind, held, owner, count, depth>>,
         pc[p] \in {"idle", "polling"},
         NEW l \in {"idle", "acquiring", "polling"}, Goto(p, l),
         l = "acquiring" => depth[p] = 0,
         result' \in [Procs -> Results]
  PROVE  TypeOK' /\ Ownership'
<1>1. UNCHANGED <<kind, held, owner, count, depth, saved, entered>>
  BY DEF condVars
<1>2. /\ Tracked' = Tracked /\ pc'[p] = l
      /\ \A q \in Procs : q # p => pc'[q] = pc[q]
  BY MutexFacts DEF Goto, Tracked
<1>3. Exclusive'
  BY <1>1, <1>2 DEF Ownership, Exclusive, In
<1>4. OwnerExact'
  BY <1>1, <1>2 DEF Ownership, OwnerExact
<1>5. Depths'
  BY <1>1, <1>2 DEF Ownership, Depths, Outside, WaitPcs, Sleeping
<1>6. TypeOK'
  BY DEF TypeOK, Goto, condVars, Pcs
<1> QED BY <1>3, <1>4, <1>5, <1>6 DEF Ownership

\* The owner of a recursive mutex locks it once more.
LEMMA RelockInv ==
  ASSUME TypeOK, Ownership, NEW p \in Procs, UNCHANGED condVars, Relock(p)
  PROVE  TypeOK' /\ Ownership'
<1>1. /\ \A q \in Procs : depth[q] \in Nat
      /\ UNCHANGED <<kind, held, owner, saved, entered>> /\ count' = count + 1
  BY MutexFacts DEF Relock, condVars
<1>2. /\ pc[p] = "idle" /\ pc'[p] = "idle" /\ Tracked /\ Tracked' /\ kind = "recursive"
      /\ owner = p /\ depth'[p] = depth[p] + 1 /\ depth[p] < MaxDepth
      /\ \A q \in Procs : q # p => pc'[q] = pc[q] /\ depth'[q] = depth[q]
  BY MutexFacts DEF Relock, Return, Goto, Deepen, Tracked, Owns
<1>3. depth[p] > 0 /\ count = depth[p]
  BY <1>2 DEF Ownership, OwnerExact
<1>4. Exclusive'
  BY <1>1, <1>2, <1>3 DEF Ownership, Exclusive, In
<1>5. OwnerExact'
  BY <1>1, <1>2, <1>3 DEF Ownership, OwnerExact
<1>6. Depths'
  BY <1>1, <1>2 DEF Ownership, Depths, Outside, WaitPcs, Sleeping
<1>7. TypeOK'
  <2>1. depth[p] + 1 \in 0 .. MaxDepth /\ count + 1 \in 0 .. MaxDepth
    BY <1>1, <1>2, <1>3, MutexAssumption
  <2> QED BY <2>1 DEF TypeOK, Relock, Return, Goto, Deepen, condVars, Pcs, Results
<1> QED BY <1>4, <1>5, <1>6, <1>7 DEF Ownership

\* The owner word is written after the sync.Mutex is taken: nobody else is in.
LEMMA StampInv ==
  ASSUME TypeOK, Ownership, NEW p \in Procs, UNCHANGED condVars, Stamp(p)
  PROVE  TypeOK' /\ Ownership'
<1>1. /\ \A q \in Procs : depth[q] \in Nat
      /\ UNCHANGED <<kind, held, saved, entered>> /\ count' = 1 /\ owner' = p
  BY MutexFacts DEF Stamp, condVars
<1>2. /\ pc[p] = "stamping" /\ pc'[p] = "idle" /\ Tracked' = Tracked
      /\ depth'[p] = depth[p] + 1
      /\ \A q \in Procs : q # p => pc'[q] = pc[q] /\ depth'[q] = depth[q]
  BY MutexFacts DEF Stamp, Return, Goto, Deepen, Tracked
<1>3. depth[p] = 0 /\ \A q \in Procs : depth[q] = 0
  BY <1>1, <1>2 DEF Ownership, Exclusive, Depths, In
<1>4. Exclusive'
  BY <1>1, <1>2, <1>3 DEF Ownership, Exclusive, In
<1>5. OwnerExact'
  BY <1>1, <1>2, <1>3 DEF Ownership, OwnerExact
<1>6. Depths'
  BY <1>1, <1>2, <1>3 DEF Ownership, Depths, Outside, WaitPcs, Sleeping
<1>7. TypeOK'
  <2>1. 1 \in 0 .. MaxDepth
    BY MutexAssumption
  <2> QED BY <1>3, <2>1 DEF TypeOK, Stamp, Return, Goto, Deepen, condVars, Pcs, Results
<1> QED BY <1>4, <1>5, <1>6, <1>7 DEF Ownership

\* Unlock by the one who is in: one level, or out as far as the sync.Mutex.
LEMMA UnlockInv ==
  ASSUME TypeOK, Ownership, NEW p \in Procs, UNCHANGED condVars, Unlock(p)
  PROVE  TypeOK' /\ Ownership'
<1>1. CASE Tracked /\ owner # p
  <2>1. Goto(p, "idle") /\ result' \in [Procs -> Results]
        /\ UNCHANGED <<kind, held, owner, count, depth>> /\ pc[p] = "idle"
    BY <1>1 DEF Unlock, Return, TypeOK, Results
  <2> QED BY <2>1, Moves
<1>2. CASE ~(Tracked /\ owner # p)
  <2>1. /\ \A q \in Procs : depth[q] \in Nat /\ depth[q] <= MaxDepth
        /\ count \in Nat /\ count <= MaxDepth
        /\ UNCHANGED <<kind, held, saved, entered>>
    BY MutexFacts DEF Unlock, condVars
  <2>2. /\ pc[p] = "idle" /\ Tracked' = Tracked
        /\ (kind = "recursive" => Tracked)
        /\ (Tracked => owner = p) /\ (~Tracked => depth[p] > 0)
        /\ count' = IF kind = "recursive" THEN count - 1 ELSE count
        /\ depth'[p] = depth[p] - 1
        /\ \A q \in Procs : q # p => pc'[q] = pc[q] /\ depth'[q] = depth[q]
        /\ \/ kind = "recursive" /\ count > 1 /\ pc'[p] = "idle" /\ owner' = owner
           \/ /\ ~(kind = "recursive" /\ count > 1) /\ pc'[p] = "releasing"
              /\ owner' = IF Tracked THEN NoOwner ELSE owner
    BY <1>2, MutexFacts DEF Unlock, Return, Goto, Tracked
  <2>3. /\ depth[p] > 0
        /\ kind = "recursive" => count = depth[p]
        /\ kind # "recursive" => depth[p] = 1
    BY <2>1, <2>2 DEF Ownership, OwnerExact, Depths
  <2>4. Exclusive'
    BY <2>1, <2>2, <2>3 DEF Ownership, Exclusive, In
  <2>5. OwnerExact'
    <3>1. \A q \in Procs : q # p => depth[q] = 0
      BY <2>1, <2>3 DEF Ownership, Exclusive, In
    <3> QED BY <2>1, <2>2, <2>3, <3>1, MutexAssumption DEF Ownership, OwnerExact
  <2>6. Depths'
    BY <2>1, <2>2, <2>3 DEF Ownership, Depths, Outside, WaitPcs, Sleeping
  <2>7. TypeOK'
    <3>1. depth[p] - 1 \in 0 .. MaxDepth
          /\ (kind = "recursive" => count - 1 \in 0 .. MaxDepth)
      BY <2>1, <2>3, MutexAssumption
    <3> QED BY <1>2, <3>1 DEF TypeOK, Unlock, Return, Goto, condVars, Pcs, Results
  <2> QED BY <2>4, <2>5, <2>6, <2>7 DEF Ownership
<1> QED BY <1>1, <1>2

\* Only the one who is in opens the sync.Mutex.
LEMMA ReleaseInv ==
  ASSUME TypeOK, Ownership, NEW p \in Procs, UNCHANGED condVars, Release(p)
  PROVE  TypeOK' /\ Ownership'
<1>1. /\ \A q \in Procs : depth[q] \in Nat
      /\ UNCHANGED <<kind, owner, count, depth, saved, entered>>
  BY MutexFacts DEF Release, condVars
<1>2. /\ pc[p] = "releasing" /\ pc'[p] = "idle" /\ Tracked' = Tracked /\ ~held'
      /\ \A q \in Procs : q # p => pc'[q] = pc[q]
  BY MutexFacts DEF Release, Return, Goto, Tracked
<1>3. depth[p] = 0 /\ \A q \in Procs : q # p => ~In(q)
  BY <1>2 DEF Ownership, Exclusive, Depths, In
<1>4. Exclusive'
  BY <1>1, <1>2, <1>3 DEF Exclusive, In
<1>5. OwnerExact'
  BY <1>1, <1>2 DEF Ownership, OwnerExact
<1>6. Depths'
  BY <1>1, <1>2 DEF Ownership, Depths, Outside, WaitPcs, Sleeping
<1>7. TypeOK'
  BY DEF TypeOK, Release, Return, Goto, condVars, Pcs, Results
<1> QED BY <1>4, <1>5, <1>6, <1>7 DEF Ownership

LEMMA MutexOpInv ==
  ASSUME TypeOK, Ownership, NEW p \in Procs, UNCHANGED condVars, MutexOp(p)
  PROVE  TypeOK' /\ Ownership'
<1>1. CASE Acquire(p) \/ PollTakes(p) \/ (TryLock(p) /\ Taken(p))
  BY <1>1, Takes DEF Acquire, PollTakes, TryLock
<1>2. CASE \/ RelockRefused(p) \/ PollTimesOut(p) \/ (TryLock(p) /\ ~Taken(p))
  <2>1. /\ UNCHANGED <<kind, held, owner, count, depth>> /\ Goto(p, "idle")
        /\ pc[p] \in {"idle", "polling"} /\ result' \in [Procs -> Results]
    BY <1>2 DEF RelockRefused, PollTimesOut, TryLock, Return, TypeOK, Results
  <2> QED BY <2>1, Moves
<1>3. CASE LockCall(p)
  <2>1. /\ UNCHANGED <<kind, held, owner, count, depth>> /\ Goto(p, "acquiring")
        /\ pc[p] = "idle" /\ result' \in [Procs -> Results]
    BY <1>3 DEF LockCall, TypeOK
  <2>2. depth[p] = 0
    BY <1>3, MutexFacts DEF LockCall, Owns, Ownership, OwnerExact
  <2> QED BY <2>1, <2>2, Moves
<1>4. CASE TimedLockCall(p)
  <2>1. /\ UNCHANGED <<kind, held, owner, count, depth>> /\ Goto(p, "polling")
        /\ pc[p] = "idle" /\ result' \in [Procs -> Results]
    BY <1>4 DEF TimedLockCall, TypeOK
  <2> QED BY <2>1, Moves
<1> QED BY <1>1, <1>2, <1>3, <1>4, RelockInv, StampInv, UnlockInv, ReleaseInv DEF MutexOp

-----------------------------------------------------------------------------
(* Wait, Signal and Broadcast: who is in the mutex.                        *)

\* A step that p takes neither in the mutex nor towards it.
LEMMA Elsewhere ==
  ASSUME TypeOK, Ownership, NEW p \in Procs, NEW l, Goto(p, l),
         UNCHANGED <<kind, held, owner, count, depth, saved, entered>>,
         \/ /\ pc[p] \in Sleeping \cup {"expired", "draining"}
            /\ l \in {"expired", "draining", "reacquiring"}
         \/ {pc[p], l} \subseteq {"idle", "broadcasting"}
  PROVE  Ownership'
<1>1. /\ Tracked' = Tracked /\ pc'[p] = l
      /\ \A q \in Procs : q # p => pc'[q] = pc[q]
  BY MutexFacts DEF Goto, Tracked
<1>2. Exclusive'
  BY <1>1 DEF Ownership, Exclusive, In, Sleeping
<1>3. OwnerExact'
  BY <1>1 DEF Ownership, OwnerExact
<1>4. Depths'
  BY <1>1 DEF Ownership, Depths, Outside, WaitPcs, Sleeping
<1> QED BY <1>2, <1>3, <1>4 DEF Ownership

LEMMA EnqueueOwnership ==
  ASSUME TypeOK, Ownership, NEW p \in Procs, WaitEnqueue(p)
  PROVE  Ownership'
<1>1. /\ \A q \in Procs : depth[q] \in Nat
      /\ UNCHANGED <<kind, held, owner, count, depth, saved>>
  BY MutexFacts DEF WaitEnqueue
<1>2. /\ pc[p] = "idle" /\ depth[p] > 0
      /\ Tracked' = Tracked /\ pc'[p] = "queued" /\ entered'[p] = depth[p]
      /\ \A q \in Procs : q # p => pc'[q] = pc[q] /\ entered'[q] = entered[q]
  BY MutexFacts DEF WaitEnqueue, Goto, Tracked, TypeOK
<1>3. Exclusive'
  BY <1>1, <1>2 DEF Ownership, Exclusive, In
<1>4. OwnerExact'
  BY <1>1, <1>2 DEF Ownership, OwnerExact
<1>5. Depths'
  BY <1>1, <1>2 DEF Ownership, Depths, Outside, WaitPcs, Sleeping
<1> QED BY <1>3, <1>4, <1>5 DEF Ownership

LEMMA DisownOwnership ==
  ASSUME TypeOK, Ownership, NEW p \in Procs, WaitDisown(p)
  PROVE  Ownership'
<1>1. /\ \A q \in Procs : depth[q] \in Nat
      /\ UNCHANGED <<kind, held, entered>>
  BY MutexFacts DEF WaitDisown
<1>2. /\ pc[p] = "queued" /\ Tracked' = Tracked /\ pc'[p] = "dropping" /\ depth'[p] = 0
      /\ \A q \in Procs : q # p => pc'[q] = pc[q] /\ depth'[q] = depth[q]
      /\ \A q \in Procs : q # p => saved'[q] = saved[q]
      /\ Tracked => saved'[p] = count /\ owner' = NoOwner
      /\ ~Tracked => UNCHANGED <<saved, count, owner>>
  BY MutexFacts DEF WaitDisown, Goto, Tracked, TypeOK
<1>3. /\ depth[p] > 0 /\ depth[p] = entered[p]
      /\ Tracked => saved'[p] = IF kind = "recursive" THEN entered[p] ELSE 1
      /\ \A q \in Procs : q # p => ~In(q)
  <2>1. depth[p] > 0 /\ depth[p] = entered[p]
    BY <1>2 DEF Ownership, Depths, WaitPcs
  <2> QED BY <1>2, <2>1 DEF Ownership, OwnerExact, Exclusive, In
<1>4. Exclusive'
  BY <1>1, <1>2, <1>3 DEF Ownership, Exclusive, In
<1>5. OwnerExact'
  <2>1. \A q \in Procs : ~(depth'[q] > 0)
    BY <1>2, <1>3 DEF In
  <2> QED BY <1>2, <2>1, MutexAssumption DEF OwnerExact
<1>6. Depths'
  BY <1>1, <1>2, <1>3 DEF Ownership, Depths, Outside, WaitPcs, Sleeping
<1> QED BY <1>4, <1>5, <1>6 DEF Ownership

LEMMA DropOwnership ==
  ASSUME TypeOK, Ownership, NEW p \in Procs, WaitDrop(p)
  PROVE  Ownership'
<1>1. /\ \A q \in Procs : depth[q] \in Nat
      /\ UNCHANGED <<kind, owner, count, depth, saved, entered>>
  BY MutexFacts DEF WaitDrop, condVars
<1>2. /\ pc[p] = "dropping" /\ pc'[p] \in Sleeping /\ Tracked' = Tracked /\ ~held'
      /\ \A q \in Procs : q # p => pc'[q] = pc[q]
  BY MutexFacts DEF WaitDrop, Goto, Tracked
<1>3. depth[p] = 0 /\ \A q \in Procs : q # p => ~In(q)
  BY <1>2 DEF Ownership, Exclusive, Depths, In, Outside, WaitPcs
<1>4. Exclusive'
  BY <1>1, <1>2, <1>3 DEF Exclusive, In, Sleeping
<1>5. OwnerExact'
  BY <1>1, <1>2 DEF Ownership, OwnerExact
<1>6. Depths'
  BY <1>1, <1>2 DEF Ownership, Depths, Outside, WaitPcs, Sleeping
<1> QED BY <1>4, <1>5, <1>6 DEF Ownership

LEMMA ReacquireOwnership ==
  ASSUME TypeOK, Ownership, NEW p \in Procs, Reacquire(p)
  PROVE  Ownership'
<1>1. /\ \A q \in Procs : depth[q] \in Nat
      /\ UNCHANGED <<kind, owner, count, saved, entered>>
  BY MutexFacts DEF Reacquire, condVars
<1>2. /\ pc[p] = "reacquiring" /\ ~held /\ held' /\ Tracked' = Tracked
      /\ \A q \in Procs : q # p => pc'[q] = pc[q] /\ depth'[q] = depth[q]
      /\ \/ Tracked /\ pc'[p] = "restoring" /\ depth'[p] = depth[p]
         \/ ~Tracked /\ pc'[p] = "idle" /\ depth'[p] = entered[p]
  BY MutexFacts DEF Reacquire, Goto, Return, Tracked
<1>3. /\ \A q \in Procs : ~In(q)
      /\ entered[p] > 0 /\ (kind # "recursive" => entered[p] = 1)
  BY <1>2 DEF Ownership, Exclusive, Depths, WaitPcs
<1>4. Exclusive'
  BY <1>1, <1>2, <1>3 DEF Exclusive, In
<1>5. OwnerExact'
  BY <1>1, <1>2 DEF Ownership, OwnerExact
<1>6. Depths'
  BY <1>1, <1>2, <1>3 DEF Ownership, Depths, Outside, WaitPcs, Sleeping, Tracked
<1> QED BY <1>4, <1>5, <1>6 DEF Ownership

LEMMA RestoreOwnership ==
  ASSUME TypeOK, Ownership, NEW p \in Procs, Restore(p)
  PROVE  Ownership'
<1>1. /\ \A q \in Procs : depth[q] \in Nat
      /\ UNCHANGED <<kind, held, saved, entered>> /\ owner' = p /\ count' = saved[p]
  BY MutexFacts DEF Restore, condVars
<1>2. /\ pc[p] = "restoring" /\ pc'[p] = "idle" /\ Tracked' = Tracked
      /\ depth'[p] = entered[p]
      /\ \A q \in Procs : q # p => pc'[q] = pc[q] /\ depth'[q] = depth[q]
  BY MutexFacts DEF Restore, Goto, Return, Tracked
<1>3. /\ \A q \in Procs : q # p => depth[q] = 0 /\ ~In(q)
      /\ entered[p] > 0 /\ (kind # "recursive" => entered[p] = 1)
      /\ saved[p] = IF kind = "recursive" THEN entered[p] ELSE 1
  BY <1>1, <1>2 DEF Ownership, Exclusive, Depths, WaitPcs, Outside, In
<1>4. Exclusive'
  BY <1>1, <1>2, <1>3 DEF Ownership, Exclusive, In
<1>5. OwnerExact'
  BY <1>1, <1>2, <1>3 DEF OwnerExact
<1>6. Depths'
  BY <1>1, <1>2, <1>3 DEF Ownership, Depths, Outside, WaitPcs, Sleeping
<1> QED BY <1>4, <1>5, <1>6 DEF Ownership

-----------------------------------------------------------------------------
(* Wait, Signal and Broadcast: the queue and the tokens.                   *)

\* What TypeOK and Queues say of the sequences.
LEMMA QueueFacts ==
  ASSUME TypeOK, Queues
  PROVE  /\ waiters \in Seq(Procs) /\ IsInjective(waiters)
         /\ Waiting \subseteq Procs /\ Waiting = ToSet(waiters)
         /\ DOMAIN token = Procs /\ DOMAIN sending = Procs /\ chosen \subseteq Procs
         /\ \A q \in Procs : /\ sending[q] \in Seq(Procs) /\ IsInjective(sending[q])
                              /\ ToSet(sending[q]) \subseteq Procs
<1>1. /\ waiters \in Seq(Procs) /\ IsInjective(waiters)
      /\ DOMAIN token = Procs /\ DOMAIN sending = Procs /\ chosen \subseteq Procs
      /\ \A q \in Procs : sending[q] \in Seq(Procs) /\ IsInjective(sending[q])
  BY DEF TypeOK, Queues
<1>2. ToSet(waiters) \subseteq Procs /\ \A q \in Procs : ToSet(sending[q]) \subseteq Procs
  BY <1>1, QueueMembers
<1> QED BY <1>1, <1>2 DEF Waiting

\* A step of p that leaves it as much in the queue as it was.
LEMMA QueuesKept ==
  ASSUME TypeOK, Queues, NEW p \in Procs, UNCHANGED <<waiters, token, sending, chosen>>,
         NEW l, Goto(p, l),
         \/ pc[p] \in Untold /\ l \in Untold
         \/ {pc[p], l} \cap (Untold \cup {"draining", "broadcasting"}) = {}
  PROVE  Queues'
<1>1. pc'[p] = l /\ \A q \in Procs : q # p => pc'[q] = pc[q]
  BY MutexFacts DEF Goto
<1>2. Waiting \subseteq Procs /\ chosen \subseteq Procs
  BY QueueFacts
<1> QED BY <1>1, <1>2 DEF Queues, Waiting, Untold, Sleeping

LEMMA EnqueueQueues ==
  ASSUME TypeOK, Queues, NEW p \in Procs, WaitEnqueue(p)
  PROVE  Queues' /\ waiters' \in Seq(Procs)
<1>1. /\ pc[p] = "idle" /\ pc'[p] = "queued" /\ ~token'[p]
      /\ \A q \in Procs : q # p => pc'[q] = pc[q] /\ token'[q] = token[q]
      /\ UNCHANGED <<sending, chosen>>
  BY MutexFacts, QueueFacts DEF WaitEnqueue, Goto
<1>2. p \notin Waiting /\ p \notin chosen
  BY <1>1 DEF Queues, Untold, Sleeping
<1>3. waiters' \in Seq(Procs) /\ IsInjective(waiters') /\ Waiting' = Waiting \cup {p}
  <2>1. waiters' = Append(waiters, p) /\ Waiting' = ToSet(waiters')
    BY DEF WaitEnqueue, Waiting
  <2>2. waiters \in Seq(Procs) /\ IsInjective(waiters) /\ p \notin ToSet(waiters)
    BY <1>2, QueueFacts
  <2>3. waiters' \in Seq(Procs) /\ IsInjective(waiters')
        /\ ToSet(waiters') = ToSet(waiters) \cup {p}
    BY <2>1, <2>2, Enqueued
  <2> QED BY <2>1, <2>3 DEF Waiting
<1>4. Waiting \subseteq Procs /\ chosen \subseteq Procs
  BY QueueFacts
<1> QED BY <1>1, <1>2, <1>3, <1>4 DEF Queues, Untold, Sleeping

\* The token is taken by the one it was sent to.
LEMMA TokenTaken ==
  ASSUME TypeOK, Queues, NEW p \in Procs, Woken(p) \/ Drain(p)
  PROVE  Queues'
<1>1. /\ pc[p] \in Sleeping \cup {"draining"} /\ pc'[p] = "reacquiring"
      /\ token[p] /\ ~token'[p]
      /\ \A q \in Procs : q # p => pc'[q] = pc[q] /\ token'[q] = token[q]
      /\ UNCHANGED <<waiters, sending>> /\ chosen' = chosen \ {p}
  BY MutexFacts, QueueFacts DEF Woken, Drain, Goto
<1>2. /\ p \notin Waiting /\ \A q \in Procs : p \notin ToSet(sending[q])
      /\ Waiting \subseteq Procs /\ chosen \subseteq Procs
  BY <1>1, QueueFacts DEF Queues
<1>3. Waiting' = Waiting
  BY <1>1 DEF Waiting
<1> QED BY <1>1, <1>2, <1>3, SMTT(30) DEF Queues, Untold, Sleeping

LEMMA ExpireQueues ==
  ASSUME TypeOK, Queues, NEW p \in Procs, Expire(p)
  PROVE  Queues' /\ waiters' \in Seq(Procs)
<1>1. /\ pc[p] = "expired" /\ pc'[p] \in {"reacquiring", "draining"}
      /\ \A q \in Procs : q # p => pc'[q] = pc[q]
      /\ UNCHANGED <<token, sending, chosen>>
  BY MutexFacts DEF Expire, Goto
<1>2. CASE p \in Waiting
  <2>1. PICK i \in DOMAIN waiters : waiters[i] = p /\ waiters' = RemoveAt(waiters, i)
    BY <1>2 DEF Expire, Dequeue
  <2>2. waiters' \in Seq(Procs) /\ IsInjective(waiters') /\ Waiting' = Waiting \ {p}
    BY <2>1, QueueFacts, Removed DEF Waiting
  <2>3. pc'[p] = "reacquiring" /\ p \notin chosen
    BY <1>2, MutexFacts DEF Expire, Goto, Queues
  <2>4. Waiting \subseteq Procs /\ chosen \subseteq Procs
    BY QueueFacts
  <2> QED BY <1>1, <2>2, <2>3, <2>4 DEF Queues, Untold, Sleeping
<1>3. CASE p \notin Waiting
  <2>1. pc'[p] = "draining" /\ waiters' = waiters /\ Waiting' = Waiting
    BY <1>3, MutexFacts DEF Expire, Goto, Waiting
  <2>2. p \in chosen /\ Waiting \subseteq Procs /\ chosen \subseteq Procs
    BY <1>1, <1>3, QueueFacts DEF Queues, Untold
  <2> QED BY <1>1, <1>3, <2>1, <2>2, QueueFacts DEF Queues, Untold, Sleeping
<1> QED BY <1>2, <1>3

LEMMA SignalQueues ==
  ASSUME TypeOK, Queues, NEW p \in Procs, Signal(p)
  PROVE  Queues' /\ waiters' \in Seq(Procs)
<1> DEFINE h == Head(waiters)
<1>1. /\ h \in Waiting /\ waiters' \in Seq(Procs) /\ IsInjective(waiters')
      /\ Waiting' = Waiting \ {h}
  BY QueueFacts, Dequeued DEF Signal, Waiting
<1>2. h \in Procs
  BY <1>1, QueueFacts
<1> HIDE DEF h
<1>3. /\ UNCHANGED <<pc, sending>> /\ chosen' = chosen \cup {h} /\ token'[h]
      /\ \A q \in Procs : q # h => token'[q] = token[q]
  BY <1>2, QueueFacts DEF Signal, mutexVars, h
<1>4. /\ h \notin chosen /\ pc[h] \in Untold
      /\ \A q \in Procs : h \notin ToSet(sending[q])
      /\ Waiting \subseteq Procs /\ chosen \subseteq Procs
  BY <1>1, QueueFacts DEF Queues
<1>5. \A q \in Procs : \A r \in ToSet(sending'[q]) : ~token'[r] /\ r \in chosen'
  BY <1>3, <1>4, QueueFacts DEF Queues
<1>6. \A r \in Waiting' : pc'[r] \in Untold /\ ~token'[r] /\ r \notin chosen'
  BY <1>1, <1>3, <1>4 DEF Queues
<1>7. \A r \in chosen' : token'[r] \/ \E q \in Procs : r \in ToSet(sending'[q])
  BY <1>2, <1>3, <1>4 DEF Queues
<1>8. \A r \in Procs : /\ token'[r] => r \in chosen'
                       /\ pc'[r] \in Untold => r \in Waiting' \cup chosen'
                       /\ pc'[r] = "draining" => r \in chosen'
  BY <1>1, <1>2, <1>3 DEF Queues
<1>9. \A r \in chosen' : pc'[r] \in Untold \cup {"draining"}
  BY <1>3, <1>4 DEF Queues
<1> QED BY <1>1, <1>3, <1>5, <1>6, <1>7, <1>8, <1>9 DEF Queues

LEMMA TakeQueues ==
  ASSUME TypeOK, Queues, NEW p \in Procs, BroadcastTake(p)
  PROVE  Queues' /\ waiters' \in Seq(Procs)
<1>1. waiters' = <<>> /\ waiters' \in Seq(Procs) /\ IsInjective(waiters') /\ Waiting' = {}
  BY EmptyQueue DEF BroadcastTake, Waiting
<1>2. /\ pc[p] = "idle" /\ pc'[p] = "broadcasting" /\ UNCHANGED token
      /\ chosen' = chosen \cup Waiting
      /\ sending'[p] = waiters /\ ToSet(sending'[p]) = Waiting
      /\ \A q \in Procs : q # p => pc'[q] = pc[q] /\ sending'[q] = sending[q]
  BY MutexFacts, QueueFacts DEF BroadcastTake, Goto, Waiting
<1>3. /\ IsInjective(sending'[p]) /\ ToSet(sending[p]) = {}
      /\ p \notin Waiting /\ p \notin chosen
      /\ Waiting \subseteq Procs /\ chosen \subseteq Procs
  BY <1>2, QueueFacts, EmptyQueue DEF Queues, Untold, Sleeping
<1> QED BY <1>1, <1>2, <1>3 DEF Queues, Untold, Sleeping

LEMMA SendQueues ==
  ASSUME TypeOK, Queues, NEW p \in Procs, BroadcastSend(p)
  PROVE  Queues' /\ sending' \in [Procs -> Seq(Procs)]
<1> DEFINE h == Head(sending[p])
<1>1. /\ h \in ToSet(sending[p]) /\ Tail(sending[p]) \in Seq(Procs)
      /\ IsInjective(Tail(sending[p])) /\ ToSet(Tail(sending[p])) = ToSet(sending[p]) \ {h}
      /\ Len(sending[p]) = 1 => Tail(sending[p]) = <<>>
  BY QueueFacts, Dequeued DEF BroadcastSend
<1>2. h \in Procs
  BY <1>1, QueueFacts
<1> HIDE DEF h
<1>3. /\ UNCHANGED <<waiters, chosen>> /\ Waiting' = Waiting /\ token'[h]
      /\ \A q \in Procs : q # h => token'[q] = token[q]
      /\ sending'[p] = Tail(sending[p])
      /\ \A q \in Procs : q # p => pc'[q] = pc[q] /\ sending'[q] = sending[q]
      /\ pc[p] = "broadcasting"
      /\ pc'[p] = IF Len(sending[p]) = 1 THEN "idle" ELSE "broadcasting"
  BY <1>2, MutexFacts, QueueFacts DEF BroadcastSend, Goto, Waiting, h
<1>4. /\ h \in chosen /\ h \notin Waiting
      /\ p \notin Waiting /\ p \notin chosen
      /\ \A q \in Procs : q # p => h \notin ToSet(sending[q])
      /\ Waiting \subseteq Procs /\ chosen \subseteq Procs
  BY <1>1, <1>2, <1>3, QueueFacts DEF Queues, Untold, Sleeping
<1>5. sending' \in [Procs -> Seq(Procs)]
  BY <1>1 DEF BroadcastSend, TypeOK
<1>6. ToSet(sending'[p]) = ToSet(sending[p]) \ {h} /\ IsInjective(sending'[p])
  BY <1>1, <1>3
<1>7. \A q \in Procs : ToSet(sending'[q]) = ToSet(sending[q]) \ {h}
  BY <1>3, <1>4, <1>6
<1>8. \A q \in Procs : /\ IsInjective(sending'[q])
                       /\ pc'[q] # "broadcasting" => sending'[q] = <<>>
  BY <1>1, <1>3, <1>6 DEF Queues
<1>9. \A q \in Procs : \A r \in ToSet(sending'[q]) : ~token'[r] /\ r \in chosen'
  <2> SUFFICES ASSUME NEW q \in Procs, NEW r \in ToSet(sending[q]), r # h
               PROVE  ~token'[r] /\ r \in chosen'
    BY <1>7
  <2>1. ~token[r] /\ r \in chosen /\ r \in Procs
    BY QueueFacts DEF Queues
  <2> QED BY <1>3, <2>1
<1>10. \A r \in Waiting' : pc'[r] \in Untold /\ ~token'[r] /\ r \notin chosen'
  BY <1>3, <1>4 DEF Queues
<1>11. \A r \in chosen' : /\ token'[r] \/ \E q \in Procs : r \in ToSet(sending'[q])
                          /\ pc'[r] \in Untold \cup {"draining"}
  BY <1>2, <1>3, <1>4, <1>7 DEF Queues
<1>12. \A r \in Procs : /\ token'[r] => r \in chosen'
                        /\ pc'[r] \in Untold => r \in Waiting' \cup chosen'
                        /\ pc'[r] = "draining" => r \in chosen'
  BY <1>3, <1>4 DEF Queues, Untold, Sleeping
<1>13. \A q, r \in Procs : \A e \in ToSet(sending'[q]) \cap ToSet(sending'[r]) : q = r
  BY <1>7 DEF Queues
<1> QED BY <1>3, <1>5, <1>8, <1>9, <1>10, <1>11, <1>12, <1>13 DEF Queues

-----------------------------------------------------------------------------
(* The invariant.                                                          *)

LEMMA InitInv == Init => Inv
<1> SUFFICES ASSUME Init PROVE Inv
  OBVIOUS
<1>1. TypeOK
  <2>1. 0 \in 0 .. MaxDepth /\ <<>> \in Seq(Procs)
    BY MutexAssumption, EmptyQueue
  <2> QED BY <2>1 DEF Init, MutexInit, TypeOK, Kinds, Pcs, Results
<1>2. Ownership
  BY MutexAssumption DEF Init, MutexInit, Ownership, Exclusive, OwnerExact, Depths, In,
     Outside, WaitPcs, Sleeping
<1>3. Queues
  BY EmptyQueue DEF Init, MutexInit, Queues, Waiting, Untold, Sleeping
<1> QED BY <1>1, <1>2, <1>3 DEF Inv

LEMMA MutexStepInv ==
  ASSUME Inv, NEW p \in Procs, MutexStep(p)
  PROVE  Inv'
<1>1. TypeOK' /\ Ownership'
  BY MutexOpInv DEF Inv, MutexStep
<1>2. \E l \in Pcs : Goto(p, l)
  BY DEF MutexStep, MutexOp, LockCall, Relock, RelockRefused, Acquire, Stamp, TryLock,
     TimedLockCall, PollTakes, PollTimesOut, Unlock, Release, Taken, Return, Pcs
<1>3. pc[p] \in Pcs
  BY DEF MutexStep, MutexOp, LockCall, Relock, RelockRefused, Acquire, Stamp, TryLock,
     TimedLockCall, PollTakes, PollTimesOut, Unlock, Release, Pcs
<1>4. PICK l \in Pcs : Goto(p, l)
  BY <1>2
<1>5. {pc[p], l} \cap (Untold \cup {"draining", "broadcasting"}) = {}
  BY <1>3 DEF Pcs, Untold, Sleeping
<1>6. Queues'
  BY <1>4, <1>5, QueuesKept DEF Inv, MutexStep, condVars
<1> QED BY <1>1, <1>6 DEF Inv

LEMMA WaitTypes ==
  ASSUME Inv, NEW p \in Procs, WaitStep(p)
  PROVE  TypeOK'
<1> USE DEF Inv, TypeOK, WaitPcs, Sleeping, Goto
<1>1. CASE WaitEnqueue(p)
  BY <1>1, EnqueueQueues DEF WaitEnqueue
<1>2. CASE WaitDisown(p)
  <2>1. 0 \in 0 .. MaxDepth
    BY MutexAssumption
  <2> QED BY <1>2, <2>1 DEF WaitDisown, Tracked
<1>3. CASE WaitDrop(p)
  BY <1>3 DEF WaitDrop, condVars
<1>4. CASE Woken(p) \/ Drain(p)
  BY <1>4 DEF Woken, Drain
<1>5. CASE DeadlinePasses(p)
  BY <1>5 DEF DeadlinePasses, condVars
<1>6. CASE Expire(p)
  BY <1>6, ExpireQueues DEF Expire
<1>7. CASE Reacquire(p)
  BY <1>7, ZenonT(60) DEF Reacquire, Return, WaitOutcome, Pcs, Results, condVars
<1>8. CASE Restore(p)
  BY <1>8 DEF Restore, Return, WaitOutcome, Pcs, Results, condVars
<1> QED BY <1>1, <1>2, <1>3, <1>4, <1>5, <1>6, <1>7, <1>8 DEF WaitStep

LEMMA WaitStepInv ==
  ASSUME Inv, NEW p \in Procs, WaitStep(p)
  PROVE  Inv'
<1>1. TypeOK'
  BY WaitTypes
<1>2. CASE WaitEnqueue(p)
  BY <1>1, <1>2, EnqueueOwnership, EnqueueQueues DEF Inv
<1>3. CASE WaitDisown(p)
  <2>1. Goto(p, "dropping") /\ pc[p] = "queued" /\ UNCHANGED <<waiters, token, sending, chosen>>
    BY <1>3 DEF WaitDisown
  <2>2. Queues'
    BY <2>1, QueuesKept DEF Inv, Untold
  <2> QED BY <1>1, <1>3, <2>2, DisownOwnership DEF Inv
<1>4. CASE WaitDrop(p)
  <2>1. /\ pc[p] = "dropping" /\ UNCHANGED <<waiters, token, sending, chosen>>
        /\ \E l \in Sleeping : Goto(p, l)
    BY <1>4 DEF WaitDrop, condVars
  <2>2. Queues'
    BY <2>1, QueuesKept DEF Inv, Untold
  <2> QED BY <1>1, <1>4, <2>2, DropOwnership DEF Inv
<1>5. CASE Woken(p) \/ Drain(p)
  <2>1. /\ UNCHANGED <<kind, held, owner, count, depth, saved, entered>>
        /\ pc[p] \in Sleeping \cup {"draining"} /\ Goto(p, "reacquiring")
    BY <1>5 DEF Woken, Drain
  <2>2. Ownership'
    BY <2>1, Elsewhere DEF Inv
  <2> QED BY <1>1, <1>5, <2>2, TokenTaken DEF Inv
<1>6. CASE DeadlinePasses(p)
  <2>1. /\ pc[p] = "napping" /\ Goto(p, "expired")
        /\ UNCHANGED <<waiters, token, sending, chosen>>
        /\ UNCHANGED <<kind, held, owner, count, depth, saved, entered>>
    BY <1>6 DEF DeadlinePasses, condVars
  <2>2. Ownership'
    BY <2>1, Elsewhere DEF Inv, Sleeping
  <2>3. Queues'
    BY <2>1, QueuesKept DEF Inv, Untold, Sleeping
  <2> QED BY <1>1, <2>2, <2>3 DEF Inv
<1>7. CASE Expire(p)
  <2>1. /\ UNCHANGED <<kind, held, owner, count, depth, saved, entered>>
        /\ pc[p] = "expired" /\ \E l \in {"reacquiring", "draining"} : Goto(p, l)
    BY <1>7 DEF Expire
  <2>2. Ownership'
    BY <2>1, Elsewhere DEF Inv
  <2> QED BY <1>1, <1>7, <2>2, ExpireQueues DEF Inv
<1>8. CASE Reacquire(p) \/ Restore(p)
  <2>1. /\ UNCHANGED <<waiters, token, sending, chosen>>
        /\ pc[p] \in {"reacquiring", "restoring"}
        /\ \E l \in {"idle", "restoring"} : Goto(p, l)
    BY <1>8 DEF Reacquire, Restore, Return, condVars
  <2>2. Queues'
    BY <2>1, QueuesKept DEF Inv, Untold, Sleeping
  <2> QED BY <1>1, <1>8, <2>2, ReacquireOwnership, RestoreOwnership DEF Inv
<1> QED BY <1>2, <1>3, <1>4, <1>5, <1>6, <1>7, <1>8 DEF WaitStep

LEMMA WakeInv ==
  ASSUME Inv, NEW p \in Procs, Signal(p) \/ BroadcastTake(p) \/ BroadcastSend(p)
  PROVE  Inv'
<1>1. Queues'
  BY SignalQueues, TakeQueues, SendQueues DEF Inv
<1>2. /\ UNCHANGED <<kind, held, owner, count, depth, saved, entered>>
      /\ UNCHANGED pc \/ \E l \in {"idle", "broadcasting"} :
                          Goto(p, l) /\ pc[p] \in {"idle", "broadcasting"}
  BY DEF Signal, BroadcastTake, BroadcastSend, mutexVars
<1>3. Ownership'
  <2>1. CASE UNCHANGED pc
    BY <1>2, <2>1 DEF Inv, Ownership, Exclusive, OwnerExact, Depths, In, Tracked
  <2>2. CASE ~UNCHANGED pc
    BY <1>2, <2>2, Elsewhere DEF Inv
  <2> QED BY <2>1, <2>2
<1>4. TypeOK'
  <2>1. CASE Signal(p)
    <3>1. Head(waiters) \in Procs /\ waiters' \in Seq(Procs)
      BY <2>1, SignalQueues, QueueFacts, Dequeued DEF Inv, Signal
    <3> QED BY <2>1, <3>1 DEF Inv, TypeOK, Signal, mutexVars
  <2>2. CASE BroadcastTake(p)
    <3>1. waiters' \in Seq(Procs) /\ Waiting \subseteq Procs
      BY <2>2, TakeQueues, QueueFacts DEF Inv
    <3> QED BY <2>2, <3>1 DEF Inv, TypeOK, BroadcastTake, Goto
  <2>3. CASE BroadcastSend(p)
    <3>1. sending' \in [Procs -> Seq(Procs)]
      BY <2>3, SendQueues DEF Inv
    <3> QED BY <2>3, <3>1 DEF Inv, TypeOK, BroadcastSend, Goto, Pcs
  <2> QED BY <2>1, <2>2, <2>3
<1> QED BY <1>1, <1>3, <1>4 DEF Inv

LEMMA Invariance == Spec => []Inv
<1>1. Inv /\ [Next]_vars => Inv'
  <2> SUFFICES ASSUME Inv, [Next]_vars PROVE Inv'
    OBVIOUS
  <2>1. CASE Next
    BY <2>1, MutexStepInv, WaitStepInv, WakeInv DEF Next
  <2>2. CASE UNCHANGED vars
    BY <2>2 DEF vars, mutexVars, condVars, Inv, TypeOK, Ownership, Exclusive, OwnerExact,
       Depths, In, Tracked, Queues, Waiting
  <2> QED BY <2>1, <2>2
<1> QED BY <1>1, InitInv, PTL DEF Spec

-----------------------------------------------------------------------------
(* The theorems.                                                           *)

\* Every variable keeps its type.
THEOREM CondTypes == Spec => []TypeOK
<1>1. Inv => TypeOK
  BY DEF Inv
<1> QED BY <1>1, Invariance, PTL

\* Whatever its clients do, at most one of them is in a mutex of any kind, it
\* is the one the owner word names, and the recursion count is the number of
\* locks it has to give back (posixsync/pthread.go:56-134).
THEOREM MutexCorrect == Spec => []MutexSafe
<1>1. Inv => MutexSafe
  <2> SUFFICES ASSUME Inv PROVE MutexSafe
    OBVIOUS
  <2>1. \A p \in Inside : p \in Procs /\ In(p)
    BY DEF Inside, In
  <2> QED BY <2>1 DEF Inv, Ownership, Exclusive, MutexSafe, MutualExclusion
<1> QED BY <1>1, Invariance, PTL

\* A waiter is under the mutex whenever it is not asleep; it never sleeps
\* beside a signal meant for it; a chosen one does not time out; and no sender
\* blocks (posixsync/pthread.go:185-283).
THEOREM CondCorrect == Spec => []CondSafe
<1>1. ASSUME Inv PROVE WaitMutualExclusion
  <2>1. WaitInside = {p \in Procs : In(p)}
    BY DEF WaitInside, Inside, In
  <2> QED BY <1>1, <2>1 DEF Inv, Ownership, Exclusive, WaitMutualExclusion
<1>2. ASSUME Inv PROVE SendNeverBlocks
  BY <1>2 DEF Inv, Queues, SendNeverBlocks
<1>3. ASSUME Inv PROVE SignalsReachWaiters
  <2>1. NoMissedWakeup
    BY <1>3 DEF Inv, Queues, NoMissedWakeup, Untold
  <2>2. chosen = TokensOnTheWay
    <3>1. chosen \subseteq Procs
      BY <1>3 DEF Inv, TypeOK
    <3> QED BY <1>3, <3>1 DEF Inv, Queues, TokensOnTheWay
  <2>3. \A p \in chosen : pc[p] \in {"queued", "dropping", "expired", "draining"} \cup Sleeping
    BY <1>3 DEF Inv, Queues, Untold
  <2> QED BY <2>1, <2>2, <2>3 DEF SignalsReachWaiters, NoSwallowedSignal
<1>4. Inv => CondSafe
  BY <1>1, <1>2, <1>3 DEF CondSafe, WaitSafe, Inv
<1> QED BY <1>4, Invariance, PTL


-----------------------------------------------------------------------------
(* pthread_once.                                                           *)

\* The swap of _state elects the first to come, and only it sets _done.
OnceInv ==
  /\ OnceTypeOK /\ OneInitializer
  /\ onceState = 0 => effect.begun = {}
  /\ done = 1 => effect.complete
  /\ \A p \in Procs : /\ oncePc[p] = "finishing" => effect.complete
                      /\ oncePc[p] = "returned" => done = 1

LEMMA OnceStep == OnceInv /\ [OnceNext]_onceVars => OnceInv'
<1> SUFFICES ASSUME OnceInv, [OnceNext]_onceVars PROVE OnceInv'
  OBVIOUS
<1> USE DEF OnceInv, OnceTypeOK, OneInitializer, OnceGoto
<1>1. ASSUME NEW p \in Procs, FastPath(p) PROVE OnceInv'
  BY <1>1 DEF FastPath
<1>2. ASSUME NEW p \in Procs, Elect(p) PROVE OnceInv'
  BY <1>2 DEF Elect
<1>3. ASSUME NEW p \in Procs, InitReturns(p) PROVE OnceInv'
  BY <1>3 DEF InitReturns
<1>4. ASSUME NEW p \in Procs, SetDone(p) PROVE OnceInv'
  BY <1>4 DEF SetDone
<1>5. ASSUME NEW p \in Procs, Spin(p) PROVE OnceInv'
  BY <1>5 DEF Spin
<1>6. CASE UNCHANGED onceVars
  BY <1>6 DEF onceVars
<1> QED BY <1>1, <1>2, <1>3, <1>4, <1>5, <1>6 DEF OnceNext, OnceRuns

\* pthread_once runs one initializer, and nobody returns, early or late, before
\* it is complete (thread.go, PthreadOnce).
THEOREM OnceCorrect == OnceSpec => []OnceSafe
<1>1. OnceInit => OnceInv
  BY DEF OnceInit, OnceInv, OnceTypeOK, OneInitializer
<1>2. OnceInv => OnceSafe
  BY DEF OnceInv, OnceSafe, ReturnsAfterInit
<1> QED BY <1>1, <1>2, OnceStep, PTL DEF OnceSpec

-----------------------------------------------------------------------------
(* The rwlock.                                                             *)

\* The inner mutex of the RWMutex has let q in, or is about to.
RWGated(q) == q \in writes \/ rwPc[q] \in {"pending", "stamping"}
RWInside(q) == q \in writes \/ rwPc[q] = "stamping"

RWInv ==
  /\ RW!TypeOK /\ RW!FlagExact
  /\ \A q \in Procs :
       /\ RWGated(q) => gate = q
       /\ RWInside(q) => \A r \in Procs : reads[r] = 0
       /\ q \in writes => rwPc[q] \in {"idle", "write-unlocking"}
       /\ rwPc[q] = "parked" => reads[q] < MaxReads
       /\ rwPc[q] = "write-unlocking" => q \in writes
       /\ rwPc[q] = "read-unlocking" => reads[q] > 0 /\ q \notin writes

LEMMA RWStep == RWInv /\ [RW!Next]_(RW!vars) => RWInv'
<1> SUFFICES ASSUME RWInv, [RW!Next]_(RW!vars) PROVE RWInv'
  OBVIOUS
<1> USE MCSyncAssumption DEF RWInv, RWGated, RWInside, RW!TypeOK, RW!FlagExact, RW!Goto,
        RW!Holds, RW!Readers, RW!RWLockConstants
<1>1. ASSUME NEW p \in Procs, RW!ReadLock(p) PROVE RWInv'
  BY <1>1 DEF RW!ReadLock
<1>2. ASSUME NEW p \in Procs, RW!ReadPark(p) PROVE RWInv'
  BY <1>2 DEF RW!ReadPark
<1>3. ASSUME NEW p \in Procs, RW!ReadRelease(p) PROVE RWInv'
  BY <1>3 DEF RW!ReadRelease
<1>4. ASSUME NEW p \in Procs, RW!WriteCall(p) PROVE RWInv'
  BY <1>4 DEF RW!WriteCall
<1>5. ASSUME NEW p \in Procs, RW!WriteGate(p) PROVE RWInv'
  BY <1>5 DEF RW!WriteGate
<1>6. ASSUME NEW p \in Procs, RW!WriteEnter(p) PROVE RWInv'
  BY <1>6 DEF RW!WriteEnter
<1>7. ASSUME NEW p \in Procs, RW!TryWriteLock(p) PROVE RWInv'
  BY <1>7 DEF RW!TryWriteLock
<1>8. ASSUME NEW p \in Procs, RW!Stamp(p) PROVE RWInv'
  BY <1>8 DEF RW!Stamp
<1>9. ASSUME NEW p \in Procs, RW!Unlock(p) PROVE RWInv'
  <2>1. /\ rwPc[p] = "idle" /\ writeHeld' = FALSE /\ UNCHANGED <<gate, reads, writes>>
        /\ rwPc' = [rwPc EXCEPT ![p] = IF writeHeld THEN "write-unlocking"
                                                   ELSE "read-unlocking"]
    BY <1>9 DEF RW!Unlock
  <2>2. IF writeHeld THEN p \in writes /\ writes = {p}
                     ELSE p \notin writes /\ reads[p] > 0
    BY <1>9 DEF RW!Unlock
  <2>3. RW!TypeOK'
    <3>1. rwPc' \in [Procs -> {"idle", "parked", "queueing", "pending", "stamping",
                              "write-unlocking", "read-unlocking"}]
      BY <2>1
    <3> QED BY <2>1, <3>1
  <2>4. RW!FlagExact'
    BY <2>1, <2>2
  <2> QED BY <2>1, <2>2, <2>3, <2>4
<1>10. ASSUME NEW p \in Procs, RW!WriteRelease(p) PROVE RWInv'
  BY <1>10 DEF RW!WriteRelease
<1>11. CASE UNCHANGED RW!vars
  BY <1>11 DEF RW!vars
<1> QED BY <1>1, <1>2, <1>3, <1>4, <1>5, <1>6, <1>7, <1>8, <1>9, <1>10, <1>11 DEF RW!Next

\* A writer is alone, and the one unlock of both modes, which decides by a flag
\* without knowing who calls, always releases the mode its caller holds
\* (posixsync/pthread.go:141-175).
THEOREM RWLockCorrect == RW!Spec => []RWLockSafe
<1>1. RW!Init => RWInv
  <2>1. 0 \in 0 .. MaxReads
    BY MCSyncAssumption DEF RW!RWLockConstants
  <2> QED BY <2>1 DEF RW!Init, RWInv, RWGated, RWInside, RW!TypeOK, RW!FlagExact
<1>2. RWInv => RWLockSafe
  BY DEF RWInv, RWGated, RWInside, RWLockSafe, RW!WriterAlone, RW!Writers, RW!Readers,
     RW!UnlockReleasesOwnMode, RW!TypeOK
<1> QED BY <1>1, <1>2, RWStep, PTL DEF RW!Spec

-----------------------------------------------------------------------------
(* The semaphore.                                                          *)

\* A waiter is queued, or Post has taken it out and filled its channel; tokens
\* are counted by the channels they fill.
SemInv ==
  /\ S!TypeOK /\ S!Conservation /\ S!NoStrandedWaiter /\ S!LateHasToken
  /\ IsInjective(semWaiters)
  /\ \A p \in Procs :
       /\ p \in ToSet(semWaiters) <=> semPc[p] \in {"blocked", "timed", "expired"} /\ ~inbox[p]
       /\ inbox[p] => semPc[p] # "idle"

LEMMA SemFacts ==
  ASSUME S!TypeOK
  PROVE  /\ DOMAIN inbox = Procs /\ DOMAIN semPc = Procs /\ DOMAIN semResult = Procs
         /\ semCount \in 0 .. MaxValue /\ semCount \in Nat /\ semWaiters \in Seq(Procs)
         /\ \A q \in Procs : inbox[q] \in BOOLEAN
         /\ initial \in 0 .. MaxValue /\ initial \in Nat /\ posts \in Nat /\ passed \in Nat
         /\ MaxValue \in Nat
<1>1. MaxValue \in Nat
  BY MCSyncAssumption DEF S!SemaphoreConstants
<1>2. \A q \in Procs : inbox[q] \in BOOLEAN
  BY DEF S!TypeOK
<1> QED BY <1>1, <1>2 DEF S!TypeOK

\* The channels a step fills and empties.
LEMMA InFlightFinite == IsFiniteSet(S!InFlight) /\ Cardinality(S!InFlight) \in Nat
<1>1. IsFiniteSet(Procs)
  BY MCSyncAssumption DEF S!SemaphoreConstants, S!IsFiniteSet, IsFiniteSet
<1> QED BY <1>1, FS_Subset, FS_CardinalityType DEF S!InFlight

LEMMA ChannelFilled ==
  ASSUME NEW p \in Procs, ~inbox[p], inbox'[p] = TRUE,
         \A q \in Procs : q # p => inbox'[q] = inbox[q]
  PROVE  Cardinality(S!InFlight') = Cardinality(S!InFlight) + 1
<1>1. S!InFlight' = S!InFlight \cup {p} /\ p \notin S!InFlight
  BY DEF S!InFlight
<1> QED BY <1>1, InFlightFinite, FS_AddElement

LEMMA ChannelEmptied ==
  ASSUME NEW p \in Procs, inbox[p], inbox'[p] = FALSE,
         \A q \in Procs : q # p => inbox'[q] = inbox[q]
  PROVE  Cardinality(S!InFlight') = Cardinality(S!InFlight) - 1
<1>1. S!InFlight' = S!InFlight \ {p} /\ p \in S!InFlight
  BY DEF S!InFlight
<1> QED BY <1>1, InFlightFinite, FS_RemoveElement

\* Conservation in terms of the library's Cardinality.
LEMMA Conserved ==
  S!Conservation <=> initial + posts = semCount + passed + Cardinality(S!InFlight)
BY DEF S!Conservation, S!Cardinality, Cardinality

LEMMA ConservedNext ==
  S!Conservation' <=> initial' + posts' = semCount' + passed' + Cardinality(S!InFlight')
BY DEF S!Conservation, S!Cardinality, Cardinality

LEMMA SemTakeToken ==
  ASSUME SemInv, NEW p \in Procs, S!TakeToken(p)
  PROVE  SemInv'
<1>1. /\ semPc[p] = "idle" /\ semCount > 0 /\ semCount' = semCount - 1
      /\ passed' = passed + 1 /\ semPc' = semPc
      /\ UNCHANGED <<semWaiters, inbox, initial, posts>>
  BY SemFacts DEF SemInv, S!TakeToken, S!Return, S!TypeOK
<1>2. S!TypeOK'
  BY <1>1, SemFacts DEF SemInv, S!TypeOK, S!TakeToken, S!Return, S!Results
<1>3. S!Conservation'
  <2>1. S!InFlight' = S!InFlight
    BY <1>1 DEF S!InFlight
  <2>2. initial' + posts' = semCount' + passed' + Cardinality(S!InFlight)
    BY <1>1, Conserved, SemFacts, InFlightFinite DEF SemInv
  <2> QED BY <2>1, <2>2, ConservedNext
<1>4. S!NoStrandedWaiter'
  BY <1>1, SemFacts DEF SemInv, S!NoStrandedWaiter
<1> QED BY <1>1, <1>2, <1>3, <1>4 DEF SemInv, S!LateHasToken

LEMMA SemTryWaitFails ==
  ASSUME SemInv, NEW p \in Procs, S!TryWaitFails(p)
  PROVE  SemInv'
<1>1. semPc' = semPc /\ UNCHANGED <<semCount, semWaiters, inbox, initial, posts, passed>>
  BY SemFacts DEF SemInv, S!TryWaitFails, S!Return, S!TypeOK
<1>2. S!TypeOK'
  BY <1>1 DEF SemInv, S!TypeOK, S!TryWaitFails, S!Return, S!Results
<1> QED BY <1>1, <1>2 DEF SemInv, S!LateHasToken, S!Conservation, S!InFlight, S!NoStrandedWaiter

LEMMA SemEnqueue ==
  ASSUME SemInv, NEW p \in Procs, NEW how \in {"blocked", "timed"}, S!Enqueue(p, how)
  PROVE  SemInv'
<1>1. /\ semPc[p] = "idle" /\ semPc'[p] = how /\ semCount = 0
      /\ \A q \in Procs : q # p => semPc'[q] = semPc[q]
      /\ semWaiters' = Append(semWaiters, p)
      /\ UNCHANGED <<semCount, inbox, semResult, initial, posts, passed>>
  BY SemFacts DEF SemInv, S!Enqueue
<1>2. p \notin ToSet(semWaiters) /\ ~inbox[p]
  BY <1>1 DEF SemInv
<1>3. /\ semWaiters' \in Seq(Procs) /\ IsInjective(semWaiters')
      /\ ToSet(semWaiters') = ToSet(semWaiters) \cup {p}
  BY <1>1, <1>2, SemFacts, Enqueued DEF SemInv
<1>4. S!TypeOK'
  BY <1>1, <1>3 DEF SemInv, S!TypeOK, S!Enqueue, S!States
<1>5. S!Conservation'
  BY <1>1 DEF SemInv, S!Conservation, S!InFlight
<1>6. S!NoStrandedWaiter' /\ S!LateHasToken'
  BY <1>1 DEF SemInv, S!NoStrandedWaiter, S!LateHasToken
<1> QED BY <1>1, <1>2, <1>3, <1>4, <1>5, <1>6 DEF SemInv

LEMMA SemReceive ==
  ASSUME SemInv, NEW p \in Procs, S!Receive(p)
  PROVE  SemInv'
<1>1. /\ inbox[p] /\ inbox'[p] = FALSE /\ semPc'[p] = "idle" /\ passed' = passed + 1
      /\ \A q \in Procs : q # p => inbox'[q] = inbox[q] /\ semPc'[q] = semPc[q]
      /\ UNCHANGED <<semCount, semWaiters, initial, posts>>
  BY SemFacts DEF SemInv, S!Receive, S!Return
<1>2. S!TypeOK'
  BY <1>1, SemFacts DEF SemInv, S!TypeOK, S!Receive, S!Return, S!States, S!Results
<1>3. S!Conservation'
  <2>1. Cardinality(S!InFlight') = Cardinality(S!InFlight) - 1
    BY <1>1, ChannelEmptied
  <2>2. initial' + posts' = semCount' + passed' + Cardinality(S!InFlight')
    BY <1>1, <2>1, Conserved, SemFacts, InFlightFinite DEF SemInv
  <2> QED BY <2>2, ConservedNext
<1>4. S!NoStrandedWaiter' /\ S!LateHasToken'
  BY <1>1 DEF SemInv, S!NoStrandedWaiter, S!LateHasToken
<1> QED BY <1>1, <1>2, <1>3, <1>4 DEF SemInv

LEMMA SemTimerFires ==
  ASSUME SemInv, NEW p \in Procs, S!TimerFires(p)
  PROVE  SemInv'
<1>1. /\ semPc[p] = "timed" /\ semPc'[p] = "expired"
      /\ \A q \in Procs : q # p => semPc'[q] = semPc[q]
      /\ UNCHANGED <<semCount, semWaiters, inbox, semResult, initial, posts, passed>>
  BY SemFacts DEF SemInv, S!TimerFires
<1>2. S!TypeOK'
  BY <1>1 DEF SemInv, S!TypeOK, S!TimerFires, S!States
<1> QED BY <1>1, <1>2 DEF SemInv, S!Conservation, S!InFlight, S!NoStrandedWaiter, S!LateHasToken

LEMMA SemExpire ==
  ASSUME SemInv, NEW p \in Procs, S!Expire(p)
  PROVE  SemInv'
<1>1. /\ semPc[p] = "expired"
      /\ \A q \in Procs : q # p => semPc'[q] = semPc[q]
      /\ UNCHANGED <<semCount, inbox, initial, posts, passed>>
  BY SemFacts DEF SemInv, S!Expire, S!Return
<1>2. S!Conservation'
  BY <1>1 DEF SemInv, S!Conservation, S!InFlight
<1>3. CASE p \in ToSet(semWaiters)
  <2>1. /\ semPc'[p] = "idle" /\ S!Dequeue(p) /\ S!Return(p, "timedout")
    BY <1>1, <1>3, SemFacts DEF SemInv, S!Expire, S!Return, S!Queued, S!ToSet, ToSet
  <2>2. PICK i \in DOMAIN semWaiters :
          semWaiters[i] = p /\ semWaiters' = RemoveAt(semWaiters, i)
    BY <2>1 DEF S!Dequeue, S!RemoveAt, RemoveAt
  <2>3. /\ semWaiters' \in Seq(Procs) /\ IsInjective(semWaiters')
        /\ ToSet(semWaiters') = ToSet(semWaiters) \ {p}
    BY <2>2, SemFacts, Removed DEF SemInv
  <2>4. semWaiters = <<>> => semWaiters' = <<>>
    BY <1>3, EmptyQueue
  <2>5. S!TypeOK'
    BY <1>1, <2>1, <2>3 DEF SemInv, S!TypeOK, S!Return, S!States, S!Results
  <2>6. S!NoStrandedWaiter' /\ S!LateHasToken'
    BY <1>1, <2>1, <2>4 DEF SemInv, S!NoStrandedWaiter, S!LateHasToken
  <2> QED BY <1>1, <1>2, <1>3, <2>1, <2>3, <2>5, <2>6 DEF SemInv
<1>4. CASE p \notin ToSet(semWaiters)
  <2>1. semPc'[p] = "late" /\ semPc' = [semPc EXCEPT ![p] = "late"]
        /\ UNCHANGED <<semWaiters, semResult>>
    BY <1>4, SemFacts DEF SemInv, S!Expire, S!Queued, S!ToSet, ToSet
  <2>2. inbox[p]
    BY <1>1, <1>4 DEF SemInv
  <2>3. S!TypeOK'
    BY <1>1, <2>1 DEF SemInv, S!TypeOK, S!States
  <2>4. S!NoStrandedWaiter' /\ S!LateHasToken'
    BY <1>1, <2>1, <2>2 DEF SemInv, S!NoStrandedWaiter, S!LateHasToken
  <2> QED BY <1>1, <1>2, <2>1, <2>2, <2>3, <2>4 DEF SemInv
<1> QED BY <1>3, <1>4

\* The waiter Post takes out of the queue is the one whose channel it fills.
LEMMA SemPost ==
  ASSUME SemInv, NEW p \in Procs, S!Post(p)
  PROVE  SemInv'
<1>1. semPc' = semPc /\ UNCHANGED <<initial, passed>>
  BY SemFacts DEF SemInv, S!Post, S!Return, S!TypeOK
<1>2. semPc' \in [Procs -> S!States] /\ semResult' \in [Procs -> S!Results]
  BY DEF SemInv, S!Post, S!Return, S!TypeOK, S!States, S!Results
<1>3. CASE semWaiters # <<>>
  <2>1. /\ inbox' = [inbox EXCEPT ![Head(semWaiters)] = TRUE]
        /\ semWaiters' = Tail(semWaiters) /\ posts' = posts + 1 /\ semCount' = semCount
    BY <1>3 DEF S!Post
  <2>2. PICK h : h = Head(semWaiters)
    OBVIOUS
  <2>3. /\ h \in ToSet(semWaiters) /\ semWaiters' \in Seq(Procs) /\ IsInjective(semWaiters')
        /\ ToSet(semWaiters') = ToSet(semWaiters) \ {h}
    BY <1>3, <2>1, <2>2, SemFacts, Dequeued DEF SemInv
  <2>4. h \in Procs /\ ~inbox[h] /\ semPc[h] \in {"blocked", "timed", "expired"}
    BY <2>3, SemFacts, QueueMembers DEF SemInv
  <2>5. inbox'[h] = TRUE /\ \A q \in Procs : q # h => inbox'[q] = inbox[q]
    BY <2>1, <2>2, <2>4, SemFacts DEF SemInv
  <2>6. S!TypeOK'
    BY <1>1, <1>2, <2>1, <2>3, SemFacts DEF SemInv, S!TypeOK
  <2>7. S!Conservation'
    <3>1. Cardinality(S!InFlight') = Cardinality(S!InFlight) + 1
      BY <2>4, <2>5, ChannelFilled
    <3>2. initial + posts = semCount + passed + Cardinality(S!InFlight)
      BY Conserved DEF SemInv
    <3>3. /\ initial \in Nat /\ posts \in Nat /\ semCount \in Nat /\ passed \in Nat
          /\ Cardinality(S!InFlight) \in Nat
      BY SemFacts, InFlightFinite DEF SemInv
    <3>4. initial' + posts' = semCount' + passed' + Cardinality(S!InFlight')
      BY <1>1, <2>1, <3>1, <3>2, <3>3
    <3> QED BY <3>4, ConservedNext
  <2>8. S!NoStrandedWaiter' /\ S!LateHasToken'
    BY <1>1, <1>3, <2>1, <2>5 DEF SemInv, S!NoStrandedWaiter, S!LateHasToken
  <2> QED BY <1>1, <2>3, <2>4, <2>5, <2>6, <2>7, <2>8 DEF SemInv
<1>4. CASE semWaiters = <<>>
  <2>1. /\ UNCHANGED <<inbox, semWaiters>>
        /\ \/ semCount < MaxValue /\ semCount' = semCount + 1 /\ posts' = posts + 1
           \/ UNCHANGED <<semCount, posts>>
    BY <1>4 DEF S!Post
  <2>2. S!TypeOK'
    BY <1>1, <1>2, <2>1, SemFacts DEF SemInv, S!TypeOK
  <2>3. S!Conservation'
    <3>1. S!InFlight' = S!InFlight
      BY <2>1 DEF S!InFlight
    <3>2. initial + posts = semCount + passed + Cardinality(S!InFlight)
      BY Conserved DEF SemInv
    <3>3. /\ initial \in Nat /\ posts \in Nat /\ semCount \in Nat /\ passed \in Nat
          /\ Cardinality(S!InFlight) \in Nat
      BY SemFacts, InFlightFinite DEF SemInv
    <3>4. initial' + posts' = semCount' + passed' + Cardinality(S!InFlight')
      BY <1>1, <2>1, <3>1, <3>2, <3>3
    <3> QED BY <3>4, ConservedNext
  <2> QED BY <1>1, <1>4, <2>1, <2>2, <2>3 DEF SemInv, S!NoStrandedWaiter, S!LateHasToken
<1> QED BY <1>3, <1>4

LEMMA SemStep == SemInv /\ [S!Next]_(S!vars) => SemInv'
<1> SUFFICES ASSUME SemInv, [S!Next]_(S!vars) PROVE SemInv'
  OBVIOUS
<1>1. ASSUME NEW p \in Procs, \/ S!TakeToken(p) \/ S!TryWaitFails(p) \/ S!Enqueue(p, "blocked")
                              \/ S!Enqueue(p, "timed") \/ S!Progress(p) \/ S!Post(p)
      PROVE  SemInv'
  BY <1>1, SemTakeToken, SemTryWaitFails, SemEnqueue, SemReceive, SemTimerFires, SemExpire,
     SemPost DEF S!Progress
<1>2. CASE UNCHANGED S!vars
  BY <1>2 DEF SemInv, S!vars, S!TypeOK, S!Conservation, S!InFlight, S!NoStrandedWaiter,
              S!LateHasToken
<1> QED BY <1>1, <1>2 DEF S!Next

\* Only Post fills a channel, that of the oldest waiter.
LEMMA SemOrder ==
  ASSUME SemInv, [S!Next]_(S!vars), NEW j \in DOMAIN semWaiters, NEW k \in DOMAIN semWaiters,
         j < k, inbox'[semWaiters[k]]
  PROVE  semWaiters[j] \notin ToSet(semWaiters')
<1>1. semWaiters[k] \in Procs /\ ~inbox[semWaiters[k]]
  <2>1. semWaiters[k] \in ToSet(semWaiters)
    BY DEF ToSet
  <2> QED BY <2>1, SemFacts, QueueMembers DEF SemInv
<1>2. PICK p \in Procs : S!Post(p)
  <2>1. ASSUME inbox' = inbox PROVE FALSE
    BY <1>1, <2>1
  <2>2. ASSUME NEW p \in Procs, S!Receive(p) PROVE FALSE
    BY <1>1, <2>2, SemFacts DEF SemInv, S!Receive
  <2> QED BY <2>1, <2>2 DEF S!Next, S!vars, S!Progress, S!TakeToken, S!TryWaitFails, S!Enqueue,
                            S!TimerFires, S!Expire
<1>3. semWaiters # <<>> /\ inbox' = [inbox EXCEPT ![Head(semWaiters)] = TRUE]
  BY <1>1, <1>2 DEF S!Post
<1>4. semWaiters[k] = Head(semWaiters)
  BY <1>1, <1>3, SemFacts DEF SemInv
<1>5. /\ DOMAIN semWaiters = 1 .. Len(semWaiters) /\ Len(semWaiters) \in Nat
      /\ Head(semWaiters) = semWaiters[1] /\ Len(semWaiters) >= 1
  BY <1>3, SemFacts, QueueMembers, HeadTailProperties DEF SemInv
<1>6. k = 1
  BY <1>4, <1>5 DEF SemInv, IsInjective
<1> QED BY <1>5, <1>6

\* No token is lost, made up, banked past a waiter or sent to one that has
\* left, and tokens go out in arrival order (semaphore.go).
THEOREM SemaphoreCorrect == S!Spec => SemaphoreSafe
<1>1. S!Init => SemInv
  <2> SUFFICES ASSUME S!Init PROVE SemInv
    OBVIOUS
  <2>1. <<>> \in Seq(Procs) /\ IsInjective(<<>>) /\ ToSet(<<>>) = {}
    BY EmptyQueue
  <2>2. S!TypeOK
    BY <2>1 DEF S!Init, S!TypeOK, S!States, S!Results
  <2>3. S!Conservation
    <3>1. S!InFlight = {}
      BY DEF S!Init, S!InFlight
    <3>2. initial + posts = semCount + passed + Cardinality(S!InFlight)
      BY <2>2, <3>1, FS_EmptySet, SemFacts DEF S!Init
    <3> QED BY <3>2, Conserved
  <2> QED BY <2>1, <2>2, <2>3 DEF SemInv, S!Init, S!NoStrandedWaiter, S!LateHasToken
<1>2. SemInv => S!QueueExact
  <2> SUFFICES ASSUME SemInv PROVE S!QueueExact
    OBVIOUS
  <2>1. \A j, k \in DOMAIN semWaiters : j # k => semWaiters[j] # semWaiters[k]
    BY DEF SemInv, IsInjective
  <2>2. \A p \in Procs :
          p \in S!Queued <=> semPc[p] \in {"blocked", "timed", "expired"} /\ ~inbox[p]
    BY DEF SemInv, S!Queued, S!ToSet, ToSet
  <2> QED BY <2>1, <2>2 DEF S!QueueExact
<1>3. SemInv /\ [S!Next]_(S!vars) =>
        [\A j, k \in DOMAIN semWaiters :
           (j < k /\ inbox'[semWaiters[k]]) => semWaiters[j] \notin S!ToSet(semWaiters')]_(S!vars)
  BY SemOrder DEF S!ToSet, ToSet
<1>4. SemInv => S!TypeOK /\ S!Conservation /\ S!NoStrandedWaiter /\ S!LateHasToken
  BY DEF SemInv
<1> QED BY SemStep, <1>1, <1>2, <1>3, <1>4, PTL DEF S!Spec, SemaphoreSafe, S!FirstComeFirstServed

-----------------------------------------------------------------------------
(* The locks of stdio.                                                     *)

\* p is at work on f under f's lock, in a call of its own or on its walk; how
\* often p has f's lock.
FileBusy(p, f) ==
  \/ filePc[p] = "locked" /\ arg[p] = f
  \/ filePc[p] = "visiting" /\ Head(todo[p]) = f

FileDepth(p, f) ==
  IF region[p] = f THEN IF FileBusy(p, f) THEN 2 ELSE 1
  ELSE IF FileBusy(p, f) THEN 1 ELSE 0

\* The owner and the count of a lock are what its holder has taken.
FilesHeld ==
  \A f \in Files :
    /\ fileOwner[f] = NoOwner => fileCount[f] = 0
    /\ \A p \in Procs :
         /\ FileDepth(p, f) > 0 => fileOwner[f] = p
         /\ fileOwner[f] = p => fileCount[f] = FileDepth(p, f) /\ fileCount[f] > 0

\* The file of a call, and that a stream stays open for its call and region.
FilesCalls ==
  \A p \in Procs :
    /\ filePc[p] \in {"idle", "listing", "walking", "visiting"} <=> arg[p] = NoOwner
    /\ filePc[p] = "idle" => op[p] = "none"
    /\ filePc[p] \in {"locking", "locked"} =>
         /\ op[p] \in {"write", "flush", "close", "hold"} /\ life[arg[p]] = "open"
         /\ op[p] \in {"close", "hold"} => region[p] = NoOwner
         /\ region[p] \in {NoOwner, arg[p]}
    /\ filePc[p] \in {"unlinking", "freeing"} => op[p] = "close" /\ life[arg[p]] = "closed"
    /\ filePc[p] = "adding" => op[p] = "open" /\ life[arg[p]] = "free"
    /\ filePc[p] \in {"listing", "walking", "visiting"} => op[p] = "flushall"
    /\ region[p] # NoOwner => life[region[p]] = "open"

\* A stream that is being opened or closed is nobody else's business.
FilesAlone ==
  \A p \in Procs : op[p] \in {"open", "close"} =>
    \A q \in Procs : region[q] # arg[p] /\ (q # p => arg[q] # arg[p])

\* The list holds the open streams and those about to be unlinked, once each.
Unlinking(f) == \E p \in Procs : filePc[p] = "unlinking" /\ arg[p] = f

FilesListed ==
  /\ IsInjective(ofl)
  /\ \A f \in Files : f \in ToSet(ofl) <=> life[f] = "open" \/ Unlinking(f)

\* What a walk has before it is on the list, and covers what was to be flushed.
FilesWalks ==
  /\ \A f \in Files : life[f] # "open" => ~dirty[f]
  /\ \A p \in Procs :
       /\ filePc[p] \in {"walking", "visiting"} <=> oflMu = p
       /\ oflMu = p => ToSet(todo[p]) \subseteq ToSet(ofl) /\ due[p] \subseteq ToSet(todo[p])
       /\ filePc[p] = "visiting" => todo[p] # <<>>
       /\ \A f \in due[p] : dirty[f]

FilesInv ==
  L!TypeOK /\ FilesHeld /\ FilesCalls /\ FilesAlone /\ FilesListed /\ FilesWalks

\* What L!TypeOK says of single goroutines and files.
LEMMA FileDomains ==
  ASSUME L!TypeOK
  PROVE  /\ DOMAIN filePc = Procs /\ DOMAIN op = Procs /\ DOMAIN arg = Procs
         /\ DOMAIN todo = Procs /\ DOMAIN region = Procs /\ DOMAIN due = Procs
         /\ DOMAIN life = Files /\ DOMAIN dirty = Files
         /\ DOMAIN fileOwner = Files /\ DOMAIN fileCount = Files
         /\ NoOwner \notin Procs /\ NoOwner \notin Files
BY MCSyncAssumption DEF L!TypeOK, L!StdioLocksConstants

LEMMA FileTypes ==
  ASSUME L!TypeOK
  PROVE  /\ \A q \in Procs : arg[q] \in Files \cup {NoOwner} /\ region[q] \in Files \cup {NoOwner}
         /\ \A q \in Procs : filePc[q] \in {"idle", "locking", "locked", "unlinking", "freeing",
                                          "adding", "listing", "walking", "visiting"}
         /\ \A f \in Files : fileOwner[f] \in Procs \cup {NoOwner} /\ fileCount[f] \in Nat
<1>1. \A q \in Procs : arg[q] \in Files \cup {NoOwner} /\ region[q] \in Files \cup {NoOwner}
  BY DEF L!TypeOK
<1>2. \A f \in Files : fileOwner[f] \in Procs \cup {NoOwner}
  BY DEF L!TypeOK
<1>3. \A f \in Files : fileCount[f] \in 0 .. 2
  BY DEF L!TypeOK
<1>4. \A i \in 0 .. 2 : i \in Nat
  OBVIOUS
<1>5. \A q \in Procs : filePc[q] \in {"idle", "locking", "locked", "unlinking", "freeing",
                                   "adding", "listing", "walking", "visiting"}
  BY DEF L!TypeOK
<1> QED BY <1>1, <1>2, <1>3, <1>4, <1>5

LEMMA FileLists ==
  ASSUME L!TypeOK
  PROVE  /\ ofl \in Seq(Files) /\ ToSet(ofl) \subseteq Files
         /\ \A q \in Procs : todo[q] \in Seq(Files) /\ due[q] \subseteq Files
<1>1. ofl \in Seq(Files)
  BY DEF L!TypeOK
<1>2. \A q \in Procs : todo[q] \in Seq(Files) /\ due[q] \subseteq Files
  BY DEF L!TypeOK
<1> QED BY <1>1, <1>2, QueueMembers

\* The file a goroutine works on.
LEMMA FileOfCall ==
  ASSUME FilesInv, NEW p \in Procs
  PROVE  /\ filePc[p] \in {"locking", "locked", "unlinking", "freeing", "adding"} => arg[p] \in Files
         /\ filePc[p] \in {"walking", "visiting"} /\ todo[p] # <<>> =>
              Head(todo[p]) \in Files /\ Head(todo[p]) \in ToSet(ofl)
         /\ filePc[p] = "visiting" => todo[p] # <<>>
<1>1. filePc[p] \in {"locking", "locked", "unlinking", "freeing", "adding"} => arg[p] \in Files
  BY FileTypes DEF FilesInv, FilesCalls
<1>2. filePc[p] \in {"walking", "visiting"} /\ todo[p] # <<>> =>
        Head(todo[p]) \in Files /\ Head(todo[p]) \in ToSet(ofl)
  <2> SUFFICES ASSUME filePc[p] \in {"walking", "visiting"}, todo[p] # <<>>
               PROVE  Head(todo[p]) \in Files /\ Head(todo[p]) \in ToSet(ofl)
    OBVIOUS
  <2>1. todo[p] \in Seq(Files) /\ ToSet(todo[p]) \subseteq ToSet(ofl)
    BY FileLists DEF FilesInv, FilesWalks
  <2> QED BY <2>1, Walked
<1>3. filePc[p] = "visiting" => todo[p] # <<>>
  BY DEF FilesInv, FilesWalks
<1> QED BY <1>1, <1>2, <1>3

\* The list stays as it is when the same streams belong on it.
LEMMA ListedKept ==
  ASSUME FilesListed, ofl' = ofl,
         \A f \in Files : life'[f] = "open" \/ Unlinking(f)' <=> life[f] = "open" \/ Unlinking(f)
  PROVE  FilesListed'
BY DEF FilesListed

\* fclose has closed the stream: nobody has its lock, nor can get it.
LEMMA Dropped ==
  ASSUME FilesInv, NEW p \in Procs, filePc[p] = "freeing"
  PROVE  /\ \A q \in Procs : FileDepth(q, arg[p]) = 0
         /\ fileOwner[arg[p]] = NoOwner
<1>0. arg[p] \in Files /\ op[p] = "close" /\ life[arg[p]] = "closed"
  BY FileOfCall DEF FilesInv, FilesCalls
<1>1. arg[p] \notin ToSet(ofl)
  BY <1>0 DEF FilesInv, FilesListed, Unlinking, FilesAlone
<1>2. ASSUME NEW q \in Procs PROVE FileDepth(q, arg[p]) = 0
  <2>1. region[q] # arg[p] /\ ~(filePc[q] = "locked" /\ arg[q] = arg[p])
    BY <1>0 DEF FilesInv, FilesAlone
  <2>2. ~(filePc[q] = "visiting" /\ Head(todo[q]) = arg[p])
    BY <1>1, FileOfCall
  <2> QED BY <2>1, <2>2 DEF FileDepth, FileBusy
<1>3. fileOwner[arg[p]] = NoOwner
  BY <1>0, <1>2, FileTypes DEF FilesInv, FilesHeld
<1> QED BY <1>2, <1>3

LEMMA DepthRange ==
  \A q, f : FileDepth(q, f) \in Nat /\ FileDepth(q, f) <= 2
            /\ (~FileBusy(q, f) => FileDepth(q, f) <= 1)
BY DEF FileDepth

\* Lock.Lock and Lock.Unlock, and the calls that do neither, keep the count.
LEMMA HeldKept ==
  ASSUME FilesHeld, UNCHANGED <<fileOwner, fileCount>>,
         \A q \in Procs : \A f \in Files : FileDepth(q, f)' = FileDepth(q, f)
  PROVE  FilesHeld'
BY DEF FilesHeld

LEMMA HeldTaken ==
  ASSUME L!TypeOK, FilesHeld, NEW p \in Procs, NEW f \in Files, L!Take(p, f),
         ~FileBusy(p, f), FileDepth(p, f)' = FileDepth(p, f) + 1,
         \A q \in Procs : \A g \in Files :
           q # p \/ g # f => FileDepth(q, g)' = FileDepth(q, g)
  PROVE  /\ FilesHeld'
         /\ fileOwner' \in [Files -> Procs \cup {NoOwner}] /\ fileCount' \in [Files -> 0 .. 2]
<1>1. /\ fileOwner[f] \in {NoOwner, p} /\ fileOwner'[f] = p /\ fileCount'[f] = fileCount[f] + 1
      /\ \A g \in Files : g # f => fileOwner'[g] = fileOwner[g] /\ fileCount'[g] = fileCount[g]
      /\ NoOwner \notin Procs
  BY FileDomains, FileTypes DEF L!Take, L!Free
<1>2. fileCount[f] = FileDepth(p, f) /\ FileDepth(p, f) \in 0 .. 1
  BY <1>1, DepthRange DEF FilesHeld
<1>3. \A q \in Procs : q # p => FileDepth(q, f) = 0
  BY <1>1, DepthRange DEF FilesHeld
<1>4. FilesHeld'
  BY <1>1, <1>2, <1>3, DepthRange DEF FilesHeld
<1>5. fileCount[f] + 1 \in 0 .. 2
  BY <1>2
<1> QED BY <1>4, <1>5 DEF L!TypeOK, L!Take

LEMMA HeldGiven ==
  ASSUME L!TypeOK, FilesHeld, NEW p \in Procs, NEW f \in Files, L!GiveBack(f),
         FileDepth(p, f) > 0, FileDepth(p, f)' = FileDepth(p, f) - 1,
         \A q \in Procs : \A g \in Files :
           q # p \/ g # f => FileDepth(q, g)' = FileDepth(q, g)
  PROVE  /\ FilesHeld'
         /\ fileOwner' \in [Files -> Procs \cup {NoOwner}] /\ fileCount' \in [Files -> 0 .. 2]
<1>1. /\ fileCount'[f] = fileCount[f] - 1
      /\ fileOwner'[f] = IF fileCount[f] = 1 THEN NoOwner ELSE fileOwner[f]
      /\ \A g \in Files : g # f => fileOwner'[g] = fileOwner[g] /\ fileCount'[g] = fileCount[g]
      /\ NoOwner \notin Procs
  BY FileDomains, FileTypes DEF L!GiveBack
<1>2. fileOwner[f] = p /\ fileCount[f] = FileDepth(p, f) /\ FileDepth(p, f) \in 1 .. 2
  BY DepthRange DEF FilesHeld
<1>3. \A q \in Procs : q # p => FileDepth(q, f) = 0
  BY <1>2, DepthRange DEF FilesHeld
<1>4. FilesHeld'
  BY <1>1, <1>2, <1>3, DepthRange DEF FilesHeld
<1>5. fileCount[f] - 1 \in 0 .. 2
  BY <1>2
<1> QED BY <1>4, <1>5 DEF L!TypeOK, L!GiveBack

\* A call finds its stream open, and nobody closing it.
LEMMA FileCallOn ==
  ASSUME FilesInv, NEW p \in Procs, NEW f \in Files,
         NEW o \in {"write", "flush", "close", "hold"}, L!CallOn(p, f, o)
  PROVE  FilesInv'
<1>1. /\ filePc[p] = "idle" /\ filePc'[p] = "locking" /\ op'[p] = o /\ arg'[p] = f
      /\ life[f] = "open" /\ o \in {"write", "flush", "close", "hold"}
      /\ \A q \in Procs : q # p => filePc'[q] = filePc[q] /\ op'[q] = op[q] /\ arg'[q] = arg[q]
      /\ o \in {"close", "hold"} => region[p] = NoOwner
      /\ region[p] \in {NoOwner, f}
      /\ o = "close" => \A q \in Procs : region[q] # f /\ (q # p => arg[q] # f)
      /\ \A q \in Procs : ~(arg[q] = f /\ op[q] = "close")
      /\ UNCHANGED <<ofl, oflMu, life, dirty, fileOwner, fileCount, todo, due, region>>
  BY FileDomains DEF FilesInv, L!CallOn, L!Goto, L!InRegion, L!Allowed
<1>2. FilesCalls'
  BY <1>1, FileDomains, FileTypes DEF FilesInv, FilesCalls, FilesAlone
<1>3. FilesAlone'
  <2>1. \A q \in Procs : region'[q] = region[q]
    BY <1>1
  <2>2. ASSUME NEW q \in Procs, op'[q] \in {"open", "close"}, q = p
        PROVE  \A r \in Procs : region'[r] # arg'[q] /\ (r # q => arg'[r] # arg'[q])
    BY <1>1, <2>1, <2>2
  <2>3. ASSUME NEW q \in Procs, op'[q] \in {"open", "close"}, q # p
        PROVE  \A r \in Procs : region'[r] # arg'[q] /\ (r # q => arg'[r] # arg'[q])
    <3>1. op[q] \in {"open", "close"} /\ arg'[q] = arg[q]
      BY <1>1, <2>3
    <3>2. arg[q] # f
      BY <1>1, <3>1, FileTypes DEF FilesInv, FilesCalls
    <3> QED BY <1>1, <2>1, <2>3, <3>1, <3>2 DEF FilesInv, FilesAlone
  <2> QED BY <2>2, <2>3 DEF FilesAlone
<1>4. FilesListed'
  BY <1>1, ListedKept DEF FilesInv, Unlinking, FilesCalls, FilesAlone
<1>5. FilesWalks'
  BY <1>1, FileDomains, FileTypes DEF FilesInv, FilesWalks, FilesCalls, FilesListed
<1>6. FilesHeld'
  BY <1>1, FileDomains, FileTypes, HeldKept DEF FilesInv, FilesCalls, FileDepth, FileBusy
<1>7. L!TypeOK'
  BY <1>1, FileDomains, FileTypes DEF FilesInv, L!CallOn, L!TypeOK, L!Goto, L!Done
<1> QED BY <1>2, <1>3, <1>4, <1>5, <1>6, <1>7 DEF FilesInv

LEMMA FileLocked ==
  ASSUME FilesInv, NEW p \in Procs, L!Locked(p)
  PROVE  FilesInv'
<1>0. arg[p] \in Files
  BY FileOfCall DEF L!Locked
<1>1. /\ filePc[p] = "locking" /\ filePc'[p] = "locked"
      /\ \A q \in Procs : q # p => filePc'[q] = filePc[q]
      /\ UNCHANGED <<ofl, oflMu, life, dirty, op, arg, todo, due, region>>
  BY <1>0, FileDomains DEF FilesInv, L!Locked, L!Goto
<1>2. FilesCalls'
  BY <1>0, <1>1, FileDomains, FileTypes DEF FilesInv, FilesCalls, FilesAlone
<1>3. FilesAlone'
  BY <1>0, <1>1, FileDomains, FileTypes DEF FilesInv, FilesAlone, FilesCalls
<1>4. FilesListed'
  BY <1>0, <1>1, ListedKept DEF FilesInv, Unlinking, FilesCalls, FilesAlone
<1>5. FilesWalks'
  BY <1>0, <1>1, FileDomains, FileTypes DEF FilesInv, FilesWalks, FilesCalls, FilesListed
<1>6. /\ ~FileBusy(p, arg[p]) /\ FileDepth(p, arg[p])' = FileDepth(p, arg[p]) + 1
      /\ \A q \in Procs : \A g \in Files :
           q # p \/ g # arg[p] => FileDepth(q, g)' = FileDepth(q, g)
  BY <1>0, <1>1, FileDomains, FileTypes DEF FilesInv, FilesCalls, FileDepth, FileBusy
<1>7. /\ FilesHeld'
      /\ fileOwner' \in [Files -> Procs \cup {NoOwner}] /\ fileCount' \in [Files -> 0 .. 2]
  BY <1>0, <1>6, HeldTaken DEF FilesInv, L!Locked
<1>8. L!TypeOK'
  BY <1>0, <1>1, <1>7, FileDomains, FileTypes
     DEF FilesInv, L!Locked, L!TypeOK, L!Goto, L!Done, L!Written
<1> QED BY <1>2, <1>3, <1>4, <1>5, <1>7, <1>8 DEF FilesInv

LEMMA FileWrite ==
  ASSUME FilesInv, NEW p \in Procs, L!Write(p)
  PROVE  FilesInv'
<1>0. PICK f \in Files : arg[p] = f
  BY FileOfCall DEF L!Write
<1>1. /\ filePc[p] = "locked" /\ op[p] = "write" /\ filePc'[p] = "idle"
      /\ op'[p] = "none" /\ arg'[p] = NoOwner
      /\ \A q \in Procs : q # p => filePc'[q] = filePc[q] /\ op'[q] = op[q] /\ arg'[q] = arg[q]
      /\ \A g \in Files : g # arg[p] => dirty'[g] = dirty[g]
      /\ dirty[f] => dirty'[f]
      /\ UNCHANGED <<ofl, oflMu, life, todo, due, region>>
  BY <1>0, FileDomains DEF FilesInv, L!Write, L!Goto, L!Done
<1>2. FilesCalls'
  BY <1>0, <1>1, FileDomains, FileTypes DEF FilesInv, FilesCalls, FilesAlone
<1>3. FilesAlone'
  BY <1>0, <1>1, FileDomains, FileTypes DEF FilesInv, FilesAlone, FilesCalls
<1>4. FilesListed'
  BY <1>0, <1>1, ListedKept DEF FilesInv, Unlinking, FilesCalls, FilesAlone
<1>5. FilesWalks'
  <2>1. \A g \in Files : life'[g] # "open" => ~dirty'[g]
    BY <1>0, <1>1 DEF FilesInv, FilesWalks, FilesCalls
  <2>2. ASSUME NEW q \in Procs
        PROVE  filePc'[q] \in {"walking", "visiting"} <=> oflMu' = q
    BY <1>1 DEF FilesInv, FilesWalks
  <2>3. ASSUME NEW q \in Procs, oflMu' = q
        PROVE  ToSet(todo'[q]) \subseteq ToSet(ofl') /\ due'[q] \subseteq ToSet(todo'[q])
    BY <1>1, <2>3 DEF FilesInv, FilesWalks
  <2>4. ASSUME NEW q \in Procs, filePc'[q] = "visiting" PROVE todo'[q] # <<>>
    BY <1>1, <2>4 DEF FilesInv, FilesWalks
  <2>5. ASSUME NEW q \in Procs, NEW g \in due'[q] PROVE dirty'[g]
    BY <1>0, <1>1, FileLists DEF FilesInv, FilesWalks
  <2> QED BY <2>1, <2>2, <2>3, <2>4, <2>5 DEF FilesWalks
<1>6. /\ FileDepth(p, f) > 0 /\ FileDepth(p, f)' = FileDepth(p, f) - 1
      /\ \A q \in Procs : \A g \in Files :
           q # p \/ g # f => FileDepth(q, g)' = FileDepth(q, g)
  BY <1>0, <1>1, FileDomains, FileTypes DEF FilesInv, FilesCalls, FileDepth, FileBusy
<1>7. /\ FilesHeld'
      /\ fileOwner' \in [Files -> Procs \cup {NoOwner}] /\ fileCount' \in [Files -> 0 .. 2]
  BY <1>0, <1>6, HeldGiven DEF FilesInv, L!Write
<1>8. L!TypeOK'
  BY <1>0, <1>1, <1>7, FileDomains, FileTypes, ZenonT(60)
     DEF FilesInv, L!Write, L!TypeOK, L!Goto, L!Done, L!Written
<1> QED BY <1>2, <1>3, <1>4, <1>5, <1>7, <1>8 DEF FilesInv

LEMMA FileFlush ==
  ASSUME FilesInv, NEW p \in Procs, L!Flush(p)
  PROVE  FilesInv'
<1>0. PICK f \in Files : arg[p] = f
  BY FileOfCall DEF L!Flush
<1>1. /\ filePc[p] = "locked" /\ op[p] = "flush" /\ filePc'[p] = "idle"
      /\ op'[p] = "none" /\ arg'[p] = NoOwner
      /\ \A q \in Procs : q # p => filePc'[q] = filePc[q] /\ op'[q] = op[q] /\ arg'[q] = arg[q]
      /\ ~dirty'[f] /\ \A g \in Files : g # arg[p] => dirty'[g] = dirty[g]
      /\ \A q \in Procs : due'[q] = due[q] \ {f}
      /\ UNCHANGED <<ofl, oflMu, life, todo, region>>
  BY <1>0, FileDomains DEF FilesInv, L!Flush, L!Goto, L!Done, L!Written
<1>2. FilesCalls'
  BY <1>0, <1>1, FileDomains, FileTypes DEF FilesInv, FilesCalls, FilesAlone
<1>3. FilesAlone'
  BY <1>0, <1>1, FileDomains, FileTypes DEF FilesInv, FilesAlone, FilesCalls
<1>4. FilesListed'
  BY <1>0, <1>1, ListedKept DEF FilesInv, Unlinking, FilesCalls, FilesAlone
<1>5. FilesWalks'
  <2>1. \A g \in Files : life'[g] # "open" => ~dirty'[g]
    BY <1>0, <1>1 DEF FilesInv, FilesWalks
  <2>2. ASSUME NEW q \in Procs
        PROVE  filePc'[q] \in {"walking", "visiting"} <=> oflMu' = q
    BY <1>1 DEF FilesInv, FilesWalks
  <2>3. ASSUME NEW q \in Procs, oflMu' = q
        PROVE  ToSet(todo'[q]) \subseteq ToSet(ofl') /\ due'[q] \subseteq ToSet(todo'[q])
    BY <1>1, <2>3 DEF FilesInv, FilesWalks
  <2>4. ASSUME NEW q \in Procs, filePc'[q] = "visiting" PROVE todo'[q] # <<>>
    BY <1>1, <2>4 DEF FilesInv, FilesWalks
  <2>5. ASSUME NEW q \in Procs, NEW g \in due'[q] PROVE dirty'[g]
    BY <1>0, <1>1, FileLists DEF FilesInv, FilesWalks
  <2> QED BY <2>1, <2>2, <2>3, <2>4, <2>5 DEF FilesWalks
<1>6. /\ FileDepth(p, f) > 0 /\ FileDepth(p, f)' = FileDepth(p, f) - 1
      /\ \A q \in Procs : \A g \in Files :
           q # p \/ g # f => FileDepth(q, g)' = FileDepth(q, g)
  BY <1>0, <1>1, FileDomains, FileTypes DEF FilesInv, FilesCalls, FileDepth, FileBusy
<1>7. /\ FilesHeld'
      /\ fileOwner' \in [Files -> Procs \cup {NoOwner}] /\ fileCount' \in [Files -> 0 .. 2]
  BY <1>0, <1>6, HeldGiven DEF FilesInv, L!Flush
<1>8. L!TypeOK'
  BY <1>0, <1>1, <1>7, FileDomains, FileTypes, ZenonT(60)
     DEF FilesInv, L!Flush, L!TypeOK, L!Goto, L!Done, L!Written
<1> QED BY <1>2, <1>3, <1>4, <1>5, <1>7, <1>8 DEF FilesInv

\* The lock of the call becomes the lock of the region.
LEMMA FileFlockReturns ==
  ASSUME FilesInv, NEW p \in Procs, L!FlockReturns(p)
  PROVE  FilesInv'
<1>0. arg[p] \in Files
  BY FileOfCall DEF L!FlockReturns
<1>1. /\ filePc[p] = "locked" /\ op[p] = "hold" /\ region'[p] = arg[p]
      /\ filePc'[p] = "idle" /\ op'[p] = "none" /\ arg'[p] = NoOwner
      /\ \A q \in Procs : q # p => filePc'[q] = filePc[q] /\ op'[q] = op[q] /\ arg'[q] = arg[q]
      /\ \A q \in Procs : q # p => region'[q] = region[q]
      /\ UNCHANGED <<ofl, oflMu, life, dirty, fileOwner, fileCount, todo, due>>
  BY <1>0, FileDomains DEF FilesInv, L!FlockReturns, L!Goto, L!Done
<1>2. FilesCalls'
  BY <1>0, <1>1, FileDomains, FileTypes DEF FilesInv, FilesCalls, FilesAlone
<1>3. FilesAlone'
  BY <1>0, <1>1, FileDomains, FileTypes DEF FilesInv, FilesAlone, FilesCalls
<1>4. FilesListed'
  BY <1>0, <1>1, ListedKept DEF FilesInv, Unlinking, FilesCalls, FilesAlone
<1>5. FilesWalks'
  BY <1>0, <1>1, FileDomains, FileTypes DEF FilesInv, FilesWalks, FilesCalls, FilesListed
<1>6. FilesHeld'
  BY <1>0, <1>1, FileDomains, FileTypes, HeldKept DEF FilesInv, FilesCalls, FileDepth, FileBusy
<1>7. L!TypeOK'
  BY <1>0, <1>1, FileDomains, FileTypes DEF FilesInv, L!FlockReturns, L!TypeOK, L!Goto, L!Done
<1> QED BY <1>2, <1>3, <1>4, <1>5, <1>6, <1>7 DEF FilesInv

LEMMA FileFunlockFile ==
  ASSUME FilesInv, NEW p \in Procs, NEW f \in Files, L!FunlockFile(p, f)
  PROVE  FilesInv'
<1>1. /\ filePc[p] = "idle" /\ region[p] = f /\ region'[p] = NoOwner
      /\ \A q \in Procs : q # p => region'[q] = region[q]
      /\ UNCHANGED <<ofl, oflMu, life, dirty, filePc, op, arg, todo, due>>
  BY FileDomains DEF FilesInv, L!FunlockFile
<1>2. FilesCalls'
  BY <1>1, FileDomains, FileTypes DEF FilesInv, FilesCalls, FilesAlone
<1>3. FilesAlone'
  BY <1>1, FileDomains, FileTypes DEF FilesInv, FilesAlone, FilesCalls
<1>4. FilesListed'
  BY <1>1, ListedKept DEF FilesInv, Unlinking, FilesCalls, FilesAlone
<1>5. FilesWalks'
  BY <1>1, FileDomains, FileTypes DEF FilesInv, FilesWalks, FilesCalls, FilesListed
<1>6. /\ FileDepth(p, f) > 0 /\ FileDepth(p, f)' = FileDepth(p, f) - 1
      /\ \A q \in Procs : \A g \in Files :
           q # p \/ g # f => FileDepth(q, g)' = FileDepth(q, g)
  BY <1>1, FileDomains, FileTypes DEF FilesInv, FilesCalls, FileDepth, FileBusy
<1>7. /\ FilesHeld'
      /\ fileOwner' \in [Files -> Procs \cup {NoOwner}] /\ fileCount' \in [Files -> 0 .. 2]
  BY <1>6, HeldGiven DEF FilesInv, L!FunlockFile
<1>8. L!TypeOK'
  BY <1>1, <1>7, FileDomains, FileTypes
     DEF FilesInv, L!FunlockFile, L!TypeOK, L!Goto, L!Done, L!Written
<1> QED BY <1>2, <1>3, <1>4, <1>5, <1>7, <1>8 DEF FilesInv

LEMMA FileCloseBody ==
  ASSUME FilesInv, NEW p \in Procs, L!CloseBody(p)
  PROVE  FilesInv'
<1>0. arg[p] \in Files
  BY FileOfCall DEF L!CloseBody
<1>1. /\ filePc[p] = "locked" /\ op[p] = "close" /\ filePc'[p] = "unlinking"
      /\ \A q \in Procs : q # p => filePc'[q] = filePc[q]
      /\ ~dirty'[arg[p]] /\ \A g \in Files : g # arg[p] => dirty'[g] = dirty[g]
      /\ \A q \in Procs : due'[q] = due[q] \ {arg[p]}
      /\ life'[arg[p]] = "closed" /\ \A g \in Files : g # arg[p] => life'[g] = life[g]
      /\ UNCHANGED <<ofl, oflMu, op, arg, todo, region>>
  BY <1>0, FileDomains DEF FilesInv, L!CloseBody, L!Goto, L!Written
<1>2. FilesCalls'
  BY <1>0, <1>1, FileDomains, FileTypes DEF FilesInv, FilesCalls, FilesAlone
<1>3. FilesAlone'
  BY <1>0, <1>1, FileDomains, FileTypes DEF FilesInv, FilesAlone, FilesCalls
<1>4. FilesListed'
  BY <1>0, <1>1, ListedKept DEF FilesInv, Unlinking, FilesCalls, FilesAlone
<1>5. FilesWalks'
  <2>1. \A g \in Files : life'[g] # "open" => ~dirty'[g]
    BY <1>0, <1>1 DEF FilesInv, FilesWalks
  <2>2. ASSUME NEW q \in Procs
        PROVE  /\ filePc'[q] \in {"walking", "visiting"} <=> oflMu' = q
               /\ filePc'[q] = "visiting" => todo'[q] # <<>>
    BY <1>1 DEF FilesInv, FilesWalks
  <2>3. ASSUME NEW q \in Procs, oflMu' = q
        PROVE  ToSet(todo'[q]) \subseteq ToSet(ofl') /\ due'[q] \subseteq ToSet(todo'[q])
    BY <1>1, <2>3 DEF FilesInv, FilesWalks
  <2>4. ASSUME NEW q \in Procs, NEW g \in due'[q] PROVE dirty'[g]
    BY <1>0, <1>1, FileLists DEF FilesInv, FilesWalks
  <2> QED BY <2>1, <2>2, <2>3, <2>4 DEF FilesWalks
<1>6. /\ FileDepth(p, arg[p]) > 0 /\ FileDepth(p, arg[p])' = FileDepth(p, arg[p]) - 1
      /\ \A q \in Procs : \A g \in Files :
           q # p \/ g # arg[p] => FileDepth(q, g)' = FileDepth(q, g)
  BY <1>0, <1>1, FileDomains, FileTypes DEF FilesInv, FilesCalls, FileDepth, FileBusy
<1>7. /\ FilesHeld'
      /\ fileOwner' \in [Files -> Procs \cup {NoOwner}] /\ fileCount' \in [Files -> 0 .. 2]
  BY <1>0, <1>6, HeldGiven DEF FilesInv, L!CloseBody
<1>8. L!TypeOK'
  <2>1. /\ dirty' \in [Files -> BOOLEAN] /\ due' \in [Procs -> SUBSET Files]
    BY <1>0, FileLists DEF FilesInv, L!TypeOK, L!CloseBody, L!Written
  <2>2. life' \in [Files -> {"free", "open", "closed"}]
    BY <1>0 DEF FilesInv, L!TypeOK, L!CloseBody
  <2> QED BY <1>0, <1>1, <1>7, <2>1, <2>2 DEF FilesInv, L!CloseBody, L!TypeOK, L!Goto
<1> QED BY <1>2, <1>3, <1>4, <1>5, <1>7, <1>8 DEF FilesInv

\* Nobody walks while the list changes.
LEMMA FileUnlink ==
  ASSUME FilesInv, NEW p \in Procs, L!Unlink(p)
  PROVE  FilesInv'
<1>0. arg[p] \in Files
  BY FileOfCall DEF L!Unlink
<1>1. /\ filePc[p] = "unlinking" /\ oflMu = NoOwner /\ filePc'[p] = "freeing"
      /\ \A q \in Procs : q # p => filePc'[q] = filePc[q]
      /\ ofl' \in Seq(Files) /\ IsInjective(ofl') /\ ToSet(ofl') = ToSet(ofl) \ {arg[p]}
      /\ UNCHANGED <<oflMu, life, dirty, fileOwner, fileCount, op, arg, todo, due, region>>
  <2>1. PICK i \in DOMAIN ofl : ofl[i] = arg[p] /\ ofl' = RemoveAt(ofl, i)
    BY DEF L!Unlink, L!RemoveAt, RemoveAt
  <2>2. /\ ofl' \in Seq(Files) /\ IsInjective(ofl')
        /\ ToSet(ofl') = ToSet(ofl) \ {arg[p]}
    BY <2>1, FileLists, Removed DEF FilesInv, FilesListed
  <2> QED BY <1>0, <2>2, FileDomains DEF FilesInv, L!Unlink, L!Goto
<1>2. FilesCalls'
  BY <1>0, <1>1, FileDomains, FileTypes DEF FilesInv, FilesCalls, FilesAlone
<1>3. FilesAlone'
  BY <1>0, <1>1, FileDomains, FileTypes DEF FilesInv, FilesAlone, FilesCalls
<1>4. FilesListed'
  <2>1. ASSUME NEW f \in Files
        PROVE  f \in ToSet(ofl') <=> life'[f] = "open" \/ Unlinking(f)'
    <3>1. CASE f = arg[p]
      BY <1>1, <3>1 DEF FilesInv, FilesCalls, FilesAlone, Unlinking
    <3>2. CASE f # arg[p]
      <4>1. Unlinking(f)' <=> Unlinking(f)
        BY <1>1, <3>2 DEF Unlinking
      <4> QED BY <1>1, <3>2, <4>1 DEF FilesInv, FilesListed
    <3> QED BY <3>1, <3>2
  <2> QED BY <1>1, <2>1 DEF FilesListed
<1>5. FilesWalks'
  BY <1>0, <1>1, FileDomains, FileTypes DEF FilesInv, FilesWalks, FilesCalls, FilesListed
<1>6. FilesHeld'
  BY <1>0, <1>1, FileDomains, FileTypes, HeldKept DEF FilesInv, FilesCalls, FileDepth, FileBusy
<1>7. L!TypeOK'
  BY <1>0, <1>1, FileDomains, FileTypes DEF FilesInv, L!Unlink, L!TypeOK, L!Goto, L!Done
<1> QED BY <1>2, <1>3, <1>4, <1>5, <1>6, <1>7 DEF FilesInv

\* Nobody has, or can get, the lock whose table entry is dropped.
LEMMA FileDropAndFree ==
  ASSUME FilesInv, NEW p \in Procs, L!DropAndFree(p)
  PROVE  FilesInv'
<1>0. arg[p] \in Files
  BY FileOfCall DEF L!DropAndFree
<1>1. /\ filePc[p] = "freeing" /\ filePc'[p] = "idle" /\ op'[p] = "none"
      /\ arg'[p] = NoOwner
      /\ \A q \in Procs : q # p => filePc'[q] = filePc[q] /\ op'[q] = op[q] /\ arg'[q] = arg[q]
      /\ life'[arg[p]] = "free" /\ fileOwner'[arg[p]] = NoOwner /\ fileCount'[arg[p]] = 0
      /\ \A g \in Files : g # arg[p] => /\ life'[g] = life[g] /\ fileOwner'[g] = fileOwner[g]
                                       /\ fileCount'[g] = fileCount[g]
      /\ UNCHANGED <<ofl, oflMu, dirty, todo, due, region>>
  BY <1>0, FileDomains DEF FilesInv, L!DropAndFree, L!Goto, L!Done
<1>2. FilesCalls'
  BY <1>0, <1>1, FileDomains, FileTypes DEF FilesInv, FilesCalls, FilesAlone
<1>3. FilesAlone'
  BY <1>0, <1>1, FileDomains, FileTypes DEF FilesInv, FilesAlone, FilesCalls
<1>4. FilesListed'
  BY <1>0, <1>1, ListedKept DEF FilesInv, Unlinking, FilesCalls, FilesAlone
<1>5. FilesWalks'
  BY <1>0, <1>1, FileDomains, FileTypes DEF FilesInv, FilesWalks, FilesCalls, FilesListed
<1>6. FilesHeld'
  <2>1. ASSUME NEW q \in Procs, NEW f \in Files PROVE FileDepth(q, f)' = FileDepth(q, f)
    BY <1>1 DEF FileDepth, FileBusy
  <2>2. ASSUME NEW f \in Files, f = arg[p]
        PROVE  /\ fileOwner'[f] = NoOwner /\ fileCount'[f] = 0
               /\ \A q \in Procs : FileDepth(q, f)' = 0
    BY <1>1, <2>1, <2>2, Dropped
  <2>3. ASSUME NEW f \in Files, f # arg[p]
        PROVE  /\ fileOwner'[f] = fileOwner[f] /\ fileCount'[f] = fileCount[f]
               /\ \A q \in Procs : FileDepth(q, f)' = FileDepth(q, f)
    BY <1>1, <2>1, <2>3
  <2> QED BY <2>2, <2>3, FileDomains DEF FilesInv, FilesHeld
<1>7. L!TypeOK'
  BY <1>0, <1>1, FileDomains, FileTypes DEF FilesInv, L!DropAndFree, L!TypeOK, L!Goto, L!Done
<1> QED BY <1>2, <1>3, <1>4, <1>5, <1>6, <1>7 DEF FilesInv

LEMMA FileOpenCall ==
  ASSUME FilesInv, NEW p \in Procs, NEW f \in Files, L!OpenCall(p, f)
  PROVE  FilesInv'
<1>1. /\ filePc[p] = "idle" /\ filePc'[p] = "adding" /\ op'[p] = "open" /\ arg'[p] = f
      /\ life[f] = "free"
      /\ \A q \in Procs : q # p => filePc'[q] = filePc[q] /\ op'[q] = op[q] /\ arg'[q] = arg[q]
      /\ \A q \in Procs : arg[q] # f
      /\ UNCHANGED <<ofl, oflMu, life, dirty, fileOwner, fileCount, todo, due, region>>
  BY FileDomains DEF FilesInv, L!OpenCall, L!Goto, L!Allowed
<1>2. FilesCalls'
  BY <1>1, FileDomains, FileTypes DEF FilesInv, FilesCalls, FilesAlone
<1>3. FilesAlone'
  BY <1>1, FileDomains, FileTypes DEF FilesInv, FilesAlone, FilesCalls
<1>4. FilesListed'
  BY <1>1, ListedKept DEF FilesInv, Unlinking, FilesCalls, FilesAlone
<1>5. FilesWalks'
  BY <1>1, FileDomains, FileTypes DEF FilesInv, FilesWalks, FilesCalls, FilesListed
<1>6. FilesHeld'
  BY <1>1, FileDomains, FileTypes, HeldKept DEF FilesInv, FilesCalls, FileDepth, FileBusy
<1>7. L!TypeOK'
  BY <1>1, FileDomains, FileTypes DEF FilesInv, L!OpenCall, L!TypeOK, L!Goto, L!Done
<1> QED BY <1>2, <1>3, <1>4, <1>5, <1>6, <1>7 DEF FilesInv

LEMMA FileOflAdd ==
  ASSUME FilesInv, NEW p \in Procs, L!OflAdd(p)
  PROVE  FilesInv'
<1>0. arg[p] \in Files
  BY FileOfCall DEF L!OflAdd
<1>1. /\ filePc[p] = "adding" /\ oflMu = NoOwner /\ filePc'[p] = "idle"
      /\ op'[p] = "none" /\ arg'[p] = NoOwner
      /\ \A q \in Procs : q # p => filePc'[q] = filePc[q] /\ op'[q] = op[q] /\ arg'[q] = arg[q]
      /\ ofl' \in Seq(Files) /\ IsInjective(ofl') /\ ToSet(ofl') = ToSet(ofl) \cup {arg[p]}
      /\ life'[arg[p]] = "open" /\ \A g \in Files : g # arg[p] => life'[g] = life[g]
      /\ UNCHANGED <<oflMu, dirty, fileOwner, fileCount, todo, due, region>>
  <2>1. arg[p] \notin ToSet(ofl)
    BY <1>0 DEF FilesInv, FilesListed, Unlinking, FilesCalls, FilesAlone, L!OflAdd
  <2>2. /\ <<arg[p]>> \o ofl \in Seq(Files) /\ IsInjective(<<arg[p]>> \o ofl)
        /\ ToSet(<<arg[p]>> \o ofl) = ToSet(ofl) \cup {arg[p]}
    BY <1>0, <2>1, FileLists, Prepended DEF FilesInv, FilesListed
  <2> QED BY <1>0, <2>2, FileDomains DEF FilesInv, L!OflAdd, L!Goto, L!Done
<1>2. FilesCalls'
  BY <1>0, <1>1, FileDomains, FileTypes DEF FilesInv, FilesCalls, FilesAlone
<1>3. FilesAlone'
  <2> SUFFICES ASSUME NEW q \in Procs, op'[q] \in {"open", "close"}, NEW r \in Procs
               PROVE  region'[r] # arg'[q] /\ (r # q => arg'[r] # arg'[q])
    BY DEF FilesAlone
  <2>1. q # p /\ op[q] \in {"open", "close"} /\ arg'[q] = arg[q]
    BY <1>1
  <2>2. region[r] # arg[q] /\ (r # q => arg[r] # arg[q])
    BY <2>1 DEF FilesInv, FilesAlone
  <2>3. arg[q] # NoOwner
    BY <2>1 DEF FilesInv, FilesCalls
  <2> QED BY <1>1, <2>1, <2>2, <2>3
<1>4. FilesListed'
  <2>1. ASSUME NEW f \in Files
        PROVE  f \in ToSet(ofl') <=> life'[f] = "open" \/ Unlinking(f)'
    <3>1. CASE f = arg[p]
      BY <1>1, <3>1
    <3>2. CASE f # arg[p]
      <4>1. Unlinking(f)' <=> Unlinking(f)
        BY <1>1 DEF Unlinking
      <4> QED BY <1>1, <3>2, <4>1 DEF FilesInv, FilesListed
    <3> QED BY <3>1, <3>2
  <2> QED BY <1>1, <2>1 DEF FilesListed
<1>5. FilesWalks'
  BY <1>0, <1>1, FileDomains, FileTypes DEF FilesInv, FilesWalks, FilesCalls, FilesListed
<1>6. FilesHeld'
  BY <1>0, <1>1, FileDomains, FileTypes, HeldKept DEF FilesInv, FilesCalls, FileDepth, FileBusy
<1>7. L!TypeOK'
  BY <1>0, <1>1, FileDomains, FileTypes DEF FilesInv, L!OflAdd, L!TypeOK, L!Goto, L!Done
<1> QED BY <1>2, <1>3, <1>4, <1>5, <1>6, <1>7 DEF FilesInv

LEMMA FileFlushAllCall ==
  ASSUME FilesInv, NEW p \in Procs, L!FlushAllCall(p)
  PROVE  FilesInv'
<1>1. /\ filePc[p] = "idle" /\ filePc'[p] = "listing" /\ op'[p] = "flushall"
      /\ \A q \in Procs : q # p => filePc'[q] = filePc[q] /\ op'[q] = op[q] /\ due'[q] = due[q]
      /\ \A f \in due'[p] : f \in Files /\ dirty[f]
      /\ UNCHANGED <<ofl, oflMu, life, dirty, fileOwner, fileCount, arg, todo, region>>
  <2>1. due' = [due EXCEPT ![p] = {f \in ToSet(ofl) : dirty[f] /\ life[f] = "open"}]
    BY DEF L!FlushAllCall, L!ToSet, ToSet
  <2>2. /\ due'[p] = {f \in ToSet(ofl) : dirty[f] /\ life[f] = "open"}
        /\ \A q \in Procs : q # p => due'[q] = due[q]
    BY <2>1, FileDomains DEF FilesInv
  <2>3. \A f \in due'[p] : f \in Files /\ dirty[f]
    BY <2>2, FileLists DEF FilesInv
  <2> QED BY <2>2, <2>3, FileDomains DEF FilesInv, L!FlushAllCall, L!Goto, L!Allowed
<1>2. FilesCalls'
  BY <1>1, FileDomains, FileTypes DEF FilesInv, FilesCalls, FilesAlone
<1>3. FilesAlone'
  BY <1>1, FileDomains, FileTypes DEF FilesInv, FilesAlone, FilesCalls
<1>4. FilesListed'
  BY <1>1, ListedKept DEF FilesInv, Unlinking, FilesCalls, FilesAlone
<1>5. FilesWalks'
  BY <1>1, FileDomains, FileTypes DEF FilesInv, FilesWalks, FilesCalls, FilesListed
<1>6. FilesHeld'
  BY <1>1, FileDomains, FileTypes, HeldKept DEF FilesInv, FilesCalls, FileDepth, FileBusy
<1>7. L!TypeOK'
  BY <1>1, FileDomains, FileTypes DEF FilesInv, L!FlushAllCall, L!TypeOK, L!Goto, L!Done
<1> QED BY <1>2, <1>3, <1>4, <1>5, <1>6, <1>7 DEF FilesInv

\* Every stream with output is on the list the walk begins with.
LEMMA FileOflLock ==
  ASSUME FilesInv, NEW p \in Procs, L!OflLock(p)
  PROVE  FilesInv'
<1>1. /\ filePc[p] = "listing" /\ oflMu = NoOwner /\ oflMu' = p /\ filePc'[p] = "walking"
      /\ todo'[p] = ofl
      /\ \A q \in Procs : q # p => filePc'[q] = filePc[q] /\ todo'[q] = todo[q]
      /\ UNCHANGED <<ofl, life, dirty, fileOwner, fileCount, op, arg, due, region>>
  BY FileDomains DEF FilesInv, L!OflLock, L!Goto
<1>2. FilesCalls'
  BY <1>1, FileDomains, FileTypes DEF FilesInv, FilesCalls, FilesAlone
<1>3. FilesAlone'
  BY <1>1, FileDomains, FileTypes DEF FilesInv, FilesAlone, FilesCalls
<1>4. FilesListed'
  BY <1>1, ListedKept DEF FilesInv, Unlinking, FilesCalls, FilesAlone
<1>5. FilesWalks'
  <2>1. due[p] \subseteq ToSet(ofl)
    BY FileLists DEF FilesInv, FilesWalks, FilesListed
  <2> QED BY <1>1, <2>1, FileDomains DEF FilesInv, FilesWalks
<1>6. FilesHeld'
  BY <1>1, FileDomains, FileTypes, HeldKept DEF FilesInv, FilesCalls, FileDepth, FileBusy
<1>7. L!TypeOK'
  BY <1>1, FileDomains, FileTypes DEF FilesInv, L!OflLock, L!TypeOK, L!Goto, L!Done
<1> QED BY <1>2, <1>3, <1>4, <1>5, <1>6, <1>7 DEF FilesInv

LEMMA FileWalkLock ==
  ASSUME FilesInv, NEW p \in Procs, L!WalkLock(p)
  PROVE  FilesInv'
<1>0. Head(todo[p]) \in Files /\ Head(todo[p]) \in ToSet(ofl) /\ todo[p] # <<>>
  BY FileOfCall DEF L!WalkLock
<1>1. /\ filePc[p] = "walking" /\ todo[p] # <<>> /\ filePc'[p] = "visiting"
      /\ \A q \in Procs : q # p => filePc'[q] = filePc[q]
      /\ UNCHANGED <<ofl, oflMu, life, dirty, op, arg, todo, due, region>>
  BY <1>0, FileDomains DEF FilesInv, L!WalkLock, L!Goto
<1>2. FilesCalls'
  BY <1>0, <1>1, FileDomains, FileTypes DEF FilesInv, FilesCalls, FilesAlone
<1>3. FilesAlone'
  BY <1>0, <1>1, FileDomains, FileTypes DEF FilesInv, FilesAlone, FilesCalls
<1>4. FilesListed'
  BY <1>0, <1>1, ListedKept DEF FilesInv, Unlinking, FilesCalls, FilesAlone
<1>5. FilesWalks'
  BY <1>0, <1>1, FileDomains, FileTypes DEF FilesInv, FilesWalks, FilesCalls, FilesListed
<1>6. /\ ~FileBusy(p, Head(todo[p])) /\ FileDepth(p, Head(todo[p]))' = FileDepth(p, Head(todo[p])) + 1
      /\ \A q \in Procs : \A g \in Files :
           q # p \/ g # Head(todo[p]) => FileDepth(q, g)' = FileDepth(q, g)
  BY <1>0, <1>1, FileDomains, FileTypes DEF FilesInv, FilesCalls, FileDepth, FileBusy
<1>7. /\ FilesHeld'
      /\ fileOwner' \in [Files -> Procs \cup {NoOwner}] /\ fileCount' \in [Files -> 0 .. 2]
  BY <1>0, <1>6, HeldTaken DEF FilesInv, L!WalkLock
<1>8. L!TypeOK'
  BY <1>0, <1>1, <1>7, FileDomains, FileTypes
     DEF FilesInv, L!WalkLock, L!TypeOK, L!Goto, L!Done, L!Written
<1> QED BY <1>2, <1>3, <1>4, <1>5, <1>7, <1>8 DEF FilesInv

LEMMA FileWalkFlush ==
  ASSUME FilesInv, NEW p \in Procs, L!WalkFlush(p)
  PROVE  FilesInv'
<1>0. PICK f \in Files : Head(todo[p]) = f /\ f \in ToSet(ofl) /\ todo[p] # <<>>
  BY FileOfCall DEF L!WalkFlush
<1>1. /\ filePc[p] = "visiting" /\ filePc'[p] = "walking" /\ todo'[p] = Tail(todo[p])
      /\ \A q \in Procs : q # p => filePc'[q] = filePc[q] /\ todo'[q] = todo[q]
      /\ ~dirty'[f] /\ \A g \in Files : g # f => dirty'[g] = dirty[g]
      /\ \A q \in Procs : due'[q] = due[q] \ {f}
      /\ UNCHANGED <<ofl, oflMu, life, op, arg, region>>
  BY <1>0, FileDomains DEF FilesInv, L!WalkFlush, L!Goto, L!Written
<1>2. FilesCalls'
  BY <1>0, <1>1, FileDomains, FileTypes DEF FilesInv, FilesCalls, FilesAlone
<1>3. FilesAlone'
  BY <1>0, <1>1, FileDomains, FileTypes DEF FilesInv, FilesAlone, FilesCalls
<1>4. FilesListed'
  BY <1>0, <1>1, ListedKept DEF FilesInv, Unlinking, FilesCalls, FilesAlone
<1>5. FilesWalks'
  <2>1. \A g \in Files : life'[g] # "open" => ~dirty'[g]
    BY <1>0, <1>1 DEF FilesInv, FilesWalks
  <2>2. ASSUME NEW q \in Procs
        PROVE  filePc'[q] \in {"walking", "visiting"} <=> oflMu' = q
    BY <1>1 DEF FilesInv, FilesWalks
  <2>3. ASSUME NEW q \in Procs, oflMu' = q
        PROVE  ToSet(todo'[q]) \subseteq ToSet(ofl') /\ due'[q] \subseteq ToSet(todo'[q])
    <3>1. ToSet(todo[q]) \subseteq ToSet(ofl) /\ due[q] \subseteq ToSet(todo[q])
      BY <1>1, <2>3 DEF FilesInv, FilesWalks
    <3>2. CASE q # p
      BY <1>1, <3>1, <3>2
    <3>3. CASE q = p
      <4>1. /\ ToSet(Tail(todo[p])) \subseteq ToSet(todo[p])
            /\ ToSet(todo[p]) \subseteq ToSet(Tail(todo[p])) \cup {f}
        BY <1>0, FileLists, Walked DEF FilesInv
      <4> QED BY <1>1, <3>1, <3>3, <4>1
    <3> QED BY <3>2, <3>3
  <2>4. ASSUME NEW q \in Procs, filePc'[q] = "visiting" PROVE todo'[q] # <<>>
    BY <1>1, <2>4 DEF FilesInv, FilesWalks
  <2>5. ASSUME NEW q \in Procs, NEW g \in due'[q] PROVE dirty'[g]
    BY <1>0, <1>1, FileLists DEF FilesInv, FilesWalks
  <2> QED BY <2>1, <2>2, <2>3, <2>4, <2>5 DEF FilesWalks
<1>6. /\ FileDepth(p, f) > 0 /\ FileDepth(p, f)' = FileDepth(p, f) - 1
      /\ \A q \in Procs : \A g \in Files :
           q # p \/ g # f => FileDepth(q, g)' = FileDepth(q, g)
  BY <1>0, <1>1, FileDomains, FileTypes DEF FilesInv, FilesCalls, FileDepth, FileBusy
<1>7. /\ FilesHeld'
      /\ fileOwner' \in [Files -> Procs \cup {NoOwner}] /\ fileCount' \in [Files -> 0 .. 2]
  BY <1>0, <1>6, HeldGiven DEF FilesInv, L!WalkFlush
<1>8. L!TypeOK'
  <2>1. /\ dirty' \in [Files -> BOOLEAN] /\ due' \in [Procs -> SUBSET Files]
    BY <1>0, FileLists DEF FilesInv, L!TypeOK, L!WalkFlush, L!Written
  <2>2. todo' \in [Procs -> Seq(Files)]
    <3>1. Tail(todo[p]) \in Seq(Files)
      BY <1>0, FileLists, Walked DEF FilesInv
    <3> QED BY <3>1 DEF FilesInv, L!TypeOK, L!WalkFlush
  <2> QED BY <1>0, <1>1, <1>7, <2>1, <2>2 DEF FilesInv, L!WalkFlush, L!TypeOK, L!Goto
<1> QED BY <1>2, <1>3, <1>4, <1>5, <1>7, <1>8 DEF FilesInv

LEMMA FileOflUnlock ==
  ASSUME FilesInv, NEW p \in Procs, L!OflUnlock(p)
  PROVE  FilesInv'
<1>1. /\ filePc[p] = "walking" /\ todo[p] = <<>> /\ oflMu' = NoOwner
      /\ filePc'[p] = "idle" /\ op'[p] = "none" /\ arg'[p] = NoOwner
      /\ \A q \in Procs : q # p => filePc'[q] = filePc[q] /\ op'[q] = op[q] /\ arg'[q] = arg[q]
      /\ UNCHANGED <<ofl, life, dirty, fileOwner, fileCount, todo, due, region>>
  BY FileDomains DEF FilesInv, L!OflUnlock, L!Goto, L!Done
<1>2. FilesCalls'
  BY <1>1, FileDomains, FileTypes DEF FilesInv, FilesCalls, FilesAlone
<1>3. FilesAlone'
  BY <1>1, FileDomains, FileTypes DEF FilesInv, FilesAlone, FilesCalls
<1>4. FilesListed'
  BY <1>1, ListedKept DEF FilesInv, Unlinking, FilesCalls, FilesAlone
<1>5. FilesWalks'
  BY <1>1, FileDomains, FileTypes DEF FilesInv, FilesWalks, FilesCalls, FilesListed
<1>6. FilesHeld'
  BY <1>1, FileDomains, FileTypes, HeldKept DEF FilesInv, FilesCalls, FileDepth, FileBusy
<1>7. L!TypeOK'
  BY <1>1, FileDomains, FileTypes DEF FilesInv, L!OflUnlock, L!TypeOK, L!Goto, L!Done
<1> QED BY <1>2, <1>3, <1>4, <1>5, <1>6, <1>7 DEF FilesInv

\* What the invariant says of the calls' steps together.
LEMMA FilesStep == FilesInv /\ [L!Next]_(L!vars) => FilesInv'
<1> SUFFICES ASSUME FilesInv, [L!Next]_(L!vars) PROVE FilesInv'
  OBVIOUS
<1>1. ASSUME NEW p \in Procs, L!Step(p) PROVE FilesInv'
  BY <1>1, FileLocked, FileWrite, FileFlush, FileFlockReturns, FileCloseBody, FileUnlink,
     FileDropAndFree, FileOflAdd, FileOflLock, FileWalkLock, FileWalkFlush, FileOflUnlock
     DEF L!Step
<1>2. ASSUME NEW p \in Procs, L!FlushAllCall(p) PROVE FilesInv'
  BY <1>2, FileFlushAllCall
<1>3. ASSUME NEW p \in Procs, NEW f \in Files,
             \/ L!OpenCall(p, f) \/ L!FunlockFile(p, f)
             \/ \E o \in {"write", "flush", "close", "hold"} : L!CallOn(p, f, o)
      PROVE  FilesInv'
  BY <1>3, FileOpenCall, FileFunlockFile, FileCallOn
<1>4. CASE UNCHANGED L!vars
  <2>1. L!TypeOK'
    BY <1>4 DEF FilesInv, L!TypeOK, L!vars
  <2>2. FilesHeld'
    BY <1>4 DEF FilesInv, FilesHeld, FileDepth, FileBusy, L!vars
  <2>3. FilesCalls' /\ FilesAlone'
    BY <1>4 DEF FilesInv, FilesCalls, FilesAlone, L!vars
  <2>4. FilesListed' /\ FilesWalks'
    BY <1>4 DEF FilesInv, FilesListed, Unlinking, FilesWalks, L!vars
  <2> QED BY <2>1, <2>2, <2>3, <2>4 DEF FilesInv
<1> QED BY <1>1, <1>2, <1>3, <1>4 DEF L!Next

LEMMA FilesInit == L!Init => FilesInv
<1> SUFFICES ASSUME L!Init PROVE FilesInv
  OBVIOUS
<1>1. <<>> \in Seq(Files) /\ IsInjective(<<>>) /\ ToSet(<<>>) = {}
  BY EmptyQueue
<1>2. NoOwner \notin Procs
  BY MCSyncAssumption DEF L!StdioLocksConstants
<1>3. L!TypeOK
  BY <1>1 DEF L!Init, L!TypeOK
<1>4. FilesHeld
  BY <1>2, MCSyncAssumption DEF L!Init, L!StdioLocksConstants, FilesHeld, FileDepth, FileBusy
<1>5. FilesCalls /\ FilesAlone
  BY DEF L!Init, FilesCalls, FilesAlone
<1>6. FilesListed
  BY <1>1 DEF L!Init, FilesListed, Unlinking
<1>7. FilesWalks
  BY <1>1, <1>2 DEF L!Init, FilesWalks
<1> QED BY <1>3, <1>4, <1>5, <1>6, <1>7 DEF FilesInv

\* The promises that hold whatever clients call inside a flockfile region.
FilesWork ==
  L!TypeOK /\ L!WalkIsSafe /\ L!WorkersOwn /\ L!NothingLost /\ L!FlushAllFlushes

LEMMA FilesInvWork == FilesInv => FilesWork
<1> SUFFICES ASSUME FilesInv PROVE FilesWork
  OBVIOUS
<1>1. L!WalkIsSafe
  <2> SUFFICES ASSUME NEW p \in Procs, filePc[p] \in {"walking", "visiting"},
                      NEW i \in 1 .. Len(todo[p])
               PROVE  todo[p][i] \in ToSet(ofl) /\ life[todo[p][i]] # "free"
    BY DEF L!WalkIsSafe, L!ToSet, ToSet
  <2>1. todo[p][i] \in ToSet(todo[p])
    BY FileLists, QueueMembers DEF FilesInv, ToSet
  <2>2. todo[p][i] \in ToSet(ofl)
    BY <2>1 DEF FilesInv, FilesWalks
  <2>3. todo[p][i] \in Files
    BY <2>2, FileLists DEF FilesInv
  <2> QED BY <2>2, <2>3 DEF FilesInv, FilesListed, Unlinking, FilesCalls
<1>2. L!WorkersOwn
  <2> SUFFICES ASSUME NEW p \in Procs
               PROVE  /\ filePc[p] = "locked" => fileOwner[arg[p]] = p
                      /\ filePc[p] = "visiting" => fileOwner[Head(todo[p])] = p
                      /\ region[p] # NoOwner => fileOwner[region[p]] = p
    BY DEF L!WorkersOwn, L!InRegion
  <2>1. \A f \in Files : FileBusy(p, f) \/ region[p] = f => fileOwner[f] = p
    BY DEF FilesInv, FilesHeld, FileDepth
  <2> QED BY <2>1, FileOfCall, FileTypes DEF FilesInv, FileBusy
<1>3. L!NothingLost
  BY Dropped DEF FilesInv, FilesWalks, L!NothingLost
<1>4. L!FlushAllFlushes
  BY EmptyQueue DEF FilesInv, FilesWalks, L!FlushAllFlushes
<1> QED BY <1>1, <1>2, <1>3, <1>4 DEF FilesInv, FilesWork

\* The walk of fflush(NULL) is safe from a concurrent fclose and flushes all
\* that it must, and a stream's lock covers all the work on it.
THEOREM FileWorkCorrect == L!Spec => []FilesWork
<1> QED BY FilesInit, FilesStep, FilesInvWork, PTL DEF L!Spec

-----------------------------------------------------------------------------

\* When regions hold nothing but calls on their own stream, a goroutine in one
\* waits for no other lock.
FilesApart ==
  \A p \in Procs : region[p] # NoOwner => filePc[p] \in {"idle", "locking", "locked"}

LEMMA FilesApartStep ==
  ASSUME Region \subseteq {"write", "flush"}, FilesInv, FilesApart, [L!Next]_(L!vars)
  PROVE  FilesApart'
<1>0. "open" \notin Region /\ "flushall" \notin Region
  OBVIOUS
<1> USE FileDomains DEF FilesInv, FilesApart, L!Goto, L!Done
<1>1. ASSUME NEW p \in Procs, L!Locked(p) \/ L!Write(p) \/ L!Flush(p) \/ L!FlockReturns(p)
      PROVE  FilesApart'
  BY <1>1 DEF L!Locked, L!Write, L!Flush, L!FlockReturns
<1>2. ASSUME NEW p \in Procs, L!CloseBody(p) PROVE FilesApart'
  BY <1>2 DEF L!CloseBody, FilesCalls
<1>3. ASSUME NEW p \in Procs, L!Unlink(p) \/ L!DropAndFree(p) \/ L!OflAdd(p) PROVE FilesApart'
  BY <1>3 DEF L!Unlink, L!DropAndFree, L!OflAdd
<1>4. ASSUME NEW p \in Procs, L!OflLock(p) \/ L!WalkLock(p) \/ L!WalkFlush(p) \/ L!OflUnlock(p)
      PROVE  FilesApart'
  BY <1>4 DEF L!OflLock, L!WalkLock, L!WalkFlush, L!OflUnlock
<1>5. ASSUME NEW p \in Procs, L!FlushAllCall(p) PROVE FilesApart'
  BY <1>0, <1>5 DEF L!FlushAllCall, L!Allowed, L!InRegion
<1>6. ASSUME NEW p \in Procs, NEW f \in Files, L!OpenCall(p, f) PROVE FilesApart'
  BY <1>0, <1>6 DEF L!OpenCall, L!Allowed, L!InRegion
<1>7. ASSUME NEW p \in Procs, NEW f \in Files, L!FunlockFile(p, f) PROVE FilesApart'
  BY <1>7 DEF L!FunlockFile
<1>8. ASSUME NEW p \in Procs, NEW f \in Files, NEW o \in {"write", "flush", "close", "hold"},
             L!CallOn(p, f, o)
      PROVE  FilesApart'
  BY <1>8 DEF L!CallOn
<1>9. CASE UNCHANGED L!vars
  BY <1>9 DEF L!vars
<1> QED BY <1>1, <1>2, <1>3, <1>4, <1>5, <1>6, <1>7, <1>8, <1>9 DEF L!Next, L!Step

\* Whoever holds a file's lock waits for nobody; whoever holds the list's waits
\* for the holder of a file's lock at most.
LEMMA NoFileCircle == FilesInv /\ FilesApart => L!NoCircularWait
<1> SUFFICES ASSUME FilesInv, FilesApart PROVE L!NoCircularWait
  OBVIOUS
<1>1. ASSUME NEW p \in Procs, NEW q \in Procs, NEW f \in Files, fileOwner[f] = p
      PROVE  ~L!WaitsFor(p, q)
  <2>1. region[p] = f \/ FileBusy(p, f)
    BY <1>1, FileTypes DEF FilesInv, FilesHeld, FileDepth
  <2>2. CASE region[p] = f
    <3>1. filePc[p] \in {"idle", "locking", "locked"} /\ f # NoOwner
      BY <2>2, FileDomains DEF FilesInv, FilesApart
    <3>2. filePc[p] = "locking" => arg[p] = f
      BY <2>2, <3>1 DEF FilesInv, FilesCalls
    <3> QED BY <1>1, <3>1, <3>2 DEF L!WaitsFor
  <2>3. CASE FileBusy(p, f)
    BY <2>3 DEF FileBusy, L!WaitsFor
  <2> QED BY <2>1, <2>2, <2>3
<1>2. ASSUME NEW p \in Procs, NEW q \in Procs, L!WaitsFor(p, q)
      PROVE  oflMu = q \/ \E f \in Files : fileOwner[f] = q
  BY <1>2, FileOfCall DEF L!WaitsFor
<1>3. ASSUME NEW p \in Procs, NEW q \in Procs, oflMu = p, L!WaitsFor(p, q)
      PROVE  \E f \in Files : fileOwner[f] = q
  <2>1. filePc[p] \in {"walking", "visiting"}
    BY <1>3 DEF FilesInv, FilesWalks
  <2> QED BY <1>3, <2>1, FileOfCall DEF L!WaitsFor
<1> SUFFICES ASSUME NEW Circle \in SUBSET Procs, Circle # {},
                    \A p \in Circle : \E q \in Circle : L!WaitsFor(p, q)
             PROVE  FALSE
  BY DEF L!NoCircularWait
<1>4. PICK p \in Circle, q \in Circle : L!WaitsFor(p, q)
  OBVIOUS
<1>5. PICK r \in Circle : L!WaitsFor(q, r)
  OBVIOUS
<1>6. PICK t \in Circle : L!WaitsFor(r, t)
  OBVIOUS
<1>7. oflMu = q
  BY <1>1, <1>2, <1>4, <1>5
<1> QED BY <1>1, <1>3, <1>5, <1>6, <1>7

\* The same, and no goroutines wait for each other in a circle, when the calls
\* between flockfile and funlockfile are about the stream they lock.
THEOREM FileLocksCorrect ==
  ASSUME Region \subseteq {"write", "flush"}
  PROVE  L!Spec => []FileLocksSafe
<1>1. L!Init => FilesApart
  BY DEF L!Init, FilesApart
<1>2. FilesInv /\ FilesApart /\ [L!Next]_(L!vars) => FilesApart'
  BY FilesApartStep
<1>3. FilesInv /\ FilesApart => FileLocksSafe
  BY FilesInvWork, NoFileCircle DEF FilesWork, FileLocksSafe
<1> QED BY FilesInit, FilesStep, <1>1, <1>2, <1>3, PTL DEF L!Spec
=============================================================================
