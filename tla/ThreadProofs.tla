---------------------------- MODULE ThreadProofs ----------------------------
(***************************************************************************)
(* Proofs about Thread, for any number of goroutines that join and detach, *)
(* and about ThreadKeys and Signals as MCThreads puts them together, for   *)
(* any number of keys, rounds, callers and pumps.                          *)
(***************************************************************************)
EXTENDS MCThreads, Naturals, TLAPS

-----------------------------------------------------------------------------
(* The inductive invariant. *)

\* The thread's own progress shows in done and retval.
Lifecycle ==
  /\ done <=> pc[Self] \in {"finishing", "freeing", "clearing", "ended"}
  /\ retval = "unset" <=> pc[Self] = "running"
  /\ pc[Self] \in {"running", "destructing", "finishing", "freeing", "clearing", "ended"}
  /\ \A p \in Procs : pc[p] \notin {"running", "destructing", "finishing", "ended"}

\* The swap of reaped decides, once the thread is done, who retires the record.
Swapped ==
  /\ fate = "kept" <=> ~reaped
  /\ reaped => done
  /\ \A a \in Retiring : reaped
  /\ \A a, b \in Retiring : a = b
  /\ \A p \in Procs : pc[p] \in {"join-freeing", "publishing"} => fate = p
  /\ \A p \in Procs : result[p] = "value" => fate = p

\* The value is there until a winner clears it, and the slot until one frees it.
Remains ==
  /\ carrier = "root" /\ ~reaped => rooted
  /\ ~reaped => retval # "cleared"
  /\ \A a \in Retiring : retval = "value"
  /\ \A a \in Actors : pc[a] \in {"clearing", "publishing"} => ~rooted
  /\ reaped /\ Retiring = {} => ~rooted /\ retval = "cleared"

\* A detached thread that has ended unreaped is left to a detacher.
Entrusted ==
  /\ \A p \in Procs : pc[p] = "detached" => detached
  /\ pc[Self] = "ended" /\ detached /\ ~reaped => \E p \in Procs : pc[p] = "detached"

Inv == TypeOK /\ Lifecycle /\ Swapped /\ Remains /\ Entrusted

LEMMA InitInv == Init => Inv
BY ThreadAssumption
   DEF Init, Inv, TypeOK, Lifecycle, Swapped, Remains, Entrusted, Retiring, Actors

LEMMA SelfIdInv ==
  ASSUME Inv, SelfId
  PROVE  Inv'
<1> USE ThreadAssumption DEF Inv, SelfId, Goto, Actors, Retiring
<1>1. TypeOK'
  BY DEF TypeOK
<1>2. Lifecycle'
  BY DEF TypeOK, Lifecycle
<1>3. Swapped'
  BY DEF TypeOK, Lifecycle, Swapped
<1>4. Remains'
  BY DEF TypeOK, Lifecycle, Swapped, Remains
<1>5. Entrusted'
  BY DEF TypeOK, Lifecycle, Entrusted
<1> QED BY <1>1, <1>2, <1>3, <1>4, <1>5

LEMMA ExitInv ==
  ASSUME Inv, Exit
  PROVE  Inv'
<1> USE ThreadAssumption DEF Inv, Exit, Goto, Actors, Retiring
<1>1. TypeOK'
  BY DEF TypeOK
<1>2. Lifecycle'
  BY DEF TypeOK, Lifecycle
<1>3. Swapped'
  BY DEF TypeOK, Lifecycle, Swapped
<1>4. Remains'
  BY DEF TypeOK, Lifecycle, Swapped, Remains
<1>5. Entrusted'
  BY DEF TypeOK, Lifecycle, Entrusted
<1> QED BY <1>1, <1>2, <1>3, <1>4, <1>5

LEMMA CloseDoneInv ==
  ASSUME Inv, CloseDone
  PROVE  Inv'
<1> USE ThreadAssumption DEF Inv, CloseDone, Goto, Actors, Retiring
<1>1. TypeOK'
  BY DEF TypeOK
<1>2. Lifecycle'
  BY DEF TypeOK, Lifecycle
<1>3. Swapped'
  BY DEF TypeOK, Lifecycle, Swapped
<1>4. Remains'
  BY DEF TypeOK, Lifecycle, Swapped, Remains
<1>5. Entrusted'
  BY DEF TypeOK, Lifecycle, Entrusted
<1> QED BY <1>1, <1>2, <1>3, <1>4, <1>5

LEMMA FinishCheckInv ==
  ASSUME Inv, FinishCheck
  PROVE  Inv'
<1> USE ThreadAssumption DEF Inv, FinishCheck, Claim, Goto, Actors, Retiring
<1>1. TypeOK'
  BY DEF TypeOK
<1>2. Lifecycle'
  BY DEF TypeOK, Lifecycle
<1>3. Swapped'
  BY DEF TypeOK, Lifecycle, Swapped
<1>4. Remains'
  BY DEF TypeOK, Lifecycle, Swapped, Remains
<1>5. Entrusted'
  BY DEF TypeOK, Lifecycle, Entrusted
<1> QED BY <1>1, <1>2, <1>3, <1>4, <1>5

LEMMA JoinCallInv ==
  ASSUME Inv, NEW p \in Procs, JoinCall(p)
  PROVE  Inv'
<1> USE ThreadAssumption DEF Inv, JoinCall, Return, Goto, Actors, Retiring
<1>1. TypeOK'
  BY DEF TypeOK
<1>2. Lifecycle'
  BY DEF TypeOK, Lifecycle
<1>3. Swapped'
  BY DEF TypeOK, Lifecycle, Swapped
<1>4. Remains'
  BY DEF TypeOK, Lifecycle, Swapped, Remains
<1>5. Entrusted'
  BY DEF TypeOK, Lifecycle, Entrusted
<1> QED BY <1>1, <1>2, <1>3, <1>4, <1>5

LEMMA JoinCheckInv ==
  ASSUME Inv, NEW p \in Procs, JoinCheck(p)
  PROVE  Inv'
<1> USE ThreadAssumption DEF Inv, JoinCheck, Return, Goto, Actors, Retiring
<1>1. TypeOK'
  BY DEF TypeOK
<1>2. Lifecycle'
  BY DEF TypeOK, Lifecycle
<1>3. Swapped'
  BY DEF TypeOK, Lifecycle, Swapped
<1>4. Remains'
  BY DEF TypeOK, Lifecycle, Swapped, Remains
<1>5. Entrusted'
  BY DEF TypeOK, Lifecycle, Entrusted
<1> QED BY <1>1, <1>2, <1>3, <1>4, <1>5

LEMMA JoinReapInv ==
  ASSUME Inv, NEW p \in Procs, JoinReap(p)
  PROVE  Inv'
<1> USE ThreadAssumption DEF Inv, JoinReap, Claim, Return, Goto, Actors, Retiring
<1>1. TypeOK'
  BY DEF TypeOK
<1>2. Lifecycle'
  BY DEF TypeOK, Lifecycle
<1>3. Swapped'
  BY DEF TypeOK, Lifecycle, Swapped
<1>4. Remains'
  BY DEF TypeOK, Lifecycle, Swapped, Remains
<1>5. Entrusted'
  BY DEF TypeOK, Lifecycle, Entrusted
<1> QED BY <1>1, <1>2, <1>3, <1>4, <1>5

LEMMA JoinPublishInv ==
  ASSUME Inv, NEW p \in Procs, JoinPublish(p)
  PROVE  Inv'
<1> USE ThreadAssumption DEF Inv, JoinPublish, Return, Goto, Actors, Retiring
<1>1. TypeOK'
  BY DEF TypeOK, Remains
<1>2. Lifecycle'
  BY DEF TypeOK, Lifecycle, Swapped
<1>3. Swapped'
  BY DEF TypeOK, Lifecycle, Swapped
<1>4. Remains'
  BY DEF TypeOK, Lifecycle, Swapped, Remains
<1>5. Entrusted'
  BY DEF TypeOK, Lifecycle, Swapped, Entrusted
<1> QED BY <1>1, <1>2, <1>3, <1>4, <1>5

LEMMA DetachCallInv ==
  ASSUME Inv, NEW p \in Procs, DetachCall(p)
  PROVE  Inv'
<1> USE ThreadAssumption DEF Inv, DetachCall, Return, Goto, Actors, Retiring
<1>1. TypeOK'
  BY DEF TypeOK
<1>2. Lifecycle'
  BY DEF TypeOK, Lifecycle
<1>3. Swapped'
  BY DEF TypeOK, Lifecycle, Swapped
<1>4. Remains'
  BY DEF TypeOK, Lifecycle, Swapped, Remains
<1>5. Entrusted'
  BY DEF TypeOK, Lifecycle, Entrusted
<1> QED BY <1>1, <1>2, <1>3, <1>4, <1>5

LEMMA DetachCheckInv ==
  ASSUME Inv, NEW p \in Procs, DetachCheck(p)
  PROVE  Inv'
<1> USE ThreadAssumption DEF Inv, DetachCheck, Return, Goto, Actors, Retiring
<1>1. TypeOK'
  BY DEF TypeOK
<1>2. Lifecycle'
  BY DEF TypeOK, Lifecycle
<1>3. Swapped'
  BY DEF TypeOK, Lifecycle, Swapped
<1>4. Remains'
  BY DEF TypeOK, Lifecycle, Swapped, Remains
<1>5. Entrusted'
  BY DEF TypeOK, Lifecycle, Entrusted
<1> QED BY <1>1, <1>2, <1>3, <1>4, <1>5

LEMMA DetachStoreInv ==
  ASSUME Inv, NEW p \in Procs, DetachStore(p)
  PROVE  Inv'
<1> USE ThreadAssumption DEF Inv, DetachStore, Goto, Actors, Retiring
<1>1. TypeOK'
  BY DEF TypeOK
<1>2. Lifecycle'
  BY DEF TypeOK, Lifecycle
<1>3. Swapped'
  BY DEF TypeOK, Lifecycle, Swapped
<1>4. Remains'
  BY DEF TypeOK, Lifecycle, Swapped, Remains
<1>5. Entrusted'
  BY DEF TypeOK, Lifecycle, Entrusted
<1> QED BY <1>1, <1>2, <1>3, <1>4, <1>5

LEMMA DetachReapInv ==
  ASSUME Inv, NEW p \in Procs, DetachReap(p)
  PROVE  Inv'
<1> USE ThreadAssumption DEF Inv, DetachReap, Claim, Return, Goto, Actors, Retiring
<1>1. TypeOK'
  BY DEF TypeOK
<1>2. Lifecycle'
  BY DEF TypeOK, Lifecycle
<1>3. Swapped'
  BY DEF TypeOK, Lifecycle, Swapped
<1>4. Remains'
  BY DEF TypeOK, Lifecycle, Swapped, Remains
<1>5. Entrusted'
  BY DEF TypeOK, Lifecycle, Entrusted
<1> QED BY <1>1, <1>2, <1>3, <1>4, <1>5

LEMMA FreeSlotInv ==
  ASSUME Inv, NEW a \in Actors, FreeSlot(a)
  PROVE  Inv'
<1> USE ThreadAssumption DEF Inv, FreeSlot, Goto, Actors, Retiring
<1>1. TypeOK'
  BY DEF TypeOK
<1>2. Lifecycle'
  BY DEF TypeOK, Lifecycle
<1>3. Swapped'
  BY DEF TypeOK, Lifecycle, Swapped
<1>4. Remains'
  BY DEF TypeOK, Lifecycle, Swapped, Remains
<1>5. Entrusted'
  BY DEF TypeOK, Lifecycle, Entrusted
<1> QED BY <1>1, <1>2, <1>3, <1>4, <1>5

LEMMA ClearInv ==
  ASSUME Inv, NEW a \in Actors, Clear(a)
  PROVE  Inv'
<1> USE ThreadAssumption DEF Inv, Clear, Return, Goto, Actors, Retiring
<1>1. TypeOK'
  BY DEF TypeOK
<1>2. Lifecycle'
  BY DEF TypeOK, Lifecycle, Swapped
<1>3. Swapped'
  BY DEF TypeOK, Lifecycle, Swapped
<1>4. Remains'
  BY DEF TypeOK, Lifecycle, Swapped, Remains
<1>5. Entrusted'
  BY DEF TypeOK, Lifecycle, Swapped, Entrusted
<1> QED BY <1>1, <1>2, <1>3, <1>4, <1>5

-----------------------------------------------------------------------------
(* The theorems.                                                           *)

LEMMA StepInv == Inv /\ [Next]_vars => Inv'
<1> SUFFICES ASSUME Inv, [Next]_vars PROVE Inv'
  OBVIOUS
<1>1. CASE SelfStep \/ SelfId
  BY <1>1, SelfIdInv, ExitInv, CloseDoneInv, FinishCheckInv, FreeSlotInv, ClearInv
     DEF SelfStep, Actors
<1>2. ASSUME NEW p \in Procs, JoinCall(p) \/ JoinStep(p) PROVE Inv'
  BY <1>2, JoinCallInv, JoinCheckInv, JoinReapInv, JoinPublishInv DEF JoinStep
<1>3. ASSUME NEW p \in Procs, DetachCall(p) \/ DetachStep(p) PROVE Inv'
  BY <1>3, DetachCallInv, DetachCheckInv, DetachStoreInv, DetachReapInv DEF DetachStep
<1>4. ASSUME NEW p \in Procs, FreeSlot(p) \/ Clear(p) PROVE Inv'
  BY <1>4, FreeSlotInv, ClearInv DEF Actors
<1>5. CASE UNCHANGED vars
  BY <1>5 DEF vars, Inv, TypeOK, Lifecycle, Swapped, Remains, Entrusted, Retiring
<1> QED BY <1>1, <1>2, <1>3, <1>4, <1>5 DEF Next

LEMMA Invariance == Spec => []Inv
<1> QED BY InitInv, StepInv, PTL DEF Spec

\* The types.
THEOREM ThreadTypes == Spec => []TypeOK
<1>1. Inv => TypeOK
  BY DEF Inv
<1> QED BY <1>1, Invariance, PTL

\* Of join, detach and finish, one actor retires the record; a join that
\* succeeds has the value; a running thread keeps its id; and nothing is left
\* behind (thread.go).
THEOREM ThreadRetiredOnce == Spec => []RetiredOnce
<1>1. Inv => RetiredOnce
  <2> SUFFICES ASSUME Inv PROVE RetiredOnce
    OBVIOUS
  <2>1. OneReaper
    BY DEF Inv, Swapped, OneReaper
  <2>2. JoinGetsValue
    BY DEF Inv, Swapped, Remains, JoinGetsValue, Retiring, Actors
  <2>3. RunningKeepsId
    BY DEF Inv, TypeOK, Swapped, Remains, RunningKeepsId
  <2>4. ASSUME Quiet, detached \/ reaped PROVE reaped /\ ~rooted /\ retval = "cleared"
    <3>1. Retiring = {}
      BY <2>4 DEF Quiet, Retiring, Actors
    <3>2. reaped
      BY <2>4 DEF Inv, Entrusted, Quiet
    <3> QED BY <3>1, <3>2 DEF Inv, Remains
  <2> QED BY <2>1, <2>2, <2>3, <2>4 DEF RetiredOnce, NothingLeftBehind
<1> QED BY <1>1, Invariance, PTL

\* thread.go keeps its promise: the result of a thread that has
\* finished goes to one join, or is discarded because somebody detached it.
THEOREM ThreadKeepsPromise == Spec => ImplementsThreadResult
<1>1. Init => PromiseInit
  BY DEF Init, PromiseInit
<1>2. ASSUME Inv, [Next]_vars
      PROVE  PromiseNext \/ UNCHANGED <<done, detached, fate>>
  <2>1. CASE SelfStep \/ SelfId
    <3>1. CASE CloseDone
      BY <1>2, <3>1 DEF CloseDone, Inv, Lifecycle, TypeOK, PromiseNext, Finish
    <3>2. CASE FinishCheck
      BY <1>2, <3>2 DEF FinishCheck, Claim, Inv, Lifecycle, Swapped, PromiseNext, Discard
    <3>3. CASE Exit \/ FreeSlot(Self) \/ Clear(Self) \/ SelfId
      BY <3>3 DEF Exit, FreeSlot, Clear, SelfId
    <3> QED BY <2>1, <3>1, <3>2, <3>3 DEF SelfStep
  <2>2. ASSUME NEW p \in Procs, JoinStep(p) \/ DetachStep(p)
        PROVE  PromiseNext \/ UNCHANGED <<done, detached, fate>>
    <3>1. CASE JoinReap(p)
      BY <1>2, <3>1 DEF JoinReap, Claim, Inv, Swapped, PromiseNext, Join
    <3>2. CASE DetachStore(p)
      BY <1>2, <3>2 DEF DetachStore, Inv, TypeOK, PromiseNext, Detach
    <3>3. CASE DetachReap(p)
      BY <1>2, <3>3 DEF DetachReap, Claim, Inv, Swapped, Entrusted, PromiseNext, Discard
    <3>4. CASE JoinCheck(p) \/ JoinPublish(p) \/ DetachCheck(p)
      BY <3>4 DEF JoinCheck, JoinPublish, DetachCheck
    <3> QED BY <2>2, <3>1, <3>2, <3>3, <3>4 DEF JoinStep, DetachStep
  <2>3. ASSUME NEW p \in Procs, JoinCall(p) \/ DetachCall(p) \/ FreeSlot(p) \/ Clear(p)
        PROVE  UNCHANGED <<done, detached, fate>>
    BY <2>3 DEF JoinCall, DetachCall, FreeSlot, Clear
  <2>4. CASE UNCHANGED vars
    BY <2>4 DEF vars
  <2> QED BY <1>2, <2>1, <2>2, <2>3, <2>4 DEF Next
<1> QED BY <1>1, <1>2, Invariance, PTL DEF Spec, ImplementsThreadResult
-----------------------------------------------------------------------------
(* ThreadKeys: the inductive invariant of the part "keys". *)

\* Destructors are only run when the goroutine has ended, and a value is only
\* ever under a key that the map has an entry for.
Calls ==
  /\ calling # NoKey => K!Running
  /\ \A k \in Keys : tls[k] # "nil" => k \in present

\* What is left to destroy while no destructor of this round has run is still
\* ahead of the range.
Ahead ==
  phase = "prompt" /\ ~more /\ calling = NoKey => \A k \in Keys : K!NeedsDtor(k) => k \in left

KeysInv == K!TypeOK /\ K!NoDoubleDestroy /\ Calls /\ Ahead /\ K!NoneForgotten

LEMMA KeysFacts == MaxRounds \in Nat /\ MaxRounds > 0 /\ NoKey \notin Keys
BY PartsConstants DEF K!KeysConstants

LEMMA KeysInit == K!Init => KeysInv
<1> SUFFICES ASSUME K!Init PROVE KeysInv
  OBVIOUS
<1>1. K!TypeOK
  <2>1. tls \in [Keys -> {"nil", "live", "spent"}]
    BY DEF K!Init
  <2>2. round \in 0..MaxRounds
    BY KeysFacts DEF K!Init
  <2>3. calling \in Keys \cup {NoKey}
    BY DEF K!Init
  <2>4. present \subseteq Keys /\ deleted \subseteq Keys /\ left \subseteq present
    BY DEF K!Init
  <2> QED
    BY <2>1, <2>2, <2>3, <2>4 DEF K!Init, K!TypeOK
<1>2. K!NoDoubleDestroy
  BY DEF K!Init, K!NoDoubleDestroy
<1>3. Calls
  BY DEF K!Init, Calls
<1>4. Ahead
  BY DEF K!Init, Ahead
<1>5. K!NoneForgotten
  BY DEF K!Init, K!NoneForgotten
<1> QED
  BY <1>1, <1>2, <1>3, <1>4, <1>5 DEF KeysInv

LEMMA SetSpecificInv ==
  ASSUME KeysInv, NEW k \in Keys, NEW v \in {"nil", "live"}, K!SetSpecific(k, v)
  PROVE  KeysInv'
<1>1. K!TypeOK'
  BY DEF KeysInv, K!TypeOK, K!SetSpecific
<1>2. \A x \in Keys : tls'[x] = IF x = k THEN v ELSE tls[x]
  BY DEF KeysInv, K!TypeOK, K!SetSpecific
<1>3. K!NoDoubleDestroy'
  BY <1>2 DEF KeysInv, K!NoDoubleDestroy
<1>4. Calls'
  BY <1>2 DEF KeysInv, Calls, K!Running, K!SetSpecific
<1>5. Ahead'
  BY DEF Ahead, K!SetSpecific
<1>6. K!NoneForgotten'
  BY DEF K!NoneForgotten, K!SetSpecific
<1> QED
  BY <1>1, <1>3, <1>4, <1>5, <1>6 DEF KeysInv

LEMMA KeyDeleteInv ==
  ASSUME KeysInv, NEW k \in Keys, K!KeyDelete(k)
  PROVE  KeysInv'
<1>1. K!TypeOK'
  BY DEF KeysInv, K!TypeOK, K!KeyDelete
<1>2. \A x \in Keys : K!NeedsDtor(x)' => K!NeedsDtor(x)
  BY DEF K!NeedsDtor, K!KeyDelete
<1>3. K!NoDoubleDestroy'
  BY DEF KeysInv, K!NoDoubleDestroy, K!KeyDelete
<1>4. Calls'
  BY DEF KeysInv, Calls, K!Running, K!KeyDelete
<1>5. Ahead'
  BY <1>2 DEF KeysInv, Ahead, K!KeyDelete
<1>6. K!NoneForgotten'
  BY <1>2 DEF KeysInv, K!NoneForgotten, K!KeyDelete
<1> QED
  BY <1>1, <1>3, <1>4, <1>5, <1>6 DEF KeysInv

LEMMA FinishInv ==
  ASSUME KeysInv, K!Finish
  PROVE  KeysInv'
<1>1. K!TypeOK'
  <2>1. round' \in 0..MaxRounds
    BY KeysFacts DEF K!Finish
  <2>2. phase' \in {"running", "prompt", "dead", "collect", "gone"} /\ more' \in BOOLEAN
    BY DEF K!Finish
  <2> QED
    BY <2>1, <2>2 DEF KeysInv, K!TypeOK, K!Finish
<1>2. calling = NoKey
  BY DEF KeysInv, Calls, K!Running, K!Finish
<1>3. \A x \in Keys : K!NeedsDtor(x)' => x \in present
  BY DEF KeysInv, Calls, K!NeedsDtor, K!Finish
<1>4. K!NoDoubleDestroy'
  BY DEF KeysInv, K!NoDoubleDestroy, K!Finish
<1>5. Calls'
  BY <1>2 DEF KeysInv, Calls, K!Finish
<1>6. Ahead'
  BY <1>3 DEF Ahead, K!Finish
<1>7. K!NoneForgotten'
  BY <1>3 DEF K!NoneForgotten, K!Finish
<1> QED
  BY <1>1, <1>4, <1>5, <1>6, <1>7 DEF KeysInv

LEMMA CollectInv ==
  ASSUME KeysInv, K!Collect
  PROVE  KeysInv'
<1>1. K!TypeOK'
  <2>1. round' \in 0..MaxRounds
    BY KeysFacts DEF K!Collect
  <2>2. phase' \in {"running", "prompt", "dead", "collect", "gone"} /\ more' \in BOOLEAN
    BY DEF K!Collect
  <2> QED
    BY <2>1, <2>2 DEF KeysInv, K!TypeOK, K!Collect
<1>2. calling = NoKey
  BY DEF KeysInv, Calls, K!Running, K!Collect
<1>3. K!NoDoubleDestroy'
  BY DEF KeysInv, K!NoDoubleDestroy, K!Collect
<1>4. Calls'
  BY <1>2 DEF KeysInv, Calls, K!Collect
<1>5. Ahead'
  BY DEF Ahead, K!Collect
<1>6. K!NoneForgotten'
  BY DEF K!NoneForgotten, K!Collect
<1> QED
  BY <1>1, <1>3, <1>4, <1>5, <1>6 DEF KeysInv

LEMMA VisitInv ==
  ASSUME KeysInv, NEW k \in Keys, K!Visit(k)
  PROVE  KeysInv'
<1>1. K!TypeOK'
  BY DEF KeysInv, K!TypeOK, K!Visit
<1>2. \A x \in Keys : tls'[x] = IF x = k /\ K!NeedsDtor(k) THEN "nil" ELSE tls[x]
  BY DEF KeysInv, K!TypeOK, K!Visit
<1>3. K!NoDoubleDestroy'
  BY <1>2 DEF KeysInv, K!NoDoubleDestroy
<1>4. Calls'
  BY <1>2 DEF KeysInv, Calls, K!Running, K!Visit
<1>5. Ahead'
  <2>1. ASSUME phase = "prompt", ~more, calling' = NoKey
        PROVE  \A x \in Keys : K!NeedsDtor(x)' => x \in left'
    <3>1. calling = NoKey /\ ~K!NeedsDtor(k) /\ left' = left \ {k} /\ deleted' = deleted
      BY <2>1, KeysFacts DEF K!Visit
    <3>2. \A x \in Keys : K!NeedsDtor(x)' => K!NeedsDtor(x)
      BY <1>2, <3>1 DEF K!NeedsDtor
    <3> QED
      BY <2>1, <3>1, <3>2 DEF KeysInv, Ahead
  <2> QED
    BY <2>1 DEF Ahead, K!Visit
<1>6. K!NoneForgotten'
  BY DEF K!NoneForgotten, K!Visit, K!Running
<1> QED
  BY <1>1, <1>3, <1>4, <1>5, <1>6 DEF KeysInv

LEMMA DtorReturnsInv ==
  ASSUME KeysInv, K!DtorReturns
  PROVE  KeysInv'
<1>1. K!TypeOK'
  BY DEF KeysInv, K!TypeOK, K!DtorReturns
<1>2. K!NoDoubleDestroy'
  BY DEF KeysInv, K!NoDoubleDestroy, K!DtorReturns
<1>3. Calls'
  BY DEF KeysInv, Calls, K!DtorReturns
<1>4. Ahead'
  BY DEF Ahead, K!DtorReturns
<1>5. K!NoneForgotten'
  BY DEF KeysInv, Calls, K!Running, K!NoneForgotten, K!DtorReturns
<1> QED
  BY <1>1, <1>2, <1>3, <1>4, <1>5 DEF KeysInv

LEMMA EndRoundInv ==
  ASSUME KeysInv, K!EndRound
  PROVE  KeysInv'
<1>1. K!TypeOK'
  <2>1. round' \in 0..MaxRounds
    BY KeysFacts DEF KeysInv, K!TypeOK, K!EndRound
  <2>2. phase' \in {"running", "prompt", "dead", "collect", "gone"} /\ more' \in BOOLEAN
    BY DEF KeysInv, K!TypeOK, K!EndRound
  <2>3. left' \subseteq present'
    BY DEF KeysInv, K!TypeOK, K!EndRound
  <2> QED
    BY <2>1, <2>2, <2>3 DEF KeysInv, K!TypeOK, K!EndRound
<1>2. \A x \in Keys : K!NeedsDtor(x)' <=> K!NeedsDtor(x)
  BY DEF K!NeedsDtor, K!EndRound
<1>3. K!NoDoubleDestroy'
  BY DEF KeysInv, K!NoDoubleDestroy, K!EndRound
<1>4. Calls'
  BY DEF KeysInv, Calls, K!EndRound
<1>5. Ahead'
  <2>1. CASE more /\ round < MaxRounds
    BY <2>1, <1>2 DEF KeysInv, Calls, Ahead, K!NeedsDtor, K!EndRound
  <2>2. CASE ~(more /\ round < MaxRounds)
    BY <2>2 DEF Ahead, K!EndRound
  <2> QED
    BY <2>1, <2>2
<1>6. K!NoneForgotten'
  <2>1. CASE more /\ round < MaxRounds
    BY <2>1 DEF K!NoneForgotten, K!EndRound, K!Running
  <2>2. CASE ~(more /\ round < MaxRounds) /\ phase = "prompt" /\ round < MaxRounds
    <3>1. \A x \in Keys : ~K!NeedsDtor(x)
      BY <2>2 DEF KeysInv, K!TypeOK, Ahead, K!EndRound
    <3> QED
      BY <3>1, <1>2 DEF K!NoneForgotten
  <2>3. CASE ~(more /\ round < MaxRounds) /\ ~(phase = "prompt" /\ round < MaxRounds)
    BY <2>3 DEF K!NoneForgotten, K!EndRound, K!Running
  <2> QED
    BY <2>1, <2>2, <2>3
<1> QED
  BY <1>1, <1>3, <1>4, <1>5, <1>6 DEF KeysInv

LEMMA KeysKept ==
  ASSUME KeysInv, UNCHANGED keyVars
  PROVE  KeysInv'
<1>1. K!TypeOK' /\ K!NoDoubleDestroy'
  BY DEF KeysInv, keyVars, K!TypeOK, K!NoDoubleDestroy
<1>2. Calls' /\ Ahead' /\ K!NoneForgotten'
  BY DEF KeysInv, keyVars, Calls, K!Running, Ahead, K!NeedsDtor, K!NoneForgotten
<1> QED
  BY <1>1, <1>2 DEF KeysInv

LEMMA KeysStep == KeysInv /\ [MCNext]_allVars => KeysInv'
<1> SUFFICES ASSUME KeysInv, [MCNext]_allVars PROVE KeysInv'
  OBVIOUS
<1>1. CASE K!Next
  BY <1>1, SetSpecificInv, KeyDeleteInv, FinishInv, CollectInv, VisitInv, DtorReturnsInv,
     EndRoundInv DEF K!Next, K!DtorStep
<1>2. CASE UNCHANGED keyVars
  BY <1>2, KeysKept
<1> QED
  BY <1>1, <1>2 DEF MCNext, allVars

\* What a step may do to a value.
LEMMA ValueStep ==
  ASSUME KeysInv, [MCNext]_allVars, NEW k \in Keys, tls[k] = "live", tls'[k] # "live"
  PROVE  calling' = IF phase = "running" THEN NoKey ELSE IF calling = NoKey THEN k ELSE calling
<1>1. CASE K!Next
  <2>1. ASSUME NEW x \in Keys, NEW v \in {"nil", "live"}, K!SetSpecific(x, v)
        PROVE  calling' = calling /\ (phase = "running" \/ calling # NoKey)
    BY <2>1 DEF K!SetSpecific
  <2>2. ASSUME NEW x \in Keys, K!Visit(x)
        PROVE  phase # "running" /\ calling = NoKey /\ calling' = k
    BY <2>2 DEF KeysInv, K!TypeOK, K!Visit, K!Running
  <2>3. (\E x \in Keys : \E v \in {"nil", "live"} : K!SetSpecific(x, v)) \/ \E x \in Keys : K!Visit(x)
    BY <1>1 DEF K!Next, K!DtorStep, K!KeyDelete, K!Finish, K!Collect, K!DtorReturns, K!EndRound
  <2>4. phase = "running" => calling = NoKey
    BY DEF KeysInv, Calls, K!Running
  <2> QED
    BY <2>1, <2>2, <2>3, <2>4
<1>2. CASE UNCHANGED keyVars
  BY <1>2 DEF keyVars
<1> QED
  BY <1>1, <1>2 DEF MCNext, allVars

\* Keys and destructors, for any number of keys and of rounds: no value is
\* handed to a destructor twice, over the prompt run and the collector's
\* (pthread_key.go:121-161); none leaves the map except to its destructor or
\* because the goroutine set another; and a prompt run that ends before its last
\* round leaves nothing to destroy.
THEOREM KeysCorrect == MCSpec => KeysSafe
<1>1. MCInit => KeysInv
  BY KeysInit DEF MCInit
<1>2. KeysInv /\ [MCNext]_allVars => KeysInv'
  BY KeysStep
<1>3. KeysInv => K!TypeOK /\ K!NoDoubleDestroy /\ K!NoneForgotten
  BY DEF KeysInv
<1>4. KeysInv /\ [MCNext]_allVars =>
        [\A k \in Keys :
           tls[k] = "live" /\ tls'[k] # "live" =>
             calling' = IF phase = "running" THEN NoKey
                        ELSE IF calling = NoKey THEN k ELSE calling]_(K!vars)
  BY ValueStep
<1> QED
  BY <1>1, <1>2, <1>3, <1>4, PTL DEF MCSpec, KeysSafe, K!ValuesAreNotLost

-----------------------------------------------------------------------------
(* Signals: the inductive invariant of the parts "signals" and "one-caller". *)

\* With one caller the registration lags behind the table only by the call in
\* progress.
OneCaller ==
  part = "one-caller" =>
    /\ \A p \in Callers \ {Caller} : want[p] = "none"
    /\ want[Caller] = "none" => (current # 0 <=> table # "dfl")
    /\ want[Caller] # "none" => want[Caller] = table

SignalsInv == G!TypeOK /\ G!OnlyCurrentIsOpen /\ OneCaller

\* The steps of the two parts.
SignalsNext ==
  /\ G!Next
  /\ part = "one-caller" => \A p \in Callers \ {Caller} : want'[p] = "none"
  /\ UNCHANGED part

LEMMA SignalFacts ==
  /\ MaxPumps \in Nat /\ MaxPumps > 0 /\ Caller \in Callers
  /\ "dfl" \notin Handlers /\ "ign" \notin Handlers /\ "none" \notin Handlers
BY PartsConstants DEF G!SignalConstants

LEMMA SignalsInit == G!Init => SignalsInv
<1> SUFFICES ASSUME G!Init PROVE SignalsInv
  OBVIOUS
<1>1. G!TypeOK
  <2>1. current \in 0..MaxPumps /\ made \in 0..MaxPumps
    BY SignalFacts DEF G!Init
  <2>2. open \in [G!Pumps -> BOOLEAN] /\ full \in [G!Pumps -> BOOLEAN]
    BY DEF G!Init
  <2>3. pump \in [G!Pumps -> Handlers \cup {"none", "waiting", "ended"}]
    BY DEF G!Init
  <2>4. want \in [Callers -> G!Dispositions \cup {"none"}]
    BY DEF G!Init
  <2> QED
    BY <2>1, <2>2, <2>3, <2>4 DEF G!Init, G!TypeOK, G!Dispositions
<1>2. G!OnlyCurrentIsOpen
  BY DEF G!Init, G!OnlyCurrentIsOpen, G!Pumps
<1>3. OneCaller
  BY SignalFacts DEF G!Init, OneCaller
<1> QED
  BY <1>1, <1>2, <1>3 DEF SignalsInv

LEMMA SignalTypes == ASSUME G!TypeOK, G!Next PROVE G!TypeOK'
<1> USE SignalFacts DEF G!TypeOK, G!Pumps, G!Dispositions
<1>1. ASSUME NEW p \in Callers, NEW h \in G!Dispositions, G!Swap(p, h) PROVE G!TypeOK'
  BY <1>1 DEF G!Swap
<1>2. ASSUME NEW p \in Callers, G!Watch(p) PROVE G!TypeOK'
  <2>1. CASE current # 0
    BY <1>2, <2>1 DEF G!Watch
  <2>2. CASE current = 0
    <3>1. made + 1 \in 1..MaxPumps /\ made + 1 \in 0..MaxPumps
      BY <1>2, <2>2 DEF G!Watch
    <3>2. current' \in 0..MaxPumps /\ made' \in 0..MaxPumps
      BY <1>2, <2>2, <3>1 DEF G!Watch
    <3>3. open' \in [1..MaxPumps -> BOOLEAN]
      BY <1>2, <2>2, <3>1 DEF G!Watch
    <3>4. pump' \in [1..MaxPumps -> Handlers \cup {"none", "waiting", "ended"}]
      BY <1>2, <2>2, <3>1 DEF G!Watch
    <3>5. want' \in [Callers -> (Handlers \cup {"dfl", "ign"}) \cup {"none"}]
      BY <1>2 DEF G!Watch
    <3> QED
      BY <1>2, <3>2, <3>3, <3>4, <3>5 DEF G!Watch
  <2> QED
    BY <2>1, <2>2
<1>3. ASSUME NEW p \in Callers, G!Default(p) PROVE G!TypeOK'
  BY <1>3 DEF G!Default
<1>4. ASSUME G!Deliver PROVE G!TypeOK'
  BY <1>4 DEF G!Deliver
<1>5. ASSUME NEW c \in G!Pumps, G!PumpReceive(c) PROVE G!TypeOK'
  BY <1>5 DEF G!PumpReceive
<1>6. ASSUME NEW c \in G!Pumps, G!HandlerReturns(c) PROVE G!TypeOK'
  BY <1>6 DEF G!HandlerReturns
<1>7. ASSUME NEW c \in G!Pumps, G!PumpEnds(c) PROVE G!TypeOK'
  BY <1>7 DEF G!PumpEnds
<1> QED
  BY <1>1, <1>2, <1>3, <1>4, <1>5, <1>6, <1>7 DEF G!Next

LEMMA ChannelsInv == ASSUME G!TypeOK, G!OnlyCurrentIsOpen, G!Next PROVE G!OnlyCurrentIsOpen'
<1>1. ASSUME NEW p \in Callers, G!Watch(p) PROVE G!OnlyCurrentIsOpen'
  <2>1. CASE current # 0
    BY <1>1, <2>1 DEF G!Watch, G!OnlyCurrentIsOpen
  <2>2. CASE current = 0
    <3>1. \A c \in G!Pumps : open'[c] = IF c = made + 1 THEN TRUE ELSE open[c]
      BY <1>1, <2>2 DEF G!Watch, G!TypeOK
    <3>2. \A c \in G!Pumps : c # 0
      BY DEF G!Pumps
    <3> QED
      BY <1>1, <2>2, <3>1, <3>2 DEF G!Watch, G!OnlyCurrentIsOpen
  <2> QED
    BY <2>1, <2>2
<1>2. ASSUME NEW p \in Callers, G!Default(p) PROVE G!OnlyCurrentIsOpen'
  <2>1. \A c \in G!Pumps : c # 0
    BY DEF G!Pumps
  <2>2. \A c \in G!Pumps : open'[c] = IF c = current THEN FALSE ELSE open[c]
    BY <1>2, <2>1 DEF G!Default, G!TypeOK
  <2> QED
    BY <1>2, <2>1, <2>2 DEF G!Default, G!OnlyCurrentIsOpen
<1>3. CASE UNCHANGED <<open, current>>
  BY <1>3 DEF G!OnlyCurrentIsOpen
<1> QED
  BY <1>1, <1>2, <1>3
  DEF G!Next, G!Swap, G!Deliver, G!PumpReceive, G!HandlerReturns, G!PumpEnds

LEMMA OneCallerInv ==
  ASSUME G!TypeOK, OneCaller, SignalsNext, part = "one-caller"
  PROVE  OneCaller'
<1>1. Caller \in Callers /\ "none" \notin G!Dispositions
  BY SignalFacts DEF G!Dispositions
<1>2. \A p \in Callers \ {Caller} : want[p] = "none" /\ want'[p] = "none"
  BY DEF OneCaller, SignalsNext
<1>3. ASSUME NEW p \in Callers, NEW h \in G!Dispositions, G!Swap(p, h) PROVE OneCaller'
  <2>1. want'[p] = h /\ h # "none"
    BY <1>1, <1>3 DEF G!Swap, G!TypeOK
  <2>2. p = Caller
    BY <1>2, <2>1
  <2> QED
    BY <1>2, <1>3, <2>1, <2>2 DEF OneCaller, G!Swap
<1>4. ASSUME NEW p \in Callers, G!Watch(p) PROVE OneCaller'
  <2>1. p = Caller
    BY <1>1, <1>2, <1>4 DEF G!Watch
  <2>2. want'[Caller] = "none" /\ want[Caller] # "none" /\ want[Caller] # "dfl"
    BY <1>1, <1>4, <2>1 DEF G!Watch, G!TypeOK
  <2>3. table' = table /\ table # "dfl"
    BY <1>4, <2>2 DEF OneCaller, G!Watch
  <2>4. current' # 0
    <3>1. made \in Nat
      BY SignalFacts DEF G!TypeOK
    <3>2. IF current # 0 THEN current' = current ELSE current' = made + 1
      BY <1>4 DEF G!Watch
    <3> QED
      BY <3>1, <3>2
  <2> QED
    BY <1>2, <2>2, <2>3, <2>4 DEF OneCaller
<1>5. ASSUME NEW p \in Callers, G!Default(p) PROVE OneCaller'
  <2>1. p = Caller
    BY <1>1, <1>2, <1>5 DEF G!Default, G!Dispositions
  <2>2. want'[Caller] = "none" /\ want[Caller] = "dfl" /\ "dfl" # "none"
    BY <1>1, <1>5, <2>1 DEF G!Default, G!TypeOK
  <2>3. table' = table /\ table = "dfl" /\ current' = 0
    BY <1>5, <2>2 DEF OneCaller, G!Default
  <2> QED
    BY <1>2, <2>2, <2>3 DEF OneCaller
<1>6. CASE UNCHANGED <<table, current, want>>
  BY <1>6 DEF OneCaller, SignalsNext
<1> QED
  BY <1>3, <1>4, <1>5, <1>6
  DEF SignalsNext, G!Next, G!Deliver, G!PumpReceive, G!HandlerReturns, G!PumpEnds

LEMMA SignalsStep == SignalsInv /\ [MCNext]_allVars => SignalsInv'
<1> SUFFICES ASSUME SignalsInv, [MCNext]_allVars PROVE SignalsInv'
  OBVIOUS
<1>1. CASE SignalsNext
  <2>1. G!TypeOK' /\ G!OnlyCurrentIsOpen'
    BY <1>1, SignalTypes, ChannelsInv DEF SignalsInv, SignalsNext
  <2>2. CASE part = "one-caller"
    BY <1>1, <2>1, <2>2, OneCallerInv DEF SignalsInv
  <2>3. CASE part # "one-caller"
    BY <1>1, <2>1, <2>3 DEF SignalsInv, OneCaller, SignalsNext
  <2> QED
    BY <2>2, <2>3
<1>2. CASE UNCHANGED <<part, signalVars>>
  BY <1>2 DEF signalVars, SignalsInv, G!TypeOK, G!OnlyCurrentIsOpen, OneCaller
<1> QED
  BY <1>1, <1>2 DEF MCNext, allVars, SignalsNext

\* Only a delivery without any subscription ends the process.
LEMMA KilledStep ==
  ASSUME SignalsInv, [MCNext]_allVars, part = "one-caller", G!Quiet, ~killed, killed'
  PROVE  table = "dfl"
<1>1. G!Deliver
  BY DEF MCNext, allVars, signalVars, G!Next, G!Swap, G!Watch, G!Default, G!PumpReceive,
         G!HandlerReturns, G!PumpEnds
<1>2. current = 0
  BY <1>1 DEF G!Deliver
<1>3. want[Caller] = "none"
  BY SignalFacts DEF G!Quiet
<1> QED
  BY <1>2, <1>3 DEF SignalsInv, OneCaller

\* Signals, for any number of pumps: however many goroutines call signal(), the
\* registered channel is the only open one, so that no registration is leaked
\* and os/signal never sends to a closed channel; and with one caller the pump
\* is registered exactly when the table asks for it, so that a signal with a
\* handler never ends the process (signal.go:41-114).
THEOREM SignalsCorrect == MCSpec => SignalsSafe
<1>1. MCInit => SignalsInv
  BY SignalsInit DEF MCInit
<1>2. SignalsInv /\ [MCNext]_allVars => SignalsInv'
  BY SignalsStep
<1>3. SignalsInv => G!TypeOK /\ G!OnlyCurrentIsOpen
  BY DEF SignalsInv
<1>4. SignalsInv => (part = "one-caller" => G!TableMatchesPump)
  BY SignalFacts DEF SignalsInv, OneCaller, G!TableMatchesPump, G!Quiet
<1>5. SignalsInv /\ [MCNext]_allVars =>
        [part = "one-caller" /\ G!Quiet /\ ~killed /\ killed' => table = "dfl"]_signalVars
  BY KilledStep
<1> QED
  BY <1>1, <1>2, <1>3, <1>4, <1>5, PTL DEF MCSpec, SignalsSafe
=============================================================================
