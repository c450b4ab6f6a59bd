------------------------------- MODULE Thread -------------------------------
(***************************************************************************)
(* One thread record of thread.go, from pthread_create to the moment its   *)
(* table slot and its result are gone.  The finishing goroutine (Self) and *)
(* any number of goroutines in pthread_join and pthread_detach race on the *)
(* atomic words detached and reaped and on the channel done; whoever wins  *)
(* the swap of reaped retires the record.                                  *)
(*                                                                         *)
(* "root" threads are known by an id of threadTab, and "managed" (mlib)    *)
(* ones by a direct pointer, getting an id only when they ask for it.      *)
(***************************************************************************)
CONSTANTS
  Procs,  \* goroutines that join or detach the thread
  Self    \* the thread

ASSUME ThreadAssumption == Self \notin Procs /\ "discarded" \notin Procs /\ "kept" \notin Procs

VARIABLES
  carrier,   \* "root" or "managed"
  done,      \* the channel is closed
  retval,    \* threadState.retval: "unset", "value" or "cleared"
  detached,
  reaped,
  rooted,    \* threadState.id is not zero, and names a slot of threadTab
  pc,
  result,    \* what the last call of each goroutine returned
  fate       \* ghost: who won the record, and why

vars == <<carrier, done, retval, detached, reaped, rooted, pc, result, fate>>

Actors == Procs \cup {Self}

Goto(a, l) == pc' = [pc EXCEPT ![a] = l]
Return(p, r) == Goto(p, "idle") /\ result' = [result EXCEPT ![p] = r]

\* The calls find the record: by its id, or by a direct pointer.
Found == rooted \/ carrier = "managed"

-----------------------------------------------------------------------------

\* pthread_self of a managed thread gives it an id (installThreadHandle).
SelfId ==
  /\ pc[Self] \in {"running", "destructing"}
  /\ ~rooted
  /\ rooted' = TRUE
  /\ UNCHANGED <<carrier, done, retval, detached, reaped, pc, result, fate>>

\* The start routine returns, or calls pthread_exit.
Exit ==
  /\ pc[Self] = "running"
  /\ retval' = "value"
  /\ Goto(Self, "destructing")
  /\ UNCHANGED <<carrier, done, detached, reaped, rooted, result, fate>>

\* The key destructors have run: close(done).
CloseDone ==
  /\ pc[Self] = "destructing"
  /\ done' = TRUE
  /\ Goto(Self, "finishing")
  /\ UNCHANGED <<carrier, retval, detached, reaped, rooted, result, fate>>

\* Faulty variant, for mutation: reap by a load and a store.
Claim_NotAtomic(a, why, next) ==
  /\ reaped' = TRUE
  /\ fate' = why
  /\ Goto(a, next)
  /\ UNCHANGED result

\* reap's swap of reaped, won by a.
Claim(a, why, next) ==
  /\ ~reaped
  /\ reaped' = TRUE
  /\ fate' = why
  /\ Goto(a, next)
  /\ UNCHANGED result

\* After close(done): a detached thread reaps itself.
FinishCheck ==
  /\ pc[Self] = "finishing"
  /\ \/ detached /\ Claim(Self, "discarded", "freeing")
     \/ /\ ~detached \/ reaped
        /\ Goto(Self, "ended")
        /\ UNCHANGED <<reaped, fate, result>>
  /\ UNCHANGED <<carrier, done, retval, detached, rooted>>

-----------------------------------------------------------------------------

\* joinThread and detachThread, with the record looked up first.
JoinCall(p) ==
  /\ pc[p] = "idle"
  /\ IF Found
     THEN Goto(p, "join-check") /\ UNCHANGED result
     ELSE Return(p, "srch")
  /\ UNCHANGED <<carrier, done, retval, detached, reaped, rooted, fate>>

JoinCheck(p) ==
  /\ pc[p] = "join-check"
  /\ IF detached
     THEN Return(p, "inval")
     ELSE Goto(p, "joining") /\ UNCHANGED result
  /\ UNCHANGED <<carrier, done, retval, detached, reaped, rooted, fate>>

\* <-done, and the attempt to reap.
JoinReap(p) ==
  /\ pc[p] = "joining"
  /\ done
  /\ \/ Claim(p, p, "join-freeing")
     \/ reaped /\ Return(p, "srch") /\ UNCHANGED <<reaped, fate>>
  /\ UNCHANGED <<carrier, done, retval, detached, rooted>>

\* The result is read, cleared in the record and stored for the caller.
JoinPublish(p) ==
  /\ pc[p] = "publishing"
  /\ retval' = "cleared"
  /\ Return(p, retval)
  /\ UNCHANGED <<carrier, done, detached, reaped, rooted, fate>>

DetachCall(p) ==
  /\ pc[p] = "idle"
  /\ IF Found THEN Goto(p, "detach-check") /\ UNCHANGED result
              ELSE Return(p, "srch")
  /\ UNCHANGED <<carrier, done, retval, detached, reaped, rooted, fate>>

DetachCheck(p) ==
  /\ pc[p] = "detach-check"
  /\ IF reaped THEN Return(p, "srch")
               ELSE Goto(p, "detaching") /\ UNCHANGED result
  /\ UNCHANGED <<carrier, done, retval, detached, reaped, rooted, fate>>

DetachStore(p) ==
  /\ pc[p] = "detaching"
  /\ detached' = TRUE
  /\ Goto(p, "detached")
  /\ UNCHANGED <<carrier, done, retval, reaped, rooted, result, fate>>

\* Faulty variant, for mutation: leave reaping to the finishing thread.
DetachReap_Never(p) ==
  /\ pc[p] = "detached"
  /\ Return(p, "ok")
  /\ UNCHANGED <<carrier, done, retval, detached, reaped, rooted, fate>>

\* Faulty variant, for mutation: reap without looking at done.
DetachReap_NoDoneCheck(p) ==
  /\ pc[p] = "detached"
  /\ \/ Claim(p, "discarded", "freeing")
     \/ reaped /\ Return(p, "ok") /\ UNCHANGED <<reaped, fate>>
  /\ UNCHANGED <<carrier, done, retval, detached, rooted>>

\* If the thread has finished already, the detacher reaps it.
DetachReap(p) ==
  /\ pc[p] = "detached"
  /\ \/ done /\ Claim(p, "discarded", "freeing")
     \/ /\ ~done \/ reaped
        /\ Return(p, "ok")
        /\ UNCHANGED <<reaped, fate>>
  /\ UNCHANGED <<carrier, done, retval, detached, rooted>>

-----------------------------------------------------------------------------

\* The winner frees the table slot, if there is one ...
FreeSlot(a) ==
  /\ pc[a] \in {"freeing", "join-freeing"}
  /\ rooted' = FALSE
  /\ Goto(a, IF pc[a] = "freeing" THEN "clearing" ELSE "publishing")
  /\ UNCHANGED <<carrier, done, retval, detached, reaped, result, fate>>

\* ... and reapDetached discards the result.
Clear(a) ==
  /\ pc[a] = "clearing"
  /\ retval' = "cleared"
  /\ IF a = Self
     THEN Goto(a, "ended") /\ UNCHANGED result
     ELSE Return(a, "ok")
  /\ UNCHANGED <<carrier, done, detached, reaped, rooted, fate>>

-----------------------------------------------------------------------------

\* PthreadCreate publishes an id, the managed variant a pointer, before the
\* goroutine starts; the attributes may ask for a detached thread.
Init ==
  /\ carrier \in {"root", "managed"}
  /\ done = FALSE
  /\ retval = "unset"
  /\ detached \in BOOLEAN
  /\ reaped = FALSE
  /\ rooted = (carrier = "root")
  /\ pc = [a \in Actors |-> IF a = Self THEN "running" ELSE "idle"]
  /\ result = [a \in Actors |-> "none"]
  /\ fate = "kept"

SelfStep == Exit \/ CloseDone \/ FinishCheck \/ FreeSlot(Self) \/ Clear(Self)
JoinStep(p) == JoinCheck(p) \/ JoinReap(p) \/ JoinPublish(p)
DetachStep(p) == DetachCheck(p) \/ DetachStore(p) \/ DetachReap(p)

Next ==
  \/ SelfStep
  \/ SelfId
  \/ \E p \in Procs :
       \/ JoinCall(p) \/ JoinStep(p)
       \/ DetachCall(p) \/ DetachStep(p)
       \/ FreeSlot(p) \/ Clear(p)

Spec == Init /\ [][Next]_vars

\* The thread ends, and goroutines inside the library are scheduled.
Fairness ==
  /\ WF_vars(SelfStep)
  /\ \A p \in Procs : WF_vars(JoinStep(p) \/ DetachStep(p) \/ FreeSlot(p) \/ Clear(p))

FairSpec == Spec /\ Fairness

-----------------------------------------------------------------------------

\* Type invariant.
TypeOK ==
  /\ carrier \in {"root", "managed"}
  /\ done \in BOOLEAN /\ detached \in BOOLEAN /\ reaped \in BOOLEAN /\ rooted \in BOOLEAN
  /\ retval \in {"unset", "value", "cleared"}
  /\ pc \in [Actors -> {"idle", "running", "destructing", "finishing", "ended",
                        "join-check", "joining", "join-freeing", "publishing",
                        "detach-check", "detaching", "detached", "freeing", "clearing"}]
  /\ result \in [Actors -> {"none", "ok", "srch", "inval", "value"}]
  /\ fate \in Procs \cup {"kept", "discarded"}

\* Exactly one of join, detach and finish retires the record: nobody else is
\* between the swap and the end of its clean-up, and none is before the end of
\* the thread.
Retiring == {a \in Actors : pc[a] \in {"freeing", "join-freeing", "clearing", "publishing"}}
OneReaper ==
  /\ \A a, b \in Retiring : a = b
  /\ Retiring # {} => reaped /\ done

\* A successful join gets the thread's own result: the record still has it
\* when the joiner, and only the one whom it went to, reads it.
JoinGetsValue ==
  \A p \in Procs :
    /\ pc[p] \in {"join-freeing", "publishing"} => retval = "value" /\ fate = p
    /\ result[p] = "value" => fate = p

\* The id of a running thread stays valid, whoever joins or detaches it.
RunningKeepsId == carrier = "root" /\ ~done => rooted

\* Nothing is left behind: once the thread has ended detached, or was reaped,
\* and nobody is in the middle of a call, its slot is free and its result gone.
Quiet == pc[Self] = "ended" /\ \A p \in Procs : pc[p] \in {"idle", "joining"}
NothingLeftBehind == Quiet /\ (detached \/ reaped) => reaped /\ ~rooted /\ retval = "cleared"

\* The record is retired once, by one actor, with its result in one place.
RetiredOnce == OneReaper /\ JoinGetsValue /\ RunningKeepsId /\ NothingLeftBehind

-----------------------------------------------------------------------------
(* The promise.  What a pthread promises to those who hold it, without the *)
(* record: it finishes once, and its result goes to one successful join,   *)
(* or is discarded because somebody detached the thread; never both, never *)
(* twice, never before the end.                                            *)

PromiseInit == ~done /\ detached \in BOOLEAN /\ fate = "kept"

Finish == ~done /\ done' = TRUE /\ UNCHANGED <<detached, fate>>
Detach == ~detached /\ detached' = TRUE /\ UNCHANGED <<done, fate>>
Join(p) == done /\ fate = "kept" /\ fate' = p /\ UNCHANGED <<done, detached>>
Discard ==
  done /\ detached /\ fate = "kept" /\ fate' = "discarded" /\ UNCHANGED <<done, detached>>

PromiseNext == Finish \/ Detach \/ Discard \/ \E p \in Procs : Join(p)

\* The record implements the promise.
ImplementsThreadResult == PromiseInit /\ [][PromiseNext]_<<done, detached, fate>>

-----------------------------------------------------------------------------
\* A join of a thread that ends returns, also when somebody else reaps it; and a
\* detached thread is reclaimed, whichever of detach and finish comes last.
RecordRetires ==
  /\ \A p \in Procs : pc[p] = "joining" ~> pc[p] = "idle"
  /\ detached ~> ~rooted /\ retval = "cleared"

=============================================================================
