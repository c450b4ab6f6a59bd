------------------------------ MODULE Semaphore ------------------------------
(***************************************************************************)
(* The Go-owned POSIX semaphore of internal/posixsync/semaphore.go: a      *)
(* count, a FIFO of blocked waiters, and one single-token channel per      *)
(* waiter through which Post hands its token over directly.  Each critical *)
(* section under s.mu is one step; a timed waiter races Post between the   *)
(* moment its timer fires and the moment it re-locks.                      *)
(***************************************************************************)
EXTENDS Integers, Sequences, FiniteSets, SequencesExt

CONSTANTS
  Procs,     \* goroutines using the semaphore
  MaxValue,  \* SemaphoreValueMax
  MaxPosts   \* bound on the successful posts of a behaviour

SemaphoreConstants ==
  /\ IsFiniteSet(Procs)
  /\ MaxValue \in Nat \ {0}
  /\ MaxPosts \in Nat

VARIABLES
  count,    \* tokens nobody has taken
  waiters,  \* the goroutines queued for a token, oldest first
  inbox,    \* inbox[p]: p's channel holds a token
  pc,       \* where each goroutine is in its call
  result,   \* what its last completed call returned
  initial,  \* ghost: the value the semaphore was created with
  posts,    \* ghost: successful posts
  passed    \* ghost: waits that returned with a token

vars == <<count, waiters, inbox, pc, result, initial, posts, passed>>

Queued == ToSet(waiters)
InFlight == {p \in Procs : inbox[p]}

-----------------------------------------------------------------------------

\* Leave the current call with result r.
Return(p, r) ==
  /\ pc' = [pc EXCEPT ![p] = "idle"]
  /\ result' = [result EXCEPT ![p] = r]

\* Wait or TryWait with a token available.
TakeToken(p) ==
  /\ pc[p] = "idle"
  /\ count > 0
  /\ count' = count - 1
  /\ passed' = passed + 1
  /\ Return(p, "ok")
  /\ UNCHANGED <<waiters, inbox, initial, posts>>

\* TryWait without one.
TryWaitFails(p) ==
  /\ pc[p] = "idle"
  /\ count = 0
  /\ Return(p, "again")
  /\ UNCHANGED <<count, waiters, inbox, initial, posts, passed>>

\* Wait without one: queue a fresh channel, then block on it, with
\* ("timed") or without ("blocked") a deadline.
Enqueue(p, how) ==
  /\ pc[p] = "idle"
  /\ count = 0
  /\ waiters' = Append(waiters, p)
  /\ pc' = [pc EXCEPT ![p] = how]
  /\ UNCHANGED <<count, inbox, result, initial, posts, passed>>

\* A receive from the waiter's channel.
Receive(p) ==
  /\ pc[p] \in {"blocked", "timed", "late"}
  /\ inbox[p]
  /\ inbox' = [inbox EXCEPT ![p] = FALSE]
  /\ passed' = passed + 1
  /\ Return(p, "ok")
  /\ UNCHANGED <<count, waiters, initial, posts>>

\* WaitWall finds the deadline passed, whether or not a token has arrived.
TimerFires(p) ==
  /\ pc[p] = "timed"
  /\ pc' = [pc EXCEPT ![p] = "expired"]
  /\ UNCHANGED <<count, waiters, inbox, result, initial, posts, passed>>

\* WaiterIndex finds p's channel, which is cut out of the queue.
Dequeue(p) ==
  \E i \in DOMAIN waiters :
    /\ waiters[i] = p
    /\ waiters' = RemoveAt(waiters, i)

\* Faulty variant, for mutation: give up without looking whether Post has
\* already chosen this waiter.
Expire_Always(p) ==
  /\ pc[p] = "expired"
  /\ Dequeue(p) \/ (p \notin Queued /\ UNCHANGED waiters)
  /\ Return(p, "timedout")
  /\ UNCHANGED <<count, inbox, initial, posts, passed>>

\* After the timer: still queued means timed out; otherwise Post has chosen
\* this waiter and its token must be taken.
Expire(p) ==
  /\ pc[p] = "expired"
  /\ IF p \in Queued
     THEN /\ Dequeue(p)
          /\ Return(p, "timedout")
     ELSE /\ pc' = [pc EXCEPT ![p] = "late"]
          /\ UNCHANGED <<waiters, result>>
  /\ UNCHANGED <<count, inbox, initial, posts, passed>>

\* Post: hand the token to the oldest waiter, or bank it unless the count is
\* at its limit.
Post(p) ==
  /\ pc[p] = "idle"
  /\ posts < MaxPosts
  /\ \/ /\ waiters # <<>>
        /\ inbox' = [inbox EXCEPT ![Head(waiters)] = TRUE]
        /\ waiters' = Tail(waiters)
        /\ posts' = posts + 1
        /\ Return(p, "ok")
        /\ UNCHANGED count
     \/ /\ waiters = <<>> /\ count < MaxValue
        /\ count' = count + 1
        /\ posts' = posts + 1
        /\ Return(p, "ok")
        /\ UNCHANGED <<inbox, waiters>>
     \/ /\ waiters = <<>> /\ count >= MaxValue
        /\ Return(p, "overflow")
        /\ UNCHANGED <<count, inbox, waiters, posts>>
  /\ UNCHANGED <<initial, passed>>

-----------------------------------------------------------------------------

Init ==
  /\ initial \in 0 .. MaxValue
  /\ count = initial
  /\ waiters = <<>>
  /\ inbox = [p \in Procs |-> FALSE]
  /\ pc = [p \in Procs |-> "idle"]
  /\ result = [p \in Procs |-> "none"]
  /\ posts = 0
  /\ passed = 0

\* What a goroutine inside a call does; a caller outside one owes nothing.
Progress(p) == Receive(p) \/ TimerFires(p) \/ Expire(p)

Next ==
  \E p \in Procs :
    \/ TakeToken(p)
    \/ TryWaitFails(p)
    \/ Enqueue(p, "blocked")
    \/ Enqueue(p, "timed")
    \/ Progress(p)
    \/ Post(p)

Spec == Init /\ [][Next]_vars

\* The Go scheduler runs every runnable goroutine and timers fire.
Fairness == \A p \in Procs : WF_vars(Progress(p))

FairSpec == Spec /\ Fairness

-----------------------------------------------------------------------------
(* Properties. *)

States == {"idle", "blocked", "timed", "expired", "late"}
Results == {"none", "ok", "again", "timedout", "overflow"}

\* Types; count stays within SEM_VALUE_MAX, so Value's int32 never wraps.
TypeOK ==
  /\ count \in 0 .. MaxValue
  /\ waiters \in Seq(Procs)
  /\ inbox \in [Procs -> BOOLEAN]
  /\ pc \in [Procs -> States]
  /\ result \in [Procs -> Results]
  /\ initial \in 0 .. MaxValue
  /\ posts \in Nat
  /\ passed \in Nat

\* No token is lost or made up: every token is banked, in flight to one
\* waiter, or was returned to a caller.  In particular a wait that timed out
\* as Post chose it neither swallows nor duplicates the token.
Conservation ==
  initial + posts = count + passed + Cardinality(InFlight)

\* Tokens are never banked past a queued waiter: nobody sleeps beside one.
NoStrandedWaiter == count > 0 => waiters = <<>>

\* The queue holds exactly the waiters whose channel is still empty, once
\* each, so Post's send under s.mu never blocks on a full channel.
QueueExact ==
  /\ \A j, k \in DOMAIN waiters : j # k => waiters[j] # waiters[k]
  /\ \A p \in Procs :
       p \in Queued <=> pc[p] \in {"blocked", "timed", "expired"} /\ ~inbox[p]

\* The receive after a lost race with Post never blocks.
LateHasToken == \A p \in Procs : pc[p] = "late" => inbox[p]

\* Tokens go out in arrival order: when one waiter is chosen, every waiter
\* queued before it has been chosen or has left.
FirstComeFirstServed ==
  [][\A j, k \in DOMAIN waiters :
       (j < k /\ inbox'[waiters[k]]) => waiters[j] \notin ToSet(waiters')]_vars

\* A waiter handed a token returns with it.
GrantedReturns ==
  \A p \in Procs : inbox[p] ~> (pc[p] = "idle" /\ ~inbox[p])

\* A wait with a deadline returns whatever the other goroutines do.
TimedReturns == \A p \in Procs : pc[p] = "timed" ~> pc[p] = "idle"
=============================================================================
