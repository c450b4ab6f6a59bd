----------------------------- MODULE ThreadKeys -----------------------------
(***************************************************************************)
(* The thread-specific data of one goroutine (pthread_key.go): its map     *)
(* from keys to values, the destructor rounds of a finishing pthread, and  *)
(* the second run of the destructors when the garbage collector finds the  *)
(* goroutine dead.  Destructors may set values again, and any goroutine    *)
(* may delete a key at any time.                                           *)
(***************************************************************************)
EXTENDS Naturals, FiniteSets

CONSTANTS
  Keys,       \* the keys that exist
  WithDtor,   \* those created with a destructor
  MaxRounds,  \* pthreadDestructorIterations
  NoKey

KeysConstants ==
  /\ IsFiniteSet(Keys)
  /\ WithDtor \subseteq Keys
  /\ NoKey \notin Keys
  /\ MaxRounds \in Nat \ {0}

VARIABLES
  pthread,  \* the goroutine was made by pthread_create
  phase,    \* "running", "prompt", "dead", "collect" or "gone"
  tls,      \* tls[k]: "nil", "live", or "spent" when its destructor has had it
  present,  \* the keys that have an entry in the map
  deleted,  \* pthreadKey.deleted
  round,    \* number of rounds begun in this run of the destructors
  left,     \* entries the round has still to visit
  more,     \* moreWork
  calling   \* the key whose destructor is running

vars == <<pthread, phase, tls, present, deleted, round, left, more, calling>>

\* The destructors are running, promptly or from the collector.
Running == phase \in {"prompt", "collect"}

-----------------------------------------------------------------------------

\* PthreadSetSpecific by the goroutine itself: in its start routine, or in a
\* destructor it runs.  A destructor run by the collector sets the value of
\* the collector's goroutine instead, which leaves this map alone.
SetSpecific(k, v) ==
  /\ phase = "running" \/ (phase = "prompt" /\ calling # NoKey)
  /\ k \notin deleted
  /\ tls' = [tls EXCEPT ![k] = v]
  /\ present' = present \cup {k}
  /\ \* the range over the map may or may not meet an entry made meanwhile
     left' \in IF phase = "prompt" /\ k \notin present THEN {left, left \cup {k}} ELSE {left}
  /\ UNCHANGED <<pthread, phase, deleted, round, more, calling>>

KeyDelete(k) ==
  /\ deleted' = deleted \cup {k}
  /\ UNCHANGED <<pthread, phase, tls, present, round, left, more, calling>>

\* The goroutine ends.  A pthread runs its destructors now; a run without a
\* map is over at once.
Finish ==
  /\ phase = "running"
  /\ phase' = IF pthread /\ present # {} THEN "prompt" ELSE "dead"
  /\ round' = 1
  /\ left' = present
  /\ more' = FALSE
  /\ UNCHANGED <<pthread, tls, present, deleted, calling>>

\* The cleanup that the first SetSpecific armed.
Collect ==
  /\ phase = "dead"
  /\ phase' = IF present # {} THEN "collect" ELSE "gone"
  /\ round' = 1
  /\ left' = present
  /\ more' = FALSE
  /\ UNCHANGED <<pthread, tls, present, deleted, calling>>

NeedsDtor(k) == tls[k] # "nil" /\ k \in WithDtor /\ k \notin deleted

\* Faulty variant, for mutation: the slot keeps the value while and after the
\* destructor runs.
Visit_KeepsValue(k) ==
  /\ Running /\ calling = NoKey
  /\ k \in left
  /\ left' = left \ {k}
  /\ IF NeedsDtor(k)
     THEN tls' = [tls EXCEPT ![k] = "spent"] /\ calling' = k
     ELSE UNCHANGED <<tls, calling>>
  /\ UNCHANGED <<pthread, phase, present, deleted, round, more>>

\* One step of the range over the map.
Visit(k) ==
  /\ Running /\ calling = NoKey
  /\ k \in left
  /\ left' = left \ {k}
  /\ IF NeedsDtor(k)
     THEN tls' = [tls EXCEPT ![k] = "nil"] /\ calling' = k
     ELSE UNCHANGED <<tls, calling>>
  /\ UNCHANGED <<pthread, phase, present, deleted, round, more>>

DtorReturns ==
  /\ calling # NoKey
  /\ calling' = NoKey
  /\ more' = TRUE
  /\ UNCHANGED <<pthread, phase, tls, present, deleted, round, left>>

\* The range is over: another round if some destructor ran, up to the limit.
EndRound ==
  /\ Running /\ calling = NoKey /\ left = {}
  /\ IF more /\ round < MaxRounds
     THEN /\ round' = round + 1
          /\ left' = present
          /\ UNCHANGED phase
     ELSE /\ phase' = IF phase = "prompt" THEN "dead" ELSE "gone"
          /\ UNCHANGED <<round, left>>
  /\ more' = FALSE
  /\ UNCHANGED <<pthread, tls, present, deleted, calling>>

-----------------------------------------------------------------------------

Init ==
  /\ pthread \in BOOLEAN
  /\ phase = "running"
  /\ tls = [k \in Keys |-> "nil"]
  /\ present = {}
  /\ deleted = {}
  /\ round = 0
  /\ left = {}
  /\ more = FALSE
  /\ calling = NoKey

DtorStep == (\E k \in Keys : Visit(k)) \/ DtorReturns \/ EndRound

Next ==
  \/ \E k \in Keys : (\E v \in {"nil", "live"} : SetSpecific(k, v)) \/ KeyDelete(k)
  \/ Finish \/ Collect
  \/ DtorStep

Spec == Init /\ [][Next]_vars

\* The goroutine that runs the destructors is scheduled, and every destructor
\* returns, however often it sets values first.
Fairness == WF_vars((\E k \in Keys : Visit(k)) \/ EndRound) /\ WF_vars(DtorReturns)

FairSpec == Spec /\ Fairness

-----------------------------------------------------------------------------

\* Type invariant.
TypeOK ==
  /\ pthread \in BOOLEAN
  /\ phase \in {"running", "prompt", "dead", "collect", "gone"}
  /\ tls \in [Keys -> {"nil", "live", "spent"}]
  /\ present \subseteq Keys /\ deleted \subseteq Keys /\ left \subseteq present
  /\ round \in 0..MaxRounds
  /\ more \in BOOLEAN
  /\ calling \in Keys \cup {NoKey}

\* A value is handed to its destructor at most once, over both runs: what a
\* destructor has had is no longer in the map when anybody looks again.
NoDoubleDestroy == \A k \in Keys : tls[k] # "spent"

\* A value leaves the map only to its destructor, or because the goroutine set
\* another one; a value set by a destructor is not lost when it returns.
ValuesAreNotLost ==
  [][\A k \in Keys :
       tls[k] = "live" /\ tls'[k] # "live" =>
         calling' = IF phase = "running" THEN NoKey
                    ELSE IF calling = NoKey THEN k ELSE calling]_vars

\* A prompt run that ends before its last round leaves nothing to destroy.
NoneForgotten ==
  pthread /\ phase = "dead" /\ round < MaxRounds => \A k \in Keys : ~NeedsDtor(k)

\* A run of the destructors ends, also when every destructor sets a value.
RunsEnd == Running ~> ~Running

\* What the comments at pthread_key.go:120 and :140 say of the second run over
\* the map of a pthread: that it finds all slots nil and does nothing.
SecondRunDoesNothing == pthread /\ phase = "collect" => calling = NoKey

=============================================================================
