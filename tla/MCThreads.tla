------------------------------ MODULE MCThreads ------------------------------
(***************************************************************************)
(* TLC instance of what belongs to a thread or is run for one: its record  *)
(* (Thread), the destructors of its keys (ThreadKeys) and the pumps that   *)
(* run signal handlers (Signals).  They share no state, so a behaviour     *)
(* exercises one of them, "part", and the others stay in one initial       *)
(* state.  Signals is exercised with two callers of signal() that race     *)
(* ("signals") and with one ("one-caller").                                *)
(***************************************************************************)
EXTENDS Thread

CONSTANTS
  Keys, WithDtor, MaxRounds, NoKey,     \* ThreadKeys
  Callers, Caller, Handlers, MaxPumps   \* Signals; Caller is one of Callers

VARIABLES
  part,
  pthread, phase, tls, present, deleted, round, left, more, calling,
  table, current, made, open, full, pump, want, host, killed

K == INSTANCE ThreadKeys
G == INSTANCE Signals WITH Procs <- Callers

keyVars == <<pthread, phase, tls, present, deleted, round, left, more, calling>>
signalVars == <<table, current, made, open, full, pump, want, host, killed>>
allVars == <<part, vars, keyVars, signalVars>>

ASSUME PartsConstants == K!KeysConstants /\ G!SignalConstants /\ Caller \in Callers

MCInit ==
  /\ part \in {"thread", "keys", "signals", "one-caller"}
  /\ Init /\ K!Init /\ G!Init
  /\ part # "thread" => carrier = "root" /\ ~detached
  /\ part # "keys" => ~pthread
  /\ part \in {"thread", "keys"} => ~host

MCNext ==
  \/ part = "thread" /\ Next /\ UNCHANGED <<part, keyVars, signalVars>>
  \/ part = "keys" /\ K!Next /\ UNCHANGED <<part, vars, signalVars>>
  \/ /\ part \in {"signals", "one-caller"}
     /\ G!Next
     /\ part = "one-caller" => \A p \in Callers \ {Caller} : want'[p] = "none"
     /\ UNCHANGED <<part, vars, keyVars>>

MCSpec == MCInit /\ [][MCNext]_allVars

\* In an initial state only the thread's own steps are enabled; where the part
\* is another one, the thread never takes them.
MCFairSpec ==
  /\ MCSpec
  /\ part = "thread" => Fairness
  /\ K!Fairness /\ G!Fairness

-----------------------------------------------------------------------------
\* ThreadKeys: a value goes to its destructor at most once over the prompt run
\* and the collector's, none is lost, and none is forgotten before the last round
\* (pthread_key.go:108-161).
KeysSafe ==
  /\ [](K!TypeOK /\ K!NoDoubleDestroy /\ K!NoneForgotten)
  /\ K!ValuesAreNotLost

\* Signals: no registration is leaked and no channel closed under os/signal; and
\* with one caller of signal() the pump is there exactly when the table asks for
\* it, so that a handled signal never ends the process (signal.go:41-114).
SignalsSafe ==
  /\ [](G!TypeOK /\ G!OnlyCurrentIsOpen)
  /\ [](part = "one-caller" => G!TableMatchesPump)
  /\ [][part = "one-caller" /\ G!Quiet /\ ~killed /\ killed' => table = "dfl"]_signalVars

\* A finished thread's record is retired, every run of the destructors ends,
\* every delivery a channel took is consumed, and every pump that was stopped
\* ends.
AllEnds == RecordRetires /\ K!RunsEnd /\ G!DeliveryConsumed /\ G!PumpsEnd

\* signal.go:41 of sigPumps: "sig -> notify channel while custom-handled or
\* ignored", also with two callers.
TableMatchesPump == G!TableMatchesPump
=============================================================================
