------------------------------ MODULE Signals ------------------------------
(***************************************************************************)
(* signal() for one signal number: the handler table (csrc/signal.c over   *)
(* the atomics of signal.go) and the pump, a channel registered with       *)
(* os/signal and a goroutine that runs the table's handler for every       *)
(* delivery.  signal() swaps the table first and then, under sigMu,        *)
(* registers or removes the pump; the two are separate steps.              *)
(***************************************************************************)
EXTENDS Naturals

CONSTANTS
  Procs,     \* goroutines that call signal()
  Handlers,  \* C handler functions
  MaxPumps   \* bound on the pumps started in a behaviour

SignalConstants ==
  /\ MaxPumps \in Nat \ {0}
  /\ "dfl" \notin Handlers /\ "ign" \notin Handlers /\ "none" \notin Handlers

VARIABLES
  table,    \* sigHandlers[sig]
  current,  \* sigPumps[sig]: the channel registered, or 0
  made,     \* number of channels made
  open,     \* open[c]: the channel has not been closed
  full,     \* full[c]: it holds its one delivery
  pump,     \* the goroutine of each channel: "none", "waiting", "ended" or the handler it runs
  want,     \* the disposition each call in progress has swapped in, or "none"
  host,     \* the Go program has its own subscription to the signal
  killed    \* the signal's default action ended the process

vars == <<table, current, made, open, full, pump, want, host, killed>>

Pumps == 1..MaxPumps
Dispositions == Handlers \cup {"dfl", "ign"}

-----------------------------------------------------------------------------

\* signal() or sigaction(): the new disposition is swapped into the table.
Swap(p, h) ==
  /\ ~killed
  /\ want[p] = "none"
  /\ table' = h
  /\ want' = [want EXCEPT ![p] = h]
  /\ UNCHANGED <<current, made, open, full, pump, host, killed>>

\* Faulty variant, for mutation: SIG_IGN without a pump.
Watch_HandlersOnly(p) ==
  /\ want[p] \in Dispositions \ {"dfl"} /\ ~killed
  /\ want' = [want EXCEPT ![p] = "none"]
  /\ IF current # 0 \/ want[p] = "ign"
     THEN UNCHANGED <<current, made, open, pump>>
     ELSE /\ made < MaxPumps
          /\ made' = made + 1
          /\ current' = made + 1
          /\ open' = [open EXCEPT ![made + 1] = TRUE]
          /\ pump' = [pump EXCEPT ![made + 1] = "waiting"]
  /\ UNCHANGED <<table, full, host, killed>>

\* For a handler or SIG_IGN: ensurePump, under sigMu.
Watch(p) ==
  /\ want[p] \in Dispositions \ {"dfl"} /\ ~killed
  /\ want' = [want EXCEPT ![p] = "none"]
  /\ IF current # 0
     THEN UNCHANGED <<current, made, open, pump>>
     ELSE /\ made < MaxPumps
          /\ made' = made + 1
          /\ current' = made + 1
          /\ open' = [open EXCEPT ![made + 1] = TRUE]
          /\ pump' = [pump EXCEPT ![made + 1] = "waiting"]
  /\ UNCHANGED <<table, full, host, killed>>

\* For SIG_DFL: stopPump, under sigMu.  What the channel holds stays in it.
Default(p) ==
  /\ want[p] = "dfl" /\ ~killed
  /\ want' = [want EXCEPT ![p] = "none"]
  /\ current' = 0
  /\ open' = IF current = 0 THEN open ELSE [open EXCEPT ![current] = FALSE]
  /\ UNCHANGED <<table, made, full, pump, host, killed>>

\* os/signal gets the signal: our channel takes it unless it is full, and
\* without any subscription the default action ends the process.
Deliver ==
  /\ ~killed
  /\ full' = IF current = 0 THEN full ELSE [full EXCEPT ![current] = TRUE]
  /\ killed' = (current = 0 /\ ~host)
  /\ UNCHANGED <<table, current, made, open, pump, want, host>>

\* The pump takes a delivery, also from a closed channel, and loads the table.
PumpReceive(c) ==
  /\ pump[c] = "waiting" /\ ~killed
  /\ full[c]
  /\ full' = [full EXCEPT ![c] = FALSE]
  /\ pump' = IF table \in Handlers THEN [pump EXCEPT ![c] = table] ELSE pump
  /\ UNCHANGED <<table, current, made, open, want, host, killed>>

HandlerReturns(c) ==
  /\ pump[c] \in Handlers /\ ~killed
  /\ pump' = [pump EXCEPT ![c] = "waiting"]
  /\ UNCHANGED <<table, current, made, open, full, want, host, killed>>

\* The range ends when the channel is closed and empty.
PumpEnds(c) ==
  /\ pump[c] = "waiting" /\ ~killed
  /\ ~open[c] /\ ~full[c]
  /\ pump' = [pump EXCEPT ![c] = "ended"]
  /\ UNCHANGED <<table, current, made, open, full, want, host, killed>>

-----------------------------------------------------------------------------

Init ==
  /\ table = "dfl"
  /\ current = 0
  /\ made = 0
  /\ open = [c \in Pumps |-> FALSE]
  /\ full = [c \in Pumps |-> FALSE]
  /\ pump = [c \in Pumps |-> "none"]
  /\ want = [p \in Procs |-> "none"]
  /\ host \in BOOLEAN
  /\ killed = FALSE

Next ==
  \/ \E p \in Procs : (\E h \in Dispositions : Swap(p, h)) \/ Watch(p) \/ Default(p)
  \/ Deliver
  \/ \E c \in Pumps : PumpReceive(c) \/ HandlerReturns(c) \/ PumpEnds(c)

Spec == Init /\ [][Next]_vars

\* The pump goroutines are scheduled and handlers return.
Fairness ==
  \A c \in Pumps : WF_vars(PumpReceive(c) \/ PumpEnds(c)) /\ WF_vars(HandlerReturns(c))

FairSpec == Spec /\ Fairness

-----------------------------------------------------------------------------

\* Type invariant: in particular a pump only ever runs a real handler, never
\* the sentinels SIG_DFL and SIG_IGN.
TypeOK ==
  /\ table \in Dispositions
  /\ current \in 0..MaxPumps /\ made \in 0..MaxPumps
  /\ open \in [Pumps -> BOOLEAN] /\ full \in [Pumps -> BOOLEAN]
  /\ pump \in [Pumps -> Handlers \cup {"none", "waiting", "ended"}]
  /\ want \in [Procs -> Dispositions \cup {"none"}]
  /\ host \in BOOLEAN /\ killed \in BOOLEAN

\* However calls interleave, the only open channel is the registered one: no
\* registration is leaked, and os/signal never sends to a closed channel.
OnlyCurrentIsOpen == \A c \in Pumps : open[c] <=> c = current

\* With nobody inside signal(), the pump is registered exactly while the table
\* holds a handler or SIG_IGN (the comment on sigPumps, signal.go:41).
Quiet == \A p \in Procs : want[p] = "none"
TableMatchesPump == Quiet => (current # 0 <=> table # "dfl")

\* Every delivery a channel took is consumed, also after the channel is closed,
\* and the goroutine of a closed channel ends.
DeliveryConsumed == \A c \in Pumps : full[c] ~> ~full[c] \/ killed
PumpsEnd == \A c \in Pumps : pump[c] # "none" /\ ~open[c] ~> pump[c] = "ended" \/ killed

=============================================================================
