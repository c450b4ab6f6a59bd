------------------------------ MODULE HandleMap ------------------------------
(***************************************************************************)
(* What the handle table promises, without ids, slots or generations: a    *)
(* set of rooted objects, at most one of them bound to each C carrier.  An *)
(* object is rooted when it is made and unrooted at most once, by its own  *)
(* holder; an object bound to a carrier is never unrooted.                 *)
(***************************************************************************)
EXTENDS Integers

CONSTANTS Carriers, MaxObj
Nil == 0

VARIABLES
  live,   \* the rooted objects
  bound,  \* the object each carrier denotes, or Nil
  made    \* objects made so far

mapVars == <<live, bound, made>>

Init ==
  /\ live = {}
  /\ bound = [c \in Carriers |-> Nil]
  /\ made = 0

\* A new object nothing else denotes yet.
Root ==
  /\ made < MaxObj
  /\ made' = made + 1
  /\ live' = live \cup {made + 1}

New == Root /\ UNCHANGED bound

Bind(c) ==
  /\ bound[c] = Nil
  /\ Root
  /\ bound' = [bound EXCEPT ![c] = made + 1]

Unbind(c) ==
  /\ bound' = [bound EXCEPT ![c] = Nil]
  /\ UNCHANGED <<live, made>>

Drop(o) ==
  /\ \A c \in Carriers : bound[c] # o
  /\ live' = live \ {o}
  /\ UNCHANGED <<bound, made>>

Next ==
  \/ New
  \/ \E c \in Carriers : Bind(c) \/ Unbind(c)
  \/ \E o \in live : Drop(o)

Spec == Init /\ [][Next]_mapVars
============================================================================
