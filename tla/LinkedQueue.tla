----------------------------- MODULE LinkedQueue -----------------------------
(***************************************************************************)
(* mlib's insque and remque (csrc/mlib/search.c).  The elements are the    *)
(* program's; it starts a list with insque(e, NULL), or a circular one by  *)
(* linking an element to itself, and inserts only what is in no list.      *)
(***************************************************************************)
CONSTANTS Elements, Nil

LinkedQueueConstants == Nil \notin Elements

VARIABLES
    next,          \* element -> its successor, or Nil
    previous,      \* element -> its predecessor, or Nil
    listed         \* ghost: the elements in some list

vars == <<next, previous, listed>>

Init ==
    /\ next = [e \in Elements |-> Nil]
    /\ previous = [e \in Elements |-> Nil]
    /\ listed = {}

\* The program links an element to itself.
StartCircle(e) ==
    /\ e \notin listed
    /\ next' = [next EXCEPT ![e] = e]
    /\ previous' = [previous EXCEPT ![e] = e]
    /\ listed' = listed \cup {e}

\* insque(e, NULL)
InsFirst(e) ==
    /\ e \notin listed
    /\ next' = [next EXCEPT ![e] = Nil]
    /\ previous' = [previous EXCEPT ![e] = Nil]
    /\ listed' = listed \cup {e}

\* The successor is not told of the new element.
InsAfter_Forward(e, b) ==
    /\ e \notin listed /\ b \in listed
    /\ next' = [next EXCEPT ![e] = next[b], ![b] = e]
    /\ previous' = [previous EXCEPT ![e] = b]
    /\ listed' = listed \cup {e}

\* insque(e, b): four stores, each of which sees the ones before it.
InsAfter(e, b) ==
    /\ e \notin listed /\ b \in listed
    /\ next' = [next EXCEPT ![e] = next[b], ![b] = e]
    /\ previous' = LET linked == [previous EXCEPT ![e] = b]
                   IN IF next'[e] = Nil THEN linked
                      ELSE [linked EXCEPT ![next'[e]] = e]
    /\ listed' = listed \cup {e}

\* remque(e)
RemQue(e) ==
    /\ e \in listed
    /\ previous' = LET bypassed == IF next[e] = Nil THEN previous
                                   ELSE [previous EXCEPT ![next[e]] = previous[e]]
                   IN [bypassed EXCEPT ![e] = Nil]
    /\ next' = LET bypassed == IF previous[e] = Nil THEN next
                               ELSE [next EXCEPT ![previous[e]] = next[e]]
               IN [bypassed EXCEPT ![e] = Nil]
    /\ listed' = listed \ {e}

Next ==
    \/ \E e \in Elements : StartCircle(e) \/ InsFirst(e) \/ RemQue(e)
    \/ \E e, b \in Elements : InsAfter(e, b)

Spec == Init /\ [][Next]_vars

----------------------------------------------------------------------------
TypeOK ==
    /\ next \in [Elements -> Elements \cup {Nil}]
    /\ previous \in [Elements -> Elements \cup {Nil}]
    /\ listed \subseteq Elements

\* The links of both directions agree: whatever is inserted into or removed
\* from linear and circular lists, walking forward and then back ends where it
\* began.
LinksAgree ==
    \A a, b \in Elements : next[a] = b <=> previous[b] = a

\* An element that was removed links to nothing, and nothing links to it, so
\* it keeps no other element alive (mlib/DESIGN.md:187).
RemovedIsFree ==
    \A e \in Elements \ listed :
        /\ next[e] = Nil /\ previous[e] = Nil
        /\ \A a \in Elements : next[a] # e /\ previous[a] # e

============================================================================
