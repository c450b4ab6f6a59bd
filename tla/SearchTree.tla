----------------------------- MODULE SearchTree -----------------------------
(***************************************************************************)
(* mlib's managed tsearch, tfind, tdelete, twalk and tdestroy              *)
(* (csrc/mlib/search.c): an AVL tree whose nodes live on the Go heap.      *)
(* Deleting a node with a left child moves the key of its predecessor into *)
(* it and detaches the predecessor's node.  Detached nodes are not freed   *)
(* but cleared, so that they keep nothing alive, and the collector takes   *)
(* them.                                                                   *)
(*                                                                         *)
(* A heap is a function from nodes to [key, child, height]; child is       *)
(* indexed by the direction, 0 or 1.  The program calls from one goroutine *)
(* at a time, as it must.                                                  *)
(***************************************************************************)
EXTENDS Integers, Sequences, FiniteSets

CONSTANTS
    Keys,          \* what compare orders: a set of integers
    NoKey,
    Nodes,         \* a finite set of integers
    Nil,
    MAXH           \* slots of the path arrays (MLIB_SEARCH_MAXH)

SearchTreeConstants ==
    /\ Keys \subseteq Int /\ NoKey \notin Keys
    /\ Nodes \subseteq Int /\ IsFiniteSet(Nodes) /\ Nil \notin Nodes
    /\ MAXH \in Nat

VARIABLES
    root,          \* the program's root variable
    heap,          \* the nodes
    held           \* ghost: the keys inserted and not deleted

vars == <<root, heap, held>>

Directions == {0, 1}
Cleared == [key |-> NoKey, child |-> [d \in Directions |-> Nil], height |-> 0]
Larger(a, b) == IF a > b THEN a ELSE b

Height(t, n) == IF n = Nil THEN 0 ELSE t[n].height

\* In every function below that descends, Nil ends the descent.
Places == Nodes \cup {Nil}

Subtree(t, n) ==
    LET below[m \in Places] ==
          IF m = Nil THEN {}
          ELSE {m} \cup below[t[m].child[0]] \cup below[t[m].child[1]]
    IN below[n]

\* Direction of key k from a node that holds another key.
Toward(k, other) == IF k > other THEN 1 ELSE 0

\* The nodes from n down to the one that holds k, or to where it belongs.
Path(t, n, k) ==
    LET from[m \in Places] ==
          IF m = Nil THEN <<>>
          ELSE IF t[m].key = k THEN <<[node |-> m, dir |-> 0]>>
          ELSE LET d == Toward(k, t[m].key)
               IN <<[node |-> m, dir |-> d]>> \o from[t[m].child[d]]
    IN from[n]

\* The nodes from n along the right children.
RightSpine(t, n) ==
    LET from[m \in Places] ==
          IF m = Nil THEN <<>>
          ELSE <<[node |-> m, dir |-> 1]>> \o from[t[m].child[1]]
    IN from[n]

----------------------------------------------------------------------------
(* Rebalancing.  Each returns [heap, top, delta]: the heap, the node that  *)
(* takes the place of n, and by how much the height there changed.         *)

\* The double rotation also where both grandchildren are equally high.
Rotate_OnEqual(t, n, d) ==
    LET o == 1 - d
        c == t[n].child[d]
        m == t[c].child[o]
        old == t[n].height
        hm == Height(t, m)
    IN IF hm >= Height(t, t[c].child[d])
       THEN [heap |-> [t EXCEPT
                  ![n].child[d] = t[m].child[o], ![n].height = hm,
                  ![c].child[o] = t[m].child[d], ![c].height = hm,
                  ![m].child = [e \in Directions |-> IF e = o THEN n ELSE c],
                  ![m].height = hm + 1],
             top |-> m, delta |-> hm + 1 - old]
       ELSE [heap |-> [t EXCEPT
                  ![n].child[d] = m, ![n].height = hm + 1,
                  ![c].child[o] = n, ![c].height = hm + 2],
             top |-> c, delta |-> hm + 2 - old]

\* n is too high on side d.
Rotate(t, n, d) ==
    LET o == 1 - d
        c == t[n].child[d]
        m == t[c].child[o]
        old == t[n].height
        hm == Height(t, m)
    IN IF hm > Height(t, t[c].child[d])
       THEN [heap |-> [t EXCEPT
                  ![n].child[d] = t[m].child[o], ![n].height = hm,
                  ![c].child[o] = t[m].child[d], ![c].height = hm,
                  ![m].child = [e \in Directions |-> IF e = o THEN n ELSE c],
                  ![m].height = hm + 1],
             top |-> m, delta |-> hm + 1 - old]
       ELSE [heap |-> [t EXCEPT
                  ![n].child[d] = m, ![n].height = hm + 1,
                  ![c].child[o] = n, ![c].height = hm + 2],
             top |-> c, delta |-> hm + 2 - old]

Balance(t, n) ==
    LET left == Height(t, t[n].child[0])
        right == Height(t, t[n].child[1])
    IN IF left - right \in {-1, 0, 1}
       THEN [heap |-> [t EXCEPT ![n].height = Larger(left, right) + 1],
             top |-> n, delta |-> Larger(left, right) + 1 - t[n].height]
       ELSE Rotate(t, n, IF left < right THEN 1 ELSE 0)

\* Node n takes the place below path[i - 1], or at the root.
Link(s, path, i, n) ==
    IF i = 1 THEN [s EXCEPT !.root = n]
    ELSE [s EXCEPT !.heap[path[i - 1].node].child[path[i - 1].dir] = n]

\* The loop that goes up the path from position last until no height changes;
\* up[n] is where it is after n turns.
Rebalance(s, path, last) ==
    LET up[n \in 0 .. last] ==
          IF n = 0 THEN [state |-> s, over |-> FALSE]
          ELSE IF up[n - 1].over THEN up[n - 1]
          ELSE LET i == last - n + 1
                   before == up[n - 1].state
                   b == Balance(before.heap, path[i].node)
               IN [state |-> Link([before EXCEPT !.heap = b.heap], path, i, b.top),
                   over |-> b.delta = 0]
    IN up[last].state

----------------------------------------------------------------------------
Init ==
    /\ root = Nil
    /\ heap = [n \in Nodes |-> Cleared]
    /\ held = {}

State == [root |-> root, heap |-> heap]
Becomes(s) == root' = s.root /\ heap' = s.heap

\* tfind, and the search tsearch begins with.
Find(k) ==
    LET path == Path(heap, root, k) IN
    IF path # <<>> /\ heap[path[Len(path)].node].key = k
    THEN path[Len(path)].node ELSE Nil

Unreachable == Nodes \ Subtree(heap, root)
LowestFree == CHOOSE n \in Unreachable : \A m \in Unreachable : n <= m

\* tsearch of a key that is there returns its node and changes nothing.
\* Where the node cannot be allocated, nothing changes either.
TSearch(k) ==
    /\ Find(k) = Nil /\ Unreachable # {}
    /\ LET new == LowestFree
           path == Path(heap, root, k)
           made == [State EXCEPT !.heap[new] = [Cleared EXCEPT !.key = k, !.height = 1]]
       IN Becomes(Rebalance(Link(made, path, Len(path) + 1, new), path, Len(path)))
    /\ held' = held \cup {k}

\* The path from the root to the node that is taken out for k: its own, or
\* that of its predecessor where it has a left child.
RemovalPath(k) ==
    LET path == Path(heap, root, k)
        depth == Len(path)
        left == heap[path[depth].node].child[0]
    IN [path EXCEPT ![depth].dir = 0] \o RightSpine(heap, left)

TDelete(k) ==
    /\ Find(k) # Nil
    /\ LET target == Find(k)
           path == RemovalPath(k)
           depth == Len(path)
           removed == path[depth].node
           child == heap[removed].child[IF removed = target THEN 1 ELSE 0]
           moved == [State EXCEPT !.heap[target].key = heap[removed].key]
           linked == Link(moved, path, depth, child)
           cleared == [linked EXCEPT !.heap[removed] = Cleared]
       IN Becomes(Rebalance(cleared, path, depth - 1))
    /\ held' = held \ {k}

\* tdestroy gets the root by value: the program forgets it itself.
TDestroy ==
    /\ root # Nil
    /\ heap' = [n \in Nodes |-> IF n \in Subtree(heap, root) THEN Cleared ELSE heap[n]]
    /\ root' = Nil
    /\ held' = {}

\* The keys in the order twalk gives them their second, or only, visit.
Walk(t, n) ==
    LET from[m \in Places] ==
          IF m = Nil THEN <<>>
          ELSE IF t[m].height = 1 THEN <<t[m].key>>
          ELSE from[t[m].child[0]] \o <<t[m].key>> \o from[t[m].child[1]]
    IN from[n]

Next ==
    \/ \E k \in Keys : TSearch(k)
    \/ \E k \in Keys : TDelete(k)
    \/ TDestroy

Spec == Init /\ [][Next]_vars

----------------------------------------------------------------------------
TypeOK ==
    /\ root \in Nodes \cup {Nil}
    /\ heap \in [Nodes -> [key : Keys \cup {NoKey},
                           child : [Directions -> Nodes \cup {Nil}],
                           height : Nat]]
    /\ held \subseteq Keys

\* In every node the recorded height is the true one and the subtrees differ
\* in height by one at most, after any sequence of insertions and deletions:
\* also where a deletion rebalances at several levels or stops half way up.
Balanced ==
    \A n \in Subtree(heap, root) :
        LET left == Height(heap, heap[n].child[0])
            right == Height(heap, heap[n].child[1])
        IN heap[n].height = Larger(left, right) + 1 /\ left - right \in {-1, 0, 1}

\* twalk visits exactly the keys inserted and not deleted, each once and in
\* ascending order: no rotation and no moved key loses or misplaces a subtree.
WalkIsSorted ==
    LET w == Walk(heap, root) IN
    /\ {w[i] : i \in 1 .. Len(w)} = held
    /\ \A i \in 1 .. Len(w) - 1 : w[i] < w[i + 1]

\* tfind finds a key exactly if it was inserted and not deleted since.
FindFinds == \A k \in Keys : Find(k) # Nil <=> k \in held

\* mlib/DESIGN.md:187-188: a detached node is cleared of its managed pointers,
\* so it keeps neither a key nor another node alive.
DetachedKeepsNothing ==
    \A n \in Unreachable : heap[n].key = NoKey /\ heap[n].child[0] = Nil
                                               /\ heap[n].child[1] = Nil

\* The fixed path arrays of tsearch and tdelete, of MAXH and MAXH + 1 slots,
\* are never overrun.
PathFits ==
    \A k \in Keys :
        /\ Len(Path(heap, root, k)) <= MAXH
        /\ k \in held => Len(RemovalPath(k)) <= MAXH + 1

============================================================================
