------------------------------ MODULE HashTable ------------------------------
(***************************************************************************)
(* mlib's managed hash table: hcreate_r, hsearch_r and hdestroy_r          *)
(* (csrc/mlib/search.c).  Open addressing over a power of two of slots,    *)
(* with triangular steps.  Entries are never removed one by one.  Hash is  *)
(* any function: what the string hash computes does not matter.            *)
(***************************************************************************)
EXTENDS Integers, FiniteSets

CONSTANTS
    Keys, NoKey,
    Values, NoValue,
    Hash,          \* key -> its hash
    MINSIZE,       \* slots of the smallest table (MLIB_HSEARCH_MINSIZE)
    MAXSLOTS       \* a table of more slots cannot be allocated

HashTableConstants ==
    /\ NoKey \notin Keys /\ NoValue \notin Values
    /\ Hash \in [Keys -> Nat]
    /\ \E e \in 1 .. 8 : MINSIZE = 2 ^ e
    /\ MAXSLOTS \in Nat

VARIABLES
    created,       \* does the carrier have a table
    mask,          \* slots - 1
    used,          \* entries
    entries,       \* slot -> [key, data]
    result,        \* what the last call returned: an entry, or NoEntry
    dict           \* ghost: key -> the data it was entered with, or NoValue

table == <<created, mask, used, entries>>
vars == <<table, result, dict>>

NoEntry == [key |-> NoKey, data |-> NoValue]
Empty(m) == [i \in 0 .. m |-> NoEntry]

\* The slot that the step-th probe for a key looks at.
Probe(k, m, step) == (Hash[k] + (step * (step + 1)) \div 2) % (m + 1)

\* The loop of mlib_hsearch_lookup ends at the first slot that holds the key
\* or nothing.
Stops(k, m, es, step) == es[Probe(k, m, step)].key \in {k, NoKey}
Ends(k, m, es) == \E step \in 0 .. m : Stops(k, m, es, step)
FirstStop(k, m, es) ==
    CHOOSE step \in 0 .. m :
        Stops(k, m, es, step) /\ \A s \in 0 .. step - 1 : ~Stops(k, m, es, s)
Lookup(k, m, es) == Probe(k, m, FirstStop(k, m, es))

\* The least power of two, of MINSIZE at least, that holds count entries.
SlotsFor(count) ==
    CHOOSE n \in {2 ^ e : e \in 1 .. 16} :
        /\ n >= MINSIZE /\ n >= count
        /\ \A e \in 1 .. 16 : 2 ^ e >= MINSIZE /\ 2 ^ e >= count => n <= 2 ^ e

\* The last slot is not moved.
Rehashed_OffByOne(old, oldMask, newMask) ==
    LET moved[i \in 0 .. oldMask] ==
          IF i = 0 THEN Empty(newMask)
          ELSE LET es == moved[i - 1]
                   e == old[i - 1]
               IN IF e.key = NoKey THEN es
                  ELSE [es EXCEPT ![Lookup(e.key, newMask, es)] = e]
    IN moved[oldMask]

\* mlib_hsearch_resize: the old slots' entries are put, in their order, where
\* the first empty slot of their probe sequence is.
Rehashed(old, oldMask, newMask) ==
    LET moved[i \in 0 .. oldMask + 1] ==
          IF i = 0 THEN Empty(newMask)
          ELSE LET es == moved[i - 1]
                   e == old[i - 1]
               IN IF e.key = NoKey THEN es
                  ELSE [es EXCEPT ![Lookup(e.key, newMask, es)] = e]
    IN moved[oldMask + 1]

----------------------------------------------------------------------------
Init ==
    /\ created = FALSE
    /\ mask = 0 /\ used = 0
    /\ entries = Empty(0)
    /\ result = NoEntry
    /\ dict = [k \in Keys |-> NoValue]

\* Only on a carrier without a table, so as not to drop one.
HCreate(count) ==
    /\ ~created
    /\ SlotsFor(count) <= MAXSLOTS
    /\ created' = TRUE
    /\ mask' = SlotsFor(count) - 1
    /\ used' = 0
    /\ entries' = Empty(mask')
    /\ result' = NoEntry
    /\ UNCHANGED dict

HDestroy ==
    /\ created
    /\ created' = FALSE
    /\ mask' = 0 /\ used' = 0
    /\ entries' = Empty(0)
    /\ result' = NoEntry
    /\ dict' = [k \in Keys |-> NoValue]

\* hsearch_r of a key that is there, with FIND or ENTER: its entry, unchanged;
\* and FIND of one that is not.
HFind(k) ==
    /\ created
    /\ result' = entries[Lookup(k, mask, entries)]
    /\ UNCHANGED <<table, dict>>

\* ENTER of a new key.  The entry is stored and counted first.  A table that
\* is more than three quarters full is rebuilt with twice as many slots as
\* entries; where that fails the entry is taken out again.
HEnter(k, v) ==
    /\ created
    /\ LET slot == Lookup(k, mask, entries)
           item == [key |-> k, data |-> v]
           stored == [entries EXCEPT ![slot] = item]
           slots == SlotsFor(2 * (used + 1))
       IN /\ entries[slot].key = NoKey
          /\ \/ /\ used + 1 <= mask - mask \div 4
                /\ used' = used + 1
                /\ entries' = stored
                /\ result' = item
                /\ dict' = [dict EXCEPT ![k] = v]
                /\ UNCHANGED mask
             \/ /\ used + 1 > mask - mask \div 4
                /\ slots <= MAXSLOTS
                /\ used' = used + 1
                /\ mask' = slots - 1
                /\ entries' = Rehashed(stored, mask, slots - 1)
                /\ result' = entries'[Lookup(k, mask', entries')]
                /\ dict' = [dict EXCEPT ![k] = v]
             \/ /\ used + 1 > mask - mask \div 4
                /\ entries' = [stored EXCEPT ![slot] = NoEntry]
                /\ result' = NoEntry
                /\ UNCHANGED <<mask, used, dict>>
    /\ UNCHANGED created

Next ==
    \/ \E count \in {0, MINSIZE + 1} : HCreate(count)
    \/ HDestroy
    \/ \E k \in Keys : HFind(k)
    \/ \E k \in Keys, v \in Values : HEnter(k, v)

Spec == Init /\ [][Next]_vars

----------------------------------------------------------------------------
Occupied == {i \in 0 .. mask : entries[i].key # NoKey}

TypeOK ==
    /\ created \in BOOLEAN
    /\ mask \in Nat /\ used \in Nat
    /\ entries \in [0 .. mask -> [key : Keys \cup {NoKey},
                                  data : Values \cup {NoValue}]]
    /\ result \in [key : Keys \cup {NoKey}, data : Values \cup {NoValue}]
    /\ dict \in [Keys -> Values \cup {NoValue}]

\* Every search ends: the probes for any key come to its entry or to an empty
\* slot.  The loop in mlib_hsearch_lookup has no other way out.
SearchesEnd == created => \A k \in Keys : Ends(k, mask, entries)

\* A search finds exactly the data each key was entered with, over any number
\* of collisions, resizes, and resizes that fail.
AgreesWithDict ==
    created => \A k \in Keys :
        Ends(k, mask, entries) =>
            entries[Lookup(k, mask, entries)].data = dict[k]

\* The count by which the table decides to grow is the number of entries, and
\* no key has two.
UsedExact ==
    /\ used = Cardinality(Occupied)
    /\ \A i, j \in Occupied : entries[i].key = entries[j].key => i = j

\* The caller of ENTER gets the entry that is in the table, not the slot it
\* had before the table was rebuilt (search.c:391).
ResultIsCurrent ==
    [][\A k \in Keys : dict'[k] # dict[k] /\ dict'[k] # NoValue
          => result'.key = k /\ \E i \in 0 .. mask' : entries'[i] = result']_vars

============================================================================
