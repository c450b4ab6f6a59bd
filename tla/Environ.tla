------------------------------- MODULE Environ -------------------------------
(***************************************************************************)
(* The environment (process.go, csrc/env.c).  Go's os package owns it.     *)
(* getenv reads it there and then, under envMu, hands out a C copy that    *)
(* envCache roots; setenv, unsetenv and clearenv write it there, drop the  *)
(* cached copy and rebuild `environ`, an array in the C heap that          *)
(* __environ_sync frees and replaces.                                      *)
(*                                                                         *)
(* A buffer of the cache and an array of environ are serial numbers; 0 is  *)
(* the null pointer.  A buffer is never written after it is made.          *)
(***************************************************************************)
EXTENDS Integers, Sequences

CONSTANTS
    Procs,
    Mutators,      \* goroutines that change the environment
    Names, Values,
    Unset,         \* a name without a value
    MaxBufs,       \* buffers made within a behaviour
    MaxSnaps,      \* arrays made within a behaviour
    MallocFails    \* may an allocation of the rebuilt array fail

EnvironConstants ==
    /\ Names # {}
    /\ Mutators \subseteq Procs
    /\ Unset \notin Values
    /\ MaxBufs \in Nat /\ MaxSnaps \in Nat
    /\ MallocFails \in BOOLEAN

VARIABLES
    osEnv,         \* what the os package holds
    envCache,      \* name -> buffer
    bufs,          \* the buffers made: [name, value]
    environ,       \* the C global
    arrays,        \* the arrays made: [env, freed]
    pc,            \* goroutine -> the step it is at
    arg,           \* goroutine -> [name, value] of its call, value looked up
    built,         \* goroutine -> the array it built and has not published
    hold,          \* ghost: goroutine -> buffer its last getenv returned
    quiet,         \* ghost: goroutine -> no call of that name since
    changed,       \* ghost: buffers whose name was given another value since
    seen           \* ghost: goroutine -> values its name had during its call

osState == <<osEnv, seen, changed>>
cacheState == <<envCache, bufs, hold, quiet>>
arrayState == <<environ, arrays, built>>
vars == <<osState, cacheState, arrayState, pc, arg>>

Maybe == Values \cup {Unset}
NoCall == [name |-> CHOOSE n \in Names : TRUE, value |-> Unset]
Rooted(b) == \E n \in Names : envCache[n] = b
Cached(n, v) == envCache[n] # 0 /\ bufs[envCache[n]].value = v

----------------------------------------------------------------------------
\* The package's init has built environ.
Init ==
    /\ osEnv \in [Names -> Maybe]
    /\ envCache = [n \in Names |-> 0]
    /\ bufs = <<>>
    /\ environ = 1
    /\ arrays = <<[env |-> osEnv, freed |-> FALSE]>>
    /\ pc = [p \in Procs |-> "idle"]
    /\ arg = [p \in Procs |-> NoCall]
    /\ built = [p \in Procs |-> 0]
    /\ hold = [p \in Procs |-> 0]
    /\ quiet = [p \in Procs |-> FALSE]
    /\ changed = {}
    /\ seen = [p \in Procs |-> {}]

Goto(p, point) == pc' = [pc EXCEPT ![p] = point]

\* The call of p returns.
Return(p) ==
    /\ Goto(p, "idle")
    /\ arg' = [arg EXCEPT ![p] = NoCall]

\* A call of name n takes effect: older pointers of that name lose C's promise.
Disturb(n) ==
    [q \in Procs |-> IF quiet[q] THEN bufs[hold[q]].name # n ELSE FALSE]

\* Cache buffer b is what p's getenv returns.
Deliver(p, b, disturbed) ==
    /\ hold' = [hold EXCEPT ![p] = b]
    /\ quiet' = [disturbed EXCEPT ![p] = TRUE]

\* The os package gets a new environment.
OsWrite(env) ==
    /\ osEnv' = env
    /\ changed' = changed \cup
         {b \in 1 .. Len(bufs) : env[bufs[b].name] # osEnv[bufs[b].name]}
    /\ seen' = [q \in Procs |-> IF pc[q] \in {"lookup", "cache"}
                                THEN seen[q] \cup {env[arg[q].name]} ELSE {}]

----------------------------------------------------------------------------
(* getenv                                                                  *)

\* The call begins; the value is looked up later, and without envMu.
Getenv(p, n) ==
    /\ pc[p] = "idle"
    /\ Goto(p, "lookup")
    /\ arg' = [arg EXCEPT ![p] = [name |-> n, value |-> Unset]]
    /\ seen' = [seen EXCEPT ![p] = {osEnv[n]}]
    /\ UNCHANGED <<osEnv, changed, cacheState, arrayState>>

LookupEnv(p) ==
    /\ pc[p] = "lookup"
    /\ LET v == osEnv[arg[p].name] IN
         \/ /\ v = Unset
            /\ Return(p)
            /\ hold' = [hold EXCEPT ![p] = 0]
            /\ quiet' = [quiet EXCEPT ![p] = FALSE]
            /\ seen' = [seen EXCEPT ![p] = {}]
         \/ /\ v # Unset
            /\ Goto(p, "cache")
            /\ arg' = [arg EXCEPT ![p].value = v]
            /\ UNCHANGED <<hold, quiet, seen>>
    /\ UNCHANGED <<osEnv, changed, envCache, bufs, arrayState>>

\* A copy is handed out whatever the value looked up.
CacheCopy_AnyValue(p) ==
    /\ pc[p] = "cache"
    /\ LET n == arg[p].name IN
         \/ /\ envCache[n] # 0
            /\ Deliver(p, envCache[n], quiet)
            /\ UNCHANGED <<envCache, bufs>>
         \/ /\ envCache[n] = 0
            /\ Len(bufs) < MaxBufs
            /\ bufs' = Append(bufs, [name |-> n, value |-> arg[p].value])
            /\ envCache' = [envCache EXCEPT ![n] = Len(bufs')]
            /\ Deliver(p, Len(bufs'), Disturb(n))
    /\ Return(p)
    /\ seen' = [seen EXCEPT ![p] = {}]
    /\ UNCHANGED <<osEnv, changed, arrayState>>

\* Under envMu: the cached copy if it holds the value looked up, else a new one
\* in its place.
CacheCopy(p) ==
    /\ pc[p] = "cache"
    /\ LET n == arg[p].name
           v == arg[p].value IN
         \/ /\ Cached(n, v)
            /\ Deliver(p, envCache[n], quiet)
            /\ UNCHANGED <<envCache, bufs, changed>>
         \/ /\ ~Cached(n, v)
            /\ Len(bufs) < MaxBufs
            /\ bufs' = Append(bufs, [name |-> n, value |-> v])
            /\ envCache' = [envCache EXCEPT ![n] = Len(bufs')]
            /\ changed' = IF osEnv[n] = v THEN changed ELSE changed \cup {Len(bufs')}
            /\ Deliver(p, Len(bufs'), Disturb(n))
    /\ Return(p)
    /\ seen' = [seen EXCEPT ![p] = {}]
    /\ UNCHANGED <<osEnv, arrayState>>

----------------------------------------------------------------------------
(* setenv, unsetenv, clearenv                                              *)

Begin(p, n, v, point) ==
    /\ pc[p] = "idle" /\ p \in Mutators
    /\ arg' = [arg EXCEPT ![p] = [name |-> n, value |-> v]]
    /\ Goto(p, point)

\* setenv with overwrite, or of a name that has no value; putenv ends here too.
Setenv(p, n, v) ==
    /\ Begin(p, n, Unset, "drop")
    /\ OsWrite([osEnv EXCEPT ![n] = v])
    /\ UNCHANGED <<cacheState, arrayState>>

\* setenv without overwrite: a name that has a value keeps it; otherwise the
\* value is set later, whatever another goroutine sets before that.
SetenvIfUnset(p, n, v) ==
    /\ osEnv[n] = Unset
    /\ Begin(p, n, v, "set")
    /\ UNCHANGED <<osState, cacheState, arrayState>>

SetLooked(p) ==
    /\ pc[p] = "set"
    /\ OsWrite([osEnv EXCEPT ![arg[p].name] = arg[p].value])
    /\ Goto(p, "drop")
    /\ UNCHANGED <<cacheState, arrayState, arg>>

Unsetenv(p, n) ==
    /\ Begin(p, n, Unset, "drop")
    /\ OsWrite([osEnv EXCEPT ![n] = Unset])
    /\ UNCHANGED <<cacheState, arrayState>>

Clearenv(p) ==
    /\ Begin(p, NoCall.name, Unset, "clear")
    /\ OsWrite([n \in Names |-> Unset])
    /\ UNCHANGED <<cacheState, arrayState>>

\* Under envMu: the cached copies of the names written are dropped.
Drop(p) ==
    /\ \/ /\ pc[p] = "drop"
          /\ envCache' = [envCache EXCEPT ![arg[p].name] = 0]
          /\ quiet' = Disturb(arg[p].name)
       \/ /\ pc[p] = "clear"
          /\ envCache' = [n \in Names |-> 0]
          /\ quiet' = [q \in Procs |-> FALSE]
    /\ Goto(p, "free")
    /\ UNCHANGED <<osState, bufs, hold, arrayState, arg>>

\* __environ_sync: the old array and its strings are freed ...
FreeArray(p) ==
    /\ pc[p] = "free"
    /\ arrays' = [i \in 1 .. Len(arrays) |->
                    IF i = environ THEN [arrays[i] EXCEPT !.freed = TRUE]
                    ELSE arrays[i]]
    /\ Goto(p, "snapshot")
    /\ UNCHANGED <<osState, cacheState, environ, built, arg>>

\* ... a new one is built from os.Environ(); where a string cannot be
\* allocated, the array is abandoned and the snapshot is NULL ...
Snapshot(p) ==
    /\ pc[p] = "snapshot"
    /\ Len(arrays) < MaxSnaps
    /\ arrays' = Append(arrays, [env |-> osEnv, freed |-> FALSE])
    /\ \/ built' = [built EXCEPT ![p] = Len(arrays')]
       \/ MallocFails /\ built' = [built EXCEPT ![p] = 0]
    /\ Goto(p, "publish")
    /\ UNCHANGED <<osState, cacheState, environ, arg>>

\* ... and takes the place of the old one.
Publish(p) ==
    /\ pc[p] = "publish"
    /\ environ' = built[p]
    /\ built' = [built EXCEPT ![p] = 0]
    /\ Return(p)
    /\ UNCHANGED <<osState, cacheState, arrays>>

Next == \E p \in Procs :
    \/ \E n \in Names : Getenv(p, n) \/ Unsetenv(p, n)
    \/ \E n \in Names, v \in Values : Setenv(p, n, v) \/ SetenvIfUnset(p, n, v)
    \/ Clearenv(p) \/ SetLooked(p)
    \/ LookupEnv(p) \/ CacheCopy(p) \/ Drop(p)
    \/ FreeArray(p) \/ Snapshot(p) \/ Publish(p)

Spec == Init /\ [][Next]_vars

----------------------------------------------------------------------------
TypeOK ==
    /\ osEnv \in [Names -> Maybe]
    /\ envCache \in [Names -> 0 .. Len(bufs)]
    /\ bufs \in Seq([name : Names, value : Values])
    /\ environ \in 0 .. Len(arrays)
    /\ arrays \in Seq([env : [Names -> Maybe], freed : BOOLEAN])
    /\ pc \in [Procs -> {"idle", "lookup", "cache", "set", "drop", "clear", "free",
                         "snapshot", "publish"}]
    /\ arg \in [Procs -> [name : Names, value : Maybe]]
    /\ built \in [Procs -> 0 .. Len(arrays)]
    /\ hold \in [Procs -> 0 .. Len(bufs)]
    /\ quiet \in [Procs -> BOOLEAN]
    /\ changed \subseteq 1 .. Len(bufs)
    /\ seen \in [Procs -> SUBSET Maybe]

\* process.go:82-85: the string getenv returned stays rooted until the next
\* getenv, setenv or unsetenv of the same name, whatever happens to others.
PointerUntilNextCall ==
    \A p \in Procs : quiet[p] => Rooted(hold[p])

\* getenv returns a value that its name had at some time between the call and
\* the return: a value another goroutine set before the call is never missed,
\* although the cache may still hold an older copy.
GetenvNotStale ==
    [][\A p \in Procs : pc[p] = "cache" /\ pc'[p] = "idle"
         => bufs'[hold'[p]].value \in seen[p]]_vars

\* env.c:8-13: when no change is under way, environ is an array that is not
\* freed and shows the environment as it is.
EnvironFresh ==
    (\A p \in Mutators : pc[p] \in {"idle", "lookup", "cache"})
        => environ # 0 /\ ~arrays[environ].freed /\ arrays[environ].env = osEnv

\* An array is freed, is environ, or is about to be: none is lost.
NoArrayLost ==
    \A i \in 1 .. Len(arrays) :
        arrays[i].freed \/ i = environ \/ \E p \in Procs : built[p] = i

\* process.go:105: "Only a genuine value change replaces" the cached copy.
OnlyChangeReplaces ==
    [][\A n \in Names :
         envCache[n] # 0 /\ envCache'[n] # envCache[n] /\ envCache'[n] # 0
            => envCache[n] \in changed]_vars

============================================================================
