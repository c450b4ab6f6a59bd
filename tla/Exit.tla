-------------------------------- MODULE Exit --------------------------------
(***************************************************************************)
(* How a C process ends: atexit and at_quick_exit, __c2go_finalize, exit,  *)
(* quick_exit and abort (csrc/exit.c), the finalize hooks of the Go        *)
(* packages (internal/finalize) and the flush of both FILE worlds.         *)
(*                                                                         *)
(* The open files are numbered in the order in which they are flushed:     *)
(* mlib's by the hook mlib registers, the standard streams before the open *)
(* list, then root's by fflush(NULL), again stdout and stderr before the   *)
(* list.  To flush a stream of fopencookie is to run user code, which may  *)
(* write to any other stream, also to one the walk has left behind.        *)
(*                                                                         *)
(* A goroutine is running user code, main's or a handler's, or is inside   *)
(* one of the calls of this module; its stack says which.  Handlers are    *)
(* user code: they write, register further handlers and end the process.   *)
(***************************************************************************)
EXTENDS Integers, Sequences, FiniteSets

CONSTANTS
    Procs,
    Exiters,       \* the goroutines that may end the process
    ATEXIT_MAX,    \* slots of each registry
    MaxRegs,       \* registrations within a behaviour
    MaxDepth,      \* calls of this module nested in handlers
    NFiles,        \* open files,
    NMlib,         \* of which so many are mlib's
    CookieFiles    \* those of fopencookie

ExitConstants ==
    /\ Exiters \subseteq Procs
    /\ ATEXIT_MAX \in Nat /\ MaxRegs \in Nat /\ MaxDepth \in Nat \ {0}
    /\ NFiles \in Nat /\ NMlib \in 0 .. NFiles /\ CookieFiles \subseteq 1 .. NFiles

VARIABLES
    atexitFuncs,   \* the atexit registry; a registration is its serial number
    quickFuncs,    \* the at_quick_exit registry
    abortHandler,  \* is a SIGABRT handler in the signal table
    stack,         \* goroutine -> frames [call, at], the innermost last
    runMu,         \* the goroutines inside finalize.Run
    dirty,         \* file -> does it buffer bytes, and must they reach the device
    walk,          \* goroutine -> the file its flush comes to next
    ended,         \* "", or the call that ended the process
    regs,          \* ghost: registrations made
    ran,           \* ghost: registration -> times it was called
    due            \* ghost: registrations an exit owes a call

vars == <<atexitFuncs, quickFuncs, abortHandler, stack, runMu, dirty, walk,
          ended, regs, ran, due>>

Files == 1 .. NFiles
\* "late" are bytes that a cookie wrote to a file the flush had left behind;
\* what else is buffered is "owed" to the device.
Buffered == {"clean", "late", "owed"}
Calls == {"finalize", "exit", "quick_exit", "abort"}
Points == {"pop", "handler", "hooks", "hooking", "flush", "end"}

Elements(s) == {s[i] : i \in 1 .. Len(s)}
Top(p) == stack[p][Len(stack[p])]
At(p, point) == stack[p] # <<>> /\ Top(p).at = point
UserCode(p) == ended = "" /\ (stack[p] = <<>> \/ At(p, "handler"))

\* p is in exit, or in a handler exit called.
Exiting(p) == \E i \in 1 .. Len(stack[p]) : stack[p][i].call = "exit"
SomeExit == \E p \in Procs : Exiting(p)

Goto(p, point) == stack' = [stack EXCEPT ![p][Len(stack[p])].at = point]

----------------------------------------------------------------------------
Init ==
    /\ atexitFuncs = <<>> /\ quickFuncs = <<>>
    /\ abortHandler \in BOOLEAN
    /\ stack = [p \in Procs |-> <<>>]
    /\ runMu = {}
    /\ dirty = [f \in Files |-> "clean"]
    /\ walk = [p \in Procs |-> 1]
    /\ ended = ""
    /\ regs = 0
    /\ ran = [r \in 1 .. MaxRegs |-> 0]
    /\ due = {}

\* atexit and at_quick_exit, under atexitMu; a full registry refuses.  What a
\* handler of exit registers is owed a call, and so is what is there when exit
\* begins.
Register(p) ==
    /\ UserCode(p) /\ regs < MaxRegs
    /\ regs' = regs + 1
    /\ \/ /\ Len(atexitFuncs) < ATEXIT_MAX
          /\ atexitFuncs' = Append(atexitFuncs, regs')
          /\ due' = IF Exiting(p) THEN due \cup {regs'} ELSE due
          /\ UNCHANGED quickFuncs
       \/ /\ Len(quickFuncs) < ATEXIT_MAX
          /\ quickFuncs' = Append(quickFuncs, regs')
          /\ UNCHANGED <<atexitFuncs, due>>
    /\ UNCHANGED <<abortHandler, stack, runMu, dirty, walk, ended, ran>>

\* A buffered write.  One made while another goroutine exits may be lost.
Write(p, f) ==
    /\ UserCode(p)
    /\ SomeExit => Exiting(p)
    /\ dirty' = [dirty EXCEPT ![f] = "owed"]
    /\ UNCHANGED <<atexitFuncs, quickFuncs, abortHandler, stack, runMu, walk,
                   ended, regs, ran, due>>

Call(p, c) ==
    /\ UserCode(p) /\ p \in Exiters /\ Len(stack[p]) < MaxDepth
    /\ stack' = [stack EXCEPT ![p] =
                   Append(@, [call |-> c, at |-> "pop"])]
    /\ due' = IF c = "exit" THEN due \cup Elements(atexitFuncs) ELSE due
    /\ UNCHANGED <<atexitFuncs, quickFuncs, abortHandler, runMu, dirty, walk, ended,
                   regs, ran>>

\* The last registration that is left is taken off under the lock; its
\* function runs without the lock.
PopAtexit(p) ==
    /\ At(p, "pop") /\ Top(p).call \in {"finalize", "exit"}
    /\ LET n == Len(atexitFuncs) IN
         \/ /\ n > 0
            /\ ran' = [ran EXCEPT ![atexitFuncs[n]] = @ + 1]
            /\ atexitFuncs' = SubSeq(atexitFuncs, 1, n - 1)
            /\ Goto(p, "handler")
         \/ /\ n = 0
            /\ Goto(p, "hooks")
            /\ UNCHANGED <<atexitFuncs, ran>>
    /\ UNCHANGED <<quickFuncs, abortHandler, runMu, dirty, walk, ended, regs, due>>

PopQuick(p) ==
    /\ At(p, "pop") /\ Top(p).call = "quick_exit"
    /\ LET n == Len(quickFuncs) IN
         \/ /\ n > 0
            /\ ran' = [ran EXCEPT ![quickFuncs[n]] = @ + 1]
            /\ quickFuncs' = SubSeq(quickFuncs, 1, n - 1)
            /\ Goto(p, "handler")
         \/ /\ n = 0
            /\ Goto(p, "end")
            /\ UNCHANGED <<quickFuncs, ran>>
    /\ UNCHANGED <<atexitFuncs, abortHandler, runMu, dirty, walk, ended, regs, due>>

\* abort swaps SIG_DFL into the table before it calls a handler it found there.
DispatchAbort(p) ==
    /\ At(p, "pop") /\ Top(p).call = "abort"
    /\ abortHandler' = FALSE
    /\ Goto(p, IF abortHandler THEN "handler" ELSE "end")
    /\ UNCHANGED <<atexitFuncs, quickFuncs, runMu, dirty, walk, ended, regs, ran, due>>

\* A handler returns to the loop that called it; abort's loop has no second
\* round.
HandlerReturns(p) ==
    /\ At(p, "handler")
    /\ Goto(p, IF Top(p).call = "abort" THEN "end" ELSE "pop")
    /\ UNCHANGED <<atexitFuncs, quickFuncs, abortHandler, runMu, dirty, walk, ended,
                   regs, ran, due>>

\* finalize.Run: runMu is held over the hooks.  The flush that begins here
\* comes to every file, so it owes the device whatever is buffered now.
EnterHooks(p) ==
    /\ At(p, "hooks") /\ runMu = {}
    /\ runMu' = {p}
    /\ walk' = [walk EXCEPT ![p] = 1]
    /\ dirty' = [f \in Files |-> IF dirty[f] = "late" THEN "owed" ELSE dirty[f]]
    /\ Goto(p, "hooking")
    /\ UNCHANGED <<atexitFuncs, quickFuncs, abortHandler, ended, regs, ran, due>>

\* One file is flushed, under its own lock.  A cookie runs only if there is
\* something to write, and it may write to any of the other files.
FlushFile(p) ==
    LET f == walk[p]
        runsCookie == f \in CookieFiles /\ dirty[f] # "clean" IN
      /\ \E written \in SUBSET (IF runsCookie THEN Files \ {f} ELSE {}) :
           dirty' = [g \in Files |->
                       IF g = f THEN "clean"
                       ELSE IF g \notin written THEN dirty[g]
                       ELSE IF g > f \/ dirty[g] = "owed" THEN "owed" ELSE "late"]
      /\ walk' = [walk EXCEPT ![p] = f + 1]

\* mlib's hook: it flushes mlib's files, then finalize.Run returns.
RunHooks(p) ==
    /\ At(p, "hooking")
    /\ \/ walk[p] <= NMlib /\ FlushFile(p) /\ UNCHANGED <<stack, runMu>>
       \/ /\ walk[p] > NMlib
          /\ runMu' = {}
          /\ Goto(p, "flush")
          /\ UNCHANGED <<dirty, walk>>
    /\ UNCHANGED <<atexitFuncs, quickFuncs, abortHandler, ended, regs, ran, due>>

\* fflush(NULL) that ends its walk at the first file with nothing to write.
FlushRoot_Breaks(p) ==
    /\ At(p, "flush")
    /\ \/ /\ walk[p] <= NFiles /\ dirty[walk[p]] # "clean"
          /\ FlushFile(p) /\ UNCHANGED stack
       \/ /\ walk[p] <= NFiles => dirty[walk[p]] = "clean"
          /\ IF Top(p).call = "exit"
             THEN Goto(p, "end")
             ELSE stack' = [stack EXCEPT ![p] = SubSeq(@, 1, Len(@) - 1)]
          /\ UNCHANGED <<dirty, walk>>
    /\ UNCHANGED <<atexitFuncs, quickFuncs, abortHandler, runMu, ended, regs,
                   ran, due>>

\* fflush(NULL).  __c2go_finalize returns then, exit goes on to end.
FlushRoot(p) ==
    /\ At(p, "flush")
    /\ \/ walk[p] <= NFiles /\ FlushFile(p) /\ UNCHANGED stack
       \/ /\ walk[p] > NFiles
          /\ IF Top(p).call = "exit"
             THEN Goto(p, "end")
             ELSE stack' = [stack EXCEPT ![p] = SubSeq(@, 1, Len(@) - 1)]
          /\ UNCHANGED <<dirty, walk>>
    /\ UNCHANGED <<atexitFuncs, quickFuncs, abortHandler, runMu, ended, regs,
                   ran, due>>

\* os.Exit.
End(p) ==
    /\ At(p, "end")
    /\ ended' = Top(p).call
    /\ UNCHANGED <<atexitFuncs, quickFuncs, abortHandler, stack, runMu, dirty, walk,
                   regs, ran, due>>

\* What the library does once called, for as long as the process lives.
Library(p) ==
    /\ ended = ""
    /\ \/ PopAtexit(p) \/ PopQuick(p) \/ DispatchAbort(p) \/ EnterHooks(p)
       \/ RunHooks(p) \/ FlushRoot(p) \/ End(p)

User(p) ==
    \/ Register(p)
    \/ \E f \in Files : Write(p, f)
    \/ \E c \in Calls : Call(p, c)

Next == \E p \in Procs :
    User(p) \/ Library(p) \/ (UserCode(p) /\ HandlerReturns(p))

Spec == Init /\ [][Next]_vars

\* The scheduler runs every goroutine, a handler does not call finalize for
\* ever but returns, and a Go mutex does not starve a waiter (runMu).
Fairness ==
    \A p \in Procs :
        /\ WF_vars(Library(p))
        /\ SF_vars(ended = "" /\ EnterHooks(p))
        /\ SF_vars(UserCode(p) /\ HandlerReturns(p))

----------------------------------------------------------------------------
TypeOK ==
    /\ atexitFuncs \in Seq(1 .. MaxRegs) /\ Len(atexitFuncs) <= ATEXIT_MAX
    /\ quickFuncs \in Seq(1 .. MaxRegs) /\ Len(quickFuncs) <= ATEXIT_MAX
    /\ abortHandler \in BOOLEAN
    /\ stack \in [Procs -> Seq([call : Calls, at : Points])]
    /\ runMu \subseteq Procs
    /\ dirty \in [Files -> Buffered]
    /\ walk \in [Procs -> 1 .. NFiles + 1]
    /\ ended \in Calls \cup {""}
    /\ regs \in 0 .. MaxRegs
    /\ ran \in [1 .. MaxRegs -> Nat]
    /\ due \subseteq 1 .. MaxRegs

\* No registration is called twice, however many goroutines end the process
\* at once and however their calls nest, and none is dropped but by quick_exit
\* and abort, which owe the atexit handlers nothing.
EachRegistrationOnce ==
    \A r \in 1 .. regs :
        ran[r] = IF r \in Elements(atexitFuncs) \cup Elements(quickFuncs)
                 THEN 0 ELSE 1

\* When exit ends the process, the handlers registered before it was called
\* and those its handlers registered have all been called, also where one of
\* them called exit or __c2go_finalize itself.
ExitRunsWhatIsDue ==
    ended = "exit" => \A r \in due : ran[r] = 1

\* When exit ends the process, everything is written that main or a handler
\* left in a buffer of either world, and of what the cookies wrote on the way
\* everything that went to a file whose turn was still to come: mlib's cookies
\* always reach the files of the root world (exit.c:72-77).
ExitLosesNoByte ==
    ended = "exit" => \A f \in Files : dirty[f] # "owed"

\* exit ends the process, if the handlers return and stop registering.
ExitEnds == \A p \in Procs : Exiting(p) ~> ended # ""

============================================================================
