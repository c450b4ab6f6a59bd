-------------------------------- MODULE Popen --------------------------------
(***************************************************************************)
(* popen, pclose and system (popen.go, popen_unix.go, csrc/stdio.c,        *)
(* system_unix.go): jobs whose child process shares a pipe with the        *)
(* program, and who holds the program's end of that pipe.  The Go copy of  *)
(* the end is close-on-exec; the copy that C gets is not, so it passes to  *)
(* every child started while it is open.                                   *)
(*                                                                         *)
(* A command here reads to the end of its input, or writes until nobody    *)
(* reads: it ends when nobody holds the other end.  It may also end        *)
(* earlier, by itself.  A command of system is not tied to a pipe.         *)
(***************************************************************************)
EXTENDS Sequences, Naturals, FiniteSets

CONSTANTS
  Procs,      \* goroutines
  Jobs,       \* calls of popen and system within a behaviour
  NoJob,
  MaxOpen     \* bound: streams a goroutine has open at a time

ASSUME PopenAssumption == NoJob \notin Jobs /\ MaxOpen \in Nat

VARIABLES
  kind,       \* job -> "unused", "pipe" or "system"
  child,      \* job -> "none", "alive", "zombie" or "reaped"
  goEnd,      \* jobs whose pipe end the *os.File holds
  cEnd,       \* jobs whose pipe end a C descriptor holds
  inherits,   \* job -> the jobs whose C descriptor its child was started with
  popenTab,   \* jobs whose *exec.Cmd the handle table roots
  mine,       \* goroutine -> its open streams, the last one opened last
  calls       \* goroutine -> [at, job], where it is in popen, pclose or system

vars == <<kind, child, goEnd, cEnd, inherits, popenTab, mine, calls>>

Idle == [at |-> "idle", job |-> NoJob]
At(p, point) == calls[p].at = point
Job(p) == calls[p].job
Goto(p, point) == calls' = [calls EXCEPT ![p].at = point]
Done(p) == calls' = [calls EXCEPT ![p] = Idle]

Init ==
  /\ kind = [j \in Jobs |-> "unused"]
  /\ child = [j \in Jobs |-> "none"]
  /\ goEnd = {} /\ cEnd = {} /\ popenTab = {}
  /\ inherits = [j \in Jobs |-> {}]
  /\ mine = [p \in Procs |-> <<>>]
  /\ calls = [p \in Procs |-> Idle]

-----------------------------------------------------------------------------
(* popen                                                                   *)

\* StdinPipe or StdoutPipe.
MakePipe(p, j) ==
  /\ At(p, "idle") /\ kind[j] = "unused" /\ Len(mine[p]) < MaxOpen
  /\ kind' = [kind EXCEPT ![j] = "pipe"]
  /\ goEnd' = goEnd \cup {j}
  /\ calls' = [calls EXCEPT ![p] = [at |-> "piped", job |-> j]]
  /\ UNCHANGED <<child, cEnd, inherits, popenTab, mine>>

\* The child keeps the Go copies of the other pipes too.
StartChild_InheritsAll(j) ==
  /\ child' = [child EXCEPT ![j] = "alive"]
  /\ inherits' = [inherits EXCEPT ![j] = (cEnd \cup goEnd) \ {j}]

\* A fork and exec: every C descriptor that is open passes to the child.
StartChild(j) ==
  /\ child' = [child EXCEPT ![j] = "alive"]
  /\ inherits' = [inherits EXCEPT ![j] = cEnd]

Start(p) ==
  /\ At(p, "piped")
  /\ StartChild(Job(p))
  /\ Goto(p, "started")
  /\ UNCHANGED <<kind, goEnd, cEnd, popenTab, mine>>

StartFails(p) ==
  /\ At(p, "piped")
  /\ goEnd' = goEnd \ {Job(p)}
  /\ Done(p)
  /\ UNCHANGED <<kind, child, cEnd, inherits, popenTab, mine>>

\* cPipeFd: dup, and the Go copy is closed.
CPipeFd(p) ==
  /\ At(p, "started")
  /\ cEnd' = cEnd \cup {Job(p)}
  /\ goEnd' = goEnd \ {Job(p)}
  /\ Goto(p, "handed")
  /\ UNCHANGED <<kind, child, inherits, popenTab, mine>>

\* No descriptor is left: the child is killed and waited for.
CPipeFdFails(p) ==
  /\ At(p, "started")
  /\ goEnd' = goEnd \ {Job(p)}
  /\ child' = [child EXCEPT ![Job(p)] = "zombie"]
  /\ Goto(p, "wait")
  /\ UNCHANGED <<kind, cEnd, inherits, popenTab, mine>>

\* popenTab.alloc
Root(p) ==
  /\ At(p, "handed")
  /\ popenTab' = popenTab \cup {Job(p)}
  /\ Goto(p, "rooted")
  /\ UNCHANGED <<kind, child, goEnd, cEnd, inherits, mine>>

Fdopen(p) ==
  /\ At(p, "rooted")
  /\ mine' = [mine EXCEPT ![p] = Append(@, Job(p))]
  /\ Done(p)
  /\ UNCHANGED <<kind, child, goEnd, cEnd, inherits, popenTab>>

\* The process is forgotten, as its stream is.
FdopenFails_NoPclose(p) ==
  /\ At(p, "rooted")
  /\ cEnd' = cEnd \ {Job(p)}
  /\ Done(p)
  /\ UNCHANGED <<kind, child, goEnd, inherits, popenTab, mine>>

\* fdopen cannot allocate: the descriptor is closed and the child waited for.
FdopenFails(p) ==
  /\ At(p, "rooted")
  /\ cEnd' = cEnd \ {Job(p)}
  /\ Goto(p, "lookup")
  /\ UNCHANGED <<kind, child, goEnd, inherits, popenTab, mine>>

-----------------------------------------------------------------------------
(* pclose and system                                                       *)

\* fclose.  A goroutine closes the stream it opened last first.
Pclose(p) ==
  /\ At(p, "idle") /\ mine[p] # <<>>
  /\ LET n == Len(mine[p]) IN
       /\ cEnd' = cEnd \ {mine[p][n]}
       /\ calls' = [calls EXCEPT ![p] = [at |-> "lookup", job |-> mine[p][n]]]
       /\ mine' = [mine EXCEPT ![p] = SubSeq(@, 1, n - 1)]
  /\ UNCHANGED <<kind, child, goEnd, inherits, popenTab>>

\* __c2go_pclose takes the command out of the table.
Lookup(p) ==
  /\ At(p, "lookup") /\ Job(p) \in popenTab
  /\ popenTab' = popenTab \ {Job(p)}
  /\ Goto(p, "wait")
  /\ UNCHANGED <<kind, child, goEnd, cEnd, inherits, mine>>

\* cmd.Wait
Wait(p) ==
  /\ At(p, "wait") /\ child[Job(p)] = "zombie"
  /\ child' = [child EXCEPT ![Job(p)] = "reaped"]
  /\ Done(p)
  /\ UNCHANGED <<kind, goEnd, cEnd, inherits, popenTab, mine>>

\* system: a child without a pipe, started and waited for by cmd.Run.
System(p, j) ==
  /\ At(p, "idle") /\ kind[j] = "unused"
  /\ kind' = [kind EXCEPT ![j] = "system"]
  /\ StartChild(j)
  /\ calls' = [calls EXCEPT ![p] = [at |-> "wait", job |-> j]]
  /\ UNCHANGED <<goEnd, cEnd, popenTab, mine>>

-----------------------------------------------------------------------------
(* The children                                                            *)

\* Who, besides the program, holds the program's end of the pipe of j.
Heirs(j) == {k \in Jobs : child[k] = "alive" /\ j \in inherits[k]}

HasToEnd(j) ==
  kind[j] = "pipe" => j \notin goEnd \cup cEnd /\ Heirs(j) = {}

ChildEnds(j) ==
  /\ child[j] = "alive"
  /\ child' = [child EXCEPT ![j] = "zombie"]
  /\ UNCHANGED <<kind, goEnd, cEnd, inherits, popenTab, mine, calls>>

PopenStep(p) ==
  \/ Start(p) \/ StartFails(p) \/ CPipeFd(p) \/ CPipeFdFails(p) \/ Root(p)
  \/ Fdopen(p) \/ FdopenFails(p) \/ Lookup(p) \/ Wait(p)

Next ==
  \/ \E p \in Procs :
       \/ PopenStep(p) \/ Pclose(p)
       \/ \E j \in Jobs : MakePipe(p, j) \/ System(p, j)
  \/ \E j \in Jobs : ChildEnds(j)

Spec == Init /\ [][Next]_vars

\* Goroutines run, programs close their streams, and a command ends once its
\* pipe says so; a command of system ends.
Fairness ==
  /\ \A p \in Procs : WF_vars(PopenStep(p)) /\ WF_vars(Pclose(p))
  /\ \A j \in Jobs : WF_vars(HasToEnd(j) /\ ChildEnds(j))

-----------------------------------------------------------------------------
TypeOK ==
  /\ kind \in [Jobs -> {"unused", "pipe", "system"}]
  /\ child \in [Jobs -> {"none", "alive", "zombie", "reaped"}]
  /\ goEnd \subseteq Jobs /\ cEnd \subseteq Jobs /\ popenTab \subseteq Jobs
  /\ inherits \in [Jobs -> SUBSET Jobs]
  /\ \A p \in Procs : /\ \A i \in 1 .. Len(mine[p]) : mine[p][i] \in Jobs
                      /\ Len(mine[p]) <= MaxOpen
                      /\ calls[p].job \in Jobs \cup {NoJob}

Open(j) == \E p \in Procs : \E i \in 1 .. Len(mine[p]) : mine[p][i] = j
InCall(j) == \E p \in Procs : Job(p) = j

\* A stream that is open has its descriptor to itself (popen.go:11: "fd
\* ownership is made EXCLUSIVE to the C world"), its command in the table and
\* its child unreaped; and a call that is over, whichever of its steps failed,
\* leaves no descriptor, no table entry and no zombie.
ProcessesSafe ==
  \A j \in Jobs :
    /\ Open(j) => /\ j \in cEnd \ goEnd /\ j \in popenTab
                  /\ child[j] \in {"alive", "zombie"}
    /\ ~Open(j) /\ ~InCall(j) => /\ j \notin goEnd \cup cEnd \cup popenTab
                                 /\ child[j] \in {"none", "reaped"}

\* Every popen, pclose and system returns, whatever descriptors the children
\* inherited from each other, if every goroutine closes its streams in the
\* reverse order of opening them.
PcloseReturns == \A p \in Procs : ~At(p, "idle") ~> At(p, "idle")

\* csrc/stdio.c:1905, of the fclose in pclose: "flush + close the pipe end: the
\* child sees EOF / SIGPIPE".
EofFollowsClose ==
  \A p \in Procs : At(p, "wait") /\ child[Job(p)] = "alive" => HasToEnd(Job(p))
=============================================================================
