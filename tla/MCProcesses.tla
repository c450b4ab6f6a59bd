----------------------------- MODULE MCProcesses -----------------------------
(***************************************************************************)
(* TLC instance of the processes of a program: the children it starts      *)
(* (Popen) and its own end (Exit).  They share no state, so a behaviour    *)
(* exercises one of them, "part", and the other stays in one initial       *)
(* state.  Exit is exercised with one goroutine that ends the process and  *)
(* many registrations ("exit"), and with several that write nothing        *)
(* ("exits"): what they write while another exits is owed to nobody.       *)
(***************************************************************************)
EXTENDS Popen, TLC

CONSTANTS
  Exiter,                                  \* Exit; one of Procs
  ATEXIT_MAX, MaxRegs, MaxDepth,
  NFiles, NMlib, CookieFiles,
  FewRegs                                  \* registrations in "exits"

VARIABLES
  part,
  atexitFuncs, quickFuncs, abortHandler, stack, runMu, dirty, walk, ended, regs, ran, due

X == INSTANCE Exit WITH Exiters <- Procs

exitVars ==
  <<atexitFuncs, quickFuncs, abortHandler, stack, runMu, dirty, walk, ended, regs, ran, due>>
allVars == <<part, vars, exitVars>>

ASSUME ExitConstantsHold == X!ExitConstants /\ Exiter \in Procs

MCInit ==
  /\ part \in {"popen", "exit", "exits"}
  /\ Init /\ X!Init
  /\ part = "popen" => ~abortHandler

MCNext ==
  \/ part = "popen" /\ Next /\ UNCHANGED <<part, exitVars>>
  \/ /\ part \in {"exit", "exits"}
     /\ X!Next
     /\ part = "exit" => \A p \in Procs \ {Exiter} : stack'[p] = <<>>
     /\ part = "exits" => regs' <= FewRegs /\ dirty' = dirty
     /\ UNCHANGED <<part, vars>>

MCSpec == MCInit /\ [][MCNext]_allVars

MCFairSpec == MCSpec /\ Fairness /\ X!Fairness

-----------------------------------------------------------------------------
\* Popen: streams own their descriptors and children, and no call that is over
\* leaves a descriptor, a table entry or a zombie (popen.go, popen_unix.go).
PopenSafe == TypeOK /\ ProcessesSafe

\* Exit: registrations are called once each, also with two goroutines that end
\* the process; with one, exit calls all that are due and leaves no byte in a
\* buffer but those a cookie wrote to a file already flushed (csrc/exit.c).
ExitSafe ==
  /\ X!TypeOK
  /\ X!EachRegistrationOnce
  /\ part = "exit" => X!ExitRunsWhatIsDue /\ X!ExitLosesNoByte

\* popen, pclose and system return if streams are closed in the reverse order of
\* opening, and exit ends the process if the handlers return and stop
\* registering (popen.go, csrc/exit.c).
ProcessesEnd == PcloseReturns /\ X!ExitEnds
=============================================================================
