------------------------------ MODULE MCFiles ------------------------------
(***************************************************************************)
(* TLC instance of what C opens: descriptors (FdTable), directory streams  *)
(* (DirStream) and FILEs (FileLife).  They share no state, so a behaviour  *)
(* exercises one of them, "part", and the others stay in one initial       *)
(* state: the instance has the states of all, not of their product.        *)
(*                                                                         *)
(* The instance has one directory with all names and others with one name, *)
(* so that a reading takes several batches and a renamed path shows.       *)
(***************************************************************************)
EXTENDS FdTable, TLC

CONSTANTS
  Carriers, Managed, Readers, Dirs, Full, Names, OneName, Gone, Plain,
  DirMaxFd, FileMaxFd, Batch, MaxChanges, AllocFails, StdinLost,      \* DirStream
  Blocks, NoFile, Used,                                     \* FileLife
  Parts

VARIABLES
  part,
  content, path, changes, fdtD, ownD, stdin, dir, got, must,
  map, saved, fd, node, ownF, pcF, f, f2, tfd

FirstContents ==
  {[d \in Dirs |-> IF d = Full THEN Names ELSE {OneName}]}

D == INSTANCE DirStream WITH MaxFd <- DirMaxFd, Contents <- FirstContents,
                             Lost <- StdinLost, fdt <- fdtD, own <- ownD
F == INSTANCE FileLife WITH MaxFd <- FileMaxFd, own <- ownF, pc <- pcF

ASSUME FileConstants == D!DirStreamConstants /\ F!FileLifeConstants

dirVars == <<content, path, changes, fdtD, ownD, stdin, dir, got, must>>
fileVars == <<map, saved, fd, node, ownF, pcF, f, f2, tfd>>
allVars == <<part, vars, dirVars, fileVars>>

\* The goroutines are alike.
Symmetry == Permutations(Procs)

MCInit ==
  /\ part \in Parts
  /\ Init /\ D!Init /\ F!Init
  /\ part # "dirs" => path = Full

MCNext ==
  \/ part = "fds" /\ Next /\ UNCHANGED <<part, dirVars, fileVars>>
  \/ part = "dirs" /\ D!Next /\ UNCHANGED <<part, vars, fileVars>>
  \/ part = "files" /\ F!Next /\ UNCHANGED <<part, vars, dirVars>>

MCSpec == MCInit /\ [][MCNext]_allVars

-----------------------------------------------------------------------------
\* DirStream: every descriptor belongs to C, to os.Std* or to one stream, and
\* readdir returns ".", ".." and every entry that was there all along, once
\* (internal/posixdir/dir.go).
StreamsSafe ==
  part = "dirs" => D!TypeOK /\ D!DirFdsExact /\ D!EntriesOnce

\* Descriptors and directory streams: every open number has one owner that
\* closes it once, and readdir misses and repeats nothing.
OneOwner == DescriptorsSafe /\ StreamsSafe

\* FileLife: every descriptor has one owner and every FILE the file it was
\* opened on, also where fopen and freopen fail half way; and no call on a FILE
\* touches a stream of the host's (csrc/stdio.c).
FilesSafe ==
  [](part = "files" => F!TypeOK /\ F!FilesExact) /\ [][part = "files" => F!OneCall]_<<map, saved>>
=============================================================================
