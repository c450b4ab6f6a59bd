--------------------------- MODULE DescriptorMap ---------------------------
(***************************************************************************)
(* What the descriptor layer promises C: a table from descriptor numbers   *)
(* to open files in which every call is one atomic step.  Numbers 0 to 2   *)
(* are the live standard streams; no call ever gives one of them out for   *)
(* another file, and C can neither close it nor redirect it while a stream *)
(* the Go host put there is in use.                                        *)
(***************************************************************************)
EXTENDS Integers, FiniteSets

CONSTANTS Nodes, MaxFd, Closed

VARIABLES
  map,     \* number -> what C reaches through it, or Closed
  saved    \* standard stream -> what the host put aside for its own, or Closed

mapVars == <<map, saved>>

Numbers == 0 .. MaxFd
Reserved == 0 .. 2
Entry == [node : Nodes, cloexec : BOOLEAN]

hosted == {i \in Reserved : saved[i] # Closed}

\* The numbers whose file a step changes.
Touched == {n \in Numbers : map'[n] # map[n]}

\* open, openat, dup and fcntl(F_DUPFD) make one descriptor, pipe two at once.
Create(touched) ==
  /\ touched \cap Reserved = {} /\ Cardinality(touched) \in {1, 2}
  /\ \A n \in touched : map[n] = Closed /\ map'[n] \in Entry

Close(n) == n \notin Reserved /\ map'[n] = Closed

\* dup2 and dup3: n now reaches what another number reaches.
Redirect(n) ==
  /\ n \notin hosted /\ map'[n] \in Entry
  /\ \E m \in Numbers : map[m] # Closed /\ map[m].node = map'[n].node

\* The process loses the descriptor of a standard stream.
HostCloses(n) == n \in Reserved \ hosted /\ map'[n] = Closed

\* The host assigns os.Std*, or puts the old stream back, as it was.
HostSwaps(i) ==
  /\ IF saved[i] = Closed
     THEN saved' = [saved EXCEPT ![i] = map[i]] /\ map'[i] \in Entry
     ELSE saved' = [saved EXCEPT ![i] = Closed] /\ map'[i] = saved[i]
  /\ \A n \in Numbers \ {i} : map'[n] = map[n]

Next ==
  \/ \E i \in Reserved : HostSwaps(i)
  \/ /\ UNCHANGED saved
     /\ \E touched \in {Touched} :
          \/ Create(touched)
          \/ \E n \in touched :
               touched = {n} /\ (Close(n) \/ Redirect(n) \/ HostCloses(n))

Init ==
  /\ DOMAIN map = Numbers
  /\ \A n \in Numbers : IF n \in Reserved THEN map[n] \in Entry ELSE map[n] = Closed
  /\ saved = [i \in Reserved |-> Closed]

Spec == Init /\ [][Next]_mapVars
============================================================================
