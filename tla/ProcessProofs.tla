--------------------------- MODULE ProcessProofs ---------------------------
(***************************************************************************)
(* Proofs about the processes of a program, as MCProcesses instantiates    *)
(* them: the end of the process (Exit) and the children it starts (Popen), *)
(* for any number of goroutines, registrations and jobs.                   *)
(***************************************************************************)
EXTENDS MCProcesses, SequenceTheorems, TLAPS

-----------------------------------------------------------------------------
(* Sequences that grow and shrink at their end.                            *)

Distinct(s) == \A i, k \in 1 .. Len(s) : s[i] = s[k] => i = k
ButLast(s) == SubSeq(s, 1, Len(s) - 1)

LEMMA Members ==
  ASSUME NEW S, NEW s \in Seq(S)
  PROVE  /\ Len(s) \in Nat
         /\ \A i \in 1 .. Len(s) : s[i] \in S
         /\ s # <<>> <=> Len(s) >= 1
         /\ X!Elements(s) \subseteq S
<1>1. Len(s) \in Nat
  BY LenProperties
<1>2. \A i \in 1 .. Len(s) : s[i] \in S
  BY ElementOfSeq
<1>3. s # <<>> <=> Len(s) >= 1
  BY <1>1, EmptySeq
<1> QED BY <1>1, <1>2, <1>3 DEF X!Elements

LEMMA NoMembers ==
  ASSUME NEW s, s = <<>>
  PROVE  Len(s) = 0 /\ X!Elements(s) = {} /\ Distinct(s)
<1>1. s \in Seq({}) /\ Len(s) = 0
  BY EmptySeq
<1>2. 1 .. Len(s) = {}
  BY <1>1
<1> QED BY <1>1, <1>2 DEF Distinct, X!Elements

LEMMA Pushed ==
  ASSUME NEW S, NEW s \in Seq(S), NEW e \in S
  PROVE  /\ Append(s, e) \in Seq(S) /\ Len(Append(s, e)) = Len(s) + 1
         /\ \A i \in 1 .. Len(s) : Append(s, e)[i] = s[i]
         /\ Append(s, e)[Len(s) + 1] = e
         /\ X!Elements(Append(s, e)) = X!Elements(s) \cup {e}
         /\ Distinct(s) /\ e \notin X!Elements(s) => Distinct(Append(s, e))
<1> DEFINE t == Append(s, e)
<1>0. Len(s) \in Nat
  BY LenProperties
<1>1. t \in Seq(S) /\ Len(t) = Len(s) + 1 /\ t[Len(s) + 1] = e
  BY AppendProperties
<1>2. \A i \in 1 .. Len(s) : t[i] = s[i]
  BY AppendProperties
<1> HIDE DEF t
<1>3. X!Elements(t) = X!Elements(s) \cup {e}
  <2>1. \A x \in X!Elements(t) : x \in X!Elements(s) \cup {e}
    BY <1>0, <1>1, <1>2 DEF X!Elements
  <2>2. \A x \in X!Elements(s) : x \in X!Elements(t)
    BY <1>0, <1>1, <1>2 DEF X!Elements
  <2>3. e \in X!Elements(t)
    BY <1>0, <1>1 DEF X!Elements
  <2> QED BY <2>1, <2>2, <2>3
<1>4. ASSUME Distinct(s), e \notin X!Elements(s) PROVE Distinct(t)
  <2> SUFFICES ASSUME NEW i \in 1 .. Len(t), NEW k \in 1 .. Len(t), t[i] = t[k] PROVE i = k
    BY DEF Distinct
  <2>1. CASE i \in 1 .. Len(s) /\ k \in 1 .. Len(s)
    BY <1>2, <1>4, <2>1 DEF Distinct
  <2>2. CASE i = Len(s) + 1 /\ k = Len(s) + 1
    BY <2>2
  <2>3. CASE i = Len(s) + 1 /\ k \in 1 .. Len(s)
    BY <1>1, <1>2, <1>4, <2>3 DEF X!Elements
  <2>4. CASE k = Len(s) + 1 /\ i \in 1 .. Len(s)
    BY <1>1, <1>2, <1>4, <2>4 DEF X!Elements
  <2> QED BY <1>0, <1>1, <2>1, <2>2, <2>3, <2>4
<1> QED BY <1>1, <1>2, <1>3, <1>4 DEF t

LEMMA PushedElements ==
  ASSUME NEW S, NEW s \in Seq(S), NEW e \in S, NEW t, t = Append(s, e)
  PROVE  X!Elements(t) = X!Elements(s) \cup {e}
BY Pushed

LEMMA Popped ==
  ASSUME NEW S, NEW s \in Seq(S), s # <<>>
  PROVE  /\ Len(s) \in Nat \ {0} /\ s[Len(s)] \in S /\ s[Len(s)] \in X!Elements(s)
         /\ ButLast(s) \in Seq(S) /\ Len(ButLast(s)) = Len(s) - 1
         /\ \A i \in 1 .. Len(s) - 1 : ButLast(s)[i] = s[i]
         /\ X!Elements(ButLast(s)) \subseteq X!Elements(s)
         /\ Distinct(s) => /\ Distinct(ButLast(s))
                           /\ X!Elements(ButLast(s)) = X!Elements(s) \ {s[Len(s)]}
<1> DEFINE t == ButLast(s)
<1>0. Len(s) \in Nat \ {0} /\ s[Len(s)] \in S /\ s[Len(s)] \in X!Elements(s)
  BY Members DEF X!Elements
<1>1. t \in Seq(S) /\ Len(t) = Len(s) - 1
  BY <1>0, SubSeqProperties DEF ButLast
<1>2. \A i \in 1 .. Len(s) - 1 : t[i] = s[i]
  BY <1>0, SubSeqProperties DEF ButLast
<1> HIDE DEF t
<1>3. X!Elements(t) \subseteq X!Elements(s)
  BY <1>0, <1>1, <1>2 DEF X!Elements
<1>4. ASSUME Distinct(s) PROVE Distinct(t)
  BY <1>0, <1>1, <1>2, <1>4 DEF Distinct
<1>5. ASSUME Distinct(s) PROVE X!Elements(t) = X!Elements(s) \ {s[Len(s)]}
  <2>1. \A x \in X!Elements(t) : x # s[Len(s)]
    BY <1>0, <1>1, <1>2, <1>5 DEF X!Elements, Distinct
  <2>2. \A x \in X!Elements(s) : x # s[Len(s)] => x \in X!Elements(t)
    BY <1>0, <1>1, <1>2 DEF X!Elements
  <2> QED BY <1>3, <2>1, <2>2
<1> QED BY <1>0, <1>1, <1>2, <1>3, <1>4, <1>5 DEF t

-----------------------------------------------------------------------------
(* The end of the process.                                                 *)

Frame == [call : X!Calls, at : X!Points]
Running == ended = ""
AllClean == \A f \in X!Files : dirty[f] # "owed"
\* What p's flush has left behind owes the device nothing.
Passed(p) == \A f \in X!Files : f < walk[p] => dirty[f] # "owed"

\* A registration is in one registry, in one slot, until it is called.
Registered ==
  /\ Distinct(atexitFuncs) /\ Distinct(quickFuncs)
  /\ X!Elements(atexitFuncs) \cap X!Elements(quickFuncs) = {}
  /\ X!Elements(atexitFuncs) \cup X!Elements(quickFuncs) \subseteq 1 .. regs
  /\ \A r \in 1 .. MaxRegs :
       ran[r] = IF r \in X!Elements(atexitFuncs) \cup X!Elements(quickFuncs) \/ r > regs
                THEN 0 ELSE 1

\* Only the innermost call is anywhere else than in a handler.
Nested ==
  \A p \in Procs : \A i \in 1 .. Len(stack[p]) - 1 : stack[p][i].at = "handler"

\* What exit owes was registered with atexit.
Owed == due \subseteq 1 .. regs /\ due \cap X!Elements(quickFuncs) = {}

\* With one goroutine that ends the process: how far its exit has got.
Draining(p) == X!Top(p).call = "exit" /\ stack[p] # <<>>
Alone ==
  /\ \A p \in Procs \ {Exiter} : stack[p] = <<>>
  /\ Draining(Exiter) =>
       /\ X!Top(Exiter).at \in {"hooks", "hooking", "flush", "end"} =>
            due \cap X!Elements(atexitFuncs) = {}
       /\ X!Top(Exiter).at \in {"hooking", "flush"} => Passed(Exiter)
       /\ X!Top(Exiter).at = "end" => AllClean
  /\ ended = "exit" => due \cap X!Elements(atexitFuncs) = {} /\ AllClean

ExitInv == X!TypeOK /\ Registered /\ Nested /\ Owed /\ (part = "exit" => Alone)

ExitNext ==
  /\ X!Next
  /\ part' = part
  /\ part = "exit" => \A p \in Procs \ {Exiter} : stack'[p] = <<>>

LEMMA NotYet == Running => ended # "exit" /\ ended \in X!Calls \cup {""}
BY DEF Running

\* X!TypeOK, for single goroutines and registrations.
LEMMA ExitTypes ==
  ASSUME X!TypeOK
  PROVE  /\ MaxRegs \in Nat /\ ATEXIT_MAX \in Nat /\ regs \in Nat /\ regs <= MaxRegs
         /\ DOMAIN stack = Procs /\ DOMAIN ran = 1 .. MaxRegs
         /\ DOMAIN dirty = X!Files /\ NFiles \in Nat /\ NMlib \in 0 .. NFiles
         /\ \A p \in Procs : stack[p] \in Seq(Frame)
         /\ \A r \in 1 .. MaxRegs : ran[r] \in Nat
         /\ atexitFuncs \in Seq(1 .. MaxRegs) /\ quickFuncs \in Seq(1 .. MaxRegs)
         /\ Exiter \in Procs
<1>1. /\ MaxRegs \in Nat /\ ATEXIT_MAX \in Nat /\ Exiter \in Procs
      /\ NFiles \in Nat /\ NMlib \in 0 .. NFiles
  BY ExitConstantsHold DEF X!ExitConstants
<1>2. regs \in 0 .. MaxRegs
  BY DEF X!TypeOK
<1>3. stack \in [Procs -> Seq(Frame)]
  BY DEF X!TypeOK, Frame
<1>4. DOMAIN stack = Procs /\ \A p \in Procs : stack[p] \in Seq(Frame)
  BY <1>3
<1>5. DOMAIN ran = 1 .. MaxRegs /\ DOMAIN dirty = X!Files
      /\ \A r \in 1 .. MaxRegs : ran[r] \in Nat
  BY DEF X!TypeOK
<1>6. atexitFuncs \in Seq(1 .. MaxRegs) /\ quickFuncs \in Seq(1 .. MaxRegs)
  BY DEF X!TypeOK
<1> QED BY <1>1, <1>2, <1>4, <1>5, <1>6

\* What it is to move on within a call.
LEMMA Moved ==
  ASSUME X!TypeOK, NEW p \in Procs, NEW here, NEW there \in X!Points,
         X!At(p, here), X!Goto(p, there)
  PROVE  /\ stack' \in [Procs -> Seq(Frame)]
         /\ \A q \in Procs : q # p => stack'[q] = stack[q]
         /\ stack'[p] # <<>> /\ Len(stack'[p]) = Len(stack[p])
         /\ \A i \in 1 .. Len(stack[p]) - 1 : stack'[p][i] = stack[p][i]
         /\ X!Top(p)' = [call |-> X!Top(p).call, at |-> there]
         /\ X!Top(p).at = here /\ X!Top(p) \in Frame
<1> DEFINE s == stack[p]  n == Len(s)  t == [s EXCEPT ![n].at = there]
<1>1. s \in Seq(Frame) /\ s # <<>> /\ n \in 1 .. n /\ n \in Nat
  BY ExitTypes, Members DEF X!At
<1>2. s[n] \in Frame /\ s[n].at = here
  BY <1>1, ElementOfSeq DEF X!At, X!Top
<1>3. stack' = [stack EXCEPT ![p] = t]
  BY DEF X!Goto
<1>4. t = [s EXCEPT ![n] = [s[n] EXCEPT !.at = there]]
  OBVIOUS
<1>5. [s[n] EXCEPT !.at = there] = [call |-> s[n].call, at |-> there]
  BY <1>2 DEF Frame
<1>6. [call |-> s[n].call, at |-> there] \in Frame
  BY <1>2 DEF Frame
<1>7. t \in Seq(Frame) /\ Len(t) = n /\ t[n] = [call |-> s[n].call, at |-> there]
      /\ \A i \in 1 .. n - 1 : t[i] = s[i]
  BY <1>1, <1>4, <1>5, <1>6, ExceptSeq
<1>8. t # <<>>
  BY <1>1, <1>7, Members
<1> HIDE DEF t
<1>9. stack'[p] = t /\ \A q \in Procs : q # p => stack'[q] = stack[q]
  BY <1>3, ExitTypes
<1>10. stack' \in [Procs -> Seq(Frame)]
  BY <1>3, <1>7, ExitTypes DEF X!TypeOK, Frame
<1> QED BY <1>1, <1>2, <1>7, <1>8, <1>9, <1>10 DEF X!Top

LEMMA MovedNested ==
  ASSUME X!TypeOK, Nested, NEW p \in Procs, NEW here, NEW there \in X!Points,
         X!At(p, here), X!Goto(p, there)
  PROVE  Nested'
<1> SUFFICES ASSUME NEW q \in Procs, NEW i \in 1 .. Len(stack'[q]) - 1
             PROVE  stack'[q][i].at = "handler"
  BY DEF Nested
<1>1. CASE q = p
  BY <1>1, Moved DEF Nested
<1>2. CASE q # p
  BY <1>2, Moved DEF Nested
<1> QED BY <1>1, <1>2

LEMMA RegisterInv ==
  ASSUME ExitInv, NEW p \in Procs, X!Register(p), part' = part
  PROVE  ExitInv'
<1>0. X!TypeOK
  BY DEF ExitInv
<1>1. regs' = regs + 1 /\ regs \in Nat /\ regs' \in 1 .. MaxRegs /\ MaxRegs \in Nat
  BY <1>0, ExitTypes DEF X!Register
<1>2. UNCHANGED <<abortHandler, stack, runMu, dirty, walk, ended, ran>> /\ Running
  BY DEF X!Register, X!UserCode, Running
<1>3. regs' \notin due /\ due \subseteq 1 .. MaxRegs
      /\ regs' \notin X!Elements(atexitFuncs) /\ regs' \notin X!Elements(quickFuncs)
  <2>1. /\ due \subseteq 1 .. regs
        /\ X!Elements(atexitFuncs) \subseteq 1 .. regs
        /\ X!Elements(quickFuncs) \subseteq 1 .. regs
    BY DEF ExitInv, Registered, Owed
  <2>2. regs' \notin 1 .. regs
    BY <1>1
  <2>3. due \subseteq 1 .. MaxRegs
    BY <1>0 DEF X!TypeOK
  <2> QED BY <2>1, <2>2, <2>3
<1>4. Nested'
  BY <1>2 DEF ExitInv, Nested
<1>5. CASE /\ Len(atexitFuncs) < ATEXIT_MAX /\ atexitFuncs' = Append(atexitFuncs, regs')
           /\ due' = IF X!Exiting(p) THEN due \cup {regs'} ELSE due
           /\ UNCHANGED quickFuncs
  <2>1. /\ atexitFuncs' \in Seq(1 .. MaxRegs) /\ Len(atexitFuncs') = Len(atexitFuncs) + 1
        /\ X!Elements(atexitFuncs') = X!Elements(atexitFuncs) \cup {regs'}
        /\ Distinct(atexitFuncs) => Distinct(atexitFuncs')
    <3>1. atexitFuncs \in Seq(1 .. MaxRegs) /\ regs' \in 1 .. MaxRegs
      BY <1>0, <1>1, ExitTypes
    <3>2. regs' \notin X!Elements(atexitFuncs)
      BY <1>3
    <3>3. atexitFuncs' = Append(atexitFuncs, regs')
      BY <1>5
    <3> DEFINE s == atexitFuncs
               e == regs'
    <3>4. s \in Seq(1 .. MaxRegs) /\ e \in 1 .. MaxRegs /\ e \notin X!Elements(s)
      BY <3>1, <3>2
    <3> HIDE DEF s, e
    <3>5. /\ Append(s, e) \in Seq(1 .. MaxRegs) /\ Len(Append(s, e)) = Len(s) + 1
          /\ X!Elements(Append(s, e)) = X!Elements(s) \cup {e}
          /\ Distinct(s) => Distinct(Append(s, e))
      <4>1. Append(s, e) \in Seq(1 .. MaxRegs) /\ Len(Append(s, e)) = Len(s) + 1
        BY <3>4, AppendProperties
      <4>2. X!Elements(Append(s, e)) = X!Elements(s) \cup {e}
        <5> DEFINE t == Append(s, e)
        <5>1. t = Append(s, e)
          OBVIOUS
        <5> HIDE DEF t
        <5>2. X!Elements(t) = X!Elements(s) \cup {e}
          BY <3>4, <5>1, PushedElements DEF X!Elements
        <5> QED BY <5>2 DEF t
      <4>3. Distinct(s) => Distinct(Append(s, e))
        BY <3>4, Pushed
      <4> QED BY <4>1, <4>2, <4>3
    <3> QED BY <3>3, <3>5 DEF s, e
  <2>2. Len(atexitFuncs') <= ATEXIT_MAX
    BY <1>0, <1>5, <2>1, ExitTypes, Members
  <2>3. due' \subseteq due \cup {regs'}
    BY <1>5
  <2>4. X!TypeOK'
    <3>1. due' \subseteq 1 .. MaxRegs /\ regs' \in 0 .. MaxRegs
      BY <1>1, <1>3, <2>3
    <3> QED BY <1>0, <1>2, <1>5, <2>1, <2>2, <3>1 DEF X!TypeOK
  <2>5. Registered'
    <3>1. X!Elements(atexitFuncs)' \cup X!Elements(quickFuncs)'
            = X!Elements(atexitFuncs) \cup X!Elements(quickFuncs) \cup {regs'}
      BY <1>5, <2>1
    <3>2. X!Elements(atexitFuncs)' \cup X!Elements(quickFuncs)' \subseteq 1 .. regs'
      BY <1>1, <3>1 DEF ExitInv, Registered
    <3>3. \A r \in 1 .. MaxRegs : r > regs' \/ r = regs' <=> r > regs
      BY <1>1
    <3>4. \A r \in 1 .. MaxRegs :
            ran'[r] = IF r \in X!Elements(atexitFuncs)' \cup X!Elements(quickFuncs)' \/ r > regs'
                      THEN 0 ELSE 1
      BY <1>2, <3>1, <3>3 DEF ExitInv, Registered
    <3> QED BY <1>3, <1>5, <2>1, <3>2, <3>4 DEF ExitInv, Registered
  <2>6. Owed'
    BY <1>1, <1>3, <1>5, <2>3 DEF ExitInv, Registered, Owed
  <2>7. ASSUME part = "exit" PROVE Alone'
    <3>1. Alone
      BY <2>7 DEF ExitInv
    <3>2. X!Exiting(p) => p = Exiter /\ X!At(p, "handler")
      <4>1. X!Exiting(p) => stack[p] # <<>>
        BY <1>0, ExitTypes, Members DEF X!Exiting
      <4> QED BY <3>1, <4>1 DEF Alone, X!Register, X!UserCode
    <3>3. CASE X!Exiting(p)
      BY <1>2, <3>1, <3>2, <3>3, NotYet DEF Alone, Draining, X!At, X!Top, AllClean, Passed
    <3>4. CASE ~X!Exiting(p)
      BY <1>2, <1>3, <1>5, <2>1, <3>1, <3>4 DEF Alone, Draining, X!Top, AllClean, Passed
    <3> QED BY <3>3, <3>4
  <2> QED BY <1>4, <2>4, <2>5, <2>6, <2>7 DEF ExitInv
<1>6. CASE /\ Len(quickFuncs) < ATEXIT_MAX /\ quickFuncs' = Append(quickFuncs, regs')
           /\ UNCHANGED <<atexitFuncs, due>>
  <2>1. /\ quickFuncs' \in Seq(1 .. MaxRegs) /\ Len(quickFuncs') = Len(quickFuncs) + 1
        /\ X!Elements(quickFuncs') = X!Elements(quickFuncs) \cup {regs'}
        /\ Distinct(quickFuncs) => Distinct(quickFuncs')
    <3>1. quickFuncs \in Seq(1 .. MaxRegs) /\ regs' \in 1 .. MaxRegs
      BY <1>0, <1>1, ExitTypes
    <3>2. regs' \notin X!Elements(quickFuncs)
      BY <1>3
    <3>3. quickFuncs' = Append(quickFuncs, regs')
      BY <1>6
    <3> DEFINE s == quickFuncs
               e == regs'
    <3>4. s \in Seq(1 .. MaxRegs) /\ e \in 1 .. MaxRegs /\ e \notin X!Elements(s)
      BY <3>1, <3>2
    <3> HIDE DEF s, e
    <3>5. /\ Append(s, e) \in Seq(1 .. MaxRegs) /\ Len(Append(s, e)) = Len(s) + 1
          /\ X!Elements(Append(s, e)) = X!Elements(s) \cup {e}
          /\ Distinct(s) => Distinct(Append(s, e))
      <4>1. Append(s, e) \in Seq(1 .. MaxRegs) /\ Len(Append(s, e)) = Len(s) + 1
        BY <3>4, AppendProperties
      <4>2. X!Elements(Append(s, e)) = X!Elements(s) \cup {e}
        <5> DEFINE t == Append(s, e)
        <5>1. t = Append(s, e)
          OBVIOUS
        <5> HIDE DEF t
        <5>2. X!Elements(t) = X!Elements(s) \cup {e}
          BY <3>4, <5>1, PushedElements DEF X!Elements
        <5> QED BY <5>2 DEF t
      <4>3. Distinct(s) => Distinct(Append(s, e))
        BY <3>4, Pushed
      <4> QED BY <4>1, <4>2, <4>3
    <3> QED BY <3>3, <3>5 DEF s, e
  <2>2. Len(quickFuncs') <= ATEXIT_MAX
    BY <1>0, <1>6, <2>1, ExitTypes, Members
  <2>4. X!TypeOK'
    <3>1. due' \subseteq 1 .. MaxRegs /\ regs' \in 0 .. MaxRegs
      BY <1>1, <1>3, <1>6
    <3> QED BY <1>0, <1>2, <1>6, <2>1, <2>2, <3>1 DEF X!TypeOK
  <2>5. Registered'
    <3>1. X!Elements(atexitFuncs)' \cup X!Elements(quickFuncs)'
            = X!Elements(atexitFuncs) \cup X!Elements(quickFuncs) \cup {regs'}
      BY <1>6, <2>1
    <3>2. X!Elements(atexitFuncs)' \cup X!Elements(quickFuncs)' \subseteq 1 .. regs'
      BY <1>1, <3>1 DEF ExitInv, Registered
    <3>3. \A r \in 1 .. MaxRegs : r > regs' \/ r = regs' <=> r > regs
      BY <1>1
    <3>4. \A r \in 1 .. MaxRegs :
            ran'[r] = IF r \in X!Elements(atexitFuncs)' \cup X!Elements(quickFuncs)' \/ r > regs'
                      THEN 0 ELSE 1
      BY <1>2, <3>1, <3>3 DEF ExitInv, Registered
    <3> QED BY <1>3, <1>6, <2>1, <3>2, <3>4 DEF ExitInv, Registered
  <2>6. Owed'
    BY <1>1, <1>3, <1>6, <2>1 DEF ExitInv, Registered, Owed
  <2>7. ASSUME part = "exit" PROVE Alone'
    BY <1>2, <1>6, <2>7 DEF ExitInv, Alone, Draining, X!Top, AllClean, Passed
  <2> QED BY <1>4, <2>4, <2>5, <2>6, <2>7 DEF ExitInv
<1> QED BY <1>5, <1>6 DEF X!Register

LEMMA WriteInv ==
  ASSUME ExitInv, NEW p \in Procs, NEW f \in X!Files, X!Write(p, f), part' = part
  PROVE  ExitInv'
<1>0. X!TypeOK
  BY DEF ExitInv
<1>1. UNCHANGED <<atexitFuncs, quickFuncs, abortHandler, stack, runMu, walk, ended, regs, ran, due>>
      /\ Running /\ dirty' = [dirty EXCEPT ![f] = "owed"]
  BY DEF X!Write, X!UserCode, Running
<1>2. X!TypeOK'
  BY <1>0, <1>1 DEF X!TypeOK, X!Buffered
<1>3. Registered' /\ Nested' /\ Owed'
  BY <1>1 DEF ExitInv, Registered, Nested, Owed
<1>4. ASSUME part = "exit" PROVE Alone'
  <2>1. Alone
    BY <1>4 DEF ExitInv
  <2>2. Draining(Exiter) => X!Top(Exiter).at = "handler"
    <3> SUFFICES ASSUME Draining(Exiter) PROVE X!Top(Exiter).at = "handler"
      OBVIOUS
    <3>1. X!Exiting(Exiter)
      BY <1>0, ExitTypes, Members DEF Draining, X!Exiting, X!Top
    <3>2. X!Exiting(p) /\ Exiter \in Procs
      BY <1>0, <3>1, ExitTypes DEF X!Write, X!SomeExit
    <3>3. stack[p] # <<>>
      BY <1>0, <3>2, ExitTypes, Members DEF X!Exiting
    <3>4. p = Exiter
      BY <2>1, <3>3 DEF Alone
    <3> QED BY <3>3, <3>4 DEF X!Write, X!UserCode, X!At
  <2> QED BY <1>1, <2>1, <2>2, NotYet DEF Alone, Draining, X!Top, AllClean, Passed
<1> QED BY <1>2, <1>3, <1>4 DEF ExitInv

LEMMA CallInv ==
  ASSUME ExitInv, NEW p \in Procs, NEW c \in X!Calls, X!Call(p, c), part' = part,
         part = "exit" => \A q \in Procs \ {Exiter} : stack'[q] = <<>>
  PROVE  ExitInv'
<1> DEFINE fr == [call |-> c, at |-> "pop"]
<1>0. X!TypeOK /\ stack[p] \in Seq(Frame) /\ fr \in Frame
  BY ExitTypes DEF ExitInv, Frame, X!Points
<1>1. UNCHANGED <<atexitFuncs, quickFuncs, abortHandler, runMu, dirty, walk, ended, regs, ran>>
      /\ Running
  BY DEF X!Call, X!UserCode, Running
<1>2. stack' = [stack EXCEPT ![p] = Append(stack[p], fr)]
  BY DEF X!Call
<1>3. /\ stack'[p] = Append(stack[p], fr) /\ \A q \in Procs : q # p => stack'[q] = stack[q]
      /\ stack' \in [Procs -> Seq(Frame)]
  <2>1. Append(stack[p], fr) \in Seq(Frame) /\ stack \in [Procs -> Seq(Frame)]
    BY <1>0, Pushed DEF X!TypeOK, Frame
  <2> QED BY <1>2, <2>1
<1>4. /\ Len(stack'[p]) = Len(stack[p]) + 1 /\ Len(stack[p]) \in Nat
      /\ \A i \in 1 .. Len(stack[p]) : stack'[p][i] = stack[p][i]
      /\ X!Top(p)' = fr
  BY <1>0, <1>3, Pushed, Members DEF X!Top
<1>5. due' \subseteq due \cup X!Elements(atexitFuncs)
  BY DEF X!Call
<1>6. X!TypeOK'
  <2>1. due' \subseteq 1 .. MaxRegs
    BY <1>0, <1>5, ExitTypes, Members DEF X!TypeOK
  <2> QED BY <1>0, <1>1, <1>3, <2>1 DEF X!TypeOK, Frame
<1>7. Registered'
  BY <1>1 DEF ExitInv, Registered
<1>8. Nested'
  <2>1. stack[p] = <<>> \/ stack[p][Len(stack[p])].at = "handler"
    BY DEF X!Call, X!UserCode, X!At, X!Top
  <2>2. \A i \in 1 .. Len(stack[p]) : stack'[p][i].at = "handler"
    BY <1>0, <1>4, <2>1, Members DEF ExitInv, Nested
  <2> SUFFICES ASSUME NEW q \in Procs, NEW i \in 1 .. Len(stack'[q]) - 1
               PROVE  stack'[q][i].at = "handler"
    BY DEF Nested
  <2>3. CASE q = p
    BY <1>4, <2>2, <2>3
  <2>4. CASE q # p
    BY <1>3, <2>4 DEF ExitInv, Nested
  <2> QED BY <2>3, <2>4
<1>9. Owed'
  BY <1>1, <1>5 DEF ExitInv, Registered, Owed
<1>10. ASSUME part = "exit" PROVE Alone'
  <2>1. p = Exiter
    BY <1>0, <1>3, <1>4, <1>10, Members, EmptySeq
  <2>2. X!Top(Exiter)'.at = "pop"
    BY <1>4, <2>1
  <2> QED BY <1>1, <1>10, <2>2, NotYet DEF ExitInv, Alone, Draining, AllClean
<1> QED BY <1>6, <1>7, <1>8, <1>9, <1>10 DEF ExitInv

\* A library step that leaves the registrations alone.
LEMMA MovedInv ==
  ASSUME ExitInv, NEW p \in Procs, NEW here, NEW there \in X!Points,
         X!At(p, here), X!Goto(p, there), part' = part, Running,
         UNCHANGED <<atexitFuncs, quickFuncs, regs, ran, due, ended>>,
         abortHandler' \in BOOLEAN, runMu' \subseteq Procs, dirty' \in [X!Files -> X!Buffered],
         walk' \in [Procs -> 1 .. NFiles + 1],
         X!Top(p).call = "exit" /\ part = "exit" =>
           /\ there \in {"hooks", "hooking", "flush", "end"} =>
                here \in {"hooks", "hooking", "flush"} \/ atexitFuncs = <<>>
           /\ there \in {"hooking", "flush"} => Passed(p)'
           /\ there = "end" => AllClean'
  PROVE  ExitInv'
<1>0. X!TypeOK
  BY DEF ExitInv
<1>1. X!TypeOK'
  BY <1>0, Moved DEF X!TypeOK, Frame
<1>2. Registered' /\ Owed'
  BY DEF ExitInv, Registered, Owed
<1>3. Nested'
  BY <1>0, MovedNested DEF ExitInv
<1>4. ASSUME part = "exit" PROVE Alone'
  <2>1. Alone /\ p = Exiter
    BY <1>4 DEF ExitInv, Alone, X!At
  <2>2. /\ \A q \in Procs : q # p => stack'[q] = stack[q]
        /\ X!Top(p)' = [call |-> X!Top(p).call, at |-> there]
        /\ X!Top(p).at = here /\ stack[p] # <<>>
    BY <1>0, Moved DEF X!At
  <2>3. X!Top(p)'.call = X!Top(p).call /\ X!Top(p)'.at = there
    <3> DEFINE new == X!Top(p)'
    <3>1. new = [call |-> X!Top(p).call, at |-> there]
      BY <2>2
    <3> HIDE DEF new
    <3>2. new.call = X!Top(p).call /\ new.at = there
      BY <3>1
    <3> QED BY <3>2 DEF new
  <2>4. ASSUME Draining(p)', there \in {"hooks", "hooking", "flush", "end"}
        PROVE  due \cap X!Elements(atexitFuncs) = {}
    <3>1. X!Top(p).call = "exit"
      BY <2>3, <2>4 DEF Draining
    <3>2. CASE here \in {"hooks", "hooking", "flush"}
      BY <2>1, <2>2, <3>1, <3>2 DEF Alone, Draining
    <3>3. CASE atexitFuncs = <<>>
      BY <3>3, NoMembers
    <3> QED BY <1>4, <2>4, <3>1, <3>2, <3>3
  <2>5. ASSUME Draining(p)' PROVE /\ there \in {"hooking", "flush"} => Passed(p)'
                                  /\ there = "end" => AllClean'
    <3>1. X!Top(p).call = "exit"
      BY <2>3, <2>5 DEF Draining
    <3> QED BY <1>4, <3>1
  <2>6. \A q \in Procs \ {Exiter} : stack'[q] = <<>>
    BY <2>1, <2>2 DEF Alone
  <2> QED BY <2>1, <2>3, <2>4, <2>5, <2>6, NotYet DEF Alone
<1> QED BY <1>1, <1>2, <1>3, <1>4 DEF ExitInv

\* The last registration of a registry is called.
\* One file is flushed: what the walk has left behind stays without debts.
LEMMA Flushed ==
  ASSUME X!TypeOK, NEW p \in Procs, X!FlushFile(p), walk[p] <= NFiles
  PROVE  /\ dirty' \in [X!Files -> X!Buffered] /\ walk' \in [Procs -> 1 .. NFiles + 1]
         /\ Passed(p) => Passed(p)'
<1> DEFINE f == walk[p]
<1>1. /\ dirty \in [X!Files -> X!Buffered] /\ walk \in [Procs -> 1 .. NFiles + 1]
      /\ NFiles \in Nat
  BY ExitTypes DEF X!TypeOK
<1>2. PICK written : dirty' = [g \in X!Files |->
                       IF g = f THEN "clean"
                       ELSE IF g \notin written THEN dirty[g]
                       ELSE IF g > f \/ dirty[g] = "owed" THEN "owed" ELSE "late"]
  BY DEF X!FlushFile
<1>3. walk' = [walk EXCEPT ![p] = f + 1] /\ f \in 1 .. NFiles
  BY <1>1 DEF X!FlushFile
<1>4. walk' \in [Procs -> 1 .. NFiles + 1] /\ walk'[p] = f + 1
  BY <1>1, <1>3
<1>5. dirty' \in [X!Files -> X!Buffered]
  BY <1>1, <1>2 DEF X!Buffered
<1>6. ASSUME Passed(p), NEW g \in X!Files, g < f + 1 PROVE dirty'[g] # "owed"
  <2>1. CASE g = f
    BY <1>2, <2>1
  <2>2. CASE g < f
    <3>1. dirty[g] # "owed" /\ ~(g > f) /\ g # f
      BY <1>3, <1>6, <2>2 DEF Passed, X!Files
    <3> QED BY <1>2, <3>1
  <2> QED BY <1>3, <1>6, <2>1, <2>2 DEF X!Files
<1> QED BY <1>4, <1>5, <1>6 DEF Passed, X!Files

\* A step of the walk within a call.
LEMMA FlushedInv ==
  ASSUME ExitInv, NEW p \in Procs, X!At(p, "hooking") \/ X!At(p, "flush"),
         X!FlushFile(p), walk[p] <= NFiles, part' = part, Running,
         UNCHANGED <<atexitFuncs, quickFuncs, abortHandler, stack, runMu, ended, regs, ran, due>>
  PROVE  ExitInv'
<1>0. X!TypeOK
  BY DEF ExitInv
<1>1. /\ dirty' \in [X!Files -> X!Buffered] /\ walk' \in [Procs -> 1 .. NFiles + 1]
      /\ Passed(p) => Passed(p)'
  BY <1>0, Flushed
<1>2. X!TypeOK'
  BY <1>0, <1>1 DEF X!TypeOK
<1>3. Registered' /\ Nested' /\ Owed'
  BY DEF ExitInv, Registered, Nested, Owed
<1>4. ASSUME part = "exit" PROVE Alone'
  <2>1. Alone /\ p = Exiter
    BY <1>4 DEF ExitInv, Alone, X!At
  <2>2. X!Top(p).at \in {"hooking", "flush"}
    BY DEF X!At
  <2> QED BY <1>1, <2>1, <2>2, NotYet DEF Alone, Draining, X!Top
<1> QED BY <1>2, <1>3, <1>4 DEF ExitInv

LEMMA CalledOnce ==
  ASSUME ExitInv, NEW funcs, funcs \in {atexitFuncs, quickFuncs}, funcs # <<>>
  PROVE  LET r == funcs[Len(funcs)] IN
           /\ Len(funcs) \in Nat \ {0} /\ r \in 1 .. regs /\ ran[r] = 0
           /\ ButLast(funcs) \in Seq(1 .. MaxRegs) /\ Len(ButLast(funcs)) <= ATEXIT_MAX
           /\ Distinct(ButLast(funcs))
           /\ X!Elements(ButLast(funcs)) = X!Elements(funcs) \ {r}
           /\ r \in X!Elements(funcs)
<1>0. X!TypeOK /\ funcs \in Seq(1 .. MaxRegs) /\ Len(funcs) <= ATEXIT_MAX /\ ATEXIT_MAX \in Nat
  BY ExitTypes DEF ExitInv, X!TypeOK
<1>1. Distinct(funcs)
  BY DEF ExitInv, Registered
<1> DEFINE r == funcs[Len(funcs)]
<1>2. /\ Len(funcs) \in Nat \ {0} /\ r \in 1 .. MaxRegs /\ r \in X!Elements(funcs)
      /\ ButLast(funcs) \in Seq(1 .. MaxRegs) /\ Len(ButLast(funcs)) = Len(funcs) - 1
      /\ Distinct(ButLast(funcs)) /\ X!Elements(ButLast(funcs)) = X!Elements(funcs) \ {r}
  BY <1>0, <1>1, Popped
<1>3. r \in 1 .. regs /\ ran[r] = 0
  BY <1>2 DEF ExitInv, Registered
<1>4. Len(ButLast(funcs)) <= ATEXIT_MAX
  BY <1>0, <1>2
<1> QED BY <1>2, <1>3, <1>4

\* The registrations after a call of the last one of a registry.
LEMMA CalledRegistered ==
  ASSUME ExitInv, NEW r \in 1 .. regs, ran[r] = 0, regs' = regs, due' = due,
         ran' = [ran EXCEPT ![r] = @ + 1],
         Distinct(atexitFuncs'), Distinct(quickFuncs'),
         \/ /\ X!Elements(atexitFuncs') = X!Elements(atexitFuncs) \ {r}
            /\ r \in X!Elements(atexitFuncs) /\ quickFuncs' = quickFuncs
         \/ /\ X!Elements(quickFuncs') = X!Elements(quickFuncs) \ {r}
            /\ r \in X!Elements(quickFuncs) /\ atexitFuncs' = atexitFuncs
  PROVE  /\ Registered' /\ Owed' /\ ran' \in [1 .. MaxRegs -> Nat]
         /\ X!Elements(atexitFuncs') \subseteq X!Elements(atexitFuncs)
<1>0. X!TypeOK /\ regs \in Nat /\ MaxRegs \in Nat /\ regs <= MaxRegs
  BY ExitTypes DEF ExitInv
<1>1. r \in 1 .. MaxRegs /\ r \in Nat /\ ~(r > regs)
  BY <1>0
<1>2. X!Elements(atexitFuncs') \cup X!Elements(quickFuncs')
        = (X!Elements(atexitFuncs) \cup X!Elements(quickFuncs)) \ {r}
  BY DEF ExitInv, Registered
<1>3. ran'[r] = 1 /\ \A k \in 1 .. MaxRegs : k # r => ran'[k] = ran[k]
  BY <1>0, <1>1, ExitTypes
<1>4. ran' \in [1 .. MaxRegs -> Nat]
  <2>1. ran \in [1 .. MaxRegs -> Nat]
    BY <1>0 DEF X!TypeOK
  <2> QED BY <1>1, <2>1
<1>5. \A k \in 1 .. MaxRegs :
        ran'[k] = IF k \in X!Elements(atexitFuncs') \cup X!Elements(quickFuncs') \/ k > regs
                  THEN 0 ELSE 1
  BY <1>1, <1>2, <1>3 DEF ExitInv, Registered
<1>6. Registered'
  BY <1>5 DEF ExitInv, Registered
<1>7. Owed'
  BY DEF ExitInv, Owed
<1> QED BY <1>4, <1>6, <1>7

LEMMA PopAtexitInv ==
  ASSUME ExitInv, NEW p \in Procs, X!PopAtexit(p), Running, part' = part
  PROVE  ExitInv'
<1>0. X!TypeOK /\ atexitFuncs \in Seq(1 .. MaxRegs)
  BY ExitTypes DEF ExitInv
<1>1. UNCHANGED <<quickFuncs, abortHandler, runMu, dirty, walk, ended, regs, due>>
      /\ X!At(p, "pop")
  BY DEF X!PopAtexit
<1>2. Len(atexitFuncs) \in Nat /\ (Len(atexitFuncs) > 0 <=> atexitFuncs # <<>>)
  <2>1. Len(atexitFuncs) \in Nat /\ (atexitFuncs # <<>> <=> Len(atexitFuncs) >= 1)
    BY <1>0, Members
  <2>2. Len(atexitFuncs) > 0 <=> Len(atexitFuncs) >= 1
    BY <2>1
  <2> QED BY <2>1, <2>2
<1>3. CASE Len(atexitFuncs) > 0
  <2> DEFINE r == atexitFuncs[Len(atexitFuncs)]
  <2>1. /\ ran' = [ran EXCEPT ![r] = @ + 1] /\ atexitFuncs' = ButLast(atexitFuncs)
        /\ X!Goto(p, "handler")
    <3>1. Len(atexitFuncs) # 0
      BY <1>3
    <3> QED BY <3>1 DEF X!PopAtexit, ButLast
  <2>2. /\ r \in 1 .. regs /\ ran[r] = 0 /\ r \in X!Elements(atexitFuncs)
        /\ atexitFuncs' \in Seq(1 .. MaxRegs) /\ Len(atexitFuncs') <= ATEXIT_MAX
        /\ Distinct(atexitFuncs') /\ X!Elements(atexitFuncs') = X!Elements(atexitFuncs) \ {r}
    BY <1>2, <1>3, <2>1, CalledOnce
  <2> HIDE DEF r
  <2>3. Distinct(quickFuncs')
    BY <1>1 DEF ExitInv, Registered
  <2>4. /\ Registered' /\ Owed' /\ ran' \in [1 .. MaxRegs -> Nat]
        /\ X!Elements(atexitFuncs') \subseteq X!Elements(atexitFuncs)
    BY <1>1, <2>1, <2>2, <2>3, CalledRegistered
  <2>5. /\ stack' \in [Procs -> Seq(Frame)] /\ X!Top(p)' = [call |-> X!Top(p).call, at |-> "handler"]
        /\ stack[p] # <<>>
    BY <1>0, <1>1, <2>1, Moved DEF X!Points, X!At
  <2>6. X!TypeOK'
    BY <1>0, <1>1, <2>2, <2>4, <2>5 DEF X!TypeOK, Frame
  <2>7. Nested'
    BY <1>0, <1>1, <2>1, MovedNested DEF ExitInv, X!Points
  <2>8. ASSUME part = "exit" PROVE Alone'
    <3>1. Alone /\ p = Exiter
      BY <2>5, <2>8 DEF ExitInv, Alone
    <3>2. X!Top(Exiter)'.at = "handler"
      <4> DEFINE new == X!Top(p)'
      <4>1. new = [call |-> X!Top(p).call, at |-> "handler"]
        BY <2>5
      <4> HIDE DEF new
      <4>2. new.at = "handler"
        BY <4>1
      <4> QED BY <3>1, <4>2 DEF new
    <3>3. \A q \in Procs \ {Exiter} : stack'[q] = <<>>
      BY <1>0, <1>1, <2>1, <3>1, Moved DEF Alone, X!Points
    <3> QED BY <1>1, <3>2, <3>3, NotYet DEF Alone
  <2> QED BY <1>1, <2>4, <2>6, <2>7, <2>8 DEF ExitInv
<1>4. CASE Len(atexitFuncs) = 0
  <2>1. X!Goto(p, "hooks") /\ UNCHANGED <<atexitFuncs, ran>> /\ atexitFuncs = <<>>
    <3>1. ~(Len(atexitFuncs) > 0) /\ atexitFuncs = <<>>
      BY <1>2, <1>4
    <3> QED BY <3>1 DEF X!PopAtexit
  <2> QED BY <1>0, <1>1, <2>1, MovedInv DEF X!TypeOK, X!Points
<1> QED BY <1>2, <1>3, <1>4

LEMMA PopQuickInv ==
  ASSUME ExitInv, NEW p \in Procs, X!PopQuick(p), Running, part' = part
  PROVE  ExitInv'
<1>0. X!TypeOK /\ quickFuncs \in Seq(1 .. MaxRegs)
  BY ExitTypes DEF ExitInv
<1>1. UNCHANGED <<atexitFuncs, abortHandler, runMu, dirty, walk, ended, regs, due>>
      /\ X!At(p, "pop") /\ X!Top(p).call = "quick_exit"
  BY DEF X!PopQuick
<1>2. Len(quickFuncs) \in Nat /\ (Len(quickFuncs) > 0 <=> quickFuncs # <<>>)
  <2>1. Len(quickFuncs) \in Nat /\ (quickFuncs # <<>> <=> Len(quickFuncs) >= 1)
    BY <1>0, Members
  <2>2. Len(quickFuncs) > 0 <=> Len(quickFuncs) >= 1
    BY <2>1
  <2> QED BY <2>1, <2>2
<1>3. CASE Len(quickFuncs) > 0
  <2> DEFINE r == quickFuncs[Len(quickFuncs)]
  <2>1. /\ ran' = [ran EXCEPT ![r] = @ + 1] /\ quickFuncs' = ButLast(quickFuncs)
        /\ X!Goto(p, "handler")
    <3>1. Len(quickFuncs) # 0
      BY <1>3
    <3> QED BY <3>1 DEF X!PopQuick, ButLast
  <2>2. /\ r \in 1 .. regs /\ ran[r] = 0 /\ r \in X!Elements(quickFuncs)
        /\ quickFuncs' \in Seq(1 .. MaxRegs) /\ Len(quickFuncs') <= ATEXIT_MAX
        /\ Distinct(quickFuncs') /\ X!Elements(quickFuncs') = X!Elements(quickFuncs) \ {r}
    BY <1>2, <1>3, <2>1, CalledOnce
  <2> HIDE DEF r
  <2>3. Distinct(atexitFuncs')
    BY <1>1 DEF ExitInv, Registered
  <2>4. Registered' /\ Owed' /\ ran' \in [1 .. MaxRegs -> Nat]
    BY <1>1, <2>1, <2>2, <2>3, CalledRegistered
  <2>5. /\ stack' \in [Procs -> Seq(Frame)] /\ X!Top(p)' = [call |-> X!Top(p).call, at |-> "handler"]
        /\ stack[p] # <<>>
    BY <1>0, <1>1, <2>1, Moved DEF X!Points, X!At
  <2>6. X!TypeOK'
    BY <1>0, <1>1, <2>2, <2>4, <2>5 DEF X!TypeOK, Frame
  <2>7. Nested'
    BY <1>0, <1>1, <2>1, MovedNested DEF ExitInv, X!Points
  <2>8. ASSUME part = "exit" PROVE Alone'
    <3>1. Alone /\ p = Exiter
      BY <2>5, <2>8 DEF ExitInv, Alone
    <3>2. X!Top(Exiter)'.at = "handler"
      <4> DEFINE new == X!Top(p)'
      <4>1. new = [call |-> X!Top(p).call, at |-> "handler"]
        BY <2>5
      <4> HIDE DEF new
      <4>2. new.at = "handler"
        BY <4>1
      <4> QED BY <3>1, <4>2 DEF new
    <3>3. \A q \in Procs \ {Exiter} : stack'[q] = <<>>
      BY <1>0, <1>1, <2>1, <3>1, Moved DEF Alone, X!Points
    <3> QED BY <1>1, <3>2, <3>3, NotYet DEF Alone
  <2> QED BY <1>1, <2>4, <2>6, <2>7, <2>8 DEF ExitInv
<1>4. CASE Len(quickFuncs) = 0
  <2>1. X!Goto(p, "end") /\ UNCHANGED <<quickFuncs, ran>>
    <3>1. ~(Len(quickFuncs) > 0)
      BY <1>4
    <3> QED BY <3>1 DEF X!PopQuick
  <2> QED BY <1>0, <1>1, <2>1, MovedInv DEF X!TypeOK, X!Points
<1> QED BY <1>2, <1>3, <1>4

LEMMA PlainInv ==
  ASSUME ExitInv, NEW p \in Procs, part' = part, Running,
         \/ X!DispatchAbort(p) \/ X!HandlerReturns(p) \/ X!EnterHooks(p) \/ X!RunHooks(p)
  PROVE  ExitInv'
<1>0. /\ X!TypeOK /\ dirty \in [X!Files -> X!Buffered] /\ runMu \subseteq Procs
      /\ abortHandler \in BOOLEAN /\ walk \in [Procs -> 1 .. NFiles + 1]
  BY DEF ExitInv, X!TypeOK
<1>1. CASE X!DispatchAbort(p)
  <2>1. X!At(p, "pop") /\ X!Top(p).call = "abort" /\ abortHandler' = FALSE
    BY <1>1 DEF X!DispatchAbort
  <2>2. UNCHANGED <<atexitFuncs, quickFuncs, runMu, dirty, walk, ended, regs, ran, due>>
    BY <1>1 DEF X!DispatchAbort
  <2>3. X!Goto(p, "handler") \/ X!Goto(p, "end")
    BY <1>1 DEF X!DispatchAbort
  <2> QED BY <1>0, <2>1, <2>2, <2>3, MovedInv DEF X!Points
<1>2. CASE X!HandlerReturns(p)
  <2>1. UNCHANGED <<atexitFuncs, quickFuncs, abortHandler, runMu, dirty, walk, ended, regs, ran, due>>
        /\ X!At(p, "handler")
    BY <1>2 DEF X!HandlerReturns
  <2>2. X!Goto(p, "pop") \/ (X!Goto(p, "end") /\ X!Top(p).call = "abort")
    BY <1>2 DEF X!HandlerReturns
  <2> QED BY <1>0, <2>1, <2>2, MovedInv DEF X!Points
<1>3. CASE X!EnterHooks(p)
  <2>1. UNCHANGED <<atexitFuncs, quickFuncs, abortHandler, ended, regs, ran, due>>
        /\ X!At(p, "hooks") /\ X!Goto(p, "hooking") /\ runMu' = {p}
    BY <1>3 DEF X!EnterHooks
  <2>2. walk' = [walk EXCEPT ![p] = 1] /\ NFiles \in Nat
        /\ dirty' = [f \in X!Files |-> IF dirty[f] = "late" THEN "owed" ELSE dirty[f]]
    BY <1>0, <1>3, ExitTypes DEF X!EnterHooks
  <2>3. walk' \in [Procs -> 1 .. NFiles + 1] /\ walk'[p] = 1
    BY <1>0, <2>2
  <2>4. dirty' \in [X!Files -> X!Buffered]
    BY <1>0, <2>2 DEF X!Buffered
  <2>5. Passed(p)'
    BY <2>2, <2>3 DEF Passed, X!Files
  <2> QED BY <1>0, <2>1, <2>3, <2>4, <2>5, MovedInv DEF X!Points
<1>4. CASE X!RunHooks(p)
  <2>1. UNCHANGED <<atexitFuncs, quickFuncs, abortHandler, ended, regs, ran, due>>
        /\ X!At(p, "hooking")
    BY <1>4 DEF X!RunHooks
  <2>2. CASE walk[p] <= NMlib /\ X!FlushFile(p) /\ UNCHANGED <<stack, runMu>>
    <3>1. walk[p] <= NFiles
      BY <1>0, <2>2, ExitTypes
    <3> QED BY <2>1, <2>2, <3>1, FlushedInv
  <2>3. CASE runMu' = {} /\ X!Goto(p, "flush") /\ UNCHANGED <<dirty, walk>>
    <3>1. ASSUME X!Top(p).call = "exit", part = "exit" PROVE Passed(p)
      BY <2>1, <3>1 DEF ExitInv, Alone, Draining, X!At
    <3> QED BY <1>0, <2>1, <2>3, <3>1, MovedInv DEF X!Points, Passed, X!Files
  <2> QED BY <1>4, <2>2, <2>3 DEF X!RunHooks
<1> QED BY <1>1, <1>2, <1>3, <1>4

LEMMA FlushRootInv ==
  ASSUME ExitInv, NEW p \in Procs, X!FlushRoot(p), Running, part' = part
  PROVE  ExitInv'
<1>0. /\ X!TypeOK /\ dirty \in [X!Files -> X!Buffered] /\ runMu \subseteq Procs
      /\ abortHandler \in BOOLEAN /\ walk \in [Procs -> 1 .. NFiles + 1] /\ NFiles \in Nat
      /\ stack \in [Procs -> Seq(Frame)]
  BY ExitTypes DEF ExitInv, X!TypeOK, Frame
<1>1. UNCHANGED <<atexitFuncs, quickFuncs, abortHandler, runMu, ended, regs, ran, due>>
      /\ X!At(p, "flush") /\ stack[p] # <<>> /\ X!Top(p).at = "flush"
  BY DEF X!FlushRoot, X!At
<1>2. CASE walk[p] <= NFiles /\ X!FlushFile(p) /\ UNCHANGED stack
  BY <1>1, <1>2, FlushedInv
<1>3. part = "exit" => Alone /\ p = Exiter
  BY <1>1 DEF ExitInv, Alone
<1>4. CASE walk[p] > NFiles /\ X!Goto(p, "end") /\ UNCHANGED <<dirty, walk>>
           /\ X!Top(p).call = "exit"
  <2>1. X!Goto(p, "end")
    BY <1>4
  <2>2. part = "exit" => AllClean'
    <3>1. \A f \in X!Files : f < walk[p]
      BY <1>0, <1>4 DEF X!Files
    <3> QED BY <1>1, <1>3, <1>4, <3>1 DEF Alone, Draining, AllClean, Passed, X!Files
  <2> QED BY <1>0, <1>1, <1>4, <2>1, <2>2, MovedInv DEF X!Points
<1>5. CASE /\ stack' = [stack EXCEPT ![p] = SubSeq(@, 1, Len(@) - 1)]
           /\ UNCHANGED <<dirty, walk>>
  <2>1. stack' = [stack EXCEPT ![p] = ButLast(stack[p])]
    BY <1>5 DEF ButLast
  <2>2. /\ ButLast(stack[p]) \in Seq(Frame) /\ Len(ButLast(stack[p])) = Len(stack[p]) - 1
        /\ \A i \in 1 .. Len(stack[p]) - 1 : ButLast(stack[p])[i] = stack[p][i]
        /\ Len(stack[p]) \in Nat \ {0}
    BY <1>0, <1>1, Popped
  <2>3. /\ stack'[p] = ButLast(stack[p]) /\ \A q \in Procs : q # p => stack'[q] = stack[q]
        /\ stack' \in [Procs -> Seq(Frame)]
    BY <1>0, <2>1, <2>2
  <2>4. X!TypeOK'
    BY <1>0, <1>1, <1>5, <2>3 DEF X!TypeOK, Frame
  <2>5. Registered' /\ Owed'
    BY <1>1 DEF ExitInv, Registered, Owed
  <2>6. Nested'
    <3> SUFFICES ASSUME NEW q \in Procs, NEW i \in 1 .. Len(stack'[q]) - 1
                 PROVE  stack'[q][i].at = "handler"
      BY DEF Nested
    <3>1. CASE q = p
      <4>1. i \in 1 .. Len(stack[p]) - 1
        BY <2>2, <2>3, <3>1
      <4>2. stack'[q][i] = stack[p][i]
        BY <2>2, <2>3, <3>1, <4>1
      <4> QED BY <4>1, <4>2 DEF ExitInv, Nested
    <3>2. CASE q # p
      BY <2>3, <3>2 DEF ExitInv, Nested
    <3> QED BY <3>1, <3>2
  <2>7. ASSUME part = "exit" PROVE Alone'
    <3>1. stack'[p] # <<>> => X!Top(p)'.at = "handler"
      <4> SUFFICES ASSUME stack'[p] # <<>> PROVE stack'[p][Len(stack'[p])].at = "handler"
        BY DEF X!Top
      <4>1. Len(stack'[p]) >= 1
        BY <2>2, <2>3, Members
      <4>2. Len(stack'[p]) \in 1 .. Len(stack[p]) - 1
        BY <2>2, <2>3, <4>1
      <4>3. stack'[p][Len(stack'[p])] = stack[p][Len(stack'[p])]
        BY <2>2, <2>3, <4>2
      <4> QED BY <4>2, <4>3 DEF ExitInv, Nested
    <3> QED BY <1>1, <1>3, <2>3, <2>7, <3>1, NotYet DEF Alone, Draining
  <2> QED BY <2>4, <2>5, <2>6, <2>7, <1>1 DEF ExitInv
<1> QED BY <1>2, <1>4, <1>5 DEF X!FlushRoot

LEMMA EndInv ==
  ASSUME ExitInv, NEW p \in Procs, X!End(p), Running, part' = part
  PROVE  ExitInv'
<1>0. X!TypeOK
  BY DEF ExitInv
<1>1. UNCHANGED <<atexitFuncs, quickFuncs, abortHandler, stack, runMu, dirty, walk, regs, ran, due>>
      /\ stack[p] # <<>> /\ X!Top(p).at = "end" /\ ended' = X!Top(p).call
  BY DEF X!End, X!At
<1>2. X!Top(p) \in Frame
  BY <1>0, <1>1, ExitTypes, Popped DEF X!Top
<1>3. X!TypeOK'
  BY <1>0, <1>1, <1>2 DEF X!TypeOK, Frame
<1>4. Registered' /\ Nested' /\ Owed'
  BY <1>1 DEF ExitInv, Registered, Nested, Owed
<1>5. ASSUME part = "exit" PROVE Alone'
  <2>1. Alone /\ p = Exiter
    BY <1>1, <1>5 DEF ExitInv, Alone
  <2>2. ended' = "exit" => due \cap X!Elements(atexitFuncs) = {} /\ AllClean
    BY <1>1, <2>1 DEF Alone, Draining
  <2> QED BY <1>1, <2>1, <2>2 DEF Alone, Draining, AllClean, X!Files, X!Top
<1> QED BY <1>3, <1>4, <1>5 DEF ExitInv

LEMMA ExitStep == ExitInv /\ [MCNext]_allVars => ExitInv'
<1> SUFFICES ASSUME ExitInv, [MCNext]_allVars PROVE ExitInv'
  OBVIOUS
<1>1. CASE UNCHANGED <<part, exitVars>>
  BY <1>1 DEF exitVars, ExitInv, X!TypeOK, Registered, Nested, Owed, Alone, Draining, AllClean, Passed, X!Files, X!Top
<1>2. ASSUME X!Next, part' = part,
             part = "exit" => \A q \in Procs \ {Exiter} : stack'[q] = <<>>
      PROVE  ExitInv'
  <2>1. PICK p \in Procs : X!User(p) \/ X!Library(p) \/ (X!UserCode(p) /\ X!HandlerReturns(p))
    BY <1>2 DEF X!Next
  <2>2. CASE X!User(p)
    BY <1>2, <2>2, RegisterInv, WriteInv, CallInv DEF X!User
  <2>3. CASE X!Library(p)
    BY <1>2, <2>3, PopAtexitInv, PopQuickInv, PlainInv, FlushRootInv, EndInv DEF X!Library, Running
  <2>4. CASE X!UserCode(p) /\ X!HandlerReturns(p)
    BY <1>2, <2>4, PlainInv DEF X!UserCode, Running
  <2> QED BY <2>1, <2>2, <2>3, <2>4
<1> QED BY <1>1, <1>2 DEF MCNext, allVars

LEMMA ExitStart == MCInit => ExitInv
<1> SUFFICES ASSUME MCInit PROVE ExitInv
  OBVIOUS
<1>0. /\ atexitFuncs = <<>> /\ quickFuncs = <<>> /\ abortHandler \in BOOLEAN
      /\ stack = [p \in Procs |-> <<>>] /\ runMu = {} /\ dirty = [f \in X!Files |-> "clean"]
      /\ walk = [p \in Procs |-> 1]
      /\ Running /\ regs = 0 /\ ran = [r \in 1 .. MaxRegs |-> 0] /\ due = {}
  BY DEF MCInit, X!Init, Running
<1>1. MaxRegs \in Nat /\ ATEXIT_MAX \in Nat /\ Exiter \in Procs /\ NFiles \in Nat
  BY ExitConstantsHold DEF X!ExitConstants
<1>2. /\ X!Elements(atexitFuncs) = {} /\ Distinct(atexitFuncs) /\ Len(atexitFuncs) = 0
      /\ X!Elements(quickFuncs) = {} /\ Distinct(quickFuncs) /\ Len(quickFuncs) = 0
      /\ \A p \in Procs : Len(stack[p]) = 0
  BY <1>0, NoMembers
<1>3. /\ atexitFuncs \in Seq(1 .. MaxRegs) /\ quickFuncs \in Seq(1 .. MaxRegs)
      /\ stack \in [Procs -> Seq(Frame)]
  BY <1>0, EmptySeq
<1>4. X!TypeOK
  <2>1. /\ Len(atexitFuncs) <= ATEXIT_MAX /\ Len(quickFuncs) <= ATEXIT_MAX
        /\ regs \in 0 .. MaxRegs
    BY <1>0, <1>1, <1>2
  <2>2. /\ ran \in [1 .. MaxRegs -> Nat] /\ dirty \in [X!Files -> X!Buffered]
        /\ walk \in [Procs -> 1 .. NFiles + 1]
    BY <1>0, <1>1 DEF X!Buffered
  <2> QED BY <1>0, <1>3, <2>1, <2>2, NotYet DEF X!TypeOK, Frame
<1>5. Registered /\ Owed
  <2>1. \A r \in 1 .. MaxRegs : r > regs /\ ran[r] = 0
    BY <1>0
  <2> QED BY <1>0, <1>2, <2>1 DEF Registered, Owed
<1>6. Nested
  <2>1. \A p \in Procs : 1 .. Len(stack[p]) - 1 = {}
    BY <1>2
  <2> QED BY <2>1 DEF Nested
<1>7. Alone
  BY <1>0, <1>1, NotYet DEF Alone, Draining
<1> QED BY <1>4, <1>5, <1>6, <1>7 DEF ExitInv

LEMMA ExitInvSafe == ExitInv => ExitSafe
<1> SUFFICES ASSUME ExitInv PROVE ExitSafe
  OBVIOUS
<1>0. X!TypeOK /\ regs \in Nat /\ MaxRegs \in Nat /\ regs <= MaxRegs
  BY ExitTypes DEF ExitInv
<1>1. X!EachRegistrationOnce
  BY <1>0 DEF ExitInv, Registered, X!EachRegistrationOnce
<1>2. ASSUME part = "exit" PROVE X!ExitRunsWhatIsDue /\ X!ExitLosesNoByte
  <2>1. Alone
    BY <1>2 DEF ExitInv
  <2>2. X!ExitLosesNoByte
    BY <2>1 DEF Alone, AllClean, X!ExitLosesNoByte
  <2>3. ASSUME ended = "exit", NEW r \in due PROVE ran[r] = 1
    <3>1. r \in 1 .. MaxRegs /\ ~(r > regs) /\ r \notin X!Elements(quickFuncs)
      BY <1>0 DEF ExitInv, Owed
    <3>2. r \notin X!Elements(atexitFuncs)
      BY <2>1, <2>3 DEF Alone
    <3> QED BY <3>1, <3>2 DEF ExitInv, Registered
  <2> QED BY <2>2, <2>3 DEF X!ExitRunsWhatIsDue
<1> QED BY <1>0, <1>1, <1>2 DEF ExitSafe

\* Whatever handlers do, and however many goroutines end the process, each
\* registration is called once; and an exit that no other races calls all that
\* are due, those registered on the way too, and whatever files are open and
\* whatever their cookies write on the way, it leaves no byte in a buffer but
\* those a cookie wrote to a file already flushed (csrc/exit.c,
\* internal/finalize/hooks.go, csrc/stdio.c:1571-1588).
THEOREM ExitCorrect == MCSpec => []ExitSafe
BY ExitStart, ExitStep, ExitInvSafe, PTL DEF MCSpec

-----------------------------------------------------------------------------
(* Children of the program.                                                *)

Making == {"piped", "started", "handed", "rooted"}
Points == {"idle", "lookup", "wait"} \cup Making
Streams(p) == X!Elements(mine[p])
Busy(j) == \E p \in Procs : Job(p) = j \/ j \in Streams(p)

JobTypes ==
  /\ kind \in [Jobs -> {"unused", "pipe", "system"}]
  /\ child \in [Jobs -> {"none", "alive", "zombie", "reaped"}]
  /\ goEnd \subseteq Jobs /\ cEnd \subseteq Jobs /\ popenTab \subseteq Jobs
  /\ inherits \in [Jobs -> SUBSET Jobs]

\* A goroutine in popen has room for one more stream.
CallTypes ==
  /\ mine \in [Procs -> Seq(Jobs)]
  /\ calls \in [Procs -> [at : Points, job : Jobs \cup {NoJob}]]
  /\ \A p \in Procs : /\ Distinct(mine[p]) /\ Len(mine[p]) <= MaxOpen
                      /\ At(p, "idle") <=> Job(p) = NoJob
                      /\ calls[p].at \in Making => Len(mine[p]) < MaxOpen

\* A job is in one call, or is one stream, of one goroutine, or neither.
OnePlace ==
  \A p, q \in Procs :
    /\ Job(p) = Job(q) => p = q \/ Job(p) = NoJob
    /\ Job(p) \notin Streams(q)
    /\ \A j \in Streams(p) : j \in Streams(q) => p = q

\* What of a job is there at a point of a call, while its stream is open, and
\* at any other time.
CallHas(j, point) ==
  /\ kind[j] # "unused"
  /\ j \in goEnd <=> point \in {"piped", "started"}
  /\ j \in cEnd <=> point \in {"handed", "rooted"}
  /\ j \in popenTab <=> point \in {"rooted", "lookup"}
  /\ child[j] \in IF point = "piped" THEN {"none", "reaped"} ELSE {"alive", "zombie"}
StreamHas(j) ==
  /\ kind[j] # "unused"
  /\ j \notin goEnd /\ j \in cEnd /\ j \in popenTab
  /\ child[j] \in {"alive", "zombie"}
NothingHeld(j) ==
  /\ j \notin goEnd /\ j \notin cEnd /\ j \notin popenTab
  /\ child[j] \in {"none", "reaped"}

PopenInv ==
  /\ JobTypes /\ CallTypes /\ OnePlace
  /\ \A p \in Procs : /\ ~At(p, "idle") => CallHas(Job(p), calls[p].at)
                      /\ \A j \in Streams(p) : StreamHas(j)
  /\ \A j \in Jobs : ~Busy(j) => NothingHeld(j)

\* What CallTypes says of single goroutines.
CallShape ==
  /\ NoJob \notin Jobs /\ MaxOpen \in Nat
  /\ \A p \in Procs : /\ mine[p] \in Seq(Jobs) /\ Streams(p) \subseteq Jobs
                      /\ calls[p] \in [at : Points, job : Jobs \cup {NoJob}]
                      /\ Job(p) \in Jobs \cup {NoJob}
                      /\ ~At(p, "idle") => Job(p) \in Jobs
                      /\ Distinct(mine[p]) /\ Len(mine[p]) \in Nat

LEMMA CallFacts == CallTypes => CallShape
<1> SUFFICES ASSUME CallTypes PROVE CallShape
  OBVIOUS
<1>1. \A p \in Procs : mine[p] \in Seq(Jobs) /\ calls[p] \in [at : Points, job : Jobs \cup {NoJob}]
  BY DEF CallTypes
<1>2. \A p \in Procs : Streams(p) \subseteq Jobs /\ Len(mine[p]) \in Nat
  BY <1>1, Members DEF Streams
<1>3. \A p \in Procs : Job(p) \in Jobs \cup {NoJob} /\ (~At(p, "idle") => Job(p) \in Jobs)
  BY <1>1 DEF CallTypes, Job
<1>4. NoJob \notin Jobs /\ MaxOpen \in Nat /\ \A p \in Procs : Distinct(mine[p])
  BY PopenAssumption DEF CallTypes
<1> QED BY <1>1, <1>2, <1>3, <1>4 DEF CallShape

LEMMA CallFactsNext == CallTypes' => CallShape'
BY CallFacts, PTL

\* A job that a goroutine has, or nobody, no other goroutine has.
LEMMA Elsewhere ==
  ASSUME PopenInv, NEW p \in Procs, NEW j \in Jobs,
         Job(p) = j \/ j \in Streams(p) \/ kind[j] = "unused"
  PROVE  /\ \A q \in Procs \ {p} : Job(q) # j /\ j \notin Streams(q)
         /\ Job(p) = j => j \notin Streams(p)
         /\ kind[j] = "unused" => ~Busy(j)
<1>1. \A q \in Procs : /\ Job(q) = j => ~At(q, "idle") /\ kind[j] # "unused"
                       /\ j \in Streams(q) => kind[j] # "unused"
  <2>1. \A q \in Procs : Job(q) = j => ~At(q, "idle")
    BY PopenAssumption DEF PopenInv, CallTypes
  <2> QED BY <2>1 DEF PopenInv, CallHas, StreamHas
<1>2. NoJob # j
  BY PopenAssumption
<1> QED BY <1>1, <1>2 DEF PopenInv, OnePlace, Busy

\* A step of goroutine p that touches job j only.
LEMMA OneJob ==
  ASSUME PopenInv, NEW p \in Procs, NEW j \in Jobs, NEW there \in Points,
         JobTypes', CallTypes', calls'[p].at = there,
         Job(p) = j \/ j \in Streams(p) \/ kind[j] = "unused",
         Job(p) \in {j, NoJob}, Job(p)' \in {j, NoJob},
         \A q \in Procs \ {p} : calls'[q] = calls[q] /\ mine'[q] = mine[q],
         Streams(p)' \ {j} = Streams(p) \ {j},
         \A k \in Jobs \ {j} : /\ kind'[k] = kind[k] /\ child'[k] = child[k]
                               /\ k \in goEnd' <=> k \in goEnd
                               /\ k \in cEnd' <=> k \in cEnd
                               /\ k \in popenTab' <=> k \in popenTab,
         Job(p)' = j => j \notin Streams(p)' /\ CallHas(j, there)',
         j \in Streams(p)' => StreamHas(j)',
         Job(p)' # j /\ j \notin Streams(p)' => NothingHeld(j)'
  PROVE  PopenInv'
<1>1. /\ \A q \in Procs \ {p} : Job(q) # j /\ j \notin Streams(q)
      /\ NoJob # j
  BY Elsewhere, PopenAssumption
<1>2. \A q \in Procs \ {p} : /\ Job(q)' = Job(q) /\ Streams(q)' = Streams(q)
                             /\ At(q, "idle")' <=> At(q, "idle")
  BY DEF Job, Streams, At, X!Elements
<1>3. /\ \A q \in Procs : \A k \in Streams(q) \cup Streams(q)' : k \in Jobs
      /\ \A q \in Procs : Job(q)' \in Jobs \cup {NoJob} /\ Job(q) \in Jobs \cup {NoJob}
      /\ \A q \in Procs : /\ ~At(q, "idle") => Job(q) \in Jobs
                          /\ (~At(q, "idle"))' => Job(q)' \in Jobs
  <2>1. CallShape /\ CallShape'
    BY CallFacts, CallFactsNext DEF PopenInv
  <2> QED BY <2>1 DEF CallShape
<1>4. OnePlace'
  <2> SUFFICES ASSUME NEW q \in Procs, NEW r \in Procs
               PROVE  /\ Job(q)' = Job(r)' => q = r \/ Job(q)' = NoJob
                      /\ Job(q)' \notin Streams(r)'
                      /\ \A k \in Streams(q)' : k \in Streams(r)' => q = r
    BY DEF OnePlace
  <2>1. CASE q # p /\ r # p
    BY <1>2, <2>1 DEF PopenInv, OnePlace
  <2>2. CASE q = p /\ r # p
    <3>1. Job(p)' # Job(r)' \/ Job(p)' = NoJob
      BY <1>1, <1>2, <2>2
    <3>2. Job(p)' \notin Streams(r)'
      BY <1>1, <1>2, <1>3, <2>2, PopenAssumption
    <3>3. \A k \in Streams(p)' : k \notin Streams(r)'
      BY <1>1, <1>2, <2>2 DEF PopenInv, OnePlace
    <3> QED BY <2>2, <3>1, <3>2, <3>3
  <2>3. CASE q # p /\ r = p
    <3>1. Job(q)' # Job(p)' \/ Job(q)' = NoJob
      BY <1>1, <1>2, <2>3
    <3>2. Job(q)' \notin Streams(p)'
      BY <1>1, <1>2, <2>3 DEF PopenInv, OnePlace
    <3>3. \A k \in Streams(q)' : k \notin Streams(p)'
      BY <1>1, <1>2, <2>3 DEF PopenInv, OnePlace
    <3> QED BY <2>3, <3>1, <3>2, <3>3
  <2>4. CASE q = p /\ r = p
    <3>1. Job(p)' \notin Streams(p)'
      BY <1>3, PopenAssumption
    <3> QED BY <2>4, <3>1
  <2> QED BY <2>1, <2>2, <2>3, <2>4
<1>5. \A k \in Jobs \ {j} : /\ StreamHas(k) => StreamHas(k)'
                            /\ NothingHeld(k) => NothingHeld(k)'
                            /\ \A point \in Points : CallHas(k, point) => CallHas(k, point)'
  BY DEF StreamHas, NothingHeld, CallHas
<1>6. ASSUME NEW q \in Procs, (~At(q, "idle"))' PROVE CallHas(Job(q), calls[q].at)'
  <2>1. CASE q = p
    <3>1. Job(p)' = j
      BY <1>3, <1>6, <2>1, PopenAssumption
    <3>2. CallHas(j, there)'
      BY <3>1
    <3> QED BY <2>1, <3>1, <3>2 DEF CallHas
  <2>2. CASE q # p
    <3> DEFINE k == Job(q)  point == calls[q].at
    <3>1. k \in Jobs \ {j} /\ point \in Points /\ CallHas(k, point)
      BY <1>1, <1>2, <1>3, <1>6, <2>2 DEF PopenInv, CallTypes
    <3>2. PICK jj \in Jobs \ {j}, pt \in Points : jj = k /\ pt = point
      BY <3>1
    <3>3. CallHas(jj, pt)'
      BY <1>5, <3>1, <3>2
    <3>4. Job(q)' = jj /\ calls'[q].at = pt
      BY <1>2, <2>2, <3>2
    <3> QED BY <3>3, <3>4 DEF CallHas
  <2> QED BY <2>1, <2>2
<1>7. ASSUME NEW q \in Procs, NEW k \in Streams(q)' PROVE StreamHas(k)'
  <2>1. CASE k = j
    <3>1. q = p
      BY <1>1, <1>2, <1>7, <2>1
    <3>2. j \in Streams(p)'
      BY <1>7, <2>1, <3>1
    <3>3. StreamHas(j)'
      BY <3>2
    <3> QED BY <2>1, <3>3 DEF StreamHas
  <2>2. CASE k # j
    <3>1. k \in Streams(q) /\ k \in Jobs \ {j}
      BY <1>2, <1>3, <1>7, <2>2
    <3> QED BY <1>5, <3>1 DEF PopenInv
  <2> QED BY <2>1, <2>2
<1>8. ASSUME NEW k \in Jobs, ~Busy(k)' PROVE NothingHeld(k)'
  <2>1. \A q \in Procs : Job(q)' # k /\ k \notin Streams(q)'
    BY <1>8 DEF Busy
  <2>2. CASE k = j
    <3>1. NothingHeld(j)'
      BY <2>1, <2>2
    <3> QED BY <2>2, <3>1 DEF NothingHeld
  <2>3. CASE k # j
    <3>1. \A q \in Procs : Job(q) # k /\ k \notin Streams(q)
      BY <1>2, <2>1, <2>3, PopenAssumption
    <3>2. NothingHeld(k)
      BY <3>1 DEF PopenInv, Busy
    <3> QED BY <1>5, <2>3, <3>2
  <2> QED BY <2>2, <2>3
<1> QED BY <1>4, <1>6, <1>7, <1>8 DEF PopenInv

\* A call of goroutine p that moves on, or returns, without a new stream.
LEMMA CallMoves ==
  ASSUME PopenInv, NEW p \in Procs, NEW there \in Points \ {"idle"}, ~At(p, "idle"),
         Goto(p, there), mine' = mine, there \in Making => calls[p].at \in Making
  PROVE  /\ CallTypes' /\ calls'[p].at = there /\ Job(p)' = Job(p) /\ Streams(p)' = Streams(p)
         /\ \A q \in Procs \ {p} : calls'[q] = calls[q] /\ mine'[q] = mine[q]
         /\ Job(p) \in Jobs /\ Job(p) # NoJob /\ Job(p) \notin Streams(p)
         /\ CallHas(Job(p), calls[p].at)
<1>1. CallTypes /\ CallShape
  BY CallFacts DEF PopenInv
<1>2. /\ calls'[p] = [at |-> there, job |-> calls[p].job]
      /\ \A q \in Procs \ {p} : calls'[q] = calls[q]
      /\ calls' \in [Procs -> [at : Points, job : Jobs \cup {NoJob}]]
  BY <1>1 DEF CallTypes, Goto
<1>3. calls'[p].at = there /\ Job(p)' = Job(p)
  BY <1>2 DEF Job
<1>4. Job(p) \in Jobs /\ Job(p) # NoJob
  BY <1>1 DEF CallShape
<1>5. CallTypes'
  BY <1>1, <1>2, <1>3, <1>4 DEF CallTypes, At, Job
<1>6. Streams(p)' = Streams(p) /\ Job(p) \notin Streams(p) /\ CallHas(Job(p), calls[p].at)
  BY DEF Streams, PopenInv, OnePlace
<1> QED BY <1>2, <1>3, <1>4, <1>5, <1>6

LEMMA CallReturns ==
  ASSUME PopenInv, NEW p \in Procs, ~At(p, "idle"), Done(p), mine' = mine
  PROVE  /\ CallTypes' /\ calls'[p].at = "idle" /\ Job(p)' = NoJob /\ Streams(p)' = Streams(p)
         /\ \A q \in Procs \ {p} : calls'[q] = calls[q] /\ mine'[q] = mine[q]
         /\ Job(p) \in Jobs /\ Job(p) # NoJob /\ Job(p) \notin Streams(p)
         /\ CallHas(Job(p), calls[p].at)
<1>1. CallTypes /\ CallShape
  BY CallFacts DEF PopenInv
<1>2. /\ calls'[p] = [at |-> "idle", job |-> NoJob]
      /\ \A q \in Procs \ {p} : calls'[q] = calls[q]
      /\ calls' \in [Procs -> [at : Points, job : Jobs \cup {NoJob}]]
  BY <1>1 DEF CallTypes, Done, Idle, Points
<1>3. calls'[p].at = "idle" /\ Job(p)' = NoJob
  BY <1>2 DEF Job
<1>4. Job(p) \in Jobs /\ Job(p) # NoJob
  BY <1>1 DEF CallShape
<1>5. CallTypes'
  BY <1>1, <1>2, <1>3 DEF CallTypes, At, Job, Making
<1>6. Streams(p)' = Streams(p) /\ Job(p) \notin Streams(p) /\ CallHas(Job(p), calls[p].at)
  BY DEF Streams, PopenInv, OnePlace
<1> QED BY <1>2, <1>3, <1>4, <1>5, <1>6

\* A step of a call, on its own job, after which the call has what it should.
LEMMA CallStep ==
  ASSUME PopenInv, NEW p \in Procs, NEW there \in Points, NEW j \in Jobs,
         j = Job(p), ~At(p, "idle"), mine' = mine,
         \/ there # "idle" /\ Goto(p, there) /\ CallHas(j, there)'
         \/ there = "idle" /\ Done(p) /\ NothingHeld(j)',
         there \in Making => calls[p].at \in Making, JobTypes',
         \A k \in Jobs \ {j} : /\ kind'[k] = kind[k] /\ child'[k] = child[k]
                               /\ k \in goEnd' <=> k \in goEnd
                               /\ k \in cEnd' <=> k \in cEnd
                               /\ k \in popenTab' <=> k \in popenTab
  PROVE  PopenInv'
<1>1. CASE there # "idle"
  <2>1. /\ CallTypes' /\ calls'[p].at = there /\ Job(p)' = j /\ Streams(p)' = Streams(p)
        /\ \A q \in Procs \ {p} : calls'[q] = calls[q] /\ mine'[q] = mine[q]
        /\ j # NoJob /\ j \notin Streams(p)
    BY <1>1, CallMoves
  <2>2. CallHas(j, there)'
    BY <1>1
  <2> QED BY <2>1, <2>2, OneJob
<1>2. CASE there = "idle"
  <2>1. /\ CallTypes' /\ calls'[p].at = there /\ Job(p)' = NoJob /\ Streams(p)' = Streams(p)
        /\ \A q \in Procs \ {p} : calls'[q] = calls[q] /\ mine'[q] = mine[q]
        /\ j # NoJob /\ j \notin Streams(p)
    BY <1>2, CallReturns
  <2>2. NothingHeld(j)'
    BY <1>2
  <2> QED BY <2>1, <2>2, OneJob
<1> QED BY <1>1, <1>2

LEMMA PopenStarts == MCInit => PopenInv
<1> SUFFICES ASSUME Init PROVE PopenInv
  BY DEF MCInit
<1>1. \A p \in Procs : /\ mine[p] = <<>> /\ Job(p) = NoJob /\ At(p, "idle")
                       /\ Streams(p) = {} /\ Distinct(mine[p]) /\ Len(mine[p]) = 0
  BY NoMembers DEF Init, Idle, Job, At, Streams
<1>2. JobTypes
  BY DEF Init, JobTypes
<1>3. CallTypes
  <2>1. mine \in [Procs -> Seq(Jobs)] /\ calls \in [Procs -> [at : Points, job : Jobs \cup {NoJob}]]
    BY EmptySeq DEF Init, Idle, Points
  <2>2. \A p \in Procs : calls[p].at \notin Making /\ Len(mine[p]) <= MaxOpen
    BY <1>1, PopenAssumption DEF Init, Idle, Making
  <2> QED BY <1>1, <2>1, <2>2 DEF CallTypes
<1>4. OnePlace
  BY <1>1 DEF OnePlace
<1>5. \A j \in Jobs : NothingHeld(j)
  BY DEF Init, NothingHeld
<1> QED BY <1>1, <1>2, <1>3, <1>4, <1>5 DEF PopenInv

\* The steps of a call that is under way, one by one.
LEMMA PopenStepKeeps ==
  ASSUME PopenInv, NEW p \in Procs, PopenStep(p)
  PROVE  PopenInv'
<1>1. ~At(p, "idle")
  BY DEF PopenStep, Start, StartFails, CPipeFd, CPipeFdFails, Root, Fdopen, FdopenFails,
         Lookup, Wait, At
<1>2. PICK j \in Jobs : j = Job(p)
  BY <1>1, CallFacts DEF PopenInv, CallShape
<1>3. CallHas(j, calls[p].at) /\ JobTypes
  BY <1>1, <1>2 DEF PopenInv
<1>4. CASE Start(p)
  <2>1. At(p, "piped") /\ StartChild(j) /\ UNCHANGED <<kind, goEnd, cEnd, popenTab, mine>>
    BY <1>2, <1>4 DEF Start
  <2>2. JobTypes'
    BY <1>3, <2>1 DEF JobTypes, StartChild
  <2>3. CallHas(j, "started")'
    BY <1>3, <2>1 DEF CallHas, JobTypes, StartChild, At
  <2> QED BY <1>1, <1>2, <1>3, <1>4, <2>1, <2>2, <2>3, CallStep
          DEF Start, StartChild, JobTypes, Points, Making, At
<1>5. CASE StartFails(p)
  <2>1. /\ At(p, "piped") /\ goEnd' = goEnd \ {j}
        /\ UNCHANGED <<kind, child, cEnd, inherits, popenTab, mine>>
    BY <1>2, <1>5 DEF StartFails
  <2>2. JobTypes'
    BY <1>3, <2>1 DEF JobTypes
  <2>3. NothingHeld(j)'
    BY <1>3, <2>1 DEF CallHas, NothingHeld, At
  <2> QED BY <1>1, <1>2, <1>5, <2>1, <2>2, <2>3, CallStep DEF StartFails, Points, Making
<1>6. CASE CPipeFd(p)
  <2>1. /\ At(p, "started") /\ cEnd' = cEnd \cup {j} /\ goEnd' = goEnd \ {j}
        /\ UNCHANGED <<kind, child, inherits, popenTab, mine>>
    BY <1>2, <1>6 DEF CPipeFd
  <2>2. JobTypes'
    BY <1>3, <2>1 DEF JobTypes
  <2>3. CallHas(j, "handed")'
    BY <1>3, <2>1 DEF CallHas, At
  <2> QED BY <1>1, <1>2, <1>6, <2>1, <2>2, <2>3, CallStep DEF CPipeFd, Points, Making, At
<1>7. CASE CPipeFdFails(p)
  <2>1. /\ At(p, "started") /\ child' = [child EXCEPT ![j] = "zombie"] /\ goEnd' = goEnd \ {j}
        /\ UNCHANGED <<kind, cEnd, inherits, popenTab, mine>>
    BY <1>2, <1>7 DEF CPipeFdFails
  <2>2. JobTypes'
    BY <1>3, <2>1 DEF JobTypes
  <2>3. CallHas(j, "wait")'
    BY <1>3, <2>1 DEF CallHas, At, JobTypes
  <2> QED BY <1>1, <1>2, <1>3, <1>7, <2>1, <2>2, <2>3, CallStep
          DEF CPipeFdFails, JobTypes, Points, Making
<1>8. CASE Root(p)
  <2>1. /\ At(p, "handed") /\ popenTab' = popenTab \cup {j}
        /\ UNCHANGED <<kind, child, goEnd, cEnd, inherits, mine>>
    BY <1>2, <1>8 DEF Root
  <2>2. JobTypes'
    BY <1>3, <2>1 DEF JobTypes
  <2>3. CallHas(j, "rooted")'
    BY <1>3, <2>1 DEF CallHas, At
  <2> QED BY <1>1, <1>2, <1>8, <2>1, <2>2, <2>3, CallStep DEF Root, Points, Making, At
<1>9. CASE FdopenFails(p)
  <2>1. /\ At(p, "rooted") /\ cEnd' = cEnd \ {j}
        /\ UNCHANGED <<kind, child, goEnd, inherits, popenTab, mine>>
    BY <1>2, <1>9 DEF FdopenFails
  <2>2. JobTypes'
    BY <1>3, <2>1 DEF JobTypes
  <2>3. CallHas(j, "lookup")'
    BY <1>3, <2>1 DEF CallHas, At
  <2> QED BY <1>1, <1>2, <1>9, <2>1, <2>2, <2>3, CallStep DEF FdopenFails, Points, Making
<1>10. CASE Lookup(p)
  <2>1. /\ At(p, "lookup") /\ popenTab' = popenTab \ {j}
        /\ UNCHANGED <<kind, child, goEnd, cEnd, inherits, mine>>
    BY <1>2, <1>10 DEF Lookup
  <2>2. JobTypes'
    BY <1>3, <2>1 DEF JobTypes
  <2>3. CallHas(j, "wait")'
    BY <1>3, <2>1 DEF CallHas, At
  <2> QED BY <1>1, <1>2, <1>10, <2>1, <2>2, <2>3, CallStep DEF Lookup, Points, Making
<1>11. CASE Wait(p)
  <2>1. /\ At(p, "wait") /\ child' = [child EXCEPT ![j] = "reaped"]
        /\ UNCHANGED <<kind, goEnd, cEnd, inherits, popenTab, mine>>
    BY <1>2, <1>11 DEF Wait
  <2>2. JobTypes'
    BY <1>3, <2>1 DEF JobTypes
  <2>3. NothingHeld(j)'
    BY <1>3, <2>1 DEF CallHas, NothingHeld, At, JobTypes
  <2> QED BY <1>1, <1>2, <1>3, <1>11, <2>1, <2>2, <2>3, CallStep
          DEF Wait, JobTypes, Points, Making
<1>12. CASE Fdopen(p)
  <2>1. /\ At(p, "rooted") /\ mine' = [mine EXCEPT ![p] = Append(mine[p], j)] /\ Done(p)
        /\ UNCHANGED <<kind, child, goEnd, cEnd, inherits, popenTab>>
    BY <1>2, <1>12 DEF Fdopen
  <2>2. CallTypes /\ CallShape
    BY CallFacts DEF PopenInv
  <2>3. /\ j \notin Streams(p) /\ Distinct(mine[p]) /\ mine[p] \in Seq(Jobs)
        /\ Len(mine[p]) < MaxOpen /\ Len(mine[p]) \in Nat /\ MaxOpen \in Nat
    BY <1>2, <2>1, <2>2 DEF PopenInv, OnePlace, CallTypes, CallShape, At, Making
  <2>4. /\ Append(mine[p], j) \in Seq(Jobs) /\ Len(Append(mine[p], j)) = Len(mine[p]) + 1
        /\ X!Elements(Append(mine[p], j)) = Streams(p) \cup {j} /\ Distinct(Append(mine[p], j))
    BY <2>3, Pushed DEF Streams
  <2>5. /\ mine'[p] = Append(mine[p], j) /\ calls'[p] = [at |-> "idle", job |-> NoJob]
        /\ \A q \in Procs \ {p} : mine'[q] = mine[q] /\ calls'[q] = calls[q]
        /\ mine' \in [Procs -> Seq(Jobs)]
        /\ calls' \in [Procs -> [at : Points, job : Jobs \cup {NoJob}]]
    BY <2>1, <2>2, <2>4 DEF CallTypes, Done, Idle, Points
  <2>6. Streams(p)' = Streams(p) \cup {j} /\ Job(p)' = NoJob /\ calls'[p].at = "idle"
    BY <2>4, <2>5 DEF Streams, Job
  <2>7. CallTypes'
    <3>1. Len(mine'[p]) <= MaxOpen /\ Distinct(mine'[p])
      BY <2>3, <2>4, <2>5
    <3>2. At(p, "idle")' /\ calls'[p].at \notin Making
      BY <2>6 DEF At, Making
    <3> QED BY <2>2, <2>5, <2>6, <3>1, <3>2 DEF CallTypes, At, Job
  <2>8. JobTypes' /\ StreamHas(j)'
    BY <1>3, <2>1 DEF JobTypes, CallHas, StreamHas, At
  <2>9. j # NoJob
    BY PopenAssumption
  <2> QED BY <1>2, <2>1, <2>5, <2>6, <2>7, <2>8, <2>9, OneJob DEF Points
<1> QED BY <1>4, <1>5, <1>6, <1>7, <1>8, <1>9, <1>10, <1>11, <1>12 DEF PopenStep

\* A call that takes an unused job, with what the job has then.
LEMMA CallBegins ==
  ASSUME PopenInv, NEW p \in Procs, NEW j \in Jobs, NEW there \in Points \ {"idle"},
         At(p, "idle"), kind[j] = "unused", mine' = mine,
         there \in Making => Len(mine[p]) < MaxOpen,
         calls' = [calls EXCEPT ![p] = [at |-> there, job |-> j]],
         JobTypes', CallHas(j, there)',
         \A k \in Jobs \ {j} : /\ kind'[k] = kind[k] /\ child'[k] = child[k]
                               /\ k \in goEnd' <=> k \in goEnd
                               /\ k \in cEnd' <=> k \in cEnd
                               /\ k \in popenTab' <=> k \in popenTab
  PROVE  PopenInv'
<1>1. CallTypes /\ CallShape /\ Job(p) = NoJob
  BY CallFacts DEF PopenInv, CallTypes
<1>2. j \notin Streams(p) /\ j # NoJob
  BY PopenAssumption DEF PopenInv, StreamHas
<1>3. /\ calls'[p] = [at |-> there, job |-> j]
      /\ \A q \in Procs \ {p} : calls'[q] = calls[q] /\ mine'[q] = mine[q]
      /\ calls' \in [Procs -> [at : Points, job : Jobs \cup {NoJob}]]
  BY <1>1 DEF CallTypes
<1>4. calls'[p].at = there /\ Job(p)' = j /\ Streams(p)' = Streams(p)
  BY <1>3 DEF Job, Streams
<1>5. CallTypes'
  BY <1>1, <1>2, <1>3, <1>4 DEF CallTypes, At, Job
<1> QED BY <1>1, <1>2, <1>3, <1>4, <1>5, OneJob

LEMMA MakePipeKeeps ==
  ASSUME PopenInv, NEW p \in Procs, NEW j \in Jobs, MakePipe(p, j)
  PROVE  PopenInv'
<1>1. ~Busy(j) /\ JobTypes
  BY Elsewhere DEF PopenInv, MakePipe
<1>2. NothingHeld(j)
  BY <1>1 DEF PopenInv
<1>3. JobTypes' /\ CallHas(j, "piped")'
  BY <1>1, <1>2 DEF MakePipe, JobTypes, CallHas, NothingHeld
<1> QED BY <1>1, <1>3, CallBegins DEF MakePipe, JobTypes, Points, Making

LEMMA SystemKeeps ==
  ASSUME PopenInv, NEW p \in Procs, NEW j \in Jobs, System(p, j)
  PROVE  PopenInv'
<1>1. ~Busy(j) /\ JobTypes
  BY Elsewhere DEF PopenInv, System
<1>2. NothingHeld(j)
  BY <1>1 DEF PopenInv
<1>3. JobTypes' /\ CallHas(j, "wait")'
  BY <1>1, <1>2 DEF System, StartChild, JobTypes, CallHas, NothingHeld
<1> QED BY <1>1, <1>3, CallBegins DEF System, StartChild, JobTypes, Points, Making

LEMMA PcloseKeeps ==
  ASSUME PopenInv, NEW p \in Procs, Pclose(p)
  PROVE  PopenInv'
<1> DEFINE s == mine[p]  last == s[Len(s)]
<1>1. CallTypes /\ CallShape /\ JobTypes
  BY CallFacts DEF PopenInv
<1>2. s \in Seq(Jobs) /\ s # <<>> /\ Distinct(s) /\ At(p, "idle") /\ Job(p) = NoJob
  BY <1>1 DEF CallShape, CallTypes, Pclose
<1>3. /\ last \in Jobs /\ last \in X!Elements(s) /\ Len(s) \in Nat \ {0}
      /\ ButLast(s) \in Seq(Jobs) /\ Len(ButLast(s)) = Len(s) - 1
      /\ Distinct(ButLast(s)) /\ X!Elements(ButLast(s)) = X!Elements(s) \ {last}
  BY <1>2, Popped
<1>4. PICK j \in Jobs : j = last
  BY <1>3
<1>5. /\ cEnd' = cEnd \ {j} /\ calls' = [calls EXCEPT ![p] = [at |-> "lookup", job |-> j]]
      /\ mine' = [mine EXCEPT ![p] = ButLast(s)]
      /\ UNCHANGED <<kind, child, goEnd, inherits, popenTab>>
  BY <1>4 DEF Pclose, ButLast
<1>6. /\ mine'[p] = ButLast(s) /\ calls'[p] = [at |-> "lookup", job |-> j]
      /\ \A q \in Procs \ {p} : mine'[q] = mine[q] /\ calls'[q] = calls[q]
      /\ mine' \in [Procs -> Seq(Jobs)]
      /\ calls' \in [Procs -> [at : Points, job : Jobs \cup {NoJob}]]
  BY <1>1, <1>3, <1>5 DEF CallTypes, Points
<1>7. /\ Streams(p)' = Streams(p) \ {j} /\ Job(p)' = j /\ calls'[p].at = "lookup"
      /\ j \in Streams(p)
  BY <1>3, <1>4, <1>6 DEF Streams, Job
<1> HIDE DEF last
<1>8. CallTypes'
  <2>1. Len(mine'[p]) <= MaxOpen /\ Distinct(mine'[p])
    <3>1. Len(s) <= MaxOpen /\ MaxOpen \in Nat
      BY <1>1 DEF CallTypes, CallShape
    <3> QED BY <1>3, <1>6, <3>1
  <2>2. ~At(p, "idle")' /\ calls'[p].at \notin Making /\ Job(p)' # NoJob
    BY <1>7, PopenAssumption DEF At, Making
  <2> QED BY <1>1, <1>6, <2>1, <2>2 DEF CallTypes, At, Job
<1>9. StreamHas(j)
  BY <1>7 DEF PopenInv
<1>10. JobTypes' /\ CallHas(j, "lookup")'
  BY <1>1, <1>5, <1>9 DEF JobTypes, CallHas, StreamHas
<1> QED BY <1>2, <1>5, <1>6, <1>7, <1>8, <1>10, OneJob DEF Points

LEMMA ChildEndsKeeps ==
  ASSUME PopenInv, NEW j \in Jobs, ChildEnds(j)
  PROVE  PopenInv'
<1>1. JobTypes /\ CallTypes /\ OnePlace
  BY DEF PopenInv
<1>2. JobTypes' /\ CallTypes' /\ OnePlace'
  BY <1>1 DEF ChildEnds, JobTypes, CallTypes, OnePlace, At, Job, Streams
<1>3. \A k \in Jobs : /\ child'[k] = child[k] \/ (child[k] = "alive" /\ child'[k] = "zombie")
                      /\ kind'[k] = kind[k]
  <2>1. child[j] = "alive" /\ child'[j] = "zombie" /\ \A k \in Jobs \ {j} : child'[k] = child[k]
    BY <1>1 DEF ChildEnds, JobTypes
  <2>2. kind' = kind
    BY DEF ChildEnds
  <2> SUFFICES ASSUME NEW k \in Jobs
               PROVE  /\ child'[k] = child[k] \/ (child[k] = "alive" /\ child'[k] = "zombie")
                      /\ kind'[k] = kind[k]
    OBVIOUS
  <2>3. CASE k = j
    BY <2>1, <2>2, <2>3
  <2>4. CASE k # j
    BY <2>1, <2>2, <2>4
  <2> QED BY <2>3, <2>4
<1>4. \A k \in Jobs : /\ StreamHas(k) => StreamHas(k)'
                      /\ NothingHeld(k) => NothingHeld(k)'
                      /\ \A point \in Points : CallHas(k, point) => CallHas(k, point)'
  BY <1>3 DEF ChildEnds, StreamHas, NothingHeld, CallHas
<1>5. ASSUME NEW p \in Procs, (~At(p, "idle"))' PROVE CallHas(Job(p), calls[p].at)'
  <2>1. CallShape /\ ~At(p, "idle") /\ calls' = calls
    BY <1>1, <1>5, CallFacts DEF ChildEnds, At
  <2>2. PICK k \in Jobs, point \in Points : k = Job(p) /\ point = calls[p].at
    BY <2>1 DEF CallShape
  <2>3. CallHas(k, point)'
    BY <1>4, <2>1, <2>2 DEF PopenInv
  <2> QED BY <2>1, <2>2, <2>3 DEF CallHas, Job
<1>6. \A p \in Procs : \A k \in Streams(p)' : k \in Streams(p) /\ k \in Jobs
  BY <1>1, CallFacts DEF ChildEnds, Streams, CallShape
<1>7. \A k \in Jobs : Busy(k)' <=> Busy(k)
  BY DEF ChildEnds, Busy, Job, Streams
<1> QED BY <1>2, <1>4, <1>5, <1>6, <1>7 DEF PopenInv

LEMMA PopenKeeps == PopenInv /\ [MCNext]_allVars => PopenInv'
<1> SUFFICES ASSUME PopenInv, [MCNext]_allVars PROVE PopenInv'
  OBVIOUS
<1>1. CASE Next
  BY <1>1, PopenStepKeeps, PcloseKeeps, MakePipeKeeps, SystemKeeps, ChildEndsKeeps DEF Next
<1>2. CASE UNCHANGED vars
  <2>1. CallShape
    BY CallFacts DEF PopenInv
  <2> QED BY <1>2, <2>1 DEF vars, PopenInv, JobTypes, CallTypes, OnePlace, CallHas, StreamHas,
             NothingHeld, Busy, At, Job, Streams
<1> QED BY <1>1, <1>2 DEF MCNext, allVars

LEMMA PopenShows == PopenInv => PopenSafe
<1> SUFFICES ASSUME PopenInv PROVE PopenSafe
  OBVIOUS
<1>1. JobTypes /\ CallTypes /\ CallShape
  BY CallFacts DEF PopenInv
<1>2. \A p \in Procs : \A i \in 1 .. Len(mine[p]) : mine[p][i] \in Jobs
  BY <1>1, Members DEF CallShape
<1>3. TypeOK
  BY <1>1, <1>2 DEF TypeOK, JobTypes, CallTypes, CallShape
<1>4. \A j \in Jobs : Open(j) <=> \E p \in Procs : j \in Streams(p)
  BY DEF Open, Streams, X!Elements
<1>5. \A j \in Jobs : Busy(j) <=> Open(j) \/ InCall(j)
  BY <1>4 DEF Busy, InCall
<1>6. ProcessesSafe
  BY <1>4, <1>5 DEF ProcessesSafe, PopenInv, StreamHas, NothingHeld
<1> QED BY <1>3, <1>6 DEF PopenSafe

\* popen, pclose and system (popen.go, popen_unix.go, system_unix.go), for any
\* goroutines and any number of calls: a stream that is open has its descriptor
\* to itself, its command in the table and its child unreaped, and a call that
\* is over, whichever of its steps failed, leaves no descriptor, no entry of the
\* table and no zombie.
THEOREM PopenCorrect == MCSpec => []PopenSafe
<1>1. MCSpec => []PopenInv
  BY PopenStarts, PopenKeeps, PTL DEF MCSpec
<1> QED BY <1>1, PopenShows, PTL

=============================================================================
