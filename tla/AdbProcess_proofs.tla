------------------------- MODULE AdbProcess_proofs -------------------------
(***************************************************************************)
(* Safety of ChildProcess: of wait() for any number of tries and any set   *)
(* of calls that CallsAssumption allows, and of the descriptors of both    *)
(* processes for any number of calls of exec and any descriptors that the  *)
(* program is started with.                                                *)
(***************************************************************************)
EXTENDS AdbProcess, FiniteSetTheorems, WellFoundedInduction, TLAPS

Gone == {"free", "stranger"}

\* What wait() knows of the child.  A result of waitpid other than "alive", and
\* a child that kill() did not find, both mean that the child is gone; and as
\* long as zombies are kept it is gone only then.
Knows ==
  /\ pc # "idle" => hasPid
  /\ pc \in {"kill", "try", "sleep"} => tries < Tries
  /\ pc = "sleep" => ret = "alive"
  /\ pc = "decide" /\ ret # "alive" => os \in Gone
  /\ ~found /\ pc \in {"try", "sleep", "decide"} => os \in Gone
  /\ ~ignored /\ hasPid /\ os \in Gone => pc = "decide" /\ ret # "alive"

\* SIGKILL was sent to a child that still ran, if that was the signal asked for.
KillIsSent ==
  pc \in {"try", "sleep", "decide"} /\ signal = "KILL" => killed \/ os # "running"

IInv == TypeOK /\ Knows /\ KillIsSent /\ NoChildLeft /\ NeverHitsStranger /\ FinalWaitEnds

\* Before the first exec there is no child.
LEMMA InitLemma == Init => IInv
<1>1. 0 \in 0 .. Tries
  BY CallsAssumption
<1>2. QED
  BY <1>1
     DEF Init, IInv, TypeOK, Knows, KillIsSent, NoChildLeft, NeverHitsStranger, FinalWaitEnds, Gone, Signals

\* No step of the caller or of the system breaks the invariant.
LEMMA StepLemma == IInv /\ [Next]_vars => IInv'
<1> SUFFICES ASSUME IInv, [Next]_vars PROVE IInv'
  OBVIOUS
<1> USE CallsAssumption
    DEF IInv, TypeOK, Knows, KillIsSent, NoChildLeft, NeverHitsStranger, FinalWaitEnds, Gone, Signals
<1>1. CASE Exec
  BY <1>1 DEF Exec
<1>2. ASSUME NEW c \in Calls, Call(c[1], c[2]) PROVE IInv'
  <2>1. c[1] \in BOOLEAN /\ c[2] \in Signals /\ c = <<c[1], c[2]>>
    OBVIOUS
  <2>2. ~c[1] => c[2] # "KILL"
    BY <2>1
  <2>3. QED
    BY <1>2, <2>1, <2>2 DEF Call
<1>3. CASE Kill
  BY <1>3 DEF Kill, Send
<1>4. CASE Try
  BY <1>4 DEF Try, WaitPid
<1>5. CASE Sleep
  BY <1>5 DEF Sleep
<1>6. CASE KillHard
  BY <1>6 DEF KillHard, Send
<1>7. CASE FinalWait
  BY <1>7 DEF FinalWait, WaitPid
<1>8. CASE Return
  BY <1>8 DEF Return
<1>9. CASE ChildExits
  BY <1>9 DEF ChildExits
<1>10. CASE PidReused
  BY <1>10 DEF PidReused
<1>11. CASE UNCHANGED vars
  BY <1>11 DEF vars
<1>12. QED
  BY <1>1, <1>2, <1>3, <1>4, <1>5, <1>6, <1>7, <1>8, <1>9, <1>10, <1>11 DEF Next, InWait

\* IInv is an invariant of wait() and its callers.
THEOREM Inductive == Spec => []IInv
BY InitLemma, StepLemma, PTL DEF Spec

\* Every variable of wait() keeps its type; the tries never exceed their bound.
THEOREM TypeCorrect == Spec => []TypeOK
BY Inductive, PTL DEF IInv

\* wait() leaves no child behind.
THEOREM WaitReaps == Spec => []NoChildLeft
BY Inductive, PTL DEF IInv

\* wait() signals no process but its child as long as zombies are kept.
THEOREM WaitHitsChild == Spec => []NeverHitsStranger
BY Inductive, PTL DEF IInv

\* wait() blocks only for a child that SIGKILL is bound to end.
THEOREM WaitBlocksBriefly == Spec => []FinalWaitEnds
BY Inductive, PTL DEF IInv

-----------------------------------------------------------------------------
(* The whole component implements its wait(): all that was shown above of  *)
(* ChildProcess holds of it.                                               *)

\* A step of the whole is a step of the process, or leaves it alone.
LEMMA ProcessStep == [ProcessNext]_all => [Next]_vars
<1> SUFFICES ASSUME [ProcessNext]_all PROVE [Next]_vars
  OBVIOUS
<1>1. CASE \E c \in Calls : Ask(c)
  BY <1>1 DEF Ask, Next
<1>2. CASE BeginExec \/ Plumb \/ Polls
  BY <1>2 DEF BeginExec, Plumb, Polls
<1>3. CASE Fork
  BY <1>3 DEF Fork, Next
<1>4. CASE CleanupChildProc
  <2>1. ASSUME Call(TRUE, "none") PROVE Next
    <3>1. /\ <<TRUE, "none">> \in Calls
          /\ <<TRUE, "none">>[1] = TRUE /\ <<TRUE, "none">>[2] = "none"
      BY PipesAssumption
    <3> QED
      BY <2>1, <3>1 DEF Next
  <2> QED
    BY <1>4, <2>1 DEF CleanupChildProc
<1>5. CASE Waits
  BY <1>5 DEF Waits, Next
<1>6. CASE Ends \/ Reused
  BY <1>6 DEF Ends, Reused, Next
<1>7. CASE UNCHANGED all
  BY <1>7 DEF all
<1> QED
  BY <1>1, <1>2, <1>3, <1>4, <1>5, <1>6, <1>7 DEF ProcessNext

\* ChildProcess, with its pipes and with adb, does to the process what module
\* ChildProcess says.
THEOREM ImplementsWait == ProcessSpec => Spec
<1>1. ProcessInit => Init
  BY DEF ProcessInit
<1> QED
  BY <1>1, ProcessStep, PTL DEF ProcessSpec, Spec

-----------------------------------------------------------------------------
(* The descriptors *)

Pipes == Plumbing!Pipes
Sides == Plumbing!Sides
None  == Plumbing!None

PipeTypes ==
  /\ start \subseteq 0 .. MaxFd /\ DOMAIN parent \subseteq 0 .. MaxFd
  /\ gen \in Nat /\ stage \in {"idle", "open", "parent", "attach"}
  /\ stage # "idle" \/ cpc # "none" => gen # 0
  /\ DOMAIN pipes \subseteq Pipes
  /\ fds \in [Pipes -> {None} \cup 0 .. MaxFd]
  /\ handlers \in [Pipes -> {None} \cup 0 .. MaxFd]
  /\ held \in {None} \cup 0 .. MaxFd
  /\ cpc \in {"none", "forked", "adb"}

\* What was open at start is neither closed nor given out.
OwnFiles == \A f \in start : f \in DOMAIN parent /\ parent[f] = Plumbing!File

\* The handlers have the program's ends of the pipes of one exec, an earlier
\* one while the next is under way.
HandlersLive ==
  \/ \A p \in Pipes : handlers[p] = None
  \/ \E g \in 1 .. gen :
       /\ stage # "idle" => g # gen
       /\ \A p \in Pipes : /\ handlers[p] \in DOMAIN parent
                           /\ parent[handlers[p]] = <<g, p, Plumbing!ParentSide(p)>>

\* The handler called back has one, of the same exec or of one before it.
HeldLive ==
  held = None \/ \E g \in 1 .. gen :
    /\ stage # "idle" => g # gen
    /\ held \in DOMAIN parent
    /\ \E p \in Pipes : parent[held] = <<g, p, Plumbing!ParentSide(p)>>

\* So have exec's pipes, and what exec leaves for the handlers.
PipesLive ==
  /\ stage \in {"open", "parent"} => \A p \in DOMAIN pipes : \A s \in Sides :
       pipes[p][s] \in DOMAIN parent /\ parent[pipes[p][s]] = <<gen, p, s>>
  /\ stage = "parent" => DOMAIN pipes = Pipes
  /\ stage = "attach" => \A p \in Pipes :
       fds[p] \in DOMAIN parent /\ parent[fds[p]] = <<gen, p, Plumbing!ParentSide(p)>>

\* There is nothing else.
AllKnown ==
  \A f \in DOMAIN parent :
    \/ f \in start
    \/ f = held
    \/ \E p \in Pipes : f = handlers[p]
    \/ stage \in {"open", "parent"} /\ \E p \in DOMAIN pipes : \E s \in Sides : f = pipes[p][s]
    \/ stage = "attach" /\ \E p \in Pipes : f = fds[p]

ParentInv == PipeTypes /\ OwnFiles /\ HandlersLive /\ HeldLive /\ PipesLive /\ AllKnown

\* Between fork() and execvp the child has what the program had, and no end of
\* its own pipes twice.
ChildInv ==
  /\ cpc = "forked" =>
       /\ \A f \in start : f \in DOMAIN child /\ child[f] = Plumbing!File
       /\ DOMAIN pipes = Pipes
       /\ \A p \in Pipes : \A s \in Sides :
            pipes[p][s] \in DOMAIN child /\ child[pipes[p][s]] = <<gen, p, s>>
       /\ \A f \in DOMAIN child : \A p \in Pipes : \A s \in Sides :
            child[f] = <<gen, p, s>> => f = pipes[p][s]
  /\ cpc = "adb" => \A f \in DOMAIN child : \A p \in Pipes :
       child[f] # <<gen, p, Plumbing!ParentSide(p)>>
  /\ StdioRedirected

\* Process and table come and go together, and exec begins without a child.
OneChild ==
  /\ cpc # "none" <=> os = "running"
  /\ stage = "open" => pc = "idle" /\ ~hasPid

ProcessInv == IInv /\ ParentInv /\ ChildInv /\ OneChild

\* While exec opens its pipes there is no child.
LEMMA NoChildInExec ==
  ASSUME ProcessInv, stage = "open" \/ (pc = "idle" /\ ~hasPid)
  PROVE  cpc = "none"
BY DEF ProcessInv, OneChild, IInv, NoChildLeft

LEMMA CloseLemma ==
  ASSUME NEW t, NEW N
  PROVE  /\ DOMAIN Plumbing!Close(t, N) = DOMAIN t \ N
         /\ \A f \in DOMAIN t \ N : Plumbing!Close(t, N)[f] = t[f]
BY DEF Plumbing!Close, Plumbing!Restrict

\* Min of a set of numbers is one of them.
LEMMA MinLemma ==
  ASSUME NEW S, S \subseteq Nat, S # {}
  PROVE  Plumbing!Min(S) \in S
<1>1. \E s \in S : \A t \in S : s <= t
  <2>1. PICK s \in S : \A t \in S : ~(<<t, s>> \in OpToRel(<, Nat))
    BY NatLessThanWellFounded, WFMin, Zenon
  <2>2. \A t \in S : ~(t < s)
    BY <2>1 DEF OpToRel
  <2> QED
    BY <2>2
<1> QED
  BY <1>1 DEF Plumbing!Min

\* pipe() gives out two different numbers that are free.
LEMMA PipeNumbersLemma ==
  ASSUME NEW t, Cardinality(Plumbing!Free(t)) >= 2
  PROVE  LET new == Plumbing!PipeNumbers(t)
         IN  /\ new["read"] \in 0 .. MaxFd \ DOMAIN t
             /\ new["write"] \in 0 .. MaxFd \ DOMAIN t
             /\ new["read"] # new["write"]
<1> DEFINE F == Plumbing!Free(t)
           low == Plumbing!Min(F)
<1>1. F \subseteq 0 .. MaxFd /\ F \subseteq Nat /\ F = 0 .. MaxFd \ DOMAIN t
  BY PipesAssumption DEF Plumbing!Free
<1>2. IsFiniteSet(F)
  <2>1. IsFiniteSet(0 .. MaxFd)
    BY PipesAssumption, FS_Interval
  <2> QED
    BY <1>1, <2>1, FS_Subset
<1>3. F # {}
  BY FS_EmptySet
<1>4. low \in F
  BY <1>1, <1>3, MinLemma
<1>5. F \ {low} # {}
  <2>1. Cardinality(F \ {low}) = Cardinality(F) - 1
    BY <1>2, <1>4, FS_RemoveElement
  <2>2. Cardinality(F) \in Nat
    BY <1>2, FS_CardinalityType
  <2> QED
    BY <2>1, <2>2, FS_EmptySet
<1>6. Plumbing!Min(F \ {low}) \in F \ {low}
  BY <1>1, <1>5, MinLemma
<1> QED
  BY <1>1, <1>4, <1>6 DEF Plumbing!PipeNumbers, Plumbing!Sides

LEMMA ProcessInitLemma == ProcessInit => ProcessInv
<1> SUFFICES ASSUME ProcessInit PROVE ProcessInv
  OBVIOUS
<1>1. IInv
  BY InitLemma DEF ProcessInit
<1>2. Plumbing!Init
  BY DEF ProcessInit
<1>3. DOMAIN pipes = {}
  BY <1>2 DEF Plumbing!Init
<1>4. ParentInv
  BY <1>2, <1>3, PipesAssumption
     DEF Plumbing!Init, ParentInv, PipeTypes, OwnFiles, HandlersLive, HeldLive, PipesLive, AllKnown,
         Pipes, None
<1>5. ChildInv
  BY <1>2 DEF Plumbing!Init, ChildInv, StdioRedirected, Plumbing!StdioRedirected, Plumbing!StdioIsPipes
<1>6. OneChild
  BY <1>2 DEF ProcessInit, Init, Plumbing!Init, OneChild
<1> QED
  BY <1>1, <1>4, <1>5, <1>6 DEF ProcessInv

\* cleanup() closes no descriptor and changes no member: its test is reversed.
LEMMA CleanupLemma ==
  ASSUME PipeTypes, NEW t, DOMAIN t \subseteq 0 .. MaxFd, Plumbing!CleanupFds(t)
  PROVE  /\ DOMAIN parent' = DOMAIN t
         /\ \A f \in DOMAIN t : parent'[f] = t[f]
         /\ fds' = fds
<1> DEFINE N == {fds[p] : p \in Plumbing!Stale}
<1>1. parent' = Plumbing!Close(t, N) /\ fds' = [p \in Pipes |-> IF p \in Plumbing!Stale THEN None ELSE fds[p]]
  BY DEF Plumbing!CleanupFds, Pipes, None
<1>2. \A p \in Plumbing!Stale : p \in Pipes /\ fds[p] = None
  BY PipesAssumption DEF Plumbing!Stale, PipeTypes, Pipes, None, Plumbing!None
<1>3. DOMAIN t \ N = DOMAIN t
  <2>1. ~(None \in 0 .. MaxFd)
    BY PipesAssumption DEF None, Plumbing!None
  <2>2. \A f \in N : f = None
    BY <1>2
  <2>3. \A f \in DOMAIN t : f \notin N
    BY <2>1, <2>2
  <2> QED
    BY <2>3
<1>4. fds' = fds
  BY <1>1, <1>2 DEF PipeTypes
<1>5. /\ DOMAIN Plumbing!Close(t, N) = DOMAIN t \ N
      /\ \A f \in DOMAIN t \ N : Plumbing!Close(t, N)[f] = t[f]
  BY CloseLemma
<1> QED
  BY <1>1, <1>3, <1>4, <1>5

\* A step that leaves the descriptors alone.
LEMMA DescriptorsStay ==
  ASSUME ParentInv, ChildInv, UNCHANGED descriptors
  PROVE  ParentInv' /\ ChildInv'
BY DEF descriptors, ParentInv, PipeTypes, OwnFiles, HandlersLive, HeldLive, PipesLive, AllKnown, ChildInv,
       StdioRedirected, Plumbing!StdioRedirected, Plumbing!StdioIsPipes

\* A step of the program without a child leaves the child without a table.
LEMMA ChildStaysGone ==
  ASSUME cpc = "none", cpc' = "none"
  PROVE  ChildInv'
BY DEF ChildInv, StdioRedirected, Plumbing!StdioRedirected, Plumbing!StdioIsPipes

LEMMA BeginExecLemma ==
  ASSUME ProcessInv, BeginExec
  PROVE  ParentInv' /\ ChildInv' /\ OneChild'
<1> USE DEF ProcessInv, ParentInv
<1>1. /\ stage = "idle" /\ stage' = "open" /\ gen' = gen + 1 /\ pipes' = << >>
      /\ Plumbing!CleanupFds(parent)
      /\ UNCHANGED <<start, handlers, held, child, cpc>> /\ UNCHANGED vars
      /\ pc = "idle" /\ ~hasPid
  BY DEF BeginExec, Plumbing!BeginExec
<1>2. cpc = "none"
  BY <1>1, NoChildInExec
<1>3. /\ DOMAIN parent' = DOMAIN parent /\ fds' = fds
      /\ \A f \in DOMAIN parent : parent'[f] = parent[f]
  BY <1>1, CleanupLemma DEF PipeTypes
<1>4. DOMAIN pipes' = {}
  BY <1>1
<1>5. PipeTypes'
  BY <1>1, <1>3, <1>4 DEF PipeTypes
<1>6. OwnFiles'
  BY <1>1, <1>3 DEF OwnFiles
<1>7. HandlersLive'
  <2>1. \A g \in 1 .. gen : g \in 1 .. gen' /\ g # gen'
    BY <1>1 DEF PipeTypes
  <2> QED
    BY <1>1, <1>3, <2>1 DEF HandlersLive
<1>8. HeldLive'
  <2>1. \A g \in 1 .. gen : g \in 1 .. gen' /\ g # gen'
    BY <1>1 DEF PipeTypes
  <2> QED
    BY <1>1, <1>3, <2>1 DEF HeldLive
<1>11. PipesLive'
  BY <1>1, <1>4 DEF PipesLive
<1>9. AllKnown'
  BY <1>1, <1>3 DEF AllKnown
<1>10. OneChild'
  BY <1>1 DEF OneChild, vars
<1> QED
  BY <1>1, <1>2, <1>5, <1>6, <1>7, <1>8, <1>9, <1>10, <1>11, ChildStaysGone

\* exec gives up: what it closes is none of the handlers' nor of the files'.
LEMMA ExecFailsLemma ==
  ASSUME ProcessInv, stage = "open", Plumbing!ExecFails
  PROVE  ParentInv' /\ ChildInv' /\ stage' = "idle" /\ cpc' = cpc
<1> USE DEF ProcessInv, ParentInv
<1> DEFINE N == Plumbing!Numbers(Plumbing!Made)
<1>1. /\ stage' = "idle" /\ parent' = Plumbing!Close(parent, N)
      /\ UNCHANGED <<start, gen, pipes, fds, handlers, held, child, cpc>>
  BY DEF Plumbing!ExecFails
<1>2. N = {pipes[p][s] : p \in DOMAIN pipes, s \in Sides}
  BY DEF Plumbing!Numbers, Plumbing!Made, Sides
<1>3. /\ DOMAIN parent' = DOMAIN parent \ N
      /\ \A f \in DOMAIN parent \ N : parent'[f] = parent[f]
  BY <1>1, CloseLemma
<1>4. \A f \in N : \E p \in DOMAIN pipes : \E s \in Sides : parent[f] = <<gen, p, s>>
  BY <1>2 DEF PipesLive
<1>5. PipeTypes'
  BY <1>1, <1>3, NoChildInExec DEF PipeTypes
<1>6. OwnFiles'
  <2>1. \A f \in start : f \notin N
    BY <1>4 DEF OwnFiles, PipeTypes, Plumbing!File
  <2> QED
    BY <1>1, <1>3, <2>1 DEF OwnFiles
<1>7. HandlersLive'
  <2>1. CASE \A p \in Pipes : handlers[p] = None
    BY <1>1, <2>1 DEF HandlersLive
  <2>2. CASE \E g \in 1 .. gen :
               /\ g # gen
               /\ \A p \in Pipes : /\ handlers[p] \in DOMAIN parent
                                   /\ parent[handlers[p]] = <<g, p, Plumbing!ParentSide(p)>>
    <3>1. PICK g \in 1 .. gen :
            /\ g # gen
            /\ \A p \in Pipes : /\ handlers[p] \in DOMAIN parent
                                /\ parent[handlers[p]] = <<g, p, Plumbing!ParentSide(p)>>
      BY <2>2
    <3>2. \A p \in Pipes : handlers[p] \notin N
      BY <1>4, <3>1
    <3> QED
      BY <1>1, <1>3, <3>1, <3>2 DEF HandlersLive
  <2> QED
    BY <2>1, <2>2 DEF HandlersLive
<1>8. PipesLive'
  BY <1>1 DEF PipesLive
<1>11. HeldLive'
  <2>1. held # None => held \notin N
    BY <1>4 DEF HeldLive
  <2> QED
    BY <1>1, <1>3, <2>1 DEF HeldLive
<1>9. AllKnown'
  <2>1. ASSUME NEW f \in DOMAIN parent'
        PROVE  f \in start \/ f = held \/ \E p \in Pipes : f = handlers[p]
    BY <1>2, <1>3, <2>1 DEF AllKnown
  <2> QED
    BY <1>1, <2>1 DEF AllKnown
<1>10. cpc = "none"
  BY NoChildInExec
<1> QED
  BY <1>1, <1>5, <1>6, <1>7, <1>8, <1>9, <1>10, <1>11, ChildStaysGone

\* A new pipe of exec: the two new numbers are nobody else's.
LEMMA PipeMadeLemma ==
  ASSUME ProcessInv, stage = "open", NEW q \in Pipes \ DOMAIN pipes, NEW new,
         new["read"] \in 0 .. MaxFd \ DOMAIN parent,
         new["write"] \in 0 .. MaxFd \ DOMAIN parent,
         new["read"] # new["write"],
         pipes' = Plumbing!Put(pipes, q, new),
         parent' = Plumbing!Put(Plumbing!Put(parent, new["read"], <<gen, q, "read">>),
                                new["write"], <<gen, q, "write">>),
         UNCHANGED <<start, gen, stage, fds, handlers, held, child, cpc>>
  PROVE  ParentInv' /\ ChildInv'
<1> USE DEF ProcessInv, ParentInv
<1> DEFINE once == Plumbing!Put(parent, new["read"], <<gen, q, "read">>)
<1>1. UNCHANGED <<start, gen, stage, fds, handlers, held, child, cpc>>
  OBVIOUS
<1>2. /\ DOMAIN parent' = DOMAIN parent \cup {new["read"], new["write"]}
      /\ parent'[new["read"]] = <<gen, q, "read">>
      /\ parent'[new["write"]] = <<gen, q, "write">>
      /\ \A f \in DOMAIN parent : parent'[f] = parent[f]
  <2>1. /\ DOMAIN once = DOMAIN parent \cup {new["read"]}
        /\ once[new["read"]] = <<gen, q, "read">>
        /\ \A f \in DOMAIN parent : f # new["read"] => once[f] = parent[f]
    BY DEF Plumbing!Put
  <2>2. /\ DOMAIN parent' = DOMAIN once \cup {new["write"]}
        /\ parent'[new["write"]] = <<gen, q, "write">>
        /\ \A f \in DOMAIN once : f # new["write"] => parent'[f] = once[f]
    BY DEF Plumbing!Put
  <2> QED
    BY <2>1, <2>2
<1>3. /\ DOMAIN pipes' = DOMAIN pipes \cup {q} /\ pipes'[q] = new
      /\ \A p \in DOMAIN pipes : pipes'[p] = pipes[p]
  <2>1. \A p \in DOMAIN pipes : p # q
    OBVIOUS
  <2> QED
    BY <2>1 DEF Plumbing!Put
<1>4. PipeTypes'
  BY <1>1, <1>2, <1>3 DEF PipeTypes
<1>5. OwnFiles'
  BY <1>1, <1>2 DEF OwnFiles
<1>6. HandlersLive' /\ HeldLive'
  BY <1>1, <1>2 DEF HandlersLive, HeldLive
<1>7. PipesLive'
  <2>1. ASSUME NEW p \in DOMAIN pipes', NEW s \in Sides
        PROVE  pipes'[p][s] \in DOMAIN parent' /\ parent'[pipes'[p][s]] = <<gen, p, s>>
    <3>1. CASE p = q
      BY <1>2, <1>3, <3>1 DEF Sides, Plumbing!Sides
    <3>2. CASE p \in DOMAIN pipes
      BY <1>1, <1>2, <1>3, <3>2 DEF PipesLive
    <3> QED
      BY <1>3, <2>1, <3>1, <3>2
  <2> QED
    BY <1>1, <2>1 DEF PipesLive
<1>8. AllKnown'
  <2>1. ASSUME NEW f \in DOMAIN parent'
        PROVE  \/ f \in start
               \/ f = held
               \/ \E p \in Pipes : f = handlers[p]
               \/ \E p \in DOMAIN pipes' : \E s \in Sides : f = pipes'[p][s]
    <3>1. CASE f \in DOMAIN parent
      BY <1>1, <1>3, <3>1 DEF AllKnown
    <3>2. CASE f \in {new["read"], new["write"]}
      BY <1>3, <3>2 DEF Sides, Plumbing!Sides
    <3> QED
      BY <1>2, <3>1, <3>2
  <2> QED
    BY <1>1, <2>1 DEF AllKnown
<1>9. cpc = "none"
  BY <1>1, NoChildInExec
<1> QED
  BY <1>1, <1>4, <1>5, <1>6, <1>7, <1>8, <1>9, ChildStaysGone

LEMMA OpenPipeLemma ==
  ASSUME ProcessInv, Plumbing!OpenPipe
  PROVE  ParentInv' /\ ChildInv' /\ stage' \in {"idle", "open"} /\ cpc' = cpc
<1>1. CASE Plumbing!ExecFails
  BY <1>1, ExecFailsLemma DEF Plumbing!OpenPipe
<1> DEFINE K == {k \in DOMAIN Plumbing!PipeOrder : Plumbing!PipeOrder[k] \notin DOMAIN pipes}
           n == Plumbing!Min(K)
<1>2. CASE ~Plumbing!ExecFails
  <2>1. PICK q, new :
          /\ q = Plumbing!PipeOrder[n] /\ new = Plumbing!PipeNumbers(parent)
          /\ pipes' = Plumbing!Put(pipes, q, new)
          /\ parent' = Plumbing!Put(Plumbing!Put(parent, new["read"], <<gen, q, "read">>),
                                    new["write"], <<gen, q, "write">>)
    BY <1>2 DEF Plumbing!OpenPipe
  <2>2. /\ stage = "open" /\ DOMAIN pipes # Pipes /\ Cardinality(Plumbing!Free(parent)) >= 2
        /\ UNCHANGED <<start, gen, stage, fds, handlers, held, child, cpc>>
    BY <1>2 DEF Plumbing!OpenPipe, Pipes, Plumbing!Cardinality, Cardinality
  <2>3. q \in Pipes \ DOMAIN pipes
    <3>1. /\ K \subseteq {1, 2, 3} /\ Plumbing!PipeOrder[1] = "stdin"
          /\ Plumbing!PipeOrder[2] = "stdout" /\ Plumbing!PipeOrder[3] = "stderr"
          /\ DOMAIN Plumbing!PipeOrder = {1, 2, 3}
      BY DEF Plumbing!PipeOrder
    <3>2. K # {}
      <4>1. PICK p \in Pipes : p \notin DOMAIN pipes
        BY <2>2 DEF ProcessInv, ParentInv, PipeTypes
      <4>2. \E k \in {1, 2, 3} : p = Plumbing!PipeOrder[k]
        BY <3>1, <4>1 DEF Pipes, Plumbing!Pipes
      <4> QED
        BY <3>1, <4>1, <4>2
    <3>3. n \in K
      BY <3>1, <3>2, MinLemma
    <3> QED
      BY <2>1, <3>1, <3>3 DEF Pipes, Plumbing!Pipes
  <2>4. /\ new["read"] \in 0 .. MaxFd \ DOMAIN parent
        /\ new["write"] \in 0 .. MaxFd \ DOMAIN parent
        /\ new["read"] # new["write"]
    BY <2>1, <2>2, PipeNumbersLemma
  <2> QED
    BY <2>1, <2>2, <2>3, <2>4, PipeMadeLemma
<1> QED
  BY <1>1, <1>2

\* fork(): the child's table is a copy, and this exec's ends are in it once.
LEMMA ForkLemma ==
  ASSUME ProcessInv, Fork
  PROVE  ParentInv' /\ ChildInv' /\ OneChild'
<1> USE DEF ProcessInv, ParentInv
<1>1. stage = "open" /\ DOMAIN pipes = Pipes /\ cpc = "none"
  BY NoChildInExec DEF Fork, Plumbing!Fork, Pipes
<1>2. CASE Plumbing!ExecFails
  <2>1. ParentInv' /\ ChildInv' /\ stage' = "idle" /\ cpc' = "none"
    BY <1>1, <1>2, ExecFailsLemma
  <2>2. UNCHANGED vars
    BY <2>1 DEF Fork
  <2> QED
    BY <1>1, <2>1, <2>2 DEF OneChild, vars
<1>3. CASE ~Plumbing!ExecFails
  <2>1. /\ child' = parent /\ cpc' = "forked" /\ stage' = "parent" /\ Exec
        /\ UNCHANGED <<parent, start, gen, pipes, fds, handlers, held>>
    BY <1>3 DEF Fork, Plumbing!Fork
  <2>2. gen # 0
    BY <1>1 DEF PipeTypes
  <2>3. PipeTypes' /\ OwnFiles' /\ HandlersLive' /\ HeldLive' /\ PipesLive' /\ AllKnown'
    BY <1>1, <2>1, <2>2 DEF PipeTypes, OwnFiles, HandlersLive, HeldLive, PipesLive, AllKnown
  <2>4. ASSUME NEW f \in DOMAIN parent, NEW p \in Pipes, NEW s \in Sides, parent[f] = <<gen, p, s>>
        PROVE  f = pipes[p][s]
    <3>1. f \notin start
      BY <2>2, <2>4 DEF OwnFiles, Plumbing!File
    <3>2. \A r \in Pipes : f # handlers[r]
      <4>1. CASE \A r \in Pipes : handlers[r] = None
        BY <4>1, PipesAssumption, <2>4 DEF PipeTypes, None, Plumbing!None
      <4>2. CASE \E g \in 1 .. gen :
                   /\ g # gen
                   /\ \A r \in Pipes : /\ handlers[r] \in DOMAIN parent
                                       /\ parent[handlers[r]] = <<g, r, Plumbing!ParentSide(r)>>
        BY <2>4, <4>2
      <4> QED
        BY <1>1, <4>1, <4>2 DEF HandlersLive
    <3>6. f # held
      BY <1>1, PipesAssumption, <2>4 DEF HeldLive, PipeTypes, None, Plumbing!None
    <3>3. PICK r \in DOMAIN pipes : \E z \in Sides : f = pipes[r][z]
      BY <1>1, <3>1, <3>2, <3>6, <2>4 DEF AllKnown
    <3>4. PICK z \in Sides : f = pipes[r][z]
      BY <3>3
    <3>5. parent[f] = <<gen, r, z>>
      BY <1>1, <3>4 DEF PipesLive
    <3> QED
      BY <2>4, <3>4, <3>5
  <2>5. ChildInv'
    <3>1. /\ \A f \in start : f \in DOMAIN parent /\ parent[f] = Plumbing!File
          /\ \A p \in Pipes : \A s \in Sides :
               pipes[p][s] \in DOMAIN parent /\ parent[pipes[p][s]] = <<gen, p, s>>
      BY <1>1 DEF OwnFiles, PipesLive
    <3> QED
      BY <1>1, <2>1, <2>4, <3>1 DEF ChildInv, StdioRedirected, Plumbing!StdioRedirected, Plumbing!StdioIsPipes
  <2>6. OneChild'
    BY <2>1 DEF OneChild, Exec
  <2> QED
    BY <2>3, <2>5, <2>6
<1> QED
  BY <1>2, <1>3

\* The parent gives up the child's sides; its own become members.
LEMMA ParentClosesLemma ==
  ASSUME ProcessInv, Plumbing!ParentCloses
  PROVE  ParentInv' /\ UNCHANGED <<start, gen, pipes, child, cpc>> /\ stage' = "attach"
<1> USE DEF ProcessInv, ParentInv
<1> DEFINE N == {pipes[p][Plumbing!ChildSide(p)] : p \in Pipes}
<1>1. /\ stage = "parent" /\ stage' = "attach" /\ parent' = Plumbing!Close(parent, N)
      /\ fds' = [p \in Pipes |-> pipes[p][Plumbing!ParentSide(p)]]
      /\ UNCHANGED <<start, gen, pipes, handlers, held, child, cpc>>
  BY DEF Plumbing!ParentCloses, Pipes
<1>2. /\ DOMAIN parent' = DOMAIN parent \ N
      /\ \A f \in DOMAIN parent \ N : parent'[f] = parent[f]
  <2>1. /\ DOMAIN Plumbing!Close(parent, N) = DOMAIN parent \ N
        /\ \A f \in DOMAIN parent \ N : Plumbing!Close(parent, N)[f] = parent[f]
    BY CloseLemma
  <2> QED
    BY <1>1, <2>1
<1>3. \A p \in Pipes : /\ Plumbing!ChildSide(p) \in Sides /\ Plumbing!ParentSide(p) \in Sides
                       /\ Plumbing!ChildSide(p) # Plumbing!ParentSide(p)
                       /\ \A s \in Sides : s = Plumbing!ChildSide(p) \/ s = Plumbing!ParentSide(p)
  BY DEF Sides, Plumbing!Sides, Plumbing!ChildSide, Plumbing!ParentSide
<1>4. /\ DOMAIN pipes = Pipes
      /\ \A p \in Pipes : \A s \in Sides :
           pipes[p][s] \in DOMAIN parent /\ parent[pipes[p][s]] = <<gen, p, s>>
  BY <1>1 DEF PipesLive
<1>5. \A f \in N : \E p \in Pipes : parent[f] = <<gen, p, Plumbing!ChildSide(p)>>
  BY <1>3, <1>4
<1>6. gen # 0
  BY <1>1 DEF PipeTypes
<1>7. \A p \in Pipes : fds'[p] = pipes[p][Plumbing!ParentSide(p)]
  BY <1>1
<1>8. PipeTypes'
  BY <1>1, <1>2, <1>3, <1>4, <1>6 DEF PipeTypes
<1>9. OwnFiles'
  <2>1. \A f \in start : f \notin N
    BY <1>5, <1>6 DEF OwnFiles, Plumbing!File
  <2> QED
    BY <1>1, <1>2, <2>1 DEF OwnFiles
<1>10. HandlersLive'
  <2>1. CASE \A p \in Pipes : handlers[p] = None
    BY <1>1, <2>1 DEF HandlersLive
  <2>2. CASE \E g \in 1 .. gen :
               /\ g # gen
               /\ \A p \in Pipes : /\ handlers[p] \in DOMAIN parent
                                   /\ parent[handlers[p]] = <<g, p, Plumbing!ParentSide(p)>>
    <3>1. PICK g \in 1 .. gen :
            /\ g # gen
            /\ \A p \in Pipes : /\ handlers[p] \in DOMAIN parent
                                /\ parent[handlers[p]] = <<g, p, Plumbing!ParentSide(p)>>
      BY <2>2
    <3>2. \A p \in Pipes : handlers[p] \notin N
      BY <1>5, <3>1
    <3> QED
      BY <1>1, <1>2, <3>1, <3>2 DEF HandlersLive
  <2> QED
    BY <1>1, <2>1, <2>2 DEF HandlersLive
<1>13. HeldLive'
  <2>1. held # None => held \notin N
    BY <1>1, <1>5 DEF HeldLive
  <2> QED
    BY <1>1, <1>2, <2>1 DEF HeldLive
<1>11. PipesLive'
  <2>1. ASSUME NEW p \in Pipes
        PROVE  fds'[p] \in DOMAIN parent' /\ parent'[fds'[p]] = <<gen, p, Plumbing!ParentSide(p)>>
    <3>1. /\ fds'[p] \in DOMAIN parent
          /\ parent[fds'[p]] = <<gen, p, Plumbing!ParentSide(p)>>
      BY <1>3, <1>4, <1>7
    <3>2. fds'[p] \notin N
      BY <1>3, <1>5, <3>1
    <3> QED
      BY <1>2, <3>1, <3>2
  <2> QED
    BY <1>1, <2>1 DEF PipesLive
<1>12. AllKnown'
  <2>1. ASSUME NEW f \in DOMAIN parent'
        PROVE  \/ f \in start
               \/ f = held
               \/ \E p \in Pipes : f = handlers[p]
               \/ \E p \in Pipes : f = fds'[p]
    <3>1. CASE \E p \in Pipes : \E s \in Sides : f = pipes[p][s]
      BY <1>2, <1>3, <1>7, <2>1, <3>1
    <3>2. CASE ~\E p \in Pipes : \E s \in Sides : f = pipes[p][s]
      BY <1>1, <1>2, <1>4, <2>1, <3>2 DEF AllKnown
    <3> QED
      BY <3>1, <3>2
  <2> QED
    BY <1>1, <2>1 DEF AllKnown
<1> QED
  BY <1>1, <1>8, <1>9, <1>10, <1>11, <1>12, <1>13

\* The old handlers' destructors close none of what the new ones take over.
LEMMA AttachLemma ==
  ASSUME ProcessInv, Plumbing!Attach
  PROVE  ParentInv' /\ UNCHANGED <<start, gen, pipes, child, cpc>> /\ stage' = "idle"
<1> USE DEF ProcessInv, ParentInv
<1> DEFINE N == Plumbing!Range(handlers) \ {held}
<1>1. /\ stage = "attach" /\ stage' = "idle" /\ parent' = Plumbing!Close(parent, N)
      /\ handlers' = fds
      /\ UNCHANGED <<start, gen, pipes, fds, held, child, cpc>>
  BY DEF Plumbing!Attach, Plumbing!Dropped
<1>2. N = {handlers[p] : p \in Pipes} \ {held}
  BY DEF Plumbing!Range, PipeTypes
<1>3. /\ DOMAIN parent' = DOMAIN parent \ N
      /\ \A f \in DOMAIN parent \ N : parent'[f] = parent[f]
  <2>1. /\ DOMAIN Plumbing!Close(parent, N) = DOMAIN parent \ N
        /\ \A f \in DOMAIN parent \ N : Plumbing!Close(parent, N)[f] = parent[f]
    BY CloseLemma
  <2> QED
    BY <1>1, <2>1
<1>4. \A p \in Pipes : fds[p] \in DOMAIN parent /\ parent[fds[p]] = <<gen, p, Plumbing!ParentSide(p)>>
  BY <1>1 DEF PipesLive
<1>5. /\ \A f \in start : f \notin N
      /\ \A p \in Pipes : fds[p] \notin N
  <2>1. CASE \A p \in Pipes : handlers[p] = None
    <3>1. ~(None \in 0 .. MaxFd)
      BY PipesAssumption DEF None, Plumbing!None
    <3> QED
      BY <1>2, <1>4, <2>1, <3>1 DEF PipeTypes
  <2>2. CASE \E g \in 1 .. gen :
               /\ g # gen
               /\ \A p \in Pipes : /\ handlers[p] \in DOMAIN parent
                                   /\ parent[handlers[p]] = <<g, p, Plumbing!ParentSide(p)>>
    BY <1>2, <1>4, <2>2 DEF OwnFiles, PipeTypes, Plumbing!File
  <2> QED
    BY <1>1, <2>1, <2>2 DEF HandlersLive
<1> HIDE DEF N
<1>6. gen \in 1 .. gen
  BY <1>1 DEF PipeTypes
<1>7. PipeTypes'
  BY <1>1, <1>3 DEF PipeTypes
<1>8. OwnFiles'
  BY <1>1, <1>3, <1>5 DEF OwnFiles
<1>9. HandlersLive'
  BY <1>1, <1>3, <1>4, <1>5, <1>6 DEF HandlersLive
<1>12. HeldLive'
  BY <1>1, <1>2, <1>3 DEF HeldLive
<1>10. PipesLive'
  BY <1>1 DEF PipesLive
<1>11. AllKnown'
  BY <1>1, <1>2, <1>3 DEF AllKnown
<1> QED
  BY <1>1, <1>7, <1>8, <1>9, <1>10, <1>11, <1>12

\* The child does not notice what the parent does to its own table.
LEMMA ChildUnaffected ==
  ASSUME ChildInv, UNCHANGED <<start, gen, pipes, child, cpc>>
  PROVE  ChildInv'
BY DEF ChildInv, StdioRedirected, Plumbing!StdioRedirected, Plumbing!StdioIsPipes

\* cleanupChildProc: with the handlers go the program's ends, and nothing else.
LEMMA CleanupChildProcLemma ==
  ASSUME ProcessInv, Plumbing!CleanupChildProc
  PROVE  ParentInv' /\ UNCHANGED <<start, gen, stage, pipes, child, cpc>>
<1> USE DEF ProcessInv, ParentInv
<1> DEFINE N == Plumbing!Range(handlers) \ {held}
           t == Plumbing!Close(parent, N)
<1>1. /\ stage = "idle" /\ handlers' = [p \in Pipes |-> None] /\ Plumbing!CleanupFds(t)
      /\ UNCHANGED <<start, gen, stage, pipes, held, child, cpc>>
  BY DEF Plumbing!CleanupChildProc, Plumbing!Dropped, Pipes, None
<1>2. N = {handlers[p] : p \in Pipes} \ {held}
  BY DEF Plumbing!Range, PipeTypes
<1>3. DOMAIN t = DOMAIN parent \ N /\ \A f \in DOMAIN parent \ N : t[f] = parent[f]
  BY CloseLemma
<1> HIDE DEF N, t
<1>4. DOMAIN t \subseteq 0 .. MaxFd
  BY <1>3 DEF PipeTypes
<1>5. DOMAIN parent' = DOMAIN t /\ (\A f \in DOMAIN t : parent'[f] = t[f]) /\ fds' = fds
  BY <1>1, <1>4, CleanupLemma
<1>6. \A f \in start : f \notin N
  <2>1. CASE \A p \in Pipes : handlers[p] = None
    <3>1. ~(None \in 0 .. MaxFd)
      BY PipesAssumption DEF None, Plumbing!None
    <3> QED
      BY <1>2, <2>1, <3>1 DEF PipeTypes
  <2>2. CASE \E g \in 1 .. gen :
               \A p \in Pipes : /\ handlers[p] \in DOMAIN parent
                                /\ parent[handlers[p]] = <<g, p, Plumbing!ParentSide(p)>>
    BY <1>2, <2>2 DEF OwnFiles, Plumbing!File
  <2> QED
    BY <2>1, <2>2 DEF HandlersLive
<1>7. PipeTypes'
  BY <1>1, <1>4, <1>5 DEF PipeTypes
<1>8. OwnFiles'
  BY <1>1, <1>3, <1>5, <1>6 DEF OwnFiles
<1>11. held \notin N /\ (held # None => held \in DOMAIN t)
  BY <1>2, <1>3 DEF HeldLive
<1>9. HandlersLive' /\ HeldLive' /\ PipesLive'
  BY <1>1, <1>3, <1>5, <1>11 DEF HandlersLive, HeldLive, PipesLive
<1>10. AllKnown'
  BY <1>1, <1>2, <1>3, <1>5 DEF AllKnown
<1> QED
  BY <1>1, <1>7, <1>8, <1>9, <1>10

\* A callback begins, for one of the handlers, or returns: then nobody else has
\* the descriptor that goes.
LEMMA PollsLemma ==
  ASSUME ProcessInv, Polls
  PROVE  ParentInv' /\ UNCHANGED <<start, gen, stage, pipes, child, cpc>> /\ UNCHANGED vars
<1> USE DEF ProcessInv, ParentInv
<1>1. CASE Plumbing!CallBack
  <2>1. /\ stage = "idle" /\ UNCHANGED vars
        /\ held' \in Plumbing!Range(handlers) \ {None}
        /\ UNCHANGED <<parent, start, gen, stage, pipes, fds, handlers, child, cpc>>
    BY <1>1 DEF Polls, Plumbing!CallBack, None
  <2>2. PICK p \in Pipes : held' = handlers[p] /\ handlers[p] # None
    BY <2>1 DEF Plumbing!Range, PipeTypes
  <2>3. HeldLive'
    BY <2>1, <2>2 DEF HandlersLive, HeldLive
  <2>4. PipeTypes'
    BY <2>1, <2>2 DEF PipeTypes
  <2>5. OwnFiles' /\ HandlersLive' /\ PipesLive'
    BY <2>1 DEF OwnFiles, HandlersLive, PipesLive
  <2>6. AllKnown'
    <3>1. CASE held = None
      <4>1. \A f \in DOMAIN parent : f # held
        BY <3>1, PipesAssumption DEF PipeTypes, None, Plumbing!None
      <4> QED
        BY <2>1, <4>1 DEF AllKnown
    <3> QED
      BY <1>1, <3>1 DEF Plumbing!CallBack, None
  <2> QED
    BY <2>1, <2>3, <2>4, <2>5, <2>6
<1>2. CASE Plumbing!CallBackReturns
  <2> DEFINE N == {held} \ Plumbing!Range(handlers)
  <2>1. /\ stage = "idle" /\ UNCHANGED vars
        /\ held # None /\ held' = None /\ parent' = Plumbing!Close(parent, N)
        /\ UNCHANGED <<start, gen, stage, pipes, fds, handlers, child, cpc>>
    BY <1>2 DEF Polls, Plumbing!CallBackReturns, None
  <2>2. /\ DOMAIN parent' = DOMAIN parent \ N
        /\ \A f \in DOMAIN parent \ N : parent'[f] = parent[f]
    <3>1. /\ DOMAIN Plumbing!Close(parent, N) = DOMAIN parent \ N
          /\ \A f \in DOMAIN parent \ N : Plumbing!Close(parent, N)[f] = parent[f]
      BY CloseLemma
    <3> QED
      BY <2>1, <3>1
  <2>3. \A p \in Pipes : handlers[p] \notin N
    BY DEF Plumbing!Range, PipeTypes
  <2>4. held \notin start
    BY <2>1 DEF HeldLive, OwnFiles, Plumbing!File
  <2>5. PipeTypes' /\ HeldLive' /\ PipesLive'
    BY <2>1, <2>2 DEF PipeTypes, HeldLive, PipesLive
  <2>6. OwnFiles'
    BY <2>1, <2>2, <2>4 DEF OwnFiles
  <2>7. HandlersLive'
    BY <2>1, <2>2, <2>3 DEF HandlersLive
  <2>8. AllKnown'
    <3>1. Plumbing!Range(handlers) = {handlers[p] : p \in Pipes}
      BY DEF Plumbing!Range, PipeTypes
    <3>2. \A f \in DOMAIN parent' : f = held => \E p \in Pipes : f = handlers[p]
      BY <2>2, <3>1
    <3> QED
      BY <2>1, <2>2, <3>2 DEF AllKnown
  <2> QED
    BY <2>1, <2>5, <2>6, <2>7, <2>8
<1> QED
  BY <1>1, <1>2 DEF Polls

\* dup2 three times and the closing of six numbers leave adb no end of the
\* program's, whichever numbers the pipes have got.
LEMMA ChildPreparesLemma ==
  ASSUME ProcessInv, Plumbing!ChildPrepares
  PROVE  ParentInv' /\ ChildInv' /\ cpc # "none" /\ cpc' # "none" /\ stage' = stage
<1> USE DEF ProcessInv
<1> DEFINE N == Plumbing!Numbers(Plumbing!Pipes)
           in == pipes["stdin"]["read"]
           out == pipes["stdout"]["write"]
           err == pipes["stderr"]["write"]
           t0 == Plumbing!Dup2(child, in, 0)
           t1 == Plumbing!Dup2(t0, out, 1)
           t2 == Plumbing!Dup2(t1, err, 2)
<1>1. /\ cpc = "forked" /\ cpc' = "adb" /\ child' = Plumbing!Close(t2, N)
      /\ UNCHANGED <<parent, start, gen, stage, pipes, fds, handlers, held>>
  BY DEF Plumbing!ChildPrepares, Plumbing!Prepared, Plumbing!Redirected
<1>2. /\ \A f \in start : f \in DOMAIN child /\ child[f] = Plumbing!File
      /\ \A p \in Pipes : \A s \in Sides :
           pipes[p][s] \in DOMAIN child /\ child[pipes[p][s]] = <<gen, p, s>>
      /\ \A f \in DOMAIN child : \A p \in Pipes : \A s \in Sides :
           child[f] = <<gen, p, s>> => f = pipes[p][s]
  BY <1>1 DEF ChildInv
<1>3. /\ in \in DOMAIN child /\ child[in] = <<gen, "stdin", "read">>
      /\ out \in DOMAIN child /\ child[out] = <<gen, "stdout", "write">>
      /\ err \in DOMAIN child /\ child[err] = <<gen, "stderr", "write">>
  BY <1>2 DEF Pipes, Plumbing!Pipes, Sides, Plumbing!Sides
<1>4. N = {pipes[p][s] : p \in Pipes, s \in Sides}
  BY DEF Plumbing!Numbers, Pipes, Sides
<1>5. /\ DOMAIN t0 = DOMAIN child \cup {0} /\ t0[0] = child[in]
      /\ \A f \in DOMAIN child : f # 0 => t0[f] = child[f]
  BY DEF Plumbing!Dup2, Plumbing!Put
<1> HIDE DEF in, out, err, N, t0
<1>6. /\ DOMAIN t1 = DOMAIN t0 \cup {1} /\ t1[1] = t0[out]
      /\ \A f \in DOMAIN t0 : f # 1 => t1[f] = t0[f]
  BY DEF Plumbing!Dup2, Plumbing!Put
<1> HIDE DEF t1
<1>7. /\ DOMAIN t2 = DOMAIN t1 \cup {2} /\ t2[2] = t1[err]
      /\ \A f \in DOMAIN t1 : f # 2 => t2[f] = t1[f]
  BY DEF Plumbing!Dup2, Plumbing!Put
<1> HIDE DEF t2
<1>8. /\ DOMAIN child' = DOMAIN t2 \ N
      /\ \A f \in DOMAIN t2 \ N : child'[f] = t2[f]
  <2>1. /\ DOMAIN Plumbing!Close(t2, N) = DOMAIN t2 \ N
        /\ \A f \in DOMAIN t2 \ N : Plumbing!Close(t2, N)[f] = t2[f]
    BY CloseLemma
  <2> QED
    BY <1>1, <2>1
<1>9. ParentInv'
  BY <1>1 DEF ParentInv, PipeTypes, OwnFiles, HandlersLive, HeldLive, PipesLive, AllKnown
<1> DEFINE ends == {<<gen, p, Plumbing!ChildSide(p)>> : p \in Pipes}
<1>10. t2[0] \in ends /\ t2[1] \in ends /\ t2[2] \in ends
  <2>1. child[in] \in ends /\ child[out] \in ends /\ child[err] \in ends
    BY <1>3 DEF Pipes, Plumbing!Pipes, Plumbing!ChildSide
  <2>2. t0[0] = child[in] /\ (out = 0 \/ t0[out] = child[out]) /\ (err = 0 \/ t0[err] = child[err])
    BY <1>3, <1>5
  <2>3. t0[0] \in ends /\ t0[out] \in ends /\ t0[err] \in ends
    BY <2>1, <2>2
  <2>4. t1[0] \in ends /\ t1[1] \in ends /\ t1[err] \in ends
    BY <1>3, <1>5, <1>6, <2>3
  <2> QED
    BY <1>5, <1>6, <1>7, <2>4
<1>11. ASSUME NEW f \in DOMAIN child', NEW p \in Pipes
       PROVE  child'[f] # <<gen, p, Plumbing!ParentSide(p)>>
  <2>1. Plumbing!ParentSide(p) \in Sides /\ Plumbing!ParentSide(p) # Plumbing!ChildSide(p)
    BY DEF Plumbing!ParentSide, Plumbing!ChildSide, Sides, Plumbing!Sides
  <2>2. f \in DOMAIN t2 /\ f \notin N /\ child'[f] = t2[f]
    BY <1>8, <1>11
  <2>3. CASE f \in {0, 1, 2}
    BY <1>10, <2>1, <2>2, <2>3
  <2>4. CASE f \notin {0, 1, 2}
    <3>1. f \in DOMAIN child /\ t2[f] = child[f]
      BY <1>5, <1>6, <1>7, <2>2, <2>4
    <3>2. pipes[p][Plumbing!ParentSide(p)] \in N
      BY <1>4, <2>1
    <3> QED
      BY <1>2, <2>1, <2>2, <3>1, <3>2
  <2> QED
    BY <2>3, <2>4
<1>12. StdioRedirected'
  <2>1. ASSUME {0, 1, 2} \subseteq start PROVE Plumbing!StdioIsPipes'
    <3>1. gen # 0
      BY <1>1 DEF ParentInv, PipeTypes
    <3>2. \A f \in {0, 1, 2} : f \notin N
      <4>1. \A f \in start : \A p \in Pipes : \A s \in Sides : child[f] # <<gen, p, s>>
        BY <1>2, <3>1 DEF Plumbing!File
      <4> QED
        BY <1>2, <1>4, <2>1, <4>1
    <3>3. in \in N /\ out \in N /\ err \in N
      BY <1>4 DEF in, out, err, Pipes, Plumbing!Pipes, Sides, Plumbing!Sides
    <3>4. t0[0] = child[in] /\ t0[out] = child[out] /\ t0[err] = child[err]
      BY <1>3, <1>5, <3>2, <3>3
    <3>5. t1[0] = child[in] /\ t1[1] = child[out] /\ t1[err] = child[err]
      BY <1>3, <1>5, <1>6, <3>2, <3>3, <3>4
    <3>6. t2[0] = child[in] /\ t2[1] = child[out] /\ t2[2] = child[err]
      BY <1>5, <1>6, <1>7, <3>5
    <3>7. {0, 1, 2} \subseteq DOMAIN child'
      BY <1>5, <1>6, <1>7, <1>8, <3>2
    <3> QED
      BY <1>1, <1>3, <1>8, <3>2, <3>6, <3>7 DEF Plumbing!StdioIsPipes
  <2> QED
    BY <1>1, <2>1 DEF StdioRedirected, Plumbing!StdioRedirected
<1>13. ChildInv'
  BY <1>1, <1>11, <1>12 DEF ChildInv
<1> QED
  BY <1>1, <1>9, <1>13

\* No step of the program, of adb or of the system breaks the invariant.
LEMMA ProcessStepLemma == ProcessInv /\ [ProcessNext]_all => ProcessInv'
<1> SUFFICES ASSUME ProcessInv, [ProcessNext]_all PROVE ProcessInv'
  OBVIOUS
<1>1. IInv'
  BY ProcessStep, StepLemma DEF ProcessInv
<1>2. ParentInv /\ ChildInv /\ OneChild
  BY DEF ProcessInv
<1>3. CASE \E c \in Calls : Ask(c)
  <2>1. UNCHANGED <<descriptors, hasPid, os>> /\ stage = "idle"
    BY <1>3 DEF Ask, Call
  <2>2. OneChild'
    BY <1>2, <2>1 DEF OneChild, descriptors
  <2> QED
    BY <1>1, <1>2, <2>1, <2>2, DescriptorsStay DEF ProcessInv
<1>4. CASE BeginExec
  BY <1>1, <1>4, BeginExecLemma DEF ProcessInv
<1>5. CASE Fork
  BY <1>1, <1>5, ForkLemma DEF ProcessInv
<1>6. CASE Plumb
  <2>1. UNCHANGED vars
    BY <1>6 DEF Plumb
  <2>2. CASE Plumbing!OpenPipe
    <3>1. ParentInv' /\ ChildInv' /\ stage = "open" /\ cpc' = cpc
      BY <2>2, OpenPipeLemma DEF Plumbing!OpenPipe
    <3>2. OneChild'
      BY <1>2, <2>1, <3>1 DEF OneChild, vars
    <3> QED
      BY <1>1, <3>1, <3>2 DEF ProcessInv
  <2>3. CASE Plumbing!ParentCloses
    <3>1. ParentInv' /\ UNCHANGED <<start, gen, pipes, child, cpc>> /\ stage' = "attach"
      BY <2>3, ParentClosesLemma
    <3>2. OneChild'
      BY <1>2, <2>1, <3>1 DEF OneChild, vars
    <3> QED
      BY <1>1, <1>2, <3>1, <3>2, ChildUnaffected DEF ProcessInv
  <2>4. CASE Plumbing!Attach
    <3>1. ParentInv' /\ UNCHANGED <<start, gen, pipes, child, cpc>> /\ stage' = "idle"
      BY <2>4, AttachLemma
    <3>2. OneChild'
      BY <1>2, <2>1, <3>1 DEF OneChild, vars
    <3> QED
      BY <1>1, <1>2, <3>1, <3>2, ChildUnaffected DEF ProcessInv
  <2>5. CASE Plumbing!ChildPrepares
    <3>1. ParentInv' /\ ChildInv' /\ cpc # "none" /\ cpc' # "none" /\ stage' = stage
      BY <2>5, ChildPreparesLemma
    <3>2. OneChild'
      BY <1>2, <2>1, <3>1 DEF OneChild, vars
    <3> QED
      BY <1>1, <3>1, <3>2 DEF ProcessInv
  <2> QED
    BY <1>6, <2>2, <2>3, <2>4, <2>5 DEF Plumb
<1>7. CASE CleanupChildProc
  <2>1. /\ ParentInv' /\ UNCHANGED <<start, gen, stage, pipes, child, cpc>> /\ stage = "idle"
    BY <1>7, CleanupChildProcLemma DEF CleanupChildProc, Plumbing!CleanupChildProc
  <2>2. UNCHANGED os
    BY <1>7 DEF CleanupChildProc, Call, vars
  <2>3. OneChild'
    BY <1>2, <2>1, <2>2 DEF OneChild
  <2> QED
    BY <1>1, <1>2, <2>1, <2>3, ChildUnaffected DEF ProcessInv
<1>12. CASE Polls
  <2>1. ParentInv' /\ UNCHANGED <<start, gen, stage, pipes, child, cpc>> /\ UNCHANGED vars
    BY <1>12, PollsLemma
  <2>2. OneChild'
    BY <1>2, <2>1 DEF OneChild, vars
  <2> QED
    BY <1>1, <1>2, <2>1, <2>2, ChildUnaffected DEF ProcessInv
<1>8. CASE Waits
  <2>1. UNCHANGED descriptors /\ InWait
    BY <1>8 DEF Waits
  <2>2. pc # "idle" /\ (os' = "running" <=> os = "running")
    BY <2>1 DEF InWait, Kill, Try, Sleep, KillHard, FinalWait, Return, WaitPid
  <2>3. OneChild'
    BY <1>2, <2>1, <2>2 DEF OneChild, descriptors
  <2> QED
    BY <1>1, <1>2, <2>1, <2>3, DescriptorsStay DEF ProcessInv
<1>9. CASE Ends
  <2>1. /\ os = "running" /\ os' # "running" /\ cpc' = "none"
        /\ UNCHANGED <<pc, hasPid>> /\ UNCHANGED <<parent, start, gen, stage, pipes, fds, handlers, held>>
    BY <1>9 DEF Ends, ChildExits, Plumbing!ChildEnds
  <2>2. ParentInv'
    BY <1>2, <2>1 DEF ParentInv, PipeTypes, OwnFiles, HandlersLive, HeldLive, PipesLive, AllKnown
  <2>3. ChildInv'
    BY <2>1 DEF ChildInv, StdioRedirected, Plumbing!StdioRedirected, Plumbing!StdioIsPipes
  <2>4. OneChild'
    BY <1>2, <2>1 DEF OneChild
  <2> QED
    BY <1>1, <2>2, <2>3, <2>4 DEF ProcessInv
<1>10. CASE Reused
  <2>1. UNCHANGED descriptors /\ UNCHANGED <<pc, hasPid>> /\ os # "running" /\ os' # "running"
    BY <1>10 DEF Reused, PidReused
  <2>2. OneChild'
    BY <1>2, <2>1 DEF OneChild, descriptors
  <2> QED
    BY <1>1, <1>2, <2>1, <2>2, DescriptorsStay DEF ProcessInv
<1>11. CASE UNCHANGED all
  <2>1. UNCHANGED descriptors /\ UNCHANGED vars
    BY <1>11 DEF all
  <2>2. OneChild'
    BY <1>2, <2>1 DEF OneChild, descriptors, vars
  <2> QED
    BY <1>1, <1>2, <2>1, <2>2, DescriptorsStay DEF ProcessInv
<1> QED
  BY <1>3, <1>4, <1>5, <1>6, <1>7, <1>8, <1>9, <1>10, <1>11, <1>12 DEF ProcessNext

\* ProcessInv is an invariant of ChildProcess as a whole.
THEOREM ProcessInductive == ProcessSpec => []ProcessInv
BY ProcessInitLemma, ProcessStepLemma, PTL DEF ProcessSpec

-----------------------------------------------------------------------------
(* What follows for the callers *)

\* Whichever call of exec fails, and at whichever step: between the calls the
\* program holds what it was started with and the descriptors of the handlers,
\* the one whose callback is running among them.
THEOREM NoDescriptorLeaks == ProcessSpec => []NothingLeaks
<1>1. ASSUME ProcessInv PROVE NothingLeaks
  <2> SUFFICES ASSUME stage = "idle"
               PROVE  DOMAIN parent = start \cup ((Plumbing!Range(handlers) \cup {held}) \ {None})
    BY DEF NothingLeaks, Plumbing!NothingLeaks, None
  <2>1. PipeTypes /\ OwnFiles /\ HandlersLive /\ HeldLive /\ AllKnown
    BY <1>1 DEF ProcessInv, ParentInv
  <2>2. Plumbing!Range(handlers) = {handlers[p] : p \in Pipes}
    BY <2>1 DEF Plumbing!Range, PipeTypes
  <2>3. ASSUME NEW f \in DOMAIN parent
        PROVE  f \in start \/ f \in (Plumbing!Range(handlers) \cup {held}) \ {None}
    <3>1. f # None
      BY <2>1, <2>3, PipesAssumption DEF PipeTypes, None, Plumbing!None
    <3> QED
      BY <2>1, <2>2, <2>3, <3>1 DEF AllKnown
  <2>4. /\ \A p \in Pipes : handlers[p] = None \/ handlers[p] \in DOMAIN parent
        /\ held = None \/ held \in DOMAIN parent
    BY <2>1 DEF HandlersLive, HeldLive
  <2>5. start \subseteq DOMAIN parent
    BY <2>1 DEF OwnFiles
  <2> QED
    BY <2>2, <2>3, <2>4, <2>5
<1> QED
  BY <1>1, ProcessInductive, PTL

\* A handler's descriptor is its pipe's, and all three lead to one adb, after
\* any number of failures and restarts.
THEOREM HandlersKeepTheirEnds == ProcessSpec => []HandlersOwnTheirEnds
<1>1. ASSUME ProcessInv PROVE HandlersOwnTheirEnds
  <2>1. HandlersLive
    BY <1>1 DEF ProcessInv, ParentInv
  <2>2. "stdin" \in Pipes
    BY DEF Pipes, Plumbing!Pipes
  <2> QED
    BY <2>1, <2>2
       DEF HandlersLive, HandlersOwnTheirEnds, Plumbing!HandlersOwnTheirEnds, Pipes, None
<1> QED
  BY <1>1, ProcessInductive, PTL

\* No end is open on the wrong side of fork(): the end of the one's stream is
\* seen by the other.
THEOREM StreamsEnd == ProcessSpec => []EndsAreSeen
<1>1. ASSUME ProcessInv PROVE EndsAreSeen
  <2>1. PipeTypes /\ OwnFiles /\ HandlersLive /\ HeldLive /\ AllKnown /\ ChildInv
    BY <1>1 DEF ProcessInv, ParentInv
  <2>2. ASSUME stage = "idle", NEW f \in DOMAIN parent, NEW p \in Pipes
        PROVE  parent[f] # <<gen, p, Plumbing!ChildSide(p)>>
    <3>1. CASE f \in start
      BY <2>1, <2>2, <3>1 DEF OwnFiles, Plumbing!File, Pipes, Plumbing!Pipes
    <3>2. ASSUME NEW r \in Pipes, f = handlers[r]
          PROVE  parent[f] # <<gen, p, Plumbing!ChildSide(p)>>
      <4>1. handlers[r] # None
        BY <2>1, <2>2, <3>2, PipesAssumption DEF PipeTypes, None, Plumbing!None
      <4>2. \E g \in 1 .. gen : parent[f] = <<g, r, Plumbing!ParentSide(r)>>
        BY <2>1, <3>2, <4>1 DEF HandlersLive
      <4> QED
        BY <4>2 DEF Plumbing!ParentSide, Plumbing!ChildSide
    <3>3. CASE f = held
      <4>1. \E g \in 1 .. gen : \E r \in Pipes : parent[f] = <<g, r, Plumbing!ParentSide(r)>>
        BY <2>1, <2>2, <3>3, PipesAssumption DEF HeldLive, PipeTypes, None, Plumbing!None
      <4> QED
        BY <4>1 DEF Plumbing!ParentSide, Plumbing!ChildSide
    <3> QED
      BY <2>1, <2>2, <3>1, <3>2, <3>3 DEF AllKnown
  <2>3. cpc = "adb" => \A f \in DOMAIN child : \A p \in Pipes :
          child[f] # <<gen, p, Plumbing!ParentSide(p)>>
    BY <2>1 DEF ChildInv
  <2> QED
    BY <2>2, <2>3 DEF EndsAreSeen, Plumbing!EndsAreSeen, Pipes
<1> QED
  BY <1>1, ProcessInductive, PTL

\* adb's standard streams are its pipes in every run that starts with its own.
THEOREM AdbGetsItsPipes == ProcessSpec => []StdioRedirected
<1>1. ProcessInv => StdioRedirected
  BY DEF ProcessInv, ChildInv
<1> QED
  BY <1>1, ProcessInductive, PTL

\* What wait() promises holds of it as part of the whole.
THEOREM ProcessWaits == ProcessSpec => [](NoChildLeft /\ NeverHitsStranger /\ FinalWaitEnds)
<1>1. ProcessInv => NoChildLeft /\ NeverHitsStranger /\ FinalWaitEnds
  BY DEF ProcessInv, IInv
<1> QED
  BY <1>1, ProcessInductive, PTL
=============================================================================
