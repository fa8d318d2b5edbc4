----------------------------- MODULE AdbProcess -----------------------------
(***************************************************************************)
(* ChildProcess as a whole: the process of module ChildProcess with the    *)
(* descriptors of module ExecPipes.  exec makes both, the end of adb takes *)
(* its table with it, and no exec begins before the old adb is waited for. *)
(***************************************************************************)
EXTENDS ChildProcess

CONSTANTS
  StartSets,  \* the sets of descriptors the program may be started with
  MaxFd,      \* bound: the largest descriptor the system gives out
  MaxExecs    \* bound: calls of exec

ASSUME PipesAssumption ==
  /\ MaxFd \in Nat /\ MaxExecs \in Nat
  /\ <<TRUE, "none">> \in Calls  \* what cleanupChildProc passes
  /\ \A s \in StartSets : s \subseteq 0 .. MaxFd

VARIABLES parent, start, gen, stage, pipes, fds, handlers, held, child, cpc

descriptors == <<parent, start, gen, stage, pipes, fds, handlers, held, child, cpc>>

Plumbing == INSTANCE ExecPipes WITH pc <- stage

ProcessInit == Init /\ Plumbing!Init

\* cleanup() and wait() are called when exec is not.
Ask(c) == stage = "idle" /\ Call(c[1], c[2]) /\ UNCHANGED descriptors

\* The wait in the first line of initAdb is over.
BeginExec == pc = "idle" /\ ~hasPid /\ Plumbing!BeginExec /\ UNCHANGED vars

Fork == Plumbing!Fork /\ IF cpc' = "forked" THEN Exec ELSE UNCHANGED vars

Plumb ==
  /\ Plumbing!OpenPipe \/ Plumbing!ParentCloses \/ Plumbing!Attach \/ Plumbing!ChildPrepares
  /\ UNCHANGED vars

CleanupChildProc ==
  /\ pc = "idle" /\ Plumbing!CleanupChildProc
  /\ IF hasPid THEN Call(TRUE, "none") ELSE UNCHANGED vars

\* Callbacks begin and end when the thread is in none of these calls.
Polls ==
  /\ pc = "idle" /\ (Plumbing!CallBack \/ Plumbing!CallBackReturns)
  /\ UNCHANGED vars

Waits == InWait /\ UNCHANGED descriptors
Ends  == ChildExits /\ Plumbing!ChildEnds
Reused == PidReused /\ UNCHANGED descriptors

ProcessNext ==
  \/ \E c \in Calls : Ask(c)
  \/ BeginExec \/ Fork \/ Plumb \/ CleanupChildProc \/ Polls \/ Waits \/ Ends \/ Reused

all == <<vars, descriptors>>

\* As in ChildProcess: the caller's thread runs, and SIGKILL does its work.
ProcessSpec == ProcessInit /\ [][ProcessNext]_all /\ WF_all(Waits) /\ WF_all(Ends /\ killed)

-----------------------------------------------------------------------------
(* Correctness: the properties of ChildProcess, and those of ExecPipes. *)

\* Whatever fails, the program keeps no descriptor but its handlers' and,
\* until a callback returns, that of the handler called back.
NothingLeaks == Plumbing!NothingLeaks

\* No number is closed under a handler, by a destructor or by cleanup().
HandlersOwnTheirEnds == Plumbing!HandlersOwnTheirEnds

\* adb and the program see the end of each other's streams.
EndsAreSeen == Plumbing!EndsAreSeen

\* adb's standard streams are its pipes, if the program had its own.
StdioRedirected == Plumbing!StdioRedirected
=============================================================================
