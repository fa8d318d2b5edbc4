------------------------------ MODULE ExecPipes ------------------------------
(***************************************************************************)
(* The descriptors of ChildProcess::exec and of the handlers that take     *)
(* them over: three pipes between the program and adb, made, inherited,    *)
(* moved by dup2, closed, and closed again by mistake if a number was      *)
(* given out twice.  The parent has one thread; the child has a table of   *)
(* its own from fork() on.  When the child is waited for and when it ends  *)
(* is for AdbProcess to say, which puts these actions together with those  *)
(* of ChildProcess.                                                        *)
(***************************************************************************)
EXTENDS Integers, FiniteSetsExt, Functions

CONSTANTS
  StartSets,  \* the sets of descriptors the program may be started with
  MaxFd,      \* bound: the largest descriptor the system gives out
  MaxExecs    \* bound: calls of exec

Pipes == {"stdin", "stdout", "stderr"}
PipeOrder == <<"stdin", "stdout", "stderr">>
Sides == {"read", "write"}
None == -1
File == <<0, "file", "file">>      \* what was open at start

\* The ends of the child and of the parent.
ChildSide(p)  == IF p = "stdin" THEN "read" ELSE "write"
ParentSide(p) == IF p = "stdin" THEN "write" ELSE "read"

VARIABLES
  parent,    \* the program's descriptors: number to end of a pipe
  start,     \* the numbers that were open at start
  gen,       \* calls of exec
  pc,        \* idle, open, parent or attach
  pipes,     \* exec's local pipes: numbers of both sides
  fds,       \* m_fdStdin, m_fdStdout, m_fdStderr
  handlers,  \* m_fd of m_adbStdin, m_adbStdout, m_adbStderr
  held,      \* m_fd of the handler in whose callback the program is
  child,     \* the child's descriptors
  cpc        \* none, forked or adb

Init ==
  /\ start \in StartSets
  /\ parent = [f \in start |-> File]
  /\ gen = 0 /\ pc = "idle" /\ pipes = << >>
  /\ fds = [p \in Pipes |-> None] /\ handlers = [p \in Pipes |-> None]
  /\ held = None
  /\ child = << >> /\ cpc = "none"

-----------------------------------------------------------------------------

Close(t, numbers) == Restrict(t, DOMAIN t \ numbers)

\* t with v under the key k.
Put(t, k, v) == [x \in DOMAIN t \cup {k} |-> IF x = k THEN v ELSE t[x]]

\* pipe() gives out the lowest two numbers that are free.
Free(t) == (0 .. MaxFd) \ DOMAIN t
PipeNumbers(t) ==
  LET low == Min(Free(t))
  IN  [s \in Sides |-> IF s = "read" THEN low ELSE Min(Free(t) \ {low})]

Numbers(of) == {pipes[p][s] : p \in of, s \in Sides}

\* Mutant of Made: pcleanup is one too small.
MadeButLast == {PipeOrder[n] : n \in 1 .. Cardinality(DOMAIN pipes) - 1}

\* What is closed when exec fails.
Made == DOMAIN pipes

\* Mutant of Stale: the condition of cleanup() the right way round.
Valid == {p \in Pipes : fds[p] >= 0}

\* cleanup() closes the descriptors that are negative: it closes nothing.
Stale == {p \in Pipes : fds[p] < 0}

CleanupFds(t) ==
  /\ parent' = Close(t, {fds[p] : p \in Stale})
  /\ fds' = [p \in Pipes |-> IF p \in Stale THEN None ELSE fds[p]]

\* initAdb and exec begin.
BeginExec ==
  /\ pc = "idle" /\ gen < MaxExecs
  /\ pc' = "open" /\ gen' = gen + 1
  /\ pipes' = << >>
  /\ CleanupFds(parent)
  /\ UNCHANGED <<start, handlers, held, child, cpc>>

\* exec fails, having closed the pipes that were made.
ExecFails ==
  /\ pc' = "idle"
  /\ parent' = Close(parent, Numbers(Made))
  /\ UNCHANGED <<start, gen, pipes, fds, handlers, held, child, cpc>>

\* openPipe for the next of the three; a pipe that fcntl refuses is closed at once.
OpenPipe ==
  /\ pc = "open" /\ DOMAIN pipes # Pipes
  /\ \/ ExecFails
     \/ /\ Cardinality(Free(parent)) >= 2
        /\ LET n == Min({k \in DOMAIN PipeOrder : PipeOrder[k] \notin DOMAIN pipes})
               p == PipeOrder[n]
               new == PipeNumbers(parent)
           IN  /\ pipes' = Put(pipes, p, new)
               /\ parent' = Put(Put(parent, new["read"], <<gen, p, "read">>),
                                new["write"], <<gen, p, "write">>)
        /\ UNCHANGED <<start, gen, pc, fds, handlers, held, child, cpc>>

Fork ==
  /\ pc = "open" /\ DOMAIN pipes = Pipes
  /\ \/ ExecFails
     \/ /\ child' = parent /\ cpc' = "forked"
        /\ pc' = "parent"
        /\ UNCHANGED <<parent, start, gen, pipes, fds, handlers, held>>

\* The parent closes the child's sides and keeps its own.
ParentCloses ==
  /\ pc = "parent"
  /\ parent' = Close(parent, {pipes[p][ChildSide(p)] : p \in Pipes})
  /\ fds' = [p \in Pipes |-> pipes[p][ParentSide(p)]]
  /\ pc' = "attach"
  /\ UNCHANGED <<start, gen, pipes, handlers, held, child, cpc>>

\* The descriptors of the handlers that go with m_adbStdin, m_adbStdout and
\* m_adbStderr: not that of the handler in its callback, which pollHandlers has
\* a pointer to until the callback returns.
Dropped == Range(handlers) \ {held}

\* The new handlers replace the old, whose destructors close what they had.
Attach ==
  /\ pc = "attach"
  /\ handlers' = fds
  /\ parent' = Close(parent, Dropped)
  /\ pc' = "idle"
  /\ UNCHANGED <<start, gen, pipes, fds, held, child, cpc>>

\* cleanupChildProc: the handlers go, then cleanup(true) begins.
CleanupChildProc ==
  /\ pc = "idle"
  /\ handlers' = [p \in Pipes |-> None]
  /\ CleanupFds(Close(parent, Dropped))
  /\ UNCHANGED <<start, gen, pc, pipes, held, child, cpc>>

\* pollHandlers calls a handler back, for an event or for its timer.
CallBack ==
  /\ pc = "idle" /\ held = None
  /\ held' \in Range(handlers) \ {None}
  /\ UNCHANGED <<parent, start, gen, pc, pipes, fds, handlers, child, cpc>>

\* It returns: the handler goes if it is no longer one of the controller's.
CallBackReturns ==
  /\ pc = "idle" /\ held # None
  /\ parent' = Close(parent, {held} \ Range(handlers))
  /\ held' = None
  /\ UNCHANGED <<start, gen, pc, pipes, fds, handlers, child, cpc>>

-----------------------------------------------------------------------------
(* The child *)

Dup2(t, from, to) == Put(t, to, t[from])

\* The three calls of dup2.  The child has exec's local pipes from fork().
Redirected ==
  Dup2(Dup2(Dup2(child, pipes["stdin"]["read"], 0), pipes["stdout"]["write"], 1),
       pipes["stderr"]["write"], 2)

\* Mutants of Prepared: stdout for stderr; the pipes' own numbers stay open.
PreparedMixed == Close(Dup2(Redirected, pipes["stdout"]["write"], 2), Numbers(Pipes))
PreparedOpen == Redirected

\* Then all six numbers of the pipes are closed.
Prepared == Close(Redirected, Numbers(Pipes))

ChildPrepares ==
  /\ cpc = "forked"
  /\ child' = Prepared /\ cpc' = "adb"
  /\ UNCHANGED <<parent, start, gen, pc, pipes, fds, handlers, held>>

\* It ends: dup2 or execvp fails, or adb exits.
ChildEnds ==
  /\ cpc # "none"
  /\ child' = << >> /\ cpc' = "none"
  /\ UNCHANGED <<parent, start, gen, pc, pipes, fds, handlers, held>>

-----------------------------------------------------------------------------
(* Correctness *)

\* Whichever pipe, fcntl or fork fails, between the calls of exec the program
\* has the descriptors it started with and those of its handlers, no more; in a
\* callback also that of the handler called back.
NothingLeaks ==
  pc = "idle" => DOMAIN parent = start \cup ((Range(handlers) \cup {held}) \ {None})

\* Each handler's number stands for its own pipe, and all three for pipes to
\* the same adb: no number was closed under it and given out again.
HandlersOwnTheirEnds ==
  pc = "idle" /\ handlers["stdin"] # None =>
    \E g \in 1 .. gen : \A p \in Pipes :
      handlers[p] \in DOMAIN parent /\ parent[handlers[p]] = <<g, p, ParentSide(p)>>

\* Neither keeps an end of the other: adb sees the end of its stdin when the
\* handler goes, and the program the end of the output when adb does.
EndsAreSeen ==
  /\ pc = "idle" => \A f \in DOMAIN parent : \A p \in Pipes :
       parent[f] # <<gen, p, ChildSide(p)>>
  /\ cpc = "adb" => \A f \in DOMAIN child : \A p \in Pipes :
       child[f] # <<gen, p, ParentSide(p)>>

\* adb's descriptors 0, 1 and 2 are its ends of the three pipes.  Not so if
\* the program was started without one of its own: pipe() then gives out that
\* number, and the child closes it with the others after dup2.
StdioIsPipes ==
  cpc = "adb" => /\ {0, 1, 2} \subseteq DOMAIN child
                 /\ child[0] = <<gen, "stdin", "read">>
                 /\ child[1] = <<gen, "stdout", "write">>
                 /\ child[2] = <<gen, "stderr", "write">>

\* They are if the program was started with descriptors 0, 1 and 2.
StdioRedirected == {0, 1, 2} \subseteq start => StdioIsPipes
=============================================================================
