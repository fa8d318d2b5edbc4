---------------------------- MODULE ChildProcess ----------------------------
(***************************************************************************)
(* ChildProcess::wait against the operating system: asking a child to end, *)
(* polling for its end for a while, killing it, and reaping it.            *)
(*                                                                         *)
(* The process id is a number that the system may give to another process  *)
(* once the child is gone; "os" is what that number stands for.            *)
(***************************************************************************)
EXTENDS Naturals

CONSTANTS
  Tries,  \* how often waitpid is tried before the child is killed
  Calls   \* <<force_stop, signal>> that callers pass; "none" is signal 0

Signals == {"none", "TERM", "KILL"}

\* A caller that asks for SIGKILL without force_stop would have it neither
\* sent nor caught up on, and wait for ever; nobody does.
ASSUME CallsAssumption ==
  /\ Tries \in Nat \ {0}
  /\ Calls \subseteq BOOLEAN \X Signals
  /\ <<FALSE, "KILL">> \notin Calls

VARIABLES
  pc,        \* idle, kill, try, sleep, decide or final: the place in wait()
  signal,    \* the parameter
  tries,     \* the loop counter
  ret,       \* the last waitpid: "alive" (0), "pid" or "error"
  found,     \* process_found
  hasPid,    \* m_pid > 0
  os,        \* the number m_pid: "running", "zombie", "free" or "stranger"
  killed,    \* SIGKILL has been sent to the child
  ignored,   \* SIGCHLD is ignored (inherited): no zombies
  hitStranger \* a signal went to a process that is not the child

vars == <<pc, signal, tries, ret, found, hasPid, os, killed, ignored, hitStranger>>

Init ==
  /\ pc = "idle" /\ signal = "none" /\ tries = 0 /\ ret = "alive" /\ found = TRUE
  /\ hasPid = FALSE /\ os = "free" /\ killed = FALSE
  /\ ignored \in BOOLEAN
  /\ hitStranger = FALSE

\* exec(): a new child under a new number.
Exec ==
  /\ pc = "idle" /\ ~hasPid
  /\ hasPid' = TRUE /\ os' = "running" /\ killed' = FALSE
  /\ UNCHANGED <<pc, signal, tries, ret, found, ignored, hitStranger>>

\* cleanup(), which waits only if there is a child, and wait() up to its loop.
Call(force, sig) ==
  /\ pc = "idle" /\ hasPid
  /\ pc' = IF force THEN "kill" ELSE "try"
  /\ signal' = sig /\ tries' = 0 /\ ret' = "alive" /\ found' = TRUE
  /\ UNCHANGED <<hasPid, os, killed, ignored, hitStranger>>

\* kill(2): a zombie takes a signal without effect.
Send(sig) ==
  /\ killed' = (killed \/ (sig = "KILL" /\ os = "running"))
  /\ hitStranger' = (hitStranger \/ os = "stranger")

Kill ==
  /\ pc = "kill"
  /\ LET sig == IF signal = "none" THEN "TERM" ELSE signal
     IN  Send(sig) /\ signal' = sig
  /\ found' = (os # "free")
  /\ pc' = "try"
  /\ UNCHANGED <<tries, ret, hasPid, os, ignored>>

\* waitpid(2) that does not block, or that need not.
WaitPid ==
  /\ ret' = CASE os = "running" -> "alive" [] os = "zombie" -> "pid" [] OTHER -> "error"
  /\ os' = IF os = "zombie" THEN "free" ELSE os

Try ==
  /\ pc = "try"
  /\ WaitPid
  /\ pc' = IF os = "running" THEN "sleep" ELSE "decide"
  /\ UNCHANGED <<signal, tries, found, hasPid, killed, ignored, hitStranger>>

Sleep ==
  /\ pc = "sleep"
  /\ tries' = tries + 1
  /\ pc' = IF tries' < Tries THEN "try" ELSE "decide"
  /\ UNCHANGED <<signal, ret, found, hasPid, os, killed, ignored, hitStranger>>

\* Mutant of KillHard: the test of the signal is the wrong way round.
KillHardReversed ==
  /\ pc = "decide" /\ ret = "alive" /\ found
  /\ IF signal = "KILL" THEN Send("KILL") ELSE UNCHANGED <<killed, hitStranger>>
  /\ pc' = "final"
  /\ UNCHANGED <<signal, tries, ret, found, hasPid, os, ignored>>

\* The child has not ended: kill it, unless that was the signal already sent.
KillHard ==
  /\ pc = "decide" /\ ret = "alive" /\ found
  /\ IF signal # "KILL" THEN Send("KILL") ELSE UNCHANGED <<killed, hitStranger>>
  /\ pc' = "final"
  /\ UNCHANGED <<signal, tries, ret, found, hasPid, os, ignored>>

\* Mutant of FinalWait: WNOHANG once more.
FinalWaitNoHang ==
  /\ pc = "final"
  /\ WaitPid
  /\ pc' = "idle" /\ hasPid' = FALSE
  /\ UNCHANGED <<signal, tries, found, killed, ignored, hitStranger>>

\* waitpid that blocks as long as the child runs.
FinalWait ==
  /\ pc = "final" /\ os # "running"
  /\ WaitPid
  /\ pc' = "idle" /\ hasPid' = FALSE
  /\ UNCHANGED <<signal, tries, found, killed, ignored, hitStranger>>

\* Mutant of Return: m_pid is not reset.
ReturnKeepsPid ==
  /\ pc = "decide" /\ ~(ret = "alive" /\ found)
  /\ pc' = "idle"
  /\ UNCHANGED <<signal, tries, ret, found, hasPid, os, killed, ignored, hitStranger>>

Return ==
  /\ pc = "decide" /\ ~(ret = "alive" /\ found)
  /\ pc' = "idle" /\ hasPid' = FALSE
  /\ UNCHANGED <<signal, tries, ret, found, os, killed, ignored, hitStranger>>

-----------------------------------------------------------------------------
(* The system *)

\* The child ends: by itself, by SIGTERM, by SIGKILL.
ChildExits ==
  /\ os = "running"
  /\ os' = IF ignored THEN "free" ELSE "zombie"
  /\ UNCHANGED <<pc, signal, tries, ret, found, hasPid, killed, ignored, hitStranger>>

PidReused ==
  /\ os = "free"
  /\ os' = "stranger"
  /\ UNCHANGED <<pc, signal, tries, ret, found, hasPid, killed, ignored, hitStranger>>

InWait == Kill \/ Try \/ Sleep \/ KillHard \/ FinalWait \/ Return

Next == Exec \/ (\E c \in Calls : Call(c[1], c[2])) \/ InWait \/ ChildExits \/ PidReused

Spec == Init /\ [][Next]_vars

\* The caller's thread runs, and SIGKILL does its work.  Nothing is said of a
\* child that got SIGTERM or no signal: it may run for ever.
FairSpec == Spec /\ WF_vars(InWait) /\ WF_vars(ChildExits /\ killed)

-----------------------------------------------------------------------------
(* Correctness *)

\* Every variable has its type.
TypeOK ==
  /\ pc \in {"idle", "kill", "try", "sleep", "decide", "final"}
  /\ signal \in Signals
  /\ tries \in 0 .. Tries
  /\ ret \in {"alive", "pid", "error"}
  /\ os \in {"running", "zombie", "free", "stranger"}
  /\ found \in BOOLEAN /\ hasPid \in BOOLEAN /\ killed \in BOOLEAN
  /\ ignored \in BOOLEAN /\ hitStranger \in BOOLEAN

\* When wait() has returned, the child is gone and no zombie stays, with
\* SIGCHLD ignored as well.  AdbController::cleanup relies on this.
NoChildLeft == pc = "idle" /\ ~hasPid => os \in {"free", "stranger"}

\* No signal reaches a process that has got the child's number after it,
\* as long as the child stays a zombie until it is reaped.
NeverHitsStranger == ~ignored => ~hitStranger

\* The blocking waitpid is entered only for a child that has SIGKILL coming,
\* or that has ended: it cannot hang on a child that ignores SIGTERM.
FinalWaitEnds == pc = "final" => os # "running" \/ killed

\* wait() returns, whether or not the child ever ends by itself.
WaitReturns == pc # "idle" ~> pc = "idle"
=============================================================================
