--------------------------- MODULE AdbController ---------------------------
(***************************************************************************)
(* The host program: main(), AdbController with its script of two tasks,   *)
(* and the poll loop of FilePoller that drives them, against the adb       *)
(* processes it starts and the agent that answers through logcat.          *)
(*                                                                         *)
(* The program has one thread.  A callback runs to its end, through every  *)
(* call it makes (switchTask, the tasks, initAdb, ChildProcess::wait), so  *)
(* a callback is one step here and the C++ methods are operators on the    *)
(* controller's state, composed as the code composes them.  What is        *)
(* interleaved is what happens outside: the adb processes, their output,   *)
(* the clock, and all of these between two callbacks of one poll round.    *)
(*                                                                         *)
(* Each task starts adb at most once, so the adb process, its three file   *)
(* handlers and their ids in the poller are identified with the task that  *)
(* started them: ids given out by getNextSeq are fresh.                    *)
(***************************************************************************)
EXTENDS AdbTask, Naturals

CONSTANTS
  PipeCap,        \* bound: lines a pipe holds
  ReadMax,        \* lines that FHCommon::Read is sure to take if they are there
  SpawnOutcomes,  \* what initAdb may meet: "ok", "exec" or "register" fails
  ReadErrors,     \* may read() fail?
  PollErrors      \* may poll() fail?

ASSUME BoundsAssumption ==
  /\ PipeCap \in Nat \ {0}
  /\ ReadMax \in Nat \ {0}
  /\ "ok" \in SpawnOutcomes /\ SpawnOutcomes \subseteq {"ok", "exec", "register"}
  /\ ReadErrors \in BOOLEAN /\ PollErrors \in BOOLEAN

OutStreams == {"stdout", "stderr"}

VARIABLES
  mode,      \* RunMode: "connect" or "disconnect"
  pc,        \* where main() is: start, poll, dispatch, exit, exited
  ctl,       \* the controller, the poller's list and the adb processes
  polled,    \* the adb whose handlers the current poll round looked at
  revents,   \* pollfd.revents of its streams, cleared as they are handled
  pipe,      \* output of the current adb that the host has not read
  status,    \* exit status of main(), NoStatus before it returns
  answered,  \* the agent has written its answer for this run
  polledAnswer \* this round's poll saw the answer on an adb that is still up

vars == <<mode, pc, ctl, polled, revents, pipe, status, answered, polledAnswer>>

NoStatus == 2
ChildStates == {"unborn", "running", "zombie", "reaped"}

(***************************************************************************)
(* ctl.script  where m_script is: none, fresh, or the last task handed out *)
(* ctl.task    m_currTask            ctl.state  AdbTask::m_state           *)
(* ctl.fh      whose m_adbStdin, m_adbStdout, m_adbStderr we hold          *)
(* ctl.pid     whose m_adbProc.m_pid                                       *)
(* ctl.enabled, ctl.pollOut   handlers with flags fState, fPollOut set     *)
(* ctl.listed  keys of FilePoller::m_hndList (the handler may be gone)     *)
(* ctl.armed, ctl.due  handlers whose TaskTimerId runs / has run out       *)
(* ctl.child   the operating system's view of each adb                     *)
(* ctl.open    streams the current adb still holds its end of              *)
(* ctl.outcome how the script ended (what switchTask logs)                 *)
(* ctl.crashed a null pointer was followed, or SIGPIPE was raised          *)
(***************************************************************************)
CtlType ==
  [script : {"none", "fresh"} \cup Tasks, task : {"none"} \cup Tasks,
   state : {"Idle", "Running", "Stopped"},
   fh : {"none"} \cup Tasks, pid : {"none"} \cup Tasks,
   enabled : SUBSET Tasks, listed : SUBSET Tasks, pollOut : SUBSET Tasks,
   armed : SUBSET Tasks, due : SUBSET Tasks,
   child : [Tasks -> ChildStates], open : SUBSET Streams,
   outcome : {"none", "done", "failed"}, crashed : BOOLEAN]

InitCtl ==
  [script |-> "none", task |-> "none", state |-> "Idle",
   fh |-> "none", pid |-> "none",
   enabled |-> {}, listed |-> {}, pollOut |-> {}, armed |-> {}, due |-> {},
   child |-> [t \in Tasks |-> "unborn"], open |-> {},
   outcome |-> "none", crashed |-> FALSE]

Crash(c) == [c EXCEPT !.crashed = TRUE]

-----------------------------------------------------------------------------
(* AdbController's methods *)

\* ChildProcess::wait, with or without the signal: returns with adb reaped.
Reap(c) ==
  IF c.pid = "none" THEN c
  ELSE [c EXCEPT !.child[c.pid] = "reaped", !.pid = "none", !.open = {}]

\* The handlers m_adbStdin, m_adbStdout and m_adbStderr are destroyed, and
\* with them their flags and timers.
DropHandlers(c) ==
  [c EXCEPT !.enabled = @ \ {c.fh}, !.pollOut = @ \ {c.fh},
            !.armed = @ \ {c.fh}, !.due = @ \ {c.fh}, !.fh = "none"]

\* Mutant of CleanupChildProc: m_adbProc.cleanup(true) is forgotten.
CleanupHandlersOnly(c) == DropHandlers([c EXCEPT !.listed = @ \ {c.fh}])

CleanupChildProc(c) == Reap(DropHandlers([c EXCEPT !.listed = @ \ {c.fh}]))

Cleanup(c) ==
  CleanupChildProc([c EXCEPT !.task = "none", !.script = "none", !.state = "Idle"])

HasNext(c)  == c.script \in {"fresh", "launch"}
NextTask(c) == IF c.script = "fresh" THEN "launch" ELSE "logcat"

\* Mutant of Spawn: a new adb is started over the old one.
SpawnOverOld(c, t) ==
  [DropHandlers(c) EXCEPT !.child[t] = "running", !.pid = t, !.open = Streams, !.fh = t,
                          !.listed = @ \cup {t}, !.enabled = @ \cup {t}]

\* initAdb up to the registration; the old handlers, if any, are replaced.
Spawn(c, t) ==
  LET d == DropHandlers(Reap(c))
  IN  [d EXCEPT !.child[t] = "running", !.pid = t, !.open = Streams, !.fh = t,
                !.listed = @ \cup {t}, !.enabled = @ \cup {t}]

InitAdb(c, t, o) ==
  CASE o = "ok"       -> Spawn(c, t)
    [] o = "exec"     -> Reap(c)
    [] o = "register" -> [Cleanup(Spawn(c, t)) EXCEPT !.outcome = "failed"]

\* Mutants of StartTask: the timer is armed without a look at what startAdb
\* returned; no timer is armed.
StartTaskUnchecked(c, t, o) ==
  LET d == InitAdb([c EXCEPT !.script = t, !.task = t, !.state = "Idle"], t, o)
  IN  [d EXCEPT !.armed = @ \cup {d.fh}, !.state = IF t = "launch" THEN "Running" ELSE @]

StartTaskUntimed(c, t, o) ==
  LET d == InitAdb([c EXCEPT !.script = t, !.task = t, !.state = "Idle"], t, o)
  IN  [d EXCEPT !.state = IF t = "launch" /\ o = "ok" THEN "Running" ELSE @]

\* start() of both tasks: they go on if adb could not be started, and
\* AdbTaskRunLogcat never becomes Running.
LaunchStart(c, o) ==
  LET d == InitAdb(c, "launch", o)
  IN  IF o # "ok" THEN d ELSE [d EXCEPT !.armed = @ \cup {"launch"}, !.state = "Running"]

LogcatStart(c, o) ==
  LET d == InitAdb(c, "logcat", o)
  IN  IF o # "ok" THEN d ELSE [d EXCEPT !.armed = @ \cup {"logcat"}]

\* switchTask with a task that getNextTask() handed out.
StartTask(c, t, o) ==
  LET b == [c EXCEPT !.script = t, !.task = t, !.state = "Idle"]
  IN  IF t = "launch" THEN LaunchStart(b, o) ELSE LogcatStart(b, o)

\* timerCtl(stdin, TaskTimerId, false)
StopTimer(c) ==
  IF c.fh = "none" THEN Crash(c)
  ELSE [c EXCEPT !.armed = @ \ {c.fh}, !.due = @ \ {c.fh}]

\* Mutant of TaskCleanup: the timer is left running.
TaskCleanupTimed(c) ==
  IF c.state # "Running" THEN c
  ELSE [c EXCEPT !.state = "Stopped", !.pollOut = @ \cup ({c.fh} \cap Tasks)]

\* cleanup() of both tasks: queue Ctrl-C, stop the timer.
TaskCleanup(c) ==
  IF c.state # "Running" THEN c
  ELSE [StopTimer(c) EXCEPT !.state = "Stopped", !.pollOut = @ \cup ({c.fh} \cap Tasks)]

\* switchTask; o is what starting adb meets, should the next task do that.
SwitchTask(c, res, o) ==
  CASE res = "Continue" -> c
    [] res = "Fail"     -> [Cleanup(c) EXCEPT !.outcome = "failed"]
    [] res = "Next"     ->
         LET d == IF c.task = "none" THEN c ELSE TaskCleanup(c)
         IN  CASE d.script = "none" -> Crash(d)
               [] HasNext(d)        -> StartTask(d, NextTask(d), o)
               [] OTHER             -> [Cleanup(d) EXCEPT !.outcome = "done"]

-----------------------------------------------------------------------------
(* FHCommon's callbacks; each follows m_owner.m_currTask *)

\* Mutant of OnError: the launcher stays Running.
OnErrorStaysRunning(c, o) ==
  IF c.task = "launch" THEN SwitchTask(CleanupChildProc(StopTimer(c)), "Next", o)
  ELSE SwitchTask(c, "Fail", o)

\* AdbTaskLaunchActivity::onError, which takes the end of adb for success.
LaunchOnError(c) == [CleanupChildProc(StopTimer(c)) EXCEPT !.state = "Stopped"]

OnError(c, o) ==
  CASE c.task = "none"   -> Crash(c)
    [] c.task = "launch" -> SwitchTask(LaunchOnError(c), "Next", o)
    [] c.task = "logcat" -> SwitchTask(c, "Fail", o)

OnReadyToRead(c, s, lines, o) ==
  IF c.task = "none" THEN Crash(c)
  ELSE SwitchTask(c, OnDataReady(c.task, mode, s, lines), o)

\* Mutants of OnTimer: a timeout is taken for the end of the task, or ignored.
OnTimerNext(c, o) ==
  IF c.task = "none" THEN Crash(c) ELSE SwitchTask(TaskCleanup(c), "Next", o)

OnTimerContinue(c, o) == IF c.task = "none" THEN Crash(c) ELSE TaskCleanup(c)

OnTimer(c, o) ==
  IF c.task = "none" THEN Crash(c) ELSE SwitchTask(TaskCleanup(c), "Fail", o)

\* FHStdIn::onReadyToWrite: writing to an adb that is gone raises SIGPIPE.
OnReadyToWrite(c) ==
  IF "stdin" \notin c.open THEN Crash(c) ELSE [c EXCEPT !.pollOut = @ \ {c.fh}]

\* Mutant of Deliverable: whoever reads this stream now gets its events.
DeliverableToAny(c) == c.fh # "none" /\ c.fh \in c.enabled

\* pollHandlers finds the id in m_hndList and the handler alive and enabled.
Deliverable(c) == polled \in c.listed /\ polled = c.fh /\ polled \in c.enabled

-----------------------------------------------------------------------------
(* The host *)

Init ==
  /\ mode \in Modes
  /\ pc = "start"
  /\ ctl = InitCtl
  /\ polled = "none"
  /\ revents = [s \in Streams |-> {}]
  /\ pipe = [s \in OutStreams |-> << >>]
  /\ status = NoStatus
  /\ answered = FALSE
  /\ polledAnswer = FALSE

\* The controller moves on; a new adb comes with empty pipes, and the host's
\* last descriptors of an old one take what was left in its pipes with them.
ControllerDoes(c, rest) ==
  /\ ctl' = c
  /\ pipe' = IF c.fh = ctl.fh THEN rest ELSE [s \in OutStreams |-> << >>]

\* main() calls connectWiFi or disconnectWiFi: the same steps for both.
Start ==
  /\ pc = "start"
  /\ \E o \in SpawnOutcomes :
       ControllerDoes(SwitchTask([ctl EXCEPT !.script = "fresh"], "Next", o), pipe)
  /\ pc' = "poll"
  /\ UNCHANGED <<mode, polled, revents, status, answered, polledAnswer>>

\* pollHandlers collects the handlers that are alive and enabled.
Pollable == ctl.fh \in ctl.listed /\ ctl.fh \in ctl.enabled

\* The events poll() reports for a stream; the end of adb's output alone
\* (POLLHUP) is none of them.
Ready(s) ==
  IF s = "stdin"
  THEN {e \in {"ERR", "OUT"} : \/ e = "ERR" /\ "stdin" \notin ctl.open
                               \/ e = "OUT" /\ ctl.fh \in ctl.pollOut}
  ELSE {e \in {"IN"} : pipe[s] # << >>}

\* What makes poll() return: an event, POLLHUP, or the time of a timer.
Wakes ==
  \/ \E s \in Streams : Ready(s) # {}
  \/ ~(OutStreams \subseteq ctl.open)
  \/ ctl.fh \in ctl.due

AnswerInReach ==
  /\ ctl.fh = "logcat" /\ "stdin" \in ctl.open
  /\ \E i \in 1 .. Len(pipe["stdout"]) : i <= ReadMax /\ IsAnswer(mode, pipe["stdout"][i])

PollReturns ==
  /\ pc = "poll" /\ Pollable /\ Wakes
  /\ pc' = "dispatch"
  /\ polled' = ctl.fh
  /\ revents' = [s \in Streams |-> Ready(s)]
  /\ polledAnswer' = AnswerInReach
  /\ ctl' = [ctl EXCEPT !.listed = @ \cap {ctl.fh}]
  /\ UNCHANGED <<mode, pipe, status, answered>>

\* exec() ends: no handler left to poll, or poll() failed.
PollLoopEnds ==
  /\ pc = "poll"
  /\ ~Pollable \/ PollErrors
  /\ pc' = "exit"
  /\ ctl' = [ctl EXCEPT !.listed = @ \cap {ctl.fh}]
  /\ UNCHANGED <<mode, polled, revents, pipe, status, answered, polledAnswer>>

\* The handlers are served in the order of their ids.
Earlier(s) == CASE s = "stdin"  -> {}
                [] s = "stdout" -> {"stdin"}
                [] s = "stderr" -> {"stdin", "stdout"}
IsNext(s) == pc = "dispatch" /\ revents[s] # {} /\ \A r \in Earlier(s) : revents[r] = {}
Served(s) == revents' = [revents EXCEPT ![s] = {}]

\* Events of a handler that was removed, destroyed or disabled meanwhile.
SkipStale(s) ==
  /\ IsNext(s) /\ ~Deliverable(ctl)
  /\ Served(s)
  /\ UNCHANGED <<mode, pc, ctl, polled, pipe, status, answered, polledAnswer>>

\* POLLERR before POLLOUT, and POLLOUT only if the handler is still enabled.
DispatchStdin ==
  /\ IsNext("stdin") /\ Deliverable(ctl)
  /\ Served("stdin")
  /\ \E o \in SpawnOutcomes :
       LET c == IF "ERR" \in revents["stdin"] THEN OnError(ctl, o) ELSE ctl
       IN  ControllerDoes(IF "OUT" \in revents["stdin"] /\ polled \in c.enabled
                          THEN OnReadyToWrite(c) ELSE c, pipe)
  /\ UNCHANGED <<mode, pc, polled, status, answered, polledAnswer>>

\* Read takes at least the first ReadMax lines, and all there is at most.
DispatchOutput(s) ==
  /\ IsNext(s) /\ Deliverable(ctl)
  /\ Served(s)
  /\ \E n \in 0 .. Len(pipe[s]), o \in SpawnOutcomes :
       /\ n >= ReadMax \/ n = Len(pipe[s]) \/ (ReadErrors /\ n = 0)
       /\ ControllerDoes(OnReadyToRead(ctl, s, SubSeq(pipe[s], 1, n), o),
                         [pipe EXCEPT ![s] = SubSeq(@, n + 1, Len(@))])
  /\ UNCHANGED <<mode, pc, polled, status, answered, polledAnswer>>

\* Mutant of AllServed: the timers are looked at before stdout and stderr.
StdinServed == pc = "dispatch" /\ revents["stdin"] = {}

AllServed == pc = "dispatch" /\ \A s \in Streams : revents[s] = {}
TimerDue  == Deliverable(ctl) /\ polled \in ctl.due

\* checkTimer of the handler whose timer bounded the poll, after all events.
TimerFires ==
  /\ AllServed /\ TimerDue
  /\ \E o \in SpawnOutcomes :
       ControllerDoes(OnTimer([ctl EXCEPT !.due = @ \ {polled}], o), pipe)
  /\ pc' = "poll"
  /\ UNCHANGED <<mode, polled, revents, status, answered, polledAnswer>>

RoundEnds ==
  /\ AllServed /\ ~TimerDue
  /\ pc' = "poll"
  /\ UNCHANGED <<mode, ctl, polled, revents, pipe, status, answered, polledAnswer>>

\* exitCode(), then the destructor of AdbController.
MainReturns ==
  /\ pc = "exit"
  /\ status' = IF ctl.script # "none" /\ ~HasNext(ctl) THEN 0 ELSE 1
  /\ ControllerDoes(Cleanup(ctl), pipe)
  /\ pc' = "exited"
  /\ UNCHANGED <<mode, polled, revents, answered, polledAnswer>>

-----------------------------------------------------------------------------
(* adb, the agent and the clock *)

Running(t) == ctl.pid = t /\ ctl.child[t] = "running"
Arrives(s, l) == /\ Len(pipe[s]) < PipeCap
                 /\ pipe' = [pipe EXCEPT ![s] = Append(@, l)]

\* adb writes something that is not the answer.
ChildWrites(t, s) ==
  /\ Running(t) /\ s \in ctl.open
  /\ \E l \in OtherLines : Arrives(s, l)
  /\ UNCHANGED <<mode, pc, ctl, polled, revents, status, answered, polledAnswer>>

\* logcat shows the line the agent writes when the mode's run is completed.
AgentAnswers ==
  /\ Running("logcat") /\ "stdout" \in ctl.open
  /\ ~answered
  /\ Arrives("stdout", Answer(mode))
  /\ answered' = TRUE
  /\ UNCHANGED <<mode, pc, ctl, polled, revents, status, polledAnswer>>

\* adb closes one of its streams ...
ChildCloses(t, s) ==
  /\ Running(t) /\ s \in ctl.open
  /\ ctl' = [ctl EXCEPT !.open = @ \ {s}]
  /\ UNCHANGED <<mode, pc, polled, revents, pipe, status, answered, polledAnswer>>

\* ... or ends, for whatever reason.
ChildExits(t) ==
  /\ Running(t)
  /\ ctl' = [ctl EXCEPT !.child[t] = "zombie", !.open = {}]
  /\ UNCHANGED <<mode, pc, polled, revents, pipe, status, answered, polledAnswer>>

TimerExpires(t) ==
  /\ t \in ctl.armed
  /\ ctl' = [ctl EXCEPT !.armed = @ \ {t}, !.due = @ \cup {t}]
  /\ UNCHANGED <<mode, pc, polled, revents, pipe, status, answered, polledAnswer>>

-----------------------------------------------------------------------------

Host ==
  /\ ~ctl.crashed
  /\ \/ Start \/ PollReturns \/ PollLoopEnds \/ DispatchStdin \/ TimerFires \/ RoundEnds
     \/ MainReturns
     \/ \E s \in Streams : SkipStale(s)
     \/ \E s \in OutStreams : DispatchOutput(s)

Outside ==
  \/ AgentAnswers
  \/ \E t \in Tasks : ChildExits(t) \/ TimerExpires(t)
  \/ \E t \in Tasks, s \in OutStreams : ChildWrites(t, s)
  \/ \E t \in Tasks, s \in Streams : ChildCloses(t, s)

\* main() has returned.
Returned == pc = "exited" /\ UNCHANGED vars

Next == Host \/ Outside \/ Returned

Spec == Init /\ [][Next]_vars

\* The program's thread runs and time passes; adb and the agent owe nothing.
Fairness == WF_vars(Host) /\ \A t \in Tasks : WF_vars(TimerExpires(t))
FairSpec == Spec /\ Fairness

-----------------------------------------------------------------------------
(* Correctness *)

\* The state has its type; a stream reports only events that poll() can
\* report for its end of a pipe.
TypeOK ==
  /\ mode \in Modes
  /\ pc \in {"start", "poll", "dispatch", "exit", "exited"}
  /\ ctl \in CtlType
  /\ polled \in {"none"} \cup Tasks
  /\ revents \in [Streams -> SUBSET {"IN", "ERR", "OUT"}]
  /\ pipe \in [OutStreams -> Seq(Line)]
  /\ status \in {0, 1, NoStatus}
  /\ answered \in BOOLEAN /\ polledAnswer \in BOOLEAN

\* m_currTask, m_script and m_adbStdin are never null when a callback follows
\* them, and nothing is ever written to an adb that has closed its stdin.
NeverCrashes == ~ctl.crashed

\* "Execution done" is reported only if the agent has answered this very run.
DoneMeansAnswered == ctl.outcome = "done" => answered

\* Every adb that is not yet reaped is the one m_adbProc knows, the one that
\* the next cleanup will wait for: there is never a second, forgotten one.
NoAdbOutOfReach ==
  \A t \in Tasks : ctl.child[t] \in {"running", "zombie"} => ctl.pid = t

\* Once the script has ended, and once main() has returned by any path, no
\* adb is left, neither running nor as a zombie.
NoAdbLeftBehind ==
  ctl.outcome # "none" \/ pc = "exited" =>
    \A t \in Tasks : ctl.child[t] \in {"unborn", "reaped"}

\* A timer that runs, or has run out, is the current task's own: the timeout
\* of the launcher cannot end the wait for the agent.
TimerOfCurrentTask == ctl.armed \cup ctl.due \subseteq {ctl.task}

\* Events and timers that are served have an effect only if they are those of
\* the adb that the current task has started, whatever was reported for others
\* before a callback of the same round went on to the next task.  The exception
\* is a task that could not start an adb while the handlers of the last one are
\* left, as they are after a failed read.
OwnEventsOnly ==
  [][pc = "dispatch" /\ <<pc, revents>>' # <<pc, revents>> /\ <<ctl, pipe>>' # <<ctl, pipe>>
       => polled = ctl.task \/ (ctl.task # "none" /\ ctl.pid = "none")]_vars

\* Whenever the program waits for events, something bounds the wait: a timer,
\* or an adb that is already gone.
NeverWaitsForever ==
  pc = "poll" /\ Pollable => ctl.fh \in ctl.armed \cup ctl.due \/ Wakes

\* If the answer is there for Read to take when poll() returns, and adb is
\* still up, this round ends the script with success: neither the timer,
\* however late, nor adb's death meanwhile takes the answer away.
PolledAnswerWins ==
  [][pc = "dispatch" /\ pc' # "dispatch" /\ polledAnswer /\ ~ReadErrors
       => ctl'.outcome = "done"]_vars

\* main() returns, whatever adb and the agent do or leave undone.
Terminates == <>(pc = "exited")

\* The exit status tells a script that has run through from one that has not
\* (exitCode): after "Execution done" it is zero.  The code does otherwise.
DoneExitsZero == pc = "exited" /\ ctl.outcome = "done" => status = 0

\* ... and it is zero only then.  The code does otherwise.
ZeroMeansDone == status = 0 => ctl.outcome = "done"

(***************************************************************************)
(* The abstract session.  A script that could not start its last adb has   *)
(* failed too, but the program knows only when it returns.                 *)
(***************************************************************************)
Stage ==
  CASE ctl.outcome # "none" -> ctl.outcome
    [] ctl.outcome = "none" /\ pc = "exited" -> "failed"
    [] OTHER -> IF ctl.task = "logcat" THEN "waiting" ELSE "launching"

AdbAlive == \E t \in Tasks : ctl.child[t] \in {"running", "zombie"}

Session == INSTANCE AdbSession WITH stage <- Stage, adbAlive <- AdbAlive

\* Every behaviour is one of a session: one that settles once, with success
\* only after the answer, and that never leaves an adb behind.
IsSession == Session!Spec

\* ... and one that settles.
IsFairSession == Session!FairSpec
=============================================================================
