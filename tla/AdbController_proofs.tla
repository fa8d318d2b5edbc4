------------------------ MODULE AdbController_proofs ------------------------
(***************************************************************************)
(* Safety of the controller for every set of lines, pipe capacity, read    *)
(* limit and combination of faults.  The controller's state c is related   *)
(* by CtlInv, which every chain of calls that a callback makes restores;   *)
(* one lemma per method says what the method does to c.  The last part is  *)
(* about the answer that poll() has seen.                                  *)
(***************************************************************************)
EXTENDS AdbController, TLAPS

Unreaped == {"running", "zombie"}

\* The controller knows its adb: the handlers are those of the adb that
\* m_adbProc has, and flags and timers are those of the handlers.
Known(c) ==
  /\ c \in CtlType /\ ~c.crashed
  /\ \A t \in Tasks : c.child[t] \in Unreaped => c.pid = t
  /\ c.pid # "none" => c.fh = c.pid
  /\ c.pid = "none" => c.open = {}
  /\ c.enabled \subseteq {c.fh} /\ c.pollOut \subseteq {c.fh}
  /\ c.armed \subseteq {c.fh} /\ c.due \subseteq {c.fh}
  /\ c.fh # "none" => c.fh \in c.enabled /\ c.fh \in c.listed

\* Nothing is left: what cleanup() leads to.
Clean(c) ==
  /\ c \in CtlType /\ ~c.crashed
  /\ c.task = "none" /\ c.script = "none" /\ c.state = "Idle"
  /\ c.fh = "none" /\ c.pid = "none" /\ c.open = {}
  /\ c.enabled = {} /\ c.pollOut = {} /\ c.armed = {} /\ c.due = {}
  /\ \A t \in Tasks : c.child[t] \notin Unreaped

\* The handlers of an adb outlive it only by a failed read and a failed start.
FaultPair == ReadErrors /\ "exec" \in SpawnOutcomes

\* A script is under way: the task is the last one handed out.  Its adb has a
\* timer that bounds the wait; handlers of another task's adb are only left
\* if that adb is gone and the task's own could not be started.
UnderWay(c) ==
  /\ Known(c)
  /\ c.task # "none" /\ c.script = c.task /\ c.outcome = "none"
  /\ c.state = "Running" => c.task = "launch" /\ c.fh = "launch"
  /\ c.task = "launch" /\ c.fh # "none" => c.state = "Running" /\ c.fh = "launch"
  /\ c.armed \cup c.due \subseteq {c.task}
  /\ c.fh # "none" => c.fh \in c.armed \cup c.due \/ c.pid = "none"
  /\ c.fh # "none" /\ c.fh # c.task => FaultPair /\ c.pid = "none"
  /\ c.pollOut # {} => c.pid = "none"

CtlInv(c) == Clean(c) \/ UnderWay(c)

\* What becomes of a script that does not just go on: it settles, or turns from
\* the launcher to the logcat reader.
Onward(c, d) ==
  \/ Clean(d) /\ d.outcome = "failed"
  \/ Clean(d) /\ d.outcome = "done" /\ c.task = "logcat"
  \/ UnderWay(d) /\ d.task = "logcat" /\ c.task = "launch"

\* Only the agent writes the answer.
AnswersAreReal ==
  \A s \in OutStreams : \A i \in DOMAIN pipe[s] : IsAnswer(mode, pipe[s][i]) => answered

\* An event that is still to be served finds its lines in the pipe.
EventsAreThere ==
  pc = "dispatch" /\ Deliverable(ctl) =>
    \A s \in OutStreams : revents[s] # {} => pipe[s] # << >>

IInv ==
  /\ TypeOK
  /\ EventsAreThere
  /\ CtlInv(ctl)
  /\ AnswersAreReal
  /\ "OUT" \in revents["stdin"] => "ERR" \in revents["stdin"]
  /\ pc = "start" => ctl = InitCtl
  /\ pc = "exited" => Clean(ctl)
  /\ ctl.outcome = "done" => answered

-----------------------------------------------------------------------------
(* The methods *)

\* Reaping leaves the fields of the handlers alone.
LEMMA ReapLemma ==
  ASSUME NEW c \in CtlType, \A t \in Tasks : c.child[t] \in Unreaped => c.pid = t,
         c.pid = "none" => c.open = {}
  PROVE  /\ Reap(c) \in CtlType
         /\ Reap(c).pid = "none" /\ Reap(c).open = {}
         /\ \A t \in Tasks : Reap(c).child[t] \notin Unreaped
         /\ Reap(c).script = c.script /\ Reap(c).task = c.task /\ Reap(c).state = c.state
         /\ Reap(c).fh = c.fh /\ Reap(c).enabled = c.enabled /\ Reap(c).listed = c.listed
         /\ Reap(c).pollOut = c.pollOut /\ Reap(c).armed = c.armed /\ Reap(c).due = c.due
         /\ Reap(c).outcome = c.outcome /\ Reap(c).crashed = c.crashed
<1>1. CASE c.pid = "none"
  BY <1>1 DEF Reap, Tasks
<1>2. CASE c.pid # "none"
  <2>1. c.pid \in Tasks
    BY <1>2 DEF CtlType
  <2>2. Reap(c) = [c EXCEPT !.child[c.pid] = "reaped", !.pid = "none", !.open = {}]
    BY <1>2 DEF Reap
  <2> DEFINE ch == [c.child EXCEPT ![c.pid] = "reaped"]
  <2>3. ch \in [Tasks -> ChildStates]
    BY <2>1 DEF CtlType, ChildStates
  <2>4. \A t \in Tasks : ch[t] \notin Unreaped
    BY <2>1 DEF CtlType, Unreaped
  <2>5. Reap(c) = [c EXCEPT !.child = ch, !.pid = "none", !.open = {}]
    BY <2>2
  <2> HIDE DEF ch
  <2>6. Reap(c) \in CtlType
    BY <2>3, <2>5 DEF CtlType
  <2>7. QED
    BY <2>4, <2>5, <2>6 DEF CtlType
<1>3. QED
  BY <1>1, <1>2

\* Dropping the handlers touches nothing else.
LEMMA DropLemma ==
  ASSUME NEW c \in CtlType,
         c.enabled \cup c.pollOut \cup c.armed \cup c.due \subseteq {c.fh}
  PROVE  LET d == DropHandlers(c)
         IN  /\ d \in CtlType /\ d.fh = "none"
             /\ d.enabled = {} /\ d.pollOut = {} /\ d.armed = {} /\ d.due = {}
             /\ d.script = c.script /\ d.task = c.task /\ d.state = c.state
             /\ d.pid = c.pid /\ d.open = c.open /\ d.child = c.child
             /\ d.listed = c.listed /\ d.outcome = c.outcome /\ d.crashed = c.crashed
BY DEF DropHandlers, CtlType

\* After cleanupChildProc the controller has no adb and no handlers.
LEMMA CleanupChildProcLemma ==
  ASSUME NEW c, Known(c)
  PROVE  LET d == CleanupChildProc(c)
         IN  /\ d \in CtlType
             /\ d.fh = "none" /\ d.pid = "none" /\ d.open = {}
             /\ d.enabled = {} /\ d.pollOut = {} /\ d.armed = {} /\ d.due = {}
             /\ \A t \in Tasks : d.child[t] \notin Unreaped
             /\ d.script = c.script /\ d.task = c.task /\ d.state = c.state
             /\ d.outcome = c.outcome /\ d.crashed = c.crashed
<1> DEFINE b == [c EXCEPT !.listed = @ \ {c.fh}]
           e == DropHandlers(b)
<1>1. /\ b \in CtlType /\ b.fh = c.fh /\ b.pid = c.pid /\ b.open = c.open
      /\ b.enabled = c.enabled /\ b.pollOut = c.pollOut /\ b.armed = c.armed /\ b.due = c.due
      /\ b.script = c.script /\ b.task = c.task /\ b.state = c.state
      /\ b.child = c.child /\ b.outcome = c.outcome /\ b.crashed = c.crashed
  BY DEF Known, CtlType
<1>2. b.enabled \cup b.pollOut \cup b.armed \cup b.due \subseteq {b.fh}
  BY <1>1 DEF Known
<1>3. CleanupChildProc(c) = Reap(e)
  BY DEF CleanupChildProc
<1> HIDE DEF b
<1>4. /\ e \in CtlType /\ e.fh = "none"
      /\ e.enabled = {} /\ e.pollOut = {} /\ e.armed = {} /\ e.due = {}
      /\ e.script = c.script /\ e.task = c.task /\ e.state = c.state
      /\ e.pid = c.pid /\ e.open = c.open /\ e.child = c.child
      /\ e.outcome = c.outcome /\ e.crashed = c.crashed
  BY <1>1, <1>2, DropLemma
<1> HIDE DEF e
<1>5. /\ \A t \in Tasks : e.child[t] \in Unreaped => e.pid = t
      /\ e.pid = "none" => e.open = {}
  BY <1>4 DEF Known
<1>6. QED
  BY <1>3, <1>4, <1>5, ReapLemma

\* After cleanup nothing is left but the outcome.
LEMMA CleanupLemma ==
  ASSUME NEW c, Known(c)
  PROVE  Clean(Cleanup(c)) /\ Cleanup(c).outcome = c.outcome
<1> DEFINE b == [c EXCEPT !.task = "none", !.script = "none", !.state = "Idle"]
<1>1. /\ Known(b) /\ b.task = "none" /\ b.script = "none" /\ b.state = "Idle"
      /\ b.outcome = c.outcome /\ ~b.crashed
  BY DEF Known, CtlType
<1>2. Cleanup(c) = CleanupChildProc(b)
  BY DEF Cleanup
<1> HIDE DEF b
<1>3. QED
  BY <1>1, <1>2, CleanupChildProcLemma DEF Clean

\* A clean controller stays clean when the outcome is noted.
LEMMA SettleLemma ==
  ASSUME NEW c, Known(c), NEW o \in {"done", "failed"}
  PROVE  /\ Clean([Cleanup(c) EXCEPT !.outcome = o])
         /\ [Cleanup(c) EXCEPT !.outcome = o].outcome = o
<1>1. Clean(Cleanup(c))
  BY CleanupLemma
<1>2. QED
  BY <1>1 DEF Clean, CtlType

\* A clean controller knows its adb: there is none.
LEMMA CleanKnown == ASSUME NEW c, Clean(c) PROVE Known(c)
BY DEF Clean, Known, Tasks

\* Starting adb replaces the handlers, timers and process of the one before.
LEMMA SpawnLemma ==
  ASSUME NEW c, Known(c), NEW t \in Tasks
  PROVE  LET d == Spawn(c, t)
         IN  /\ Known(d) /\ d.fh = t /\ d.pid = t
             /\ d.pollOut = {} /\ d.armed = {} /\ d.due = {}
             /\ d.script = c.script /\ d.task = c.task /\ d.state = c.state
             /\ d.outcome = c.outcome
<1> DEFINE r == Reap(c)
           b == DropHandlers(r)
           ch == [b.child EXCEPT ![t] = "running"]
           d == [b EXCEPT !.child = ch, !.pid = t, !.open = Streams, !.fh = t,
                          !.listed = @ \cup {t}, !.enabled = @ \cup {t}]
<1>1. /\ r \in CtlType /\ r.pid = "none" /\ r.open = {}
      /\ \A u \in Tasks : r.child[u] \notin Unreaped
      /\ r.script = c.script /\ r.task = c.task /\ r.state = c.state
      /\ r.fh = c.fh /\ r.enabled = c.enabled /\ r.listed = c.listed
      /\ r.pollOut = c.pollOut /\ r.armed = c.armed /\ r.due = c.due
      /\ r.outcome = c.outcome /\ r.crashed = c.crashed
  BY ReapLemma DEF Known
<1>2. r.enabled \cup r.pollOut \cup r.armed \cup r.due \subseteq {r.fh}
  BY <1>1 DEF Known
<1> HIDE DEF r
<1>3. /\ b \in CtlType /\ b.fh = "none"
      /\ b.enabled = {} /\ b.pollOut = {} /\ b.armed = {} /\ b.due = {}
      /\ b.script = c.script /\ b.task = c.task /\ b.state = c.state
      /\ \A u \in Tasks : b.child[u] \notin Unreaped
      /\ b.outcome = c.outcome /\ ~b.crashed
  BY <1>1, <1>2, DropLemma DEF Known
<1>4. Spawn(c, t) = [b EXCEPT !.child[t] = "running", !.pid = t, !.open = Streams,
                              !.fh = t, !.listed = @ \cup {t}, !.enabled = @ \cup {t}]
  BY DEF Spawn, r
<1> HIDE DEF b
<1>5. ch \in [Tasks -> ChildStates]
  BY <1>3 DEF CtlType, ChildStates
<1>6. \A u \in Tasks : ch[u] \in Unreaped => u = t
  BY <1>3 DEF CtlType
<1>7. Spawn(c, t) = d
  BY <1>4
<1> HIDE DEF ch
<1>8. d \in CtlType
  BY <1>3, <1>5 DEF CtlType
<1>9. /\ d.fh = t /\ d.pid = t /\ d.child = ch /\ d.enabled = {t} /\ t \in d.listed
      /\ d.pollOut = {} /\ d.armed = {} /\ d.due = {}
      /\ d.script = c.script /\ d.task = c.task /\ d.state = c.state
      /\ d.outcome = c.outcome /\ ~d.crashed
  BY <1>3 DEF CtlType
<1> HIDE DEF d
<1>10. QED
  BY <1>6, <1>7, <1>8, <1>9 DEF Known, Tasks

\* A controller whose script is to go on: a launcher that still has its adb
\* is Running, and got there by a read error.
Advancing(c) ==
  /\ Known(c)
  /\ c.task # "none" /\ c.script = c.task /\ c.outcome = "none"
  /\ c.state = "Running" => c.fh # "none"
  /\ c.task = "launch" /\ c.fh # "none" =>
       c.state = "Running" /\ c.fh = "launch" /\ ReadErrors

\* A task that is started leaves the controller in order, whatever becomes of
\* its adb, and never reports success.
LEMMA StartTaskLemma ==
  ASSUME NEW c, Known(c), NEW t \in Tasks, NEW o \in SpawnOutcomes,
         c.outcome = "none", c.pollOut # {} => c.fh # "none",
         c.armed = {}, c.due = {},
         c.fh # "none" => t = "logcat" /\ c.fh = "launch" /\ ReadErrors
  PROVE  /\ CtlInv(StartTask(c, t, o)) /\ StartTask(c, t, o).outcome # "done"
         /\ StartTask(c, t, o).fh \in {t, c.fh, "none"}
         /\ \/ UnderWay(StartTask(c, t, o)) /\ StartTask(c, t, o).task = t
            \/ Clean(StartTask(c, t, o)) /\ StartTask(c, t, o).outcome = "failed"
<1> DEFINE b == [c EXCEPT !.script = t, !.task = t, !.state = "Idle"]
<1>1. /\ Known(b) /\ b.script = t /\ b.task = t /\ b.state = "Idle"
      /\ b.fh = c.fh /\ b.pollOut = c.pollOut /\ b.armed = {} /\ b.due = {}
      /\ b.outcome = "none"
  BY DEF Known, CtlType
<1>2. o \in {"ok", "exec", "register"}
  BY BoundsAssumption
<1> HIDE DEF b
<1>3. CASE o = "ok"
  <2> DEFINE d == Spawn(b, t)
  <2>1. /\ Known(d) /\ d.fh = t /\ d.pid = t
        /\ d.pollOut = {} /\ d.armed = {} /\ d.due = {}
        /\ d.script = t /\ d.task = t /\ d.state = "Idle" /\ d.outcome = "none"
    BY <1>1, SpawnLemma
  <2>2. StartTask(c, t, o) = [d EXCEPT !.armed = @ \cup {t},
                                       !.state = IF t = "launch" THEN "Running" ELSE @]
    <3>1. CASE t = "launch"
      BY <1>3, <3>1 DEF StartTask, LaunchStart, InitAdb, b
    <3>2. CASE t = "logcat"
      <4>1. StartTask(c, t, o) = [d EXCEPT !.armed = @ \cup {t}]
        BY <1>3, <3>2 DEF StartTask, LogcatStart, InitAdb, b
      <4>2. QED
        BY <2>1, <3>2, <4>1 DEF Known, CtlType
    <3>3. QED
      BY <3>1, <3>2 DEF Tasks
  <2> HIDE DEF d
  <2> DEFINE st == IF t = "launch" THEN "Running" ELSE "Idle"
             e == [d EXCEPT !.armed = {t}, !.state = st]
  <2>3. StartTask(c, t, o) = e
    BY <2>1, <2>2
  <2>4. st \in {"Idle", "Running"} /\ (st = "Running" => t = "launch") /\ (t = "launch" => st = "Running")
    OBVIOUS
  <2> HIDE DEF st
  <2>5. /\ e \in CtlType /\ e.armed = {t} /\ e.state = st
        /\ e.fh = t /\ e.pid = t /\ e.pollOut = {} /\ e.due = {} /\ e.script = t /\ e.task = t
        /\ e.outcome = "none" /\ ~e.crashed /\ e.child = d.child /\ e.open = d.open
        /\ e.enabled = d.enabled /\ e.listed = d.listed
    BY <2>1, <2>4 DEF Known, CtlType
  <2> HIDE DEF e
  <2>6. Known(e)
    BY <2>1, <2>5 DEF Known
  <2>7. UnderWay(e)
    BY <2>4, <2>5, <2>6 DEF UnderWay, Tasks
  <2>8. QED
    BY <2>3, <2>5, <2>7 DEF CtlInv, UnderWay
<1>4. CASE o = "exec"
  <2>1. StartTask(c, t, o) = Reap(b)
    BY <1>4 DEF StartTask, LaunchStart, LogcatStart, InitAdb, Tasks, b
  <2> DEFINE r == Reap(b)
  <2>2. /\ r \in CtlType /\ r.pid = "none" /\ r.open = {}
        /\ \A u \in Tasks : r.child[u] \notin Unreaped
        /\ r.script = b.script /\ r.task = b.task /\ r.state = b.state
        /\ r.fh = b.fh /\ r.enabled = b.enabled /\ r.listed = b.listed
        /\ r.pollOut = b.pollOut /\ r.armed = b.armed /\ r.due = b.due
        /\ r.outcome = b.outcome /\ r.crashed = b.crashed
    BY <1>1, ReapLemma DEF Known
  <2> HIDE DEF r
  <2>3. Known(r)
    BY <1>1, <2>2 DEF Known
  <2>4. UnderWay(r)
    BY <1>1, <1>4, <2>2, <2>3 DEF UnderWay, FaultPair, Tasks
  <2>5. QED
    BY <1>1, <2>1, <2>2, <2>4 DEF CtlInv, UnderWay, r
<1>5. CASE o = "register"
  <2>1. Known(Spawn(b, t))
    BY <1>1, SpawnLemma
  <2>2. StartTask(c, t, o) = [Cleanup(Spawn(b, t)) EXCEPT !.outcome = "failed"]
    BY <1>5 DEF StartTask, LaunchStart, LogcatStart, InitAdb, Tasks, b
  <2>3. QED
    BY <2>1, <2>2, SettleLemma DEF CtlInv, Clean
<1>6. QED
  BY <1>2, <1>3, <1>4, <1>5

\* A task's cleanup finds the handlers it writes to, and leaves no timer of a
\* launcher.
LEMMA TaskCleanupLemma ==
  ASSUME NEW c, Known(c), c.state = "Running" => c.fh # "none"
  PROVE  LET d == TaskCleanup(c)
         IN  /\ Known(d) /\ d.fh = c.fh
             /\ d.task = c.task /\ d.script = c.script /\ d.outcome = c.outcome
             /\ c.state = "Running" => d.armed = {} /\ d.due = {}
             /\ c.state # "Running" => d = c
<1>1. CASE c.state # "Running"
  BY <1>1 DEF TaskCleanup
<1>2. CASE c.state = "Running"
  <2>1. c.fh \in Tasks
    BY <1>2 DEF Known, CtlType
  <2>2. TaskCleanup(c) = [c EXCEPT !.armed = @ \ {c.fh}, !.due = @ \ {c.fh}, !.state = "Stopped",
                                   !.pollOut = @ \cup {c.fh}]
    BY <1>2, <2>1 DEF TaskCleanup, StopTimer, Tasks, Known, CtlType
  <2> DEFINE d == [c EXCEPT !.armed = @ \ {c.fh}, !.due = @ \ {c.fh}, !.state = "Stopped",
                            !.pollOut = @ \cup {c.fh}]
  <2>3. /\ d \in CtlType /\ d.armed = c.armed \ {c.fh} /\ d.due = c.due \ {c.fh}
        /\ d.pollOut = c.pollOut \cup {c.fh} /\ d.fh = c.fh /\ d.pid = c.pid
        /\ d.task = c.task /\ d.script = c.script /\ d.outcome = c.outcome
        /\ d.crashed = c.crashed /\ d.child = c.child /\ d.open = c.open
        /\ d.enabled = c.enabled /\ d.listed = c.listed
    BY <2>1 DEF Known, CtlType
  <2> HIDE DEF d
  <2>4. Known(d) /\ d.armed = {} /\ d.due = {}
    BY <2>3 DEF Known
  <2>5. QED
    BY <1>2, <2>2, <2>3, <2>4 DEF d
<1>3. QED
  BY <1>1, <1>2

\* switchTask(Next) starts the next task, or ends the script with success if
\* that was the logcat reader.
LEMMA NextLemma ==
  ASSUME NEW c, Advancing(c), NEW o \in SpawnOutcomes
  PROVE  /\ CtlInv(SwitchTask(c, "Next", o))
         /\ SwitchTask(c, "Next", o).outcome = "done" => c.task = "logcat"
         /\ SwitchTask(c, "Next", o).fh \in {"logcat", c.fh, "none"}
         /\ Onward(c, SwitchTask(c, "Next", o))
<1> DEFINE d == TaskCleanup(c)
<1>1. c.task \in Tasks
  BY DEF Advancing, Known, CtlType
<1>2. /\ Known(d) /\ d.fh = c.fh
      /\ d.task = c.task /\ d.script = c.task /\ d.outcome = "none"
      /\ c.state = "Running" => d.armed = {} /\ d.due = {}
      /\ c.state # "Running" => d = c
  BY TaskCleanupLemma DEF Advancing
<1>3. CASE c.task = "launch"
  <2>1. SwitchTask(c, "Next", o) = StartTask(d, "logcat", o)
    BY <1>2, <1>3 DEF SwitchTask, HasNext, NextTask
  <2> HIDE DEF d
  <2>2. d.armed = {} /\ d.due = {}
    BY <1>2, <1>3 DEF Advancing, Known, CtlType, Tasks
  <2>3. d.pollOut # {} => d.fh # "none"
    BY <1>2 DEF Known, CtlType, Tasks
  <2>4. QED
    BY <1>2, <1>3, <2>1, <2>2, <2>3, StartTaskLemma DEF Advancing, Tasks, Onward
<1>4. CASE c.task = "logcat"
  <2>1. SwitchTask(c, "Next", o) = [Cleanup(d) EXCEPT !.outcome = "done"]
    BY <1>2, <1>4 DEF SwitchTask, HasNext
  <2> HIDE DEF d
  <2>2. Clean(SwitchTask(c, "Next", o)) /\ SwitchTask(c, "Next", o).outcome = "done"
    BY <1>2, <2>1, SettleLemma
  <2>3. QED
    BY <1>4, <2>2 DEF CtlInv, Clean, Onward
<1>5. QED
  BY <1>1, <1>3, <1>4 DEF Tasks

\* switchTask(Fail) leaves nothing but the outcome.
LEMMA FailLemma ==
  ASSUME NEW c, Known(c), NEW o
  PROVE  Clean(SwitchTask(c, "Fail", o)) /\ SwitchTask(c, "Fail", o).outcome = "failed"
BY SettleLemma DEF SwitchTask

-----------------------------------------------------------------------------
(* The callbacks *)

\* An error ends the launcher or fails the logcat reader; either way the
\* handlers it came for are no longer enabled.
LEMMA OnErrorLemma ==
  ASSUME NEW c, UnderWay(c), c.fh # "none", NEW o \in SpawnOutcomes
  PROVE  /\ CtlInv(OnError(c, o)) /\ OnError(c, o).outcome # "done"
         /\ c.fh \notin OnError(c, o).enabled
         /\ Onward(c, OnError(c, o))
<1>1. Known(c) /\ c.task \in Tasks /\ c.fh \in Tasks
  BY DEF UnderWay, Known, CtlType
<1>2. CASE c.task = "launch"
  <2> DEFINE b == StopTimer(c)
             d == CleanupChildProc(b)
             e == [d EXCEPT !.state = "Stopped"]
  <2>1. /\ Known(b) /\ b.task = "launch" /\ b.script = "launch" /\ b.outcome = "none"
    <3>1. b = [c EXCEPT !.armed = @ \ {c.fh}, !.due = @ \ {c.fh}]
      BY DEF StopTimer
    <3> HIDE DEF b
    <3>2. /\ b \in CtlType /\ b.armed = c.armed \ {c.fh} /\ b.due = c.due \ {c.fh}
          /\ b.pollOut = c.pollOut /\ b.fh = c.fh /\ b.pid = c.pid
          /\ b.task = c.task /\ b.script = c.script /\ b.outcome = c.outcome
          /\ ~b.crashed /\ b.child = c.child /\ b.open = c.open
          /\ b.enabled = c.enabled /\ b.listed = c.listed
      BY <1>1, <3>1 DEF Known, CtlType
    <3>3. QED
      BY <1>1, <1>2, <3>2 DEF Known, UnderWay
  <2> HIDE DEF b
  <2>2. /\ d \in CtlType
        /\ d.fh = "none" /\ d.pid = "none" /\ d.open = {}
        /\ d.enabled = {} /\ d.pollOut = {} /\ d.armed = {} /\ d.due = {}
        /\ \A t \in Tasks : d.child[t] \notin Unreaped
        /\ d.script = "launch" /\ d.task = "launch" /\ d.outcome = "none" /\ d.crashed = b.crashed
    BY <2>1, CleanupChildProcLemma
  <2>3. ~d.crashed
    BY <2>1, <2>2 DEF Known
  <2> HIDE DEF d
  <2>4. /\ e \in CtlType /\ e.fh = "none" /\ e.pid = "none" /\ e.open = {}
        /\ e.enabled = {} /\ e.pollOut = {} /\ e.armed = {} /\ e.due = {}
        /\ e.child = d.child /\ e.state = "Stopped"
        /\ e.script = "launch" /\ e.task = "launch" /\ e.outcome = "none" /\ ~e.crashed
    BY <2>2, <2>3 DEF CtlType
  <2>5. OnError(c, o) = SwitchTask(e, "Next", o)
    BY <1>2 DEF OnError, LaunchOnError, d, b
  <2> HIDE DEF e
  <2>6. Advancing(e)
    BY <2>2, <2>4 DEF Advancing, Known
  <2>7. /\ CtlInv(OnError(c, o)) /\ OnError(c, o).outcome # "done"
        /\ OnError(c, o).fh \in {"logcat", "none"}
        /\ Onward(e, OnError(c, o))
    BY <2>4, <2>5, <2>6, NextLemma
  <2>8. c.fh = "launch"
    BY <1>2 DEF UnderWay
  <2>9. QED
    BY <1>2, <2>4, <2>7, <2>8 DEF CtlInv, Clean, UnderWay, Known, Onward
<1>3. CASE c.task = "logcat"
  <2>1. OnError(c, o) = SwitchTask(c, "Fail", o)
    BY <1>3 DEF OnError
  <2>2. QED
    BY <1>1, <2>1, FailLemma DEF CtlInv, Clean, Onward
<1>4. QED
  BY <1>1, <1>2, <1>3 DEF Tasks

\* Reading leaves the controller in order; the script is done only if one of
\* the lines that were read is the answer.
LEMMA OnReadyToReadLemma ==
  ASSUME NEW c, UnderWay(c), c.fh # "none", NEW s, NEW lines, NEW o \in SpawnOutcomes,
         lines = << >> => ReadErrors
  PROVE  LET d == OnReadyToRead(c, s, lines, o)
         IN  /\ CtlInv(d)
             /\ d.outcome = "done" => \E i \in DOMAIN lines : IsAnswer(mode, lines[i])
             /\ d = c \/ Onward(c, d)
<1>1. c.task \in Tasks /\ c.outcome = "none"
  BY DEF UnderWay, Known, CtlType
<1> DEFINE res == OnDataReady(c.task, mode, s, lines)
<1>2. OnReadyToRead(c, s, lines, o) = SwitchTask(c, res, o)
  BY <1>1 DEF OnReadyToRead, Tasks
<1>3. CASE c.task = "launch" /\ lines = << >>
  <2>1. res = "Next"
    BY <1>3 DEF OnDataReady
  <2>2. Advancing(c)
    BY <1>3 DEF UnderWay, Advancing
  <2> HIDE DEF res
  <2>3. QED
    BY <1>2, <1>3, <2>1, <2>2, NextLemma
<1>4. CASE /\ c.task = "logcat" /\ s = "stdout"
           /\ \E i \in DOMAIN lines : IsAnswer(mode, lines[i])
  <2>1. res = "Next"
    BY <1>4 DEF OnDataReady
  <2>2. Advancing(c)
    BY <1>4 DEF UnderWay, Advancing
  <2> HIDE DEF res
  <2>3. QED
    BY <1>2, <1>4, <2>1, <2>2, NextLemma
<1>5. CASE /\ ~(c.task = "launch" /\ lines = << >>)
           /\ ~(/\ c.task = "logcat" /\ s = "stdout"
                /\ \E i \in DOMAIN lines : IsAnswer(mode, lines[i]))
  <2>1. res = "Continue"
    BY <1>1, <1>5 DEF OnDataReady, Tasks
  <2> HIDE DEF res
  <2>2. QED
    BY <1>1, <1>2, <2>1 DEF SwitchTask, CtlInv
<1>6. QED
  BY <1>3, <1>4, <1>5

\* A timeout leaves nothing but the failure.
LEMMA OnTimerLemma ==
  ASSUME NEW c, Known(c), c.task # "none", c.state = "Running" => c.fh # "none",
         NEW o \in SpawnOutcomes
  PROVE  Clean(OnTimer(c, o)) /\ OnTimer(c, o).outcome = "failed"
BY TaskCleanupLemma, FailLemma DEF OnTimer

-----------------------------------------------------------------------------
(* The steps *)

\* The parts of IInv that are about more than the controller's record.
RestOK ==
  /\ mode \in Modes
  /\ polled \in {"none"} \cup Tasks
  /\ revents \in [Streams -> SUBSET {"IN", "ERR", "OUT"}]
  /\ pipe \in [OutStreams -> Seq(Line)]
  /\ status \in {0, 1, NoStatus}
  /\ answered \in BOOLEAN /\ polledAnswer \in BOOLEAN
  /\ AnswersAreReal
  /\ "OUT" \in revents["stdin"] => "ERR" \in revents["stdin"]

CtlOK ==
  /\ pc \in {"start", "poll", "dispatch", "exit", "exited"}
  /\ CtlInv(ctl)
  /\ pc = "start" => ctl = InitCtl
  /\ pc = "exited" => Clean(ctl)
  /\ ctl.outcome = "done" => answered

LEMMA IInvParts == IInv <=> RestOK /\ CtlOK /\ EventsAreThere
BY DEF IInv, RestOK, CtlOK, TypeOK, CtlInv, Clean, UnderWay, Known

\* Emptied pipes, and pipes that lost lines at the front, hold no new lines.
LEMMA PipeLemma ==
  ASSUME RestOK, NEW c, NEW s \in OutStreams, NEW n \in 0 .. Len(pipe[s]),
         \/ ControllerDoes(c, pipe)
         \/ ControllerDoes(c, [pipe EXCEPT ![s] = SubSeq(@, n + 1, Len(@))]),
         UNCHANGED <<mode, answered>>
  PROVE  pipe' \in [OutStreams -> Seq(Line)] /\ AnswersAreReal'
<1> DEFINE rest == [pipe EXCEPT ![s] = SubSeq(@, n + 1, Len(@))]
           none == [r \in OutStreams |-> << >>]
<1>1. pipe' \in {pipe, rest, none}
  BY DEF ControllerDoes
<1>2. pipe[s] \in Seq(Line)
  BY DEF RestOK
<1>3. /\ SubSeq(pipe[s], n + 1, Len(pipe[s])) \in Seq(Line)
      /\ \A i \in DOMAIN SubSeq(pipe[s], n + 1, Len(pipe[s])) :
           \E j \in DOMAIN pipe[s] : SubSeq(pipe[s], n + 1, Len(pipe[s]))[i] = pipe[s][j]
  BY <1>2
<1>4. rest \in [OutStreams -> Seq(Line)]
  BY <1>3 DEF RestOK
<1>5. none \in [OutStreams -> Seq(Line)]
  OBVIOUS
<1>6. ASSUME NEW r \in OutStreams, NEW i \in DOMAIN rest[r]
      PROVE  \E j \in DOMAIN pipe[r] : rest[r][i] = pipe[r][j]
  <2>1. CASE r = s
    BY <1>3, <1>6, <2>1 DEF RestOK
  <2>2. CASE r # s
    BY <1>6, <2>2 DEF RestOK
  <2>3. QED
    BY <2>1, <2>2
<1>7. ASSUME NEW r \in OutStreams PROVE DOMAIN none[r] = {}
  OBVIOUS
<1> HIDE DEF rest, none
<1>8. CASE pipe' = pipe
  BY <1>8 DEF RestOK, AnswersAreReal
<1>9. CASE pipe' = rest
  BY <1>4, <1>6, <1>9 DEF RestOK, AnswersAreReal
<1>10. CASE pipe' = none
  BY <1>5, <1>7, <1>10 DEF AnswersAreReal
<1>11. QED
  BY <1>1, <1>8, <1>9, <1>10

\* An event is delivered only while a script is under way.
LEMMA DeliverableLemma ==
  ASSUME CtlInv(ctl), Deliverable(ctl)
  PROVE  UnderWay(ctl) /\ ctl.fh = polled /\ ctl.fh # "none"
BY DEF CtlInv, Clean, Deliverable, UnderWay, Known, CtlType, Tasks

LEMMA StartStep == ASSUME IInv, Start PROVE IInv'
<1> PICK o \in SpawnOutcomes :
      ControllerDoes(SwitchTask([ctl EXCEPT !.script = "fresh"], "Next", o), pipe)
  BY DEF Start
<1> DEFINE c == [InitCtl EXCEPT !.script = "fresh"]
<1>1. /\ c \in CtlType /\ ~c.crashed /\ c.fh = "none" /\ c.pid = "none" /\ c.open = {}
      /\ c.enabled = {} /\ c.pollOut = {} /\ c.armed = {} /\ c.due = {}
      /\ c.child = [t \in Tasks |-> "unborn"] /\ c.outcome = "none"
      /\ c.script = "fresh" /\ c.task = "none"
  BY DEF InitCtl, CtlType, ChildStates
<1>2. ctl' = SwitchTask(c, "Next", o)
  BY DEF Start, IInv, ControllerDoes
<1> HIDE DEF c
<1>3. Known(c)
  BY <1>1 DEF Known, Unreaped
<1>4. SwitchTask(c, "Next", o) = StartTask(c, "launch", o)
  BY <1>1 DEF SwitchTask, HasNext, NextTask
<1>5. CtlInv(ctl') /\ ctl'.outcome # "done"
  BY <1>1, <1>2, <1>3, <1>4, StartTaskLemma DEF Tasks
<1>6. RestOK'
  <2>1. /\ UNCHANGED <<mode, polled, revents, status, answered, polledAnswer>>
        /\ ControllerDoes(SwitchTask([ctl EXCEPT !.script = "fresh"], "Next", o), pipe)
    BY DEF Start
  <2>2. RestOK
    BY IInvParts
  <2>3. 0 \in 0 .. Len(pipe["stdout"]) /\ "stdout" \in OutStreams
    BY <2>2 DEF RestOK, OutStreams
  <2>4. pipe' \in [OutStreams -> Seq(Line)] /\ AnswersAreReal'
    BY <2>1, <2>2, <2>3, PipeLemma
  <2>5. QED
    BY <2>1, <2>2, <2>4 DEF RestOK
<1>7. CtlOK'
  BY <1>5 DEF CtlOK, Start
<1>8. EventsAreThere'
  BY DEF EventsAreThere, Start
<1>9. QED
  BY <1>6, <1>7, <1>8, IInvParts, PTL

\* The poll loop only forgets ids whose handlers are gone.
LEMMA SweepLemma ==
  ASSUME CtlInv(ctl), NEW c, c = [ctl EXCEPT !.listed = @ \cap {ctl.fh}]
  PROVE  /\ CtlInv(c) /\ c.outcome = ctl.outcome /\ c.fh = ctl.fh
         /\ Clean(ctl) => Clean(c)
<1>1. ctl \in CtlType
  BY DEF CtlInv, Clean, UnderWay, Known
<1>2. /\ c \in CtlType /\ c.armed = ctl.armed /\ c.due = ctl.due
      /\ c.pollOut = ctl.pollOut /\ c.fh = ctl.fh /\ c.pid = ctl.pid /\ c.state = ctl.state
      /\ c.task = ctl.task /\ c.script = ctl.script /\ c.outcome = ctl.outcome
      /\ c.child = ctl.child /\ c.open = ctl.open
      /\ c.enabled = ctl.enabled /\ c.listed = ctl.listed \cap {ctl.fh}
      /\ ~ctl.crashed => ~c.crashed
  BY <1>1 DEF CtlType
<1>3. Clean(ctl) => Clean(c)
  BY <1>2 DEF Clean
<1>4. UnderWay(ctl) => UnderWay(c)
  BY <1>2 DEF UnderWay, Known
<1>5. QED
  BY <1>2, <1>3, <1>4 DEF CtlInv

LEMMA PollReturnsStep == ASSUME IInv, PollReturns PROVE IInv'
<1>1. RestOK /\ CtlOK /\ EventsAreThere
  BY IInvParts
<1>2. Pollable /\ UNCHANGED <<mode, pipe, status, answered>>
  BY DEF PollReturns
<1>3. CtlInv(ctl') /\ ctl'.outcome = ctl.outcome
  BY <1>1, SweepLemma DEF PollReturns, CtlOK
<1>4. ctl.fh \in Tasks
  BY <1>1, <1>2 DEF Pollable, CtlOK, CtlInv, Clean, UnderWay, Known, CtlType
<1>5. "OUT" \in Ready("stdin") => "ERR" \in Ready("stdin")
  <2>1. ctl.pollOut # {} => ctl.open = {}
    BY <1>1 DEF CtlOK, CtlInv, Clean, UnderWay, Known
  <2>2. QED
    BY <2>1 DEF Ready
<1>6. \A s \in Streams : Ready(s) \in SUBSET {"IN", "ERR", "OUT"}
  BY DEF Ready
<1>7. RestOK'
  <2>1. polled' \in Tasks /\ polledAnswer' \in BOOLEAN
    BY <1>4 DEF PollReturns, AnswerInReach
  <2>2. revents' = [s \in Streams |-> Ready(s)]
    BY DEF PollReturns
  <2>3. revents' \in [Streams -> SUBSET {"IN", "ERR", "OUT"}]
    BY <1>6, <2>2
  <2>4. "OUT" \in revents'["stdin"] => "ERR" \in revents'["stdin"]
    BY <1>5, <2>2 DEF Streams
  <2>5. AnswersAreReal'
    BY <1>1, <1>2 DEF RestOK, AnswersAreReal
  <2>6. QED
    BY <1>1, <1>2, <2>1, <2>3, <2>4, <2>5 DEF RestOK
<1>8. CtlOK'
  BY <1>1, <1>2, <1>3 DEF CtlOK, PollReturns
<1>9. EventsAreThere'
  BY <1>2 DEF EventsAreThere, PollReturns, Ready, OutStreams, Streams
<1>10. QED
  BY <1>7, <1>8, <1>9, IInvParts, PTL

LEMMA PollLoopEndsStep == ASSUME IInv, PollLoopEnds PROVE IInv'
<1>1. RestOK /\ CtlOK /\ EventsAreThere
  BY IInvParts
<1>2. UNCHANGED <<mode, polled, revents, pipe, status, answered, polledAnswer>>
  BY DEF PollLoopEnds
<1>3. CtlInv(ctl') /\ ctl'.outcome = ctl.outcome
  BY <1>1, SweepLemma DEF PollLoopEnds, CtlOK
<1>4. RestOK'
  BY <1>1, <1>2 DEF RestOK, AnswersAreReal
<1>5. CtlOK'
  BY <1>1, <1>2, <1>3 DEF CtlOK, PollLoopEnds
<1>6. EventsAreThere'
  BY DEF EventsAreThere, PollLoopEnds
<1>7. QED
  BY <1>4, <1>5, <1>6, IInvParts, PTL

\* A served stream has no events any more.
LEMMA ServedLemma ==
  ASSUME RestOK, NEW s \in Streams, Served(s)
  PROVE  /\ revents' \in [Streams -> SUBSET {"IN", "ERR", "OUT"}]
         /\ "OUT" \in revents'["stdin"] => "ERR" \in revents'["stdin"]
BY DEF RestOK, Served, Streams

LEMMA SkipStaleStep == ASSUME IInv, NEW s \in Streams, SkipStale(s) PROVE IInv'
<1>1. RestOK /\ CtlOK /\ EventsAreThere
  BY IInvParts
<1>2. UNCHANGED <<mode, pc, ctl, polled, pipe, status, answered, polledAnswer>>
  BY DEF SkipStale
<1>3. RestOK'
  <2>1. AnswersAreReal'
    BY <1>1, <1>2 DEF RestOK, AnswersAreReal
  <2>2. QED
    BY <1>1, <1>2, <2>1, ServedLemma DEF RestOK, SkipStale
<1>4. CtlOK'
  BY <1>1, <1>2 DEF CtlOK
<1>5. EventsAreThere'
  BY <1>2 DEF EventsAreThere, Deliverable, SkipStale
<1>6. QED
  BY <1>3, <1>4, <1>5, IInvParts, PTL

LEMMA DispatchStdinStep == ASSUME IInv, DispatchStdin PROVE IInv'
<1>1. RestOK /\ CtlOK /\ EventsAreThere
  BY IInvParts
<1>2. Deliverable(ctl) /\ Served("stdin") /\ IsNext("stdin")
      /\ UNCHANGED <<mode, pc, polled, status, answered, polledAnswer>>
  BY DEF DispatchStdin
<1>3. UnderWay(ctl) /\ ctl.fh = polled /\ ctl.fh # "none"
  BY <1>1, <1>2, DeliverableLemma DEF CtlOK
<1> PICK o \in SpawnOutcomes :
      LET c == IF "ERR" \in revents["stdin"] THEN OnError(ctl, o) ELSE ctl
      IN  ControllerDoes(IF "OUT" \in revents["stdin"] /\ polled \in c.enabled
                         THEN OnReadyToWrite(c) ELSE c, pipe)
  BY DEF DispatchStdin
<1> DEFINE c == IF "ERR" \in revents["stdin"] THEN OnError(ctl, o) ELSE ctl
<1>4. /\ CtlInv(c) /\ c.outcome # "done"
      /\ "ERR" \in revents["stdin"] => polled \notin c.enabled
  <2>1. ctl.outcome # "done" /\ CtlInv(ctl)
    BY <1>3 DEF UnderWay, CtlInv
  <2>2. QED
    BY <1>3, <2>1, OnErrorLemma
<1>5. ControllerDoes(c, pipe)
  <2>1. ~("OUT" \in revents["stdin"] /\ polled \in c.enabled)
    BY <1>1, <1>4 DEF RestOK
  <2>2. QED
    BY <2>1
<1> HIDE DEF c
<1>6. ctl' = c
  BY <1>5 DEF ControllerDoes
<1>7. RestOK'
  <2>1. 0 \in 0 .. Len(pipe["stdout"]) /\ "stdout" \in OutStreams /\ "stdin" \in Streams
    BY <1>1 DEF RestOK, OutStreams, Streams
  <2>2. pipe' \in [OutStreams -> Seq(Line)] /\ AnswersAreReal'
    BY <1>1, <1>2, <1>5, <2>1, PipeLemma
  <2>3. QED
    BY <1>1, <1>2, <2>1, <2>2, ServedLemma DEF RestOK
<1>8. CtlOK'
  BY <1>1, <1>2, <1>4, <1>6 DEF CtlOK, IsNext
<1>9. EventsAreThere'
  BY <1>1, <1>2, <1>3, <1>5, <1>6 DEF EventsAreThere, Deliverable, ControllerDoes, Served, RestOK, OutStreams, Streams
<1>10. QED
  BY <1>7, <1>8, <1>9, IInvParts, PTL

LEMMA DispatchOutputStep == ASSUME IInv, NEW s \in OutStreams, DispatchOutput(s) PROVE IInv'
<1>1. RestOK /\ CtlOK /\ EventsAreThere
  BY IInvParts
<1>2. Deliverable(ctl) /\ Served(s) /\ IsNext(s) /\ s \in Streams
      /\ UNCHANGED <<mode, pc, polled, status, answered, polledAnswer>>
  BY DEF DispatchOutput, OutStreams, Streams
<1>3. UnderWay(ctl) /\ ctl.fh = polled /\ ctl.fh # "none"
  BY <1>1, <1>2, DeliverableLemma DEF CtlOK
<1> PICK n \in 0 .. Len(pipe[s]), o \in SpawnOutcomes :
      /\ n >= ReadMax \/ n = Len(pipe[s]) \/ (ReadErrors /\ n = 0)
      /\ ControllerDoes(OnReadyToRead(ctl, s, SubSeq(pipe[s], 1, n), o),
                        [pipe EXCEPT ![s] = SubSeq(@, n + 1, Len(@))])
  BY DEF DispatchOutput
<1> DEFINE c == OnReadyToRead(ctl, s, SubSeq(pipe[s], 1, n), o)
<1>4. /\ CtlInv(c)
      /\ c.outcome = "done" => \E i \in DOMAIN SubSeq(pipe[s], 1, n) :
                                 IsAnswer(mode, SubSeq(pipe[s], 1, n)[i])
  <2>1. pipe[s] \in Seq(Line) /\ pipe[s] # << >>
    BY <1>1, <1>2 DEF EventsAreThere, RestOK, IsNext
  <2>2. SubSeq(pipe[s], 1, n) = << >> => ReadErrors
    BY <2>1, BoundsAssumption
  <2>3. QED
    BY <1>3, <2>2, OnReadyToReadLemma
<1> HIDE DEF c
<1>5. ctl' = c
  BY DEF ControllerDoes, c
<1>6. RestOK'
  <2>1. pipe' \in [OutStreams -> Seq(Line)] /\ AnswersAreReal'
    BY <1>1, <1>2, PipeLemma
  <2>2. QED
    BY <1>1, <1>2, <2>1, ServedLemma DEF RestOK
<1>7. c.outcome = "done" => answered
  BY <1>1, <1>4 DEF RestOK, AnswersAreReal
<1>8. CtlOK'
  BY <1>1, <1>2, <1>4, <1>5, <1>7 DEF CtlOK, IsNext
<1>9. EventsAreThere'
  BY <1>1, <1>2, <1>3, <1>5 DEF EventsAreThere, Deliverable, ControllerDoes, Served, RestOK, OutStreams, Streams, c
<1>10. QED
  BY <1>6, <1>8, <1>9, IInvParts, PTL

LEMMA TimerFiresStep == ASSUME IInv, TimerFires PROVE IInv'
<1>1. RestOK /\ CtlOK /\ EventsAreThere
  BY IInvParts
<1>2. Deliverable(ctl) /\ UNCHANGED <<mode, polled, revents, status, answered, polledAnswer>>
  BY DEF TimerFires, TimerDue
<1>3. UnderWay(ctl) /\ ctl.fh = polled /\ ctl.fh # "none"
  BY <1>1, <1>2, DeliverableLemma DEF CtlOK
<1> PICK o \in SpawnOutcomes :
      ControllerDoes(OnTimer([ctl EXCEPT !.due = @ \ {polled}], o), pipe)
  BY DEF TimerFires
<1> DEFINE c == [ctl EXCEPT !.due = @ \ {polled}]
<1>4. Known(c) /\ c.task # "none" /\ c.state = ctl.state /\ c.fh # "none"
  BY <1>3 DEF UnderWay, Known, CtlType
<1> HIDE DEF c
<1>5. Clean(ctl') /\ ctl'.outcome = "failed"
  BY <1>4, OnTimerLemma DEF ControllerDoes, c
<1>6. RestOK'
  <2>1. 0 \in 0 .. Len(pipe["stdout"]) /\ "stdout" \in OutStreams
    BY <1>1 DEF RestOK, OutStreams
  <2>2. pipe' \in [OutStreams -> Seq(Line)] /\ AnswersAreReal'
    BY <1>1, <1>2, <2>1, PipeLemma
  <2>3. QED
    BY <1>1, <1>2, <2>2 DEF RestOK
<1>7. CtlOK'
  BY <1>5 DEF CtlOK, CtlInv, TimerFires
<1>8. EventsAreThere'
  BY DEF EventsAreThere, TimerFires
<1>9. QED
  BY <1>6, <1>7, <1>8, IInvParts, PTL

LEMMA RoundEndsStep == ASSUME IInv, RoundEnds PROVE IInv'
<1>1. RestOK /\ CtlOK /\ EventsAreThere
  BY IInvParts
<1>2. RestOK'
  BY <1>1 DEF RestOK, AnswersAreReal, RoundEnds
<1>3. CtlOK'
  BY <1>1 DEF CtlOK, RoundEnds
<1>4. EventsAreThere'
  BY DEF EventsAreThere, RoundEnds
<1>5. QED
  BY <1>2, <1>3, <1>4, IInvParts, PTL

LEMMA MainReturnsStep == ASSUME IInv, MainReturns PROVE IInv'
<1>1. RestOK /\ CtlOK /\ EventsAreThere
  BY IInvParts
<1>2. ControllerDoes(Cleanup(ctl), pipe) /\ status' \in {0, 1}
      /\ UNCHANGED <<mode, polled, revents, answered, polledAnswer>>
  BY DEF MainReturns
<1>3. Known(ctl)
  BY <1>1, CleanKnown DEF CtlOK, CtlInv, UnderWay
<1>4. Clean(ctl') /\ ctl'.outcome = ctl.outcome
  BY <1>2, <1>3, CleanupLemma DEF ControllerDoes
<1>5. RestOK'
  <2>1. 0 \in 0 .. Len(pipe["stdout"]) /\ "stdout" \in OutStreams
    BY <1>1 DEF RestOK, OutStreams
  <2>2. pipe' \in [OutStreams -> Seq(Line)] /\ AnswersAreReal'
    BY <1>1, <1>2, <2>1, PipeLemma
  <2>3. QED
    BY <1>1, <1>2, <2>2 DEF RestOK
<1>6. CtlOK'
  BY <1>1, <1>2, <1>4 DEF CtlOK, CtlInv, MainReturns
<1>7. EventsAreThere'
  BY DEF EventsAreThere, MainReturns
<1>8. QED
  BY <1>5, <1>6, <1>7, IInvParts, PTL

\* What happens to adb and its timers outside the host.
LEMMA OutsideCtlLemma ==
  ASSUME IInv, NEW t \in Tasks,
         ChildExits(t) \/ TimerExpires(t) \/ \E s \in Streams : ChildCloses(t, s)
  PROVE  IInv'
<1>1. RestOK /\ CtlOK /\ EventsAreThere
  BY IInvParts
<1>2. UNCHANGED <<mode, pc, polled, revents, pipe, status, answered, polledAnswer>>
  BY DEF ChildExits, TimerExpires, ChildCloses
<1>3. ctl.fh = t /\ ctl.task # "none" /\ UnderWay(ctl) /\ ctl \in CtlType
  BY <1>1 DEF CtlOK, CtlInv, Clean, UnderWay, Known, CtlType, Tasks, ChildExits, TimerExpires,
     ChildCloses, Running
<1>4. /\ ctl'.fh = ctl.fh /\ ctl'.enabled = ctl.enabled /\ ctl'.listed = ctl.listed
      /\ UnderWay(ctl')
  <2>1. CASE ChildExits(t)
    <3> DEFINE ch == [ctl.child EXCEPT ![t] = "zombie"]
    <3>1. ch \in [Tasks -> ChildStates] /\ \A u \in Tasks : u # t => ch[u] = ctl.child[u]
      BY <1>3 DEF CtlType, ChildStates
    <3>2. ctl' = [ctl EXCEPT !.child = ch, !.open = {}] /\ ctl.pid = t
      BY <2>1 DEF ChildExits, Running
    <3> HIDE DEF ch
    <3>3. /\ ctl' \in CtlType /\ ctl'.child = ch /\ ctl'.open = {}
          /\ ctl'.armed = ctl.armed /\ ctl'.due = ctl.due
          /\ ctl'.pollOut = ctl.pollOut /\ ctl'.fh = ctl.fh /\ ctl'.pid = ctl.pid
          /\ ctl'.task = ctl.task /\ ctl'.script = ctl.script /\ ctl'.outcome = ctl.outcome
          /\ ctl'.state = ctl.state /\ (~ctl.crashed => ~ctl'.crashed)
          /\ ctl'.enabled = ctl.enabled /\ ctl'.listed = ctl.listed
      BY <1>3, <3>1, <3>2 DEF CtlType
    <3>4. QED
      BY <1>3, <3>1, <3>2, <3>3 DEF UnderWay, Known
  <2>2. CASE TimerExpires(t)
    <3>1. /\ ctl' \in CtlType /\ ctl'.child = ctl.child /\ ctl'.open = ctl.open
          /\ ctl'.armed = ctl.armed \ {t} /\ ctl'.due = ctl.due \cup {t}
          /\ ctl'.pollOut = ctl.pollOut /\ ctl'.fh = ctl.fh /\ ctl'.pid = ctl.pid
          /\ ctl'.task = ctl.task /\ ctl'.script = ctl.script /\ ctl'.outcome = ctl.outcome
          /\ ctl'.state = ctl.state /\ (~ctl.crashed => ~ctl'.crashed)
          /\ ctl'.enabled = ctl.enabled /\ ctl'.listed = ctl.listed
      BY <1>3, <2>2 DEF CtlType, TimerExpires
    <3>2. t \in ctl.armed
      BY <2>2 DEF TimerExpires
    <3>3. QED
      BY <1>3, <3>1, <3>2 DEF UnderWay, Known
  <2>3. ASSUME NEW s \in Streams, ChildCloses(t, s)
        PROVE  /\ ctl'.fh = ctl.fh /\ ctl'.enabled = ctl.enabled /\ ctl'.listed = ctl.listed
               /\ UnderWay(ctl')
    <3>1. /\ ctl' \in CtlType /\ ctl'.child = ctl.child /\ ctl'.open = ctl.open \ {s}
          /\ ctl'.armed = ctl.armed /\ ctl'.due = ctl.due
          /\ ctl'.pollOut = ctl.pollOut /\ ctl'.fh = ctl.fh /\ ctl'.pid = ctl.pid
          /\ ctl'.task = ctl.task /\ ctl'.script = ctl.script /\ ctl'.outcome = ctl.outcome
          /\ ctl'.state = ctl.state /\ (~ctl.crashed => ~ctl'.crashed)
          /\ ctl'.enabled = ctl.enabled /\ ctl'.listed = ctl.listed
      BY <1>3, <2>3 DEF CtlType, ChildCloses
    <3>2. QED
      BY <1>3, <3>1 DEF UnderWay, Known
  <2>4. QED
    BY <2>1, <2>2, <2>3
<1>5. RestOK'
  BY <1>1, <1>2 DEF RestOK, AnswersAreReal
<1>6. CtlOK'
  <2>1. ctl # InitCtl /\ ~Clean(ctl)
    BY <1>3 DEF InitCtl, Clean
  <2>2. ctl'.outcome # "done"
    BY <1>4 DEF UnderWay
  <2>3. QED
    BY <1>1, <1>2, <1>4, <2>1, <2>2 DEF CtlOK, CtlInv
<1>7. EventsAreThere'
  BY <1>1, <1>2, <1>4 DEF EventsAreThere, Deliverable
<1>8. QED
  BY <1>5, <1>6, <1>7, IInvParts, PTL

\* What adb writes: some other line, or the agent's answer with answered set.
LEMMA ArrivesLemma ==
  ASSUME IInv, NEW s \in OutStreams, NEW l \in Line, Arrives(s, l),
         IsAnswer(mode, l) => answered', answered => answered', answered' \in BOOLEAN,
         UNCHANGED <<mode, pc, ctl, polled, revents, status, polledAnswer>>
  PROVE  IInv'
<1>1. RestOK /\ CtlOK /\ EventsAreThere
  BY IInvParts
<1>2. pipe[s] \in Seq(Line) /\ pipe' = [pipe EXCEPT ![s] = Append(@, l)]
  BY <1>1 DEF RestOK, Arrives
<1>3. pipe' \in [OutStreams -> Seq(Line)]
  BY <1>1, <1>2 DEF RestOK
<1>4. ASSUME NEW r \in OutStreams, NEW i \in DOMAIN pipe'[r]
      PROVE  pipe'[r][i] = l \/ \E j \in DOMAIN pipe[r] : pipe'[r][i] = pipe[r][j]
  <2>1. CASE r = s
    BY <1>1, <1>2, <1>4, <2>1 DEF RestOK
  <2>2. CASE r # s
    BY <1>1, <1>2, <1>4, <2>2 DEF RestOK
  <2>3. QED
    BY <2>1, <2>2
<1>5. AnswersAreReal'
  <2>1. ASSUME NEW r \in OutStreams, NEW i \in DOMAIN pipe'[r], IsAnswer(mode, pipe'[r][i])
        PROVE  answered'
    BY <1>1, <1>4, <2>1 DEF RestOK, AnswersAreReal
  <2>2. mode' = mode
    OBVIOUS
  <2>3. QED
    BY <2>1, <2>2 DEF AnswersAreReal, IsAnswer
<1>6. RestOK'
  BY <1>1, <1>3, <1>5 DEF RestOK
<1>7. CtlOK'
  BY <1>1 DEF CtlOK
<1>8. EventsAreThere'
  <2>1. \A r \in OutStreams : pipe[r] # << >> => pipe'[r] # << >>
    BY <1>1, <1>2 DEF RestOK
  <2>2. QED
    BY <1>1, <2>1 DEF EventsAreThere, Deliverable
<1>9. QED
  BY <1>6, <1>7, <1>8, IInvParts, PTL

LEMMA ChildWritesStep ==
  ASSUME IInv, NEW t \in Tasks, NEW s \in OutStreams, ChildWrites(t, s)
  PROVE  IInv'
<1> PICK l \in OtherLines : Arrives(s, l)
  BY DEF ChildWrites
<1>1. l \in Line /\ mode \in Modes /\ answered \in BOOLEAN
  BY LinesAssumption DEF IInv, TypeOK
<1>2. ~IsAnswer(mode, l)
  BY <1>1, LinesAssumption DEF IsAnswer
<1>3. QED
  BY <1>1, <1>2, ArrivesLemma DEF ChildWrites

LEMMA AgentAnswersStep == ASSUME IInv, AgentAnswers PROVE IInv'
<1>1. Answer(mode) \in Line
  BY LinesAssumption DEF IInv, TypeOK, Answer, Line
<1>2. Arrives("stdout", Answer(mode)) /\ answered' = TRUE /\ "stdout" \in OutStreams
      /\ UNCHANGED <<mode, pc, ctl, polled, revents, status, polledAnswer>>
  BY DEF AgentAnswers, OutStreams
<1>3. QED
  BY <1>1, <1>2, ArrivesLemma

-----------------------------------------------------------------------------
(* The theorems *)

LEMMA InitInv == Init => IInv
<1> SUFFICES ASSUME Init PROVE IInv
  OBVIOUS
<1>1. Clean(InitCtl)
  BY DEF Clean, InitCtl, CtlType, ChildStates, Unreaped
<1>2. \A s \in OutStreams : pipe[s] = << >>
  BY DEF Init
<1>3. RestOK
  <2>1. pipe \in [OutStreams -> Seq(Line)] /\ \A s \in OutStreams : DOMAIN pipe[s] = {}
    BY <1>2 DEF Init
  <2>2. AnswersAreReal
    BY <2>1 DEF AnswersAreReal
  <2>3. /\ revents \in [Streams -> SUBSET {"IN", "ERR", "OUT"}]
        /\ "OUT" \notin revents["stdin"]
    BY DEF Init, Streams
  <2>4. QED
    BY <2>1, <2>2, <2>3 DEF Init, RestOK, NoStatus
<1>4. CtlOK
  BY <1>1 DEF Init, CtlOK, CtlInv, InitCtl
<1>5. QED
  BY <1>3, <1>4, IInvParts DEF EventsAreThere, Init

LEMMA NextInv == IInv /\ [Next]_vars => IInv'
<1> SUFFICES ASSUME IInv, [Next]_vars PROVE IInv'
  OBVIOUS
<1>1. CASE Host
  BY <1>1, StartStep, PollReturnsStep, PollLoopEndsStep, DispatchStdinStep, TimerFiresStep,
     RoundEndsStep, MainReturnsStep, SkipStaleStep, DispatchOutputStep DEF Host
<1>2. CASE Outside
  BY <1>2, OutsideCtlLemma, ChildWritesStep, AgentAnswersStep DEF Outside
<1>3. CASE UNCHANGED vars
  BY <1>3 DEF vars, IInv, TypeOK, EventsAreThere, Deliverable, AnswersAreReal
<1>4. QED
  BY <1>1, <1>2, <1>3 DEF Next, Returned

\* IInv is an invariant of the program.
THEOREM Inductive == Spec => []IInv
BY InitInv, NextInv, PTL DEF Spec

\* The type invariant.
THEOREM TypeCorrect == Spec => []TypeOK
BY Inductive, PTL DEF IInv

\* No callback follows a null pointer, and adb is never written to after it
\* has closed its stdin.
THEOREM Safe == Spec => []NeverCrashes
<1>1. IInv => NeverCrashes
  BY DEF IInv, CtlInv, Clean, UnderWay, Known, NeverCrashes
<1>2. QED
  BY Inductive, <1>1, PTL

\* Success is reported only for this run's own answer.
THEOREM DoneIsReal == Spec => []DoneMeansAnswered
<1>1. IInv => DoneMeansAnswered
  BY DEF IInv, DoneMeansAnswered
<1>2. QED
  BY Inductive, <1>1, PTL

\* There is never an adb that the controller does not know: the next cleanup
\* waits for every adb that was ever started.
THEOREM NoAdbLost == Spec => []NoAdbOutOfReach
<1>1. IInv => NoAdbOutOfReach
  BY CleanKnown DEF IInv, CtlInv, UnderWay, Known, NoAdbOutOfReach, Unreaped
<1>2. QED
  BY Inductive, <1>1, PTL

\* No adb is left, running or as a zombie, once the script has ended or main()
\* has returned, by whatever path.
THEOREM NothingLeft == Spec => []NoAdbLeftBehind
<1>1. IInv => NoAdbLeftBehind
  <2> SUFFICES ASSUME IInv, ctl.outcome # "none" \/ pc = "exited", NEW t \in Tasks
               PROVE  ctl.child[t] \in {"unborn", "reaped"}
    BY DEF NoAdbLeftBehind
  <2>1. Clean(ctl)
    BY DEF IInv, CtlInv, UnderWay
  <2>2. ctl.child[t] \in ChildStates /\ ctl.child[t] \notin Unreaped
    BY <2>1 DEF Clean, CtlType
  <2>3. QED
    BY <2>2 DEF ChildStates, Unreaped
<1>2. QED
  BY Inductive, <1>1, PTL

\* A timer reaches only the task that has started it.
THEOREM TimersAreApart == Spec => []TimerOfCurrentTask
<1>1. IInv => TimerOfCurrentTask
  BY DEF IInv, CtlInv, Clean, UnderWay, TimerOfCurrentTask
<1>2. QED
  BY Inductive, <1>1, PTL

\* Whatever is looked up in the list when it is served, is served to the task
\* whose adb was polled, unless the task has none.
LEMMA ServedOwn ==
  ASSUME IInv, Deliverable(ctl)
  PROVE  polled = ctl.task \/ (ctl.task # "none" /\ ctl.pid = "none")
BY DeliverableLemma DEF IInv, UnderWay

\* Events that were polled before the task changed have no effect on the next
\* task, and neither have timers.
THEOREM EventsAreApart == Spec => OwnEventsOnly
<1> DEFINE Serves == /\ pc = "dispatch" /\ <<pc, revents>>' # <<pc, revents>>
                     /\ <<ctl, pipe>>' # <<ctl, pipe>>
           Own == polled = ctl.task \/ (ctl.task # "none" /\ ctl.pid = "none")
<1>1. IInv /\ [Next]_vars => [Serves => Own]_vars
  <2> SUFFICES ASSUME IInv, [Next]_vars, Serves PROVE Own
    OBVIOUS
  <2>1. CASE Outside \/ Returned \/ UNCHANGED vars
    <3>1. UNCHANGED <<pc, revents>>
      BY <2>1 DEF Outside, AgentAnswers, ChildExits, TimerExpires, ChildWrites, ChildCloses,
         Returned, vars
    <3> QED
      BY <3>1
  <2>2. CASE Start \/ PollReturns \/ PollLoopEnds \/ MainReturns
    BY <2>2 DEF Start, PollReturns, PollLoopEnds, MainReturns
  <2>3. CASE RoundEnds \/ \E s \in Streams : SkipStale(s)
    BY <2>3 DEF RoundEnds, SkipStale
  <2>4. CASE DispatchStdin \/ TimerFires \/ \E s \in OutStreams : DispatchOutput(s)
    <3>1. Deliverable(ctl)
      BY <2>4 DEF DispatchStdin, TimerFires, TimerDue, DispatchOutput
    <3> QED
      BY <3>1, ServedOwn
  <2> QED
    BY <2>1, <2>2, <2>3, <2>4 DEF Next, Host
<1> QED
  BY <1>1, Inductive, PTL DEF Spec, OwnEventsOnly

\* A wait for events is always bounded, by a timer or an adb that is gone.
THEOREM WaitsAreBounded == Spec => []NeverWaitsForever
<1>1. IInv => NeverWaitsForever
  <2> SUFFICES ASSUME IInv, Pollable PROVE ctl.fh \in ctl.armed \cup ctl.due \/ Wakes
    BY DEF NeverWaitsForever
  <2>1. UnderWay(ctl) /\ ctl.fh # "none"
    BY DEF IInv, CtlInv, Clean, UnderWay, Known, Pollable, CtlType, Tasks
  <2>2. ctl.pid = "none" => ctl.open = {}
    BY <2>1 DEF UnderWay, Known
  <2>3. ctl.open = {} => Wakes
    BY DEF Wakes, OutStreams
  <2>4. QED
    BY <2>1, <2>2, <2>3 DEF UnderWay
<1>2. QED
  BY Inductive, <1>1, PTL

-----------------------------------------------------------------------------
(* An answer that is there when poll() returns ends the script with success *)
(* in the same round, whatever adb and the clock do meanwhile.              *)

\* The answer is among the lines that the next Read of stdout takes.
InReach == \E i \in 1 .. Len(pipe["stdout"]) : i <= ReadMax /\ IsAnswer(mode, pipe["stdout"][i])

\* Until stdout is served the answer waits for it, and nothing that is served
\* before can end the task.
Waits ==
  /\ ctl.task = "logcat" /\ ctl.fh = "logcat" /\ polled = "logcat"
  /\ "ERR" \notin revents["stdin"] /\ revents["stdout"] # {}
  /\ InReach

AnswerHeld ==
  pc = "dispatch" /\ polledAnswer /\ ~ReadErrors => ctl.outcome = "done" \/ Waits

\* What waits is an event of handlers that are alive and enabled.
LEMMA WaitsDeliverable == ASSUME IInv, Waits PROVE Deliverable(ctl) /\ UnderWay(ctl)
BY DEF IInv, CtlInv, Clean, UnderWay, Known, Waits, Deliverable

\* Once the script is done no event is delivered and no timer fires.
LEMMA DoneUndeliverable == ASSUME IInv, ctl.outcome = "done" PROVE ~Deliverable(ctl)
BY DeliverableLemma DEF IInv, UnderWay

\* The last task's Next ends the script with success.
LEMMA LogcatNextLemma ==
  ASSUME NEW c, c.task = "logcat", c.script = "logcat", Known(c),
         c.state = "Running" => c.fh # "none", NEW o \in SpawnOutcomes
  PROVE  SwitchTask(c, "Next", o).outcome = "done"
<1> DEFINE d == TaskCleanup(c)
<1>1. Known(d) /\ d.script = "logcat"
  BY TaskCleanupLemma
<1>2. SwitchTask(c, "Next", o) = [Cleanup(d) EXCEPT !.outcome = "done"]
  BY <1>1 DEF SwitchTask, HasNext
<1> HIDE DEF d
<1>3. QED
  BY <1>1, <1>2, SettleLemma

\* More output does not move the answer.
LEMMA ArrivesInReach ==
  ASSUME TypeOK, InReach, NEW s \in OutStreams, NEW l, Arrives(s, l), mode' = mode
  PROVE  InReach'
<1> PICK i \in 1 .. Len(pipe["stdout"]) : i <= ReadMax /\ IsAnswer(mode, pipe["stdout"][i])
  BY DEF InReach
<1>1. pipe["stdout"] \in Seq(Line) /\ pipe' = [pipe EXCEPT ![s] = Append(@, l)]
  BY DEF TypeOK, OutStreams, Arrives
<1>2. CASE s # "stdout"
  <2>1. pipe'["stdout"] = pipe["stdout"]
    BY <1>1, <1>2 DEF TypeOK, OutStreams
  <2>2. QED
    BY <2>1 DEF InReach
<1>3. CASE s = "stdout"
  <2>1. pipe'["stdout"] = Append(pipe["stdout"], l)
    BY <1>1, <1>3 DEF TypeOK, OutStreams
  <2>2. i \in 1 .. Len(pipe'["stdout"]) /\ pipe'["stdout"][i] = pipe["stdout"][i]
    BY <1>1, <2>1
  <2>3. QED
    BY <2>2 DEF InReach
<1>4. QED
  BY <1>2, <1>3

\* poll() reports the answer together with a stdin that is in order.
LEMMA PollReturnsHolds == ASSUME IInv, PollReturns PROVE AnswerHeld'
<1> SUFFICES ASSUME AnswerInReach, ~ReadErrors PROVE Waits'
  BY DEF AnswerHeld, PollReturns
<1>1. ctl.fh = "logcat" /\ "stdin" \in ctl.open /\ InReach
  BY DEF AnswerInReach, InReach
<1>2. ctl.task = "logcat"
  BY <1>1 DEF IInv, CtlInv, Clean, UnderWay, FaultPair
<1>3. ctl'.task = ctl.task /\ ctl'.fh = ctl.fh
  BY DEF PollReturns, IInv, TypeOK, CtlType
<1>4. "ERR" \notin Ready("stdin")
  BY <1>1 DEF Ready
<1>5. Ready("stdout") # {}
  <2>1. pipe["stdout"] # << >>
    BY <1>1 DEF InReach, IInv, TypeOK, OutStreams
  <2>2. QED
    BY <2>1 DEF Ready
<1>6. revents'["stdin"] = Ready("stdin") /\ revents'["stdout"] = Ready("stdout")
  BY DEF PollReturns, Streams
<1>7. InReach'
  BY <1>1 DEF InReach, PollReturns
<1>8. QED
  BY <1>1, <1>2, <1>3, <1>4, <1>5, <1>6, <1>7 DEF Waits, PollReturns

\* Serving stdin without an error changes nothing.
LEMMA DispatchStdinHolds == ASSUME IInv, AnswerHeld, DispatchStdin PROVE AnswerHeld'
<1>1. Deliverable(ctl) /\ UNCHANGED <<mode, pc, polled, polledAnswer>> /\ Served("stdin")
  BY DEF DispatchStdin
<1> SUFFICES ASSUME pc = "dispatch", polledAnswer, ~ReadErrors PROVE Waits'
  BY <1>1 DEF AnswerHeld
<1>2. Waits
  BY <1>1, DoneUndeliverable DEF AnswerHeld
<1>3. "ERR" \notin revents["stdin"] /\ "OUT" \notin revents["stdin"]
  BY <1>2 DEF Waits, IInv
<1>4. ControllerDoes(ctl, pipe)
  BY <1>3 DEF DispatchStdin
<1>5. ctl' = ctl /\ pipe' = pipe
  BY <1>4 DEF ControllerDoes
<1>6. revents'["stdin"] = {} /\ revents'["stdout"] = revents["stdout"]
  BY <1>1 DEF Served, IInv, TypeOK, Streams
<1>7. InReach'
  BY <1>1, <1>2, <1>5 DEF Waits, InReach
<1>8. QED
  BY <1>1, <1>2, <1>5, <1>6, <1>7 DEF Waits

\* Serving stdout finds the answer.
LEMMA DispatchOutputHolds ==
  ASSUME IInv, AnswerHeld, NEW s \in OutStreams, DispatchOutput(s)
  PROVE  AnswerHeld'
<1>1. Deliverable(ctl) /\ IsNext(s) /\ UNCHANGED <<pc, polledAnswer>>
  BY DEF DispatchOutput
<1> SUFFICES ASSUME pc = "dispatch", polledAnswer, ~ReadErrors PROVE ctl'.outcome = "done"
  BY <1>1 DEF AnswerHeld
<1>2. Waits /\ UnderWay(ctl)
  BY <1>1, DoneUndeliverable, WaitsDeliverable DEF AnswerHeld
<1>3. s = "stdout"
  BY <1>1, <1>2 DEF IsNext, Earlier, OutStreams, Waits
<1> PICK n \in 0 .. Len(pipe[s]), o \in SpawnOutcomes :
      /\ n >= ReadMax \/ n = Len(pipe[s]) \/ (ReadErrors /\ n = 0)
      /\ ControllerDoes(OnReadyToRead(ctl, s, SubSeq(pipe[s], 1, n), o),
                        [pipe EXCEPT ![s] = SubSeq(@, n + 1, Len(@))])
  BY DEF DispatchOutput
<1> PICK i \in 1 .. Len(pipe["stdout"]) : i <= ReadMax /\ IsAnswer(mode, pipe["stdout"][i])
  BY <1>2 DEF Waits, InReach
<1> DEFINE lines == SubSeq(pipe[s], 1, n)
<1>4. pipe[s] \in Seq(Line) /\ ReadMax \in Nat
  BY BoundsAssumption DEF IInv, TypeOK
<1>5. i <= n
  BY <1>3, <1>4
<1>6. i \in DOMAIN lines /\ lines[i] = pipe[s][i]
  BY <1>3, <1>4, <1>5
<1>7. OnDataReady("logcat", mode, s, lines) = "Next"
  <2>1. \E j \in DOMAIN lines : IsAnswer(mode, lines[j])
    BY <1>3, <1>6
  <2> HIDE DEF lines
  <2>2. QED
    BY <2>1, <1>3 DEF OnDataReady
<1>8. ctl' = SwitchTask(ctl, "Next", o)
  BY <1>2, <1>7 DEF ControllerDoes, OnReadyToRead, Waits
<1>9. QED
  BY <1>2, <1>8, LogcatNextLemma DEF Waits, UnderWay

\* Nothing that the outside does reaches what the poll round has seen.
LEMMA OutsideHolds == ASSUME IInv, AnswerHeld, Outside PROVE AnswerHeld'
<1>1. UNCHANGED <<mode, pc, polled, revents, polledAnswer>>
  BY DEF Outside, AgentAnswers, ChildExits, TimerExpires, ChildWrites, ChildCloses
<1>2. ctl'.task = ctl.task /\ ctl'.fh = ctl.fh /\ ctl'.outcome = ctl.outcome
  BY DEF Outside, AgentAnswers, ChildExits, TimerExpires, ChildWrites, ChildCloses,
     IInv, TypeOK, CtlType
<1>3. ASSUME InReach PROVE InReach'
  <2>1. CASE pipe' = pipe
    BY <1>1, <1>3, <2>1 DEF InReach
  <2>2. CASE \E s \in OutStreams, l \in OtherLines \cup {Answer(mode)} : Arrives(s, l)
    BY <1>1, <1>3, <2>2, ArrivesInReach DEF IInv
  <2>3. QED
    BY <2>1, <2>2 DEF Outside, AgentAnswers, ChildExits, TimerExpires, ChildWrites, ChildCloses, OutStreams
<1>4. QED
  BY <1>1, <1>2, <1>3 DEF AnswerHeld, Waits

\* AnswerHeld is inductive, given IInv.
LEMMA HeldStep == IInv /\ AnswerHeld /\ [Next]_vars => AnswerHeld'
<1> SUFFICES ASSUME IInv, AnswerHeld, [Next]_vars PROVE AnswerHeld'
  OBVIOUS
<1>1. CASE Start \/ PollLoopEnds \/ TimerFires \/ RoundEnds \/ MainReturns
  BY <1>1 DEF Start, PollLoopEnds, TimerFires, RoundEnds, MainReturns, AnswerHeld
<1>2. ASSUME NEW s \in Streams, SkipStale(s) PROVE AnswerHeld'
  BY <1>2, WaitsDeliverable DEF SkipStale, AnswerHeld
<1>3. CASE UNCHANGED vars
  BY <1>3 DEF vars, AnswerHeld, Waits, InReach
<1>4. QED
  BY <1>1, <1>2, <1>3, PollReturnsHolds, DispatchStdinHolds, DispatchOutputHolds, OutsideHolds
     DEF Next, Host, Returned

\* A step that ends the round ends it with success if it was an answer's.
LEMMA WinsStep ==
  IInv /\ AnswerHeld /\ [Next]_vars =>
    [pc = "dispatch" /\ pc' # "dispatch" /\ polledAnswer /\ ~ReadErrors => ctl'.outcome = "done"]_vars
<1> SUFFICES ASSUME IInv, AnswerHeld, [Next]_vars,
                    pc = "dispatch", pc' # "dispatch", polledAnswer, ~ReadErrors
             PROVE  ctl'.outcome = "done"
  OBVIOUS
<1>1. TimerFires \/ RoundEnds
  BY DEF Next, Host, Outside, Returned, vars, Start, PollReturns, PollLoopEnds, DispatchStdin,
     MainReturns, SkipStale, DispatchOutput, AgentAnswers, ChildExits, TimerExpires,
     ChildWrites, ChildCloses
<1>2. revents["stdout"] = {}
  BY <1>1 DEF TimerFires, RoundEnds, AllServed, Streams
<1>3. ctl.outcome = "done"
  BY <1>2 DEF AnswerHeld, Waits
<1>4. ~TimerFires
  BY <1>3, DoneUndeliverable DEF TimerFires, TimerDue
<1>5. QED
  BY <1>1, <1>3, <1>4 DEF RoundEnds

\* An answer that was there when poll() returned wins over the timer and over
\* the end of adb.
THEOREM AnswerWins == Spec => PolledAnswerWins
<1>1. Init => AnswerHeld
  BY DEF Init, AnswerHeld
<1>2. QED
  BY <1>1, Inductive, HeldStep, WinsStep, PTL DEF Spec, PolledAnswerWins
=============================================================================
