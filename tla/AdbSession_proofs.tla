-------------------------- MODULE AdbSession_proofs --------------------------
(***************************************************************************)
(* The host program implements the abstract session, for every set of      *)
(* lines, pipe capacity, read limit and combination of faults: under the   *)
(* mapping of AdbController each of its steps is a step of AdbSession or   *)
(* changes nothing there.  Most steps leave the script where it is; those  *)
(* that do not take it Onward, and that is all AdbSession speaks of.       *)
(***************************************************************************)
EXTENDS AdbController_proofs

\* A clean controller has no adb; what stage it is at is its outcome.
LEMMA CleanMapping ==
  ASSUME Clean(ctl)
  PROVE  ~AdbAlive /\ (ctl.outcome # "none" => Stage = ctl.outcome)
BY DEF Clean, AdbAlive, Unreaped, Stage

\* While a script is under way its stage is its task.
LEMMA UnderWayMapping ==
  ASSUME UnderWay(ctl), pc # "exited"
  PROVE  Stage = IF ctl.task = "logcat" THEN "waiting" ELSE "launching"
BY DEF UnderWay, Stage

\* A step that leaves the script's task and outcome and the life of adb alone
\* is none of the session's.
LEMMA SameStage ==
  ASSUME ctl'.task = ctl.task, ctl'.outcome = ctl.outcome, (pc' = "exited") = (pc = "exited"),
         \A t \in Tasks : ctl'.child[t] \in Unreaped <=> ctl.child[t] \in Unreaped,
         answered' = answered
  PROVE  UNCHANGED Session!session
BY DEF Stage, AdbAlive, Session!session, Unreaped

\* Going onward is a step of the session.
LEMMA OnwardStep ==
  ASSUME UnderWay(ctl), Onward(ctl, ctl'), pc # "exited", pc' # "exited",
         answered' = answered, ctl'.outcome = "done" => answered'
  PROVE  Session!Next
<1>1. Stage = IF ctl.task = "logcat" THEN "waiting" ELSE "launching"
  BY UnderWayMapping
<1>2. CASE Clean(ctl') /\ ctl'.outcome \in {"failed", "done"}
  <2>1. Stage' = ctl'.outcome /\ AdbAlive' = FALSE
    BY <1>2 DEF Clean, AdbAlive, Unreaped, Stage
  <2>2. ctl'.outcome = "done" => ctl.task = "logcat" /\ answered
    BY <1>2 DEF Onward, UnderWay
  <2>3. Session!Settle
    BY <1>1, <1>2, <2>1, <2>2 DEF Session!Settle, Session!Unsettled
  <2>4. QED
    BY <2>3 DEF Session!Next
<1>3. CASE UnderWay(ctl') /\ ctl'.task = "logcat" /\ ctl.task = "launch"
  <2>1. Stage' = "waiting"
    BY <1>3 DEF UnderWay, Stage
  <2>2. AdbAlive' \in BOOLEAN
    BY DEF AdbAlive
  <2>3. Session!Wait
    BY <1>1, <1>3, <2>1, <2>2 DEF Session!Wait
  <2>4. QED
    BY <2>3 DEF Session!Next
<1>4. QED
  BY <1>2, <1>3 DEF Onward

-----------------------------------------------------------------------------
(* The steps *)

LEMMA StartMaps == ASSUME IInv, Start PROVE [Session!Next]_Session!session
<1> PICK o \in SpawnOutcomes :
      ControllerDoes(SwitchTask([ctl EXCEPT !.script = "fresh"], "Next", o), pipe)
  BY DEF Start
<1> DEFINE c == [InitCtl EXCEPT !.script = "fresh"]
<1>1. /\ c \in CtlType /\ ~c.crashed /\ c.fh = "none" /\ c.pid = "none" /\ c.open = {}
      /\ c.enabled = {} /\ c.pollOut = {} /\ c.armed = {} /\ c.due = {}
      /\ c.child = [t \in Tasks |-> "unborn"] /\ c.outcome = "none"
      /\ c.script = "fresh" /\ c.task = "none"
  BY DEF InitCtl, CtlType, ChildStates
<1>2. ctl' = SwitchTask(c, "Next", o) /\ ctl = InitCtl
  BY DEF Start, IInv, ControllerDoes
<1> HIDE DEF c
<1>3. Known(c)
  BY <1>1 DEF Known, Unreaped
<1>4. SwitchTask(c, "Next", o) = StartTask(c, "launch", o)
  BY <1>1 DEF SwitchTask, HasNext, NextTask
<1>5. \/ UnderWay(ctl') /\ ctl'.task = "launch"
      \/ Clean(ctl') /\ ctl'.outcome = "failed"
  BY <1>1, <1>2, <1>3, <1>4, StartTaskLemma DEF Tasks
<1>6. Stage = "launching" /\ AdbAlive = FALSE
  BY <1>2 DEF Stage, AdbAlive, InitCtl, Start
<1>7. pc' = "poll" /\ answered' = answered
  BY DEF Start
<1>8. CASE UnderWay(ctl') /\ ctl'.task = "launch"
  <2>1. Stage' = "launching"
    BY <1>7, <1>8 DEF Stage, UnderWay
  <2>2. AdbAlive' \in BOOLEAN
    BY DEF AdbAlive
  <2>3. QED
    BY <1>6, <1>7, <2>1, <2>2 DEF Session!Next, Session!Launch, Session!session
<1>9. CASE Clean(ctl') /\ ctl'.outcome = "failed"
  <2>1. Stage' = "failed" /\ AdbAlive' = FALSE
    BY <1>9 DEF Stage, AdbAlive, Clean, Unreaped
  <2>2. QED
    BY <1>6, <1>7, <2>1 DEF Session!Next, Session!Settle, Session!Unsettled
<1>10. QED
  BY <1>5, <1>8, <1>9

\* An event that is served.
LEMMA DispatchMaps ==
  ASSUME IInv, IInv', DispatchStdin \/ \E s \in OutStreams : DispatchOutput(s)
  PROVE  [Session!Next]_Session!session
<1>1. /\ Deliverable(ctl) /\ UNCHANGED <<mode, pc, answered>>
      /\ pc = "dispatch"
  BY DEF DispatchStdin, DispatchOutput, IsNext
<1>2. UnderWay(ctl) /\ ctl.fh # "none"
  BY <1>1, DeliverableLemma DEF IInv
<1>3. ctl' = ctl \/ Onward(ctl, ctl')
  <2>1. CASE DispatchStdin
    <3> PICK o \in SpawnOutcomes :
          LET c == IF "ERR" \in revents["stdin"] THEN OnError(ctl, o) ELSE ctl
          IN  ControllerDoes(IF "OUT" \in revents["stdin"] /\ polled \in c.enabled
                             THEN OnReadyToWrite(c) ELSE c, pipe)
      BY <2>1 DEF DispatchStdin
    <3>1. CASE "ERR" \in revents["stdin"]
      <4> DEFINE c == OnError(ctl, o)
      <4>1. Onward(ctl, c) /\ polled \notin c.enabled
        BY <1>1, <1>2, OnErrorLemma DEF Deliverable
      <4>2. ctl' = c
        BY <3>1, <4>1 DEF ControllerDoes
      <4>3. QED
        BY <4>1, <4>2
    <3>2. CASE "ERR" \notin revents["stdin"]
      BY <3>2 DEF ControllerDoes, IInv
    <3>3. QED
      BY <3>1, <3>2
  <2>2. ASSUME NEW s \in OutStreams, DispatchOutput(s)
        PROVE  ctl' = ctl \/ Onward(ctl, ctl')
    <3> PICK n \in 0 .. Len(pipe[s]), o \in SpawnOutcomes :
          /\ n >= ReadMax \/ n = Len(pipe[s]) \/ (ReadErrors /\ n = 0)
          /\ ControllerDoes(OnReadyToRead(ctl, s, SubSeq(pipe[s], 1, n), o),
                            [pipe EXCEPT ![s] = SubSeq(@, n + 1, Len(@))])
      BY <2>2 DEF DispatchOutput
    <3>1. pipe[s] \in Seq(Line) /\ pipe[s] # << >>
      BY <1>1, <2>2 DEF EventsAreThere, IInv, TypeOK, DispatchOutput, IsNext
    <3>2. SubSeq(pipe[s], 1, n) = << >> => ReadErrors
      BY <3>1, BoundsAssumption
    <3>3. QED
      BY <1>2, <3>2, OnReadyToReadLemma DEF ControllerDoes
  <2>3. QED
    BY <2>1, <2>2
<1>4. ctl'.outcome = "done" => answered'
  BY DEF IInv
<1>5. CASE ctl' = ctl
  BY <1>1, <1>5, SameStage
<1>6. CASE Onward(ctl, ctl')
  BY <1>1, <1>2, <1>4, <1>6, OnwardStep
<1>7. QED
  BY <1>3, <1>5, <1>6

\* A timer that runs out fails the session.
LEMMA TimerFiresMaps ==
  ASSUME IInv, TimerFires
  PROVE  [Session!Next]_Session!session
<1>1. Deliverable(ctl) /\ pc = "dispatch" /\ pc' = "poll" /\ answered' = answered
  BY DEF TimerFires, TimerDue, AllServed
<1>2. UnderWay(ctl) /\ ctl.fh = polled /\ ctl.fh # "none"
  BY <1>1, DeliverableLemma DEF IInv
<1> PICK o \in SpawnOutcomes :
      ControllerDoes(OnTimer([ctl EXCEPT !.due = @ \ {polled}], o), pipe)
  BY DEF TimerFires
<1> DEFINE c == [ctl EXCEPT !.due = @ \ {polled}]
<1>3. Known(c) /\ c.task # "none" /\ c.state = ctl.state /\ c.fh # "none"
  BY <1>2 DEF UnderWay, Known, CtlType
<1> HIDE DEF c
<1>4. Clean(ctl') /\ ctl'.outcome = "failed"
  BY <1>3, OnTimerLemma DEF ControllerDoes, c
<1>5. QED
  BY <1>1, <1>2, <1>4, OnwardStep DEF Onward

\* main() returns with a session that has settled, or settles it.
LEMMA MainReturnsMaps ==
  ASSUME IInv, MainReturns
  PROVE  [Session!Next]_Session!session
<1>1. pc = "exit" /\ pc' = "exited" /\ answered' = answered /\ ctl' = Cleanup(ctl)
  BY DEF MainReturns, ControllerDoes
<1>2. Known(ctl)
  BY CleanKnown DEF IInv, CtlInv, UnderWay
<1>3. Clean(ctl') /\ ctl'.outcome = ctl.outcome
  BY <1>1, <1>2, CleanupLemma
<1>4. AdbAlive' = FALSE
  BY <1>3 DEF Clean, AdbAlive, Unreaped
<1>5. CASE ctl.outcome = "none"
  <2>1. Stage \in {"launching", "waiting"} /\ Stage' = "failed"
    BY <1>1, <1>3, <1>5 DEF Stage
  <2>2. QED
    BY <1>1, <1>4, <2>1 DEF Session!Next, Session!Settle, Session!Unsettled
<1>6. CASE ctl.outcome # "none"
  <2>1. Clean(ctl)
    BY <1>6 DEF IInv, CtlInv, UnderWay
  <2>2. Stage' = Stage /\ AdbAlive = FALSE
    BY <1>3, <1>6, <2>1 DEF Stage, Clean, AdbAlive, Unreaped
  <2>3. QED
    BY <1>1, <1>4, <2>2 DEF Session!session
<1>7. QED
  BY <1>5, <1>6

\* The steps of the host that only look, and what happens outside.
LEMMA OthersMap ==
  ASSUME IInv, IInv',
         \/ PollReturns \/ PollLoopEnds \/ RoundEnds \/ \E s \in Streams : SkipStale(s)
         \/ Outside \/ UNCHANGED vars
  PROVE  [Session!Next]_Session!session
<1>1. CASE PollReturns \/ PollLoopEnds \/ RoundEnds \/ \E s \in Streams : SkipStale(s)
  <2>1. /\ ctl'.task = ctl.task /\ ctl'.outcome = ctl.outcome /\ ctl'.child = ctl.child
        /\ answered' = answered /\ pc # "exited" /\ pc' # "exited"
    BY <1>1 DEF PollReturns, PollLoopEnds, RoundEnds, SkipStale, IsNext, AllServed, IInv, TypeOK, CtlType
  <2>2. QED
    BY <2>1, SameStage
<1>2. CASE AgentAnswers
  <2>1. ctl' = ctl /\ pc' = pc /\ answered' = TRUE /\ ctl.pid = "logcat" /\ ctl.child["logcat"] = "running"
    BY <1>2 DEF AgentAnswers, Running
  <2>2. UnderWay(ctl) /\ pc # "exited"
    BY <2>1 DEF IInv, CtlInv, Clean
  <2>3. ctl.task = "logcat"
    BY <2>1, <2>2 DEF UnderWay, Known
  <2>4. Stage = "waiting" /\ AdbAlive
    BY <2>1, <2>2, <2>3, UnderWayMapping DEF AdbAlive, Tasks
  <2>5. Stage' = Stage /\ AdbAlive' = AdbAlive
    BY <2>1 DEF AdbAlive, Stage
  <2>6. QED
    BY <2>1, <2>4, <2>5 DEF Session!Next, Session!BeAnswered
<1>3. ASSUME NEW t \in Tasks,
             \/ ChildExits(t) \/ TimerExpires(t)
             \/ \E s \in OutStreams : ChildWrites(t, s)
             \/ \E s \in Streams : ChildCloses(t, s)
      PROVE  [Session!Next]_Session!session
  <2>1. answered' = answered /\ pc' = pc
    BY <1>3 DEF ChildExits, TimerExpires, ChildWrites, ChildCloses
  <2>2. CASE ChildExits(t)
    <3>1. /\ ctl' = [ctl EXCEPT !.child[t] = "zombie", !.open = {}] /\ ctl.child[t] = "running"
          /\ ctl \in CtlType
      BY <2>2 DEF ChildExits, Running, IInv, TypeOK
    <3>2. /\ ctl'.task = ctl.task /\ ctl'.outcome = ctl.outcome
          /\ ctl'.child = [ctl.child EXCEPT ![t] = "zombie"] /\ ctl.child \in [Tasks -> ChildStates]
      BY <3>1 DEF CtlType
    <3>3. \A u \in Tasks : ctl'.child[u] \in Unreaped <=> ctl.child[u] \in Unreaped
      BY <3>1, <3>2 DEF Unreaped
    <3>4. QED
      BY <2>1, <3>2, <3>3, SameStage
  <2>3. CASE ~ChildExits(t)
    <3>1. /\ ctl'.task = ctl.task /\ ctl'.outcome = ctl.outcome /\ ctl'.child = ctl.child
      BY <1>3, <2>3 DEF TimerExpires, ChildWrites, ChildCloses, IInv, TypeOK, CtlType
    <3>2. QED
      BY <2>1, <3>1, SameStage
  <2>4. QED
    BY <2>2, <2>3
<1>4. CASE UNCHANGED vars
  BY <1>4, SameStage DEF vars
<1>5. QED
  BY <1>1, <1>2, <1>3, <1>4 DEF Outside

\* The host program implements the abstract session: whatever faults occur it
\* settles at most once, with success only after the answer, and without an adb
\* left to it.
THEOREM Implements == Spec => IsSession
<1>1. Init => Session!Init
  BY DEF Init, InitCtl, Session!Init, Stage, AdbAlive
<1>2. IInv /\ IInv' /\ [Next]_vars => [Session!Next]_Session!session
  BY StartMaps, DispatchMaps, TimerFiresMaps, MainReturnsMaps, OthersMap DEF Next, Host, Returned
<1>3. QED
  BY <1>1, <1>2, Inductive, PTL DEF Spec, IsSession, Session!Spec
=============================================================================
