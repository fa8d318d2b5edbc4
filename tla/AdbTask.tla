------------------------------ MODULE AdbTask ------------------------------
(***************************************************************************)
(* What the tasks of a script make of the output of adb: the rules by      *)
(* which AdbTaskLaunchActivity and AdbTaskRunLogcat (AdbTask.cpp) turn the *)
(* lines read from a stream into a result for AdbController::switchTask.   *)
(*                                                                         *)
(* A line of logcat is abstracted to what lookupTag and onTagLine test:    *)
(* whether it names the agent, which uniq tags it contains and which of    *)
(* the two completion signatures.  All three tests are substring tests, so *)
(* a line may contain several tags.                                        *)
(***************************************************************************)
EXTENDS Sequences

CONSTANTS
  Tags,        \* the tags that lines of logcat may contain
  UniqTag,     \* the tag of this run, ConfigData::uniqTag
  OtherLines   \* lines that are not the agent's answer to this run

Modes == {"connect", "disconnect"}

\* Both scripts run an activity launcher, then a logcat reader.
Tasks   == {"launch", "logcat"}
Streams == {"stdin", "stdout", "stderr"}
Results == {"Next", "Continue", "Fail"}

Line == [agent : BOOLEAN, tags : SUBSET Tags, sigs : SUBSET Modes]

\* Mutant of IsAnswer: any run's answer will do.
IsAnswerOfAnyRun(mode, l) == l.agent /\ mode \in l.sigs

\* lookupTag (AgentTag) and the two onTagLine (uniq tag, signature).
IsAnswer(mode, l) == l.agent /\ UniqTag \in l.tags /\ mode \in l.sigs

\* What MainActivity writes when it has done what this run asked for.
Answer(mode) == [agent |-> TRUE, tags |-> {UniqTag}, sigs |-> {mode}]

(***************************************************************************)
(* The uniq tag does identify the run: no line but the agent's answer      *)
(* names the agent, carries the tag of this run and says "run completed".  *)
(* (Config::Builder::build does not quite guarantee this; see the README.) *)
(***************************************************************************)
ASSUME LinesAssumption ==
  /\ UniqTag \in Tags
  /\ OtherLines \subseteq Line
  /\ \A l \in OtherLines : ~(l.agent /\ UniqTag \in l.tags /\ l.sigs # {})

(***************************************************************************)
(* onDataReady of the task t for the lines that one call to Read added.    *)
(* The launcher takes an empty read for the end of adb; the logcat reader  *)
(* looks at stdout only and stops at the first answer.                     *)
(***************************************************************************)
OnDataReady(t, mode, stream, lines) ==
  CASE t = "launch" -> IF lines = << >> THEN "Next" ELSE "Continue"
    [] t = "logcat" -> IF /\ stream = "stdout"
                          /\ \E i \in DOMAIN lines : IsAnswer(mode, lines[i])
                       THEN "Next" ELSE "Continue"
=============================================================================
