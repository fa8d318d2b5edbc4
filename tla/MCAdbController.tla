-------------------------- MODULE MCAdbController --------------------------
(***************************************************************************)
(* Instances of AdbController for TLC.  The other lines of logcat are the  *)
(* ones that a lookup could mistake for the answer: the answer to another  *)
(* run, a line of the agent about this run that is no completion, and      *)
(* another program's line that quotes the answer.                          *)
(***************************************************************************)
EXTENDS AdbController

CONSTANTS uniq, old

MCTags == {uniq, old}
StaleAnswer == [agent |-> TRUE,  tags |-> {old},  sigs |-> Modes]
Chatter     == [agent |-> TRUE,  tags |-> {uniq}, sigs |-> {}]
Quote       == [agent |-> FALSE, tags |-> {uniq}, sigs |-> Modes]
MCOtherLines == {StaleAnswer, Chatter, Quote}
MCFewLines   == {StaleAnswer}
=============================================================================
