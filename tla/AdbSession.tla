----------------------------- MODULE AdbSession -----------------------------
(***************************************************************************)
(* What a run of the program promises, with nothing said of how: it        *)
(* launches the agent's activity, waits for the agent's answer, and        *)
(* settles once and for all, successfully only if it has been answered,    *)
(* and without an adb process left to it.                                  *)
(***************************************************************************)

VARIABLES
  stage,     \* "launching", "waiting", "done" or "failed"
  adbAlive,  \* is there an adb process, or one that nobody has waited for?
  answered   \* has the agent reported that the run is completed?

session == <<stage, adbAlive, answered>>

Stages == {"launching", "waiting", "done", "failed"}

Init == stage = "launching" /\ adbAlive = FALSE /\ answered = FALSE

Unsettled == stage \in {"launching", "waiting"}

Launch ==
  /\ stage = "launching" /\ ~adbAlive
  /\ adbAlive' = TRUE
  /\ UNCHANGED <<stage, answered>>

\* A new adb takes the place of the launching one; it may fail to start.
Wait ==
  /\ stage = "launching"
  /\ stage' = "waiting"
  /\ adbAlive' \in BOOLEAN
  /\ UNCHANGED answered

\* Only adb can bring the answer.
BeAnswered ==
  /\ stage = "waiting" /\ adbAlive
  /\ answered' = TRUE
  /\ UNCHANGED <<stage, adbAlive>>

Settle ==
  /\ Unsettled
  /\ stage' \in {"failed"} \cup (IF stage = "waiting" /\ answered THEN {"done"} ELSE {})
  /\ adbAlive' = FALSE
  /\ UNCHANGED answered

Next == Launch \/ Wait \/ BeAnswered \/ Settle

Spec == Init /\ [][Next]_session

\* It does settle.
FairSpec == Spec /\ WF_session(Settle)
=============================================================================
