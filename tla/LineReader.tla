----------------------------- MODULE LineReader -----------------------------
(***************************************************************************)
(* What a task is promised of logcat's output, with nothing said of reads  *)
(* and buffers: it is shown whole lines, each once and in their order,     *)
(* until one is the answer.                                                *)
(***************************************************************************)
EXTENDS Naturals, Sequences

CONSTANTS
  Bytes

VARIABLES
  text,    \* what logcat has written
  passed,  \* how many bytes of it are lines that the task has been shown
  found    \* was the last of them the answer?

reader == <<text, passed, found>>

Init == text = << >> /\ passed = 0 /\ found = FALSE

Writes ==
  /\ \E b \in Bytes : text' = Append(text, b)
  /\ UNCHANGED <<passed, found>>

\* The line to be shown next ends at p.
EndsNext(p) ==
  /\ text[p] = "newline"
  /\ \A i \in passed + 1 .. p - 1 : text[i] # "newline"

\* The line that ends at p has the pattern.
Answers(p) == \E i \in passed + 1 .. p - 2 : text[i] = "t" /\ text[i + 1] = "u"

Takes ==
  /\ ~found
  /\ \E p \in passed + 1 .. Len(text) : EndsNext(p) /\ passed' = p /\ found' = Answers(p)
  /\ UNCHANGED text

Next == Writes \/ Takes

Spec == Init /\ [][Next]_reader
=============================================================================
