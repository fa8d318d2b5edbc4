----------------------------- MODULE LineScanner -----------------------------
(***************************************************************************)
(* How AdbTaskRunLogcat::lookupTag finds its line in a stream of bytes     *)
(* that is cut into reads anywhere, and what onReadyToRead leaves in the   *)
(* buffer for the next read.  That the buffer hands over the bytes of the  *)
(* stream in order is what module Buffers is about, so the buffer is the   *)
(* part of the stream from head + 1 to got.  The agent's tag, the uniq tag *)
(* and the signature are one pattern of two bytes, "t" and "u": enough for *)
(* a read to end within it.                                                *)
(***************************************************************************)
EXTENDS Naturals, Sequences

CONSTANTS
  MaxLen   \* bound: bytes logcat writes

ASSUME LenAssumption == MaxLen \in Nat

Bytes == {"t", "u", "newline"}

VARIABLES
  stream,  \* what logcat has written
  got,     \* bytes read
  head,    \* bytes cut from the buffer
  size,    \* bytes of the buffer that lookupTag is through with
  pc       \* poll, scan, cut, found or done

vars == <<stream, got, head, size, pc>>

Init == stream = << >> /\ got = 0 /\ head = 0 /\ size = 0 /\ pc = "poll"

LogcatWrites ==
  /\ Len(stream) < MaxLen
  /\ \E b \in Bytes : stream' = Append(stream, b)
  /\ UNCHANGED <<got, head, size, pc>>

\* Read takes some of what is there, and lookupTag starts at the buffer's head.
Read ==
  /\ pc = "poll"
  /\ \E n \in got + 1 .. Len(stream) : got' = n
  /\ pc' = "scan" /\ size' = 0
  /\ UNCHANGED <<stream, head>>

\* read() fails: the task is shown the same bytes again.
ReadFails ==
  /\ pc = "poll"
  /\ pc' = "scan" /\ size' = 0
  /\ UNCHANGED <<stream, got, head>>

\* The bytes from a to b contain the pattern.
Contains(a, b) == \E i \in a .. b - 1 : stream[i] = "t" /\ stream[i + 1] = "u"

\* Where the view starts and where its next newline is.
Start == head + size + 1
Newline(p) ==
  /\ p \in Start .. got /\ stream[p] = "newline"
  /\ \A i \in Start .. p - 1 : stream[i] # "newline"

\* Mutant of Matches: the whole view is searched.
MatchesView(p) == Contains(Start, got)

\* The line that ends at p is the answer.  One that is empty is passed over.
Matches(p) == p # Start /\ Contains(Start, p - 1)

\* Mutant of ScanLine: an empty line stays in the view.
ScanLineStuck(p) == /\ size' = (IF p = Start THEN size ELSE p - head)
                    /\ pc' = (IF Matches(p) THEN "found" ELSE "scan")

\* A turn of lookupTag's loop, for the line that ends at p.
ScanLine(p) == size' = p - head /\ pc' = (IF Matches(p) THEN "found" ELSE "scan")

Scan ==
  /\ pc = "scan"
  /\ \/ \E p \in Start .. got : Newline(p) /\ ScanLine(p)
     \/ /\ \A p \in Start .. got : stream[p] # "newline"
        /\ pc' = "cut" /\ UNCHANGED size
  /\ UNCHANGED <<stream, got, head>>

\* Mutant of Rest: the start of a line is cut with the lines before it.
RestNone == got

\* Mutant of Rest: nothing is cut, and lines are seen again.
RestAll == head

\* What cut(size) leaves begins here.
Rest == head + size

Cut ==
  /\ pc \in {"cut", "found"}
  /\ head' = Rest /\ size' = 0
  /\ pc' = (IF pc = "found" THEN "done" ELSE "poll")
  /\ UNCHANGED <<stream, got>>

Done == pc = "done" /\ UNCHANGED vars

Next == LogcatWrites \/ Read \/ ReadFails \/ Scan \/ Cut \/ Done

Spec == Init /\ [][Next]_vars

\* poll() reports bytes that are there, reading them does not fail for ever,
\* and the program runs.
FairSpec == Spec /\ SF_vars(Read) /\ WF_vars(Scan) /\ WF_vars(Cut)

-----------------------------------------------------------------------------
(* Correctness *)

\* Every variable has its type.
TypeOK ==
  /\ stream \in Seq(Bytes)
  /\ got \in 0 .. Len(stream) /\ head \in 0 .. got /\ size \in 0 .. got - head
  /\ pc \in {"poll", "scan", "cut", "found", "done"}

\* A reference that sees the stream at once: the answer is the line of the
\* stream from a to b, and complete.
AnswerLine(a, b) ==
  /\ a = 1 \/ stream[a - 1] = "newline"
  /\ stream[b] = "newline" /\ \A i \in a .. b - 1 : stream[i] # "newline"
  /\ Contains(a, b - 1)

\* Whatever the reads, no answer that was read in full is passed over: while
\* the program waits for more there is none in what it has.
NothingMissed == pc = "poll" => \A a, b \in 1 .. got : ~AnswerLine(a, b)

\* And the program stops only for a line of the stream that is the answer,
\* never for parts of two lines, or for a line that is not complete.
NothingInvented ==
  pc \in {"found", "done"} => \E a, b \in 1 .. got : AnswerLine(a, b)

\* However the bytes are cut into reads, and however often they are shown again
\* after a failed one, the task sees what a reader of lines sees: every line
\* once, whole, in its order, up to the first answer and no further.
Reader == INSTANCE LineReader
            WITH text <- stream, passed <- head + size, found <- pc \in {"found", "done"}
IsLineReader == Reader!Spec

\* An answer that was written is found.
Found == (\E a, b \in 1 .. Len(stream) : AnswerLine(a, b)) ~> pc = "done"
=============================================================================
