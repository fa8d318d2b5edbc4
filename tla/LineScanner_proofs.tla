------------------------- MODULE LineScanner_proofs -------------------------
(***************************************************************************)
(* lookupTag finds the answer in every stream, however it is cut into      *)
(* reads: nothing is missed, nothing is invented, and the task sees whole  *)
(* lines, each of them once.                                               *)
(***************************************************************************)
EXTENDS LineScanner, TLAPS

\* lookupTag and the buffer always begin at the start of a line.
AtLineStart ==
  /\ head = 0 \/ stream[head] = "newline"
  /\ head + size = 0 \/ stream[head + size] = "newline"

\* What lookupTag is through with has no answer, as long as it goes on.
NoneBehind ==
  pc \in {"poll", "scan", "cut"} => \A a, b \in 1 .. head + size : ~AnswerLine(a, b)

\* It has gone as far as there are whole lines.
WholeLines ==
  pc \in {"poll", "cut"} => \A i \in Start .. got : stream[i] # "newline"

\* The inductive invariant.
IInv == TypeOK /\ AtLineStart /\ NoneBehind /\ WholeLines /\ NothingInvented

\* What more logcat writes changes nothing of what was written.
LEMMA AppendLemma ==
  ASSUME TypeOK, LogcatWrites
  PROVE  /\ stream' \in Seq(Bytes) /\ Len(stream') = Len(stream) + 1
         /\ \A i \in 1 .. Len(stream) : stream'[i] = stream[i]
         /\ \A a, b \in 1 .. Len(stream) : AnswerLine(a, b)' <=> AnswerLine(a, b)
<1>1. PICK c \in Bytes : stream' = Append(stream, c)
  BY DEF LogcatWrites
<1>2. /\ stream' \in Seq(Bytes) /\ Len(stream') = Len(stream) + 1
      /\ \A i \in 1 .. Len(stream) : stream'[i] = stream[i]
  BY <1>1 DEF TypeOK
<1>3. ASSUME NEW a \in 1 .. Len(stream), NEW b \in 1 .. Len(stream)
      PROVE  AnswerLine(a, b)' <=> AnswerLine(a, b)
  <2>1. a \in Nat /\ b \in Nat /\ \A i \in a .. b : stream'[i] = stream[i]
    BY <1>2 DEF TypeOK
  <2>2. Contains(a, b - 1)' <=> Contains(a, b - 1)
    BY <2>1 DEF Contains
  <2>3. a = 1 \/ stream'[a - 1] = stream[a - 1]
    BY <1>2
  <2>4. b >= a => stream'[b] = stream[b]
    BY <2>1
  <2>5. stream'[b] = stream[b]
    BY <1>2
  <2> QED
    BY <2>1, <2>2, <2>3, <2>5 DEF AnswerLine
<1> QED
  BY <1>2, <1>3

\* If the next newline after a line's start is at p, an answer that ends
\* at p begins there, and lookupTag sees it.
LEMMA LineLemma ==
  ASSUME IInv, NEW p \in Start .. got, Newline(p), NEW a \in 1 .. p, AnswerLine(a, p)
  PROVE  a = Start /\ Matches(p)
<1>1. p \in Nat /\ head + size \in Nat /\ Start = head + size + 1 /\ Start <= p /\ a \in Nat
  BY DEF IInv, TypeOK, Start
<1>2. ~(a < Start)
  BY <1>1 DEF IInv, AtLineStart, AnswerLine, Start
<1>3. ~(a > Start)
  BY <1>1 DEF AnswerLine, Newline
<1>4. a = Start
  BY <1>1, <1>2, <1>3
<1>5. Contains(Start, p - 1)
  BY <1>4 DEF AnswerLine
<1>6. p # Start
  BY <1>1, <1>5 DEF Contains
<1> QED
  BY <1>4, <1>5, <1>6 DEF Matches

\* The inductive invariant holds in every reachable state.
THEOREM Inductive == Spec => []IInv
<1>1. Init => IInv
  BY LenAssumption DEF Init, IInv, TypeOK, AtLineStart, NoneBehind, WholeLines, NothingInvented,
     Start, Bytes
<1>2. IInv /\ [Next]_vars => IInv'
  <2> SUFFICES ASSUME IInv, [Next]_vars PROVE IInv'
    OBVIOUS
  <2>0. stream \in Seq(Bytes) /\ Len(stream) \in Nat /\ got \in Nat /\ head \in Nat /\ size \in Nat
        /\ head + size <= got /\ got <= Len(stream)
    BY DEF IInv, TypeOK
  <2>1. CASE LogcatWrites
    <3>1. /\ stream' \in Seq(Bytes) /\ Len(stream') = Len(stream) + 1
          /\ \A i \in 1 .. Len(stream) : stream'[i] = stream[i]
          /\ \A a, b \in 1 .. Len(stream) : AnswerLine(a, b)' <=> AnswerLine(a, b)
      BY <2>1, AppendLemma DEF IInv
    <3>2. UNCHANGED <<got, head, size, pc>>
      BY <2>1 DEF LogcatWrites
    <3>3. TypeOK'
      BY <2>0, <3>1, <3>2 DEF IInv, TypeOK
    <3>4. AtLineStart'
      BY <2>0, <3>1, <3>2 DEF IInv, AtLineStart
    <3>5. NoneBehind'
      BY <2>0, <3>1, <3>2 DEF IInv, NoneBehind
    <3>6. WholeLines'
      BY <2>0, <3>1, <3>2 DEF IInv, WholeLines, Start
    <3>7. NothingInvented'
      BY <2>0, <3>1, <3>2 DEF IInv, NothingInvented
    <3> QED
      BY <3>3, <3>4, <3>5, <3>6, <3>7 DEF IInv
  <2>2. CASE Read \/ ReadFails
    <3>1. /\ pc = "poll" /\ pc' = "scan" /\ size' = 0
          /\ got' \in got .. Len(stream) /\ stream' = stream /\ head' = head
      BY <2>0, <2>2 DEF Read, ReadFails
    <3>2. TypeOK'
      <4>1. got' \in Nat /\ got <= got' /\ got' <= Len(stream)
        BY <2>0, <3>1
      <4> DEFINE n == got'
      <4>2. n \in 0 .. Len(stream) /\ head <= n
        BY <2>0, <4>1
      <4> HIDE DEF n
      <4>3. head \in 0 .. n /\ 0 \in 0 .. n - head
        BY <2>0, <4>2
      <4> QED
        BY <2>0, <3>1, <4>2, <4>3 DEF TypeOK, n
    <3>3. AtLineStart' /\ WholeLines' /\ NothingInvented'
      BY <2>0, <3>1 DEF IInv, AtLineStart, WholeLines, NothingInvented
    <3>4. NoneBehind'
      BY <2>0, <3>1 DEF IInv, NoneBehind, AnswerLine, Contains
    <3> QED
      BY <3>2, <3>3, <3>4 DEF IInv
  <2>3. CASE Scan
    <3>0. pc = "scan" /\ UNCHANGED <<stream, got, head>>
      BY <2>3 DEF Scan
    <3>1. ASSUME NEW p \in Start .. got, Newline(p), ScanLine(p) PROVE IInv'
      <4>1. /\ p \in Nat /\ p >= 1 /\ p <= got /\ p > head + size /\ stream[p] = "newline"
            /\ size' = p - head /\ head' + size' = p
        BY <2>0, <3>0, <3>1 DEF Start, Newline, ScanLine
      <4>2. TypeOK'
        BY <2>0, <3>0, <3>1, <4>1 DEF TypeOK, ScanLine
      <4>3. AtLineStart' /\ WholeLines'
        BY <2>0, <3>0, <3>1, <4>1 DEF IInv, AtLineStart, WholeLines, ScanLine
      <4>4. NoneBehind'
        <5> SUFFICES ASSUME pc' # "found", NEW a \in 1 .. p, NEW b \in 1 .. p, AnswerLine(a, b)
                     PROVE  FALSE
          BY <3>0, <3>1, <4>1 DEF NoneBehind, ScanLine, AnswerLine, Contains
        <5>1. CASE b = p
          BY <3>1, <5>1, LineLemma DEF ScanLine
        <5>2. CASE b # p
          <6>1. b \in Start .. p - 1 \/ b \in 1 .. head + size
            BY <2>0, <4>1, <5>2 DEF Start
          <6>2. ~(b \in Start .. p - 1)
            BY <3>1 DEF Newline, AnswerLine
          <6>3. b \in 1 .. head + size
            BY <6>1, <6>2
          <6>4. a \in 1 .. head + size \/ a > b
            BY <2>0, <6>3
          <6>5. ~(a > b)
            BY <2>0, <6>3 DEF AnswerLine, Contains
          <6> QED
            BY <3>0, <6>3, <6>4, <6>5 DEF IInv, NoneBehind
        <5> QED
          BY <5>1, <5>2
      <4>5. NothingInvented'
        <5> SUFFICES ASSUME pc' = "found" PROVE NothingInvented'
          BY <3>1 DEF ScanLine, NothingInvented
        <5>1. p # Start /\ Contains(Start, p - 1)
          BY <3>1 DEF ScanLine, Matches
        <5>2. Start \in 1 .. got /\ p \in 1 .. got
          BY <2>0, <4>1 DEF Start
        <5>3. Start = 1 \/ stream[Start - 1] = "newline"
          BY <2>0 DEF IInv, AtLineStart, Start
        <5>4. AnswerLine(Start, p)
          BY <3>1, <5>1, <5>3 DEF AnswerLine, Newline
        <5> QED
          BY <3>0, <5>2, <5>4 DEF NothingInvented, AnswerLine, Contains
      <4> QED
        BY <4>2, <4>3, <4>4, <4>5 DEF IInv
    <3>2. ASSUME \A p \in Start .. got : stream[p] # "newline", pc' = "cut", UNCHANGED size
          PROVE  IInv'
      <4>2. TypeOK' /\ AtLineStart' /\ WholeLines' /\ NothingInvented'
        BY <3>0, <3>2 DEF IInv, TypeOK, AtLineStart, WholeLines, NothingInvented, Start
      <4>3. NoneBehind'
        BY <3>0, <3>2 DEF IInv, NoneBehind, AnswerLine, Contains
      <4> QED
        BY <4>2, <4>3 DEF IInv
    <3> QED
      BY <2>3, <3>1, <3>2 DEF Scan
  <2>4. CASE Cut
    <3>1. /\ pc \in {"cut", "found"} /\ head' = head + size /\ size' = 0
          /\ pc' = (IF pc = "found" THEN "done" ELSE "poll") /\ UNCHANGED <<stream, got>>
      BY <2>4 DEF Cut, Rest
    <3>2. head' + size' = head + size
      BY <2>0, <3>1
    <3>3. TypeOK'
      BY <2>0, <3>1 DEF TypeOK
    <3>4. AtLineStart'
      BY <2>0, <3>1, <3>2 DEF IInv, AtLineStart
    <3>5. NoneBehind'
      BY <3>1, <3>2 DEF IInv, NoneBehind, AnswerLine, Contains
    <3>6. WholeLines'
      BY <2>0, <3>1, <3>2 DEF IInv, WholeLines, Start
    <3>7. NothingInvented'
      BY <3>1 DEF IInv, NothingInvented, AnswerLine, Contains
    <3> QED
      BY <3>3, <3>4, <3>5, <3>6, <3>7 DEF IInv
  <2>5. CASE Done \/ UNCHANGED vars
    <3>1. /\ stream' = stream /\ got' = got /\ head' = head /\ size' = size /\ pc' = pc
      BY <2>5 DEF Done, vars
    <3>2. TypeOK' /\ AtLineStart' /\ WholeLines'
      BY <3>1 DEF IInv, TypeOK, AtLineStart, WholeLines, Start
    <3>3. NoneBehind' /\ NothingInvented'
      BY <3>1 DEF IInv, NoneBehind, NothingInvented, AnswerLine, Contains
    <3> QED
      BY <3>2, <3>3 DEF IInv
  <2> QED
    BY <2>1, <2>2, <2>3, <2>4, <2>5 DEF Next
<1> QED
  BY <1>1, <1>2, PTL DEF Spec

\* The scanner keeps its types, for every stream and all ways to read it.
THEOREM TypeCorrect == Spec => []TypeOK
<1>1. IInv => TypeOK
  BY DEF IInv
<1> QED
  BY <1>1, Inductive, PTL

\* No answer is passed over.
THEOREM MissesNothing == Spec => []NothingMissed
<1>1. IInv => NothingMissed
  <2> SUFFICES ASSUME IInv, pc = "poll", NEW a \in 1 .. got, NEW b \in 1 .. got, AnswerLine(a, b)
               PROVE  FALSE
    BY DEF NothingMissed
  <2>1. head + size \in Nat /\ b \notin Start .. got
    BY DEF IInv, TypeOK, WholeLines, AnswerLine
  <2>2. b \in 1 .. head + size
    BY <2>1 DEF Start
  <2>3. a <= b
    BY DEF AnswerLine, Contains
  <2> QED
    BY <2>1, <2>2, <2>3 DEF IInv, NoneBehind
<1> QED
  BY <1>1, Inductive, PTL

\* No answer is made up.
THEOREM InventsNothing == Spec => []NothingInvented
<1>1. IInv => NothingInvented
  BY DEF IInv
<1> QED
  BY <1>1, Inductive, PTL

-----------------------------------------------------------------------------
(* The refinement *)

\* Between reads nothing is left of the view.
Fresh == pc \in {"poll", "done"} => size = 0

LEMMA StaysFresh == Spec => []Fresh
<1>1. Init => Fresh
  BY DEF Init, Fresh
<1>2. Fresh /\ [Next]_vars => Fresh'
  BY DEF Fresh, Next, LogcatWrites, Read, ReadFails, Scan, ScanLine, Cut, Done, vars
<1> QED
  BY <1>1, <1>2, PTL DEF Spec

\* Reads, failed reads and cuts are nothing to a reader of lines.
LEMMA Unseen ==
  ASSUME IInv, Fresh, Read \/ ReadFails \/ Cut \/ Done \/ UNCHANGED vars
  PROVE  UNCHANGED Reader!reader
<1>1. head \in Nat /\ size \in Nat
  BY DEF IInv, TypeOK
<1>2. CASE Read \/ ReadFails
  BY <1>1, <1>2 DEF Fresh, Read, ReadFails, Reader!reader
<1>3. CASE Cut
  <2>1. head' + size' = head + size
    BY <1>1, <1>3 DEF Cut, Rest
  <2>2. pc \in {"found", "done"} <=> pc' \in {"found", "done"}
    BY <1>3 DEF Cut
  <2> QED
    BY <1>3, <2>1, <2>2 DEF Cut, Reader!reader
<1>4. CASE Done \/ UNCHANGED vars
  BY <1>4 DEF Done, vars, Reader!reader
<1> QED
  BY <1>2, <1>3, <1>4

\* A turn of lookupTag's loop takes the next line, or there is none.
LEMMA ScanTakes == ASSUME IInv, Scan PROVE Reader!Takes \/ UNCHANGED Reader!reader
<1>0. /\ head \in Nat /\ size \in Nat /\ got \in Nat /\ got <= Len(stream) /\ Len(stream) \in Nat
      /\ pc = "scan" /\ UNCHANGED <<stream, got, head>>
  BY DEF IInv, TypeOK, Scan
<1>1. ASSUME NEW p \in Start .. got, Newline(p), ScanLine(p)
      PROVE  Reader!Takes
  <2>1. /\ p \in head + size + 1 .. Len(stream) /\ p \in Nat /\ head' + size' = p
    BY <1>0, <1>1 DEF Start, ScanLine
  <2>2. Reader!EndsNext(p)
    BY <1>1 DEF Newline, Start, Reader!EndsNext
  <2>3. Matches(p) <=> Reader!Answers(p)
    <3>1. Contains(Start, p - 1) <=> Reader!Answers(p)
      BY <1>0, <2>1 DEF Contains, Start, Reader!Answers
    <3>2. Contains(Start, p - 1) => p # Start
      BY <1>0, <2>1 DEF Contains, Start
    <3> QED
      BY <3>1, <3>2 DEF Matches
  <2>4. (pc' \in {"found", "done"}) = Reader!Answers(p)
    <3>1. pc' \in {"found", "done"} <=> Reader!Answers(p)
      BY <1>1, <2>3 DEF ScanLine
    <3>2. Reader!Answers(p) \in BOOLEAN
      BY Zenon DEF Reader!Answers
    <3> QED
      BY <3>1, <3>2
  <2> QED
    BY <1>0, <2>1, <2>2, <2>4 DEF Reader!Takes
<1>2. ASSUME pc' = "cut", UNCHANGED size
      PROVE  UNCHANGED Reader!reader
  BY <1>0, <1>2 DEF Reader!reader
<1> QED
  BY <1>1, <1>2 DEF Scan

\* The task sees every line of the stream once, whole and in order, up to the
\* first answer, in spite of reads that end anywhere and of failed ones.
THEOREM ImplementsReader == Spec => IsLineReader
<1>1. Init => Reader!Init
  BY DEF Init, Reader!Init
<1>2. IInv /\ Fresh /\ [Next]_vars => [Reader!Next]_(Reader!reader)
  <2> SUFFICES ASSUME IInv, Fresh, [Next]_vars PROVE [Reader!Next]_(Reader!reader)
    OBVIOUS
  <2>1. CASE LogcatWrites
    BY <2>1 DEF LogcatWrites, Reader!Next, Reader!Writes
  <2>2. CASE Scan
    BY <2>2, ScanTakes DEF Reader!Next
  <2>3. CASE Read \/ ReadFails \/ Cut \/ Done \/ UNCHANGED vars
    BY <2>3, Unseen
  <2> QED
    BY <2>1, <2>2, <2>3 DEF Next
<1> QED
  BY <1>1, <1>2, Inductive, StaysFresh, PTL DEF Spec, IsLineReader, Reader!Spec
=============================================================================
