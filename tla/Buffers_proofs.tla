--------------------------- MODULE Buffers_proofs ---------------------------
(***************************************************************************)
(* The buffers are correct for every size, growth and read limit: the      *)
(* asserts hold and the bytes keep their order.                            *)
(***************************************************************************)
EXTENDS Buffers, TLAPS

IInv == TypeOK /\ AssertsHold /\ Fifo

\* What Write does, for any room n that the k bytes fit in; the buffer is
\* not full afterwards before they are written (end < size').
LEMMA WriteLemma ==
  ASSUME IInv, NEW n \in Nat, NEW trim \in BOOLEAN, NEW k \in Nat,
         Write(n, trim, k), k <= n \/ k <= RestSize, RestSize > 0 \/ n > 0,
         out' = out
  PROVE  /\ asserts' = "held"
         /\ size' \in Nat \ {0} /\ head' \in Nat /\ filled' \in Nat
         /\ head' + filled' <= size' /\ (filled' = 0 => head' = 0)
         /\ mem' \in [0 .. size' - 1 -> Int]
         /\ Fifo'
<1> DEFINE move == RestSize < n /\ trim /\ head > 0
           h    == IF move THEN 0 ELSE head
           sz   == IF size - (h + filled) < n THEN h + filled + n ELSE size
<1>1. /\ size \in Nat \ {0} /\ head \in Nat /\ filled \in Nat /\ out \in Nat
      /\ head + filled <= size /\ (filled = 0 => head = 0)
      /\ mem \in [0 .. size - 1 -> Int] /\ asserts = "held"
      /\ \A i \in 0 .. filled - 1 : mem[head + i] = out + i
  BY DEF IInv, TypeOK, AssertsHold, Fifo
<1>2. mem' = [i \in 0 .. sz - 1 |->
                   IF i \in h + filled .. h + filled + k - 1 THEN out + (i - h)
                   ELSE IF move /\ i < filled THEN mem[i + head]
                   ELSE IF i < size THEN mem[i] ELSE Junk]
  BY DEF Write
<1>3. head' = h /\ size' = sz /\ filled' = filled + k
  BY DEF Write
<1>4. (move => filled > 0) /\ h + filled < sz /\ h + filled + k <= sz
         => asserts' = "held"
  BY <1>1 DEF Write, Asserting
<1>5. h \in Nat /\ sz \in Nat \ {0} /\ h + filled < sz /\ h + filled + k <= sz /\ size <= sz
  BY <1>1 DEF RestSize
<1>6. move => filled > 0
  BY <1>1
<1>7. filled + k = 0 => h = 0
  BY <1>1
<1>8. mem' \in [0 .. sz - 1 -> Int]
  <2>1. ASSUME NEW i \in 0 .. sz - 1
        PROVE  (IF i \in h + filled .. h + filled + k - 1 THEN out + (i - h)
                ELSE IF move /\ i < filled THEN mem[i + head]
                ELSE IF i < size THEN mem[i] ELSE Junk) \in Int
    BY <1>1, <1>5 DEF Junk
  <2> HIDE DEF move, h, sz
  <2>2. QED
    BY <1>2, <2>1
<1>9. ASSUME NEW i \in 0 .. filled + k - 1
      PROVE  mem'[h + i] = out + i
  <2>1. h + i \in 0 .. sz - 1
    BY <1>1, <1>5
  <2>2. mem'[h + i] = IF h + i \in h + filled .. h + filled + k - 1 THEN out + ((h + i) - h)
                      ELSE IF move /\ h + i < filled THEN mem[h + i + head]
                      ELSE IF h + i < size THEN mem[h + i] ELSE Junk
    <3> HIDE DEF move, h, sz
    <3>1. QED
      BY <1>2, <2>1
  <2>3. CASE i >= filled
    BY <1>1, <1>5, <2>2, <2>3
  <2>4. CASE i < filled /\ move
    BY <1>1, <2>2, <2>4
  <2>5. CASE i < filled /\ ~move
    BY <1>1, <2>2, <2>5
  <2>6. QED
    BY <1>1, <2>3, <2>4, <2>5
<1> HIDE DEF move, h, sz
<1>10. asserts' = "held" /\ size' = sz /\ head' = h /\ filled' = filled + k
  BY <1>3, <1>4, <1>5, <1>6
<1>11. filled + k \in Nat /\ h + (filled + k) <= sz
  BY <1>1, <1>5
<1>12. Fifo'
  <2>1. ASSUME NEW i \in 0 .. filled' - 1
        PROVE  mem'[head' + i] = out' + i
    BY <1>1, <1>5, <1>9, <1>10, <1>11
  <2>2. QED
    BY <2>1 DEF Fifo
<1>13. QED
  BY <1>5, <1>7, <1>8, <1>10, <1>11, <1>12

\* cut keeps the buffer in order.
LEMMA CutLemma ==
  ASSUME IInv, NEW k \in 0 .. filled, Cut(k),
         UNCHANGED <<kind, size, mem, total, reading>>
  PROVE  IInv'
<1>1. /\ size \in Nat \ {0} /\ head \in Nat /\ filled \in Nat /\ out \in Nat
      /\ head + filled <= size /\ (filled = 0 => head = 0) /\ asserts = "held"
      /\ \A i \in 0 .. filled - 1 : mem[head + i] = out + i
  BY DEF IInv, TypeOK, AssertsHold, Fifo
<1>2. /\ head' = (IF k = filled THEN 0 ELSE head + k)
      /\ filled' = filled - k /\ out' = out + k /\ asserts' = "held"
  BY <1>1 DEF Cut, Asserting
<1>3. /\ head' \in Nat /\ filled' \in Nat /\ out' \in Nat
      /\ head' + filled' <= size /\ (filled' = 0 => head' = 0)
  BY <1>1, <1>2
<1>4. Fifo'
  <2>1. ASSUME NEW i \in 0 .. filled' - 1
        PROVE  mem[head' + i] = out' + i
    <3>1. k + i \in 0 .. filled - 1 /\ head' + i = head + (k + i)
      BY <1>1, <1>2
    <3>2. QED
      BY <1>1, <1>2, <3>1
  <2>2. QED
    BY <2>1 DEF Fifo
<1>5. mem' \in [0 .. size' - 1 -> Int]
  BY DEF IInv, TypeOK
<1>6. QED
  BY <1>2, <1>3, <1>4, <1>5 DEF IInv, TypeOK, AssertsHold

\* What Read asks for when the buffer is full is something.
LEMMA GrowthLemma ==
  ASSUME IInv
  PROVE  Rest \in Nat \ {0} /\ (RestSize # 0 => Rest = RestSize)
<1>1. /\ total \in Nat /\ Unit \in Nat \ {0} /\ RestSize \in Nat
  BY SizesAssumption DEF IInv, TypeOK, RestSize
<1>2. (2 * total) \div Unit \in Nat
  BY <1>1
<1>3. \A q \in Nat : (q + 1) * Unit \in Nat \ {0}
  BY <1>1
<1>4. QED
  BY <1>1, <1>2, <1>3 DEF Rest

\* Every step of the buffers' use keeps the invariant.
LEMMA StepLemma == IInv /\ [Next]_vars => IInv'
<1> SUFFICES ASSUME IInv, [Next]_vars PROVE IInv'
  OBVIOUS
<1>1. CASE BeginRead
  BY <1>1 DEF BeginRead, IInv, TypeOK, AssertsHold, Fifo
<1>2. ASSUME NEW k \in 0 .. MaxBytes, ReadSome(k) PROVE IInv'
  <2> DEFINE n == IF RestSize = 0 THEN Rest ELSE 0
  <2>0. Write(n, TRUE, k)
    BY <1>2 DEF ReadSome
  <2>1. k \in Nat /\ k <= Rest /\ out' = out /\ kind' = kind
        /\ total' = total + k /\ reading' \in BOOLEAN
    BY <1>2, GrowthLemma, SizesAssumption DEF ReadSome
  <2>2. n \in Nat /\ (k <= n \/ k <= RestSize) /\ (RestSize > 0 \/ n > 0)
    BY <2>1, GrowthLemma DEF IInv, TypeOK, RestSize
  <2> HIDE DEF n
  <2>3. /\ asserts' = "held"
        /\ size' \in Nat \ {0} /\ head' \in Nat /\ filled' \in Nat
        /\ head' + filled' <= size' /\ (filled' = 0 => head' = 0)
        /\ mem' \in [0 .. size' - 1 -> Int] /\ Fifo'
    BY <2>0, <2>1, <2>2, WriteLemma
  <2>4. kind' \in {"read", "write"} /\ reading' \in BOOLEAN /\ out' \in Nat /\ total' \in Nat
    BY <2>1 DEF IInv, TypeOK
  <2>5. TypeOK'
    BY <2>3, <2>4 DEF TypeOK
  <2>6. QED
    BY <2>3, <2>5 DEF IInv, AssertsHold
<1>3. ASSUME NEW k \in 0 .. MaxBytes, Consume(k) PROVE IInv'
  BY <1>3, CutLemma DEF Consume
<1>4. ASSUME NEW k \in 0 .. MaxBytes, Append(k) PROVE IInv'
  <2>0. Write(k, FALSE, k)
    BY <1>4 DEF Append
  <2>1. /\ k \in Nat /\ k > 0 /\ k <= k
        /\ kind' = kind /\ total' = total /\ reading' = reading /\ out' = out
    BY <1>4, SizesAssumption DEF Append
  <2>2. /\ asserts' = "held"
        /\ size' \in Nat \ {0} /\ head' \in Nat /\ filled' \in Nat
        /\ head' + filled' <= size' /\ (filled' = 0 => head' = 0)
        /\ mem' \in [0 .. size' - 1 -> Int] /\ Fifo'
    BY <2>0, <2>1, WriteLemma
  <2>3. kind' \in {"read", "write"} /\ reading' \in BOOLEAN /\ out' \in Nat /\ total' \in Nat
    BY <2>1 DEF IInv, TypeOK
  <2>4. TypeOK'
    BY <2>2, <2>3 DEF TypeOK
  <2>5. QED
    BY <2>2, <2>4 DEF IInv, AssertsHold
<1>5. ASSUME NEW k \in 0 .. MaxBytes, Drain(k) PROVE IInv'
  BY <1>5, CutLemma DEF Drain
<1>6. CASE UNCHANGED vars
  BY <1>6 DEF vars, IInv, TypeOK, AssertsHold, Fifo
<1>7. QED
  BY <1>1, <1>2, <1>3, <1>4, <1>5, <1>6 DEF Next

\* An empty buffer is in order.
LEMMA InitLemma == Init => IInv
<1> SUFFICES ASSUME Init PROVE IInv
  OBVIOUS
<1>1. mem \in [0 .. size - 1 -> Int]
  BY SizesAssumption DEF Init, Junk
<1>2. Fifo
  BY DEF Init, Fifo
<1>3. head + filled <= size
  BY SizesAssumption DEF Init
<1>4. QED
  BY SizesAssumption, <1>1, <1>2, <1>3 DEF Init, IInv, TypeOK, AssertsHold

\* IInv is an invariant for every size of the buffer, every growth and every
\* way reads and writes come.
THEOREM Inductive == Spec => []IInv
BY InitLemma, StepLemma, PTL DEF Spec

\* The filled part of a buffer lies within its memory.
THEOREM TypeCorrect == Spec => []TypeOK
BY Inductive, PTL DEF IInv

\* No assert of endPtr and headPtr fails.
THEOREM AssertsAreTrue == Spec => []AssertsHold
BY Inductive, PTL DEF IInv

\* Bytes leave a buffer in the order they entered it.
THEOREM BuffersCorrect == Spec => []Fifo
BY Inductive, PTL DEF IInv
=============================================================================
