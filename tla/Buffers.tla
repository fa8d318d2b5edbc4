------------------------------ MODULE Buffers ------------------------------
(***************************************************************************)
(* BufferBase with its two uses: the ReadBuffer that FHCommon::Read fills  *)
(* and onReadyToRead consumes, and the WriteBuffer that FHStdIn::put fills *)
(* and onReadyToWrite empties.                                             *)
(*                                                                         *)
(* The bytes of a stream are numbered in the order they go in, so a byte   *)
(* in memory is its number: what is checked is that the bytes that come    *)
(* out are 0, 1, 2, ... whatever the buffer moves, grows or cuts.          *)
(***************************************************************************)
EXTENDS Integers

CONSTANTS
  InitSize,   \* BufferBase(reserve), 512 in the code
  Unit,       \* what Read grows by, 1024 in the code
  MaxRead,    \* Read stops at this total, 10*1024 in the code
  MaxAppend,  \* bound: bytes put() adds at once
  MaxBytes    \* bound: bytes of the whole stream

ASSUME SizesAssumption ==
  /\ InitSize \in Nat \ {0} /\ Unit \in Nat \ {0} /\ MaxRead \in Nat \ {0}
  /\ MaxAppend \in Nat /\ MaxBytes \in Nat

VARIABLES
  kind,     \* "read" or "write": which of the two buffers it is
  size,     \* m_buf.size()
  mem,      \* m_buf
  head,     \* m_head
  filled,   \* m_filled
  total,    \* Read's count of bytes read so far
  reading,  \* inside Read's loop
  out,      \* bytes that were cut from the buffer
  asserts   \* "held" as long as every assert evaluated so far held

vars == <<kind, size, mem, head, filled, total, reading, out, asserts>>

Junk == -1  \* memory that resize() adds

Init ==
  /\ kind \in {"read", "write"}
  /\ size = InitSize /\ mem = [i \in 0 .. InitSize - 1 |-> Junk]
  /\ head = 0 /\ filled = 0
  /\ total = 0 /\ reading = FALSE
  /\ out = 0 /\ asserts = "held"

RestSize == size - (head + filled)

Asserting(p) == asserts' = IF asserts = "held" /\ p THEN "held" ELSE "failed"

\* Mutant of Write: trimming resets m_head and moves nothing.
WriteUnmoved(n, trim, k) ==
  LET move == RestSize < n /\ trim /\ head > 0
      h    == IF move THEN 0 ELSE head
      sz   == IF size - (h + filled) < n THEN h + filled + n ELSE size
      end  == h + filled
  IN  /\ head' = h /\ size' = sz /\ filled' = filled + k
      /\ mem' = [i \in 0 .. sz - 1 |-> IF i \in end .. end + k - 1 THEN out + (i - h)
                                       ELSE IF i < size THEN mem[i] ELSE Junk]
      /\ Asserting((move => filled > 0) /\ end < sz /\ end + k <= sz)

\* reserve(n, trim), followed by writing k of the stream's next bytes at endPtr().
\* Trimming is cut(0, true): it moves the bytes to the start of the memory.
Write(n, trim, k) ==
  LET move == RestSize < n /\ trim /\ head > 0
      h    == IF move THEN 0 ELSE head
      sz   == IF size - (h + filled) < n THEN h + filled + n ELSE size
      end  == h + filled
      old(i) == IF move /\ i < filled THEN mem[i + head]
                ELSE IF i < size THEN mem[i] ELSE Junk
  IN  /\ head' = h
      /\ size' = sz
      /\ mem' = [i \in 0 .. sz - 1 |->
                   IF i \in end .. end + k - 1 THEN out + (i - h) ELSE old(i)]
      /\ filled' = filled + k
      /\ Asserting((move => filled > 0) /\ end < sz /\ end + k <= sz)

\* FHCommon::onReadyToRead calls Read.
BeginRead ==
  /\ kind = "read" /\ ~reading
  /\ reading' = TRUE /\ total' = 0
  /\ UNCHANGED <<kind, size, mem, head, filled, out, asserts>>

\* Mutant of Rest: the growth is rounded down.
RestRoundedDown == IF RestSize = 0 THEN ((2 * total) \div Unit) * Unit ELSE RestSize

\* One turn of its loop: k of the rest bytes asked for arrive.  A full buffer
\* is grown, and the whole growth is asked for.
Rest == IF RestSize = 0 THEN ((2 * total) \div Unit + 1) * Unit ELSE RestSize

ReadSome(k) ==
  /\ reading /\ total < MaxRead
  /\ k \in 0 .. Rest /\ out + filled + k <= MaxBytes
  /\ Write(IF RestSize = 0 THEN Rest ELSE 0, TRUE, k)
  /\ total' = total + k
  /\ reading' = (k = Rest /\ total' < MaxRead)
  /\ UNCHANGED <<kind, out>>

\* cut(k): headPtr() has been handed out before.
Cut(k) ==
  /\ head' = IF k = filled THEN 0 ELSE head + k
  /\ filled' = filled - k
  /\ out' = out + k
  /\ Asserting(head < size /\ k <= filled)

\* onReadyToRead passes head() to the task and cuts what the task has used.
Consume(k) ==
  /\ kind = "read" /\ ~reading /\ k \in 0 .. filled
  /\ Cut(k)
  /\ UNCHANGED <<kind, size, mem, total, reading>>

\* FHStdIn::put
Append(k) ==
  /\ kind = "write" /\ k \in 1 .. MaxAppend /\ out + filled + k <= MaxBytes
  /\ Write(k, FALSE, k)
  /\ UNCHANGED <<kind, total, reading, out>>

\* FHStdIn::onReadyToWrite: write() takes k bytes, possibly none; none there,
\* none taken.
Drain(k) ==
  /\ kind = "write" /\ k \in 0 .. filled
  /\ Cut(k)
  /\ UNCHANGED <<kind, size, mem, total, reading>>

Next ==
  \/ BeginRead
  \/ \E k \in 0 .. MaxBytes : ReadSome(k) \/ Consume(k) \/ Append(k) \/ Drain(k)

Spec == Init /\ [][Next]_vars

-----------------------------------------------------------------------------

\* The members stay within the memory they describe, and an empty buffer
\* starts at its beginning.
TypeOK ==
  /\ kind \in {"read", "write"} /\ reading \in BOOLEAN /\ asserts \in {"held", "failed"}
  /\ size \in Nat \ {0} /\ head \in Nat /\ filled \in Nat /\ out \in Nat /\ total \in Nat
  /\ head + filled <= size /\ (filled = 0 => head = 0)
  /\ mem \in [0 .. size - 1 -> Int]

\* No assert of Buffers.cpp ever fails: in particular endPtr() is never
\* asked for on a full buffer, nor an empty buffer moved.
AssertsHold == asserts = "held"

\* The bytes come out in the order they went in, none lost, none twice,
\* through every move and growth: the stored bytes are exactly the next ones.
Fifo == \A i \in 0 .. filled - 1 : mem[head + i] = out + i
=============================================================================
