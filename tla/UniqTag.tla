------------------------------- MODULE UniqTag -------------------------------
(***************************************************************************)
(* The tag that tells the answers of one run from those of another:        *)
(* Config::Builder::build writes the bytes of the time in milliseconds in  *)
(* decimal, lowest first, with nothing between them, and onTagLine looks   *)
(* for the tag anywhere in a line.  The low four bytes of the time are the *)
(* time here, all of which are written since February 1970; what the bytes *)
(* above them read, which change every 50 days, is Era.                    *)
(***************************************************************************)
EXTENDS Naturals, Sequences

CONSTANTS
  Times,   \* when the earlier run may have been started
  MaxGap,  \* bound: milliseconds between the two runs
  Era      \* the digits of the bytes above the low four

\* The bytes of a time, lowest first.
Byte0(t) == t % 256
Byte1(t) == (t \div 256) % 256
Byte2(t) == (t \div 65536) % 256
Byte3(t) == t \div 16777216

\* No time is so late that the fourth byte is not enough.
ASSUME TimesAssumption ==
  /\ MaxGap \in Nat /\ Times \subseteq Nat
  /\ \A t \in Times : Byte3(t + MaxGap) <= 255
  /\ Era \in Seq(0 .. 9)

VARIABLES
  earlier,  \* when the earlier run was started
  now       \* the time, at which the later run may be

clock == <<earlier, now>>

Started == earlier \in Times /\ now = earlier
Tick == now < earlier + MaxGap /\ now' = now + 1 /\ UNCHANGED earlier

ClockSpec == Started /\ [][Tick]_clock

-----------------------------------------------------------------------------

\* std::to_string of a byte.
Digits(byte) ==
  IF byte < 10 THEN <<byte>>
  ELSE IF byte < 100 THEN <<byte \div 10, byte % 10>>
  ELSE <<byte \div 100, (byte \div 10) % 10, byte % 10>>

\* The digits of a time from one of its bytes on.
FromByte3(t) == Digits(Byte3(t)) \o Era
FromByte2(t) == Digits(Byte2(t)) \o FromByte3(t)
FromByte1(t) == Digits(Byte1(t)) \o FromByte2(t)

\* Mutant of Tag: the time in seconds.
TagOfSeconds(t) == Digits(Byte0(t \div 1000)) \o FromByte1(t \div 1000)

Tag(t) == Digits(Byte0(t)) \o FromByte1(t)

\* view.find(tag) finds it.
IsFoundIn(tag, text) ==
  \E i \in 0 .. Len(text) - Len(tag) : \A k \in 1 .. Len(tag) : text[i + k] = tag[k]

-----------------------------------------------------------------------------

\* The digits that two times have in common: those above the highest byte, of
\* the upper three, that is not the same in both.
Kept(s, t) ==
  IF Byte3(s) # Byte3(t) THEN Era
  ELSE IF Byte2(s) # Byte2(t) THEN FromByte3(t)
  ELSE FromByte2(t)

\* The digits are the same again n places on.
Repeats(digits, n) == \A k \in 1 .. Len(digits) - n : digits[k] = digits[k + n]

\* Runs that are started within two seconds.
Soon(s, t) == s < t /\ t <= s + 2000

\* An answer with the earlier run's tag is not taken for the later run's, if
\* the runs are started within two seconds, unless the later tag is shorter and
\* the digits that both tags end with repeat.  (Without the two seconds: bytes
\* 11, 1 and 1, 11 have one tag, 2550 ms apart.)
TagsDifferSoon ==
  Soon(earlier, now) /\ IsFoundIn(Tag(now), Tag(earlier)) =>
    \E n \in 1 .. Len(Tag(earlier)) - Len(Tag(now)) : Repeats(Kept(earlier, now), n)
=============================================================================
