--------------------------- MODULE Request_proofs ---------------------------
(***************************************************************************)
(* What is asked of the agent: parseClArgs does what usage() says but that *)
(* it takes an SSID without a key, and words that the device's shell       *)
(* leaves alone reach the agent through am, for command lines of any       *)
(* length, of any options that UnitsAssumption admits, with any values;    *)
(* and the tags of two runs that follow each other within two seconds do   *)
(* not match, but where the digits of the time repeat.                     *)
(***************************************************************************)
EXTENDS IntentExtras, UniqTag, SequenceTheorems, WellFoundedInduction, TLAPS

Letters == {"a", "d", "h", "k", "s", "t", "v"}

\* The types of what parseClArgs has read.
ParseTypes(st) ==
  st \in [flags : SUBSET (Letters \cup {"conn"}), adb : Seq(STRING) \cup {<<"adb">>}, ssid : Seq(STRING),
          key : Seq(STRING), type : AuthTypes, waiting : {"none"}, extra : BOOLEAN,
          failed : BOOLEAN]

\* A type that is not in the list.
WrongType(v) == TypeNamed(v) \notin AuthTypes

\* What one unit changes.
Effect(st, u, new) ==
  /\ ParseTypes(new)
  /\ new.failed <=> Letter(u) = "t" /\ WrongType(Argument(u))
  /\ ~new.failed =>
       /\ new.adb = IF Letter(u) = "a" THEN Argument(u) ELSE st.adb
       /\ new.ssid = IF Letter(u) = "s" THEN Argument(u) ELSE st.ssid
       /\ new.key = IF Letter(u) = "k" THEN Argument(u) ELSE st.key
       /\ new.type = IF Letter(u) = "t" THEN TypeNamed(Argument(u)) ELSE st.type
       /\ new.extra <=> st.extra \/ Letter(u) = "word"
       /\ new.flags = st.flags \cup (IF Letter(u) \in {"s", "k"} THEN {"conn"}
                                     ELSE {Letter(u)} \cap {"d", "v", "h"})

\* The turns of the switch for the options with a value.
LEMMA SetLemma ==
  ASSUME NEW st, NEW v
  PROVE  /\ Set(st, "k", v) = [st EXCEPT !.key = v, !.flags = @ \cup {"conn"}]
         /\ Set(st, "s", v) = [st EXCEPT !.ssid = v, !.flags = @ \cup {"conn"}]
         /\ Set(st, "a", v) = [st EXCEPT !.adb = v]
         /\ ~WrongType(v) => Set(st, "t", v) = [st EXCEPT !.type = TypeNamed(v)]
         /\ WrongType(v) => Set(st, "t", v) = [st EXCEPT !.failed = TRUE]
<1>1. Set(st, "k", v) = [st EXCEPT !.key = v, !.flags = @ \cup {"conn"}]
  BY Zenon DEF Set
<1>2. Set(st, "s", v) = [st EXCEPT !.ssid = v, !.flags = @ \cup {"conn"}]
  BY Zenon DEF Set
<1>3. Set(st, "a", v) = [st EXCEPT !.adb = v]
  BY Zenon DEF Set
<1>4. /\ ~WrongType(v) => Set(st, "t", v) = [st EXCEPT !.type = TypeNamed(v)]
      /\ WrongType(v) => Set(st, "t", v) = [st EXCEPT !.failed = TRUE]
  BY Zenon DEF Set, WrongType
<1> QED
  BY <1>1, <1>2, <1>3, <1>4, Zenon

\* An option that takes a value gives it to the field it names.
LEMMA SetEffect ==
  ASSUME NEW st, ParseTypes(st), ~st.failed, NEW u, NEW v \in Seq(STRING), v = Argument(u),
         NEW l \in {"a", "k", "s", "t"}, l = Letter(u)
  PROVE  Effect(st, u, Set(st, l, v))
<1>1. CASE l = "a"
  <2>1. Set(st, "a", v) = [st EXCEPT !.adb = v]
    BY SetLemma, Zenon
  <2> QED
    BY <1>1, <2>1 DEF Effect, ParseTypes
<1>2. CASE l = "k"
  <2>1. Set(st, "k", v) = [st EXCEPT !.key = v, !.flags = @ \cup {"conn"}]
    BY SetLemma, Zenon
  <2>2. st.flags \cup {"conn"} \in SUBSET (Letters \cup {"conn"})
    BY DEF ParseTypes
  <2>3. ParseTypes(Set(st, "k", v))
    BY <2>1, <2>2 DEF ParseTypes
  <2> QED
    BY <1>2, <2>1, <2>3 DEF Effect, ParseTypes
<1>3. CASE l = "s"
  <2>1. Set(st, "s", v) = [st EXCEPT !.ssid = v, !.flags = @ \cup {"conn"}]
    BY SetLemma, Zenon
  <2>2. st.flags \cup {"conn"} \in SUBSET (Letters \cup {"conn"})
    BY DEF ParseTypes
  <2>3. ParseTypes(Set(st, "s", v))
    BY <2>1, <2>2 DEF ParseTypes
  <2> QED
    BY <1>3, <2>1, <2>3 DEF Effect, ParseTypes
<1>4. CASE l = "t" /\ ~WrongType(v)
  <2>1. Set(st, "t", v) = [st EXCEPT !.type = TypeNamed(v)]
    BY <1>4, SetLemma, Zenon
  <2>2. TypeNamed(v) \in AuthTypes
    BY <1>4 DEF WrongType
  <2> QED
    BY <1>4, <2>1, <2>2 DEF Effect, ParseTypes
<1>5. CASE l = "t" /\ WrongType(v)
  <2>1. Set(st, "t", v) = [st EXCEPT !.failed = TRUE]
    BY <1>5, SetLemma, Zenon
  <2> QED
    BY <1>5, <2>1 DEF Effect, ParseTypes
<1> QED
  BY <1>1, <1>2, <1>3, <1>4, <1>5

\* getopt_long and the loop for an option, its argument, and what is neither.
LEMMA StepLemma ==
  ASSUME NEW st, ~st.failed, NEW arg
  PROVE  /\ st.waiting # "none" => Step(st, arg) = Set([st EXCEPT !.waiting = "none"], st.waiting, arg)
         /\ st.waiting = "none" =>
              /\ arg \in Operands => Step(st, arg) = [st EXCEPT !.extra = TRUE]
              /\ arg \in Unknown => Step(st, arg) = st
              /\ arg \notin Operands \cup Unknown =>
                   /\ arg[1] \in DOMAIN Attached => Step(st, arg) = Set(st, Attached[arg[1]], Tail(arg))
                   /\ arg[1] \in DOMAIN Plain => Step(st, arg) = Set(st, Plain[arg[1]], << >>)
                   /\ arg[1] \in Valued => Step(st, arg) = [st EXCEPT !.waiting = Requires[arg[1]]]
<1>1. /\ \A o \in Valued : o \notin DOMAIN Attached /\ o \notin DOMAIN Plain
      /\ \A o \in DOMAIN Attached : o \notin DOMAIN Plain
  BY DEF Valued, Attached, Plain
<1>2. arg \in Unknown => arg \notin Operands
  BY UnitsAssumption
<1>3. ASSUME st.waiting # "none"
      PROVE  Step(st, arg) = Set([st EXCEPT !.waiting = "none"], st.waiting, arg)
  BY <1>3, Zenon DEF Step
<1>4. ASSUME st.waiting = "none", arg \in Operands
      PROVE  Step(st, arg) = [st EXCEPT !.extra = TRUE]
  BY <1>2, <1>4, Zenon DEF Step
<1>5. ASSUME st.waiting = "none", arg \in Unknown
      PROVE  Step(st, arg) = st
  BY <1>2, <1>5, Zenon DEF Step
<1>6. ASSUME st.waiting = "none", arg \notin Operands, arg \notin Unknown, arg[1] \in DOMAIN Attached
      PROVE  Step(st, arg) = Set(st, Attached[arg[1]], Tail(arg))
  BY <1>1, <1>6, Zenon DEF Step
<1>7. ASSUME st.waiting = "none", arg \notin Operands, arg \notin Unknown, arg[1] \in DOMAIN Plain
      PROVE  Step(st, arg) = Set(st, Plain[arg[1]], << >>)
  BY <1>1, <1>7, Zenon DEF Step
<1>8. ASSUME st.waiting = "none", arg \notin Operands, arg \notin Unknown, arg[1] \in Valued
      PROVE  Step(st, arg) = [st EXCEPT !.waiting = Requires[arg[1]]]
  BY <1>1, <1>8, Zenon DEF Step
<1> QED
  BY <1>3, <1>4, <1>5, <1>6, <1>7, <1>8

\* What begins with an option is neither an operand nor unknown.
LEMMA OptionLemma ==
  ASSUME NEW arg, arg # << >>, arg[1] \in Valued \cup DOMAIN Attached \cup DOMAIN Plain
  PROVE  arg \notin Operands /\ arg \notin Unknown
BY UnitsAssumption

\* An option and its value after it.
LEMMA ValuedLemma ==
  ASSUME NEW st, ParseTypes(st), ~st.failed, NEW u \in Units, Len(u) = 2
  PROVE  Effect(st, u, Step(Step(st, u[1]), u[2]))
<1> DEFINE o == u[1][1]
           v == u[2]
           mid == [st EXCEPT !.waiting = Requires[o]]
<1>1. u[1] # << >> /\ o \in Valued /\ v \in Seq(STRING) /\ v = Argument(u)
  <2>1. u \in Seq(Seq(STRING)) /\ Len(u[1]) = 1 /\ u[1][1] \in Valued
    <3>1. Len(u) # 1
      OBVIOUS
    <3> QED
      BY <3>1, UnitsAssumption, Zenon
  <2>2. u[2] \in Seq(STRING)
    <3>1. 2 \in 1 .. Len(u)
      OBVIOUS
    <3> QED
      BY <2>1, <3>1
  <2>3. u[1] # << >>
    BY <2>1
  <2>4. u[2] = Argument(u)
    BY Zenon DEF Argument
  <2> QED
    BY <2>1, <2>2, <2>3, <2>4, Zenon
<1>2. u[1] \notin Operands /\ u[1] \notin Unknown
  BY <1>1, OptionLemma, Zenon
<1>3. Requires[o] \in {"a", "k", "s", "t"} /\ Requires[o] = Letter(u)
  BY <1>1, <1>2 DEF Requires, Valued, Letter, Means
<1>4. st.waiting = "none"
  BY DEF ParseTypes
<1>5. Step(st, u[1]) = mid
  BY <1>1, <1>2, <1>4, StepLemma
<1>6. mid.waiting = Letter(u) /\ mid.waiting # "none" /\ ~mid.failed
  BY <1>3 DEF ParseTypes
<1>7. [mid EXCEPT !.waiting = "none"] = st
  BY <1>4 DEF ParseTypes
<1> HIDE DEF mid, v
<1>8. Step(mid, v) = Set(st, Letter(u), v)
  <2>1. Step(mid, v) = Set([mid EXCEPT !.waiting = "none"], mid.waiting, v)
    BY <1>6, StepLemma, Zenon
  <2> QED
    BY <1>6, <1>7, <2>1, Zenon
<1>9. Letter(u) \in {"a", "k", "s", "t"}
  BY <1>3, Zenon
<1>10. Effect(st, u, Set(st, Letter(u), v))
  BY <1>1, <1>9, SetEffect, Zenon
<1> QED
  BY <1>5, <1>8, <1>10 DEF v

\* One argument: an option with its value attached, a flag, which is set, a word,
\* which is not forgotten, or something unknown, which is.
LEMMA PlainLemma ==
  ASSUME NEW st, ParseTypes(st), ~st.failed, NEW u \in Units, Len(u) = 1
  PROVE  Effect(st, u, Step(st, u[1]))
<1> DEFINE o == u[1][1]
<1>1. st.waiting = "none"
  BY DEF ParseTypes
<1>2. CASE u[1] # << >> /\ o \in DOMAIN Attached
  <2>1. u[1] \notin Operands /\ u[1] \notin Unknown
    BY <1>2, OptionLemma, Zenon
  <2>2. Attached[o] \in {"a", "k", "s", "t"} /\ Attached[o] = Letter(u)
    BY <1>2, <2>1 DEF Attached, Letter, Means
  <2>3. Tail(u[1]) \in Seq(STRING) /\ Tail(u[1]) = Argument(u)
    <3>1. u \in Seq(Seq(STRING)) /\ 1 \in 1 .. Len(u)
      BY UnitsAssumption
    <3>2. u[1] \in Seq(STRING)
      BY <3>1
    <3> QED
      BY <1>2, <3>2 DEF Argument
  <2>4. Step(st, u[1]) = Set(st, Attached[o], Tail(u[1]))
    BY <1>1, <1>2, <2>1, StepLemma
  <2>5. Effect(st, u, Set(st, Attached[o], Tail(u[1])))
    BY <2>2, <2>3, SetEffect, Zenon
  <2> QED
    BY <2>4, <2>5, Zenon
<1>3. CASE u[1] # << >> /\ o \in DOMAIN Plain
  <2>1. u[1] \notin Operands /\ u[1] \notin Unknown
    BY <1>3, OptionLemma, Zenon
  <2>2. Plain[o] \in {"d", "v", "h"} /\ Letter(u) = Plain[o]
    BY <1>3, <2>1 DEF Letter, Means, Plain
  <2>3. Step(st, u[1]) = Set(st, Plain[o], << >>)
    BY <1>1, <1>3, <2>1, StepLemma
  <2>4. PICK l \in {"d", "h", "v"} : l = Plain[o]
    BY <2>2
  <2>5. Set(st, l, << >>) = [st EXCEPT !.flags = @ \cup {l}]
    BY Zenon DEF Set
  <2>6. st.flags \cup {l} \in SUBSET (Letters \cup {"conn"})
    BY DEF ParseTypes, Letters
  <2>7. ParseTypes(Set(st, l, << >>))
    BY <2>5, <2>6 DEF ParseTypes
  <2>8. Letter(u) = l /\ Step(st, u[1]) = Set(st, l, << >>)
    BY <2>2, <2>3, <2>4, Zenon
  <2> HIDE DEF o
  <2>9. Effect(st, u, Set(st, l, << >>))
    BY <2>5, <2>7, <2>8 DEF Effect, ParseTypes
  <2> QED
    BY <2>8, <2>9, Zenon
<1>4. CASE u[1] \in Unknown
  <2>1. Step(st, u[1]) = st
    BY <1>1, <1>4, StepLemma
  <2>2. Letter(u) = "unknown"
    BY <1>4, UnitsAssumption DEF Letter
  <2> QED
    BY <2>1, <2>2 DEF Effect, ParseTypes
<1>5. CASE u[1] \in Operands
  <2>1. Step(st, u[1]) = [st EXCEPT !.extra = TRUE]
    BY <1>1, <1>5, StepLemma
  <2>2. Letter(u) = "word"
    BY <1>5 DEF Letter
  <2> QED
    BY <2>1, <2>2 DEF Effect, ParseTypes
<1>6. \/ u[1] # << >> /\ o \in DOMAIN Attached \cup DOMAIN Plain
      \/ u[1] \in Unknown \cup Operands
  <2>1. Len(u) # 2
    OBVIOUS
  <2>2. Len(u[1]) > 0 => u[1] # << >>
    OBVIOUS
  <2>3. Len(u[1]) = 1 => u[1] # << >>
    OBVIOUS
  <2> QED
    BY <2>1, <2>2, <2>3, UnitsAssumption, Zenon
<1> QED
  BY <1>2, <1>3, <1>4, <1>5, <1>6

-----------------------------------------------------------------------------
(* The reference, as the command line grows *)

\* A bounded set of positions has its maximum.
LEMMA MaxLemma ==
  ASSUME NEW n \in Nat, NEW S \in SUBSET (1 .. n), S # {}
  PROVE  Max(S) \in S /\ \A y \in S : y <= Max(S)
<1> DEFINE T == {n - x : x \in S}
<1>1. T \in SUBSET Nat /\ T # {}
  <2>1. \A x \in S : n - x \in Nat
    OBVIOUS
  <2>2. PICK x \in S : TRUE
    OBVIOUS
  <2>3. n - x \in T
    BY Zenon
  <2>4. T \in SUBSET Nat
    BY <2>1, Zenon
  <2> QED
    BY <2>3, <2>4, Zenon
<1>2. PICK t \in T : \A u \in T : <<u, t>> \notin OpToRel(<, Nat)
  BY <1>1, WFMin, NatLessThanWellFounded, Zenon
<1>3. \A u \in T : ~(u < t)
  BY <1>1, <1>2 DEF OpToRel
<1>4. PICK x \in S : t = n - x
  OBVIOUS
<1>5. \A y \in S : x >= y
  BY <1>3, <1>4
<1>6. Max(S) \in S /\ \A y \in S : Max(S) >= y
  BY <1>5, Zenon DEF Max
<1> QED
  BY <1>6

\* What is given before stays given, and the new unit is the last of its letter.
LEMMA GivenGrows ==
  ASSUME NEW S, NEW us \in Seq(S), NEW u \in S, NEW l
  PROVE  /\ Given(us, l) \in SUBSET (1 .. Len(us))
         /\ Given(Append(us, u), l) = Given(us, l) \cup IF Letter(u) = l THEN {Len(us) + 1} ELSE {}
         /\ \A n \in 1 .. Len(us) : Append(us, u)[n] = us[n]
         /\ Append(us, u)[Len(us) + 1] = u
<1> DEFINE app == Append(us, u)
<1>1. /\ DOMAIN us = 1 .. Len(us) /\ Len(us) \in Nat
      /\ DOMAIN app = 1 .. (Len(us) + 1)
      /\ \A n \in 1 .. Len(us) : app[n] = us[n]
      /\ app[Len(us) + 1] = u
  OBVIOUS
<1> HIDE DEF app
<1>2. DOMAIN app = DOMAIN us \cup {Len(us) + 1} /\ Len(us) + 1 \notin DOMAIN us
  BY <1>1
<1>3. \A n \in DOMAIN us : Letter(app[n]) = Letter(us[n])
  BY <1>1
<1>4. Given(app, l) = Given(us, l) \cup IF Letter(u) = l THEN {Len(us) + 1} ELSE {}
  BY <1>1, <1>2, <1>3, Zenon DEF Given
<1> QED
  BY <1>1, <1>4 DEF app, Given

\* The last value counts.
LEMMA ValueGrows ==
  ASSUME NEW S, NEW us \in Seq(S), NEW u \in S, NEW l, NEW d
  PROVE  Value(Append(us, u), l, d) = IF Letter(u) = l THEN Argument(u) ELSE Value(us, l, d)
<1>1. CASE Letter(u) = l
  <2> DEFINE G == Given(Append(us, u), l)
             k == Len(us) + 1
  <2>1. G \in SUBSET (1 .. k) /\ k \in G /\ k \in Nat
    BY <1>1, GivenGrows
  <2> HIDE DEF G
  <2>2. Max(G) \in G /\ \A y \in G : y <= Max(G)
    BY <2>1, MaxLemma, Zenon
  <2>3. Max(G) = k
    <3>1. Max(G) \in 1 .. k
      BY <2>1, <2>2, Zenon
    <3>2. k <= Max(G)
      BY <2>1, <2>2, Zenon
    <3> QED
      BY <2>1, <3>1, <3>2
  <2> QED
    BY <1>1, <2>1, <2>3, GivenGrows DEF Value, G
<1>2. CASE Letter(u) # l
  <2>1. Given(Append(us, u), l) = Given(us, l)
    BY <1>2, GivenGrows
  <2>2. CASE Given(us, l) = {}
    BY <1>2, <2>1, <2>2, Zenon DEF Value
  <2>3. CASE Given(us, l) # {}
    <3>1. Given(us, l) \in SUBSET (1 .. Len(us)) /\ Len(us) \in Nat
      BY GivenGrows
    <3>2. Max(Given(us, l)) \in 1 .. Len(us)
      BY <2>3, <3>1, MaxLemma, Zenon
    <3>3. Append(us, u)[Max(Given(us, l))] = us[Max(Given(us, l))]
      BY <3>2, GivenGrows
    <3> QED
      BY <1>2, <2>1, <2>3, <3>3, Zenon DEF Value
  <2> QED
    BY <2>2, <2>3
<1> QED
  BY <1>1, <1>2

-----------------------------------------------------------------------------
(* The parser against the reference *)

\* A type that is not in the list has been given.
Failing(us) == \E n \in Given(us, "t") : WrongType(Argument(us[n]))

\* What is in the configuration and in the flags is what the reference finds.
Agrees(st, us) ==
  /\ st.adb = Value(us, "a", <<"adb">>)
  /\ st.ssid = Value(us, "s", << >>)
  /\ st.key = Value(us, "k", << >>)
  /\ st.type = TypeNamed(Value(us, "t", <<"WPA">>))
  /\ st.extra <=> Given(us, "word") # {}
  /\ st.flags = {l \in {"d", "v", "h"} : Given(us, l) # {}}
                  \cup (IF Given(us, "s") \cup Given(us, "k") # {} THEN {"conn"} ELSE {})

\* The inductive invariant: until a wrong type has come, the parser waits for
\* no argument between two units and knows what the reference knows.
ParseInv ==
  /\ units \in Seq(Units)
  /\ parsed.failed <=> Failing(units)
  /\ ~parsed.failed => ParseTypes(parsed) /\ Agrees(parsed, units)

\* One unit, whichever it is.
LEMMA UnitLemma ==
  ASSUME NEW st, ParseTypes(st), ~st.failed, NEW u \in Units
  PROVE  Effect(st, u, IF Len(u) = 1 THEN Step(st, u[1]) ELSE Step(Step(st, u[1]), u[2]))
<1>1. Len(u) \in {1, 2}
  BY UnitsAssumption
<1>2. CASE Len(u) = 1
  BY <1>2, PlainLemma, Zenon
<1>3. CASE Len(u) = 2
  BY <1>3, ValuedLemma
<1> QED
  BY <1>1, <1>2, <1>3

\* A wrong type is not taken back.
LEMMA FailingGrows ==
  ASSUME NEW S, NEW us \in Seq(S), NEW u \in S
  PROVE  Failing(Append(us, u)) <=> Failing(us) \/ (Letter(u) = "t" /\ WrongType(Argument(u)))
<1> DEFINE app == Append(us, u)
           k == Len(us) + 1
<1>1. Given(us, "t") \in SUBSET (1 .. Len(us))
  BY GivenGrows
<1>2. Given(app, "t") = Given(us, "t") \cup IF Letter(u) = "t" THEN {k} ELSE {}
  BY GivenGrows
<1>3. \A n \in Given(us, "t") : app[n] = us[n]
  BY <1>1, GivenGrows
<1>4. app[k] = u
  BY GivenGrows
<1> HIDE DEF app, k
<1>5. Failing(app) <=> Failing(us) \/ (Letter(u) = "t" /\ WrongType(Argument(u)))
  BY <1>2, <1>3, <1>4, Zenon DEF Failing
<1> QED
  BY <1>5 DEF app

\* The configuration and the flags follow the reference unit by unit.
LEMMA AgreesGrows ==
  ASSUME NEW us \in Seq(Units), NEW u \in Units, NEW st, NEW new,
         Agrees(st, us), Effect(st, u, new), ~new.failed
  PROVE  Agrees(new, Append(us, u))
<1> DEFINE app == Append(us, u)
           L == Letter(u)
<1>1. \A l, d : Value(app, l, d) = IF L = l THEN Argument(u) ELSE Value(us, l, d)
  BY ValueGrows, Zenon
<1>2. \A l : Given(app, l) # {} <=> Given(us, l) # {} \/ L = l
  BY GivenGrows
<1> HIDE DEF app, L
<1>3. new.adb = Value(app, "a", <<"adb">>)
  BY <1>1, Zenon DEF Agrees, Effect, L
<1>4. new.ssid = Value(app, "s", << >>) /\ new.key = Value(app, "k", << >>)
  BY <1>1, Zenon DEF Agrees, Effect, L
<1>5. new.type = TypeNamed(Value(app, "t", <<"WPA">>))
  BY <1>1, Zenon DEF Agrees, Effect, L
<1>6. new.extra <=> Given(app, "word") # {}
  BY <1>2, Zenon DEF Agrees, Effect, L
<1>7. new.flags = {l \in {"d", "v", "h"} : Given(app, l) # {}}
                    \cup (IF Given(app, "s") \cup Given(app, "k") # {} THEN {"conn"} ELSE {})
  <2> DEFINE Old == {l \in {"d", "v", "h"} : Given(us, l) # {}}
             New == {l \in {"d", "v", "h"} : Given(app, l) # {}}
             OldConn == IF Given(us, "s") \cup Given(us, "k") # {} THEN {"conn"} ELSE {}
             NewConn == IF Given(app, "s") \cup Given(app, "k") # {} THEN {"conn"} ELSE {}
  <2>1. st.flags = Old \cup OldConn
    BY DEF Agrees
  <2>2. new.flags = st.flags \cup (IF L \in {"s", "k"} THEN {"conn"} ELSE {L} \cap {"d", "v", "h"})
    BY DEF Effect, L
  <2>3. New = Old \cup ({L} \cap {"d", "v", "h"})
    BY <1>2
  <2>4. NewConn = OldConn \cup (IF L \in {"s", "k"} THEN {"conn"} ELSE {})
    BY <1>2
  <2>5. L \in {"s", "k"} => {L} \cap {"d", "v", "h"} = {}
    OBVIOUS
  <2> HIDE DEF Old, New, OldConn, NewConn
  <2>6. new.flags = New \cup NewConn
    BY <2>1, <2>2, <2>3, <2>4, <2>5
  <2> QED
    BY <2>6 DEF New, NewConn
<1>8. Agrees(new, app)
  BY <1>3, <1>4, <1>5, <1>6, <1>7, Zenon DEF Agrees
<1> QED
  BY <1>8 DEF app

LEMMA EmptyAgrees == ASSUME Empty PROVE ParseInv
<1>1. \A l : Given(units, l) = {}
  BY DEF Given, Empty
<1>2. \A l, d : Value(units, l, d) = d
  BY <1>1, Zenon DEF Value
<1>3. parsed = Fresh /\ units \in Seq(Units)
  BY DEF Empty
<1>4. ~parsed.failed /\ ~Failing(units)
  BY <1>1, <1>3 DEF Failing, Fresh
<1>5. ParseTypes(parsed)
  <2>1. <<"WPA">> \in AuthTypes
    BY DEF AuthTypes
  <2> QED
    BY <1>3, <2>1 DEF ParseTypes, Fresh
<1>6. Agrees(parsed, units)
  <2>1. TypeNamed(<<"WPA">>) = <<"WPA">>
    BY DEF TypeNamed, SaysWEP, SaysWPA
  <2>2. /\ parsed.adb = <<"adb">> /\ parsed.ssid = << >> /\ parsed.key = << >>
        /\ parsed.type = <<"WPA">> /\ ~parsed.extra /\ parsed.flags = {}
    BY <1>3 DEF Fresh
  <2>3. {l \in {"d", "v", "h"} : Given(units, l) # {}} = {}
    BY <1>1
  <2>4. Given(units, "s") \cup Given(units, "k") = {}
    BY <1>1
  <2> QED
    BY <1>1, <1>2, <2>1, <2>2, <2>3, <2>4 DEF Agrees
<1> QED
  BY <1>3, <1>4, <1>5, <1>6 DEF ParseInv

LEMMA ReadsAgree == ASSUME ParseInv, Reads PROVE ParseInv'
<1>1. PICK u \in Units : Add(u)
  BY DEF Reads
<1> DEFINE next == IF Len(u) = 1 THEN Step(parsed, u[1]) ELSE Step(Step(parsed, u[1]), u[2])
<1>2. units \in Seq(Units) /\ units' = Append(units, u) /\ parsed' = next
  BY <1>1 DEF ParseInv, Add
<1>3. units' \in Seq(Units)
  BY <1>2
<1>4. Failing(units') <=> Failing(units) \/ (Letter(u) = "t" /\ WrongType(Argument(u)))
  BY <1>2, FailingGrows, Zenon
<1>5. CASE parsed.failed
  <2>1. \A arg : Step(parsed, arg) = parsed
    BY <1>5, Zenon DEF Step
  <2>2. parsed' = parsed
    BY <1>2, <2>1, Zenon
  <2>3. Failing(units')
    BY <1>4, <1>5 DEF ParseInv
  <2> QED
    BY <1>3, <1>5, <2>2, <2>3 DEF ParseInv, Failing, WrongType, Given
<1>6. CASE ~parsed.failed
  <2>1. ParseTypes(parsed) /\ Agrees(parsed, units) /\ ~Failing(units)
    BY <1>6 DEF ParseInv
  <2>2. Effect(parsed, u, parsed')
    BY <1>2, <1>6, <2>1, UnitLemma, Zenon
  <2>3. ParseTypes(parsed') /\ (parsed'.failed <=> Failing(units'))
    BY <1>4, <2>1, <2>2, Zenon DEF Effect
  <2>4. ~parsed'.failed => Agrees(parsed', units')
    BY <1>2, <2>1, <2>2, AgreesGrows, Zenon
  <2> QED
    BY <1>3, <2>3, <2>4 DEF ParseInv
<1> QED
  BY <1>5, <1>6

\* What parseClArgs knows after every unit of a command line (ParseInv): until a
\* type has come that is not in the list, it waits for no argument, has the last
\* value of each option and the default of those not given, and the flags of
\* what was given.
THEOREM Parses == ReadSpec => []ParseInv
<1>1. Empty => ParseInv
  BY EmptyAgrees
<1>2. ParseInv /\ [Reads]_request => ParseInv'
  <2>1. CASE Reads
    BY <2>1, ReadsAgree
  <2>2. CASE UNCHANGED request
    BY <2>2 DEF request, ParseInv
  <2> QED
    BY <2>1, <2>2
<1> QED
  BY <1>1, <1>2, PTL DEF ReadSpec

\* What usage() is asked about: the command line, with a key if it has an SSID.
WithKey == IF KeyLeftOut(units) THEN Append(units, EmptyKey) ELSE units

\* The empty key is an option with the value it has when it is not given.
LEMMA EmptyKeyLemma == Letter(EmptyKey) = "k" /\ Argument(EmptyKey) = << >>
<1> DEFINE arg == <<"-k">>
<1>1. EmptyKey[1] = arg /\ arg[1] = "-k" /\ arg # << >>
  BY DEF EmptyKey
<1>2. arg \notin Operands /\ arg \notin Unknown
  <2>1. arg[1] \in Valued
    BY <1>1 DEF Valued
  <2> QED
    BY <1>1, <2>1, OptionLemma, Zenon
<1>3. Letter(EmptyKey) = "k"
  BY <1>1, <1>2 DEF Letter, Means
<1>4. Argument(EmptyKey) = << >>
  BY DEF Argument, EmptyKey
<1> QED
  BY <1>3, <1>4

\* With the key, everything but the key is as without it, and it has a key if it
\* has an SSID.
LEMMA WithKeyLemma ==
  ASSUME units \in Seq(Units)
  PROVE  /\ \A l : Given(WithKey, l) # {} <=> Given(units, l) # {} \/ (KeyLeftOut(units) /\ l = "k")
         /\ \A l, d : l # "k" => Value(WithKey, l, d) = Value(units, l, d)
         /\ Value(WithKey, "k", << >>) = Value(units, "k", << >>)
         /\ Failing(WithKey) <=> Failing(units)
<1>1. CASE ~KeyLeftOut(units)
  BY <1>1, Zenon DEF WithKey
<1>2. CASE KeyLeftOut(units)
  <2> DEFINE S == Units \cup {EmptyKey}
  <2>1. units \in Seq(S) /\ EmptyKey \in S
    OBVIOUS
  <2>2. WithKey = Append(units, EmptyKey)
    BY <1>2 DEF WithKey
  <2>3. Given(units, "k") = {}
    BY <1>2 DEF KeyLeftOut
  <2> HIDE DEF S
  <2>4. \A l : Given(WithKey, l) = Given(units, l) \cup IF "k" = l THEN {Len(units) + 1} ELSE {}
    BY <2>1, <2>2, GivenGrows, EmptyKeyLemma
  <2>5. \A l, d : Value(WithKey, l, d) = IF "k" = l THEN << >> ELSE Value(units, l, d)
    BY <2>1, <2>2, ValueGrows, EmptyKeyLemma
  <2>6. Value(units, "k", << >>) = << >>
    BY <2>3, Zenon DEF Value
  <2>7. Failing(WithKey) <=> Failing(units)
    BY <2>1, <2>2, FailingGrows, EmptyKeyLemma
  <2>8. \A l : Given(WithKey, l) # {} <=> Given(units, l) # {} \/ l = "k"
    BY <2>4
  <2> QED
    BY <1>2, <2>5, <2>6, <2>7, <2>8, Zenon
<1> QED
  BY <1>1, <1>2

\* The mode, the configuration and the verbosity are those of usage().
LEMMA SameOutcome == ASSUME ParseInv PROVE AsDocumented
<1> DEFINE Has(l) == Given(units, l) # {}
           Connect == Has("s") \/ Has("k")
           ssid == Value(units, "s", << >>)
           key == Value(units, "k", << >>)
           type == TypeNamed(Value(units, "t", <<"WPA">>))
           Bad == \/ Has("word")
                  \/ Failing(units)
                  \/ Connect /\ (Has("d") \/ ssid = << >>)
                  \/ ~Connect /\ ~Has("d") /\ ~Has("h")
           mode == IF Bad THEN "error" ELSE IF Connect THEN "connect"
                   ELSE IF Has("d") THEN "disconnect" ELSE "help"
<1>1. \A v : WrongType(v) <=> v \notin SaysWEP \cup SaysWPA
  <2>1. <<"WEP">> \in SaysWEP /\ <<"WPA">> \in SaysWPA
    BY Zenon DEF SaysWEP, SaysWPA
  <2> QED
    BY <2>1, Zenon DEF WrongType, TypeNamed, AuthTypes
<1>2. parsed.failed <=> Failing(units)
  BY DEF ParseInv
<1>3. ASSUME ~parsed.failed
      PROVE  /\ parsed.extra <=> Has("word")
             /\ "conn" \in parsed.flags <=> Connect
             /\ \A l \in {"d", "v", "h"} : l \in parsed.flags <=> Has(l)
             /\ parsed.adb = Value(units, "a", <<"adb">>) /\ parsed.ssid = ssid
             /\ parsed.key = key /\ parsed.type = type
  BY <1>3 DEF ParseInv, Agrees
<1> HIDE DEF Has, ssid, key, type
<1>4. Mode(parsed) = mode
  <2>1. CASE parsed.failed
    BY <1>2, <2>1, Zenon DEF Mode
  <2>2. CASE ~parsed.failed
    <3>1. /\ parsed.extra <=> Has("word")
          /\ "conn" \in parsed.flags <=> Connect
          /\ "d" \in parsed.flags <=> Has("d")
          /\ "h" \in parsed.flags <=> Has("h")
          /\ parsed.ssid = ssid
      BY <1>3, <2>2
    <3>2. {"d", "conn"} \subseteq parsed.flags <=> Has("d") /\ Connect
      BY <3>1
    <3> QED
      BY <1>2, <2>2, <3>1, <3>2, Zenon DEF Mode
  <2> QED
    BY <2>1, <2>2
<1>5. ASSUME mode \in {"connect", "disconnect"}
      PROVE  ~parsed.failed
  BY <1>2, <1>5
<1>6. Documented(WithKey) =
        IF mode \in {"connect", "disconnect"}
        THEN [mode |-> mode, adb |-> Value(units, "a", <<"adb">>), ssid |-> ssid,
              key |-> key, type |-> type, verbose |-> Has("v")]
        ELSE [mode |-> mode, verbose |-> FALSE]
  <2> DEFINE HasKey(l) == Given(WithKey, l) # {}
             BadKey == \/ HasKey("word")
                       \/ \E n \in Given(WithKey, "t") : Argument(WithKey[n]) \notin SaysWEP \cup SaysWPA
                       \/ (HasKey("s") \/ HasKey("k"))
                          /\ (HasKey("d") \/ ~HasKey("k") \/ Value(WithKey, "s", << >>) = << >>)
                       \/ ~(HasKey("s") \/ HasKey("k")) /\ ~HasKey("d") /\ ~HasKey("h")
             modeKey == IF BadKey THEN "error" ELSE IF HasKey("s") \/ HasKey("k") THEN "connect"
                        ELSE IF HasKey("d") THEN "disconnect" ELSE "help"
  <2>1. units \in Seq(Units)
    BY DEF ParseInv
  <2>2. \A l \in {"word", "s", "d", "h", "v"} : HasKey(l) <=> Has(l)
    BY <2>1, WithKeyLemma DEF Has
  <2>3. HasKey("k") <=> Connect
    <3>1. HasKey("k") <=> Has("k") \/ KeyLeftOut(units)
      BY <2>1, WithKeyLemma DEF Has
    <3>2. KeyLeftOut(units) <=> Has("s") /\ ~Has("k")
      BY Zenon DEF KeyLeftOut, Has
    <3> QED
      BY <3>1, <3>2
  <2>4. /\ Value(WithKey, "s", << >>) = ssid /\ Value(WithKey, "k", << >>) = key
        /\ TypeNamed(Value(WithKey, "t", <<"WPA">>)) = type
        /\ Value(WithKey, "a", <<"adb">>) = Value(units, "a", <<"adb">>)
    <3>1. "s" # "k" /\ "t" # "k" /\ "a" # "k"
      OBVIOUS
    <3> QED
      BY <2>1, <3>1, WithKeyLemma, Zenon DEF ssid, key, type
  <2>5. (\E n \in Given(WithKey, "t") : Argument(WithKey[n]) \notin SaysWEP \cup SaysWPA) <=> Failing(units)
    <3>1. Failing(WithKey) <=> Failing(units)
      BY <2>1, WithKeyLemma, Zenon
    <3> QED
      BY <1>1, <3>1, Zenon DEF Failing
  <2>6. Documented(WithKey) =
          IF modeKey \in {"connect", "disconnect"}
          THEN [mode |-> modeKey, adb |-> Value(WithKey, "a", <<"adb">>), ssid |-> Value(WithKey, "s", << >>),
                key |-> Value(WithKey, "k", << >>),
                type |-> TypeNamed(Value(WithKey, "t", <<"WPA">>)), verbose |-> HasKey("v")]
          ELSE [mode |-> modeKey, verbose |-> FALSE]
    BY Zenon DEF Documented
  <2>7. HasKey("v") = Has("v")
    <3>1. Given(WithKey, "v") # {} <=> Given(units, "v") # {}
      BY <2>1, WithKeyLemma
    <3> QED
      BY <3>1 DEF Has
  <2>8. /\ HasKey("word") <=> Has("word")
        /\ HasKey("s") <=> Has("s")
        /\ HasKey("d") <=> Has("d")
        /\ HasKey("h") <=> Has("h")
    BY <2>2
  <2> HIDE DEF HasKey
  <2>9. BadKey <=> Bad
    BY <2>3, <2>4, <2>5, <2>8, Zenon
  <2>10. HasKey("s") \/ HasKey("k") <=> Connect
    BY <2>3, <2>8
  <2> HIDE DEF BadKey, Bad, Connect
  <2>11. modeKey = mode
    BY <2>8, <2>9, <2>10, Zenon
  <2> HIDE DEF modeKey, mode
  <2> QED
    BY <2>4, <2>6, <2>7, <2>11
<1>7. Outcome =
        IF mode \in {"connect", "disconnect"}
        THEN [mode |-> mode, adb |-> parsed.adb, ssid |-> parsed.ssid, key |-> parsed.key,
              type |-> parsed.type, verbose |-> "v" \in parsed.flags]
        ELSE [mode |-> mode, verbose |-> FALSE]
  BY <1>4, Zenon DEF Outcome
<1>8. AsDocumented <=> Outcome = Documented(WithKey)
  BY Zenon DEF AsDocumented, WithKey
<1> HIDE DEF mode
<1>9. CASE mode \in {"connect", "disconnect"}
  <2>1. /\ parsed.adb = Value(units, "a", <<"adb">>) /\ parsed.ssid = ssid
        /\ parsed.key = key /\ parsed.type = type
        /\ ("v" \in parsed.flags) = Has("v")
    BY <1>3, <1>5, <1>9 DEF Has
  <2> QED
    BY <1>6, <1>7, <1>8, <1>9, <2>1, Zenon
<1>10. CASE mode \notin {"connect", "disconnect"}
  BY <1>6, <1>7, <1>8, <1>10, Zenon
<1> QED
  BY <1>9, <1>10

\* Command lines of every length, of any options, flags, operands and unknown
\* arguments that UnitsAssumption admits, are run as usage() says, those without
\* a key like those with an empty one (AsDocumented).
THEOREM ParsedAsDocumented == ReadSpec => []AsDocumented
<1> QED
  BY Parses, SameOutcome, PTL

-----------------------------------------------------------------------------
(* am's reading of the words *)

\* am before an option, with the extras it has.
Am(k, x) == [state |-> "option", key |-> k, extras |-> x]
Plus(x, k, v) == [j \in DOMAIN x \cup {k} |-> IF j = k THEN v ELSE x[j]]

\* am reads word by word, or what the shell makes of it, through the whole line.
LEMMA AmReadsLemma ==
  ASSUME NEW words, Len(words) \in Nat
  PROVE  /\ AmReads(words)[0] = AmStarts
         /\ \A i \in 1 .. Len(words) : AmReads(words)[i] = AmGets(AmReads(words)[i - 1], words[i])
<1> DEFINE Run(f, n) ==
             f = [i \in 0 .. n |-> IF i = 0 THEN AmStarts ELSE AmGets(f[i - 1], words[i])]
           None == {n \in Nat : \A f : ~Run(f, n)}
<1>1. None = {}
  <2> SUFFICES ASSUME None # {} PROVE FALSE
    OBVIOUS
  <2>1. PICK n \in None : \A m \in None : <<m, n>> \notin OpToRel(<, Nat)
    BY WFMin, NatLessThanWellFounded, Zenon
  <2>2. \A m \in Nat : m < n => m \notin None
    BY <2>1 DEF OpToRel
  <2>3. n \in Nat /\ \A f : ~Run(f, n)
    OBVIOUS
  <2>4. CASE n = 0
    <3> DEFINE f == [i \in 0 .. 0 |-> AmStarts]
    <3>1. Run(f, 0)
      OBVIOUS
    <3> QED
      BY <2>3, <2>4, <3>1, Zenon
  <2>5. CASE n # 0
    <3>1. n - 1 \in Nat /\ n - 1 < n
      BY <2>3, <2>5
    <3>2. PICK f : Run(f, n - 1)
      BY <2>2, <3>1, Zenon
    <3> DEFINE g == [i \in 0 .. n |-> IF i = n THEN AmGets(f[n - 1], words[n]) ELSE f[i]]
    <3>3. \A i \in 0 .. n - 1 : g[i] = f[i]
      BY <3>1
    <3>4. \A i \in 0 .. n - 1 : f[i] = IF i = 0 THEN AmStarts ELSE AmGets(f[i - 1], words[i])
      BY <3>2, Zenon
    <3>5. \A i \in 0 .. n : g[i] = IF i = 0 THEN AmStarts ELSE AmGets(g[i - 1], words[i])
      BY <2>5, <3>1, <3>3, <3>4
    <3>6. g = [i \in 0 .. n |-> IF i = 0 THEN AmStarts ELSE AmGets(g[i - 1], words[i])]
      BY <3>5
    <3> QED
      BY <2>3, <3>6, Zenon
  <2> QED
    BY <2>4, <2>5
<1>2. PICK f : Run(f, Len(words))
  BY <1>1, Zenon
<1>3. AmReads(words) = CHOOSE r : Run(r, Len(words))
  BY Zenon DEF AmReads
<1>4. Run(AmReads(words), Len(words))
  BY <1>2, <1>3, Zenon
<1> QED
  BY <1>4

\* Words that the device's shell leaves as they are.
LeftAlone(words) ==
  Len(words) \in Nat /\ DOMAIN words = 1 .. Len(words) /\ \A i \in 1 .. Len(words) : words[i] \notin DOMAIN Expansion

\* am gets these as they are, all of them.
LEMMA LeftAloneLemma ==
  ASSUME NEW words, LeftAlone(words)
  PROVE  /\ AmReads(words)[0] = AmStarts
         /\ \A i \in 1 .. Len(words) : AmReads(words)[i] = AmTakes(AmReads(words)[i - 1], words[i])
         /\ AmEnds(words) = AmReads(words)[Len(words)]
<1>1. Len(words) \in Nat /\ \A i \in 1 .. Len(words) : words[i] \notin DOMAIN Expansion
  BY DEF LeftAlone
<1>2. \A i \in 1 .. Len(words) : AmGets(AmReads(words)[i - 1], words[i]) = AmTakes(AmReads(words)[i - 1], words[i])
  BY <1>1, Zenon DEF AmGets
<1>3. AmReads(words)[0] = AmStarts
      /\ \A i \in 1 .. Len(words) : AmReads(words)[i] = AmTakes(AmReads(words)[i - 1], words[i])
  BY <1>1, <1>2, AmReadsLemma, Zenon
<1>4. {n \in DOMAIN words : words[n] \in Cuts} = {}
  BY <1>1, ShellAssumption DEF LeftAlone
<1>5. Command(words) = words
  BY <1>4, Zenon DEF Command
<1>6. AmEnds(words) = AmReads(words)[Len(words)]
  BY <1>5, Zenon DEF AmEnds
<1> QED
  BY <1>3, <1>6

\* -e with a key and a value.
LEMMA AmOption ==
  ASSUME NEW k0, NEW x, NEW k, NEW v
  PROVE  AmTakes(AmTakes(AmTakes(Am(k0, x), "-e"), k), v) = Am(k, Plus(x, k, v))
<1>1. AmTakes(Am(k0, x), "-e") = [state |-> "key", key |-> k0, extras |-> x]
  BY DEF AmTakes, Am
<1>2. AmTakes([state |-> "key", key |-> k0, extras |-> x], k) = [state |-> "value", key |-> k, extras |-> x]
  BY DEF AmTakes
<1>3. AmTakes([state |-> "value", key |-> k, extras |-> x], v) = Am(k, Plus(x, k, v))
  BY DEF AmTakes, Am, Plus
<1> QED
  BY <1>1, <1>2, <1>3

\* The extras by their keys.
LEMMA ExtraLemma ==
  ASSUME NEW x, NEW k, NEW v, NEW j
  PROVE  Extra(Plus(x, k, v), j) = (IF j = k THEN {v} ELSE Extra(x, j)) /\ Extra(<< >>, j) = {}
<1>1. DOMAIN Plus(x, k, v) = DOMAIN x \cup {k} /\ Plus(x, k, v)[k] = v
  BY DEF Plus
<1>2. \A i \in DOMAIN x : i # k => Plus(x, k, v)[i] = x[i]
  BY DEF Plus
<1> HIDE DEF Plus
<1>3. Extra(Plus(x, k, v), k) = {v}
  BY <1>1, Zenon DEF Extra
<1>4. ASSUME j # k PROVE Extra(Plus(x, k, v), j) = Extra(x, j)
  BY <1>1, <1>2, <1>4, Zenon DEF Extra
<1>5. Extra(<< >>, j) = {}
  BY DEF Extra
<1> QED
  BY <1>3, <1>4, <1>5

\* After n words am is before an option and has the extras x.
At(words, n, x) == n \in Nat /\ n <= Len(words) /\ \E k : AmReads(words)[n] = Am(k, x)

\* am takes three words for an option, wherever they are.
LEMMA AmThree ==
  ASSUME NEW words, LeftAlone(words), NEW n, NEW m, NEW x, NEW k, NEW v, At(words, n, x),
         m = n + 3, m <= Len(words), words[n + 1] = "-e", words[n + 2] = k, words[n + 3] = v
  PROVE  At(words, m, Plus(x, k, v))
<1> PICK k0 : AmReads(words)[n] = Am(k0, x)
  BY DEF At
<1>1. n \in Nat /\ \A i \in 1 .. Len(words) : AmReads(words)[i] = AmTakes(AmReads(words)[i - 1], words[i])
  BY LeftAloneLemma, Zenon DEF At
<1>2. AmReads(words)[n + 1] = AmTakes(Am(k0, x), "-e")
  BY <1>1
<1>3. AmReads(words)[n + 2] = AmTakes(AmReads(words)[n + 1], k)
  BY <1>1
<1>4. AmReads(words)[m] = AmTakes(AmReads(words)[n + 2], v)
  BY <1>1
<1>5. AmReads(words)[m] = AmTakes(AmTakes(AmTakes(Am(k0, x), "-e"), k), v)
  BY <1>2, <1>3, <1>4
<1>6. AmReads(words)[m] = Am(k, Plus(x, k, v))
  <2>1. AmTakes(AmTakes(AmTakes(Am(k0, x), "-e"), k), v) = Am(k, Plus(x, k, v))
    BY AmOption
  <2> QED
    BY <1>5, <2>1
<1> QED
  BY <1>1, <1>6 DEF At

\* The activity, the mode and the tag come first.
LEMMA AmHead ==
  ASSUME NEW words, LeftAlone(words), Len(words) \in Nat, Len(words) >= 8, NEW m,
         words[1] = "-n", words[2] = "MainActivity", words[3] = "-e", words[4] = "mode",
         words[5] = m, words[6] = "-e", words[7] = "uniq", words[8] = "tag"
  PROVE  At(words, 8, Plus(Plus(<< >>, "mode", m), "uniq", "tag"))
<1>1. /\ AmReads(words)[0] = AmStarts
      /\ \A i \in 1 .. Len(words) : AmReads(words)[i] = AmTakes(AmReads(words)[i - 1], words[i])
  BY LeftAloneLemma, Zenon
<1>2. 1 \in 1 .. Len(words) /\ 2 \in 1 .. Len(words)
  OBVIOUS
<1>3. AmReads(words)[1] = AmTakes(AmReads(words)[0], words[1])
  <2>1. AmReads(words)[1] = AmTakes(AmReads(words)[1 - 1], words[1])
    BY <1>1, <1>2, Zenon
  <2> QED
    BY <2>1
<1>4. AmReads(words)[2] = AmTakes(AmReads(words)[1], words[2])
  <2>1. AmReads(words)[2] = AmTakes(AmReads(words)[2 - 1], words[2])
    BY <1>1, <1>2, Zenon
  <2> QED
    BY <2>1
<1>5. AmReads(words)[2] = Am("none", << >>)
  <2> DEFINE named == [state |-> "name", key |-> "none", extras |-> << >>]
  <2>1. AmTakes(AmStarts, "-n") = named
    BY DEF AmTakes, AmStarts
  <2>2. AmTakes(named, "MainActivity") = Am("none", << >>)
    BY DEF AmTakes, Am
  <2> QED
    BY <1>1, <1>3, <1>4, <2>1, <2>2, Zenon
<1>6. At(words, 2, << >>)
  BY <1>5 DEF At
<1>7. At(words, 5, Plus(<< >>, "mode", m))
  <2>1. /\ 5 = 2 + 3 /\ 5 <= Len(words)
        /\ words[2 + 1] = "-e" /\ words[2 + 2] = "mode" /\ words[2 + 3] = m
    OBVIOUS
  <2> QED
    BY <1>6, <2>1, AmThree, Zenon
<1>8. At(words, 8, Plus(Plus(<< >>, "mode", m), "uniq", "tag"))
  <2>1. /\ 8 = 5 + 3 /\ 8 <= Len(words)
        /\ words[5 + 1] = "-e" /\ words[5 + 2] = "uniq" /\ words[5 + 3] = "tag"
    OBVIOUS
  <2> QED
    BY <1>7, <2>1, AmThree, Zenon
<1> QED
  BY <1>8

LEMMA DisconnectTold ==
  ASSUME NEW cfg, cfg.mode = "disconnect"
  PROVE  Told(cfg) = Asked(cfg)
<1> DEFINE words == Intent(cfg)
           x == Plus(Plus(<< >>, "mode", "disconnect"), "uniq", "tag")
<1>1. words = <<"-n", "MainActivity", "-e", "mode", "disconnect", "-e", "uniq", "tag">> \o << >>
  BY DEF Intent
<1>2. /\ Len(words) = 8 /\ Len(words) >= 8 /\ Len(words) \in Nat
      /\ words[1] = "-n" /\ words[2] = "MainActivity" /\ words[3] = "-e" /\ words[4] = "mode"
      /\ words[5] = "disconnect" /\ words[6] = "-e" /\ words[7] = "uniq" /\ words[8] = "tag"
  BY <1>1
<1> HIDE DEF words
<1>3. LeftAlone(words)
  <2>1. DOMAIN words = 1 .. 8
    BY <1>1 DEF words
  <2>2. \A i \in 1 .. 8 : words[i] \in OwnWords
    BY <1>2 DEF OwnWords
  <2> QED
    BY <1>2, <2>1, <2>2, ShellAssumption DEF LeftAlone
<1>4. At(words, 8, x)
  BY <1>2, <1>3, AmHead, Zenon
<1>5. AmEnds(words).state = "option" /\ AmEnds(words).extras = x
  <2>1. AmEnds(words) = AmReads(words)[8]
    BY <1>2, <1>3, LeftAloneLemma, Zenon
  <2> QED
    BY <1>4, <2>1 DEF At, Am
<1>6. Extra(x, "mode") = {"disconnect"} /\ Extra(x, "uniq") = {"tag"}
  BY ExtraLemma
<1> HIDE DEF x
<1>7. Agent(x) = [mode |-> {"disconnect"}, uniq |-> {"tag"}]
  BY <1>6 DEF Agent
<1> QED
  BY <1>5, <1>7 DEF Told, Asked, words

LEMMA ConnectTold ==
  ASSUME NEW cfg, cfg.mode = "connect", cfg.type \in AuthTypes,
         cfg.ssid \in Seq(STRING), IsOneWord(cfg.ssid), cfg.key \in Seq(STRING), IsOneWord(cfg.key)
  PROVE  Told(cfg) = Asked(cfg)
<1> DEFINE words == Intent(cfg)
           s == cfg.ssid[1]
           p == cfg.key[1]
           t == cfg.type[1]
           head == Plus(Plus(<< >>, "mode", "connect"), "uniq", "tag")
           x == Plus(Plus(Plus(head, "ssid", s), "password", p), "password_type", t)
<1>1. cfg.ssid = <<s>> /\ cfg.key = <<p>> /\ s \notin DOMAIN Expansion /\ p \notin DOMAIN Expansion
  BY DEF IsOneWord
<1>2. cfg.type = <<t>> /\ t \in {"WEP", "WPA"}
  BY DEF AuthTypes
<1>3. words = <<"-n", "MainActivity", "-e", "mode", "connect", "-e", "uniq", "tag">> \o
              (<<"-e", "ssid">> \o <<s>> \o <<"-e", "password">> \o <<p>>
                \o <<"-e", "password_type">> \o <<t>>)
  BY <1>1, <1>2, Zenon DEF Intent
<1> HIDE DEF s, p, t
<1>4. /\ Len(words) = 17 /\ Len(words) >= 8 /\ Len(words) \in Nat
      /\ words[1] = "-n" /\ words[2] = "MainActivity" /\ words[3] = "-e" /\ words[4] = "mode"
      /\ words[5] = "connect" /\ words[6] = "-e" /\ words[7] = "uniq" /\ words[8] = "tag"
      /\ words[9] = "-e" /\ words[10] = "ssid" /\ words[11] = s
      /\ words[12] = "-e" /\ words[13] = "password" /\ words[14] = p
      /\ words[15] = "-e" /\ words[16] = "password_type" /\ words[17] = t
  BY <1>3
<1>5. DOMAIN words = 1 .. 17
  BY <1>3
<1> HIDE DEF words
<1>6. LeftAlone(words)
  <2>1. \A i \in 1 .. 17 : words[i] \in OwnWords \cup {s, p}
    BY <1>2, <1>4 DEF OwnWords
  <2> QED
    BY <1>1, <1>4, <1>5, <2>1, ShellAssumption DEF LeftAlone
<1>7. At(words, 8, head)
  BY <1>4, <1>6, AmHead, Zenon
<1>8. At(words, 11, Plus(head, "ssid", s))
  <2>1. /\ 11 = 8 + 3 /\ 11 <= Len(words)
        /\ words[8 + 1] = "-e" /\ words[8 + 2] = "ssid" /\ words[8 + 3] = s
    BY <1>4
  <2> QED
    BY <1>4, <1>6, <1>7, <2>1, AmThree, Zenon
<1>9. At(words, 14, Plus(Plus(head, "ssid", s), "password", p))
  <2>1. /\ 14 = 11 + 3 /\ 14 <= Len(words)
        /\ words[11 + 1] = "-e" /\ words[11 + 2] = "password" /\ words[11 + 3] = p
    BY <1>4
  <2> QED
    BY <1>4, <1>6, <1>8, <2>1, AmThree, Zenon
<1>10. At(words, 17, x)
  <2>1. /\ 17 = 14 + 3 /\ 17 <= Len(words)
        /\ words[14 + 1] = "-e" /\ words[14 + 2] = "password_type" /\ words[14 + 3] = t
    BY <1>4
  <2> QED
    BY <1>4, <1>6, <1>9, <2>1, AmThree, Zenon
<1>11. AmEnds(words).state = "option" /\ AmEnds(words).extras = x
  <2>1. AmEnds(words) = AmReads(words)[17]
    BY <1>4, <1>6, LeftAloneLemma, Zenon
  <2> QED
    BY <1>10, <2>1 DEF At, Am
<1>12. /\ Extra(x, "mode") = {"connect"} /\ Extra(x, "uniq") = {"tag"}
       /\ Extra(x, "ssid") = {s} /\ Extra(x, "password") = {p} /\ Extra(x, "password_type") = {t}
  BY ExtraLemma
<1> HIDE DEF x
<1>13. Agent(x) = [mode |-> {"connect"}, uniq |-> {"tag"}, ssid |-> {s}, key |-> {p}, type |-> {t}]
  BY <1>2, <1>12 DEF Agent
<1> QED
  BY <1>11, <1>13 DEF Told, Asked, words, s, p, t

\* What is accepted comes from a configuration with the types of ParseTypes.
LEMMA AllTold == ASSUME ParseInv PROVE WordsDelivered
<1> DEFINE cfg == Outcome
<1>1. CASE ~Runs(cfg)
  BY <1>1, Zenon DEF WordsDelivered
<1>2. CASE Runs(cfg)
  <2>1. ~parsed.failed /\ Mode(parsed) \in {"connect", "disconnect"}
    <3>1. cfg.mode = Mode(parsed)
      BY DEF Outcome
    <3>2. Mode(parsed) # "error"
      BY <1>2, <3>1 DEF Runs
    <3> QED
      BY <1>2, <3>1, <3>2 DEF Mode, Runs
  <2>2. ParseTypes(parsed)
    BY <2>1 DEF ParseInv
  <2>3. /\ cfg.mode = Mode(parsed) /\ cfg.ssid = parsed.ssid /\ cfg.key = parsed.key
        /\ cfg.type = parsed.type
    BY <2>1 DEF Outcome
  <2>4. cfg.ssid \in Seq(STRING) /\ cfg.key \in Seq(STRING) /\ cfg.type \in AuthTypes
    BY <2>2, <2>3 DEF ParseTypes
  <2> HIDE DEF cfg
  <2>5. (cfg.mode = "connect" => IsOneWord(cfg.ssid) /\ IsOneWord(cfg.key)) => Told(cfg) = Asked(cfg)
    BY <2>1, <2>3, <2>4, DisconnectTold, ConnectTold, Zenon
  <2> QED
    BY <2>5, Zenon DEF WordsDelivered, cfg
<1> QED
  BY <1>1, <1>2

\* Whatever the SSID and the key are, options of am included, if each is one word
\* that the device's shell leaves alone, the agent gets them with the mode, the
\* tag and the type (WordsDelivered); it gets what a disconnect needs always.
THEOREM EveryWordDelivered == ReadSpec => []WordsDelivered
<1> QED
  BY Parses, AllTold, PTL

-----------------------------------------------------------------------------
(* The tags *)

Digit == 0 .. 9

\* A byte has one to three digits, the last of which is its remainder.
LEMMA DigitsLemma ==
  ASSUME NEW b \in 0 .. 255
  PROVE  /\ Digits(b) \in Seq(Digit) /\ Len(Digits(b)) > 0
         /\ Digits(b)[Len(Digits(b))] = b % 10
<1>1. CASE b < 10
  <2>1. Digits(b) = <<b>>
    BY <1>1 DEF Digits
  <2> QED
    BY <1>1, <2>1 DEF Digit
<1>2. CASE ~(b < 10) /\ b < 100
  <2>1. Digits(b) = <<b \div 10, b % 10>>
    BY <1>2 DEF Digits
  <2>2. b \div 10 \in Digit /\ b % 10 \in Digit
    BY <1>2 DEF Digit
  <2> HIDE DEF Digit
  <2> QED
    BY <2>1, <2>2
<1>3. CASE ~(b < 10) /\ ~(b < 100)
  <2>1. Digits(b) = <<b \div 100, (b \div 10) % 10, b % 10>>
    BY <1>3 DEF Digits
  <2>2. b \div 100 \in Digit /\ (b \div 10) % 10 \in Digit /\ b % 10 \in Digit
    BY <1>3 DEF Digit
  <2> QED
    BY <2>1, <2>2
<1> QED
  BY <1>1, <1>2, <1>3

\* A greater byte has as many digits or more, and others if as many.
LEMMA DigitsGrow ==
  ASSUME NEW b \in 0 .. 255, NEW c \in 0 .. 255, b < c
  PROVE  /\ Len(Digits(b)) <= Len(Digits(c))
         /\ Len(Digits(b)) = Len(Digits(c)) => \E k \in 1 .. Len(Digits(c)) : Digits(b)[k] # Digits(c)[k]
<1>1. CASE b < 10
  <2>1. Digits(b) = <<b>>
    BY <1>1 DEF Digits
  <2>2. CASE c < 10
    <3>1. Digits(c) = <<c>>
      BY <2>2 DEF Digits
    <3>2. 1 \in 1 .. Len(Digits(c)) /\ Digits(b)[1] # Digits(c)[1]
      BY <2>1, <3>1
    <3>3. Len(Digits(b)) <= Len(Digits(c))
      BY <2>1, <3>1
    <3>4. \E k \in 1 .. Len(Digits(c)) : Digits(b)[k] # Digits(c)[k]
      BY <3>2, Zenon
    <3> QED
      BY <3>3, <3>4
  <2>3. CASE ~(c < 10)
    <3>1. Len(Digits(c)) \in {2, 3}
      BY <2>3 DEF Digits
    <3>2. Len(Digits(b)) = 1
      BY <2>1
    <3> QED
      BY <3>1, <3>2
  <2> QED
    BY <2>2, <2>3
<1>2. CASE ~(b < 10) /\ b < 100
  <2>1. Digits(b) = <<b \div 10, b % 10>>
    BY <1>2 DEF Digits
  <2>2. ~(c < 10)
    BY <1>2
  <2>3. CASE c < 100
    <3>1. Digits(c) = <<c \div 10, c % 10>>
      BY <2>2, <2>3 DEF Digits
    <3>2. b \div 10 # c \div 10 \/ b % 10 # c % 10
      OBVIOUS
    <3> QED
      BY <2>1, <3>1, <3>2
  <2>4. CASE ~(c < 100)
    <3>1. Len(Digits(c)) = 3
      BY <2>2, <2>4 DEF Digits
    <3> QED
      BY <2>1, <3>1
  <2> QED
    BY <2>3, <2>4
<1>3. CASE ~(b < 10) /\ ~(b < 100)
  <2>1. Digits(b) = <<b \div 100, (b \div 10) % 10, b % 10>>
    BY <1>3 DEF Digits
  <2>2. Digits(c) = <<c \div 100, (c \div 10) % 10, c % 10>>
    BY <1>3 DEF Digits
  <2>3. b \div 100 # c \div 100 \/ (b \div 10) % 10 # (c \div 10) % 10 \/ b % 10 # c % 10
    OBVIOUS
  <2> QED
    BY <2>1, <2>2, <2>3
<1> QED
  BY <1>1, <1>2, <1>3

\* Where a text that ends with kept is found in another, kept is found in itself.
LEMMA KeptLemma ==
  ASSUME NEW x \in Seq(Digit), NEW y \in Seq(Digit), NEW kept \in Seq(Digit),
         NEW i \in 0 .. Len(x \o kept) - Len(y \o kept),
         \A k \in 1 .. Len(y \o kept) : (x \o kept)[i + k] = (y \o kept)[k]
  PROVE  LET n == Len(x) - Len(y) - i
         IN  n \in Nat /\ n <= Len(x \o kept) - Len(y \o kept) /\ Repeats(kept, n)
<1> DEFINE n == Len(x) - Len(y) - i
           text == x \o kept
           tag == y \o kept
<1>1. /\ Len(x) \in Nat /\ Len(y) \in Nat /\ Len(kept) \in Nat
      /\ Len(text) = Len(x) + Len(kept) /\ Len(tag) = Len(y) + Len(kept)
      /\ \A k \in 1 .. Len(kept) : text[Len(x) + k] = kept[k] /\ tag[Len(y) + k] = kept[k]
  OBVIOUS
<1>2. \A k \in 1 .. Len(tag) : text[i + k] = tag[k]
  OBVIOUS
<1> HIDE DEF text, tag
<1>3. n \in Nat /\ n <= Len(text) - Len(tag)
  BY <1>1 DEF text, tag
<1>4. ASSUME NEW k \in 1 .. Len(kept) - n
      PROVE  kept[k] = kept[k + n]
  <2>1. k + n \in 1 .. Len(kept) /\ k \in 1 .. Len(kept) /\ Len(y) + n + k \in 1 .. Len(tag)
    BY <1>1, <1>3
  <2>2. tag[Len(y) + (k + n)] = kept[k + n]
    BY <1>1, <2>1
  <2>3. text[i + (Len(y) + (k + n))] = tag[Len(y) + (k + n)]
    <3>1. Len(y) + (k + n) \in 1 .. Len(tag)
      BY <1>1, <1>3, <2>1
    <3> QED
      BY <1>2, <3>1, Zenon
  <2>4. i + (Len(y) + (k + n)) = Len(x) + k
    BY <1>1, <1>3
  <2>5. text[Len(x) + k] = kept[k]
    BY <1>1, <2>1
  <2> QED
    BY <2>2, <2>3, <2>4, <2>5
<1> QED
  BY <1>3, <1>4 DEF Repeats, text, tag

\* Two texts whose last digits before kept differ.
LEMMA ApartLemma ==
  ASSUME NEW x \in Seq(Digit), NEW y \in Seq(Digit), NEW kept \in Seq(Digit),
         Len(x) > 0, Len(y) > 0, x[Len(x)] # y[Len(y)], IsFoundIn(y \o kept, x \o kept)
  PROVE  \E n \in 1 .. Len(x \o kept) - Len(y \o kept) : Repeats(kept, n)
<1>1. PICK i \in 0 .. Len(x \o kept) - Len(y \o kept) :
        \A k \in 1 .. Len(y \o kept) : (x \o kept)[i + k] = (y \o kept)[k]
  BY Zenon DEF IsFoundIn
<1> DEFINE n == Len(x) - Len(y) - i
<1>2. n \in Nat /\ n <= Len(x \o kept) - Len(y \o kept) /\ Repeats(kept, n)
  BY <1>1, KeptLemma
<1>3. n # 0
  <2> SUFFICES ASSUME n = 0 PROVE FALSE
    OBVIOUS
  <2>1. Len(y) \in 1 .. Len(y \o kept) /\ i + Len(y) = Len(x)
    OBVIOUS
  <2>2. (x \o kept)[Len(x)] = (y \o kept)[Len(y)]
    BY <1>1, <2>1
  <2> QED
    BY <2>2
<1>4. n \in 1 .. Len(x \o kept) - Len(y \o kept)
  BY <1>2, <1>3
<1> QED
  BY <1>2, <1>4

\* Two texts that begin with different bytes, the later the greater.
LEMMA LowestLemma ==
  ASSUME NEW b \in 0 .. 255, NEW c \in 0 .. 255, b < c, NEW kept \in Seq(Digit)
  PROVE  ~IsFoundIn(Digits(c) \o kept, Digits(b) \o kept)
<1> DEFINE x == Digits(b)
           y == Digits(c)
<1>1. /\ x \in Seq(Digit) /\ y \in Seq(Digit) /\ Len(x) <= Len(y)
      /\ Len(x) = Len(y) => \E k \in 1 .. Len(y) : x[k] # y[k]
  BY DigitsLemma, DigitsGrow
<1> HIDE DEF x, y
<1> SUFFICES ASSUME IsFoundIn(y \o kept, x \o kept) PROVE FALSE
  BY DEF x, y
<1>2. PICK i \in 0 .. Len(x \o kept) - Len(y \o kept) :
        \A k \in 1 .. Len(y \o kept) : (x \o kept)[i + k] = (y \o kept)[k]
  BY Zenon DEF IsFoundIn
<1>3. i = 0 /\ Len(x) = Len(y)
  BY <1>1
<1>4. PICK k \in 1 .. Len(y) : x[k] # y[k]
  BY <1>1, <1>3
<1>5. (x \o kept)[i + k] = x[k] /\ (y \o kept)[k] = y[k] /\ k \in 1 .. Len(y \o kept)
  BY <1>1, <1>3
<1> QED
  BY <1>2, <1>4, <1>5

\* The digits of a time below one of its bytes.
Below2(t) == Digits(Byte0(t)) \o Digits(Byte1(t))
Below3(t) == Below2(t) \o Digits(Byte2(t))
Below4(t) == Below3(t) \o Digits(Byte3(t))

\* Digits that end with those of a byte.
Ends(x, b) == x \in Seq(Digit) /\ Len(x) > 0 /\ x[Len(x)] = b % 10

LEMMA JoinLemma ==
  ASSUME NEW x \in Seq(Digit), NEW y \in Seq(Digit), Len(y) > 0
  PROVE  x \o y \in Seq(Digit) /\ Len(x \o y) > 0 /\ (x \o y)[Len(x \o y)] = y[Len(y)]
OBVIOUS

LEMMA AssociativeLemma ==
  ASSUME NEW x \in Seq(Digit), NEW y \in Seq(Digit), NEW z \in Seq(Digit)
  PROVE  (x \o y) \o z = x \o (y \o z)
BY ConcatAssociative

LEMMA EndsLemma ==
  ASSUME NEW x \in Seq(Digit), NEW b \in 0 .. 255
  PROVE  Ends(x \o Digits(b), b)
<1>1. Digits(b) \in Seq(Digit) /\ Len(Digits(b)) > 0 /\ Digits(b)[Len(Digits(b))] = b % 10
  BY DigitsLemma, Zenon
<1> QED
  BY <1>1, JoinLemma, Zenon DEF Ends

\* A time in bytes, and its tag cut at each of them.
Parts(t) ==
  /\ Byte0(t) \in 0 .. 255 /\ Byte1(t) \in 0 .. 255 /\ Byte2(t) \in 0 .. 255 /\ Byte3(t) \in 0 .. 255
  /\ {FromByte1(t), FromByte2(t), FromByte3(t), Era} \subseteq Seq(Digit)
  /\ Ends(Below2(t), Byte1(t)) /\ Ends(Below3(t), Byte2(t)) /\ Ends(Below4(t), Byte3(t))
  /\ Tag(t) = Digits(Byte0(t)) \o FromByte1(t)
  /\ Tag(t) = Below2(t) \o FromByte2(t)
  /\ Tag(t) = Below3(t) \o FromByte3(t)
  /\ Tag(t) = Below4(t) \o Era

LEMMA TagLemma == ASSUME NEW t \in Nat, Byte3(t) <= 255 PROVE Parts(t)
<1>1. Byte0(t) \in 0 .. 255 /\ Byte1(t) \in 0 .. 255 /\ Byte2(t) \in 0 .. 255 /\ Byte3(t) \in 0 .. 255
  BY SMT DEF Byte0, Byte1, Byte2, Byte3
<1> DEFINE d0 == Digits(Byte0(t))
           d1 == Digits(Byte1(t))
           d2 == Digits(Byte2(t))
           d3 == Digits(Byte3(t))
<1>2. d0 \in Seq(Digit) /\ d1 \in Seq(Digit) /\ d2 \in Seq(Digit) /\ d3 \in Seq(Digit)
  BY <1>1, DigitsLemma
<1>3. Era \in Seq(Digit)
  BY TimesAssumption DEF Digit
<1>4. /\ FromByte3(t) = d3 \o Era /\ FromByte2(t) = d2 \o FromByte3(t)
      /\ FromByte1(t) = d1 \o FromByte2(t) /\ Tag(t) = d0 \o FromByte1(t)
  BY Zenon DEF FromByte3, FromByte2, FromByte1, Tag
<1>5. Below2(t) = d0 \o d1 /\ Below3(t) = Below2(t) \o d2 /\ Below4(t) = Below3(t) \o d3
  BY Zenon DEF Below2, Below3, Below4
<1> HIDE DEF d0, d1, d2, d3
<1>6. \A x, y \in Seq(Digit) : x \o y \in Seq(Digit)
  BY ConcatProperties
<1>7. FromByte3(t) \in Seq(Digit) /\ Below2(t) \in Seq(Digit)
  BY <1>2, <1>3, <1>4, <1>5, <1>6, Zenon
<1>8. FromByte2(t) \in Seq(Digit) /\ Below3(t) \in Seq(Digit)
  BY <1>2, <1>4, <1>5, <1>6, <1>7, Zenon
<1>9. FromByte1(t) \in Seq(Digit)
  BY <1>2, <1>4, <1>6, <1>8, Zenon
<1>10. Tag(t) = Below2(t) \o FromByte2(t)
  <2>1. (d0 \o d1) \o FromByte2(t) = d0 \o (d1 \o FromByte2(t))
    BY <1>2, <1>8, AssociativeLemma, Zenon
  <2> QED
    BY <1>4, <1>5, <2>1
<1>11. Tag(t) = Below3(t) \o FromByte3(t)
  <2>1. (Below2(t) \o d2) \o FromByte3(t) = Below2(t) \o (d2 \o FromByte3(t))
    BY <1>2, <1>7, AssociativeLemma, Zenon
  <2> QED
    BY <1>4, <1>5, <1>10, <2>1
<1>12. Tag(t) = Below4(t) \o Era
  <2>1. (Below3(t) \o d3) \o Era = Below3(t) \o (d3 \o Era)
    <3>1. Below3(t) \in Seq(Digit) /\ d3 \in Seq(Digit) /\ Era \in Seq(Digit)
      BY <1>2, <1>3, <1>8
    <3> QED
      BY <3>1, AssociativeLemma
  <2> QED
    BY <1>4, <1>5, <1>11, <2>1
<1>13. Tag(t) = Digits(Byte0(t)) \o FromByte1(t)
  BY Zenon DEF Tag
<1>14. Ends(Below2(t), Byte1(t)) /\ Ends(Below3(t), Byte2(t)) /\ Ends(Below4(t), Byte3(t))
  BY <1>1, <1>2, <1>5, <1>7, <1>8, EndsLemma, Zenon DEF d1, d2, d3
<1> QED
  BY <1>1, <1>3, <1>7, <1>8, <1>9, <1>10, <1>11, <1>12, <1>13, <1>14, Zenon DEF Parts

\* Numbers that are less than ten apart end with different digits.
LEMMA LastDigitLemma ==
  ASSUME NEW b \in 0 .. 255, NEW c \in 0 .. 255, c - b \in 1 .. 8
  PROVE  b % 10 # c % 10
OBVIOUS

\* Two texts whose last bytes before kept end with different digits.
LEMMA BytesApart ==
  ASSUME NEW x, NEW y, NEW b, NEW c, NEW kept, {kept} \subseteq Seq(Digit), Ends(x, b), Ends(y, c),
         b % 10 # c % 10, IsFoundIn(y \o kept, x \o kept)
  PROVE  \E n \in 1 .. Len(x \o kept) - Len(y \o kept) : Repeats(kept, n)
BY ApartLemma, Zenon DEF Ends

\* Within two seconds the highest byte that changes does so by eight at most.
LEMMA CarryLemma ==
  ASSUME NEW s \in Nat, NEW t \in Nat, Soon(s, t)
  PROVE  /\ Byte3(s) # Byte3(t) => Byte3(t) = Byte3(s) + 1
         /\ Byte3(s) = Byte3(t) /\ Byte2(s) # Byte2(t) => Byte2(t) = Byte2(s) + 1
         /\ Byte3(s) = Byte3(t) /\ Byte2(s) = Byte2(t) =>
              \/ Byte1(t) - Byte1(s) \in 1 .. 8
              \/ Byte1(t) = Byte1(s) /\ Byte0(s) < Byte0(t)
<1>1. Byte3(s) # Byte3(t) => Byte3(t) = Byte3(s) + 1
  BY SMT DEF Soon, Byte3
<1>2. Byte3(s) = Byte3(t) /\ Byte2(s) # Byte2(t) => Byte2(t) = Byte2(s) + 1
  BY SMT DEF Soon, Byte3, Byte2
<1>3. ASSUME Byte3(s) = Byte3(t) /\ Byte2(s) = Byte2(t)
      PROVE  \/ Byte1(t) - Byte1(s) \in 1 .. 8
             \/ Byte1(t) = Byte1(s) /\ Byte0(s) < Byte0(t)
  BY <1>3, SMT DEF Soon, Byte3, Byte2, Byte1, Byte0
<1> QED
  BY <1>1, <1>2, <1>3

LEMMA TwoTags ==
  ASSUME NEW s \in Nat, NEW t \in Nat, Soon(s, t), Byte3(t) <= 255,
         IsFoundIn(Tag(t), Tag(s))
  PROVE  \E n \in 1 .. Len(Tag(s)) - Len(Tag(t)) : Repeats(Kept(s, t), n)
<1>1. Parts(s) /\ Parts(t)
  <2>1. Byte3(s) <= 255
    BY SMT DEF Soon, Byte3
  <2> QED
    BY <2>1, TagLemma
<1>2. CASE Byte3(s) # Byte3(t)
  <2>1. Byte3(t) - Byte3(s) \in 1 .. 8
    <3>1. Byte3(s) \in 0 .. 255 /\ Byte3(t) \in 0 .. 255
      BY <1>1, Zenon DEF Parts
    <3>2. Byte3(t) = Byte3(s) + 1
      BY <1>2, CarryLemma, Zenon
    <3> QED
      BY <3>1, <3>2
  <2>2. Byte3(s) % 10 # Byte3(t) % 10
    BY <1>1, <2>1, LastDigitLemma, Zenon DEF Parts
  <2>3. Kept(s, t) = Era
    BY <1>2 DEF Kept
  <2>4. Tag(s) = Below4(s) \o Era /\ Tag(t) = Below4(t) \o Era
    BY <1>1, Zenon DEF Parts
  <2>5. Ends(Below4(s), Byte3(s)) /\ Ends(Below4(t), Byte3(t)) /\ {Era} \subseteq Seq(Digit)
    BY <1>1, Zenon DEF Parts
  <2>6. \E n \in 1 .. Len(Below4(s) \o Era) - Len(Below4(t) \o Era) : Repeats(Era, n)
    BY <2>2, <2>4, <2>5, BytesApart, Zenon
  <2> QED
    BY <2>3, <2>4, <2>6, Zenon
<1>3. CASE Byte3(s) = Byte3(t) /\ Byte2(s) # Byte2(t)
  <2>1. Byte2(t) - Byte2(s) \in 1 .. 8
    <3>1. Byte2(s) \in 0 .. 255 /\ Byte2(t) \in 0 .. 255
      BY <1>1, Zenon DEF Parts
    <3>2. Byte2(t) = Byte2(s) + 1
      BY <1>3, CarryLemma, Zenon
    <3> QED
      BY <3>1, <3>2
  <2>2. Byte2(s) % 10 # Byte2(t) % 10
    BY <1>1, <2>1, LastDigitLemma, Zenon DEF Parts
  <2> DEFINE kept == FromByte3(t)
  <2>3. Kept(s, t) = kept
    BY <1>3 DEF Kept
  <2>4. Tag(s) = Below3(s) \o kept /\ Tag(t) = Below3(t) \o kept
    <3>1. FromByte3(s) = FromByte3(t)
      BY <1>3 DEF FromByte3
    <3> QED
      BY <1>1, <3>1, Zenon DEF Parts
  <2>5. Ends(Below3(s), Byte2(s)) /\ Ends(Below3(t), Byte2(t)) /\ {kept} \subseteq Seq(Digit)
    BY <1>1, Zenon DEF Parts
  <2>6. \E n \in 1 .. Len(Below3(s) \o kept) - Len(Below3(t) \o kept) : Repeats(kept, n)
    BY <2>2, <2>4, <2>5, BytesApart, Zenon
  <2> QED
    BY <2>3, <2>4, <2>6, Zenon
<1>4. CASE Byte3(s) = Byte3(t) /\ Byte2(s) = Byte2(t)
  <2> DEFINE kept == FromByte2(t)
  <2>1. Kept(s, t) = kept
    BY <1>4 DEF Kept
  <2>2. FromByte2(s) = kept
    BY <1>4 DEF FromByte2, FromByte3
  <2>3. CASE Byte1(t) - Byte1(s) \in 1 .. 8
    <3>1. Byte1(s) % 10 # Byte1(t) % 10
      BY <1>1, <2>3, LastDigitLemma, Zenon DEF Parts
    <3>2. Tag(s) = Below2(s) \o kept /\ Tag(t) = Below2(t) \o kept
      BY <1>1, <2>2, Zenon DEF Parts
    <3>3. Ends(Below2(s), Byte1(s)) /\ Ends(Below2(t), Byte1(t)) /\ {kept} \subseteq Seq(Digit)
      BY <1>1, Zenon DEF Parts
    <3>4. \E n \in 1 .. Len(Below2(s) \o kept) - Len(Below2(t) \o kept) : Repeats(kept, n)
      BY <3>1, <3>2, <3>3, BytesApart, Zenon
    <3> QED
      BY <2>1, <3>2, <3>4, Zenon
  <2>4. CASE Byte1(t) = Byte1(s) /\ Byte0(s) < Byte0(t)
    <3>1. FromByte1(s) = FromByte1(t)
      BY <2>2, <2>4 DEF FromByte1
    <3>2. Tag(s) = Digits(Byte0(s)) \o FromByte1(t) /\ Tag(t) = Digits(Byte0(t)) \o FromByte1(t)
      BY <1>1, <3>1, Zenon DEF Parts
    <3>3. Byte0(s) \in 0 .. 255 /\ Byte0(t) \in 0 .. 255 /\ FromByte1(t) \in Seq(Digit)
      BY <1>1, Zenon DEF Parts
    <3>4. ~IsFoundIn(Digits(Byte0(t)) \o FromByte1(t), Digits(Byte0(s)) \o FromByte1(t))
      BY <2>4, <3>3, LowestLemma, Zenon
    <3> QED
      BY <3>2, <3>4, Zenon
  <2> QED
    BY <1>4, <2>3, <2>4, CarryLemma
<1> QED
  BY <1>2, <1>3, <1>4

\* The times stay below the next era.
ClockInv == earlier \in Times /\ now \in Nat /\ earlier <= now /\ now <= earlier + MaxGap

\* Two runs within two seconds have tags that differ, and the later tag is not
\* part of the earlier one, unless the digits of the higher bytes repeat
\* (TagsDifferSoon): at any time, whatever the era.
THEOREM TagsAreApart == ClockSpec => []TagsDifferSoon
<1>1. Started => ClockInv
  BY TimesAssumption DEF Started, ClockInv
<1>2. ClockInv /\ [Tick]_clock => ClockInv'
  <2> SUFFICES ASSUME ClockInv, [Tick]_clock PROVE ClockInv'
    OBVIOUS
  <2>1. earlier \in Nat /\ MaxGap \in Nat
    BY TimesAssumption DEF ClockInv
  <2> QED
    BY <2>1 DEF ClockInv, Tick, clock
<1>3. ClockInv => TagsDifferSoon
  <2> SUFFICES ASSUME ClockInv PROVE TagsDifferSoon
    OBVIOUS
  <2>1. earlier \in Nat /\ now \in Nat /\ MaxGap \in Nat /\ Byte3(earlier + MaxGap) <= 255
    BY TimesAssumption DEF ClockInv
  <2>2. Byte3(now) <= 255
    BY <2>1, SMT DEF ClockInv, Byte3
  <2> QED
    BY <2>1, <2>2, TwoTags, Zenon DEF TagsDifferSoon
<1> QED
  BY <1>1, <1>2, <1>3, PTL DEF ClockSpec
=============================================================================
