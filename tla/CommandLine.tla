----------------------------- MODULE CommandLine -----------------------------
(***************************************************************************)
(* parseClArgs over every short command line, against what usage() says.   *)
(* An argument is a sequence of words, so that "my net" is <<"my", "net">> *)
(* and "" is << >>; where it begins with an option and an equals sign, the *)
(* first word is these two, so that "--ssid=my net" is                     *)
(* <<"--ssid=", "my", "net">>.  getopt_long is external: it takes the      *)
(* argument after an option that requires one whatever it looks like, goes *)
(* on after a word that is no option, and returns '?' for what it does not *)
(* know.  It takes more than is modelled here, see UnitsAssumption.        *)
(***************************************************************************)
EXTENDS Naturals, Sequences, FiniteSetsExt

CONSTANTS
  Units,    \* what a command line is made of: an option with its value, or a word
  Operands, \* arguments that do not begin with a dash, the empty one among them
  Unknown,  \* arguments that do, and that getopt_long does not know
  MaxUnits  \* bound: units of a command line

AuthTypes == {<<"WEP">>, <<"WPA">>}

\* What strcasecmp takes for the one and the other.
SaysWEP == {<<w>> : w \in {"WEP", "WEp", "WeP", "Wep", "wEP", "wEp", "weP", "wep"}}
SaysWPA == {<<w>> : w \in {"WPA", "WPa", "WpA", "Wpa", "wPA", "wPa", "wpA", "wpa"}}

\* longopts and the short options: the letter, for options with an argument,
\* with it attached, and without one.
Valued == {"-a", "--adbcmd", "-k", "--key", "-s", "--ssid", "-t", "--type"}
Requires ==
  [o \in Valued \cup {"--disconnect", "--verbose"} |->
     CASE o \in {"-a", "--adbcmd"} -> "a" [] o \in {"-k", "--key"} -> "k"
       [] o \in {"-s", "--ssid"} -> "s"   [] o \in {"-t", "--type"} -> "t"
       [] o = "--disconnect" -> "d"       [] OTHER -> "v"]
Attached ==
  [o \in {"--adbcmd=", "--key=", "--ssid=", "--type="} |->
     CASE o = "--adbcmd=" -> "a" [] o = "--key=" -> "k" [] o = "--ssid=" -> "s" [] OTHER -> "t"]
Plain == [o \in {"-d", "-v", "--help"} |-> CASE o = "-d" -> "d" [] o = "-v" -> "v" [] OTHER -> "h"]

\* Options that usage() has and the code takes for something else: longopts
\* gives the first two an argument, and the third is no short option.
Misdeclared == {"--disconnect", "--verbose", "-h"}

\* What is said below is said of command lines that consist of these: an option
\* with its value, before or after an equals sign; a flag; an argument that is
\* no option; and one that is not known.  It is not said of options that are
\* misdeclared or abbreviated, of short ones that are grouped or have their
\* value attached (-dv, -sNET), of -- and of an option that lacks its value.
ASSUME UnitsAssumption ==
  /\ MaxUnits \in Nat
  /\ Operands \cap Unknown = {}
  /\ \A arg \in Operands \cup Unknown : arg # << >> =>
       arg[1] \notin Valued \cup DOMAIN Attached \cup DOMAIN Plain \cup Misdeclared
  /\ \A u \in Units :
       /\ u \in Seq(Seq(STRING))
       /\ \/ Len(u) = 2 /\ Len(u[1]) = 1 /\ u[1][1] \in Valued
          \/ Len(u) = 1 /\ Len(u[1]) > 0 /\ u[1][1] \in DOMAIN Attached
          \/ Len(u) = 1 /\ Len(u[1]) = 1 /\ u[1][1] \in DOMAIN Plain
          \/ Len(u) = 1 /\ u[1] \in Operands \cup Unknown

VARIABLES
  units,  \* the command line so far
  parsed  \* what parseClArgs has made of it

request == <<units, parsed>>

-----------------------------------------------------------------------------
(* The code *)

\* What parseClArgs has when it starts to read.
Fresh ==
  [flags |-> {}, adb |-> <<"adb">>, ssid |-> << >>, key |-> << >>, type |-> <<"WPA">>,
   waiting |-> "none", extra |-> FALSE, failed |-> FALSE]

\* The loop over the known types.
TypeNamed(v) == IF v \in SaysWEP THEN <<"WEP">> ELSE IF v \in SaysWPA THEN <<"WPA">> ELSE v

\* One turn of the switch, for option l with argument v.
Set(st, l, v) ==
  CASE l = "k" -> [st EXCEPT !.key = v, !.flags = @ \cup {"conn"}]
    [] l = "s" -> [st EXCEPT !.ssid = v, !.flags = @ \cup {"conn"}]
    [] l = "a" -> [st EXCEPT !.adb = v]
    [] l = "t" -> IF TypeNamed(v) \in AuthTypes THEN [st EXCEPT !.type = TypeNamed(v)]
                  ELSE [st EXCEPT !.failed = TRUE]
    [] OTHER   -> [st EXCEPT !.flags = @ \cup {l}]

\* getopt_long and the loop around it, for one argument.
Step(st, arg) ==
  IF st.failed THEN st
  ELSE IF st.waiting # "none" THEN Set([st EXCEPT !.waiting = "none"], st.waiting, arg)
  ELSE IF arg \in Operands THEN [st EXCEPT !.extra = TRUE]
  ELSE IF arg \in Unknown THEN st
  ELSE CASE arg[1] \in DOMAIN Attached -> Set(st, Attached[arg[1]], Tail(arg))
         [] arg[1] \in DOMAIN Plain    -> Set(st, Plain[arg[1]], << >>)
         [] OTHER                      -> [st EXCEPT !.waiting = Requires[arg[1]]]

\* Mutant of Mode: the modes are not exclusive.
ModeEither(st) ==
  IF st.failed \/ st.extra THEN "error"
  ELSE IF "conn" \in st.flags /\ st.ssid # << >> THEN "connect"
  ELSE IF "d" \in st.flags THEN "disconnect"
  ELSE IF "h" \in st.flags THEN "help" ELSE "error"

\* What parseClArgs makes of the flags once it has read everything.
Mode(st) ==
  IF \/ st.failed \/ st.extra
     \/ {"d", "conn"} \subseteq st.flags
     \/ "conn" \in st.flags /\ st.ssid = << >> THEN "error"
  ELSE IF "conn" \in st.flags THEN "connect"
  ELSE IF "d" \in st.flags THEN "disconnect"
  ELSE IF "h" \in st.flags THEN "help" ELSE "error"

\* The run mode, with the configuration if there is one.
Outcome ==
  LET mode == Mode(parsed)
  IN  IF mode \in {"connect", "disconnect"}
      THEN [mode |-> mode, adb |-> parsed.adb, ssid |-> parsed.ssid, key |-> parsed.key,
            type |-> parsed.type, verbose |-> "v" \in parsed.flags]
      ELSE [mode |-> mode, verbose |-> FALSE]

Empty == units = << >> /\ parsed = Fresh

\* One more unit: its argument, or both.
Add(u) ==
  /\ Len(units) < MaxUnits
  /\ units' = Append(units, u)
  /\ parsed' = IF Len(u) = 1 THEN Step(parsed, u[1]) ELSE Step(Step(parsed, u[1]), u[2])

Reads == \E u \in Units : Add(u)

ReadSpec == Empty /\ [][Reads]_request

-----------------------------------------------------------------------------
(* What usage() says, by a reference that knows whose value an argument is. *)
(* It says nothing of unknown options, which are passed over, of options    *)
(* that are repeated, the last of which counts, and of empty values: an     *)
(* empty SSID is none, and a key may be empty.                              *)

Means(o) ==
  CASE o \in {"-a", "--adbcmd", "--adbcmd="} -> "a" [] o \in {"-d", "--disconnect"} -> "d"
    [] o \in {"-k", "--key", "--key="} -> "k"       [] o \in {"-h", "--help"} -> "h"
    [] o \in {"-s", "--ssid", "--ssid="} -> "s"     [] o \in {"-v", "--verbose"} -> "v"
    [] OTHER -> "t"

Letter(u) ==
  IF u[1] \in Operands THEN "word" ELSE IF u[1] \in Unknown THEN "unknown" ELSE Means(u[1][1])

Argument(u) == IF Len(u) = 2 THEN u[2] ELSE Tail(u[1])

Given(us, l) == {n \in DOMAIN us : Letter(us[n]) = l}
Value(us, l, default) == IF Given(us, l) = {} THEN default ELSE Argument(us[Max(Given(us, l))])

Documented(us) ==
  LET Has(l)  == Given(us, l) # {}
      Connect == Has("s") \/ Has("k")
      Bad == \/ Has("word")
             \/ \E n \in Given(us, "t") : Argument(us[n]) \notin SaysWEP \cup SaysWPA
             \/ Connect /\ (Has("d") \/ ~Has("k") \/ Value(us, "s", << >>) = << >>)
             \/ ~Connect /\ ~Has("d") /\ ~Has("h")
      mode == IF Bad THEN "error" ELSE IF Connect THEN "connect"
              ELSE IF Has("d") THEN "disconnect" ELSE "help"
  IN  IF mode \in {"connect", "disconnect"}
      THEN [mode |-> mode, adb |-> Value(us, "a", <<"adb">>), ssid |-> Value(us, "s", << >>),
            key |-> Value(us, "k", << >>), type |-> TypeNamed(Value(us, "t", <<"WPA">>)),
            verbose |-> Has("v")]
      ELSE [mode |-> mode, verbose |-> FALSE]

\* usage() has a key with every SSID; the code asks for none.
EmptyKey == << <<"-k">>, << >> >>
KeyLeftOut(us) == Given(us, "s") # {} /\ Given(us, "k") = {}

\* The program is run as usage() says, for every command line of these units,
\* in every order, with options repeated and values that look like options; but
\* it does not insist on the key, and a command line without one, which usage()
\* does not allow, is run like the one with an empty key.
AsDocumented ==
  Outcome = Documented(IF KeyLeftOut(units) THEN Append(units, EmptyKey) ELSE units)
=============================================================================
