------------------------------ MODULE MCRequest ------------------------------
(***************************************************************************)
(* Instance of CommandLine, IntentExtras and UniqTag for TLC.  What is     *)
(* asked for does not depend on the time, nor the tag on what is asked     *)
(* for: command lines are built at one time, and the clock runs for the    *)
(* empty one.                                                              *)
(***************************************************************************)
EXTENDS IntentExtras, UniqTag, FiniteSetsExt

Flag(o) == << <<o>> >>
With(o, v) == << <<o>>, v >>
Joined(o, v) == << <<o>> \o v >>

MCOperands == {<<"word">>, << >>}
MCUnknown == {<<"-x">>, <<"--nothing">>}

\* Every option that the code takes as usage() does, with values that look
\* like options of this program or of am, empty ones, one of two words, ones
\* that the device's shell does not leave alone, and types in and out of the
\* list; an argument that is no option, and one that is not known.
MCUnits ==
  {Flag("-d"), Flag("-v"), Flag("--help"), << <<"word">> >>, << <<"--nothing">> >>,
   With("-s", << >>), With("-s", <<"-d">>), With("-s", <<"-e">>), With("--ssid", <<"my", "net">>),
   Joined("--ssid=", <<"a&b">>), With("-k", <<"key">>), With("-k", <<"-n">>), Joined("--key=", << >>),
   With("--key", <<"a$b">>), Joined("--adbcmd=", <<"adb2">>), With("-t", <<"wep">>),
   Joined("--type=", <<"wPa">>), With("--type", <<"none">>)}

\* "a$b" is "a" if there is no b; "*" stands for the files of a directory; the
\* shell takes an ampersand for the end of the command.
MCExpansion == [w \in {"a$b", "$b", "*", "a&b"} |->
  CASE w \in {"a$b", "a&b"} -> <<"a">> [] w = "$b" -> << >> [] OTHER -> <<"bin", "etc", "proc">>]
MCCuts == {"a&b"}

\* Times around the changes of the number of digits of a byte and around a
\* carry into the next byte, below digits that repeat and digits that do not.
TimeOf(b) == b[1] + 256 * (b[2] + 256 * (b[3] + 256 * b[4]))
MCTimes == {TimeOf(b) : b \in {0, 1, 11, 25, 99, 211, 251, 255} \X {0, 1, 99, 249, 254} \X {1, 255} \X {111, 117}}
MCEra == <<1, 1, 1, 1>>

Init == Empty /\ Started

Next ==
  \/ earlier = Min(Times) /\ now = earlier /\ Reads /\ UNCHANGED clock
  \/ Empty /\ Tick /\ UNCHANGED request

Spec == Init /\ [][Next]_<<request, clock>>
=============================================================================
