---------------------------- MODULE IntentExtras ----------------------------
(***************************************************************************)
(* From the command line to the agent: createIntentParams writes the       *)
(* configuration into the arguments of adb, adb shell joins them to one    *)
(* line, the shell of the device splits it into words and does with each   *)
(* what shells do, am makes extras of them, and onCreate reads the extras. *)
(* Nothing on the way quotes for that shell.                               *)
(***************************************************************************)
EXTENDS CommandLine

LOCAL Seqs == INSTANCE SequencesExt

CONSTANTS
  Expansion,  \* every word that the shell does not leave alone (with $ * ? ~ \
              \* quotes & ; | < > ( ) or # in front), with the words it makes of it
  Cuts        \* those of them that it ends the command in

\* The words that createIntentParams writes itself.
OwnWords == {"-n", "MainActivity", "-e", "mode", "connect", "disconnect", "uniq", "tag",
             "ssid", "password", "password_type", "WEP", "WPA"}

\* A word with an unpaired quote mark or with a backslash at its end, which takes
\* the words after it into one with it, is among them, but what becomes of the
\* others then is not modelled.
ASSUME ShellAssumption ==
  /\ \A w \in DOMAIN Expansion : Expansion[w] \in Seq(STRING)
  /\ Cuts \subseteq DOMAIN Expansion
  /\ DOMAIN Expansion \cap OwnWords = {}

\* Mutant of Intent: the key is given without its type.
IntentUntyped(cfg) ==
  <<"-n", "MainActivity", "-e", "mode", "connect", "-e", "uniq", "tag", "-e", "ssid">> \o cfg.ssid
  \o <<"-e", "password">> \o cfg.key

\* The words of am's command line that createIntentParams leads to.
Intent(cfg) ==
  <<"-n", "MainActivity", "-e", "mode", cfg.mode, "-e", "uniq", "tag">> \o
  (IF cfg.mode = "disconnect" THEN << >>
   ELSE <<"-e", "ssid">> \o cfg.ssid \o <<"-e", "password">> \o cfg.key
        \o <<"-e", "password_type">> \o cfg.type)

\* am: -n takes a word and -e two, whatever they look like; the first other
\* word ends the options.
AmTakes(st, word) ==
  CASE st.state = "name"  -> [st EXCEPT !.state = "option"]
    [] st.state = "key"   -> [st EXCEPT !.state = "value", !.key = word]
    [] st.state = "value" ->
         [st EXCEPT !.state = "option",
                    !.extras = [k \in DOMAIN @ \cup {st.key} |-> IF k = st.key THEN word ELSE @[k]]]
    [] st.state = "option" /\ word = "-n" -> [st EXCEPT !.state = "name"]
    [] st.state = "option" /\ word = "-e" -> [st EXCEPT !.state = "key"]
    [] OTHER -> [st EXCEPT !.state = "end"]

\* The command ends in the first word of Cuts.
Command(words) ==
  LET cuts == {n \in DOMAIN words : words[n] \in Cuts}
  IN  IF cuts = {} THEN words ELSE SubSeq(words, 1, Min(cuts))

\* am gets a word, or what the shell makes of it.
AmGets(st, word) ==
  IF word \in DOMAIN Expansion THEN Seqs!FoldLeft(AmTakes, st, Expansion[word])
  ELSE AmTakes(st, word)

\* am after each of the words.
AmStarts == [state |-> "option", key |-> "none", extras |-> << >>]
AmReads(words) ==
  LET am[i \in 0 .. Len(words)] == IF i = 0 THEN AmStarts ELSE AmGets(am[i - 1], words[i])
  IN  am

\* am at the end of the command.
AmEnds(words) == LET command == Command(words) IN AmReads(command)[Len(command)]

\* getStringExtra: the value as a set, which is empty for null.
Extra(x, k) == {x[j] : j \in DOMAIN x \cap {k}}

\* What onCreate makes of the extras.
Agent(x) ==
  LET mode == IF Extra(x, "mode") = {} THEN {"connect"} ELSE Extra(x, "mode")
      type == Extra(x, "password_type")
      key  == Extra(x, "password")
  IN  IF mode = {"disconnect"} THEN [mode |-> mode, uniq |-> Extra(x, "uniq")]
      ELSE IF \/ mode # {"connect"} \/ Extra(x, "ssid") = {}
              \/ (type = {}) # (key = {})
              \/ ~(type \subseteq {"WPA", "WEP"}) THEN [mode |-> {"refused"}]
      ELSE [mode |-> mode, uniq |-> Extra(x, "uniq"), ssid |-> Extra(x, "ssid"),
            key |-> key, type |-> type]

-----------------------------------------------------------------------------

Runs(cfg) == cfg.mode \in {"connect", "disconnect"}

\* What the agent is told; nothing if am lacks a value in the end.
Told(cfg) ==
  LET am == AmEnds(Intent(cfg))
  IN  IF am.state \in {"name", "key", "value"} THEN [mode |-> {}] ELSE Agent(am.extras)

\* What the agent should make of a configuration.
Asked(cfg) ==
  IF cfg.mode = "disconnect" THEN [mode |-> {cfg.mode}, uniq |-> {"tag"}]
  ELSE [mode |-> {cfg.mode}, uniq |-> {"tag"}, ssid |-> {cfg.ssid[1]}, key |-> {cfg.key[1]},
        type |-> {cfg.type[1]}]

\* One word, which the shell of the device leaves as it is.
IsOneWord(v) == Len(v) = 1 /\ v[1] \notin DOMAIN Expansion

\* The SSID and the key of every command line that is accepted reach the agent
\* unchanged, and it does not refuse, if each is one word that means nothing to
\* a shell, whatever it may mean to am or to this program.  (Of an SSID of two
\* words it gets the first, and no key; of an empty key, a type without a key;
\* of "a$b", what the device's shell makes of it.)
WordsDelivered ==
  LET cfg == Outcome
  IN  Runs(cfg) /\ (cfg.mode = "connect" => IsOneWord(cfg.ssid) /\ IsOneWord(cfg.key))
        => Told(cfg) = Asked(cfg)
=============================================================================
