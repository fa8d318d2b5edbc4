-------------------------- MODULE JoinAgent_proofs --------------------------
(***************************************************************************)
(* Theorems about JoinAgent.  The argument is about the life of the        *)
(* listener: it is there exactly from onCreate() to the answer, a          *)
(* broadcast reaches the agent only while the receiver is registered, and  *)
(* the thread that runs at the time of the answer has been waited for.     *)
(***************************************************************************)
EXTENDS JoinAgent, TLAPS

Untouched ==
  act = "new" => /\ ui = "idle" /\ ~registered /\ ~listener /\ pending = {}
                 /\ thread = "none" /\ ~interrupted /\ answers = 0 /\ crashed = "no"

Registered ==
  /\ registered => act \in {"alive", "finishing"}
  /\ pending # {} => registered
  /\ registered /\ ~listener => answers = 1
  /\ ui = "joining" => registered /\ listener

Settled ==
  /\ answers > 0 => answers = 1 /\ ~listener /\ thread \in {"none", "dead"}

IInv == TypeOK /\ Untouched /\ Registered /\ Settled /\ NoCrashBeforeAnswer

LEMMA InitLemma == Init => IInv
<1> SUFFICES ASSUME Init PROVE IInv
  OBVIOUS
<1>1. TypeOK
  <2>1. wifi \in Wifi
    BY DEF Init
  <2>2. disturb \in 0 .. MaxDisturb /\ answers \in Nat
    BY AgentAssumption DEF Init
  <2>3. pending \in SUBSET Broadcasts
    BY DEF Init
  <2>4. registered \in BOOLEAN /\ listener \in BOOLEAN /\ interrupted \in BOOLEAN /\ crashed \in {"no"} \cup Followed
    BY Zenon DEF Init
  <2>5. ~interrupted /\ ui = "idle"
    BY Zenon DEF Init
  <2>6. /\ intent \in {"connect", "disconnect", "refused"} /\ nulls \in SUBSET Answerable
        /\ act \in {"new", "alive", "finishing", "destroyed"}
        /\ thread \in {"none", "start", "check", "join", "sleep", "dead"}
    BY DEF Init
  <2>7. QED
    BY <2>1, <2>2, <2>3, <2>4, <2>5, <2>6 DEF TypeOK
<1>2. Untouched /\ Registered /\ Settled /\ NoCrashBeforeAnswer
  BY DEF Init, Untouched, Registered, Settled, NoCrashBeforeAnswer
<1>3. QED
  BY <1>1, <1>2 DEF IInv

-----------------------------------------------------------------------------

\* What the device does changes the WiFi, and sends broadcasts to a receiver
\* that is registered.
LEMMA DeviceLemma ==
  ASSUME IInv, wifi' \in Wifi, disturb' \in 0 .. MaxDisturb,
         pending' \in {pending} \cup {pending \cup {b} : b \in Broadcasts},
         pending' # pending => registered,
         UNCHANGED <<intent, nulls, act, ui, registered, listener, thread, interrupted, answers, crashed>>
  PROVE  IInv'
<1>1. pending' \in SUBSET Broadcasts
  BY DEF IInv, TypeOK
<1>2. TypeOK'
  BY <1>1 DEF IInv, TypeOK
<1>3. Untouched' /\ Registered'
  BY DEF IInv, Untouched, Registered
<1>4. QED
  BY <1>2, <1>3 DEF IInv, Settled, NoCrashBeforeAnswer

\* The thread moves from one place to another while there is no answer yet.
LEMMA ThreadLemma ==
  ASSUME IInv, thread \notin {"none", "dead"},
         thread' \in {"check", "join", "sleep", "dead"}, wifi' \in Wifi,
         pending' \in {pending} \cup {pending \cup {b} : b \in Broadcasts},
         pending' # pending => registered,
         UNCHANGED <<intent, nulls, act, ui, registered, listener, interrupted, answers, crashed, disturb>>
  PROVE  IInv'
<1>1. pending' \in SUBSET Broadcasts
  BY DEF IInv, TypeOK
<1>2. TypeOK'
  BY <1>1 DEF IInv, TypeOK
<1>3. Untouched' /\ Registered'
  BY DEF IInv, Untouched, Registered
<1>4. Settled'
  BY DEF IInv, Settled
<1>5. QED
  BY <1>2, <1>3, <1>4 DEF IInv, NoCrashBeforeAnswer

\* Answering for a connection: the listener that found it is there for the
\* last time, and no thread is left.
LEMMA AnswerLemma ==
  ASSUME IInv, Answer, listener, registered, thread \in {"none", "dead"},
         ui' = "idle", pending' \in SUBSET pending,
         UNCHANGED <<intent, nulls, registered, thread, interrupted, crashed, wifi, disturb>>
  PROVE  IInv'
<1>1. answers = 0
  BY DEF IInv, TypeOK, Settled
<1>2. answers' = 1 /\ act' = "finishing" /\ listener' = FALSE
  BY <1>1 DEF Answer
<1>3. TypeOK'
  BY <1>2 DEF IInv, TypeOK
<1>4. Untouched' /\ Registered' /\ Settled'
  BY <1>2 DEF IInv, Untouched, Registered, Settled
<1>5. QED
  BY <1>2, <1>3, <1>4 DEF IInv, NoCrashBeforeAnswer

\* Any step of the UI thread that neither answers nor touches the listener or
\* the registration, in an activity that lives.
LEMMA CallbackLemma ==
  ASSUME IInv, UIFree, pending # {}, pending' \in SUBSET pending,
         act' \in {act, "finishing"},
         thread' \in {thread, "start"}, thread' # thread => thread = "none" /\ listener,
         ui' \in {"idle", "joining"}, interrupted' \in BOOLEAN,
         interrupted' \/ ui' = "joining" => thread' # "none",
         ui' = "joining" => listener,
         crashed' \in {"no"} \cup Followed, crashed' = "listener" => ~listener,
         UNCHANGED <<intent, nulls, registered, listener, answers, wifi, disturb>>
  PROVE  IInv'
<1>1. registered /\ act \in {"alive", "finishing"} /\ act' \in {"alive", "finishing"}
  BY DEF IInv, Registered
<1>2. pending' \in SUBSET Broadcasts
  BY DEF IInv, TypeOK
<1>3. TypeOK'
  BY <1>1, <1>2 DEF IInv, TypeOK
<1>4. Untouched' /\ Registered' /\ Settled'
  BY <1>1 DEF IInv, Untouched, Registered, Settled
<1>5. NoCrashBeforeAnswer'
  BY <1>1 DEF IInv, Registered, NoCrashBeforeAnswer
<1>6. QED
  BY <1>3, <1>4, <1>5 DEF IInv

-----------------------------------------------------------------------------

\* onCreate() and onDestroy() restore the invariant.
LEMMA LifeLemma ==
  ASSUME IInv, Refuse \/ Disconnect \/ Connect \/ OnDestroy
  PROVE  IInv'
<1>1. CASE Refuse
  BY <1>1 DEF Refuse, UIFree, IInv, TypeOK, Untouched, Registered, Settled, NoCrashBeforeAnswer
<1>2. CASE Disconnect
  <2>1. wifi' \in Wifi
    BY <1>2 DEF Disconnect, OffNet, IInv, TypeOK, Wifi
  <2>2. QED
    BY <1>2, <2>1
    DEF Disconnect, UIFree, IInv, TypeOK, Untouched, Registered, Settled, NoCrashBeforeAnswer
<1>3. CASE Connect
  <2>1. wifi' \in Wifi
    BY <1>3 DEF Connect, IInv, TypeOK, Wifi
  <2>2. /\ act' \in {"alive", "finishing"} /\ thread' \in {"none", "start"}
        /\ registered' /\ listener' /\ pending' = Broadcasts
        /\ crashed' \in {"no", "list"}
        /\ UNCHANGED <<intent, nulls, ui, interrupted, answers, disturb>>
    BY <1>3 DEF Connect, WifiEnabled, IInv, Untouched
  <2>3. ui = "idle" /\ ~interrupted /\ answers = 0 /\ crashed = "no"
    BY <1>3 DEF Connect, IInv, Untouched
  <2>4. registered' = TRUE /\ listener' = TRUE
    BY <1>3 DEF Connect
  <2>5. QED
    BY <2>1, <2>2, <2>3, <2>4
    DEF IInv, TypeOK, Untouched, Registered, Settled, NoCrashBeforeAnswer, Followed, Answerable
<1>4. CASE OnDestroy
  BY <1>4 DEF OnDestroy, UIFree, IInv, TypeOK, Untouched, Registered, Settled, NoCrashBeforeAnswer
<1>5. QED
  BY <1>1, <1>2, <1>3, <1>4

\* Every step restores the invariant: one case per action.
LEMMA StepLemma ==
  ASSUME IInv, [Next]_vars
  PROVE  IInv'
<1>1. CASE Refuse \/ Disconnect \/ Connect \/ OnDestroy
  BY <1>1, LifeLemma
<1>2. CASE ReceiveWifi
  <2>1. /\ UIFree /\ pending # {} /\ pending' \in SUBSET pending
        /\ UNCHANGED <<intent, nulls, ui, registered, listener, interrupted, answers, wifi, disturb>>
    BY <1>2 DEF ReceiveWifi
  <2>2. /\ act' \in {act, "finishing"} /\ thread' \in {thread, "start"}
        /\ (thread' # thread => thread = "none" /\ listener)
        /\ crashed' \in {"no"} \cup Followed /\ (crashed' = "listener" => ~listener)
    <3>1. crashed = "no"
      BY <1>2 DEF ReceiveWifi, UIFree, IInv, TypeOK
    <3>2. CASE ~wifi.on /\ UNCHANGED <<thread, act, crashed>>
      BY <3>1, <3>2
    <3>3. CASE wifi.on /\ listener /\ WifiEnabled(act)
      BY <3>1, <3>3 DEF WifiEnabled, Followed, Answerable
    <3>4. CASE wifi.on /\ ~listener /\ crashed' = "listener" /\ UNCHANGED <<thread, act>>
      BY <3>4 DEF Followed
    <3>5. QED
      BY <1>2, <3>2, <3>3, <3>4 DEF ReceiveWifi
  <2>3. ui = "idle" /\ interrupted \in BOOLEAN /\ (interrupted => thread # "none")
    BY <2>1 DEF UIFree, IInv, TypeOK
  <2>4. interrupted' \/ ui' = "joining" => thread' # "none"
    BY <2>1, <2>2, <2>3
  <2>5. QED
    BY <2>1, <2>2, <2>3, <2>4, CallbackLemma
<1>3. CASE ReceiveConnectivity
  <2>1. /\ UIFree /\ pending # {} /\ pending' \in SUBSET pending
        /\ UNCHANGED <<intent, nulls, registered, thread, wifi, disturb>>
    BY <1>3 DEF ReceiveConnectivity
  <2>2. ui = "idle" /\ registered /\ crashed = "no"
    BY <2>1 DEF UIFree, IInv, TypeOK, Registered
  <2>3. CASE listener /\ thread = "none" /\ Answer /\ UNCHANGED <<interrupted, ui, crashed>>
    BY <2>1, <2>2, <2>3, AnswerLemma
  <2>4. CASE /\ listener /\ thread # "none" /\ interrupted' = TRUE /\ ui' = "joining"
             /\ UNCHANGED <<answers, act, listener, crashed>>
    BY <2>1, <2>2, <2>4, CallbackLemma
  <2>5. CASE UNCHANGED <<interrupted, ui, answers, act, listener, crashed>>
    <3>1. interrupted \in BOOLEAN /\ (interrupted => thread # "none")
      BY DEF IInv, TypeOK
    <3>2. QED
      BY <2>1, <2>2, <2>5, <3>1, CallbackLemma
  <2>6. CASE "network" \in nulls /\ crashed' = "network" /\ UNCHANGED <<interrupted, ui, answers, act, listener>>
    <3>1. interrupted \in BOOLEAN /\ (interrupted => thread # "none")
      BY DEF IInv, TypeOK
    <3>2. QED
      BY <2>1, <2>2, <2>6, <3>1, CallbackLemma DEF Followed, Answerable
  <2>7. QED
    BY <1>3, <2>3, <2>4, <2>5, <2>6 DEF ReceiveConnectivity, SSIDFound
<1>4. CASE JoinReturns
  <2>1. listener /\ registered
    BY <1>4 DEF JoinReturns, IInv, Registered
  <2>2. QED
    BY <1>4, <2>1, AnswerLemma DEF JoinReturns
<1>5. CASE ThreadDisconnects
  <2>1. wifi' \in Wifi
    BY <1>5 DEF ThreadDisconnects, OffNet, IInv, TypeOK, Wifi
  <2>2. QED
    BY <1>5, <2>1, ThreadLemma DEF ThreadDisconnects, Send, Broadcasts
<1>6. CASE ThreadChecks \/ ThreadWakes
  <2>1. wifi \in Wifi
    BY DEF IInv, TypeOK
  <2>2. QED
    BY <1>6, <2>1, ThreadLemma DEF ThreadChecks, ThreadWakes
<1>7. CASE ThreadJoins
  <2>1. wifi' \in Wifi
    BY <1>7 DEF ThreadJoins, OffNet, IInv, TypeOK, Wifi
  <2>2. QED
    BY <1>7, <2>1, ThreadLemma DEF ThreadJoins
<1>8. CASE WifiTurnsOn \/ Associates \/ ComesUp \/ \E b \in Broadcasts : Disturbed(b)
  <2>1. wifi \in Wifi /\ disturb \in 0 .. MaxDisturb /\ MaxDisturb \in Nat
    BY AgentAssumption DEF IInv, TypeOK
  <2>2. CASE WifiTurnsOn
    BY <2>1, <2>2, DeviceLemma DEF WifiTurnsOn, Send, Wifi, Broadcasts
  <2>3. CASE Associates
    <3>1. wifi' \in Wifi
      BY <2>1, <2>3 DEF Associates, Wifi
    <3>2. QED
      BY <2>1, <2>3, <3>1, DeviceLemma DEF Associates, Send, Broadcasts
  <2>4. CASE ComesUp
    BY <2>1, <2>4, DeviceLemma DEF ComesUp, Send, Wifi, Broadcasts
  <2>5. CASE \E b \in Broadcasts : Disturbed(b)
    <3>1. PICK b \in Broadcasts : Disturbed(b)
      BY <2>5
    <3>2. wifi' \in Wifi
      BY <2>1, <3>1 DEF Disturbed, OffNet, Wifi
    <3>3. disturb' \in 0 .. MaxDisturb
      BY <2>1, <3>1 DEF Disturbed
    <3>4. QED
      BY <3>1, <3>2, <3>3, DeviceLemma DEF Disturbed, Send
  <2>6. QED
    BY <1>8, <2>2, <2>3, <2>4, <2>5
<1>9. CASE UNCHANGED vars
  BY <1>9 DEF vars, agent, IInv, TypeOK, Untouched, Registered, Settled, NoCrashBeforeAnswer
<1>10. QED
  BY <1>1, <1>2, <1>3, <1>4, <1>5, <1>6, <1>7, <1>8, <1>9 DEF Next, UI, Thread, Device

-----------------------------------------------------------------------------

\* IInv holds always, for every amount of interference.
THEOREM Inductive == Spec => []IInv
<1>1. Init => IInv
  BY InitLemma
<1>2. IInv /\ [Next]_vars => IInv'
  BY StepLemma
<1>3. QED
  BY <1>1, <1>2, PTL DEF Spec

\* The agent keeps its type, whatever broadcasts come.
THEOREM TypeCorrect == Spec => []TypeOK
<1>1. IInv => TypeOK
  BY DEF IInv, TypeOK
<1>2. QED
  BY <1>1, Inductive, PTL

\* The agent answers at most once, whatever broadcasts come and whatever the
\* user does.
THEOREM AnswersAtMostOnce == Spec => []AnswersOnce
<1>1. IInv => AnswersOnce
  BY DEF IInv, TypeOK, Settled, AnswersOnce
<1>2. QED
  BY <1>1, Inductive, PTL

\* The joining thread touches the WiFi no more after the answer.
THEOREM ThreadEndsFirst == Spec => []NoJoiningAfterAnswer
<1>1. IInv => NoJoiningAfterAnswer
  BY DEF IInv, Settled, NoJoiningAfterAnswer
<1>2. QED
  BY <1>1, Inductive, PTL

\* A null listener is followed by no broadcast before the answer was written.
THEOREM NoEarlyCrash == Spec => []NoCrashBeforeAnswer
<1>1. IInv => NoCrashBeforeAnswer
  BY DEF IInv
<1>2. QED
  BY <1>1, Inductive, PTL

\* A destroyed activity gives no answer.
THEOREM SilentAfterDestroy == Spec => NoAnswerAfterDestroy
<1>1. ASSUME IInv, [Next]_vars PROVE [answers' # answers => act # "destroyed"]_vars
  <2>1. CASE Disconnect
    BY <2>1 DEF Disconnect
  <2>2. CASE ReceiveConnectivity
    BY <1>1, <2>2 DEF ReceiveConnectivity, IInv, Registered
  <2>3. CASE JoinReturns
    BY <1>1, <2>3 DEF JoinReturns, IInv, Registered
  <2>4. CASE Refuse \/ Connect \/ ReceiveWifi \/ OnDestroy
    BY <2>4 DEF Refuse, Connect, ReceiveWifi, OnDestroy
  <2>5. CASE Thread
    BY <2>5 DEF Thread, ThreadDisconnects, ThreadChecks, ThreadJoins, ThreadWakes
  <2>6. CASE Device
    BY <2>6 DEF Device, WifiTurnsOn, Associates, ComesUp, Disturbed
  <2>7. QED
    BY <1>1, <2>1, <2>2, <2>3, <2>4, <2>5, <2>6 DEF Next, UI
<1>2. QED
  BY <1>1, Inductive, PTL DEF Spec, NoAnswerAfterDestroy
=============================================================================
