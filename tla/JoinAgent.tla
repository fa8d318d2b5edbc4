----------------------------- MODULE JoinAgent -----------------------------
(***************************************************************************)
(* The agent on the device for one run: MainActivity, its broadcast        *)
(* receiver CheckSSIDBroadcastReceiver, and the thread that joins the      *)
(* network, against the device's WiFi.                                     *)
(*                                                                         *)
(* Callbacks of the activity and of the receiver run one at a time on the  *)
(* UI thread, so each is a step; SSIDFound is two, because it waits for    *)
(* the joining thread in between.  The joining thread is interleaved with  *)
(* them call by call.  A broadcast carries no content here: the receiver   *)
(* asks for the state of the WiFi when it is delivered, whatever the state *)
(* was when it was sent.                                                   *)
(***************************************************************************)
EXTENDS Naturals

CONSTANTS
  MaxDisturb  \* bound: how often the user or the radio interferes

ASSUME AgentAssumption == MaxDisturb \in Nat

VARIABLES
  intent,      \* what the extras ask for; "refused" stands for all bad ones
  nulls,       \* what the system may hand out as null in this run
  act,         \* the activity: new, alive, finishing (finish()), destroyed
  ui,          \* the UI thread: idle, or "joining" in SSIDFound
  registered,  \* broadcastReceiver is registered (and not null)
  listener,    \* the receiver's mSSIDFoundListener is not null
  pending,     \* broadcasts on their way to the receiver
  thread,      \* mThread: none, or the place in its run()
  interrupted, \* its interrupt flag
  answers,     \* how often the answer was written
  crashed,     \* no, or what was null when it was followed: one of Followed
  wifi,        \* the device's WiFi
  disturb      \* how often it was interfered with

agent == <<intent, nulls, act, ui, registered, listener, pending, thread, interrupted, answers, crashed>>
vars  == <<agent, wifi, disturb>>

Broadcasts == {"wifi", "conn"}

\* What is followed without a look, and may be null: the receiver's listener,
\* the NetworkInfo of a network that has gone since the list of networks was
\* made, and the list of configured networks, of which there is none if WiFi
\* goes off between the look at it and the call.
Answerable == {"network", "list"}
Followed == Answerable \cup {"listener"}

(***************************************************************************)
(* wifi.on    isWifiEnabled()                                              *)
(* wifi.asked setWifiEnabled(true) is being carried out                    *)
(* wifi.net   the network that the device is on or about to be on          *)
(* wifi.up    ... and it is connected, not just connecting                 *)
(* wifi.held  disconnect() was the last command: the device stays off      *)
(*            every network until it is told otherwise                     *)
(* wifi.sole  enableNetwork(.., true) has disabled all other networks      *)
(***************************************************************************)
Wifi == [on : BOOLEAN, asked : BOOLEAN, net : {"none", "target", "other"}, up : BOOLEAN,
         held : BOOLEAN, sole : BOOLEAN]

OffNet(w) == [w EXCEPT !.net = "none", !.up = FALSE]

Init ==
  /\ intent \in {"connect", "disconnect", "refused"} /\ nulls \in SUBSET Answerable
  /\ act = "new" /\ ui = "idle"
  /\ registered = FALSE /\ listener = FALSE /\ pending = {}
  /\ thread = "none" /\ interrupted = FALSE
  /\ answers = 0 /\ crashed = "no"
  /\ wifi \in {w \in Wifi : /\ ~w.asked /\ ~w.held /\ ~w.sole
                            /\ (w.net # "none" => w.on) /\ (w.up => w.net # "none")}
  /\ disturb = 0

\* The receiver hears of it, if it is registered.
Send(b) == pending' = IF registered THEN pending \cup {b} ELSE pending

-----------------------------------------------------------------------------
(* The UI thread *)

UIFree == ui = "idle" /\ crashed = "no"

\* WifiEnabled(), called in state a of the activity: start joining, unless that
\* has been done, the list of networks is null, or this one cannot be added or
\* updated.
WifiEnabled(a) ==
  \/ thread # "none" /\ act' = a /\ UNCHANGED <<thread, crashed>>
  \/ thread = "none" /\ thread' = "start" /\ act' = a /\ UNCHANGED crashed
  \/ thread = "none" /\ act' = "finishing" /\ UNCHANGED <<thread, crashed>>
  \/ thread = "none" /\ "list" \in nulls /\ crashed' = "list" /\ act' = a /\ UNCHANGED thread

\* onCreate() of an intent without a usable mode, SSID or password.
Refuse ==
  /\ UIFree /\ act = "new" /\ intent = "refused"
  /\ act' = "finishing"
  /\ UNCHANGED <<intent, nulls, ui, registered, listener, pending, thread, interrupted, answers, crashed,
                 wifi, disturb>>

\* onCreate() in disconnect mode answers whatever the calls return.
Disconnect ==
  /\ UIFree /\ act = "new" /\ intent = "disconnect"
  /\ wifi' = IF wifi.on THEN [OffNet(wifi) EXCEPT !.on = FALSE, !.held = TRUE] ELSE wifi
  /\ answers' = answers + 1
  /\ act' = "finishing"
  /\ UNCHANGED <<intent, nulls, ui, registered, listener, pending, thread, interrupted, crashed, disturb>>

\* onCreate() in connect mode.  Both broadcasts are sticky: they are sent to
\* the receiver as soon as it is registered.
Connect ==
  /\ UIFree /\ act = "new" /\ intent = "connect"
  /\ registered' = TRUE /\ listener' = TRUE /\ pending' = Broadcasts
  /\ \/ wifi.on /\ WifiEnabled("alive") /\ UNCHANGED wifi
     \/ ~wifi.on /\ wifi' = [wifi EXCEPT !.asked = TRUE]
        /\ act' = "alive" /\ UNCHANGED <<thread, crashed>>
  /\ UNCHANGED <<intent, nulls, ui, interrupted, answers, disturb>>

\* onReceive() of WIFI_STATE_CHANGED follows the listener without a look.
ReceiveWifi ==
  /\ UIFree /\ "wifi" \in pending
  /\ pending' = pending \ {"wifi"}
  /\ \/ ~wifi.on /\ UNCHANGED <<thread, act, crashed>>
     \/ wifi.on /\ listener /\ WifiEnabled(act)
     \/ wifi.on /\ ~listener /\ crashed' = "listener" /\ UNCHANGED <<thread, act>>
  /\ UNCHANGED <<intent, nulls, ui, registered, listener, interrupted, answers, wifi, disturb>>

\* What SSIDFound does last, and onReceive after it.
Answer ==
  /\ answers' = answers + 1
  /\ act' = "finishing"
  /\ listener' = FALSE

\* Mutant of SSIDFound: mThread is followed without a look.
SSIDFoundUnchecked ==
  interrupted' = TRUE /\ ui' = "joining" /\ UNCHANGED <<answers, act, listener>>

\* SSIDFound() up to mThread.join().
SSIDFound ==
  \/ thread = "none" /\ Answer /\ UNCHANGED <<interrupted, ui>>
  \/ thread # "none" /\ interrupted' = TRUE /\ ui' = "joining"
     /\ UNCHANGED <<answers, act, listener>>

\* The device is on the network, or connecting to it.
OnTarget == wifi.net = "target"

\* Mutant of ReceiveConnectivity: the listener is dropped at the first chance.
ReceiveConnectivityOnce ==
  /\ UIFree /\ "conn" \in pending
  /\ pending' = pending \ {"conn"}
  /\ \/ OnTarget /\ listener /\ SSIDFound
     \/ ~(OnTarget /\ listener) /\ listener' = FALSE /\ UNCHANGED <<interrupted, ui, answers, act>>
  /\ UNCHANGED <<intent, nulls, registered, thread, crashed, wifi, disturb>>

\* onReceive() of CONNECTIVITY_ACTION.  getNetworkInfo() of a network that has
\* gone since getAllNetworks() is null, and is followed.
ReceiveConnectivity ==
  /\ UIFree /\ "conn" \in pending
  /\ pending' = pending \ {"conn"}
  /\ \/ OnTarget /\ listener /\ SSIDFound /\ UNCHANGED crashed
     \/ ~(OnTarget /\ listener) /\ UNCHANGED <<interrupted, ui, answers, act, listener, crashed>>
     \/ "network" \in nulls /\ crashed' = "network"
        /\ UNCHANGED <<interrupted, ui, answers, act, listener>>
  /\ UNCHANGED <<intent, nulls, registered, thread, wifi, disturb>>

\* Mutants of JoinReturns: join() does not wait for the end of the thread;
\* the listener is kept.
JoinReturnsEarly ==
  /\ ui = "joining" /\ crashed = "no"
  /\ Answer /\ ui' = "idle"
  /\ UNCHANGED <<intent, nulls, registered, pending, thread, interrupted, crashed, wifi, disturb>>

JoinReturnsListening ==
  /\ ui = "joining" /\ crashed = "no" /\ thread = "dead"
  /\ answers' = answers + 1 /\ act' = "finishing" /\ ui' = "idle"
  /\ UNCHANGED <<intent, nulls, registered, listener, pending, thread, interrupted, crashed, wifi, disturb>>

\* SSIDFound() after mThread.join().
JoinReturns ==
  /\ ui = "joining" /\ crashed = "no" /\ thread = "dead"
  /\ Answer /\ ui' = "idle"
  /\ UNCHANGED <<intent, nulls, registered, pending, thread, interrupted, crashed, wifi, disturb>>

\* Mutant of OnDestroy: the receiver stays registered.
OnDestroyRegistered ==
  /\ UIFree /\ act \in {"alive", "finishing"}
  /\ act' = "destroyed"
  /\ UNCHANGED <<intent, nulls, ui, registered, listener, pending, thread, interrupted, answers, crashed,
                 wifi, disturb>>

\* onDestroy(), after finish() or whenever the system or the user likes.
OnDestroy ==
  /\ UIFree /\ act \in {"alive", "finishing"}
  /\ act' = "destroyed"
  /\ registered' = FALSE /\ pending' = {}
  /\ UNCHANGED <<intent, nulls, ui, listener, thread, interrupted, answers, crashed, wifi, disturb>>

-----------------------------------------------------------------------------
(* The joining thread *)

\* disconnect(), before the interrupt is looked at for the first time.
ThreadDisconnects ==
  /\ thread = "start" /\ crashed = "no"
  /\ wifi' = [OffNet(wifi) EXCEPT !.held = TRUE]
  /\ thread' = "check"
  /\ Send("conn")
  /\ UNCHANGED <<intent, nulls, act, ui, registered, listener, interrupted, answers, crashed, disturb>>

\* while (!isInterrupted())
ThreadChecks ==
  /\ thread = "check" /\ crashed = "no"
  /\ thread' = IF interrupted THEN "dead" ELSE "join"
  /\ UNCHANGED <<intent, nulls, act, ui, registered, listener, pending, interrupted, answers, crashed,
                 wifi, disturb>>

\* Mutant of ThreadJoins: nothing is done.
ThreadIdles ==
  /\ thread = "join" /\ crashed = "no"
  /\ thread' = "sleep"
  /\ UNCHANGED <<intent, nulls, act, ui, registered, listener, pending, interrupted, answers, crashed,
                 wifi, disturb>>

\* enableNetwork(id, true) and reconnect(); their results are ignored.
ThreadJoins ==
  /\ thread = "join" /\ crashed = "no"
  /\ wifi' = IF ~wifi.on THEN wifi
             ELSE [(IF OnTarget THEN wifi ELSE OffNet(wifi)) EXCEPT !.held = FALSE, !.sole = TRUE]
  /\ thread' = "sleep"
  /\ UNCHANGED <<intent, nulls, act, ui, registered, listener, pending, interrupted, answers, crashed,
                 disturb>>

\* Mutant of ThreadWakes: the exception is caught within the loop.
ThreadWakesAlways ==
  /\ thread = "sleep" /\ crashed = "no"
  /\ thread' = "check" /\ interrupted' = FALSE
  /\ UNCHANGED <<intent, nulls, act, ui, registered, listener, pending, answers, crashed, wifi, disturb>>

\* sleep(10000) ends, or throws InterruptedException.
ThreadWakes ==
  /\ thread = "sleep" /\ crashed = "no"
  /\ thread' = IF interrupted THEN "dead" ELSE "check"
  /\ UNCHANGED <<intent, nulls, act, ui, registered, listener, pending, interrupted, answers, crashed,
                 wifi, disturb>>

-----------------------------------------------------------------------------
(* The device *)

WifiTurnsOn ==
  /\ wifi.asked
  /\ wifi' = [wifi EXCEPT !.on = TRUE, !.asked = FALSE]
  /\ Send("wifi")
  /\ UNCHANGED <<intent, nulls, act, ui, registered, listener, thread, interrupted, answers, crashed, disturb>>

Associates ==
  /\ wifi.on /\ ~wifi.held /\ wifi.net = "none"
  /\ \E n \in {"target"} \cup (IF wifi.sole THEN {} ELSE {"other"}) :
       wifi' = [wifi EXCEPT !.net = n]
  /\ Send("conn")
  /\ UNCHANGED <<intent, nulls, act, ui, registered, listener, thread, interrupted, answers, crashed, disturb>>

ComesUp ==
  /\ wifi.net # "none" /\ ~wifi.up
  /\ wifi' = [wifi EXCEPT !.up = TRUE]
  /\ Send("conn")
  /\ UNCHANGED <<intent, nulls, act, ui, registered, listener, thread, interrupted, answers, crashed, disturb>>

\* The network is lost or refuses the key; the user switches WiFi off or on.
Disturbed(b) ==
  /\ disturb < MaxDisturb /\ disturb' = disturb + 1
  /\ wifi' = IF b = "conn" THEN OffNet(wifi)
             ELSE [OffNet(wifi) EXCEPT !.on = ~wifi.on, !.asked = FALSE, !.held = FALSE]
  /\ Send(b)
  /\ UNCHANGED <<intent, nulls, act, ui, registered, listener, thread, interrupted, answers, crashed>>

-----------------------------------------------------------------------------

UI     == Refuse \/ Disconnect \/ Connect \/ ReceiveWifi \/ ReceiveConnectivity \/ JoinReturns
Thread == ThreadDisconnects \/ ThreadChecks \/ ThreadJoins \/ ThreadWakes
Device == WifiTurnsOn \/ Associates \/ ComesUp \/ \E b \in Broadcasts : Disturbed(b)

Next == UI \/ OnDestroy \/ Thread \/ Device

Spec == Init /\ [][Next]_vars

\* Both threads are scheduled and the target network is in range: the WiFi
\* carries out what it is told and associates when it may.
FairSpec ==
  Spec /\ WF_vars(UI) /\ WF_vars(Thread) /\ WF_vars(WifiTurnsOn) /\ WF_vars(Associates)

-----------------------------------------------------------------------------
(* Correctness *)

\* The state has its type, and only a thread that exists is interrupted or
\* waited for.
TypeOK ==
  /\ intent \in {"connect", "disconnect", "refused"} /\ nulls \in SUBSET Answerable
  /\ act \in {"new", "alive", "finishing", "destroyed"}
  /\ ui \in {"idle", "joining"}
  /\ registered \in BOOLEAN /\ listener \in BOOLEAN /\ pending \in SUBSET Broadcasts
  /\ thread \in {"none", "start", "check", "join", "sleep", "dead"}
  /\ interrupted \in BOOLEAN /\ answers \in Nat /\ crashed \in {"no"} \cup Followed
  /\ wifi \in Wifi /\ disturb \in 0 .. MaxDisturb
  /\ interrupted \/ ui = "joining" => thread # "none"

\* However many broadcasts arrive before the activity is destroyed, the host
\* sees one answer at most.
AnswersOnce == answers <= 1

\* Once the host has the answer, this run's thread no longer touches the WiFi:
\* nor does a late broadcast start it.
NoJoiningAfterAnswer == answers > 0 => thread \in {"none", "dead"}

\* An activity that was destroyed gives no answer for its network any more.
NoAnswerAfterDestroy == [][answers' # answers => act # "destroyed"]_vars

\* The one way to a null listener is to have answered: a broadcast about WiFi
\* cannot end the process before that.
NoCrashBeforeAnswer == crashed = "listener" => answers > 0

\* The UI thread does not wait for the joining thread for ever.
JoinEnds == ui = "joining" ~> ui = "idle"

\* If WiFi stays on in the end and the system hands out no null, a connect run
\* that is let alone is answered, whatever state the device was found in, unless
\* the network cannot be added.  A run in which it hands out one may die with no
\* answer: nothing is promised of it.
Answered ==
  nulls = {} /\ <>[]wifi.on => <>(answers > 0 \/ act \in {"finishing", "destroyed"})

\* "Device Connected to" (SSIDFound): the answer is given on a connection.  The
\* code does otherwise.
AnswerOnConnection ==
  [][intent = "connect" /\ answers' # answers => wifi.net = "target" /\ wifi.up]_vars

\* Having completed its run the agent does not leave the device told to stay
\* off every network.  The code does otherwise.
NotLeftDisconnected == intent = "connect" /\ answers > 0 => ~wifi.held
=============================================================================
