----------------------------- MODULE FilePoller -----------------------------
(***************************************************************************)
(* FilePoller with any number of FileHandlers: ids that wrap around, the   *)
(* round of pollHandlers from its list to its timers, and owners that add, *)
(* remove, drop, enable and time handlers from within callbacks, or from   *)
(* another thread if the poller is made with a lock.                       *)
(*                                                                         *)
(* Each handler has one timer, as the tasks use them (TaskTimerId).  The   *)
(* clock is finer than the milliseconds poll() waits for: Grain ticks are  *)
(* one.  It stands still during a pass over the handlers, which takes one  *)
(* time for all of them.  Whether a handler asks for POLLOUT is left open. *)
(***************************************************************************)
EXTENDS Integers, FiniteSets, FiniteSetsExt, Functions

CONSTANTS
  Handlers,       \* the FileHandler objects
  NIds,           \* HandlerId is a number modulo NIds
  MaxAdds,        \* bound: registrations in a behaviour
  MaxDelay,       \* the longest timer, in ticks
  Grain,          \* the ticks of a millisecond
  Revents,        \* the sets of events poll() may report for a descriptor
  SingleThreaded  \* m_singleThreaded

ASSUME PollerAssumption ==
  /\ IsFiniteSet(Handlers) /\ NIds \in Nat /\ Cardinality(Handlers) < NIds
  /\ MaxAdds \in Nat /\ MaxDelay \in Nat /\ Grain \in Nat \ {0}
  /\ Revents \subseteq (SUBSET {"IN", "ERR", "OUT"}) \ {{}}
  /\ SingleThreaded \in BOOLEAN

Ids  == 1 .. NIds - 1
Bad  == 0               \* BadHandlerId
Off  == MaxDelay + 1    \* no timer: later than any
None == "none"
Events == <<"IN", "ERR", "OUT">>  \* in the order they are served

VARIABLES
  list,    \* m_hndList: ids to handlers, which may be gone (weak_ptr)
  seq,     \* m_seq
  adds,    \* registrations so far
  own,     \* handlers whose owner holds them
  hs,      \* of each handler: its id, fState and what is left of its timer
  pc,      \* owner, poll, collect, wait, dispatch, callback, timers, ontimer or done
  polled,  \* the ids this round polls, with their handlers
  wait,    \* the timeout, while poll() runs what is left of it
  first,   \* firstTimer
  more,    \* moreTimers
  round,   \* ids whose events are still to be served
  curr,    \* the handler whose callback runs
  todo,    \* events of curr, the one that is being served first
  cursor   \* the last id a pass over the list has come to

vars == <<list, seq, adds, own, hs, pc, polled, wait, first, more, round, curr, todo, cursor>>

Init ==
  /\ list = << >> /\ seq = Bad /\ adds = 0 /\ own = {}
  /\ hs = [h \in Handlers |-> [id |-> Bad, enabled |-> FALSE, timer |-> Off]]
  /\ pc = "owner"
  /\ polled = << >> /\ wait = Off /\ first = Bad /\ more = FALSE /\ round = << >>
  /\ curr = None /\ todo = {} /\ cursor = 0

-----------------------------------------------------------------------------
(* What owners do *)

poller == <<pc, polled, wait, first, more, round, curr, todo, cursor>>

InCallback == pc \in {"callback", "ontimer"}

\* A single-threaded poller is used from callbacks and before exec(), one with
\* a lock from another thread while neither a callback nor the pass over the
\* list holds the lock.
MayAct == IF SingleThreaded THEN pc = "owner" \/ InCallback ELSE ~InCallback /\ pc # "collect"

\* The values of m_seq after k increments, and whether a handler may have it.
Id(k) == (seq + k) % NIds
Free(i) == i \in Ids \ DOMAIN list

\* Mutants of NextId: the lowest free id; the next one, free or not.
LowestId(i) == Free(i) /\ \A j \in 1 .. i - 1 : ~Free(j)
NextIdUnchecked(i) == i = IF seq = NIds - 1 THEN 1 ELSE seq + 1

\* getNextSeq: the next id that is free; where it started if there is none.
NextId(i) ==
  \E k \in 1 .. NIds : /\ i = Id(k) /\ (Free(i) \/ k = NIds)
                      /\ \A j \in 1 .. k - 1 : ~Free(Id(j))

\* addHandler: emplace leaves an id that is taken alone.
AddHandler(h) ==
  /\ hs[h].id = Bad \/ h \notin own
  /\ h \notin own => h \notin Range(list) \cup Range(polled) \cup {curr}
  /\ adds < MaxAdds /\ adds' = adds + 1
  /\ \E i \in 0 .. NIds - 1 : NextId(i) /\ seq' = i
  /\ list' = [i \in DOMAIN list \cup ({seq'} \ {Bad}) |-> IF i \in DOMAIN list THEN list[i] ELSE h]
  /\ own' = own \cup {h}
  /\ hs' = [hs EXCEPT ![h] = IF h \in own THEN [@ EXCEPT !.id = seq']
                             ELSE [id |-> seq', enabled |-> FALSE, timer |-> Off]]

RemoveHandler(h) ==
  /\ hs[h].id # Bad
  /\ list' = Restrict(list, DOMAIN list \ {hs[h].id})
  /\ hs' = [hs EXCEPT ![h].id = Bad]
  /\ UNCHANGED <<seq, adds, own>>

\* The owner's pointer is reset; the list has a weak one only.
Drop(h) == own' = own \ {h} /\ UNCHANGED <<list, seq, adds, hs>>

SetState(h) ==
  /\ hs' = [hs EXCEPT ![h].enabled = ~@]
  /\ UNCHANGED <<list, seq, adds, own>>

StartTimer(h) ==
  /\ \E d \in 1 .. MaxDelay : hs' = [hs EXCEPT ![h].timer = d]
  /\ UNCHANGED <<list, seq, adds, own>>

StopTimer(h) ==
  /\ hs' = [hs EXCEPT ![h].timer = Off]
  /\ UNCHANGED <<list, seq, adds, own>>

OwnerActs ==
  /\ MayAct
  /\ \/ \E h \in Handlers : AddHandler(h)
     \/ \E h \in own : RemoveHandler(h) \/ Drop(h) \/ SetState(h) \/ StartTimer(h) \/ StopTimer(h)
  /\ UNCHANGED poller

-----------------------------------------------------------------------------
(* A round of pollHandlers *)

\* exec()
Exec ==
  /\ pc = "owner"
  /\ pc' = "poll"
  /\ UNCHANGED <<list, seq, adds, own, hs, polled, wait, first, more, round, curr, todo, cursor>>

\* lock() of the weak pointer, and isEnabled().
Alive == {i \in DOMAIN list : list[i] \in own}
Enabled == {i \in Alive : hs[list[i]].enabled}
Timer(i) == hs[list[i]].timer

\* pollHandlers starts with no handler to poll, no timer, and the longest
\* timeout.
StartRound ==
  /\ pc = "poll"
  /\ pc' = "collect" /\ cursor' = 0
  /\ polled' = << >> /\ wait' = Off /\ first' = Bad /\ more' = FALSE
  /\ UNCHANGED <<list, seq, adds, own, hs, round, curr, todo>>

\* duration_cast to milliseconds.
WholeMs(t) == t - (t % Grain)

\* Mutants of UseTimer: one timer is enough; a timer that is due is nothing
\* special.
UseOneTimer(t) == t # Off /\ wait = Off
UseShorter(t) == t # Off /\ wait # 0 /\ WholeMs(t) < wait

\* use_timer: the timer is due, or its whole milliseconds are fewer than the
\* timeout so far.
UseTimer(t) == t # Off /\ (t = 0 \/ (wait # 0 /\ WholeMs(t) < wait))

\* The ids the pass has not come to.
Ahead == {i \in DOMAIN list : i > cursor}

\* A handler that is gone loses its place in the list.
EraseGone(i) ==
  /\ i \notin Alive
  /\ list' = Restrict(list, DOMAIN list \ {i})
  /\ UNCHANGED <<polled, wait, first, more>>

SkipDisabled(i) ==
  /\ i \in Alive \ Enabled
  /\ UNCHANGED <<list, polled, wait, first, more>>

\* An enabled handler is polled; its timer may shorten the timeout.
CollectEnabled(i) ==
  /\ i \in Enabled
  /\ polled' = [j \in DOMAIN polled \cup {i} |-> IF j = i THEN list[i] ELSE polled[j]]
  /\ IF UseTimer(Timer(i))
     THEN wait' = WholeMs(Timer(i)) /\ first' = i /\ more' = (first # Bad)
     ELSE UNCHANGED <<wait, first, more>>
  /\ UNCHANGED list

\* The pass over the list, under the lock.
Collect ==
  /\ pc = "collect" /\ Ahead # {}
  /\ cursor' = Min(Ahead)
  /\ EraseGone(cursor') \/ SkipDisabled(cursor') \/ CollectEnabled(cursor')
  /\ UNCHANGED <<seq, adds, own, hs, pc, round, curr, todo>>

\* poll() is called, unless there is nothing to poll.
Poll ==
  /\ pc = "collect" /\ Ahead = {}
  /\ pc' = (IF polled = << >> THEN "done" ELSE "wait")
  /\ cursor' = 0
  /\ UNCHANGED <<list, seq, adds, own, hs, polled, wait, first, more, round, curr, todo>>

\* poll() returns with events, or because the time is up.
PollReturns ==
  /\ pc = "wait"
  /\ \E r \in SUBSET DOMAIN polled :
       /\ r # {} \/ wait = 0
       /\ round' \in [r -> Revents]
  /\ pc' = "dispatch" /\ wait' = Off
  /\ UNCHANGED <<list, seq, adds, own, hs, polled, first, more, curr, todo, cursor>>

\* poll() fails.
PollFails ==
  /\ pc = "wait"
  /\ pc' = "done" /\ wait' = Off
  /\ UNCHANGED <<list, seq, adds, own, hs, polled, first, more, round, curr, todo, cursor>>

\* The events of the lowest id are served, if its handler is still there.
Dispatch ==
  /\ pc = "dispatch" /\ round # << >>
  /\ LET i == Min(DOMAIN round)
     IN  /\ round' = Restrict(round, DOMAIN round \ {i})
         /\ IF i \in Enabled
            THEN pc' = "callback" /\ curr' = list[i] /\ todo' = round[i]
            ELSE UNCHANGED <<pc, curr, todo>>
  /\ UNCHANGED <<list, seq, adds, own, hs, polled, wait, first, more, cursor>>

First(events) == Events[Min({n \in DOMAIN Events : Events[n] \in events})]

\* A callback returns; the next event of the handler follows if the callback
\* has left it enabled.  A local pointer keeps the handler alive until then.
CallbackEnds ==
  /\ pc = "callback"
  /\ LET rest == todo \ {First(todo)}
     IN  IF rest # {} /\ hs[curr].enabled
         THEN todo' = rest /\ UNCHANGED <<pc, curr>>
         ELSE todo' = {} /\ curr' = None /\ pc' = "dispatch"
  /\ UNCHANGED <<list, seq, adds, own, hs, polled, wait, first, more, round, cursor>>

\* All events are served: the timers, if poll() was bounded by one.
EventsServed ==
  /\ pc = "dispatch" /\ round = << >>
  /\ pc' = (IF first = Bad THEN "poll" ELSE "timers")
  /\ polled' = << >>
  /\ UNCHANGED <<list, seq, adds, own, hs, wait, first, more, round, curr, todo, cursor>>

\* firstTimer only, or with moreTimers all that are enabled when it is their turn.
ToCheck == {i \in Enabled : i > cursor /\ (more \/ i = first)}

\* checkTimer of the next handler.
CheckTimer ==
  /\ pc = "timers"
  /\ IF ToCheck = {}
     THEN pc' = "poll" /\ cursor' = 0 /\ first' = Bad /\ more' = FALSE /\ UNCHANGED <<hs, curr>>
     ELSE LET i == Min(ToCheck)
          IN  /\ cursor' = i /\ UNCHANGED <<first, more>>
              /\ IF Timer(i) = 0
                 THEN pc' = "ontimer" /\ curr' = list[i] /\ hs' = [hs EXCEPT ![list[i]].timer = Off]
                 ELSE UNCHANGED <<pc, hs, curr>>
  /\ UNCHANGED <<list, seq, adds, own, polled, wait, round, todo>>

OnTimerEnds ==
  /\ pc = "ontimer"
  /\ pc' = "timers" /\ curr' = None
  /\ UNCHANGED <<list, seq, adds, own, hs, polled, wait, first, more, round, todo, cursor>>

\* What is left of a timer: never less than nothing, and no timer stays none.
Less(t) == IF t \in {0, Off} THEN t ELSE t - 1

\* Time passes in poll() and in callbacks, which start and end in "dispatch".
Tick ==
  /\ (pc = "wait" /\ wait # 0) \/ pc = "dispatch"
  /\ hs' = [h \in Handlers |-> [hs[h] EXCEPT !.timer = Less(@)]]
  /\ wait' = Less(wait)
  /\ UNCHANGED <<list, seq, adds, own, pc, polled, first, more, round, curr, todo, cursor>>

Thread == Exec \/ StartRound \/ Collect \/ Poll \/ PollReturns \/ PollFails \/ Dispatch \/ CallbackEnds
          \/ EventsServed \/ CheckTimer \/ OnTimerEnds

Returned == pc = "done" /\ UNCHANGED vars

Next == OwnerActs \/ Thread \/ Tick \/ Returned

Spec == Init /\ [][Next]_vars

\* The poller's thread runs, callbacks return, and time passes.
FairSpec == Spec /\ WF_vars(Thread) /\ WF_vars(Tick)

-----------------------------------------------------------------------------
(* Correctness *)

\* Every variable has its type.
TypeOK ==
  /\ list \in UNION {[S -> Handlers] : S \in SUBSET Ids}
  /\ seq \in 0 .. NIds - 1 /\ adds \in 0 .. MaxAdds /\ own \subseteq Handlers
  /\ hs \in [Handlers -> [id : {Bad} \cup Ids, enabled : BOOLEAN, timer : 0 .. Off]]
  /\ pc \in {"owner", "poll", "collect", "wait", "dispatch", "callback", "timers", "ontimer", "done"}
  /\ polled \in UNION {[S -> Handlers] : S \in SUBSET Ids}
  /\ wait \in 0 .. Off /\ first \in {Bad} \cup Ids /\ more \in BOOLEAN /\ DOMAIN round \subseteq Ids
  /\ curr \in Handlers \cup {None} /\ todo \subseteq Range(Events) /\ cursor \in {0} \cup Ids

\* The id an owner was given is its handler's alone, through any number of
\* registrations: removing it removes this handler, and no other has it.
Registered == \A h \in own : hs[h].id # Bad => hs[h].id \in DOMAIN list /\ list[hs[h].id] = h

\* The events that poll() reported for one handler's descriptor are served by
\* no other, whatever callbacks, or another thread, do to the list meanwhile.
\* (As long as the ids have not wrapped around.)
OwnEvents ==
  [][pc = "dispatch" /\ pc' = "callback" => curr' = polled[Min(DOMAIN round)]]_vars

\* The timeout ends before every timer of a handler that is polled, and if there
\* is one, firstTimer ends within a millisecond after it.
TimeoutFits ==
  /\ \A i \in DOMAIN polled : wait <= hs[polled[i]].timer
  /\ wait # Off => /\ first \in DOMAIN polled /\ hs[polled[first]].timer # Off
                   /\ hs[polled[first]].timer < wait + Grain

\* In whatever order the timers of the handlers shortened the timeout and were
\* cut to whole milliseconds, poll() never sleeps past one of them, and it does
\* not wake a millisecond or more before the one that is looked at then.
NoOversleep == pc = "wait" => TimeoutFits

\* A timer that is due is called back, however many events and other timers
\* there are, unless its owner stops, disables, removes or drops it.
Due(h) == /\ pc # "done" /\ h \in own /\ hs[h].id # Bad /\ hs[h].enabled /\ hs[h].timer = 0
TimersServed == \A h \in Handlers : Due(h) ~> ~Due(h)
=============================================================================
