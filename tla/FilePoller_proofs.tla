------------------------- MODULE FilePoller_proofs -------------------------
(***************************************************************************)
(* An id that a handler's owner holds is that handler's alone, for every   *)
(* width of the ids, any number of registrations, and whoever registers;   *)
(* and the loop that sets the timeout of poll() ends with one that fits    *)
(* all timers, whatever timers there are.                                  *)
(***************************************************************************)
EXTENDS FilePoller, FiniteSetTheorems, WellFoundedInduction, TLAPS

\* The types that matter to ids.
IdTypes ==
  /\ DOMAIN list \subseteq Ids /\ list \in [DOMAIN list -> Handlers]
  /\ seq \in 0 .. NIds - 1 /\ own \subseteq Handlers
  /\ hs \in [Handlers -> [id : {Bad} \cup Ids, enabled : BOOLEAN, timer : 0 .. Off]]

\* What the list says of a handler, alive or gone, the handler says as well.
ListIsTrue == \A i \in DOMAIN list : hs[list[i]].id = i

\* The inductive invariant.
IInv == IdTypes /\ ListIsTrue /\ Registered

\* A step that leaves every handler its id.
HsKept ==
  /\ hs' \in [Handlers -> [id : {Bad} \cup Ids, enabled : BOOLEAN, timer : 0 .. Off]]
  /\ \A h \in Handlers : hs'[h].id = hs[h].id

\* There are fewer handlers than ids, so one that is not listed finds an id.
LEMMA FreeIdLemma ==
  ASSUME IInv, NEW h \in Handlers, h \notin {list[i] : i \in DOMAIN list}
  PROVE  \E i \in Ids : Free(i)
<1> SUFFICES ASSUME \A i \in Ids : i \in DOMAIN list PROVE FALSE
  BY DEF Free
<1> DEFINE T == Handlers \ {h}
<1>1. IsFiniteSet(T) /\ Cardinality(T) = Cardinality(Handlers) - 1
  BY PollerAssumption, FS_RemoveElement
<1>2. IsFiniteSet(Ids) /\ Cardinality(Ids) = NIds - 1
  <2>1. Cardinality(Handlers) \in Nat /\ NIds \in Nat /\ Cardinality(Handlers) < NIds
    BY PollerAssumption, FS_CardinalityType
  <2>2. 1 \in Int /\ NIds - 1 \in Int /\ (1 > NIds - 1 => NIds - 1 = 0)
    BY <2>1
  <2>3. /\ IsFiniteSet(1 .. NIds - 1)
        /\ Cardinality(1 .. NIds - 1) = IF 1 > NIds - 1 THEN 0 ELSE NIds - 1 - 1 + 1
    BY <2>2, FS_Interval
  <2> QED
    BY <2>1, <2>2, <2>3 DEF Ids
<1>3. Cardinality(T) < Cardinality(Ids)
  BY <1>1, <1>2, PollerAssumption, FS_CardinalityType
<1>4. list \in [Ids -> T]
  BY DEF IInv, IdTypes
<1>5. PICK i, j \in Ids : i # j /\ list[i] = list[j]
  BY <1>1, <1>2, <1>3, <1>4, FS_PigeonHole
<1> QED
  BY <1>5 DEF IInv, ListIsTrue

\* getNextSeq then finds one that is free.
LEMMA NextIdLemma ==
  ASSUME IInv, NEW h \in Handlers, h \notin {list[i] : i \in DOMAIN list}, NEW i, NextId(i)
  PROVE  Free(i)
<1>1. PICK f \in Ids : Free(f)
  BY FreeIdLemma
<1>2. PICK k \in 1 .. NIds : /\ i = Id(k) /\ (Free(i) \/ k = NIds)
                             /\ \A j \in 1 .. k - 1 : ~Free(Id(j))
  BY DEF NextId
<1>3. NIds \in Nat /\ seq \in 0 .. NIds - 1 /\ f \in 1 .. NIds - 1
  BY PollerAssumption DEF IInv, IdTypes, Ids
<1>4. \E j \in 1 .. NIds : Id(j) = f
  <2>1. CASE f > seq
    <3>1. f - seq \in 1 .. NIds /\ (seq + (f - seq)) % NIds = f
      BY <1>3, <2>1
    <3> QED
      BY <3>1 DEF Id
  <2>2. CASE f <= seq
    <3>1. f - seq + NIds \in 1 .. NIds /\ (seq + (f - seq + NIds)) % NIds = f
      BY <1>3, <2>2
    <3> QED
      BY <3>1 DEF Id
  <2> QED
    BY <1>3, <2>1, <2>2
<1> QED
  BY <1>1, <1>2, <1>3, <1>4

LEMMA AddHandlerLemma ==
  ASSUME IInv, NEW h \in Handlers, AddHandler(h)
  PROVE  IInv'
<1>1. h \notin {list[i] : i \in DOMAIN list}
  <2>1. CASE h \in own
    BY <2>1 DEF AddHandler, IInv, ListIsTrue, IdTypes, Bad, Ids
  <2>2. CASE h \notin own
    BY <2>2 DEF AddHandler, Range
  <2> QED
    BY <2>1, <2>2
<1>2. Free(seq')
  BY <1>1, NextIdLemma DEF AddHandler
<1>3. seq' \in Ids /\ seq' \notin DOMAIN list /\ seq' \in 0 .. NIds - 1 /\ seq' # Bad
  BY <1>2 DEF Free, Ids, Bad, AddHandler
<1>4. /\ DOMAIN list' = DOMAIN list \cup {seq'}
      /\ list' = [i \in DOMAIN list \cup {seq'} |-> IF i \in DOMAIN list THEN list[i] ELSE h]
  BY <1>3 DEF AddHandler
<1>5. /\ hs' \in [Handlers -> [id : {Bad} \cup Ids, enabled : BOOLEAN, timer : 0 .. Off]]
      /\ hs'[h].id = seq' /\ \A g \in Handlers \ {h} : hs'[g] = hs[g]
  <2>1. Off \in 0 .. Off
    BY PollerAssumption DEF Off
  <2> QED
    BY <1>3, <2>1 DEF AddHandler, IInv, IdTypes
<1>6. own' = own \cup {h}
  BY DEF AddHandler
<1>7. IdTypes'
  BY <1>3, <1>4, <1>5, <1>6 DEF IInv, IdTypes
<1>8. ListIsTrue'
  BY <1>1, <1>3, <1>4, <1>5 DEF IInv, IdTypes, ListIsTrue
<1>9. Registered'
  BY <1>3, <1>4, <1>5, <1>6 DEF IInv, IdTypes, Registered
<1> QED
  BY <1>7, <1>8, <1>9 DEF IInv

\* What keeps the ids, and takes from the list only what its owner gave up or
\* has removed, keeps the invariant.
LEMMA KeepsLemma ==
  ASSUME IInv, seq' = seq, own' \subseteq own,
         hs' \in [Handlers -> [id : {Bad} \cup Ids, enabled : BOOLEAN, timer : 0 .. Off]],
         \A h \in Handlers : hs'[h].id = hs[h].id,
         NEW S, S \subseteq DOMAIN list, list' = [i \in S |-> list[i]],
         \A i \in DOMAIN list : list[i] \in own' => i \in S
  PROVE  IInv'
<1>1. IdTypes'
  BY DEF IInv, IdTypes
<1>2. ListIsTrue'
  BY DEF IInv, IdTypes, ListIsTrue
<1>3. Registered'
  BY DEF IInv, IdTypes, Registered
<1> QED
  BY <1>1, <1>2, <1>3 DEF IInv

LEMMA RemoveHandlerLemma ==
  ASSUME IInv, NEW h \in own, RemoveHandler(h)
  PROVE  IInv'
<1> DEFINE S == DOMAIN list \ {hs[h].id}
<1>1. list' = [i \in S |-> list[i]] /\ seq' = seq /\ own' = own
  BY DEF RemoveHandler, Restrict
<1>2. /\ hs' \in [Handlers -> [id : {Bad} \cup Ids, enabled : BOOLEAN, timer : 0 .. Off]]
      /\ h \in Handlers /\ hs'[h].id = Bad
      /\ \A g \in Handlers \ {h} : hs'[g].id = hs[g].id
  BY DEF RemoveHandler, IInv, IdTypes
<1>3. IdTypes'
  BY <1>1, <1>2 DEF IInv, IdTypes
<1>4. ListIsTrue'
  BY <1>1, <1>2 DEF IInv, IdTypes, ListIsTrue
<1>5. Registered'
  BY <1>1, <1>2 DEF IInv, IdTypes, ListIsTrue, Registered
<1> QED
  BY <1>3, <1>4, <1>5 DEF IInv

\* The ids stay true to the list through every operation of an owner and every
\* step of a round.
THEOREM Inductive == Spec => []IInv
<1>1. Init => IInv
  <2> SUFFICES ASSUME Init PROVE IInv
    OBVIOUS
  <2>1. 0 \in 0 .. NIds - 1 /\ Off \in 0 .. Off
    <3>1. NIds \in Nat \ {0}
      BY PollerAssumption, FS_CardinalityType
    <3> QED
      BY <3>1, PollerAssumption DEF Off
  <2>2. DOMAIN list = {} /\ list \in [DOMAIN list -> Handlers]
    BY DEF Init
  <2>3. IdTypes
    BY <2>1, <2>2 DEF Init, IdTypes, Bad
  <2> QED
    BY <2>2, <2>3 DEF Init, IInv, ListIsTrue, Registered
<1>2. IInv /\ [Next]_vars => IInv'
  <2> SUFFICES ASSUME IInv, [Next]_vars PROVE IInv'
    OBVIOUS
  <2>0. list = [i \in DOMAIN list |-> list[i]]
    BY DEF IInv, IdTypes
  <2>1. CASE OwnerActs
    <3>1. ASSUME NEW h \in own, Drop(h) PROVE IInv'
      BY <2>0, <3>1, KeepsLemma DEF Drop, IInv, IdTypes
    <3>2. ASSUME NEW h \in own, SetState(h) \/ StartTimer(h) \/ StopTimer(h) PROVE IInv'
      <4>1. h \in Handlers /\ 1 .. MaxDelay \subseteq 0 .. Off /\ Off \in 0 .. Off
        BY PollerAssumption DEF Off, IInv, IdTypes
      <4>2. UNCHANGED <<list, seq, own>>
        BY <3>2 DEF SetState, StartTimer, StopTimer
      <4>3. ASSUME SetState(h) PROVE HsKept
        BY <4>1, <4>3 DEF SetState, IInv, IdTypes, HsKept
      <4>4. ASSUME StartTimer(h) PROVE HsKept
        <5>1. PICK d \in 1 .. MaxDelay : hs' = [hs EXCEPT ![h].timer = d]
          BY <4>4 DEF StartTimer
        <5> QED
          BY <4>1, <5>1 DEF IInv, IdTypes, HsKept
      <4>5. ASSUME StopTimer(h) PROVE HsKept
        BY <4>1, <4>5 DEF StopTimer, IInv, IdTypes, HsKept
      <4> QED
        BY <2>0, <3>2, <4>2, <4>3, <4>4, <4>5, KeepsLemma DEF HsKept
    <3> QED
      BY <2>1, <3>1, <3>2, AddHandlerLemma, RemoveHandlerLemma DEF OwnerActs
  <2>2. CASE Collect
    <3>1. /\ UNCHANGED <<seq, own, hs>>
          /\ EraseGone(cursor') \/ SkipDisabled(cursor') \/ CollectEnabled(cursor')
      BY <2>2 DEF Collect
    <3>2. CASE EraseGone(cursor')
      <4>1. PICK S : /\ S \subseteq DOMAIN list /\ list' = [i \in S |-> list[i]]
                     /\ \A i \in DOMAIN list : list[i] \in own => i \in S
        BY <3>2 DEF EraseGone, Alive, Restrict
      <4>2. seq' = seq /\ own' \subseteq own /\ \A i \in DOMAIN list : list[i] \in own' => i \in S
        BY <3>1, <4>1
      <4>3. HsKept
        BY <3>1 DEF IInv, IdTypes, HsKept
      <4> QED
        BY <4>1, <4>2, <4>3, KeepsLemma DEF HsKept
    <3>3. CASE SkipDisabled(cursor') \/ CollectEnabled(cursor')
      <4>1. list' = list
        BY <3>3 DEF SkipDisabled, CollectEnabled
      <4> QED
        BY <3>1, <4>1 DEF IInv, IdTypes, ListIsTrue, Registered
    <3> QED
      BY <3>1, <3>2, <3>3
  <2>3. CASE CheckTimer \/ Tick
    <3>1. Off \in 0 .. Off /\ \A t \in 0 .. Off : Less(t) \in 0 .. Off
      BY PollerAssumption DEF Off, Less
    <3>2. UNCHANGED <<list, seq, own>> /\ HsKept
      BY <2>3, <3>1 DEF CheckTimer, Tick, IInv, IdTypes, HsKept
    <3> QED
      BY <2>0, <3>2, KeepsLemma DEF HsKept
  <2>4. CASE \/ Exec \/ StartRound \/ Poll \/ PollReturns \/ PollFails \/ Dispatch \/ CallbackEnds \/ EventsServed
             \/ OnTimerEnds \/ Returned \/ UNCHANGED vars
    <3>1. UNCHANGED <<list, seq, own, hs>>
      BY <2>4 DEF Exec, StartRound, Poll, PollReturns, PollFails, Dispatch, CallbackEnds, EventsServed, OnTimerEnds,
         Returned, vars
    <3> QED
      BY <3>1 DEF IInv, IdTypes, ListIsTrue, Registered
  <2> QED
    BY <2>1, <2>2, <2>3, <2>4 DEF Next, Thread
<1> QED
  BY <1>1, <1>2, PTL DEF Spec

\* Every owner's id is its handler's, whatever was registered and removed
\* before, and in whatever state of a round.
THEOREM IdsAreUnique == Spec => []Registered
<1>1. IInv => Registered
  BY DEF IInv
<1> QED
  BY <1>1, Inductive, PTL

-----------------------------------------------------------------------------
(* The types of a round, and how long poll() sleeps *)

\* Events wait only in a function, whose empty form is << >>.
EventsAreSets == round \in [DOMAIN round -> Revents]

\* The pass over the list has polled only what it has come to, and its timeout
\* fits the timers so far.
PassFits == pc = "collect" => TimeoutFits /\ \A i \in DOMAIN polled : i <= cursor

\* While the thread sleeps, nobody but another thread can start a timer.
SleepsEnough == SingleThreaded => NoOversleep

\* The inductive invariant of a round.
RoundInv == TypeOK /\ EventsAreSets /\ PassFits /\ SleepsEnough

\* Min of a set of numbers is the least of them.
LEMMA MinLemma ==
  ASSUME NEW S, S \subseteq Nat, S # {}
  PROVE  Min(S) \in S /\ \A t \in S : Min(S) <= t
<1>1. \E s \in S : \A t \in S : s <= t
  <2>1. PICK s \in S : \A t \in S : ~(<<t, s>> \in OpToRel(<, Nat))
    BY NatLessThanWellFounded, WFMin, Zenon
  <2>2. \A t \in S : ~(t < s)
    BY <2>1 DEF OpToRel
  <2> QED
    BY <2>2
<1> QED
  BY <1>1 DEF Min

LEMMA EmptyLemma ==
  ASSUME NEW S, NEW f \in [{} -> S]
  PROVE  f = << >>
OBVIOUS

LEMMA NumbersLemma ==
  /\ Off \in Nat /\ MaxDelay < Off /\ Off \in 0 .. Off /\ 0 \in 0 .. Off
  /\ NIds \in Nat \ {0} /\ 0 \in 0 .. NIds - 1
  /\ \A S \in SUBSET Ids : S \subseteq Nat
  /\ \A S \in SUBSET (0 .. Off) : S \subseteq Nat
  /\ \A t \in 0 .. Off : Less(t) \in 0 .. Off
  /\ \A t, u \in 0 .. Off : t <= u => Less(t) <= Less(u)
<1>1. NIds \in Nat \ {0}
  BY PollerAssumption, FS_CardinalityType
<1>2. MaxDelay \in Nat /\ Off = MaxDelay + 1
  BY PollerAssumption DEF Off
<1>3. \A t \in 0 .. Off : Less(t) \in 0 .. Off
  BY <1>2 DEF Less
<1>4. \A t, u \in 0 .. Off : t <= u => Less(t) <= Less(u)
  BY <1>2 DEF Less
<1> QED
  BY <1>1, <1>2, <1>3, <1>4 DEF Ids

\* What is polled, enabled and checked are ids of the list.
LEMMA ListedLemma ==
  ASSUME TypeOK
  PROVE  /\ list \in [DOMAIN list -> Handlers] /\ DOMAIN list \subseteq Ids
         /\ Alive \subseteq DOMAIN list /\ Enabled \subseteq Alive /\ ToCheck \subseteq Enabled
         /\ \A i \in DOMAIN list : Timer(i) \in 0 .. Off
<1>1. list \in [DOMAIN list -> Handlers] /\ DOMAIN list \subseteq Ids
  BY DEF TypeOK
<1>2. \A i \in DOMAIN list : Timer(i) \in 0 .. Off
  BY <1>1 DEF TypeOK, Timer
<1> QED
  BY <1>1, <1>2 DEF Alive, Enabled, ToCheck

\* What owners change is typed in IInv; the rest of a round they leave alone.
LEMMA OwnerLemma ==
  ASSUME RoundInv, IInv', OwnerActs
  PROVE  RoundInv'
<1>1. adds' \in 0 .. MaxAdds
  <2>1. adds' = adds \/ (adds < MaxAdds /\ adds' = adds + 1)
    BY DEF OwnerActs, AddHandler, RemoveHandler, Drop, SetState, StartTimer, StopTimer
  <2> QED
    BY <2>1, PollerAssumption DEF RoundInv, TypeOK
<1>2. list' \in UNION {[S -> Handlers] : S \in SUBSET Ids}
  BY DEF IInv, IdTypes
<1>3. TypeOK'
  BY <1>1, <1>2 DEF OwnerActs, poller, IInv, IdTypes, RoundInv, TypeOK
<1>4. EventsAreSets'
  BY DEF OwnerActs, poller, RoundInv, EventsAreSets
<1>5. SleepsEnough' /\ PassFits'
  BY DEF OwnerActs, MayAct, InCallback, poller, SleepsEnough, NoOversleep, PassFits
<1> QED
  BY <1>3, <1>4, <1>5 DEF RoundInv

\* What duration_cast leaves of a timer: not more, and less than a millisecond
\* is cut.
LEMMA WholeMsLemma ==
  ASSUME NEW t \in Nat
  PROVE  WholeMs(t) \in 0 .. t /\ t < WholeMs(t) + Grain
<1>1. Grain \in Nat \ {0}
  BY PollerAssumption
<1>2. t % Grain \in 0 .. Grain - 1
  BY <1>1
<1>3. t % Grain <= t
  BY <1>1
<1> QED
  BY <1>1, <1>2, <1>3 DEF WholeMs

\* The timer of one more handler: the timeout fits all timers so far.
LEMMA CollectEnabledLemma ==
  ASSUME RoundInv, pc = "collect", Ahead # {}, cursor' = Min(Ahead), CollectEnabled(cursor'),
         UNCHANGED <<seq, adds, own, hs, pc, round, curr, todo>>
  PROVE  /\ polled' \in UNION {[S -> Handlers] : S \in SUBSET Ids}
         /\ wait' \in 0 .. Off /\ first' \in {Bad} \cup Ids /\ more' \in BOOLEAN
         /\ TimeoutFits' /\ \A i \in DOMAIN polled' : i <= cursor'
<1> USE DEF RoundInv
<1> DEFINE i == cursor'
           t == Timer(i)
<1>1. i \in Ahead /\ i \in Enabled /\ i \in DOMAIN list /\ i \in Ids /\ i > cursor
      /\ list[i] \in Handlers /\ t \in 0 .. Off /\ t = hs[list[i]].timer /\ t \in Nat
  <2>1. i \in Ahead
    BY ListedLemma, MinLemma, NumbersLemma DEF Ahead
  <2>2. i \in Enabled
    BY DEF CollectEnabled
  <2> QED
    BY <2>1, <2>2, ListedLemma, NumbersLemma DEF Ahead, Timer
<1>2. /\ DOMAIN polled' = DOMAIN polled \cup {i} /\ polled'[i] = list[i]
      /\ \A j \in DOMAIN polled : j # i => polled'[j] = polled[j]
      /\ polled' = [j \in DOMAIN polled \cup {i} |-> IF j = i THEN list[i] ELSE polled[j]]
  BY DEF CollectEnabled
<1>3. /\ DOMAIN polled \subseteq Ids /\ \A j \in DOMAIN polled : polled[j] \in Handlers
      /\ cursor \in Nat /\ i \in Nat /\ \A j \in DOMAIN polled : j \in Nat /\ j <= cursor
      /\ wait \in 0 .. Off
  BY <1>1, NumbersLemma DEF TypeOK, PassFits, Ids
<1>4. i \notin DOMAIN polled /\ \A j \in DOMAIN polled' : j <= i
  BY <1>1, <1>2, <1>3
<1>5. polled' \in UNION {[S -> Handlers] : S \in SUBSET Ids}
  <2>1. polled' \in [DOMAIN polled \cup {i} -> Handlers] /\ DOMAIN polled \cup {i} \in SUBSET Ids
    BY <1>1, <1>2, <1>3
  <2> QED
    BY <2>1
<1>6. \A j \in DOMAIN polled : hs'[polled'[j]].timer = hs[polled[j]].timer
                                 /\ hs[polled[j]].timer \in 0 .. Off
  BY <1>2, <1>3, <1>4 DEF TypeOK
<1>7. hs'[polled'[i]].timer = t
  BY <1>1, <1>2
<1>8. WholeMs(t) \in 0 .. t /\ t < WholeMs(t) + Grain
  BY <1>1, WholeMsLemma
<1>9. \A j \in DOMAIN polled : wait <= hs[polled[j]].timer
  BY DEF PassFits, TimeoutFits
<1>10. CASE UseTimer(t)
  <2>1. wait' = WholeMs(t) /\ first' = i /\ more' = (first # Bad)
    BY <1>10 DEF CollectEnabled
  <2>2. t # Off /\ wait' <= wait /\ wait' <= t
    BY <1>1, <1>3, <1>8, <1>10, <2>1 DEF UseTimer
  <2>3. wait' \in 0 .. Off
    BY <1>1, <1>8, <2>1, NumbersLemma
  <2>4. \A j \in DOMAIN polled' : wait' <= hs'[polled'[j]].timer
    BY <1>2, <1>3, <1>6, <1>7, <1>9, <2>2, <2>3, NumbersLemma
  <2>5. first' \in DOMAIN polled' /\ hs'[polled'[first']].timer # Off
        /\ hs'[polled'[first']].timer < wait' + Grain
    BY <1>2, <1>7, <1>8, <2>1, <2>2
  <2> QED
    BY <1>1, <1>4, <1>5, <2>1, <2>3, <2>4, <2>5 DEF TimeoutFits
<1>11. CASE ~UseTimer(t)
  <2>1. UNCHANGED <<wait, first, more>>
    BY <1>11 DEF CollectEnabled
  <2>2. wait <= t
    BY <1>1, <1>3, <1>8, <1>11, NumbersLemma DEF UseTimer
  <2>3. \A j \in DOMAIN polled' : wait' <= hs'[polled'[j]].timer
    BY <1>2, <1>6, <1>7, <1>9, <2>1, <2>2
  <2>4. wait' # Off => /\ first' \in DOMAIN polled' /\ hs'[polled'[first']].timer # Off
                       /\ hs'[polled'[first']].timer < wait' + Grain
    BY <1>2, <1>4, <1>6, <2>1 DEF PassFits, TimeoutFits
  <2> QED
    BY <1>4, <1>5, <2>1, <2>3, <2>4 DEF TypeOK, TimeoutFits
<1> QED
  BY <1>10, <1>11

\* The pass over the list: who is gone or disabled leaves the timeout alone.
LEMMA CollectLemma ==
  ASSUME RoundInv, IInv', Collect
  PROVE  RoundInv'
<1> USE DEF RoundInv
<1>1. list' \in UNION {[S -> Handlers] : S \in SUBSET Ids}
  BY DEF IInv, IdTypes
<1>2. /\ pc = "collect" /\ pc' = "collect" /\ Ahead # {} /\ cursor' = Min(Ahead)
      /\ UNCHANGED <<seq, adds, own, hs, pc, round, curr, todo>>
      /\ EraseGone(cursor') \/ SkipDisabled(cursor') \/ CollectEnabled(cursor')
  BY DEF Collect
<1>3. cursor' \in Ids /\ cursor' > cursor /\ cursor \in Nat /\ cursor' \in Nat
  <2>1. cursor' \in Ahead
    BY <1>2, ListedLemma, MinLemma, NumbersLemma DEF Ahead
  <2> QED
    BY <2>1, ListedLemma, NumbersLemma DEF Ahead, TypeOK, Ids
<1>4. /\ polled' \in UNION {[S -> Handlers] : S \in SUBSET Ids}
      /\ wait' \in 0 .. Off /\ first' \in {Bad} \cup Ids /\ more' \in BOOLEAN
      /\ TimeoutFits' /\ \A i \in DOMAIN polled' : i <= cursor'
  <2>1. CASE EraseGone(cursor') \/ SkipDisabled(cursor')
    <3>1. UNCHANGED <<polled, wait, first, more>>
      BY <2>1 DEF EraseGone, SkipDisabled
    <3>2. TimeoutFits'
      BY <1>2, <3>1 DEF PassFits, TimeoutFits
    <3>3. \A i \in DOMAIN polled : i \in Nat /\ i <= cursor
      BY <1>2, NumbersLemma DEF TypeOK, PassFits
    <3> QED
      BY <1>3, <3>1, <3>2, <3>3 DEF TypeOK
  <2> QED
    BY <1>2, <2>1, CollectEnabledLemma
<1>5. TypeOK'
  BY <1>1, <1>2, <1>3, <1>4 DEF TypeOK
<1>6. EventsAreSets' /\ PassFits' /\ SleepsEnough'
  BY <1>2, <1>4 DEF EventsAreSets, PassFits, SleepsEnough, NoOversleep
<1> QED
  BY <1>5, <1>6

\* A round starts with nothing to poll and no timeout, and sleeps as long as the
\* pass over the list has found.
LEMMA PollLemma ==
  ASSUME RoundInv, StartRound \/ Poll
  PROVE  RoundInv'
<1> USE DEF RoundInv
<1>1. CASE StartRound
  <2>1. << >> \in [{} -> Handlers] /\ {} \in SUBSET Ids
    OBVIOUS
  <2>2. polled' \in UNION {[S -> Handlers] : S \in SUBSET Ids} /\ DOMAIN polled' = {}
    BY <1>1, <2>1 DEF StartRound
  <2>3. TypeOK'
    BY <1>1, <2>2, NumbersLemma DEF StartRound, TypeOK
  <2> QED
    BY <1>1, <2>2, <2>3 DEF StartRound, EventsAreSets, PassFits, TimeoutFits, SleepsEnough, NoOversleep
<1>2. CASE Poll
  <2>1. /\ pc = "collect" /\ pc' \in {"done", "wait"} /\ cursor' = 0
        /\ UNCHANGED <<list, seq, adds, own, hs, polled, wait, first, more, round, curr, todo>>
    BY <1>2 DEF Poll
  <2>2. TypeOK'
    BY <2>1 DEF TypeOK
  <2>3. TimeoutFits'
    BY <2>1 DEF PassFits, TimeoutFits
  <2> QED
    BY <2>1, <2>2, <2>3 DEF EventsAreSets, PassFits, SleepsEnough, NoOversleep
<1> QED
  BY <1>1, <1>2

\* Time passes for the timers as for the timeout.
LEMMA TickLemma ==
  ASSUME RoundInv, Tick
  PROVE  RoundInv'
<1> USE DEF RoundInv
<1>1. TypeOK'
  <2>1. hs' \in [Handlers -> [id : {Bad} \cup Ids, enabled : BOOLEAN, timer : 0 .. Off]]
    BY NumbersLemma DEF Tick, TypeOK
  <2>2. wait' \in 0 .. Off
    BY NumbersLemma DEF Tick, TypeOK
  <2> QED
    BY <2>1, <2>2 DEF Tick, TypeOK
<1>2. EventsAreSets'
  BY DEF Tick, EventsAreSets
<1>3. PassFits'
  BY DEF Tick, PassFits
<1>4. SleepsEnough'
  <2> SUFFICES ASSUME SingleThreaded, pc = "wait" PROVE TimeoutFits'
    BY DEF Tick, SleepsEnough, NoOversleep
  <2>1. TimeoutFits /\ wait # 0 /\ wait' = Less(wait) /\ UNCHANGED <<polled, first>>
    BY DEF Tick, SleepsEnough, NoOversleep
  <2>2. /\ wait \in 0 .. Off /\ Off \in Nat /\ Grain \in Nat
        /\ \A i \in DOMAIN polled : /\ hs[polled[i]].timer \in 0 .. Off
                                    /\ hs'[polled[i]].timer = Less(hs[polled[i]].timer)
    BY NumbersLemma, PollerAssumption DEF Tick, TypeOK
  <2>3. \A i \in DOMAIN polled : wait' <= hs'[polled'[i]].timer
    BY <2>1, <2>2, NumbersLemma DEF TimeoutFits
  <2>4. ASSUME wait' # Off
        PROVE  /\ first \in DOMAIN polled /\ hs'[polled[first]].timer # Off
               /\ hs'[polled[first]].timer < wait' + Grain
    <3>1. wait # Off /\ wait' = wait - 1
      BY <2>1, <2>2, <2>4 DEF Less
    <3>2. /\ first \in DOMAIN polled /\ hs[polled[first]].timer # Off
          /\ hs[polled[first]].timer < wait + Grain /\ wait <= hs[polled[first]].timer
      BY <2>1, <3>1 DEF TimeoutFits
    <3>3. hs'[polled[first]].timer = hs[polled[first]].timer - 1
      BY <2>1, <2>2, <3>2 DEF Less
    <3> QED
      BY <2>2, <3>1, <3>2, <3>3
  <2> QED
    BY <2>1, <2>3, <2>4 DEF TimeoutFits
<1> QED
  BY <1>1, <1>2, <1>3, <1>4

\* Events are served from the lowest id on.
LEMMA DispatchLemma ==
  ASSUME RoundInv, Dispatch
  PROVE  RoundInv'
<1> USE DEF RoundInv
<1> DEFINE i == Min(DOMAIN round)
<1>1. DOMAIN round # {}
  BY EmptyLemma DEF Dispatch, EventsAreSets
<1>2. i \in DOMAIN round
  BY <1>1, MinLemma, NumbersLemma DEF TypeOK
<1>3. round[i] \in SUBSET {"IN", "ERR", "OUT"}
  BY <1>2, PollerAssumption DEF EventsAreSets
<1>4. Range(Events) = {"IN", "ERR", "OUT"}
  BY DEF Range, Events
<1>5. round' = [j \in DOMAIN round \ {i} |-> round[j]] /\ pc' \in {"dispatch", "callback"}
  BY DEF Dispatch, Restrict
<1>6. /\ curr' \in Handlers \cup {None} /\ todo' \subseteq Range(Events)
      /\ UNCHANGED <<list, seq, adds, own, hs, polled, wait, first, more, cursor>>
  BY <1>3, <1>4, ListedLemma DEF Dispatch, TypeOK
<1>7. TypeOK'
  BY <1>5, <1>6 DEF TypeOK
<1>8. EventsAreSets'
  BY <1>5 DEF EventsAreSets
<1>9. SleepsEnough' /\ PassFits'
  BY <1>5 DEF SleepsEnough, NoOversleep, PassFits
<1> QED
  BY <1>7, <1>8, <1>9

\* The pass over the timers goes on to the next id.
LEMMA CheckTimerLemma ==
  ASSUME RoundInv, IInv', CheckTimer
  PROVE  RoundInv'
<1> USE DEF RoundInv
<1>1. ToCheck # {} => Min(ToCheck) \in ToCheck
  BY ListedLemma, MinLemma, NumbersLemma
<1>2. cursor' \in {0} \cup Ids /\ first' \in {Bad} \cup Ids /\ more' \in BOOLEAN
  BY <1>1, ListedLemma DEF CheckTimer, TypeOK
<1>3. curr' \in Handlers \cup {None}
  BY <1>1, ListedLemma DEF CheckTimer, TypeOK
<1>4. pc' \in {"poll", "timers", "ontimer"}
  BY DEF CheckTimer
<1>5. hs' \in [Handlers -> [id : {Bad} \cup Ids, enabled : BOOLEAN, timer : 0 .. Off]]
  BY DEF IInv, IdTypes
<1>6. TypeOK'
  BY <1>2, <1>3, <1>4, <1>5 DEF CheckTimer, TypeOK
<1>7. EventsAreSets' /\ SleepsEnough' /\ PassFits'
  BY <1>4 DEF CheckTimer, EventsAreSets, SleepsEnough, NoOversleep, PassFits
<1> QED
  BY <1>6, <1>7

\* The other steps of the thread.
LEMMA ThreadLemma ==
  ASSUME RoundInv, \/ Exec \/ PollReturns \/ PollFails \/ CallbackEnds \/ EventsServed
                   \/ OnTimerEnds \/ Returned \/ UNCHANGED vars
  PROVE  RoundInv'
<1> USE DEF RoundInv
<1>1. CASE Exec \/ EventsServed \/ CallbackEnds \/ OnTimerEnds
  <2>1. pc' \in {"poll", "timers", "dispatch", "callback"} /\ round' = round
    BY <1>1 DEF Exec, EventsServed, CallbackEnds, OnTimerEnds
  <2>2. /\ todo' \subseteq Range(Events) /\ curr' \in Handlers \cup {None}
        /\ UNCHANGED <<list, seq, adds, own, hs, wait, first, more, cursor>>
    BY <1>1 DEF Exec, EventsServed, CallbackEnds, OnTimerEnds, TypeOK
  <2>3. polled' \in UNION {[S -> Handlers] : S \in SUBSET Ids}
    <3>1. polled' = polled \/ polled' = << >>
      BY <1>1 DEF Exec, EventsServed, CallbackEnds, OnTimerEnds
    <3>2. << >> \in [{} -> Handlers]
      OBVIOUS
    <3> QED
      BY <3>1, <3>2 DEF TypeOK
  <2>4. TypeOK'
    BY <2>1, <2>2, <2>3 DEF TypeOK
  <2> QED
    BY <2>1, <2>4 DEF EventsAreSets, SleepsEnough, NoOversleep, PassFits, TimeoutFits
<1>2. CASE PollReturns \/ PollFails
  <2>1. pc' \in {"dispatch", "done"} /\ wait' = Off
        /\ UNCHANGED <<list, seq, adds, own, hs, polled, first, more, curr, todo, cursor>>
    BY <1>2 DEF PollReturns, PollFails
  <2>2. DOMAIN round' \subseteq Ids /\ round' \in [DOMAIN round' -> Revents]
    <3>1. CASE PollFails
      BY <3>1 DEF PollFails, TypeOK, EventsAreSets
    <3>2. CASE PollReturns
      <4>1. PICK r \in SUBSET DOMAIN polled : round' \in [r -> Revents]
        BY <3>2 DEF PollReturns
      <4> QED
        BY <4>1 DEF TypeOK
    <3> QED
      BY <1>2, <3>1, <3>2
  <2>3. TypeOK'
    BY <2>1, <2>2, NumbersLemma DEF TypeOK
  <2> QED
    BY <2>1, <2>2, <2>3 DEF EventsAreSets, SleepsEnough, NoOversleep, PassFits, TimeoutFits
<1>3. CASE Returned \/ UNCHANGED vars
  BY <1>3 DEF Returned, vars, TypeOK, EventsAreSets, SleepsEnough, NoOversleep, PassFits, TimeoutFits
<1> QED
  BY <1>1, <1>2, <1>3

\* A round keeps its types, and a single-threaded one its promise to sleep no
\* longer than a timer of a handler that it polls.
THEOREM RoundsAreSound == Spec => []RoundInv
<1>1. Init => RoundInv
  <2> SUFFICES ASSUME Init PROVE RoundInv
    OBVIOUS
  <2>1. list \in [{} -> Handlers] /\ polled \in [{} -> Handlers] /\ round \in [{} -> Revents]
    BY DEF Init
  <2>2. hs \in [Handlers -> [id : {Bad} \cup Ids, enabled : BOOLEAN, timer : 0 .. Off]]
    BY NumbersLemma DEF Init
  <2>3. {} \in SUBSET Ids
    OBVIOUS
  <2>4. /\ list \in UNION {[S -> Handlers] : S \in SUBSET Ids}
        /\ polled \in UNION {[S -> Handlers] : S \in SUBSET Ids}
    BY <2>1, <2>3
  <2>5. DOMAIN round \subseteq Ids /\ adds \in 0 .. MaxAdds
    BY <2>1, PollerAssumption DEF Init
  <2>6. TypeOK
    BY <2>2, <2>4, <2>5, NumbersLemma DEF Init, TypeOK, Bad
  <2> QED
    BY <2>1, <2>6 DEF Init, RoundInv, EventsAreSets, SleepsEnough, NoOversleep, PassFits
<1>2. RoundInv /\ IInv' /\ [Next]_vars => RoundInv'
  BY OwnerLemma, CollectLemma, PollLemma, TickLemma, DispatchLemma, CheckTimerLemma, ThreadLemma
     DEF Next, Thread
<1> QED
  BY <1>1, <1>2, Inductive, PTL DEF Spec

\* Every reachable state of the poller and of its handlers has its type.
THEOREM TypeCorrect == Spec => []TypeOK
<1>1. RoundInv => TypeOK
  BY DEF RoundInv
<1> QED
  BY <1>1, RoundsAreSound, PTL

\* The loop over the handlers ends with a timeout that fits all of their timers,
\* however many there are, in whatever order and of whatever length, so that
\* poll() sleeps past none, unless another thread may start one meanwhile.
THEOREM SleepsNoLonger == Spec => [](SingleThreaded => NoOversleep)
<1>1. RoundInv => (SingleThreaded => NoOversleep)
  BY DEF RoundInv, SleepsEnough
<1> QED
  BY <1>1, RoundsAreSound, PTL

-----------------------------------------------------------------------------
(* Whose events are served *)

\* Until m_seq comes round, ids are given out in order, so that an id which is
\* polled and in the list is so for the same handler.
InOrder ==
  /\ seq = adds
  /\ \A i \in DOMAIN list : i <= seq
  /\ \A i \in DOMAIN polled : i <= seq /\ (i \in DOMAIN list => list[i] = polled[i])

\* Events are those of descriptors that were polled in this round.
EventsArePolled == pc \in {"dispatch", "callback"} => DOMAIN round \subseteq DOMAIN polled

OwnInv == (adds < NIds => InOrder) /\ EventsArePolled

\* getNextSeq gives out the number after m_seq while that has never been used.
LEMMA NextInOrder ==
  ASSUME TypeOK, InOrder, adds + 1 < NIds, NEW i, NextId(i)
  PROVE  i = seq + 1
<1>1. /\ seq \in Nat /\ NIds \in Nat /\ seq + 1 < NIds /\ DOMAIN list \subseteq Ids
      /\ \A j \in DOMAIN list : j <= seq
  BY PollerAssumption, ListedLemma DEF InOrder, TypeOK
<1>2. Id(1) = seq + 1
  <2>1. (seq + 1) % NIds = seq + 1
    BY <1>1
  <2> QED
    BY <2>1 DEF Id
<1>3. Free(Id(1))
  <2>1. seq + 1 \in Ids /\ seq + 1 \notin DOMAIN list
    BY <1>1 DEF Ids
  <2> QED
    BY <1>2, <2>1 DEF Free
<1>4. PICK k \in 1 .. NIds : i = Id(k) /\ \A j \in 1 .. k - 1 : ~Free(Id(j))
  BY DEF NextId
<1>5. k = 1
  <2> SUFFICES ASSUME k # 1 PROVE FALSE
    OBVIOUS
  <2>1. 1 \in 1 .. k - 1
    BY <1>1
  <2> QED
    BY <1>3, <1>4, <2>1
<1> QED
  BY <1>2, <1>4, <1>5

\* A new handler gets an id that no handler of this round has had.
LEMMA OwnerInOrder ==
  ASSUME TypeOK, OwnInv, OwnerActs
  PROVE  OwnInv'
<1>1. UNCHANGED poller
  BY DEF OwnerActs
<1>2. EventsArePolled'
  BY <1>1 DEF poller, OwnInv, EventsArePolled
<1>3. ASSUME NEW h \in Handlers, AddHandler(h), adds' < NIds PROVE InOrder'
  <2>1. /\ adds' = adds + 1 /\ NextId(seq')
        /\ list' = [i \in DOMAIN list \cup ({seq'} \ {Bad}) |-> IF i \in DOMAIN list THEN list[i] ELSE h]
    BY <1>3 DEF AddHandler
  <2>2. adds \in Nat /\ NIds \in Nat /\ seq \in Nat
    BY PollerAssumption DEF TypeOK
  <2>3. InOrder
    BY <1>3, <2>1, <2>2 DEF OwnInv
  <2>4. seq' = seq + 1
    BY <1>3, <2>1, <2>3, NextInOrder
  <2>5. DOMAIN list \subseteq Nat /\ DOMAIN polled \subseteq Nat
    BY ListedLemma, NumbersLemma DEF TypeOK
  <2>6. /\ \A i \in DOMAIN list' : i \in DOMAIN list \/ i = seq'
        /\ \A i \in DOMAIN list : list'[i] = list[i]
    BY <2>1
  <2> QED
    BY <1>1, <2>1, <2>2, <2>3, <2>4, <2>5, <2>6 DEF poller, InOrder
<1>4. ASSUME NEW h \in own,
             RemoveHandler(h) \/ Drop(h) \/ SetState(h) \/ StartTimer(h) \/ StopTimer(h),
             adds' < NIds
      PROVE  InOrder'
  <2>1. UNCHANGED <<seq, adds>>
    BY <1>4 DEF RemoveHandler, Drop, SetState, StartTimer, StopTimer
  <2>2. \A i \in DOMAIN list' : i \in DOMAIN list /\ list'[i] = list[i]
    BY <1>4 DEF RemoveHandler, Drop, SetState, StartTimer, StopTimer, Restrict
  <2> QED
    BY <1>1, <1>4, <2>1, <2>2 DEF poller, OwnInv, InOrder
<1> QED
  BY <1>2, <1>3, <1>4 DEF OwnerActs, OwnInv

\* The thread polls what is in the list, and takes no id from a handler.
LEMMA ThreadInOrder ==
  ASSUME TypeOK, OwnInv, Thread \/ Tick \/ Returned \/ UNCHANGED vars
  PROVE  OwnInv'
<1>1. CASE Collect
  <2>1. /\ UNCHANGED <<seq, adds>> /\ pc' = "collect"
        /\ EraseGone(cursor') \/ SkipDisabled(cursor') \/ CollectEnabled(cursor')
    BY <1>1 DEF Collect
  <2>2. /\ \A i \in DOMAIN list' : i \in DOMAIN list /\ list'[i] = list[i]
        /\ \A i \in DOMAIN polled' : \/ i \in DOMAIN polled /\ polled'[i] = polled[i]
                                     \/ i \in DOMAIN list /\ polled'[i] = list[i]
    BY <2>1, ListedLemma DEF EraseGone, SkipDisabled, CollectEnabled, Restrict
  <2> QED
    BY <2>1, <2>2 DEF OwnInv, InOrder, EventsArePolled
<1>2. CASE PollReturns
  <2>1. PICK r \in SUBSET DOMAIN polled : round' \in [r -> Revents]
    BY <1>2 DEF PollReturns
  <2> QED
    BY <1>2, <2>1 DEF PollReturns, OwnInv, InOrder, EventsArePolled
<1>3. CASE Dispatch
  <2>1. DOMAIN round' \subseteq DOMAIN round /\ pc = "dispatch" /\ UNCHANGED <<list, seq, adds, polled>>
    BY <1>3 DEF Dispatch, Restrict
  <2> QED
    BY <2>1 DEF OwnInv, InOrder, EventsArePolled
<1>4. CASE EventsServed
  <2>1. DOMAIN polled' = {} /\ pc' \in {"poll", "timers"} /\ UNCHANGED <<list, seq, adds>>
    BY <1>4 DEF EventsServed
  <2> QED
    BY <2>1 DEF OwnInv, InOrder, EventsArePolled
<1>5. CASE CallbackEnds \/ Tick \/ Returned \/ UNCHANGED vars
  <2>1. /\ UNCHANGED <<list, seq, adds, polled, round>>
        /\ pc' \in {"dispatch", "callback"} => pc \in {"dispatch", "callback"}
    BY <1>5 DEF CallbackEnds, Tick, Returned, vars
  <2> QED
    BY <2>1 DEF OwnInv, InOrder, EventsArePolled
<1>6. CASE Exec \/ StartRound \/ Poll \/ PollFails \/ CheckTimer \/ OnTimerEnds
  <2>1. /\ UNCHANGED <<list, seq, adds>>
        /\ polled' = polled \/ DOMAIN polled' = {}
        /\ pc' \notin {"dispatch", "callback"}
    BY <1>6 DEF Exec, StartRound, Poll, PollFails, CheckTimer, OnTimerEnds
  <2>2. \A i \in DOMAIN polled' : i \in DOMAIN polled /\ polled'[i] = polled[i]
    BY <2>1
  <2> QED
    BY <2>1, <2>2 DEF OwnInv, InOrder, EventsArePolled
<1> QED
  BY <1>1, <1>2, <1>3, <1>4, <1>5, <1>6 DEF Thread

\* The events that are served next are those of a handler that is still listed
\* under the id for which poll() reported them.
LEMMA ServesItsOwn ==
  ASSUME TypeOK, EventsAreSets, OwnInv, adds < NIds, [Next]_vars, pc = "dispatch", pc' = "callback"
  PROVE  curr' = polled[Min(DOMAIN round)]
<1> DEFINE i == Min(DOMAIN round)
<1>1. Dispatch
  BY DEF Next, OwnerActs, poller, Thread, Exec, StartRound, Collect, Poll, PollReturns, PollFails, CallbackEnds,
     EventsServed, CheckTimer, OnTimerEnds, Tick, Returned, vars
<1>2. i \in Enabled /\ curr' = list[i] /\ round # << >>
  BY <1>1 DEF Dispatch
<1>3. DOMAIN round # {}
  BY <1>2, EmptyLemma DEF EventsAreSets
<1>4. i \in DOMAIN round
  BY <1>3, MinLemma, NumbersLemma DEF TypeOK
<1>5. i \in DOMAIN polled /\ i \in DOMAIN list
  BY <1>2, <1>4, ListedLemma DEF OwnInv, EventsArePolled
<1> QED
  BY <1>2, <1>5 DEF OwnInv, InOrder

LEMMA OwnInvariant == Spec => []OwnInv
<1>1. Init => OwnInv
  BY DEF Init, OwnInv, InOrder, EventsArePolled, Bad
<1>2. TypeOK /\ OwnInv /\ [Next]_vars => OwnInv'
  BY OwnerInOrder, ThreadInOrder DEF Next
<1> QED
  BY <1>1, <1>2, TypeCorrect, PTL DEF Spec

\* Until the ids come round, no handler is called for events of another that
\* had its id before, whatever callbacks or another thread do to the list.
THEOREM OwnEventsUntilWrap ==
  Spec => [][adds < NIds /\ pc = "dispatch" /\ pc' = "callback"
               => curr' = polled[Min(DOMAIN round)]]_vars
<1>1. TypeOK /\ EventsAreSets /\ OwnInv /\ [Next]_vars
        => [adds < NIds /\ pc = "dispatch" /\ pc' = "callback"
              => curr' = polled[Min(DOMAIN round)]]_vars
  BY ServesItsOwn
<1>2. RoundInv => TypeOK /\ EventsAreSets
  BY DEF RoundInv
<1> QED
  BY <1>1, <1>2, RoundsAreSound, OwnInvariant, PTL DEF Spec

\* That is always, in a program that makes fewer handlers than there are ids.
THEOREM OwnEventsServed == ASSUME MaxAdds < NIds PROVE Spec => OwnEvents
<1>1. TypeOK => adds < NIds
  BY PollerAssumption DEF TypeOK
<1>2. TypeOK /\ [adds < NIds /\ pc = "dispatch" /\ pc' = "callback"
                    => curr' = polled[Min(DOMAIN round)]]_vars
        => [pc = "dispatch" /\ pc' = "callback" => curr' = polled[Min(DOMAIN round)]]_vars
  BY <1>1
<1> QED
  BY <1>2, TypeCorrect, OwnEventsUntilWrap, PTL DEF OwnEvents
=============================================================================
