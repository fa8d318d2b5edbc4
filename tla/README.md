# Verification of adbwifiswitch

TLA+ models, TLC runs and TLAPS proofs about
[adbwifiswitch](../src/README.md): a Linux program that switches the WiFi of an
Android device on or off by starting an agent on the device through `adb` and
waiting for the agent's answer in the device's log. Paths below are relative to
`src/adbwifiswitch/`, and to
`src/javaagent/adb-join-wifi/app/src/main/java/com/steinwurf/adbjoinwifi/` for
the `.java` files.

## 1. The system

    main ──> AdbController ── script of two tasks: launcher, then logcat reader
               │   ▲  │
               │   │  └──── ChildProcess ── fork/exec/kill/waitpid ──> adb ──> device: agent
      handlers │   │ callbacks                                          │
               ▼   │                                                    │ pipes
             FilePoller ── poll() on stdin, stdout, stderr of adb <─────┘

| component | state | operations | made correct by |
|---|---|---|---|
| `main.cpp` | run mode, configuration | parse the command line, start the script, run the poll loop, return a status | options as `usage()` says; exclusive modes; a status that tells success from failure |
| `AdbController` | `m_script`, `m_currTask`, the three handlers, `m_adbProc` | `connectWiFi`, `disconnectWiFi`, `switchTask`, `initAdb`, `cleanup`, `cleanupChildProc`, `exitCode`; callbacks of the handlers | no null pointer followed; one adb at a time, none left behind; success only after the answer; it ends |
| `AdbTask` (launcher, logcat reader) | `m_state`; one timer on adb's stdin handler | `start`, `cleanup`, `onDataReady` with `lookupTag`, `onError`, `onTimer`, `createIntentParams` | only this run's answer counts, however its bytes arrive; a timer is its own task's; the agent is told what the user asked |
| `FilePoller` | `m_hndList`, `m_seq` | `addHandler`, `removeHandler`, `pollHandlers`, `exec` | an id is one handler's; events reach only the handler they were polled for; no timer is slept past or forgotten |
| `FileHandler` | fd, flags, timers | `setState`, `startTimer`, `stopTimer`, `checkTimer`, destructor | a timer fires once and dies with its handler |
| `ChildProcess` | `m_pid`, three fds | `exec`, `cleanup`, `wait` | no orphan, no zombie, no signal to a stranger; `wait` returns; no descriptor leaks or is closed twice; adb's stdio is its pipes |
| `Buffers` | memory, `m_head`, `m_filled` | `reserve`, `cut`, `addFilled`, `append` | bytes in order; every assert holds |
| `Config` | command line values, uniq tag | `build` | different runs, different tags |
| `Logger`, `AdbContext` | – | output; the interface between tasks and controller | – |
| `MainActivity` | mode, SSID, receiver, joining thread | `onCreate`, `WifiEnabled`, `SSIDFound`, `onDestroy` | answers once, when connected or disconnected |
| `CheckSSIDBroadcastReceiver` | SSID, listener | `onReceive` | reports the right network, once |
| `AdminReceiver` | – | logs | – |

How they interact: the program has one thread. `FilePoller::pollHandlers` calls
back into the handlers, a handler asks the current task what the event means and
passes the verdict to `switchTask`, and `switchTask` may end the task, destroy
the very handlers of the poll round that is going on, kill and reap adb, and
start the next one, all before the callback returns. Only two things connect
host and agent: the intent that `am start` delivers, and log lines that carry the
uniq tag.

What is hard here: callbacks that pull the rug from under the poll round that
called them; adb dying, closing a stream or staying silent at any moment; the
timeout and the answer arriving together; failing calls (`fork`, `read`,
`poll`) on paths that nobody tests; old and foreign lines in the log; buffers at
their boundaries; ids and descriptor numbers that are given out again; words that
pass through two shells. `PROJECT.json` lists every such hazard at its line.

## 2. The modules

| module | models | composed with |
|---|---|---|
| `AdbTask` | what a task makes of lines that were read | extended by `AdbController` |
| `AdbController` | main, controller, scripts, tasks, poll loop, against adb, agent and clock | refines `AdbSession` |
| `AdbSession` | the promise of a run, with nothing said of how | – |
| `ChildProcess` | `ChildProcess::wait` against the operating system | by `AdbProcess`; its result is `Reap` in `AdbController` |
| `Buffers` | both buffers, and `FHCommon::Read` that drives one | its result is the exact sequence of lines in `AdbController` |
| `JoinAgent` | the agent on the device: `MainActivity`, its receiver and its joining thread, against the device's WiFi | its one answer is `AgentAnswers` in `AdbController` |
| `FilePoller` | `FilePoller` and `FileHandler` for any handlers, ids of any width, with and without a lock | `AdbController` has the same loop with one adb's three handlers |
| `ExecPipes` | the descriptors of `ChildProcess::exec`, of the handlers and of adb | by `AdbProcess` |
| `AdbProcess` | `ChildProcess` as a whole: processes and descriptors | `ChildProcess` and `ExecPipes` |
| `LineScanner` | `lookupTag` and what `onReadyToRead` cuts, over bytes that arrive in pieces | refines `LineReader`; between `Buffers`, whose `Fifo` gives it the bytes in order, and `AdbTask`, which has whole lines |
| `LineReader` | what a task is promised of logcat's output, with nothing said of reads | – |
| `CommandLine` | `parseClArgs`, against what `usage()` says | extended by `IntentExtras` |
| `IntentExtras` | from a parsed command line to what the agent is asked: `createIntentParams`, shell, `am`, `onCreate` | |
| `UniqTag` | `Config::Builder::build` and the search for the tag | the assumption `LinesAssumption` of `AdbTask` |
| `MCAdbController`, `MCAdbProcess`, `MCFilePoller` | instances for TLC | |
| `MCRequest` | instance for TLC of what is asked for and when | `CommandLine`, `IntentExtras`, `UniqTag` |
| `Request_proofs` | theorems of what is asked for | `CommandLine`, `IntentExtras`, `UniqTag` |
| `*_proofs` | theorems | extend the module they are named after |

Operators called *Mutant of ...* stand beside the definition they distort the way
a slip in the code would; no action uses them. Each shows that a property is
sensitive to the code: with the mutant in place of the definition TLC finds that
property violated.

### AdbController

A callback is one step, because nothing else in the process runs until it
returns. The C++ methods are operators from a controller record to a controller
record, and they are composed as the code composes them: `OnError` calls
`SwitchTask`, which calls `TaskCleanup` and `StartTask`, which calls `InitAdb`.
What is interleaved is what really is concurrent: adb writes, closes a stream or
exits, and timers run out, between any two callbacks of one round.

* `PollReturns` takes the snapshot `pollHandlers` takes: which adb's handlers
  were polled (`polled`), and their `revents`. `DispatchStdin`, `DispatchOutput`
  and `SkipStale` serve them in the order of the handlers' ids, looking at the
  list, the life and the state of the handler at that time
  (`Deliverable`). `TimerFires` comes after all events.
* A handler destroyed is a handler whose flags and timers are gone
  (`DropHandlers`); `listed` keeps its id until `removeHandler` or the next
  round sweeps it, as `m_hndList` does with its weak pointers.
* Each task starts adb at most once, so handlers, ids and processes are
  identified with the task that started them: ids given out are fresh. This is
  exact as long as `m_seq` does not wrap around.
* Following a null `m_currTask`, `m_script` or `m_adbStdin`, and writing to a
  pipe nobody reads (SIGPIPE), set `crashed`, after which the host takes no step.
* A read takes some lines of what is there; of a pipe with more than `ReadMax`
  lines it may leave some. `Read` returns up to 10 KiB, so `ReadMax` is
  whatever number of lines is sure to fit.
* `SpawnOutcomes`, `ReadErrors` and `PollErrors` choose which system calls may
  fail.
* The answer is written when logcat can show it, at most once. The agent on the
  device is external here: its promise is the one line.

Branches without a step, because no state reaches them: POLLIN on adb's
stdin (the write end of a pipe), `FHCommon::onReadyToWrite` (only stdin asks for
POLLOUT), `timerCtl` or `start` returning false (`startTimer` always returns
true), and `AdbTaskWaitFirstPrompt`, which is in no script. `stopTimer` and
`WriteBuffer::append` lack their `return`: undefined behaviour, but callers
ignore the value, and the model takes them to return. The Ctrl-C that
`TaskCleanup` queues is modelled (`pollOut`), and the runs show that it is never
sent: the handlers go before the next poll.

### AdbSession

Four actions: launch, wait, be answered, settle. `AdbController` implements it
under the mapping `Stage`, `AdbAlive`, `answered`; the mapping calls a program
that has returned without reporting an outcome failed.

### ChildProcess

`wait` step by step (kill, three tries of `waitpid` with a sleep in between,
SIGKILL, blocking `waitpid`), with the child ending at any moment. `os` says
what the number `m_pid` stands for, so the model can tell a signal to the child
from one to a process that got its number. If SIGCHLD is ignored, which a
program can inherit, there are no zombies and the number is free at once.
`AdbController` uses the result: `Reap` returns with the child gone.
A call `wait(false, SIGKILL)` would neither send the signal nor catch up on it;
no caller makes it, and `CallsAssumption` excludes it.

### Buffers

Bytes are numbered in the order they enter, so the contents of memory can be
checked exactly. `Write` is `reserve`, with its move and its growth, followed by
bytes arriving at `endPtr()`; `Cut` is `cut`. Read and write use alternate as
the code allows. Sizes are parameters: 512, 1024 and 10·1024 in the code.

### JoinAgent

One run of the agent, from `onCreate()` to `onDestroy()`. Callbacks of the
activity and its receiver run on the UI thread one at a time, so each is a step;
`SSIDFound` is two (`SSIDFound`, `JoinReturns`), because it waits in
`mThread.join()` while the joining thread goes on. The thread is interleaved call
by call: `disconnect()`, the look at the interrupt flag, `enableNetwork()` with
`reconnect()`, the sleep. An interrupt sets the flag, ends the sleep, and does not
disturb a call.

* `listener` and `registered` are kept apart, since the receiver forgets the one
  and `onDestroy()` the other, and broadcasts may arrive between the two.
* A broadcast has no content: `onReceive` asks for the state of the WiFi when it
  is called, so what is in `pending` may be about a state that is long gone. Both
  broadcasts are sticky, so `Connect` finds them pending at once.
* Whether the network can be added, updated or just joined
  (`getExistingWifiConfiguration`, `permittedToUpdate`, `updateWifiConfiguration`)
  is a choice between `networkId == -1` and a thread; `intent = "refused"`
  stands for every intent that ends in `printUsage`.
* The WiFi is external. It does what `WifiManager` documents: after `disconnect()`
  it stays off every network until `reconnect()` or until it is switched off and
  on, `enableNetwork(id, true)` disables all others, and switching WiFi on takes a
  while. The user and the radio interfere `MaxDisturb` times.
* Two results are followed without a look and may be null: `getNetworkInfo()` of a network
  that `getAllNetworks()` has just listed ("network"), and `getConfiguredNetworks()`, which
  `MainActivity.java:366` iterates, when WiFi goes off between the look at it and the call
  or the list cannot be had ("list"). `nulls` says which of them the system may hand out
  in this run, `crashed` what was null when it was followed: one of these or the
  receiver's listener.

### FilePoller

`AdbController` has the poll loop as this program uses it; `FilePoller` has the
class. Any number of handlers, each with its one timer, are served round after
round. `StartRound` forgets the last one. `Collect` is one turn of the loop of
`pollHandlers` over the list (`FilePoller.cpp:81-131`): a handler that is gone loses its
place (`EraseGone`), one that is disabled is passed over (`SkipDisabled`), any other is
polled (`CollectEnabled`), and its timer may shorten the timeout: `UseTimer` is the
condition of the code, with the timer that is due and the timer rounded down to whole
milliseconds (`WholeMs`), and the one that does sets `first` and `more`
(`firstTimer`, `moreTimers`). `Poll` then calls `poll()`, `Dispatch` looks every id up
again; `CheckTimer` walks the list as it is then. In a callback (`pc` is
"callback" or "ontimer") the owner may add, remove, drop, enable and time any
handler, any number of times.

* `NextId` is `getNextSeq` at the width `NIds`, so ids wrap around within a few
  registrations. A handler that is registered again while it is listed would have
  two ids; the program never does that, and `AddHandler` excludes it.
* The clock is finer than `poll()`'s milliseconds: `Grain` ticks are one.
* With `SingleThreaded = FALSE` the owner is another thread, which acts between any
  two steps of a round but not while the list is collected or a callback runs, when the
  loop holds the lock. A callback that touched the poller would wait for itself.
* Time stands still while the timers are checked, because `checkTimer` gets one
  `now` for the whole pass, and passes in `poll()` and while events are served.
* `OwnEvents` is about ids that have not wrapped within one round: with 2³² ids a
  round would need that many registrations. The run registers four times, too few to
  give an id out again between its poll and its turn; `OwnEventsUntilWrap` (section 4)
  states the condition for any number of ids and registrations.

### ExecPipes

Each process has a table from numbers to ends of pipes; `pipe()` gives out the
lowest free numbers. `ExecFails` is a disjunct of every step that may fail.
`m_fdStdin` and its two siblings are kept apart from the handlers' numbers, because
`ChildProcess::cleanup` looks at the former and the handlers close the latter. What
`cleanup` closes is `Stale`: the descriptors that are *negative*. The condition looks
the wrong way round and is right by accident, since the handlers own the numbers:
`HandlersOwnTheirEnds` fails with the condition turned (`Valid`).

`pollHandlers` keeps the handler it calls back alive by a pointer of its own
(`FilePoller.cpp:160`, `:192`). So when a callback leads to `cleanupChildProc` or `initAdb`,
the controller's `reset()` does not destroy that one of the three handlers: its number
(`held`, from `CallBack` to `CallBackReturns`) stays open over `wait()`, the next `exec`
and its `fork`, and is closed when the callback returns. `Dropped` are the numbers
that are closed at once.

The child's `dup2` and `close` are one step, as nothing else sees its table. It also
inherits the descriptors of old handlers, that of the callback and those which `initAdb`
replaces only after `exec`; it keeps them open until it exits, and nobody waits for
their end.

### AdbProcess

Its actions are conjunctions of one of `ChildProcess` and one of `ExecPipes`. `Fork`
sets `m_pid` and makes the child's table; `Ends` ends both, at any step of `exec` or
`wait`, and before the child has got to `execvp`; `CleanupChildProc` destroys the
handlers, runs `cleanup` over the descriptors and enters `wait`; `BeginExec` has the
`wait` of `initAdb`'s first line behind it. `Polls` lets callbacks begin and end
between these calls, so each call is met both within a callback and outside. So the
descriptors of one adb and the number of the one before are seen together, as
`AdbController` uses them.

### LineScanner

The buffer is the part of the stream from `head` to `got`. `Scan` is one turn of
`lookupTag`'s loop, `Cut` what `onReadyToRead` does with the size that `lookupTag` leaves.
`ReadFails` is a read that returns nothing and shows the task the same bytes again.
The agent's tag, the uniq tag and the signature are one pattern of two bytes, so
that a read can end inside it; `AnswerLine` is a reference that sees the stream at once.
`LineReader` has two actions: logcat writes a byte, the task is shown a line. `LineScanner`
implements it with `head + size` as the bytes the task is through with.

### CommandLine, IntentExtras, UniqTag

Functions of their input, so the state is the input (`units`), built up step by step,
with what the code makes of it (`parsed`), and the invariants compare that with a
reference. An argument is a sequence of words; one like `--ssid=my net` begins with the
option and its equals sign as a word of its own (`Attached`).

* In `CommandLine` the reference (`Documented`) knows which option a value belongs to,
  while `Step`, one turn over the arguments, has to find out, as `getopt_long` does.
  `Reads` appends a unit (an option with its value after it or attached, a flag, or an
  argument that is none) and hands its arguments to `Step`. An argument without a dash is an
  extra word and an error (`Operands`); one that `getopt_long` does not know is reported
  by it and passed over by the loop (`Unknown`, `main.cpp:134-136`). A type is compared
  without regard to case (`SaysWEP`, `SaysWPA`).
* `UnitsAssumption` says what command lines consist of, and so what nothing is said of: the
  options that are declared otherwise than `usage()` has them (`Misdeclared`), abbreviated
  long options, short ones that are grouped or have their value attached (`-dv`,
  `-sNET`), `--`, and an option at the end that lacks its value.
* `usage()` has a key with every SSID (`main.cpp:41`), and `Documented` demands it. The
  code does not, so `AsDocumented` says what it does instead: a command line without
  a key (`KeyLeftOut`) is run as if it ended in an empty one (`EmptyKey`).
* `IntentExtras` joins and splits the words as `adb shell` and the device's shell do. The
  latter then does with each what shells do: `Expansion` says what becomes of the words that
  mean something to it, `Cuts` are those of them that end the command (`Command`). Quote
  marks that are not paired in one word are not modelled. `am` takes what is left word by
  word (`AmGets`, `AmEnds`; external). `Extra` is a set, empty where the agent sees null, so
  that no value can pass for a missing one.
* `WordsDelivered` is about an SSID and a key that are one word each and mean nothing to a
  shell (`IsOneWord`). That is the whole of the promise the code can keep, as it
  quotes nothing; other values arrive changed, which the run has among its units.
* `UniqTag` is about the low four bytes of the time in milliseconds, all of which are
  written since February 1970. What the bytes above read, which changes every 50 days and ends
  both tags alike, is the constant `Era`. `Kept` are the digits two times have in common
  above the highest byte in which they differ, `Repeats` says that digits are the same
  again some places on.

## 3. The runs

| run | asks | bounds |
|---|---|---|
| `session` (`AdbController.cfg`) | `TypeOK`, `NeverCrashes`, `DoneMeansAnswered`, `NoAdbOutOfReach`, `NoAdbLeftBehind`, `TimerOfCurrentTask`, `NeverWaitsForever`, `OwnEventsOnly`, `IsSession` | all faults; pipes of 2 lines, reads of 1 or 2, three lines that could be mistaken for the answer: another run's answer, a line of the agent that is no completion, another program quoting the answer |
| `session_live` (`AdbControllerLive.cfg`) | `PolledAnswerWins`, `Terminates`, `IsFairSession` | as above with one other line; spawns and polls may fail, reads may not |
| `adb_process` (`AdbProcess.cfg`) | `NoChildLeft`, `NeverHitsStranger`, `FinalWaitEnds`, `NothingLeaks`, `HandlersOwnTheirEnds`, `EndsAreSeen`, `StdioRedirected`, `WaitReturns` | three tries, as in the code; all allowed calls of `cleanup`; three calls of `exec`; every subset of 0, 1, 2 open at start, or 0 to 3 and 5; descriptors up to 14, of which one handler's old one stays open while its callback runs |
| `buffers` (`Buffers.cfg`) | `AssertsHold`, `Fifo` | memory of 2, growth by 2, reads up to 5, appends up to 3, 14 bytes in all |
| `agent` (`JoinAgent.cfg`) | `TypeOK`, `AnswersOnce`, `NoJoiningAfterAnswer`, `NoCrashBeforeAnswer`, `NoAnswerAfterDestroy`, `JoinEnds`, `Answered` | two interferences; neither, either or both of the results that may be null |
| `poller` (`FilePoller.cfg`) | `NoOversleep`, `Registered`, `OwnEvents`, `TimersServed` | two handlers, four values of `m_seq`, four registrations, timers of up to a millisecond in half milliseconds, POLLIN or POLLERR with POLLOUT; single-threaded |
| `request` (`Request.cfg`) | `AsDocumented`, `WordsDelivered`, `TagsDifferSoon` | up to four of eighteen units; two runs up to 2 s apart, from 160 times around changes of digits and carries, below digits that repeat and digits that do not |
| `line_scanner` (`LineScanner.cfg`) | `NothingMissed`, `NothingInvented`, `IsLineReader`, `Found` | every stream of up to seven bytes, every split |
| `done_exits_zero` | `DoneExitsZero`: violated | |
| `zero_means_done` | `ZeroMeansDone`: violated | spawns may fail |
| `answer_on_connection` | `AnswerOnConnection`: violated | no interference |
| `not_left_disconnected` | `NotLeftDisconnected`: violated | no interference |

Why the bounds suffice. A script has two tasks, so nothing about the controller
is bounded but the pipes: capacity 2 with `ReadMax` 1 has an answer alone, before
and behind another line, and reads that take it and reads that leave it. In
`Buffers` the sizes are small so that every boundary (full, emptied, moved,
grown, limit of one read reached) is hit within few bytes. Two interferences let
the WiFi of `JoinAgent` go off and come on again, or a network be lost twice, at
any two moments of a run. In `FilePoller` two handlers and timers of half a millisecond
and of one give ties, a timer that is due and one that is not, timers that are rounded
to nothing and to less than they are, the shorter before and behind the longer in the
list, and one that runs out while events are served; four registrations let both handlers be registered anew and `m_seq`
pass its end with the other handler still listed. Three calls of `exec` have an old adb's
numbers closed, given out again and closed a second time if anybody would, and a handler
that is two generations old may still be in its callback. Seven bytes hold
an answer behind a line that is none, with reads that end at every byte of both.
Four units are one option each for SSID, key, type and mode.
The type invariants of `ChildProcess`, `Buffers`, `FilePoller` and `LineScanner` are proved and
need no run.
For safety the proofs remove the bounds altogether where there are any (section 4).

Fairness. `FairSpec` of `AdbController` assumes that the program's thread runs
(`WF_vars(Host)`) and that an armed timer runs out in the end
(`WF_vars(TimerExpires(t))`), because `steady_clock` advances. Nothing is assumed of
adb, of its output or of the agent. `ProcessSpec` of `AdbProcess` assumes that the
caller's thread runs and that a process with SIGKILL pending ends; nothing of one
with SIGTERM. `FairSpec` of `JoinAgent` assumes that Android runs both threads,
that WiFi that was asked to come on does, and that the device associates when it
may (`WF_vars(Associates)`: the network is in range); the connection need not
come up. `Answered` speaks of runs in which WiFi stays on in the end and the system
hands out no null (`nulls = {}`); of a run in which it does, which may die unanswered,
nothing is promised.

`FairSpec` of `FilePoller` assumes that the thread runs, so callbacks
return, and that the clock goes on (`WF_vars(Tick)`). `FairSpec` of `LineScanner` assumes
that the program runs and that `read()` of bytes that are there succeeds in the
end (`SF_vars(Read)`: a failed read in between disables and enables it again).

`JoinAgent` runs with deadlock checking off: a destroyed activity and a finished
thread have nothing left to do. So does `MCRequest`,
whose behaviours end with the bound.

### What was found

Items 1 to 4 each have a run that shows them.

1. **A successful run exits with 1.** `switchTask` calls `cleanup()` right after
   logging "Execution done" (`AdbController.cpp:234-235`); `cleanup()` resets
   `m_script`, and `exitCode()` (`:117`) returns 0 only if there is one.
2. **A run that could not start logcat exits with 0.** `AdbTaskRunLogcat::start`
   ignores that `startAdb` failed (`AdbTask.cpp:232`); the loop ends with no
   handler left, the script is still there and has nothing left to hand out.
   A failing `poll()` while logcat is being read ends the same way.

3. **The agent answers before it is connected.** The receiver accepts a network
   that `isConnectedOrConnecting()` (`CheckSSIDBroadcastReceiver.java:71`), and
   agent and host call that connected.
4. **The agent may report success having disconnected the device.** On a device
   that is on the network already, the sticky broadcast interrupts the joining
   thread when it has called `disconnect()` (`MainActivity.java:267`) and not yet
   `reconnect()`; the answer follows, and nobody reconnects.

Items 5 to 10 were met while modelling and have no run of their own: the properties of
the passing runs name the condition that keeps them out.

5. **adb may lack a standard stream.** If the program is started with 0, 1 or 2
   closed, a pipe gets that number, and the loop that closes the pipes' numbers
   in the child (`ChildProcess.cpp:100`) closes what `dup2` has just put there.
   `StdioRedirected` is `StdioIsPipes` for starts with all three open.
6. **`--disconnect` and `--verbose` require an argument** (`main.cpp:67`, `:72`), which
   `usage()` does not say; they swallow the next option. `UnitsAssumption` leaves both
   out.
7. **`-h` is unknown**: the short options (`main.cpp:85`) lack it. `UnitsAssumption` leaves
   it out, too.
8. **The key is not asked for.** `usage()` has `-k` with `-s` and not among the optional
   switches (`main.cpp:41`); `parseClArgs` asks for an SSID only. The agent then refuses,
   since `-e password -e password_type WPA` leaves the type out, and the run
   ends in the 30 s timeout; an explicit `-k ""` does the same. `AsDocumented` names the
   departure (`KeyLeftOut`).
9. **An SSID or key that means something to a shell arrives changed.** Nothing quotes
   the parameters for the device's shell (`AdbTask.cpp:192-193`): an SSID of two words
   arrives as one, and without its key; `$`, `*`, `&`, `;`, `#`, quote marks and the like
   are acted upon. `WordsDelivered` is about one word without them (`IsOneWord`).
10. **Two runs may have one uniq tag**, because the bytes are written without separators
   (`Config.cpp:18`): the bytes 11, 1 and 1, 11 read the same, 2.55 s apart. Runs that are
   1.001 s apart may do so, too, when the digits of the higher bytes repeat: those of 4 January
   2020, 05:22 UTC, end in 1, 111, 111, 1, and there 25, 1 and 2, 5 give the tags
   25111111111 and 2511111111, of which the later is part of the earlier. The answer of the
   earlier run, still in the log, is then taken for the later one's. `TagsDifferSoon` is
   about runs up to 2 s apart and names the repetition as the one exception.

More observations that no property states, because the code has no other
intention to hold it to: an answer in the pipe is lost if adb's death is
polled together with it (stdin's POLLERR is served first); between adb
closing its output and exiting the loop spins on POLLHUP; a
WIFI_STATE_CHANGED between the agent's answer and `onDestroy()` follows the null
listener (`CheckSSIDBroadcastReceiver.java:45`), which the host does not notice
any more; and the agent dies unanswered if `getNetworkInfo()` or
`getConfiguredNetworks()` (`MainActivity.java:366`) returns null, after which the host waits
for its 30 s.

## 4. The proofs

All are for every value of the constants that the named assumptions allow:
any set of lines that `LinesAssumption` allows, any pipe capacity and read
limit, any combination of faults.

| theorem | module | states |
|---|---|---|
| `Inductive` | `AdbController_proofs` | `IInv` |
| `TypeCorrect` | | `TypeOK` |
| `Safe` | | `NeverCrashes` |
| `DoneIsReal` | | `DoneMeansAnswered` |
| `NoAdbLost`, `NothingLeft` | | `NoAdbOutOfReach`, `NoAdbLeftBehind` |
| `TimersAreApart`, `EventsAreApart` | | `TimerOfCurrentTask`, `OwnEventsOnly` |
| `WaitsAreBounded` | | `NeverWaitsForever` |
| `AnswerWins` | | `PolledAnswerWins` |
| `Implements` | `AdbSession_proofs` | `IsSession`: the program implements `AdbSession` |
| `TypeCorrect`, `WaitReaps` | `AdbProcess_proofs` | `TypeOK`, `NoChildLeft` of `ChildProcess` |
| `WaitHitsChild`, `WaitBlocksBriefly` | | `NeverHitsStranger`, `FinalWaitEnds` |
| `ImplementsWait` | | `AdbProcess` implements `ChildProcess` |
| `ProcessInductive` | | `ProcessInv` |
| `NoDescriptorLeaks` | | `NothingLeaks` |
| `HandlersKeepTheirEnds`, `StreamsEnd` | | `HandlersOwnTheirEnds`, `EndsAreSeen` |
| `AdbGetsItsPipes` | | `StdioRedirected` |
| `TypeCorrect`, `AssertsAreTrue` | `Buffers_proofs` | `TypeOK`, `AssertsHold` |
| `BuffersCorrect` | | `Fifo` |
| `TypeCorrect`, `AnswersAtMostOnce` | `JoinAgent_proofs` | `TypeOK`, `AnswersOnce` |
| `ThreadEndsFirst`, `NoEarlyCrash` | | `NoJoiningAfterAnswer`, `NoCrashBeforeAnswer` |
| `SilentAfterDestroy` | | `NoAnswerAfterDestroy` |
| `IdsAreUnique` | `FilePoller_proofs` | `Registered` |
| `OwnEventsUntilWrap` | | a callback is for the handler that was polled, until ids come round |
| `OwnEventsServed` | | `OwnEvents`, if fewer handlers are registered than there are ids |
| `TypeCorrect`, `SleepsNoLonger` | | `TypeOK`; `NoOversleep` of what the loop over the list computes, if no other thread acts |
| `TypeCorrect` | `LineScanner_proofs` | `TypeOK` |
| `MissesNothing`, `InventsNothing` | | `NothingMissed`, `NothingInvented` |
| `ImplementsReader` | | `IsLineReader`: `LineScanner` implements `LineReader` |
| `Parses` | `Request_proofs` | `ParseInv` |
| `ParsedAsDocumented` | | `AsDocumented`, for command lines of any length, the missing key named |
| `EveryWordDelivered` | | `WordsDelivered`, for any words that the device's shell leaves alone, and whatever it does with others |
| `TagsAreApart` | | `TagsDifferSoon`, for any time and era |

**The controller.** None of the properties is inductive. What holds between
callbacks is `CtlInv`: either nothing is left (`Clean`, what `cleanup()` leads
to) or a script is under way (`UnderWay`): the handlers, flags and timers are
those of the adb that `m_adbProc` has, the timers are the current task's, and a
wait is bounded by a timer or by an adb that is gone. The delicate part is
`c.fh # c.task`: after a failed read *and* a failed spawn the logcat
reader keeps the launcher's handlers. The invariant says exactly when
(`FaultPair`) and that their adb is gone, so the next poll ends it. `OwnEventsOnly`
has that one exception, too: an event or a timer that is served and changes
anything was polled for the adb of the current task (`polled`), unless the
current task could not start one.
One lemma per method says how the method restores `CtlInv`, in the order of
the calls, and one lemma per action lifts that to `IInv`, which adds that every
answer in a pipe is the agent's (`AnswersAreReal`) and that an event still to be
served finds its lines (`EventsAreThere`): a read that returns nothing is
therefore a failed one.

**The answer.** `AnswerHeld`: from `poll()` to the end of the round, either the
script is done, or the answer still waits among the lines the next read of
stdout takes, stdin has no error to serve before it, and the handlers are the
logcat reader's. The round cannot end with stdout unserved.

**wait().** `Knows` ties what `wait` has seen to what is true of the child: a
result other than "still running" means that the child is gone, and as long as
zombies are kept, only that. `KillIsSent` covers a caller that asks for SIGKILL.

**Buffers.** `IInv` is the three properties together; `WriteLemma` and
`CutLemma` carry the argument about moved and grown memory.

**The agent.** `IInv` follows the listener through its life: none before
`onCreate()` (`Untouched`), there as long as the receiver is registered and has
not answered (`Registered`), and gone with the thread once it has (`Settled`).
A late broadcast then finds a null listener, so it neither answers nor starts a
thread; the one about connections looks first, the one about WiFi does not.

**The refinement.** Between callbacks the stage of the session is read off the
controller (`UnderWayMapping`, `CleanMapping`). Most steps leave task, outcome and the
life of adb alone and are stutters (`SameStage`); what takes a script `Onward`
either settles it, leaving a clean controller, or moves it from the launcher to the
logcat reader, and each is a step of `AdbSession` (`OnwardStep`).

**Ids.** `Registered` needs that the list tells the truth of every handler in it,
owned or given up (`ListIsTrue`). Then a handler that is not listed finds
a free id: the listed ones are as many as their handlers, which are fewer than the ids
(`FreeIdLemma`, by the pigeonhole principle), and the search passes
every id before it gives up (`NextIdLemma`). This is where `PollerAssumption` asks for
fewer handlers than ids. The theorem covers the locked mode as well, which no run does.
`RoundInv` adds the types of a round, and why `poll()` does not oversleep: during the pass over
the list the timeout fits the timers collected so far (`PassFits`), whatever
their order; a timer that does not shorten it is no shorter, and one that does is cut to whole
milliseconds, so by less than one (`WholeMsLemma`, `CollectEnabledLemma`). The owner cannot
start a timer until `poll()` returns, and meanwhile time passes for the timeout as it does
for the timers (`TickLemma`).

**Lines.** The invariant says that `head` and `head + size` are at the start of a
line and that no complete line before `head + size` is an answer, unless the scan
has just stopped at one. A line that is not complete is then never looked at, and one that
is lies wholly in the view when its newline is found. A turn of the loop is then a step of
`LineReader` (`ScanTakes`), and reads, failed reads and cuts are stutters (`Unseen`), because
between reads `size` is zero (`Fresh`).

**Events.** `OwnEvents` rests on the order of the ids. Until `m_seq` has come round, ids
that are given out are greater than all before, so an id that was polled and is still to be
served cannot be given to another handler within the round. The theorem says so for
any number of callbacks and for the locked mode; `OwnEventsServed` draws the conclusion for
programs that never wrap. This one registers six handlers in a run at most, three for each task,
and has 2³² ids.

**Descriptors.** The proof follows the numbers through one `exec`. `ProcessInv` has four parts:
what `wait` knows of the child (`IInv`, above), what the program's table holds (`ParentInv`:
the files it was started with, the handlers' ends, that of the handler whose callback
runs, whichever adb's it was (`HeldLive`), the pipes made so far, and nothing
that none of these accounts for), what the child's table holds before and after `execvp`
(`ChildInv`), and that a child and its table come and go together (`OneChild`). Each end of
a pipe carries the number of the call that made it, so an end of an old adb
is never mistaken for one of the new, although their numbers are the same. From that follow
that the close on a failed call closes what it opened and no more, that a stale or late
close hits what it is meant for or nothing, and that no process keeps an end of the other's. `StdioRedirected` needs
that 0, 1 and 2 were open at start: then no pipe has such a number.
That `AdbProcess` implements `ChildProcess` carries the three theorems about `wait()` over.

**Command line.** `ParseInv` relates what the code holds after some units to what a
reader of the whole line finds, option by option: `Given` are the places at which an option
stands and `Value` is that of the last one. A unit changes one of them, or none, which
`UnitLemma` says of the code and `GivenGrows` and `ValueGrows` of the reference. A missing
key is an empty one to the code, and to the reference when one is appended (`WithKeyLemma`).
`UnitsAssumption` is the whole of the condition: an option and its value are taken
together, and the forms listed in section 2 are left out.

**Words.** That `am` reads three words at a time, whatever they are, is the lemma
`AmReadsLemma` about a recursive function; it goes by the least counterexample instead of
induction. The words that the host sends are those of a fixed frame with a value in
the third place each (`AmThree`, `AmHead`), so a value that looks like a switch is never
read as one. The frame's words mean nothing to a shell (`ShellAssumption`), so if the values
do not either, the shell hands on all of them as they are (`LeftAloneLemma`).

**Tags.** Two times within two seconds differ by eight at most in the highest byte
in which they differ (`CarryLemma`), so that this byte ends with another digit in
each (`LastDigitLemma`). If the later tag is found in the earlier one then not at its end
(`ApartLemma`), so what both end with is found in itself, some places off (`KeptLemma`).
When only the lowest byte differs the later tag is no shorter, and another (`LowestLemma`).

**Only model-checked**: what concerns liveness (`Terminates`, `IsFairSession`,
`WaitReturns`, `JoinEnds`, `Answered`, `TimersServed`, `Found`), because liveness under
fairness is beyond the prover. Every safety property that a passing run checks is a theorem.

## 5. Not modelled

* `AdbTaskWaitFirstPrompt` (`AdbTask.cpp:77-126`): neither script has it, so nothing
  the program does depends on it.
* Several timers of one handler (`FileHandler::startTimer` with other ids): no task starts
  more than one.
* Two runs on one device, and an activity that is destroyed while its thread goes on:
  what then happens is decided by when Android creates, reuses and kills the activity and
  its process, none of which is in this code. The same goes for an answer written
  before logcat was up and pushed out of its twenty lines.
* Of the agent: `clear_device_admin`, and the contents of a network's configuration,
  which is a choice between one that can be joined and one that cannot.
* Of the poll loop: that POLLHUP alone makes it spin, which is no property of states, and
  a callback in locked mode, which would wait for the lock its thread holds.
* What `getopt_long` takes besides the units of `UnitsAssumption`, and quote marks that the
  device's shell finds unpaired in a word: both are other programs' grammars, and no property
  says anything of values or arguments that use them.
* `Logger`, `AdminReceiver`, build files: no behaviour to speak of.

## 6. Plan

Everything planned is done, but for a composition of two runs on one device, which was
given up for the reason above. What could follow are several timers per handler, if a task
should ever use them.
