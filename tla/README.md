# cxpnet: TLA+ models, model checking and proofs

cxpnet is a reactor network library in C++20: event loops, connections, a
server, timers, and the pollers under them. This directory models its
concurrent and stateful parts in TLA+, checks their safety and liveness with TLC
on small instances, and proves the safety properties with TLAPS for every number
of threads, closures, timers, connections and descriptors.

Run everything from this directory:

    tlc -config EventLoopRun.cfg MCEventLoop      # one run; see "Runs"
    tlapm EventLoopProofs.tla                     # one module's proofs; see "Proofs"

`PROJECT.json` lists the runs with their expected outcome, and maps every
definition that models code to the lines it models.

## 1. The system

| Part | State | Operations | Interacts with |
|---|---|---|---|
| `IOEventPoll` | `tasks_` (mutex), `shut_`, `thread_id_`, active channels, an eventfd | `run`, `poll`, `run_in_poll`, `run_later`, `shutdown` | poller, `TimerManager`, every thread that posts |
| `TimerManager` | `timers_`, `schedule_`, `scheduled_timers_`, `running_` | `add_timer`, `cancel_timer`, `shutdown`, the timer thread | `Conn`'s close timeout |
| `Conn` | `state_`, `channel_`, write and read buffer, watermark flag, close timer, `cleanup_done_` | `connect`, `connect_sync`, `send`, `shutdown`, `close`, read/write/close/connect events | `IOEventPoll`, `Channel`, `Buffer`, `TimerManager`, `Server` |
| `Channel` | events asked for, events reported | `add_read_event`, `add_write_event`, `remove_write_event`, `clear_event`, `remove`, `handle_event` | poller, `Conn`, `Acceptor` |
| `Buffer` | two indices, capacity, bytes | `append`, `ensure_writable_size`, `been_read`, `been_written`, `clear`, shrink, moves | `Conn` |
| `EpollPoller`, `KqueuePoller` | `channels_`, the kernel's interest list | `poll`, `update_channel`, `remove_channel` | `Channel`, kernel |
| `Acceptor` | listening socket, `accepted_handles_` | `listen`, `handle_read_`, `shutdown` | main `IOEventPoll`, `Server` |
| `PollThreadPool` | sub polls, threads, round-robin index | `start`, `next_poll`, `shutdown` | `Server`, sub `IOEventPoll`s |
| `Server` | `started_`, `shutting_down_`, `conns_`, exit thread | `start`, `run`, `poll`, `shutdown`, `close`, new and closed connections | all of the above |
| `Platform` | none | thin wrappers of system calls | kernel |

What makes it hard to get right:

* Every public call can come from any thread; work is moved to the poll thread
  by closures. State is looked at before a closure is posted and again when it
  runs.
* epoll is edge-triggered. A notification that was consumed does not come again.
* User callbacks run in the middle of handlers and can call back into the same
  connection or the server.
* A close can be started by the peer, an error, the application, the close
  timer, and the server, all at the same time.
* Descriptors are reused by the kernel the moment they are closed, while
  `conns_` is keyed by descriptor.
* Shutting down means waiting for closures on loops that are themselves
  stopping.

`PROJECT.json` lists these as hazards, each at its line with the property that
covers it, or the reason why none does.

## 2. The modules

### TaskExecutor

What an `IOEventPoll` promises to those who post closures: a first-in first-out
queue that is only closed when empty. It models no code; `EventLoop` implements
it, and `Server` uses its polls in this form.

### EventLoop (`io_event_poll.{h,cc}`)

One loop, its Runner, and any set of threads that post and shut down. Closures
are their ranks in posting order. `tasks` and `batch` are `tasks_` and the local
`tmp_tasks`; `counter` and `edge` are the kernel's view of the eventfd (readable;
on the ready list). `loop` is the Runner's program counter through `run`, `poll`
and `poll_`; `pc` is each thread's in a call. A step is cut where another thread
can see the difference:

| Code | Actions |
|---|---|
| `run_in_poll` | `RunInPollInline`, `InlineReturns`, or `RunInPollQueued`, `Push`, `Notify` |
| `run_later` | `RunLater`, `Push`, `Notify` |
| `shutdown` | `ShutdownLoad`, `ShutdownStore`, `ShutdownNotify` |
| `run`, `poll` | `RunStart`, `PollStart`, `Check`, `Drain`, `DrainTask`, `DrainDone` |
| `poll_` | `WaitEvents`, `WaitTimeout`, `WaitError`, `HandleWakeup`, `HandleIo`, `IoReturns`, `DispatchDone`, `Swap`, `ExecTask`, `TaskReturns`, `ExecDone`, `ErrorReturns` |

The loop is constructed by one of `Owners` (`threadId` in `Init`) and driven by
the Runner, whose `run()` takes `thread_id_` over in `RunStart`.

Channels of connections are one abstract "io" event with a callback that may
call anything. `timer_manager_->shutdown()` inside `shutdown` is taken to return;
whether it does is a question to `TimerManager`. Wrapping of the eventfd's
64-bit counter is left out.

### TimerManager (`timer.{h,cc}`)

The clients' critical sections are one step each. The timer thread is cut at
every read of `running_`, which is changed without the mutex, and each wait on
the condition variable into predicate (`Pred1`, `Pred2`), start of blocking
(`Block`), and return (`Wake`, `Timeout`, `Spurious`, then `Lock`). `due[id]` is
the expiry of timer `id`. `schedule` stands for `schedule_` and its index
`scheduled_timers_`, which every operation changes together; `timers` is kept
apart. A wait that is past its deadline when it gets the mutex back counts as
timed out, as `wait_until` has it.

### Conn (`conn.{h,cc}`, `channel.{h,cc}`, event translation of `poller_for_epoll.cc`)

One connection, accepted or connecting. Handlers are cut where they call user
code; the rest of each is a frame on `stack`, so callbacks can re-enter `send`,
`shutdown` and `close`. `pend` is the event reported by epoll and not yet
dispatched; other callbacks may act in between. `tasks` are closures for this
connection, `timer` its close timer in the `TimerManager` (`armed`, or
`extracted` and past cancelling). The kernel's side is a socket with `SendSpace`
bytes of send buffer, `edge` (on the ready list) and `nospace` (the wakeup owed
after a full socket drains). Bytes are numbered in the order `send` accepted
them. `crashed` records a use of a null `channel_`.

`connect` is called once per `Conn`, the one-shot convention of `README.md`.
Reading (`handle_read_event_`) is one step up to EAGAIN: nothing of it is visible
to others before the message callback. `chan` is what `channel_` points to.
`closeTimeout` (whether a close timeout was set) is chosen in `Init`.

### ByteQueue and Buffer (`buffer.h`)

`ByteQueue` is a queue of bytes. `Buffer` has the indices, capacity and memory
cells of the code, memory outside the content being `Garbage`; each turn of the
doubling loop in `ensure_writable_size` is a step. Its content implements
`ByteQueue`. It can be moved from, which leaves it without memory, and, when it
is empty, assigned a new Buffer or one made from data.

### Demultiplexer and Poller (`poller_for_epoll.cc`, `poller_for_kqueue.cc`, `channel.cc`, `IOEventPoll::poll_`)

`Demultiplexer` says what a poller promises to the owners of Channels: each is
told of events it has asked for, or of an error or hangup while it asks for
something, once per round. `Poller` has the tables of
both pollers (`backend` chooses one in `Init`), the kernel's interest list, and
the memory of the Channels, as one record `st`; operators such as `EpollUpdate`
or `DoCleanup` give the record after a call.

| Code | In `Poller` |
|---|---|
| `channels_`, `registered_events_`, the Channel's members | `st.channels`, `st.registered`, `st.chan` |
| the interest list, with the address epoll keeps | `st.kern` |
| closures posted with `run_later` that hold a Channel | `st.later`, and `st.dying` in the round that runs them |
| `poll_` | `Wait`, `HandleEvent`, `Return`, `SwapTasks`, `PollReturns` |
| `Acceptor::listen`, `Conn::start_connect_in_poll_`, `Conn::start_` | `Open` |
| `Conn`'s write event, `Conn::cleanup_`, `Acceptor::shutdown` | `ToggleWrite`, `Cleanup`, `Shutdown` |

Every callback, and every closure, may do any of the last two rows to any
Channel, and a closed descriptor is free for the next `Open` at once. Sockets
have numbers of their own, so that an event of the last owner of a descriptor
can be told from one of the next.

### Server (`server.{h,cc}`, `acceptor.{h,cc}`, `poll_thread_pool.{h,cc}`)

Start, accepting in batches, and `shutdown` and `close`, in both running modes
(`mode`, chosen in `Init`). The polls are TaskExecutors. A `Conn` is reduced to
its descriptor, its poll and five states; closing it takes two steps, because
another thread can be given the descriptor between `close_handle` and
`on_conn_close_`. A descriptor is any that is free at that moment.

`on_new_connection_` takes `conns_mutex_` twice: `Admit` compares the limit,
`NewConnection` enters the Conn, and other threads erase entries in between.
`StartConnection` then starts it on its poll; in `kAllOneThread` that is where the
connection callback runs (`mpc = "callback"`, ended by `CallbackReturns`), with the
rest of `accepted_handles_` still to come.

In `kOnePollPerThread` connections go round robin to the sub polls.
`started_.exchange` lets one caller through; that caller, or the exit thread made
for it, is the "closer", one program counter (`cpc`) through `shutdown_impl_` or
`close_impl_`.

In `kAllOneThread` everything happens on the thread that calls `poll()`: `Poll`
enters a round, `PollReturns` or `FinishShutdownAllOneThread` ends it, and
`ShutdownAllOneThread` and `CloseAllOneThread` are called between two rounds or
in callbacks, the connection callback among them; `cpc = "drain"` is
`shutting_down_`.

The code lets `shutdown()` and `close()` be called in two places where they do
harm (findings 4 and 5), and two constants say whether the application does so:
`ExitBeforeRun` (between `start()` and `run()`) and `EndInCallback`
(`kAllOneThread`: a `close()` in the connection callback, or a `shutdown()` there
with no connection left, so that everything ends in the middle of a batch). With
`EndInCallback` false, `shutdown()` is still called in the connection callback
while there are connections to drain.

## 3. Runs

Deadlock is checked for `event_loop`, `buffer` and `poller`; the other systems
really end (a closed connection, a server that was shut down, a clock at its
bound).

| Run | Shows |
|---|---|
| `event_loop` | Three threads, three closures, a loop constructed by its Runner or by another thread, `poll()` then `run()`: no lost wakeup, closures run once and in order (`InOrderOnce`), `TaskExecutor` is implemented, so that all closures have run when `run()` returns; every closure posted is run and `shutdown()` ends `run()`. Inline closures stay on the loop's thread with one exception, stated in `MustInIOThread`: the one the constructing thread is in when `run()` takes the loop over |
| `timer_manager` | Two clients, two timers with delays 0 to 2, clock to 3: `schedule_.begin()` is valid when used, the maps agree, no timer is slept over, a cancelled one never runs, callbacks run in order of expiry and not early, nothing runs after `shutdown()`; every timer runs unless cancelled or shut down |
| `timer_manager_shutdown` | *violated*: see finding 1 |
| `conn` | Both roles, with and without a close timeout, messages of 1 and 3 bytes, budget and socket of 2, three calls from callbacks or threads, a peer that sends, acknowledges, closes and resets: byte order, EPOLLOUT exactly while needed, no edge lost in either direction, one close that releases everything, FIN after the data and nothing after the FIN, watermark hysteresis, no null channel; with a peer that reads, output is drained and a shutdown gets to its FIN, and with a close timeout it ends whatever the peer does. An attempt is answered by one of the callbacks of `connect`, except when it is refused or reset before (`ConnectAnswered`) |
| `conn_low_close` | *violated*: see finding 2 |
| `buffer` | All mixes of operations and moves up to 5 bytes of content: indices in range, a queue of bytes is implemented and no uninitialised byte read, growth ends for every capacity above 0 |
| `server` | Both modes, two sub polls, three descriptors, three connections, a limit of two, `ExitBeforeRun` and `EndInCallback` false: no stale entry in `conns_`, limit kept, no closure left on an ended loop, everything stopped when `shutdown()` or `close()` is through, every connection released (in `kOnePollPerThread`: whose descriptor had no earlier owner), both calls and `run()` come to an end |
| `server_reuse` | *violated*: every connection released, also one whose descriptor had an earlier owner; see finding 3 |
| `server_before_run` | *violated*: with `ExitBeforeRun`, `ExitReturns`; see finding 4 |
| `server_callback` | *violated*: with `EndInCallback`, `QuietWhenDone`; see finding 5 |
| `poller` | epoll and kqueue, two descriptors, four Channels: the poller's tables, the Channels and the kernel agree, no registration is refused, no destroyed Channel is used, no Channel gets the events of another socket on its descriptor, and both implement `Demultiplexer` |
| `poller_acceptor` | *violated*: see finding 6 |

### Bounds, and why they are enough

* Event loop: three threads give two posters that race each other and the Runner,
  three closures give a batch of two with one pushed behind it.
* Timers: two are needed for an earlier one to arrive during a wait, and for two
  of equal time; the delays put the second before, at and after the first.
* Connection: a message larger than budget and socket is split in direct, queued
  and blocked parts; the budget equals the socket, so both limits are met; three
  calls reach send, send again, then shutdown or close, from three places.
  The low watermark's callback only shuts down: closing or sending there is
  finding 2.
* Buffer: capacities below, at and above the thresholds (`ShrinkThreshold` 4,
  `InitialCapacity` 2) exercise move, double, reallocate and shrink; from 20
  cells a shrink has to keep more than `InitialCapacity` would hold.
* Server: two sub polls make round robin visible; three connections on three
  descriptors allow reuse while a third is open; the limit of two is reached.
  A batch of two leaves one to come while the connection callback runs.
* Poller: two descriptors put two Channels into one round, so that the callback
  of the first closes the second and gives its descriptor to a new one; four
  Channels are the two, one replacement, and the second Channel of a connection
  attempt. Descriptors are symmetric: nothing compares them.

### Fairness

Weak fairness means that a thread which can go on is scheduled. Beyond that:

* `EventLoop`: strong fairness of the Runner, since a callback may make calls
  and a mutex be held again and again, but finitely often in the code. The
  ten-second timeout of `epoll_wait` is *not* used: progress does not rest on it.
* `TimerManager`: time passes. Spurious wakeups may happen and are not relied on.
* `Conn`: a connection attempt gets a result, and a close timer becomes due.
  A peer that reads is a hypothesis of `OutputDrained`, and of nothing else.
* `Server`: strong fairness for running a queued closure, which is what
  `PostedIsRun` of `EventLoop` establishes for each loop. The application calls
  `run()` after `start()`, or `poll()` again and again, one of these calls coming
  after the shutdown deadline (strong fairness of `FinishShutdownAllOneThread`,
  with a shutdown timeout set); peers do nothing for us.

## 4. Proofs

Every safety property that a run checks is also a theorem, for all values of the
constants that the assumption of its module allows.

| Module | Theorem | States |
|---|---|---|
| `EventLoopProofs` | `WakeupNotLost` | `NoLostWakeup` |
| | `OrderKept` | `InOrderOnce` |
| | `InlineOnThread` | `MustInIOThread`, whoever constructs the loop |
| | `ExitDrained` | `DrainedAtExit`: all closures have run when `run()` returns |
| | `Implementation` | `ImplementsExecutor` |
| `TimerManagerProofs` | `TablesSame`, `BeginValid` | `SameTimers`, `BeginIsValid` |
| | `NeverOversleeps` | `NoTimerOverslept` |
| | `CancelIsFinal`, `DueOrderKept` | `CancelledNeverRuns`, `RunInDueOrder` |
| | `ShutdownQuiet` | `QuietAfterShutdown` |
| `BufferProofs` | `IndicesKept` | `IndicesInRange` |
| | `BufferIsQueue` | `ImplementsQueue` |
| `ConnProofs`, `ConnEventProofs` | `OrderKept`, `NothingCutOff` | `BytesInOrder`, `FinIsLast` |
| | `WriteEventKept` | `WriteInterest` |
| | `WritableKept`, `ReadableKept` | `WritableEdgeKept`, `ReadableEdgeKept` |
| | `CloseIsOnce`, `CloseReleases` | `ClosedOnce`, `AllReleased` |
| | `HysteresisKept` | `WatermarkHysteresis`, if `"send" \notin LowOps` |
| | `ChannelKept` | `NoNullChannel`, if `LowOps \subseteq {"shutdown"}` |
| `ServerProofs`, `ServerExitProofs` | `EntriesValid`, `LimitHolds` | `NoStaleEntry`, `LimitKept` |
| | `NothingOrphaned` | `NoOrphan` |
| | `QuietDone`, `FirstReleased` | `QuietWhenDone`, `FirstUseReleased`, if `~EndInCallback` |
| `PollerProofs` | `TablesKept`, `EnsuresKept` | `TablesAgree`, `EnsuresHold` |
| | `NothingDangles` | `NoDanglingUse`, if `~ShutdownInCallback` |
| | `EventsOwn` | `OwnEvents`, if `~ShutdownInCallback` |
| | `Implementation` | `ImplementsDemultiplexer` |

Assumptions. Each module has one, named after it (`EventLoopAssumption`, ...): the
constants have their types, and what the code's constants satisfy. The bounds TLC
needs (`MaxPosts`, `MaxConns`, `MaxChannels`, ...) are only assumed to be natural
numbers. The hypotheses in the table are the conditions under which the property
is true at all: findings 2, 5 and 6 are runs in which they do not hold (a `send()`
in the low watermark's callback also upsets the hysteresis).

Each proof finds an inductive invariant `IInv`, which TLC has checked on the
instance of the run, shows that `Init` establishes it and that every action keeps
it (one lemma per action, `StepIInv` or `StepKeeps` puts them together), and
derives the properties.

### EventLoop

`NoLostWakeup` speaks of a Runner in `epoll_wait` and is not inductive: the Runner
gets there from places where the property says nothing. `IInv` adds

* `TasksWake`: wherever the Runner may still block before it takes the queued
  closures, an eventfd notification is on the ready list or a thread holds the
  mutex and is about to write it. The wakeup handler empties the counter, but
  only between the wait and the swap, where the swap takes the closures anyway.
* `ShutWakes`: the same for `shut_`. It needs less, because `run()` tests `shut_`
  before every wait.
* `Ranks`: `InOrderOnce` element by element, which lets the provers reason about
  pushes and pops without concatenation; `QueueIsSpan` recovers the whole.
* `Phases`: a batch exists only while its closures are run, so a swap never
  overwrites one; and `run()` is in its drain only when shut down.

`ExitDrained` follows because only `Drain` with an empty queue and, by `Phases`, an
empty batch leads to `exited`. `InlineOnThread` has an invariant of its own: only
the owner of `thread_id_` starts an inline closure, and `run()` changes it once.
`Implementation` is a case split: `Push` is
`Submit`, running a closure is `RunNext`, the final `Drain` is `Close`, and the two
swaps are stutters because they leave `batch \o tasks` as it is.

### TimerManager

`ThreadKnows` says what the timer thread may rely on from its look at the schedule
to the end of its wait: that it is empty, or that nothing is due before the
deadline. Clients that insert in between hold the mutex, so they find the thread
before its look or in the wait, where they wake it. `DueOrder` orders what has been
run, what was taken out to be run, and what is still scheduled; a timer added
later is neither earlier than now nor smaller in id. `ShutdownPhases` ties each
caller of `shutdown()` to `running_` and to the end of the thread.

### Buffer

`ReadableIsWritten` and `RoomIsForSource` join the indices: a shrink or a move to
the front copies exactly the readable cells, and `append` copies into room that
`ensure_writable_size` has made. `Shape` says what each step does to the content
(drops a prefix, adds the source, or nothing), which makes the step one of
`ByteQueue` or none.

### Conn

A handler that is cut by callbacks leaves its rest on the stack, so the invariant
says of each piece of state which frame, event or edge is going to repair it:

* `Phases`: which of six phases the connection is in, and what each holds.
* `Reported`: an event that waits to be dispatched belongs to the Channel there
  is, or the connection is closed; `Layout`: where on the stack a write loop and
  the frames of the low watermark can be.
* `Writing`, `Edges`: while there are bytes to write or to read there is an edge,
  an undispatched event, a full socket, or a frame that goes on.
* `Marks`, `LoopHasChannel`: the flag lags behind the buffer only under a
  watermark's callback, and a write loop that is going to find the buffer empty
  has its Channel. Both depend on what the low callback may call (`LowOps`).

`ConnProofs` has the calls and closures, `ConnEventProofs` the event handlers, the
kernel, the peer and the theorems.

### Server

`NoOrphan` and `FirstUseReleased` are about the end of a protocol between the
closer, the sub loops and the main loop. `IInv` follows it:

* `Waiting`: at most one closure that the closer waits for is in any queue or
  being run, and none when it does not wait; so when the closer goes on to stop a
  loop, nothing of its own is left there.
* `CloserPhases`, `Ended`: what is already shut at each place the closer can be, and
  that a loop ends after it is stopped and with an empty queue. A connection
  callback may still be in progress until the acceptor's closure has been run on
  the main loop, so `AcceptorDown` separates the two halves.
* `Accounted`: every open connection has its entry, or an earlier one used its
  descriptor, or the closer has it among those to clean up, or its cleanup is
  queued. The second case is finding 3, which is why `AllReleased` is not a theorem
  and `FirstUseReleased` is.
* `Handles`: a descriptor in the accepted batch belongs to no open connection, and
  of the connections that used a descriptor only the last can have it.
* `Alone`: in `kAllOneThread` no queue is used, and every connection that is not
  closed has its entry; with `~EndInCallback` nothing is being accepted any more
  when the shutdown is through.

`ServerProofs` has the invariant and the steps of accepting and closing,
`ServerExitProofs` the closures, the closer, `kAllOneThread`'s shutdown and the
theorems. `EntriesValid`, `NothingOrphaned` and `LimitHolds` hold for either value of
`ExitBeforeRun` and `EndInCallback`; that a shutdown before `run()` hangs is a matter
of liveness only. `LimitHolds` has an invariant of its own, `LimitInv`: between the
two locks of `on_new_connection_` there is still room for one entry, because only
the main thread makes entries and all others remove them.

### Poller

`Good` says of the tables what `TablesAgree` says, and why it stays true: a Channel
waits for something exactly as long as its owner has both it and its descriptor
(`GoodChan`), so a descriptor that is closed is in no table (`GoodFd`) when the
kernel gives it out again. It is a predicate of the record `st`, so each operation
on Channels is a lemma (a good record stays good), and an action's proof composes
them. `Rounds` has the rest: a Channel has at most one turn left in
`active_channels_`, and the one whose callbacks are running has none; its read
callback is the first of them; outside dispatch nothing is active or running; and
only Channels that ask for nothing wait to be freed. `Safe` adds `NoDanglingUse` and
`OwnEvents`, which hold because during dispatch nothing but `Acceptor`'s shutdown and
a failed or completed connection attempt frees a Channel at once, and the attempt's
is the running one, which has no turn left.

### Only model-checked

* Liveness: `PostedIsRun`, `ShutdownEndsRun`, `TimerRuns`, `OutputDrained`,
  `ShutdownCloses`, `ConnectAnswered`, `GrowthEnds`, `ExitReturns`, `RunReturns`. They rest on fairness
  and `ENABLED`, which are out of TLAPS's reach.
* The properties of the violation runs, which do not hold.

## 5. Findings

1. `timer.cc:61`: `shutdown()` stores `running_` and notifies without the mutex;
   between the timer thread's predicate and its wait the notification is lost,
   and the join does not return.
2. `conn.cc:417`: after the low-watermark callback `channel_` is used without a
   test; a `close()` in the callback, or a `send()` that finds the connection
   reset, has released it.
3. `server.cc:309`: a connection that reuses a descriptor while its last owner
   is being closed is erased from `conns_` instead of that owner.
4. `acceptor.cc:55`: `shutdown()` or `close()` between `start()` and `run()` waits for
   a closure of the main poll, and `run()`, finding `started_` cleared, does not
   enter it.
5. `acceptor.cc:105`: in `kAllOneThread` a `close()` in the connection callback, or a
   `shutdown()` there with no connection left, is through before the rest of the
   accepted batch is entered into `conns_`; nobody closes these connections.
6. `acceptor.cc:73`: an Acceptor that is shut down in a callback, as
   `kAllOneThread` allows, destroys its Channel while the round that is being
   dispatched still holds its address, or while its own read callback is running.
   `Conn` leaves its Channel to a closure.

Each is a run that is violated; the passing run beside it leaves the case out, by a
constant or by asking for less.

Two more are exceptions that a passing property states:

* `io_event_poll.cc:60`: `run()` takes the loop over from the thread that
  constructed it, while that thread may be inside a closure it was allowed to run
  inline (`MustInIOThread`). `Server::start` constructs sub polls on the main
  thread.
* `conn.cc:119`: a refused asynchronous connect arrives as an error event, for which
  the attempt's `Channel` has no callback: neither callback of `connect` is called
  (`ConnectAnswered`).

Also noticed, without a run:

* `io_event_poll.cc:81`: of two threads in `shutdown()` one returns while the other
  still joins the timer thread.
* `io_event_poll.cc:55`: what is queued when a loop driven by `poll()` is shut down is
  not run.
* `server.cc:300`: in `kAllOneThread` `close()` on another thread waits for a closure
  of a poll that `poll()` no longer enters.
* `server.cc:335`: the error callback for a connection over the limit runs with
  `conns_mutex_` held.
* `server.cc:122`: a shutdown timeout of 0 waits for ever in `kAllOneThread` and
  not at all in `kOnePollPerThread`.
* `buffer.h:116`: a moved-from Buffer doubles 0 for ever when it has to grow.
* `buffer.h:146` shrinks at exactly 16KB of idle space where the comment above it
  says "more than 16KB".

## 6. Not modelled

* The destructors of `Server`, `IOEventPoll` and `Conn`. Of object lifetimes only
  those of Channels are modelled, in `Poller`.
* The macOS platform layer with its wakeup pipe: `EventLoop` has the eventfd of
  the Linux build, which is the harder case, being edge-triggered. `accept` and
  `connect` have the same outcomes on both.
* `shutdown()` of the pollers, which nothing calls.
* `Platform`, `sock.h`, `ensure.h`: thin wrappers, constants and macros. The
  conditions of `ENSURE` are stated as properties where they are used.
* The examples, which are applications of the library.

## 7. Plan

1. A composition of `EventLoop` and `Conn`'s closures through `TaskExecutor`, so
   that the order of sends from several threads is a theorem of the two.
2. The polls of `Server` as instances of `TaskExecutor`, which `EventLoop` is proved
   to implement.
