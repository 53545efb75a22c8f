----------------------------- MODULE EventLoop -----------------------------
(***************************************************************************)
(* IOEventPoll (cxpnet/io_event_poll.{h,cc}): the reactor loop of one      *)
(* thread, the queue through which other threads hand it closures, the     *)
(* eventfd that wakes it from epoll_wait, and its shutdown.                *)
(*                                                                         *)
(* Closures are named by their rank in posting order.  The channels of     *)
(* connections and listeners are abstracted to one "io" event that may be  *)
(* reported at any time and whose callback may call back into the loop.    *)
(*                                                                         *)
(* Several steps of one thread are separate actions exactly where another  *)
(* thread can observe the difference: between the load and the store of    *)
(* shut_, between the push on tasks_ and the write to the eventfd, between *)
(* the test of thread_id_ and the closure that runs because of it.         *)
(***************************************************************************)
EXTENDS Naturals, Sequences, FiniteSets

CONSTANTS
  Threads,   \* the threads of the program that use this IOEventPoll
  Owners,    \* the threads that may have run the constructor
  Runner,    \* the thread that calls poll(), again and again, or run()
  MaxPosts   \* bound: closures that are ever queued

ASSUME EventLoopAssumption ==
  /\ Owners \subseteq Threads
  /\ Runner \in Threads
  /\ MaxPosts \in Nat

VARIABLES
  tasks,     \* tasks_: closures posted and not yet taken, guarded by mutex_
  batch,     \* tmp_tasks: closures the Runner has taken and not yet run
  posted,    \* history: number of closures pushed on tasks_
  lastRun,   \* history: rank of the closure the Runner ran last
  shut,      \* shut_
  threadId,  \* thread_id_
  inRun,     \* run() was called
  loop,      \* where the Runner is in run()/poll()/poll_()
  active,    \* active_channels_ not yet handled, of {"wakeup", "io"}
  perr,      \* err of poll_(): "none", "EINTR" or "other"
  counter,   \* kernel: the eventfd's counter is not zero
  edge,      \* kernel: the eventfd is on epoll's ready list (EPOLLET)
  pc         \* where each thread is in a call of the public interface

vars == <<tasks, batch, posted, lastRun, shut, threadId, inRun, loop,
          active, perr, counter, edge, pc>>

\* Where the Runner executes code of the application or of a connection:
\* before run(), between two poll()s or after run() ("init", "exited"), in
\* the callback of a channel, in a closure, or in the error callback.
InCallback == {"init", "iocb", "task", "drainTask", "onerr", "exited"}

LoopLabels == InCallback \cup
  {"check", "wait", "dispatch", "swap", "exec", "drain", "drainExec"}

PcLabels == {"idle", "inline", "push", "notify", "shutStore", "shutNotify"}

TypeOK ==
  /\ tasks \in Seq(Nat)
  /\ batch \in Seq(Nat)
  /\ posted \in Nat
  /\ lastRun \in Nat
  /\ shut \in BOOLEAN
  /\ threadId \in Threads
  /\ inRun \in BOOLEAN
  /\ loop \in LoopLabels
  /\ active \in SUBSET {"wakeup", "io"}
  /\ perr \in {"none", "EINTR", "other"}
  /\ counter \in BOOLEAN
  /\ edge \in BOOLEAN
  /\ pc \in [Threads -> PcLabels]

\* The constructor: registers the wakeup channel, records the thread.
Init ==
  /\ tasks = <<>>
  /\ batch = <<>>
  /\ posted = 0
  /\ lastRun = 0
  /\ shut = FALSE
  /\ threadId \in Owners
  /\ inRun = FALSE
  /\ loop = "init"
  /\ active = {}
  /\ perr = "none"
  /\ counter = FALSE
  /\ edge = FALSE
  /\ pc = [t \in Threads |-> "idle"]

-----------------------------------------------------------------------------
(* The calls any thread can make.                                          *)

queueVars == <<tasks, batch, posted, lastRun>>
loopVars  == <<threadId, inRun, loop, active, perr>>

\* A thread can start a call when it is not inside another one; the Runner,
\* when it is executing a callback.
CanCall(t) ==
  /\ pc[t] = "idle"
  /\ t = Runner => loop \in InCallback

Goto(t, label) == pc' = [pc EXCEPT ![t] = label]

\* mutex_ is held from a push to the end of the notification that follows
\* it; every other critical section is a single step.
MutexFree == \A t \in Threads : pc[t] # "notify"

\* is_in_poll_thread(), a plain read of thread_id_.
IsInPollThread(t) == threadId = t

\* Platform::wakeup_write: the counter becomes positive and, the eventfd
\* being registered with EPOLLET, each write puts it on the ready list.
NotifyWakeup ==
  /\ counter' = TRUE
  /\ edge' = TRUE

\* The bound: closures that were posted or are about to be.
MayPost == posted + Cardinality({t \in Threads : pc[t] = "push"}) < MaxPosts

\* Mutant: the closure is run without looking at the thread.
RunInPollAnywhere(t) ==
  /\ CanCall(t)
  /\ Goto(t, "inline")
  /\ UNCHANGED <<queueVars, shut, loopVars, counter, edge>>

\* run_in_poll, on the poll thread: the closure is run at once.
RunInPollInline(t) ==
  /\ CanCall(t)
  /\ IsInPollThread(t)
  /\ Goto(t, "inline")
  /\ UNCHANGED <<queueVars, shut, loopVars, counter, edge>>

\* ... and the closure returns.
InlineReturns(t) ==
  /\ pc[t] = "inline"
  /\ Goto(t, "idle")
  /\ UNCHANGED <<queueVars, shut, loopVars, counter, edge>>

\* run_in_poll from elsewhere: the closure has to be queued.
RunInPollQueued(t) ==
  /\ CanCall(t)
  /\ MayPost
  /\ ~IsInPollThread(t)
  /\ Goto(t, "push")
  /\ UNCHANGED <<queueVars, shut, loopVars, counter, edge>>

\* run_later queues on whatever thread it is called.
RunLater(t) ==
  /\ CanCall(t)
  /\ MayPost
  /\ Goto(t, "push")
  /\ UNCHANGED <<queueVars, shut, loopVars, counter, edge>>

\* Mutant: the notification is forgotten.
PushSilently(t) ==
  /\ pc[t] = "push"
  /\ MutexFree
  /\ tasks' = Append(tasks, posted + 1)
  /\ posted' = posted + 1
  /\ Goto(t, "idle")
  /\ UNCHANGED <<batch, lastRun, shut, loopVars, counter, edge>>

\* lock_guard; tasks_.push_back(func)
Push(t) ==
  /\ pc[t] = "push"
  /\ MutexFree
  /\ tasks' = Append(tasks, posted + 1)
  /\ posted' = posted + 1
  /\ Goto(t, "notify")
  /\ UNCHANGED <<batch, lastRun, shut, loopVars, counter, edge>>

\* notify_wakeup_() with the lock still held; then the lock is released.
Notify(t) ==
  /\ pc[t] = "notify"
  /\ NotifyWakeup
  /\ Goto(t, "idle")
  /\ UNCHANGED <<queueVars, shut, loopVars>>

\* shutdown(): the first test.  Two threads may both pass it.
ShutdownLoad(t) ==
  /\ CanCall(t)
  /\ ~shut
  /\ Goto(t, "shutStore")
  /\ UNCHANGED <<queueVars, shut, loopVars, counter, edge>>

ShutdownStore(t) ==
  /\ pc[t] = "shutStore"
  /\ shut' = TRUE
  /\ Goto(t, "shutNotify")
  /\ UNCHANGED <<queueVars, loopVars, counter, edge>>

\* Mutant: shutdown() relies on the timeout of epoll_wait.
ShutdownSilently(t) ==
  /\ pc[t] = "shutNotify"
  /\ Goto(t, "idle")
  /\ UNCHANGED <<queueVars, shut, loopVars, counter, edge>>

\* timer_manager_->shutdown() has returned; the loop is woken.
ShutdownNotify(t) ==
  /\ pc[t] = "shutNotify"
  /\ NotifyWakeup
  /\ Goto(t, "idle")
  /\ UNCHANGED <<queueVars, shut, loopVars>>

-----------------------------------------------------------------------------
(* The Runner.                                                             *)

\* The Runner goes on with its loop when it is not inside a call.
AtLoop(label) ==
  /\ loop = label
  /\ pc[Runner] = "idle"

\* The end of poll_(): back to the head of run()'s loop, or out of poll().
AfterPoll == IF inRun THEN "check" ELSE "init"

\* run() is called: it claims the loop for the calling thread.
RunStart ==
  /\ AtLoop("init")
  /\ threadId' = Runner
  /\ inRun' = TRUE
  /\ loop' = "check"
  /\ UNCHANGED <<queueVars, shut, active, perr, counter, edge, pc>>

\* poll() is called; on a loop that was shut down it returns at once, and on
\* a thread that is not the loop's the poller aborts.
PollStart ==
  /\ AtLoop("init")
  /\ ~shut
  /\ IsInPollThread(Runner)
  /\ loop' = "wait"
  /\ UNCHANGED <<queueVars, shut, threadId, inRun, active, perr, counter,
                 edge, pc>>

\* The head of run()'s loop.
Check ==
  /\ AtLoop("check")
  /\ loop' = IF shut THEN "drain" ELSE "wait"
  /\ UNCHANGED <<queueVars, shut, threadId, inRun, active, perr, counter,
                 edge, pc>>

\* epoll would report the eventfd: it is listed, and still readable.
WakeupReady == edge /\ counter

\* epoll_wait returns with events: the eventfd's, and perhaps others.  The
\* ready list is consumed.
WaitEvents ==
  /\ AtLoop("wait")
  /\ active' \in {{"wakeup"}, {"io"}, {"wakeup", "io"}}
  /\ "wakeup" \in active' <=> WakeupReady
  /\ edge' = FALSE
  /\ loop' = "dispatch"
  /\ UNCHANGED <<queueVars, shut, threadId, inRun, perr, counter, pc>>

\* epoll_wait returns without events: its time (0 for poll()) is over.
WaitTimeout ==
  /\ AtLoop("wait")
  /\ ~WakeupReady
  /\ edge' = FALSE
  /\ loop' = "dispatch"
  /\ UNCHANGED <<queueVars, shut, threadId, inRun, active, perr, counter,
                 pc>>

\* epoll_wait fails; poll_() remembers errno and goes on.
WaitError ==
  /\ AtLoop("wait")
  /\ ~WakeupReady
  /\ perr' \in {"EINTR", "other"}
  /\ loop' = "dispatch"
  /\ UNCHANGED <<queueVars, shut, threadId, inRun, active, counter, edge, pc>>

\* The wakeup channel's read callback: handle_wakeup_() empties the counter.
HandleWakeup ==
  /\ AtLoop("dispatch")
  /\ "wakeup" \in active
  /\ active' = active \ {"wakeup"}
  /\ counter' = FALSE
  /\ UNCHANGED <<queueVars, shut, threadId, inRun, loop, perr, edge, pc>>

\* Another channel's handle_event() starts ...
HandleIo ==
  /\ AtLoop("dispatch")
  /\ "io" \in active
  /\ active' = active \ {"io"}
  /\ loop' = "iocb"
  /\ UNCHANGED <<queueVars, shut, threadId, inRun, perr, counter, edge, pc>>

\* ... and ends.
IoReturns ==
  /\ AtLoop("iocb")
  /\ loop' = "dispatch"
  /\ UNCHANGED <<queueVars, shut, threadId, inRun, active, perr, counter,
                 edge, pc>>

\* Every active channel has been handled.
DispatchDone ==
  /\ AtLoop("dispatch")
  /\ active = {}
  /\ loop' = "swap"
  /\ UNCHANGED <<queueVars, shut, threadId, inRun, active, perr, counter,
                 edge, pc>>

\* Mutant: tasks_ is copied, not swapped.
CopyTasks ==
  /\ batch' = tasks
  /\ UNCHANGED <<tasks, posted, lastRun>>

\* tasks_.swap(tmp_tasks) under the lock.
TakeTasks ==
  /\ batch' = tasks
  /\ tasks' = <<>>
  /\ UNCHANGED <<posted, lastRun>>

Swap ==
  /\ AtLoop("swap")
  /\ MutexFree
  /\ TakeTasks
  /\ loop' = "exec"
  /\ UNCHANGED <<shut, threadId, inRun, active, perr, counter, edge, pc>>

\* func() of the next closure starts; in poll_() or in the final drain.
RunTask(from, to) ==
  /\ AtLoop(from)
  /\ batch # <<>>
  /\ lastRun' = Head(batch)
  /\ batch' = Tail(batch)
  /\ loop' = to
  /\ UNCHANGED <<tasks, posted, shut, threadId, inRun, active, perr,
                 counter, edge, pc>>

ExecTask  == RunTask("exec", "task")
DrainTask == RunTask("drainExec", "drainTask")

\* ... and returns.
TaskReturns ==
  /\ AtLoop("task") \/ AtLoop("drainTask")
  /\ loop' = IF loop = "task" THEN "exec" ELSE "drainExec"
  /\ UNCHANGED <<queueVars, shut, threadId, inRun, active, perr, counter,
                 edge, pc>>

\* The batch of poll_() is done; an error other than EINTR is reported now.
ExecDone ==
  /\ AtLoop("exec")
  /\ batch = <<>>
  /\ loop' = IF perr = "other" THEN "onerr" ELSE AfterPoll
  /\ perr' = "none"
  /\ UNCHANGED <<queueVars, shut, threadId, inRun, active, counter, edge, pc>>

\* on_err_func_ returns.
ErrorReturns ==
  /\ AtLoop("onerr")
  /\ loop' = AfterPoll
  /\ UNCHANGED <<queueVars, shut, threadId, inRun, active, perr, counter,
                 edge, pc>>

\* run() has seen shut_: it leaves if tasks_ is empty, and otherwise takes
\* what there is.
Drain ==
  /\ AtLoop("drain")
  /\ MutexFree
  /\ IF tasks = <<>>
     THEN loop' = "exited" /\ UNCHANGED queueVars
     ELSE loop' = "drainExec" /\ TakeTasks
  /\ UNCHANGED <<shut, threadId, inRun, active, perr, counter, edge, pc>>

\* Mutant: run() drains once and leaves.
DrainOnce ==
  /\ AtLoop("drainExec")
  /\ batch = <<>>
  /\ loop' = "exited"
  /\ UNCHANGED <<queueVars, shut, threadId, inRun, active, perr, counter, edge, pc>>

\* The drained batch is done: continue.
DrainDone ==
  /\ AtLoop("drainExec")
  /\ batch = <<>>
  /\ loop' = "check"
  /\ UNCHANGED <<queueVars, shut, threadId, inRun, active, perr, counter,
                 edge, pc>>

-----------------------------------------------------------------------------
\* What a thread does to finish a call it has started.
FinishCall(t) ==
  \/ InlineReturns(t)
  \/ Push(t)
  \/ Notify(t)
  \/ ShutdownStore(t)
  \/ ShutdownNotify(t)

\* What a thread may do because the application asks for it.
StartCall(t) ==
  \/ RunInPollInline(t)
  \/ RunInPollQueued(t)
  \/ RunLater(t)
  \/ ShutdownLoad(t)

\* What the Runner does of its own accord: it calls poll() again and again
\* until it calls run(), and goes on with either.  A return of epoll_wait
\* without the eventfd's event is left out where it would have to time out.
RunnerStep ==
  \/ PollStart
  \/ Check
  \/ WakeupReady /\ WaitEvents
  \/ ~inRun /\ WaitTimeout
  \/ HandleWakeup
  \/ HandleIo
  \/ IoReturns
  \/ DispatchDone
  \/ Swap
  \/ ExecTask
  \/ DrainTask
  \/ TaskReturns
  \/ ExecDone
  \/ ErrorReturns
  \/ Drain
  \/ DrainDone

Next ==
  \/ \E t \in Threads : StartCall(t) \/ FinishCall(t)
  \/ RunnerStep
  \/ RunStart
  \/ WaitEvents
  \/ WaitTimeout
  \/ WaitError

Spec == Init /\ [][Next]_vars

\* Every thread is scheduled, so a started call ends and the Runner moves on.
\* Strong fairness for the Runner says that a callback or closure returns
\* after finitely many calls, and that mutex_ is not withheld for ever.
\* Nothing is assumed about the ten-second timeout of epoll_wait or about
\* other channels: progress may not depend on them.
Fairness ==
  /\ \A t \in Threads : WF_vars(FinishCall(t))
  /\ SF_vars(RunnerStep)

FairSpec == Spec /\ Fairness

-----------------------------------------------------------------------------
(* Properties.                                                             *)

\* Where the Runner has yet to reach the swap that takes what is queued, but
\* may first block in epoll_wait.
BeforeWait == {"init", "check", "wait", "exec", "task", "onerr"}

\* No lost wakeup: the Runner never sits in epoll_wait with a closure queued
\* or shut_ set unless the eventfd is going to wake it, now or once a thread
\* that is between its store and its notify_wakeup_() gets on.  Without this
\* a closure would wait for the ten-second timeout of epoll_wait.
NoLostWakeup ==
  (loop = "wait" /\ ~WakeupReady) =>
    /\ tasks # <<>> => \E t \in Threads : pc[t] = "notify"
    /\ shut => \E t \in Threads : pc[t] = "shutNotify"

\* Every closure is run exactly once and in posting order: what was taken
\* and what is queued are together the ranks after the last one run, without
\* gap or repetition, whichever of the two swaps took them.
InOrderOnce ==
  /\ TypeOK
  /\ batch \o tasks = [i \in 1..(posted - lastRun) |-> lastRun + i]

\* run() returns only at a moment when every closure posted so far has run,
\* also those posted by closures of the final drain.
DrainedAtExit ==
  [][loop # "exited" /\ loop' = "exited" => lastRun = posted]_vars

\* ENSURE(is_in_poll_thread(), "Must in IO thread"), which the closures of
\* Conn and Acceptor execute: a closure that run_in_poll executes at once is
\* still on the loop's thread when it gets to this test.  The code leaves one
\* exception open: the thread that constructed the loop can be in such a
\* closure when run() takes the loop over for another.  There is never a third.
MustInIOThread ==
  \A t \in Threads : (pc[t] = "inline" /\ ~IsInPollThread(t)) =>
    /\ inRun /\ t \in Owners
    /\ \A u \in Threads \ {Runner} : pc[u] = "inline" => u = t

\* A closure posted before run() returns is run, without help from a timeout
\* or from other channels, also when shutdown() comes in between.  The loop has
\* to be the Runner's, which for one that another thread constructed begins
\* with run().  With poll() this holds only as long as the loop is not shut
\* down: poll() then returns at once and leaves in tasks_ what is there.
PostedIsRun ==
  \A n \in 1..MaxPosts :
    (posted >= n /\ loop # "exited" /\ IsInPollThread(Runner)) ~>
      (lastRun >= n \/ (shut /\ ~inRun))

\* shutdown() makes run() return.
ShutdownEndsRun == (shut /\ inRun) ~> loop = "exited"

\* The loop implements the queue that TaskExecutor promises.
Executor == INSTANCE TaskExecutor WITH
  queue <- batch \o tasks, closed <- (loop = "exited")

\* Seen through this mapping every step of the loop and of its callers is a
\* step of that queue: a swap moves closures without the queue noticing.
ImplementsExecutor == Executor!Spec

=============================================================================
