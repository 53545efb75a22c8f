---------------------------- MODULE TimerManager ----------------------------
(***************************************************************************)
(* TimerManager (cxpnet/timer.{h,cc}): one-shot timers kept in a schedule, *)
(* the thread that runs their callbacks, and the threads that add and      *)
(* cancel timers and shut the manager down.                                *)
(*                                                                         *)
(* A critical section of a client is one step.  Those of the timer thread  *)
(* are split wherever running_, which is changed without the mutex, is     *)
(* read, and a wait on the condition variable is split into the evaluation *)
(* of its predicate, the moment the thread starts to block, and the moment *)
(* it has the mutex again.                                                 *)
(***************************************************************************)
EXTENDS Naturals, Sequences

CONSTANTS
  Clients,    \* threads that call the manager
  Delays,     \* values of delay_ms
  MaxTimers,  \* bound: timers ever added
  MaxNow      \* bound: last value of the clock

ASSUME TimerAssumption ==
  /\ Delays \subseteq Nat
  /\ MaxTimers \in Nat
  /\ MaxNow \in Nat

VARIABLES
  running,    \* running_
  now,        \* steady_clock
  due,        \* expire_time_ of the timers ever added; DOMAIN due: their ids
  timers,     \* timers_: the ids it knows
  schedule,   \* schedule_ and its index scheduled_timers_: the ids in them
  tpc,        \* where the timer thread is
  deadline,   \* earliest_expire_time
  snap,       \* now, as read by timer_thread_func_
  expired,    \* expired_callbacks that have not been run, by id
  fired,      \* history: ids of the callbacks run, in order
  cancelled,  \* history: ids whose cancel_timer found them
  cpc         \* where each client is in shutdown()

vars == <<running, now, due, timers, schedule, tpc, deadline, snap, expired,
          fired, cancelled, cpc>>

Ids == DOMAIN due

\* Where the timer thread holds mutex_.
Locked == {"pred1", "block1", "chk1", "pred2", "block2", "chk2", "extract"}

ThreadLabels == Locked \cup
  {"top", "lock1", "wait1", "lock2", "wait2", "run", "cb", "done"}

ClientLabels == {"idle", "notify", "join", "clear", "down"}

TypeOK ==
  /\ running \in BOOLEAN
  /\ now \in Nat
  /\ due \in Seq(Nat)
  /\ timers \in SUBSET Ids
  /\ schedule \in SUBSET Ids
  /\ tpc \in ThreadLabels
  /\ deadline \in Nat
  /\ snap \in Nat
  /\ expired \in Seq(Ids)
  /\ fired \in Seq(Ids)
  /\ cancelled \in SUBSET Ids
  /\ cpc \in [Clients -> ClientLabels]

Init ==
  /\ running = TRUE
  /\ now = 0
  /\ due = <<>>
  /\ timers = {}
  /\ schedule = {}
  /\ tpc = "top"
  /\ deadline = 0
  /\ snap = 0
  /\ expired = <<>>
  /\ fired = <<>>
  /\ cancelled = {}
  /\ cpc = [c \in Clients |-> "idle"]

MutexFree == tpc \notin Locked

\* cv_.notify_one() or notify_all(): the timer thread is the only waiter.
Wake(pc) ==
  CASE pc = "wait1" -> "lock1"
    [] pc = "wait2" -> "lock2"
    [] OTHER -> pc

-----------------------------------------------------------------------------
(* The clients.                                                            *)

\* The expiry of a Timer made now.
ExpireTime(delay) == now + delay

\* Mutant: add_timer does not notify.
AddTimerSilently(c, delay) ==
  LET id == Len(due) + 1 IN
  /\ cpc[c] = "idle"
  /\ MutexFree
  /\ running
  /\ Len(due) < MaxTimers
  /\ now + delay <= MaxNow
  /\ due' = Append(due, ExpireTime(delay))
  /\ schedule' = schedule \cup {id}
  /\ timers' = timers \cup {id}
  /\ UNCHANGED <<running, now, tpc, deadline, snap, expired, fired, cancelled,
                 cpc>>

\* add_timer; a manager that is not running refuses and changes nothing.
AddTimer(c, delay) ==
  LET id == Len(due) + 1 IN
  /\ cpc[c] = "idle"
  /\ MutexFree
  /\ running
  /\ Len(due) < MaxTimers
  /\ now + delay <= MaxNow
  /\ due' = Append(due, ExpireTime(delay))
  /\ schedule' = schedule \cup {id}
  /\ timers' = timers \cup {id}
  /\ tpc' = Wake(tpc)
  /\ UNCHANGED <<running, now, deadline, snap, expired, fired, cancelled, cpc>>

\* Mutant: the entry in schedule_ stays.
CancelTimerHalf(c, id) ==
  /\ cpc[c] = "idle" /\ MutexFree /\ running
  /\ id \in timers
  /\ timers' = timers \ {id}
  /\ cancelled' = cancelled \cup {id}
  /\ tpc' = Wake(tpc)
  /\ UNCHANGED <<running, now, due, schedule, deadline, snap, expired, fired,
                 cpc>>

\* Mutant: the timer is marked only, with a mark nobody looks at.
CancelTimerMark(c, id) ==
  /\ cpc[c] = "idle" /\ MutexFree /\ running
  /\ id \in timers
  /\ cancelled' = cancelled \cup {id}
  /\ UNCHANGED <<running, now, due, timers, schedule, tpc, deadline, snap,
                 expired, fired, cpc>>

\* cancel_timer of a timer that is still known; any other id is ignored.
CancelTimer(c, id) ==
  /\ cpc[c] = "idle"
  /\ MutexFree
  /\ running
  /\ id \in timers
  /\ schedule' = schedule \ {id}
  /\ timers' = timers \ {id}
  /\ cancelled' = cancelled \cup {id}
  /\ tpc' = Wake(tpc)
  /\ UNCHANGED <<running, now, due, deadline, snap, expired, fired, cpc>>

\* shutdown(): the exchange, which only the first caller gets past ...
ShutdownExchange(c) ==
  /\ cpc[c] = "idle"
  /\ running
  /\ running' = FALSE
  /\ cpc' = [cpc EXCEPT ![c] = "notify"]
  /\ UNCHANGED <<now, due, timers, schedule, tpc, deadline, snap, expired,
                 fired, cancelled>>

\* ... the notification, for which mutex_ is not taken ...
ShutdownNotify(c) ==
  /\ cpc[c] = "notify"
  /\ tpc' = Wake(tpc)
  /\ cpc' = [cpc EXCEPT ![c] = "join"]
  /\ UNCHANGED <<running, now, due, timers, schedule, deadline, snap, expired,
                 fired, cancelled>>

\* Mutant: the thread is detached.
ShutdownDetach(c) ==
  /\ cpc[c] = "join"
  /\ cpc' = [cpc EXCEPT ![c] = "clear"]
  /\ UNCHANGED <<running, now, due, timers, schedule, tpc, deadline, snap,
                 expired, fired, cancelled>>

\* ... timer_thread_.join() ...
ShutdownJoin(c) ==
  /\ cpc[c] = "join"
  /\ tpc = "done"
  /\ cpc' = [cpc EXCEPT ![c] = "clear"]
  /\ UNCHANGED <<running, now, due, timers, schedule, tpc, deadline, snap,
                 expired, fired, cancelled>>

\* ... and the maps are emptied.
ShutdownClear(c) ==
  /\ cpc[c] = "clear"
  /\ MutexFree
  /\ timers' = {}
  /\ schedule' = {}
  /\ cpc' = [cpc EXCEPT ![c] = "down"]
  /\ UNCHANGED <<running, now, due, tpc, deadline, snap, expired, fired,
                 cancelled>>

-----------------------------------------------------------------------------
(* The timer thread.                                                       *)

clientVars == <<running, now, due, cancelled, cpc>>
timerVars  == <<timers, schedule>>
firedVars  == <<expired, fired>>

\* The head of the while loop.
Top ==
  /\ tpc = "top"
  /\ tpc' = IF running THEN "lock1" ELSE "done"
  /\ UNCHANGED <<clientVars, timerVars, firedVars, deadline, snap>>

\* The mutex is taken, at first or on the way out of a wait.  A wait that is
\* past its deadline then counts as timed out, and its predicate is not asked
\* again.
Lock ==
  /\ tpc \in {"lock1", "lock2"}
  /\ tpc' = CASE tpc = "lock1" -> "pred1"
              [] tpc = "lock2" /\ now < deadline -> "pred2"
              [] tpc = "lock2" /\ now >= deadline -> "chk2"
  /\ UNCHANGED <<clientVars, timerVars, firedVars, deadline, snap>>

\* Mutant: any wakeup is taken for a timer.
Pred1Any ==
  /\ tpc = "pred1"
  /\ tpc' = "chk1"
  /\ UNCHANGED <<clientVars, timerVars, firedVars, deadline, snap>>

\* The predicate of the first wait.
Pred1 ==
  /\ tpc = "pred1"
  /\ tpc' = IF ~running \/ schedule # {} THEN "chk1" ELSE "block1"
  /\ UNCHANGED <<clientVars, timerVars, firedVars, deadline, snap>>

\* The predicate was false: the thread gives up the mutex and sleeps.
Block ==
  /\ tpc \in {"block1", "block2"}
  /\ tpc' = IF tpc = "block1" THEN "wait1" ELSE "wait2"
  /\ UNCHANGED <<clientVars, timerVars, firedVars, deadline, snap>>

\* A wait may end without a notification.
Spurious ==
  /\ tpc \in {"wait1", "wait2"}
  /\ tpc' = Wake(tpc)
  /\ UNCHANGED <<clientVars, timerVars, firedVars, deadline, snap>>

\* id is schedule_.begin(): the map is ordered by time and, for equal times,
\* by insertion.
Before(i, j) == due[i] < due[j] \/ (due[i] = due[j] /\ i < j)

\* Mutant: schedule_ is not ordered.
IsAny(id) == id \in schedule

IsFirst(id) == id \in schedule /\ \A j \in schedule : j = id \/ Before(id, j)

\* running_ is read again; then the earliest time.
Chk1 ==
  /\ tpc = "chk1"
  /\ IF running
     THEN \E id \in schedule :
            /\ IsFirst(id)
            /\ deadline' = due[id]
            /\ tpc' = "pred2"
     ELSE /\ tpc' = "done"
          /\ UNCHANGED deadline
  /\ UNCHANGED <<clientVars, timerVars, firedVars, snap>>

\* The predicate of the second wait.
Pred2 ==
  /\ tpc = "pred2"
  /\ tpc' = IF ~running \/ schedule = {} \/ \E id \in schedule : due[id] < deadline
            THEN "chk2"
            ELSE "block2"
  /\ UNCHANGED <<clientVars, timerVars, firedVars, deadline, snap>>

\* The second wait reaches its deadline.
Timeout ==
  /\ tpc = "wait2"
  /\ now >= deadline
  /\ tpc' = "lock2"
  /\ UNCHANGED <<clientVars, timerVars, firedVars, deadline, snap>>

\* running_ is read again; then the time.
Chk2 ==
  /\ tpc = "chk2"
  /\ tpc' = IF running THEN "extract" ELSE "done"
  /\ snap' = IF running THEN now ELSE snap
  /\ UNCHANGED <<clientVars, timerVars, firedVars, deadline>>

\* One turn of the extraction loop.
Extract(id) ==
  /\ tpc = "extract"
  /\ IsFirst(id)
  /\ due[id] <= snap
  /\ schedule' = schedule \ {id}
  /\ timers' = timers \ {id}
  /\ expired' = IF id \in timers THEN Append(expired, id) ELSE expired
  /\ UNCHANGED <<clientVars, fired, tpc, deadline, snap>>

\* The loop is over and the mutex released.
ExtractDone ==
  /\ tpc = "extract"
  /\ \A id \in schedule : due[id] > snap
  /\ tpc' = "run"
  /\ UNCHANGED <<clientVars, timerVars, firedVars, deadline, snap>>

\* The next callback starts.
RunCallback ==
  /\ tpc = "run"
  /\ running
  /\ expired # <<>>
  /\ fired' = Append(fired, Head(expired))
  /\ expired' = Tail(expired)
  /\ tpc' = "cb"
  /\ UNCHANGED <<clientVars, timerVars, deadline, snap>>

CallbackReturns ==
  /\ tpc = "cb"
  /\ tpc' = "run"
  /\ UNCHANGED <<clientVars, timerVars, firedVars, deadline, snap>>

\* All have run, or the manager is being shut down and the rest is dropped.
RunDone ==
  /\ tpc = "run"
  /\ ~running \/ expired = <<>>
  /\ expired' = <<>>
  /\ tpc' = "top"
  /\ UNCHANGED <<clientVars, timerVars, fired, deadline, snap>>

Tick ==
  /\ now < MaxNow
  /\ now' = now + 1
  /\ UNCHANGED <<running, due, timers, schedule, tpc, deadline, snap, expired,
                 fired, cancelled, cpc>>

-----------------------------------------------------------------------------
ThreadStep ==
  \/ Top
  \/ Lock
  \/ Pred1
  \/ Block
  \/ Chk1
  \/ Pred2
  \/ Timeout
  \/ Chk2
  \/ \E id \in schedule : Extract(id)
  \/ ExtractDone
  \/ RunCallback
  \/ CallbackReturns
  \/ RunDone

ShutdownStep(c) == ShutdownNotify(c) \/ ShutdownJoin(c) \/ ShutdownClear(c)

Call(c) ==
  \/ \E delay \in Delays : AddTimer(c, delay)
  \/ \E id \in timers : CancelTimer(c, id)
  \/ ShutdownExchange(c)

Next ==
  \/ \E c \in Clients : Call(c) \/ ShutdownStep(c)
  \/ ThreadStep
  \/ Spurious
  \/ Tick

Spec == Init /\ [][Next]_vars

\* Time passes and every thread is scheduled; a wakeup without a
\* notification may happen but cannot be counted on.
Fairness ==
  /\ WF_vars(ThreadStep)
  /\ WF_vars(Tick)
  /\ \A c \in Clients : WF_vars(ShutdownStep(c))

FairSpec == Spec /\ Fairness

-----------------------------------------------------------------------------
(* Properties.                                                             *)

\* schedule_.begin() is dereferenced only when there is an element: running_
\* may be cleared between the predicate and its second test, never set.
BeginIsValid == (tpc = "chk1" /\ running) => schedule # {}

\* timers_ and schedule_ hold the same timers: no entry of the one outlives
\* its entry in the other, through adds, cancels, extractions and shutdown.
SameTimers == TypeOK /\ schedule = timers

\* The thread never sleeps past a timer: blocked without a deadline it has
\* none, blocked with one none is earlier.  Every insertion while it sleeps
\* has to wake it.
NoTimerOverslept ==
  /\ tpc = "wait1" => schedule = {}
  /\ tpc = "wait2" => \A id \in schedule : due[id] >= deadline

\* A timer that cancel_timer found is never run, however close its time was:
\* the close timeout of a connection cannot hit after it was cancelled there.
CancelledNeverRuns ==
  \A id \in cancelled :
    /\ \A i \in DOMAIN fired : fired[i] # id
    /\ \A i \in DOMAIN expired : expired[i] # id

\* Callbacks run at most once, not before their time, and over the whole life
\* of the manager in the order of their times.
RunInDueOrder ==
  LET all == fired \o expired IN
  /\ \A i \in DOMAIN all : due[all[i]] <= now
  /\ \A i, j \in DOMAIN all : i < j => Before(all[i], all[j])

\* After shutdown() has returned to the caller that performed it, no callback
\* runs or starts, and nothing is left to run.
QuietAfterShutdown ==
  (\E c \in Clients : cpc[c] = "down") =>
    tpc = "done" /\ expired = <<>> /\ schedule = {} /\ timers = {}

\* A timer runs, unless it is cancelled or the manager shut down, without
\* the help of spurious wakeups or of later calls.
TimerRuns ==
  \A id \in 1..MaxTimers :
    id \in Ids ~>
      \/ \E i \in DOMAIN fired : fired[i] = id
      \/ id \in cancelled
      \/ ~running

\* shutdown() returns.
ShutdownReturns ==
  \A c \in Clients : cpc[c] = "notify" ~> cpc[c] = "down"
=============================================================================
