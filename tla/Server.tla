------------------------------- MODULE Server -------------------------------
(***************************************************************************)
(* Server (cxpnet/server.{h,cc}) with its Acceptor (acceptor.{h,cc}) and   *)
(* its PollThreadPool (poll_thread_pool.{h,cc}): accepting connections on  *)
(* the main poll, handing them to the sub polls, or keeping them there in  *)
(* the mode kAllOneThread, and taking everything down again.               *)
(*                                                                         *)
(* A poll is what TaskExecutor says of it: a queue of closures that are    *)
(* run one after the other, between events, until it is shut down and      *)
(* empty.  A connection is reduced to the steps in which the Server is     *)
(* involved.  Closing one takes two: the descriptor is closed, and then    *)
(* the Server is told; in between another thread can be given the same     *)
(* descriptor.                                                             *)
(*                                                                         *)
(* In kOnePollPerThread started_.exchange lets one caller of shutdown() or *)
(* close() through.  That one, or the exit thread that is made when the    *)
(* caller is a poll thread, is called the closer; it never is a poll       *)
(* thread itself.  In kAllOneThread they are called on the one thread      *)
(* there is, between two poll()s or in a callback, and do it all there.    *)
(*                                                                         *)
(* Two places to call them from are harmful, and the code excludes         *)
(* neither; the constants ExitBeforeRun and EndInCallback say whether the  *)
(* application calls them there.                                           *)
(***************************************************************************)
EXTENDS Naturals, Sequences, FiniteSets

CONSTANTS
  Modes,           \* of {"perThread", "oneThread"}: running_mode_
  NSubs,           \* thread_num_
  Fds,             \* descriptors the kernel hands out for connections
  MaxConnections,  \* max_connections_, 0: no limit
  Graceful,        \* shutdown_timeout_ms_ > 0
  ExitBeforeRun,   \* shutdown() and close() also come between start() and run()
  EndInCallback,   \* kAllOneThread: close(), and shutdown() when no connection
                   \* is left, also come in the connection callback
  MaxBatch,        \* bound: connections accepted in one go
  MaxConns         \* bound: Conns ever made

ASSUME ServerAssumption ==
  /\ Modes \subseteq {"perThread", "oneThread"}
  /\ NSubs \in Nat \ {0}
  /\ {MaxConnections, MaxBatch, MaxConns} \subseteq Nat
  /\ {Graceful, ExitBeforeRun, EndInCallback} \subseteq BOOLEAN

Main  == 0
Subs  == 1..NSubs
Polls == 0..NSubs

VARIABLES
  mode,       \* running_mode_
  started,    \* started_
  mpc,        \* where the main thread is in start(), run() and poll()
  listening,  \* the Acceptor has its socket and Channel
  batch,      \* accepted_handles_
  connecting, \* the Conn on_new_connection_ has put in conns_ and not started
  next,       \* next_, modulo the number of sub polls
  conn,       \* the Conns made so far: descriptor, poll and state
  conns,      \* conns_: from descriptors to Conns, 0: no entry
  loop,       \* each poll: "init", "run" or "exited"
  shut,       \* each poll's shut_
  tasks,      \* each poll's tasks_
  closing,    \* the Conn each poll thread is in do_cleanup_ of, 0: none, and
              \* whether this is the closure the closer waits for
  how,        \* what the closer was called for: "none", "shutdown", "close"
  cpc,        \* where the closer is
  todo,       \* the part of conns_snapshot it has not dealt with
  pending     \* it waits for a closure

mainVars == <<mode, started, mpc, listening, batch, connecting, next>>
pollVars == <<loop, shut, tasks, closing>>
exitVars == <<how, cpc, todo, pending>>
vars     == <<mainVars, conn, conns, pollVars, exitVars>>

Conns     == 1..Len(conn)
ConnState == {"new", "up", "half", "closing", "closed"}
MainPc    == {"init", "failed", "ready", "enter", "loop", "dispatch", "insert",
              "callback", "returned"}
CloserPc  == {"idle", "acceptor", "snapshot", "shutConns", "drain", "clear",
              "cleanConns", "stopSubs", "joinSubs", "stopMain", "done"}
Closures  == [op : {"start", "shut", "clean", "acceptor"}, c : Nat]

TypeOK ==
  /\ mode \in Modes
  /\ {started, listening, pending} \subseteq BOOLEAN
  /\ mpc \in MainPc
  /\ batch \in Seq(Fds)
  /\ connecting \in 0..Len(conn)
  /\ next \in 0..(NSubs - 1)
  /\ conn \in Seq([fd : Fds, poll : Polls, st : ConnState])
  /\ conns \in [Fds -> 0..Len(conn)]
  /\ loop \in [Polls -> {"init", "run", "exited"}]
  /\ shut \in [Polls -> BOOLEAN]
  /\ tasks \in [Polls -> Seq(Closures)]
  /\ closing \in [Polls -> [c : 0..Len(conn), sync : BOOLEAN]]
  /\ how \in {"none", "shutdown", "close"}
  /\ cpc \in CloserPc
  /\ todo \subseteq Conns

NotClosing == [c |-> 0, sync |-> FALSE]

Init ==
  /\ mode \in Modes
  /\ started = FALSE
  /\ mpc = "init"
  /\ listening = FALSE
  /\ batch = <<>>
  /\ connecting = 0
  /\ next = 0
  /\ conn = <<>>
  /\ conns = [f \in Fds |-> 0]
  /\ loop = [p \in Polls |-> "init"]
  /\ shut = [p \in Polls |-> FALSE]
  /\ tasks = [p \in Polls |-> <<>>]
  /\ closing = [p \in Polls |-> NotClosing]
  /\ how = "none"
  /\ cpc = "idle"
  /\ todo = {}
  /\ pending = FALSE

-----------------------------------------------------------------------------
(* Helpers.                                                                *)

PerThread == mode = "perThread"
OneThread == mode = "oneThread"

\* sub_polls_
SubPolls == IF PerThread THEN Subs ELSE {}

\* connection_count()
ConnectionCount == Cardinality({f \in Fds : conns[f] # 0})

Known == {conns[f] : f \in Fds} \ {0}

HasFd(c) == conn[c].st \in {"new", "up", "half"}
OpenFds  == {conn[c].fd : c \in {d \in Conns : HasFd(d)}}
            \cup {batch[i] : i \in DOMAIN batch}

SetState(c, st) == conn' = [conn EXCEPT ![c].st = st]

\* IOEventPoll::run_in_poll from a thread that is not the poll's.
Enqueue(p, op, c) ==
  tasks' = [tasks EXCEPT ![p] = Append(@, [op |-> op, c |-> c])]

\* A poll thread that can turn to its next closure or event.
Free(p) ==
  /\ loop[p] = "run"
  /\ closing[p] = NotClosing
  /\ p = Main => mpc = "loop"

\* kAllOneThread: the application's connection callback, called with the rest
\* of accepted_handles_ still to come.
InConnCallback == mpc = "callback" /\ closing[Main] = NotClosing

-----------------------------------------------------------------------------
(* The main thread: start(), run(), and the Acceptor's callback.           *)

\* Acceptor::listen
Listen == listening' = TRUE

\* start(): the pool's threads are started and the socket listens ...
Start ==
  /\ mpc = "init"
  /\ started' = TRUE
  /\ Listen
  /\ mpc' = "ready"
  /\ loop' = [loop EXCEPT ![Main] = IF OneThread THEN "run" ELSE @]
  /\ UNCHANGED <<mode, batch, connecting, next, conn, conns, shut, tasks, closing,
                 exitVars>>

\* ... or it cannot: the polls are shut down, and the pool's threads joined.
StartFails ==
  /\ mpc = "init"
  /\ mpc' = "failed"
  /\ shut' = [p \in Polls |-> p \in SubPolls]
  /\ UNCHANGED <<mode, started, listening, batch, connecting, next, conn, conns,
                 loop, tasks, closing, exitVars>>

StartReturnsFalse ==
  /\ mpc = "failed"
  /\ \A p \in SubPolls : loop[p] = "exited"
  /\ mpc' = "returned"
  /\ shut' = [shut EXCEPT ![Main] = TRUE]
  /\ UNCHANGED <<mode, started, listening, batch, connecting, next, conn, conns,
                 loop, tasks, closing, exitVars>>

\* run() looks at started_ ...
Run ==
  /\ PerThread
  /\ mpc = "ready"
  /\ mpc' = IF started THEN "enter" ELSE "returned"
  /\ UNCHANGED <<mode, started, listening, batch, connecting, next, conn, conns,
                 pollVars, exitVars>>

\* ... and enters the main poll's loop.
RunEnter ==
  /\ mpc = "enter"
  /\ mpc' = "loop"
  /\ loop' = [loop EXCEPT ![Main] = "run"]
  /\ UNCHANGED <<mode, started, listening, batch, connecting, next, conn, conns,
                 shut, tasks, closing, exitVars>>

\* Platform::accept takes what connections there are, each with a descriptor
\* that is free at that moment.
Accept ==
  \E n \in 0..MaxBatch : \E new \in [1..n -> Fds \ OpenFds] :
    /\ \A i, j \in 1..n : new[i] = new[j] => i = j
    /\ Len(batch) + n \in 1..MaxBatch
    /\ Len(conn) + Len(batch) + n <= MaxConns
    /\ batch' = batch \o new

\* Acceptor::handle_read_, accept having come to EAGAIN ...
HandleRead ==
  /\ Free(Main)
  /\ listening
  /\ Accept
  /\ mpc' = "dispatch"
  /\ UNCHANGED <<mode, started, listening, connecting, next, conn, conns, pollVars,
                 exitVars>>

\* ... or to an error: what it accepted until then is left for another time.
HandleReadFails ==
  /\ Free(Main)
  /\ listening
  /\ Accept
  /\ UNCHANGED <<mode, started, mpc, listening, connecting, next, conn, conns,
                 pollVars, exitVars>>

\* on_new_connection_ closes a handle that is one too many, or whose address
\* it cannot read.
NewConnectionRefused ==
  /\ mpc = "dispatch"
  /\ connecting = 0
  /\ batch # <<>>
  /\ batch' = Tail(batch)
  /\ UNCHANGED <<mode, started, mpc, listening, connecting, next, conn, conns,
                 pollVars, exitVars>>

\* Mutant: one more is let in.
LimitReachedLate == MaxConnections > 0 /\ ConnectionCount > MaxConnections

LimitReached == MaxConnections > 0 /\ ConnectionCount >= MaxConnections

\* PollThreadPool::next_poll, round robin.
NextPoll == (next + 1) % NSubs

\* on_new_connection_: the limit is compared with conns_, under its lock ...
Admit ==
  /\ mpc = "dispatch"
  /\ connecting = 0
  /\ batch # <<>>
  /\ ~LimitReached
  /\ mpc' = "insert"
  /\ UNCHANGED <<mode, started, listening, batch, connecting, next, conn, conns,
                 pollVars, exitVars>>

\* ... then a Conn is made for the next sub poll and remembered, under the
\* lock again ...
NewConnection ==
  /\ mpc = "insert"
  /\ mpc' = "dispatch"
  /\ LET f == Head(batch)
         c == Len(conn) + 1
         p == IF PerThread THEN next + 1 ELSE Main
     IN /\ conn' = Append(conn, [fd |-> f, poll |-> p, st |-> "new"])
        /\ conns' = [conns EXCEPT ![f] = c]
        /\ connecting' = c
  /\ batch' = Tail(batch)
  /\ next' = IF PerThread THEN NextPoll ELSE next
  /\ UNCHANGED <<mode, started, listening, pollVars, exitVars>>

\* ... and started on its poll, with the connection callback; at once if that
\* is the main poll, or one whose thread has not claimed it, so that it still
\* counts as the main thread's.
StartConnection ==
  /\ mpc = "dispatch"
  /\ connecting # 0
  /\ LET p == conn[connecting].poll IN
     IF p = Main \/ loop[p] = "init"
     THEN SetState(connecting, "up") /\ UNCHANGED tasks
     ELSE Enqueue(p, "start", connecting) /\ UNCHANGED conn
  /\ mpc' = IF OneThread THEN "callback" ELSE mpc
  /\ connecting' = 0
  /\ UNCHANGED <<mode, started, listening, batch, next, conns, loop, shut,
                 closing, exitVars>>

CallbackReturns ==
  /\ InConnCallback
  /\ mpc' = "dispatch"
  /\ UNCHANGED <<mode, started, listening, batch, connecting, next, conn, conns,
                 pollVars, exitVars>>

DispatchDone ==
  /\ mpc = "dispatch"
  /\ connecting = 0
  /\ batch = <<>>
  /\ mpc' = "loop"
  /\ UNCHANGED <<mode, started, listening, batch, connecting, next, conn, conns,
                 pollVars, exitVars>>

-----------------------------------------------------------------------------
(* The poll threads.                                                       *)

\* A thread of the pool enters run() of its poll.
SubEnter(p) ==
  /\ p \in SubPolls
  /\ mpc # "init"
  /\ loop[p] = "init"
  /\ loop' = [loop EXCEPT ![p] = "run"]
  /\ UNCHANGED <<mainVars, conn, conns, shut, tasks, closing, exitVars>>

\* do_cleanup_ closes the descriptor of c; then the close callbacks are due.
BeginClose(p, c, sync) ==
  /\ SetState(c, "closing")
  /\ closing' = [closing EXCEPT ![p] = [c |-> c, sync |-> sync]]

\* The peer, an error, the application's close() or the close timer ends a
\* connection; in the connection callback it is close().
ConnEnds(c) ==
  LET p == conn[c].poll IN
  /\ Free(p) \/ (p = Main /\ InConnCallback)
  /\ conn[c].st \in {"up", "half"}
  /\ BeginClose(p, c, FALSE)
  /\ UNCHANGED <<mainVars, conns, loop, shut, tasks, exitVars>>

\* Mutant: the entry stays.
EraseNothing(c) == UNCHANGED conns

\* on_conn_close_ erases by descriptor.
OnConnClose(c) == conns' = [conns EXCEPT ![conn[c].fd] = 0]

\* The internal close callback, and the return to the loop.
FinishClose(p) ==
  LET c == closing[p].c IN
  /\ c # 0
  /\ SetState(c, "closed")
  /\ OnConnClose(c)
  /\ closing' = [closing EXCEPT ![p] = NotClosing]
  /\ pending' = (pending /\ ~closing[p].sync)
  /\ UNCHANGED <<mainVars, loop, shut, tasks, how, cpc, todo>>

\* Acceptor::shutdown_in_poll_
ShutdownInPoll == listening' = FALSE

\* The next closure is run.  All but start_ fulfil the closer's promise.
RunTask(p) ==
  /\ Free(p)
  /\ tasks[p] # <<>>
  /\ tasks' = [tasks EXCEPT ![p] = Tail(@)]
  /\ LET op == Head(tasks[p]).op
         c  == Head(tasks[p]).c
     IN \/ /\ op = "start" /\ conn[c].st = "new"
           /\ SetState(c, "up")
           /\ UNCHANGED <<mode, listening, closing, pending>>
        \/ /\ op = "shut" /\ conn[c].st = "up"
           /\ SetState(c, "half")
           /\ pending' = FALSE
           /\ UNCHANGED <<mode, listening, closing>>
        \/ /\ op = "clean" /\ HasFd(c)
           /\ BeginClose(p, c, TRUE)
           /\ UNCHANGED <<mode, listening, pending>>
        \/ /\ op = "acceptor"
           /\ ShutdownInPoll
           /\ pending' = FALSE
           /\ UNCHANGED <<conn, closing>>
        \/ /\ \/ op = "shut" /\ conn[c].st # "up"
              \/ op = "clean" /\ ~HasFd(c)
           /\ pending' = FALSE
           /\ UNCHANGED <<mode, listening, conn, closing>>
  /\ UNCHANGED <<mode, started, mpc, batch, connecting, next, conns, loop, shut,
                 how, cpc, todo>>

\* run() returns: shut down, and no closure left.
LoopExit(p) ==
  /\ PerThread
  /\ Free(p)
  /\ shut[p]
  /\ tasks[p] = <<>>
  /\ loop' = [loop EXCEPT ![p] = "exited"]
  /\ mpc' = IF p = Main THEN "returned" ELSE mpc
  /\ UNCHANGED <<mode, started, listening, batch, connecting, next, conn, conns,
                 shut, tasks, closing, exitVars>>

-----------------------------------------------------------------------------
(* The closer.                                                             *)

\* started_.exchange: only the first caller finds it set.  The exit thread
\* takes over if the caller is a poll thread, as the main thread is from the
\* start.
Exit(op) ==
  /\ PerThread
  /\ started
  /\ mpc = "ready" => ExitBeforeRun
  /\ started' = FALSE
  /\ how' = op
  /\ cpc' = "acceptor"
  /\ UNCHANGED <<mode, mpc, listening, batch, connecting, next, conn, conns,
                 pollVars, todo, pending>>

Shutdown == Exit("shutdown")

Close == Exit("close")

At(label) == PerThread /\ cpc = label /\ ~pending

\* run_in_poll_and_wait_, and the same in Acceptor::shutdown.
PostAndWait(p, op, c) ==
  /\ Enqueue(p, op, c)
  /\ pending' = TRUE

\* Mutant: the answer of the main poll is not waited for.
ShutdownAcceptorAsync ==
  /\ At("acceptor")
  /\ Enqueue(Main, "acceptor", 0)
  /\ cpc' = IF how = "shutdown" THEN "snapshot" ELSE "clear"
  /\ UNCHANGED <<mainVars, conn, conns, loop, shut, closing, how, todo, pending>>

\* acceptor_->shutdown()
ShutdownAcceptor ==
  /\ At("acceptor")
  /\ PostAndWait(Main, "acceptor", 0)
  /\ cpc' = IF how = "shutdown" THEN "snapshot" ELSE "clear"
  /\ UNCHANGED <<mainVars, conn, conns, loop, shut, closing, how, todo>>

\* The first snapshot of conns_.
Snapshot ==
  /\ At("snapshot")
  /\ todo' = Known
  /\ cpc' = "shutConns"
  /\ UNCHANGED <<mainVars, conn, conns, pollVars, how, pending>>

\* conn->shutdown_in_poll_() for one after the other.
ShutConn(c) ==
  /\ At("shutConns")
  /\ c \in todo
  /\ PostAndWait(conn[c].poll, "shut", c)
  /\ todo' = todo \ {c}
  /\ UNCHANGED <<mainVars, conn, conns, loop, shut, closing, how, cpc>>

ShutConnsDone ==
  /\ At("shutConns")
  /\ todo = {}
  /\ cpc' = IF Graceful THEN "drain" ELSE "clear"
  /\ UNCHANGED <<mainVars, conn, conns, pollVars, how, todo, pending>>

\* No connection is left, or the deadline has come.
Drained ==
  /\ At("drain")
  /\ cpc' = "clear"
  /\ UNCHANGED <<mainVars, conn, conns, pollVars, how, todo, pending>>

\* The second snapshot, or close()'s only one; conns_ is emptied.
ClearConns ==
  /\ At("clear")
  /\ todo' = Known
  /\ conns' = [f \in Fds |-> 0]
  /\ cpc' = "cleanConns"
  /\ UNCHANGED <<mainVars, conn, pollVars, how, pending>>

\* conn->cleanup_(0) for one after the other.
CleanConn(c) ==
  /\ At("cleanConns")
  /\ c \in todo
  /\ PostAndWait(conn[c].poll, "clean", c)
  /\ todo' = todo \ {c}
  /\ UNCHANGED <<mainVars, conn, conns, loop, shut, closing, how, cpc>>

\* Mutant: the polls are stopped without the connections being cleaned up.
CleanConnsSkipped ==
  /\ At("cleanConns")
  /\ todo' = {}
  /\ cpc' = "stopSubs"
  /\ UNCHANGED <<mainVars, conn, conns, pollVars, how, pending>>

CleanConnsDone ==
  /\ At("cleanConns")
  /\ todo = {}
  /\ cpc' = "stopSubs"
  /\ UNCHANGED <<mainVars, conn, conns, pollVars, how, todo, pending>>

\* PollThreadPool::shutdown: one poll after the other is shut down ...
StopSub(p) ==
  /\ At("stopSubs")
  /\ ~shut[p]
  /\ \A s \in Subs : s < p => shut[s]
  /\ shut' = [shut EXCEPT ![p] = TRUE]
  /\ cpc' = IF p = NSubs THEN "joinSubs" ELSE cpc
  /\ UNCHANGED <<mainVars, conn, conns, loop, tasks, closing, how, todo,
                 pending>>

\* Mutant: the threads are left to themselves.
DetachSubs ==
  /\ At("joinSubs")
  /\ cpc' = "stopMain"
  /\ UNCHANGED <<mainVars, conn, conns, pollVars, how, todo, pending>>

\* ... and their threads joined.
JoinSubs ==
  /\ At("joinSubs")
  /\ \A p \in Subs : loop[p] = "exited"
  /\ cpc' = "stopMain"
  /\ UNCHANGED <<mainVars, conn, conns, pollVars, how, todo, pending>>

\* Mutant: the main poll goes on.
StopMainNot ==
  /\ At("stopMain")
  /\ cpc' = "done"
  /\ UNCHANGED <<mainVars, conn, conns, pollVars, how, todo, pending>>

\* main_poll_->shutdown()
StopMain ==
  /\ At("stopMain")
  /\ shut' = [shut EXCEPT ![Main] = TRUE]
  /\ cpc' = "done"
  /\ UNCHANGED <<mainVars, conn, conns, loop, tasks, closing, how, todo,
                 pending>>

-----------------------------------------------------------------------------
(* kAllOneThread.                                                          *)

\* shutting_down_, which only shutdown() in kAllOneThread sets
ShuttingDown == OneThread /\ cpc = "drain"

\* poll(): one round of the main poll ...
Poll ==
  /\ OneThread
  /\ mpc = "ready"
  /\ started \/ ShuttingDown
  /\ mpc' = "loop"
  /\ UNCHANGED <<mode, started, listening, batch, connecting, next, conn, conns,
                 pollVars, exitVars>>

\* Every Conn in conns_ is cleaned up, and the main poll shut down.
ReleaseAll ==
  /\ conn' = [c \in Conns |->
               IF c \in Known THEN [conn[c] EXCEPT !.st = "closed"] ELSE conn[c]]
  /\ conns' = [f \in Fds |-> 0]
  /\ shut' = [shut EXCEPT ![Main] = TRUE]
  /\ started' = FALSE
  /\ cpc' = "done"

\* ... and finish_shutdown_all_one_thread_: there is nothing to finish yet ...
PollReturns ==
  /\ OneThread
  /\ Free(Main)
  /\ ShuttingDown => ConnectionCount # 0
  /\ mpc' = "ready"
  /\ UNCHANGED <<mode, started, listening, batch, connecting, next, conn, conns,
                 pollVars, exitVars>>

\* Mutant: the time limit is not looked at.
DrainedOnly == ConnectionCount = 0

\* No connection is left, or the deadline has come, which a timeout of 0 puts
\* off for ever.
DrainedOrLate == ConnectionCount = 0 \/ Graceful

\* ... or the rest is closed.
FinishShutdownAllOneThread ==
  /\ Free(Main)
  /\ ShuttingDown
  /\ DrainedOrLate
  /\ ReleaseAll
  /\ mpc' = "ready"
  /\ UNCHANGED <<mode, listening, batch, connecting, next, loop, tasks, closing,
                 how, todo, pending>>

\* The application's code on the one thread: between two calls of poll(), in
\* the other callbacks of a connection.
InApplication == mpc = "ready" \/ Free(Main)

\* shutdown_all_one_thread_
ShutdownAllOneThread ==
  /\ OneThread
  /\ started /\ ~ShuttingDown
  /\ InApplication \/ InConnCallback
  /\ (mpc = "callback" /\ ConnectionCount = 0) => EndInCallback
  /\ ShutdownInPoll
  /\ how' = "shutdown"
  /\ IF ConnectionCount = 0
     THEN ReleaseAll
     ELSE /\ conn' = [c \in Conns |->
                        IF c \in Known /\ conn[c].st = "up"
                        THEN [conn[c] EXCEPT !.st = "half"] ELSE conn[c]]
          /\ cpc' = "drain"
          /\ UNCHANGED <<started, conns, shut>>
  /\ UNCHANGED <<mode, mpc, batch, connecting, next, loop, tasks, closing, todo,
                 pending>>

\* close(), also after shutdown()
CloseAllOneThread ==
  /\ OneThread
  /\ started
  /\ InApplication \/ InConnCallback
  /\ mpc = "callback" => EndInCallback
  /\ ShutdownInPoll
  /\ how' = "close"
  /\ ReleaseAll
  /\ UNCHANGED <<mode, mpc, batch, connecting, next, loop, tasks, closing, todo,
                 pending>>

-----------------------------------------------------------------------------
\* What the main thread does for the Acceptor and in start() and run().
MainStep ==
  \/ StartReturnsFalse
  \/ Run
  \/ RunEnter
  \/ NewConnectionRefused
  \/ Admit
  \/ NewConnection
  \/ StartConnection
  \/ CallbackReturns
  \/ DispatchDone
  \/ Poll
  \/ PollReturns

Closer ==
  \/ ShutdownAcceptor
  \/ Snapshot
  \/ \E c \in todo : ShutConn(c) \/ CleanConn(c)
  \/ ShutConnsDone
  \/ Drained
  \/ ClearConns
  \/ CleanConnsDone
  \/ \E p \in Subs : StopSub(p)
  \/ JoinSubs
  \/ StopMain

Next ==
  \/ Start
  \/ StartFails
  \/ MainStep
  \/ HandleRead
  \/ HandleReadFails
  \/ \E p \in Subs : SubEnter(p)
  \/ \E p \in Polls : FinishClose(p) \/ RunTask(p) \/ LoopExit(p)
  \/ \E c \in Conns : ConnEnds(c)
  \/ Shutdown
  \/ Close
  \/ Closer
  \/ FinishShutdownAllOneThread
  \/ ShutdownAllOneThread
  \/ CloseAllOneThread

Spec == Init /\ [][Next]_vars

\* Threads are scheduled, a graceful shutdown comes to its deadline, and a
\* poll gets round to its closures whatever events it has (PostedIsRun of
\* EventLoop).  Nothing is assumed of peers and of the application, but that
\* it calls run() once start() has succeeded, or poll() again and again; one
\* of these calls is later than the deadline.
Fairness ==
  /\ WF_vars(MainStep)
  /\ WF_vars(Closer)
  /\ SF_vars(FinishShutdownAllOneThread)
  /\ \A p \in Subs : WF_vars(SubEnter(p))
  /\ \A p \in Polls :
       /\ WF_vars(FinishClose(p))
       /\ SF_vars(RunTask(p))
       /\ WF_vars(LoopExit(p))

FairSpec == Spec /\ Fairness

-----------------------------------------------------------------------------
(* Properties.                                                             *)

\* An entry of conns_ is of a Conn that has this descriptor, or is being
\* closed and about to erase the entry; none outlives its connection.
NoStaleEntry ==
  /\ TypeOK
  /\ \A f \in Fds : conns[f] # 0 =>
       /\ conn[conns[f]].fd = f
       /\ conn[conns[f]].st # "closed"

\* max_connections_ is kept, although it is checked and the entry made under
\* two separate locks.
LimitKept == MaxConnections > 0 => ConnectionCount <= MaxConnections

\* No closure is left in a poll that has ended: somebody may wait for it.
NoOrphan == \A p \in Polls : loop[p] = "exited" => tasks[p] = <<>>

\* When shutdown() or close() is through, nothing is accepted any more, the
\* pool's threads have ended, and no connection is left in conns_.
QuietWhenDone ==
  cpc = "done" =>
    /\ ~listening
    /\ \A p \in SubPolls : loop[p] = "exited" /\ tasks[p] = <<>>
    /\ \A f \in Fds : conns[f] = 0

\* ... and every Conn has been closed, in kAllOneThread also those whose
\* connection was accepted together with the one whose callback called
\* shutdown(); in kOnePollPerThread those whose descriptor no earlier Conn has
\* had.
FirstUseReleased ==
  cpc = "done" =>
    \A c \in Conns :
      \/ conn[c].st = "closed"
      \/ PerThread /\ \E d \in 1..(c - 1) : conn[d].fd = conn[c].fd

\* "release the resources": when shutdown() or close() is through, every Conn
\* has been closed.
AllReleased == cpc = "done" => \A c \in Conns : conn[c].st = "closed"

\* shutdown() and close() return.
ExitReturns == cpc # "idle" ~> cpc = "done"

\* run() returns after either of them.
RunReturns ==
  (PerThread /\ cpc # "idle" /\ mpc \in {"enter", "loop", "dispatch", "insert"})
    ~> mpc = "returned"
=============================================================================
