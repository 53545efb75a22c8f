-------------------------------- MODULE Conn --------------------------------
(***************************************************************************)
(* Conn (cxpnet/conn.{h,cc}) with the Channel that dispatches its events   *)
(* (channel.{h,cc}): one connection, accepted or connecting, from its      *)
(* first event to its last callback.                                       *)
(*                                                                         *)
(* Everything but the public calls runs on the connection's poll thread.   *)
(* User callbacks can call send, shutdown and close again, so the handlers *)
(* are cut where they call one, and the rest of each is a frame on a       *)
(* stack.  Between epoll_wait and the dispatch of this connection's event, *)
(* and whenever the stack is empty, callbacks of other channels may run    *)
(* and call send, shutdown or close of this one too.  Other threads, and   *)
(* the timer thread, hand over closures.                                   *)
(*                                                                         *)
(* The kernel's side is a TCP socket with a send buffer of SendSpace bytes *)
(* behind an edge-triggered epoll: the socket is listed (edge) when        *)
(* something new happens to it or its registration changes, and comes off  *)
(* the list when epoll_wait reports it.  Bytes are numbered in the order   *)
(* in which send() accepted them.                                          *)
(***************************************************************************)
EXTENDS Naturals, Sequences

CONSTANTS
  Roles,        \* of {"accepted", "client"}: a client Conn calls connect()
  Sizes,        \* sizes of the messages given to send()
  Budget,       \* kDirectWriteBudget
  SendSpace,    \* size of the socket's send buffer
  High, Low,    \* high_watermark_, low_watermark_
  Timeouts,     \* of BOOLEAN: whether set_close_timeout was called
  HighOps,      \* what the application calls in the two watermark callbacks,
  LowOps,       \* subsets of {"send", "shutdown", "close"}
  MaxCalls,     \* bound: calls of send, shutdown and close
  MaxRx         \* bound: bytes the peer sends

ASSUME ConnAssumption ==
  /\ Roles \subseteq {"accepted", "client"}
  /\ Sizes \subseteq Nat \ {0}
  /\ {Budget, SendSpace} \subseteq Nat \ {0}
  /\ High \in Nat /\ Low \in Nat /\ Low < High
  /\ Timeouts \subseteq BOOLEAN
  /\ {MaxCalls, MaxRx} \subseteq Nat

VARIABLES
  \* the Conn
  state,       \* state_
  chan,        \* channel_: "none", or the role it was made for
  interest,    \* the Channel's events_, of {"R", "W"}; {}: not registered
  wbuf,        \* write_buffer_
  warned,      \* high_watermark_warning_
  closeTimeout, \* close_timeout_ms_ > 0
  timerId,     \* close_timer_id_ is not 0
  cleanupDone, \* cleanup_done_
  \* the poll thread and the timer
  stack,       \* what the poll thread still has to do for this Conn
  pend,        \* its entry in active_channels_: kind and result_events_
  tasks,       \* closures for this Conn queued in the loop
  timer,       \* the close timer: "none", "armed", or "extracted"
  \* the kernel
  ksock,       \* "none", "syn", "est", "dead" (reset or refused), "closed"
  soerr,       \* SO_ERROR is set
  rx, rfin,    \* bytes not yet received; the peer's FIN has arrived
  wire, acked, \* bytes the kernel took, and how many the peer acknowledged
  finSent,     \* shut_wr was called
  edge,        \* the socket is on epoll's ready list
  nospace,     \* SOCK_NOSPACE: a wakeup is due when there is room again
  \* history
  accepted,    \* bytes taken over by send()
  calls, rcvd, \* for the bounds
  asked,       \* connect() was called, or is not needed
  outcome,     \* its result once reported: "none", "ok" or "err"
  closeCbs,    \* calls of the close callbacks
  crashed      \* a null channel_ was used

objVars   == <<state, chan, interest, wbuf, warned, timerId, cleanupDone>>
loopVars  == <<stack, pend, tasks, timer>>
sockVars  == <<ksock, soerr, rx, rfin, wire, acked, finSent, edge, nospace>>
histVars  == <<accepted, calls, rcvd, asked, outcome, closeCbs, crashed>>
vars      == <<closeTimeout, objVars, loopVars, sockVars, histVars>>

UserFrames == {"uMessage", "uClose", "uLow", "uHigh", "uConnected", "uConnErr"}
CodeFrames == {"read", "closeEvent", "writeLoop", "connectEvent", "lowDone",
               "highDone", "closeDone"}
Ops == {"send", "shutdown", "close", "timeout", "start", "connect", "release"}
NoEvent == [kind |-> "none", ev |-> {}]

TypeOK ==
  /\ state \in {"Disconnected", "Connecting", "Connected", "Disconnecting"}
  /\ chan \in {"none", "connect", "io"}
  /\ interest \subseteq {"R", "W"}
  /\ wbuf \in Seq(Nat)
  /\ closeTimeout \in Timeouts
  /\ {warned, timerId, cleanupDone, soerr, rfin, finSent, edge, nospace,
      crashed} \subseteq BOOLEAN
  /\ stack \in Seq(UserFrames \cup CodeFrames)
  /\ pend \in [kind : {"none", "connect", "io"}, ev : SUBSET {"R", "W", "E", "H"}]
  /\ tasks \in Seq([op : Ops, n : Nat])
  /\ timer \in {"none", "armed", "extracted"}
  /\ ksock \in {"none", "syn", "est", "dead", "closed"}
  /\ wire \in Seq(Nat)
  /\ {rx, acked, accepted, calls, rcvd, closeCbs} \subseteq Nat
  /\ asked \in BOOLEAN
  /\ outcome \in {"none", "ok", "err"}

Task(op) == [op |-> op, n |-> 0]

\* A Conn made for an accepted socket is started by a closure that
\* Server::on_new_connection_ hands to its poll.
NewConn(role) ==
  /\ tasks = IF role = "accepted" THEN <<Task("start")>> ELSE <<>>
  /\ ksock = IF role = "accepted" THEN "est" ELSE "none"
  /\ asked = (role = "accepted")

Init ==
  /\ \E role \in Roles : NewConn(role)
  /\ closeTimeout \in Timeouts
  /\ state = "Disconnected"
  /\ chan = "none"
  /\ interest = {}
  /\ wbuf = <<>>
  /\ warned = FALSE
  /\ timerId = FALSE
  /\ cleanupDone = FALSE
  /\ stack = <<>>
  /\ pend = NoEvent
  /\ timer = "none"
  /\ soerr = FALSE
  /\ rx = 0
  /\ rfin = FALSE
  /\ wire = <<>>
  /\ acked = 0
  /\ finSent = FALSE
  /\ edge = FALSE
  /\ nospace = FALSE
  /\ accepted = 0
  /\ calls = 0
  /\ rcvd = 0
  /\ outcome = "none"
  /\ closeCbs = 0
  /\ crashed = FALSE

-----------------------------------------------------------------------------
(* Helpers.                                                                *)

Quiet == stack = <<>>   \* the poll thread is not in a handler of this Conn
HandleOpen == ksock \notin {"none", "closed"}   \* handle_ != invalid_socket
Space == SendSpace - (Len(wire) - acked)
Least(a, b) == IF a < b THEN a ELSE b
NewBytes(n) == [i \in 1..n |-> accepted + i]

\* The poll thread is in a callback in which the application calls op of this
\* Conn, or in a callback that has nothing to do with it.
MayCall(op) ==
  /\ calls < MaxCalls
  /\ ~crashed
  /\ \/ Quiet
     \/ /\ stack # <<>>
        /\ Head(stack) \in UserFrames
        /\ Head(stack) = "uHigh" => op \in HighOps
        /\ Head(stack) = "uLow" => op \in LowOps

Counted ==
  /\ calls' = calls + 1
  /\ UNCHANGED <<rcvd, asked, outcome, closeTimeout>>

\* EpollPoller::update_channel and update.  Adding and modifying a
\* registration list the socket anew, and without events it is taken off.
UpdateChannel(events) ==
  /\ interest' = events
  /\ edge' = (events # {})

\* Mutant: the poller is not told.
AddReadEventOnly ==
  /\ interest' = {"R"}
  /\ UNCHANGED edge

\* Channel::add_read_event of a new Channel.
AddReadEvent == UpdateChannel({"R"})

\* Mutant: the poller is not told.
AddWriteEventOnly ==
  /\ interest' = interest \cup {"W"}
  /\ UNCHANGED edge

\* Channel::add_write_event; without change of events_ nothing happens.
AddWriteEvent ==
  IF "W" \in interest
  THEN UNCHANGED <<interest, edge>>
  ELSE UpdateChannel(interest \cup {"W"})

\* Mutant: the event stays on.
RemoveWriteEventNot == UNCHANGED <<interest, edge>>

\* Channel::remove_write_event
RemoveWriteEvent ==
  IF "W" \in interest
  THEN UpdateChannel(interest \ {"W"})
  ELSE UNCHANGED <<interest, edge>>

\* Channel::clear_event
ClearEvent == UpdateChannel({})

-----------------------------------------------------------------------------
(* What the handlers do.  The argument rest is what the poll thread goes   *)
(* on with; tasks, pend and calls are left to the action.                  *)

\* Mutant: a second cleanup is not noticed.
NeverCleaned == FALSE

\* compare_exchange on cleanup_done_ fails.
AlreadyCleaned == cleanupDone

\* Mutant: the id is forgotten and the timer left.
ForgetCloseTimeout == timerId' = FALSE /\ UNCHANGED timer

\* cancel_close_timeout_.  A timer whose callback is already out of the
\* schedule cannot be cancelled any more.
CancelCloseTimeout ==
  /\ timer' = IF timerId /\ timer = "armed" THEN "none" ELSE timer
  /\ timerId' = FALSE

\* Mutant: no timer is started.
StartNoTimeout == UNCHANGED <<timerId, timer>>

\* start_close_timeout_, when there is a timeout.
StartCloseTimeout ==
  /\ timerId' = (timerId \/ closeTimeout)
  /\ timer' = IF closeTimeout /\ ~timerId THEN "armed" ELSE timer

\* Mutant: what is still in the buffer is not looked at.
WriteNothingMore == TRUE

\* write_buffer_ is empty.
NothingToWrite == wbuf = <<>>

\* The handler returns early.
Return(rest) ==
  /\ stack' = rest
  /\ UNCHANGED <<objVars, sockVars, timer, accepted, closeCbs, crashed>>

\* cleanup_ and do_cleanup_ up to the close callbacks; the Channel is let go
\* of after they return.
Cleanup(rest) ==
  IF AlreadyCleaned
  THEN Return(rest)
  ELSE /\ cleanupDone' = TRUE
       /\ CancelCloseTimeout
       /\ finSent' = (finSent \/ (state = "Connected" /\ HandleOpen))
       /\ ClearEvent
       /\ ksock' = "closed"
       /\ state' = "Disconnected"
       /\ closeCbs' = closeCbs + 1
       /\ stack' = <<"uClose", "closeDone">> \o rest
       /\ UNCHANGED <<chan, wbuf, warned, soerr, rx, rfin, wire, acked,
                      nospace, accepted, crashed>>

\* start_
Start(rest) ==
  IF ~HandleOpen
  THEN Return(rest)
  ELSE /\ cleanupDone' = FALSE
       /\ chan' = "io"
       /\ AddReadEvent
       /\ state' = "Connected"
       /\ stack' = rest
       /\ UNCHANGED <<wbuf, warned, timerId, timer, ksock, soerr, rx, rfin,
                      wire, acked, finSent, nospace, accepted, closeCbs,
                      crashed>>

\* send_in_poll_thread_, the end: the high watermark is reported.
Watermark(rest) ==
  /\ stack' = IF ~warned /\ Len(wbuf') > High
              THEN <<"uHigh", "highDone">> \o rest
              ELSE rest
  /\ UNCHANGED <<state, chan, warned, timerId, cleanupDone, timer, ksock,
                 soerr, rx, rfin, acked, finSent, closeCbs, crashed>>

\* send_in_poll_thread_
SendInPollThread(n, rest) ==
  CASE state # "Connected" \/ chan = "none" ->
         Return(rest)
    [] state = "Connected" /\ chan # "none" /\ wbuf # <<>> ->
         /\ wbuf' = wbuf \o NewBytes(n)
         /\ accepted' = accepted + n
         /\ AddWriteEvent
         /\ UNCHANGED <<wire, nospace>>
         /\ Watermark(rest)
    [] state = "Connected" /\ chan # "none" /\ wbuf = <<>> /\ ksock = "dead" ->
         Cleanup(rest)
    [] OTHER ->
         LET goal == Least(n, Budget)
             sent == Least(goal, Space)
         IN /\ wire' = wire \o SubSeq(NewBytes(n), 1, sent)
            /\ wbuf' = SubSeq(NewBytes(n), sent + 1, n)
            /\ accepted' = accepted + n
            /\ nospace' = (nospace \/ sent < goal)
            /\ IF sent < n THEN AddWriteEvent ELSE UNCHANGED <<interest, edge>>
            /\ Watermark(rest)

\* Mutant: shutdown closes.
ShutdownAsClose(rest) ==
  IF state \in {"Disconnected", "Disconnecting"} THEN Return(rest) ELSE Cleanup(rest)

\* shutdown_in_poll_; shut_wr aborts a connect that is under way.
ShutdownInPoll(rest) ==
  IF state \in {"Disconnected", "Disconnecting"} \/ ~HandleOpen
  THEN Return(rest)
  ELSE /\ state' = "Disconnecting"
       /\ IF NothingToWrite
          THEN /\ RemoveWriteEvent
               /\ finSent' = TRUE
               /\ ksock' = IF ksock = "syn" THEN "dead" ELSE ksock
          ELSE UNCHANGED <<interest, edge, finSent, ksock>>
       /\ StartCloseTimeout
       /\ stack' = rest
       /\ UNCHANGED <<chan, wbuf, warned, cleanupDone, soerr, rx, rfin, wire,
                      acked, nospace, accepted, closeCbs, crashed>>

\* Platform::connect, when it returns a descriptor: the attempt is under way,
\* or, if it was waited for, has succeeded.
PlatformConnect(async) == ksock' = IF async THEN "syn" ELSE "est"

\* Mutant: the attempt waits for input instead of writability.
StartConnectForInput(rest) ==
  \/ /\ outcome' = "err"
     /\ Return(<<"uConnErr">> \o rest)
  \/ /\ PlatformConnect(TRUE)
     /\ state' = "Connecting"
     /\ chan' = "connect"
     /\ UpdateChannel({"R"})
     /\ stack' = rest
     /\ UNCHANGED <<wbuf, warned, timerId, cleanupDone, timer, soerr, rx, rfin,
                    wire, acked, finSent, nospace, accepted, closeCbs, crashed,
                    outcome>>

\* start_connect_in_poll_: the address is bad or connect fails at once, or a
\* connection attempt is under way.
StartConnectInPoll(rest) ==
  \/ /\ outcome' = "err"
     /\ Return(<<"uConnErr">> \o rest)
  \/ /\ PlatformConnect(TRUE)
     /\ state' = "Connecting"
     /\ chan' = "connect"
     /\ UpdateChannel({"W"})
     /\ stack' = rest
     /\ UNCHANGED <<wbuf, warned, timerId, cleanupDone, timer, soerr, rx, rfin,
                    wire, acked, finSent, nospace, accepted, closeCbs, crashed,
                    outcome>>

-----------------------------------------------------------------------------
(* The public calls, on the poll thread.                                   *)

CallSend(n) ==
  /\ MayCall("send")
  /\ state = "Connected"
  /\ SendInPollThread(n, stack)
  /\ Counted
  /\ UNCHANGED <<pend, tasks>>

CallShutdown ==
  /\ MayCall("shutdown")
  /\ state \in {"Connected", "Connecting"}
  /\ ShutdownInPoll(stack)
  /\ Counted
  /\ UNCHANGED <<pend, tasks>>

CallClose ==
  /\ MayCall("close")
  /\ state # "Disconnected"
  /\ Cleanup(stack)
  /\ Counted
  /\ UNCHANGED <<pend, tasks>>

\* connect.  A Conn is a one-shot object: it is called once.
MayConnect ==
  /\ ~asked
  /\ state = "Disconnected"
  /\ asked' = TRUE
  /\ UNCHANGED closeTimeout

CallConnect ==
  /\ MayConnect
  /\ Quiet
  /\ StartConnectInPoll(stack)
  /\ UNCHANGED <<pend, tasks, calls, rcvd>>

\* connect_sync: fails without a trace, or the Conn is started at once.
CallConnectSync ==
  /\ MayConnect
  /\ Quiet
  /\ \/ /\ outcome' = "err"
        /\ Return(stack)
     \/ /\ outcome' = "ok"
        /\ PlatformConnect(FALSE)
        /\ chan' = "io"
        /\ AddReadEvent
        /\ state' = "Connected"
        /\ UNCHANGED <<stack, wbuf, warned, timerId, cleanupDone, timer, soerr,
                       rx, rfin, wire, acked, finSent, nospace, accepted,
                       closeCbs, crashed>>
  /\ UNCHANGED <<pend, tasks, calls, rcvd>>

-----------------------------------------------------------------------------
(* The public calls, on another thread: the state is looked at, and the    *)
(* rest is left to a closure.                                              *)

Post(op, n) ==
  /\ tasks' = Append(tasks, [op |-> op, n |-> n])
  /\ UNCHANGED <<objVars, stack, pend, timer, sockVars, accepted, closeCbs,
                 crashed>>

PostCall ==
  /\ calls < MaxCalls
  /\ Counted
  /\ \/ \E n \in Sizes : state = "Connected" /\ Post("send", n)
     \/ state \in {"Connected", "Connecting"} /\ Post("shutdown", 0)
     \/ state # "Disconnected" /\ Post("close", 0)

PostConnect ==
  /\ MayConnect
  /\ Post("connect", 0)
  /\ UNCHANGED <<calls, rcvd, outcome>>

\* The close timer is due and its callback is taken out of the schedule ...
TimerExtract ==
  /\ timer = "armed"
  /\ timer' = "extracted"
  /\ UNCHANGED <<closeTimeout, objVars, stack, pend, tasks, sockVars, histVars>>

\* ... and run: cleanup_(ETIMEDOUT) is handed to the poll thread.
TimerCallback ==
  /\ timer = "extracted"
  /\ timer' = "none"
  /\ tasks' = Append(tasks, Task("timeout"))
  /\ UNCHANGED <<closeTimeout, objVars, stack, pend, sockVars, histVars>>

\* A closure is run, when the events of this round have been dispatched.
RunTask ==
  /\ Quiet
  /\ pend = NoEvent
  /\ ~crashed
  /\ tasks # <<>>
  /\ tasks' = Tail(tasks)
  /\ LET task == Head(tasks) IN
     CASE task.op = "send" -> SendInPollThread(task.n, <<>>)
       [] task.op = "shutdown" -> ShutdownInPoll(<<>>)
       [] task.op \in {"close", "timeout"} -> Cleanup(<<>>)
       [] task.op = "start" -> Start(<<>>)
       [] task.op = "release" -> Return(<<>>)
       [] task.op = "connect" -> StartConnectInPoll(<<>>)
  /\ Head(tasks).op # "connect" => UNCHANGED outcome
  /\ UNCHANGED <<pend, calls, rcvd, asked, closeTimeout>>

-----------------------------------------------------------------------------
(* Events.                                                                 *)

\* The events epoll finds for the registered interest.  from_epoll_events
\* turns both EPOLLHUP and EPOLLRDHUP, the peer's FIN, into kHup.
Events ==
  {e \in {"R", "W", "E", "H"} :
     CASE e = "R" -> "R" \in interest /\ (rx > 0 \/ rfin \/ ksock = "dead")
       [] e = "W" -> "W" \in interest /\ ((ksock = "est" /\ Space > 0) \/ ksock = "dead")
       [] e = "E" -> soerr
       [] e = "H" -> \/ ksock = "dead" \/ (rfin /\ finSent)
                     \/ rfin /\ "R" \in interest}

\* epoll_wait returns.  An unwritable socket is asked for a wakeup.
EpollWait ==
  /\ Quiet
  /\ pend = NoEvent
  /\ ~crashed
  /\ edge
  /\ interest # {}
  /\ edge' = FALSE
  /\ pend' = IF Events = {} THEN NoEvent ELSE [kind |-> chan, ev |-> Events]
  /\ nospace' = (nospace \/ ("W" \in interest /\ "W" \notin Events))
  /\ UNCHANGED <<closeTimeout, objVars, stack, tasks, timer, ksock, soerr, rx,
                 rfin, wire, acked, finSent, histVars>>

\* Channel::handle_event_.  The Channel of a connection attempt has a write
\* callback only.
HandleEvent ==
  /\ Quiet
  /\ pend # NoEvent
  /\ ~crashed
  /\ LET broken == pend.ev \cap {"E", "H"} # {}
         reads  == IF "R" \in pend.ev THEN <<"read">> ELSE <<>>
     IN /\ stack' = CASE pend.kind = "connect" /\ broken -> <<>>
                      [] pend.kind = "connect" /\ ~broken -> <<"connectEvent">>
                      [] pend.kind = "io" /\ broken -> Append(reads, "closeEvent")
                      [] OTHER ->
                           reads \o (IF "W" \in pend.ev THEN <<"writeLoop">> ELSE <<>>)
        /\ soerr' = (soerr /\ "E" \notin pend.ev)
  /\ pend' = NoEvent
  /\ UNCHANGED <<closeTimeout, objVars, tasks, timer, ksock, rx, rfin, wire,
                 acked, finSent, edge, nospace, histVars>>

\* The poll thread goes on with the frame on top of the stack.
At(frame) ==
  /\ ~crashed
  /\ stack # <<>>
  /\ Head(stack) = frame
  /\ UNCHANGED <<pend, calls, rcvd, asked, closeTimeout>>

Rest == Tail(stack)

\* A user callback returns.
UserReturns ==
  /\ \E frame \in UserFrames : At(frame)
  /\ Return(Rest)
  /\ UNCHANGED <<tasks, outcome>>

\* handle_connect_event_
HandleConnectEvent ==
  /\ At("connectEvent")
  /\ IF state # "Connecting"
     THEN Return(Rest) /\ UNCHANGED outcome
     ELSE /\ outcome' = IF soerr THEN "err" ELSE "ok"
          /\ soerr' = FALSE
          /\ IF soerr
             THEN /\ chan' = "none"
                  /\ interest' = {}
                  /\ edge' = FALSE
                  /\ ksock' = "closed"
                  /\ state' = "Disconnected"
                  /\ stack' = <<"uConnErr">> \o Rest
                  /\ UNCHANGED cleanupDone
             ELSE /\ chan' = "io"
                  /\ AddReadEvent
                  /\ state' = "Connected"
                  /\ cleanupDone' = FALSE
                  /\ stack' = <<"uConnected">> \o Rest
                  /\ UNCHANGED ksock
          /\ UNCHANGED <<wbuf, warned, timerId, timer, rx, rfin, wire, acked,
                         finSent, nospace, accepted, closeCbs, crashed>>
  /\ UNCHANGED tasks

\* handle_read_event_: all there is is received, then on_message_func_ is
\* called, and the end of the stream or an error leads to a close.
HandleReadEvent ==
  /\ At("read")
  /\ IF state # "Connected"
     THEN Return(Rest)
     ELSE /\ rx' = 0
          /\ soerr' = FALSE
          /\ stack' = (IF rx > 0 THEN <<"uMessage">> ELSE <<>>)
                      \o (IF rfin \/ ksock = "dead" THEN <<"closeEvent">> ELSE <<>>)
                      \o Rest
          /\ UNCHANGED <<objVars, timer, ksock, rfin, wire, acked, finSent,
                         edge, nospace, accepted, closeCbs, crashed>>
  /\ UNCHANGED <<tasks, outcome>>

\* handle_close_event_
HandleCloseEvent ==
  /\ At("closeEvent")
  /\ IF state = "Disconnected" THEN Return(Rest) ELSE Cleanup(Rest)
  /\ UNCHANGED <<tasks, outcome>>

\* Mutant: all is taken off the buffer, whatever was sent.
BeenReadAll(sent) == <<>>

\* been_read(sent)
BeenRead(sent) == SubSeq(wbuf, sent + 1, Len(wbuf))

\* One turn of the loop of handle_write_event_ that sends.
WriteSome ==
  /\ At("writeLoop")
  /\ wbuf # <<>>
  /\ ksock = "est"
  /\ Space > 0
  /\ LET sent == Least(Len(wbuf), Space) IN
       /\ wire' = wire \o SubSeq(wbuf, 1, sent)
       /\ wbuf' = BeenRead(sent)
       /\ stack' = IF warned /\ Len(wbuf) - sent <= Low
                   THEN <<"uLow", "lowDone">> \o stack
                   ELSE stack
  /\ UNCHANGED <<state, chan, interest, warned, timerId, cleanupDone, tasks,
                 timer, ksock, soerr, rx, rfin, acked, finSent, edge, nospace,
                 accepted, outcome, closeCbs, crashed>>

\* One that finds the socket full.
WriteBlocked ==
  /\ At("writeLoop")
  /\ wbuf # <<>>
  /\ ksock = "est"
  /\ Space = 0
  /\ nospace' = TRUE
  /\ stack' = Rest
  /\ UNCHANGED <<objVars, tasks, timer, ksock, soerr, rx, rfin, wire, acked,
                 finSent, edge, accepted, outcome, closeCbs, crashed>>

\* One that fails: the connection was reset, or closed by a callback.
WriteFails ==
  /\ At("writeLoop")
  /\ wbuf # <<>>
  /\ ksock \in {"dead", "closed"}
  /\ IF state = "Disconnected" THEN Return(Rest) ELSE Cleanup(Rest)
  /\ UNCHANGED <<tasks, outcome>>

\* Mutant: the FIN is left to shutdown_in_poll_.
NoFinWhenDrained == UNCHANGED finSent

\* A shutdown that found the buffer full is completed.
FinWhenDrained == finSent' = (finSent \/ state = "Disconnecting")

\* The end of handle_write_event_, everything sent; channel_ is used without
\* a test.
WriteDone ==
  /\ At("writeLoop")
  /\ wbuf = <<>>
  /\ crashed' = (chan = "none")
  /\ RemoveWriteEvent
  /\ FinWhenDrained
  /\ stack' = Rest
  /\ UNCHANGED <<state, chan, wbuf, warned, timerId, cleanupDone, tasks, timer,
                 ksock, soerr, rx, rfin, wire, acked, nospace, accepted,
                 outcome, closeCbs>>

\* Mutant: the flag is not reset.
WatermarkStays ==
  /\ At("lowDone") \/ At("highDone")
  /\ warned' = TRUE
  /\ stack' = Rest
  /\ UNCHANGED <<state, chan, interest, wbuf, timerId, cleanupDone, tasks,
                 timer, sockVars, accepted, outcome, closeCbs, crashed>>

\* The flag is written after the callback has returned.
WatermarkDone ==
  /\ At("lowDone") \/ At("highDone")
  /\ warned' = (Head(stack) = "highDone")
  /\ stack' = Rest
  /\ UNCHANGED <<state, chan, interest, wbuf, timerId, cleanupDone, tasks,
                 timer, sockVars, accepted, outcome, closeCbs, crashed>>

\* The end of do_cleanup_: the Channel is destroyed by a later closure.
CloseDone ==
  /\ At("closeDone")
  /\ chan' = "none"
  /\ tasks' = IF chan # "none" THEN Append(tasks, Task("release")) ELSE tasks
  /\ stack' = Rest
  /\ UNCHANGED <<state, interest, wbuf, warned, timerId, cleanupDone, timer,
                 sockVars, accepted, outcome, closeCbs, crashed>>

-----------------------------------------------------------------------------
(* The network and the peer.                                               *)

Kernel ==
  /\ edge' = (HandleOpen /\ interest # {})
  /\ UNCHANGED <<closeTimeout, objVars, loopVars, wire, finSent, accepted, calls,
                 asked, outcome, closeCbs, crashed>>

ConnectOk ==
  /\ ksock = "syn"
  /\ ksock' = "est"
  /\ Kernel
  /\ UNCHANGED <<soerr, rx, rfin, acked, nospace, rcvd>>

\* A refused connection, or a reset one.
Reset ==
  /\ ksock \in {"syn", "est"}
  /\ ksock' = "dead"
  /\ soerr' = TRUE
  /\ Kernel
  /\ UNCHANGED <<rx, rfin, acked, nospace, rcvd>>

PeerSends ==
  /\ ksock = "est"
  /\ ~rfin
  /\ rcvd < MaxRx
  /\ rcvd' = rcvd + 1
  /\ rx' = rx + 1
  /\ Kernel
  /\ UNCHANGED <<ksock, soerr, rfin, acked, nospace>>

PeerFin ==
  /\ ksock = "est"
  /\ ~rfin
  /\ rfin' = TRUE
  /\ Kernel
  /\ UNCHANGED <<ksock, soerr, rx, acked, nospace, rcvd>>

\* The peer acknowledges what it was sent; a wakeup only if one was due.
PeerAcks ==
  /\ ksock = "est"
  /\ acked < Len(wire)
  /\ acked' = Len(wire)
  /\ nospace' = FALSE
  /\ edge' = (edge \/ (nospace /\ interest # {}))
  /\ UNCHANGED <<closeTimeout, objVars, loopVars, ksock, soerr, rx, rfin, wire,
                 finSent, histVars>>

-----------------------------------------------------------------------------
Calls ==
  \/ \E n \in Sizes : CallSend(n)
  \/ CallShutdown
  \/ CallClose
  \/ CallConnect
  \/ CallConnectSync
  \/ PostCall
  \/ PostConnect

PollThread ==
  \/ RunTask
  \/ EpollWait
  \/ HandleEvent
  \/ UserReturns
  \/ HandleConnectEvent
  \/ HandleReadEvent
  \/ HandleCloseEvent
  \/ WriteSome
  \/ WriteBlocked
  \/ WriteFails
  \/ WriteDone
  \/ WatermarkDone
  \/ CloseDone

TimerThread == TimerExtract \/ TimerCallback

Network == ConnectOk \/ Reset \/ PeerSends \/ PeerFin \/ PeerAcks

Next == Calls \/ PollThread \/ TimerThread \/ Network

Spec == Init /\ [][Next]_vars

\* The threads are scheduled, the time of the close timer comes, and a
\* connection attempt has a result.  Nothing is assumed about the
\* application and the peer.
Fairness ==
  /\ WF_vars(PollThread)
  /\ WF_vars(TimerThread)
  /\ WF_vars(ConnectOk \/ (ksock = "syn" /\ Reset))

FairSpec == Spec /\ Fairness
-----------------------------------------------------------------------------
(* Properties.                                                             *)

\* Bytes leave in the order in which send() took them, none twice and none
\* left out, whether a message was written at once, in part, or buffered
\* behind others, also when send() is called again from a callback.
BytesInOrder ==
  /\ TypeOK
  /\ wire \o wbuf = [i \in 1..accepted |-> i]

\* EPOLLOUT is asked for exactly while there is something to write: no busy
\* loop on a writable socket, no bytes nobody will come back for.
WriteInterest ==
  (Quiet /\ chan = "io") => ("W" \in interest <=> wbuf # <<>>)

\* With edge-triggered epoll a notification that was consumed does not come
\* again.  While bytes wait to be written, one is to come: listed, reported,
\* or due when the full socket drains.  send() stops at its direct-write
\* budget with room left in the socket; the new registration has to make up
\* for the edge it does not get.
WritableEdgeKept ==
  (Quiet /\ wbuf # <<>> /\ ksock = "est") =>
    \/ edge
    \/ pend.ev \cap {"W", "E", "H"} # {}
    \/ nospace /\ Space = 0

\* The same for what can be received, the end of the stream included: it was
\* received up to EAGAIN, or another event is to come.
ReadableEdgeKept ==
  (Quiet /\ state = "Connected" /\ (rx > 0 \/ rfin \/ ksock = "dead")) =>
    edge \/ pend.ev \cap {"R", "E", "H"} # {}

\* The close callbacks run once, however close(), shutdown(), the peer's FIN
\* or reset, a failing send, and the close timer meet; and no descriptor is
\* closed without them, but that of a connection attempt reported as failed.
ClosedOnce ==
  /\ closeCbs <= 1
  /\ (Quiet /\ ksock = "closed") =>
       \/ closeCbs = 1
       \/ outcome = "err"

\* When it is over nothing is left: no descriptor, no registration, no
\* Channel, and no timer that could close another Conn's successor.
AllReleased ==
  (Quiet /\ closeCbs = 1) =>
    /\ state = "Disconnected"
    /\ ~HandleOpen
    /\ interest = {}
    /\ chan = "none"
    /\ ~timerId
    /\ timer # "armed"

\* shutdown() cuts nothing off: when it sends the FIN (not when a close
\* does) no accepted byte is left in write_buffer_, and nothing is written
\* after shut_wr, which would raise SIGPIPE.
FinIsLast ==
  [][/\ finSent => wire' = wire
     /\ finSent' /\ ~finSent /\ HandleOpen' => wbuf' = <<>>]_vars

\* high_watermark_warning_ tells on which side of the hysteresis the buffer
\* is: set above the high mark, cleared at or below the low one; also when the
\* high watermark's callback sends, and the flag is only written after it.
WatermarkHysteresis ==
  (Quiet /\ state \in {"Connected", "Disconnecting"}) =>
    /\ Len(wbuf) > High => warned
    /\ warned => Len(wbuf) > Low

\* channel_ is never used after a callback has closed the connection.
NoNullChannel == ~crashed

\* With a peer that reads, what send() buffered gets written, and shutdown()
\* then gets to its FIN even without a close timeout, or the connection ends.
OutputDrained ==
  WF_vars(PeerAcks) =>
    (state = "Disconnecting" \/ wbuf # <<>>) ~>
      \/ wbuf = <<>> /\ (state = "Disconnecting" => finSent)
      \/ state = "Disconnected"

\* With a close timeout, shutdown() ends the connection whatever the peer does.
ShutdownCloses ==
  (closeTimeout /\ state = "Disconnecting") ~> state = "Disconnected"

\* A connection attempt is answered by one of the two callbacks of connect(),
\* unless the application gives it up.  One exception: a refusal, or a reset
\* that comes before the answer, is reported as an error, for which the Channel
\* of an attempt has no callback.
ConnectAnswered ==
  state = "Connecting" ~> (state # "Connecting" \/ ksock = "dead")
=============================================================================
