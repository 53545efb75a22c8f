------------------------------- MODULE Poller -------------------------------
(***************************************************************************)
(* One round of IOEventPoll::poll_ after the other: EpollPoller            *)
(* (poller_for_epoll.cc) or KqueuePoller (poller_for_kqueue.cc) collects   *)
(* the Channels that have events, their callbacks run one by one, then the *)
(* closures.  Callbacks and closures make Channels, change what they wait  *)
(* for, close descriptors, which the kernel gives out again at once, and   *)
(* drop Channels of which active_channels_, channels_ or the kernel may    *)
(* still hold the address.                                                 *)
(*                                                                         *)
(* A Channel is of an Acceptor ("listen"), of a Conn that is connecting    *)
(* ("connect") or of one that is up ("conn").  What its owner does besides *)
(* is left out: Conn and Server have it.                                   *)
(***************************************************************************)
EXTENDS Naturals, Sequences

CONSTANTS
  Backends,           \* of {"epoll", "kqueue"}
  Fds,                \* descriptors
  Conditions,         \* of {"IN", "OUT", "RDHUP", "HUP", "ERR"}: what happens
  ShutdownInCallback, \* Acceptor::shutdown_in_poll_ is called from callbacks,
                      \* as Server::shutdown can be in kAllOneThread
  MaxChannels         \* bound: Channels ever made

ASSUME PollerAssumption ==
  /\ Backends \subseteq {"epoll", "kqueue"}
  /\ Conditions \subseteq {"IN", "OUT", "RDHUP", "HUP", "ERR"}
  /\ ShutdownInCallback \in BOOLEAN
  /\ MaxChannels \in Nat

VARIABLES
  backend,  \* which poller this is
  st,       \* the Channels, the poller's tables and the kernel's, see Init
  pc,       \* of poll_: "wait", "dispatch" or "closures"
  active,   \* active_channels_ not yet dispatched, each with its result_events_
            \* and the socket they are of
  running,  \* the Channel in handle_event, 0: none
  calls     \* its callbacks that have not returned; the first one runs

vars == <<backend, st, pc, active, running, calls>>

NotListed == [ptr |-> 0, ev |-> {}]

Init ==
  /\ backend \in Backends
  /\ st = [open       |-> [f \in Fds |-> 0],         \* the socket, 0: closed
           kern       |-> [f \in Fds |-> NotListed], \* the kernel's interest list
           channels   |-> [f \in Fds |-> 0],         \* channels_
           registered |-> [f \in Fds |-> {}],        \* registered_events_
           chan       |-> <<>>,                      \* the Channels made so far
           later      |-> {},     \* Channels in closures posted with run_later
           dying      |-> {},     \* Channels in closures of this round
           ensured    |-> TRUE]   \* no ENSURE has failed
  /\ pc = "closures"
  /\ active = <<>>
  /\ running = 0
  /\ calls = <<>>

-----------------------------------------------------------------------------
(* EpollPoller.                                                            *)

\* EpollPoller::update.  The kernel refuses to add a descriptor twice, and to
\* modify or delete what is not there.
EpollCtl(s, op, c) ==
  LET f  == s.chan[c].fd
      ok == s.open[f] # 0 /\ (op = "add" <=> s.kern[f] = NotListed)
  IN [s EXCEPT
        !.kern[f] = IF ~ok THEN @
                    ELSE IF op = "del" THEN NotListed
                    ELSE [ptr |-> c, ev |-> s.chan[c].ev],
        !.ensured = @ /\ (ok \/ op = "del")]

\* EpollPoller::update_channel
EpollUpdate(s, c) ==
  LET f  == s.chan[c].fd
      ev == s.chan[c].ev
  IN CASE ~s.chan[c].reg /\ ev = {} -> s
       [] ~s.chan[c].reg /\ ev # {} ->
            EpollCtl([s EXCEPT !.channels[f] = c, !.chan[c].reg = TRUE], "add", c)
       [] s.chan[c].reg /\ ev # {} -> EpollCtl(s, "mod", c)
       [] s.chan[c].reg /\ ev = {} ->
            [EpollCtl(s, "del", c) EXCEPT !.channels[f] = 0, !.chan[c].reg = FALSE]

\* EpollPoller::remove_channel
EpollRemove(s, c) ==
  LET f == s.chan[c].fd IN
  IF ~s.chan[c].reg THEN s
  ELSE [s EXCEPT !.channels[f] = 0, !.chan[c].reg = FALSE,
                 !.ensured = @ /\ s.channels[f] = c]

\* EpollPoller::to_epoll_events
ToEpoll(ev) ==
  (IF "R" \in ev THEN {"IN", "RDHUP"} ELSE {})
  \cup (IF "W" \in ev THEN {"OUT"} ELSE {})

\* EpollPoller::from_epoll_events
FromEpoll(e) ==
  {r \in {"R", "W", "E", "H"} :
     \/ r = "R" /\ "IN" \in e
     \/ r = "W" /\ "OUT" \in e
     \/ r = "E" /\ "ERR" \in e
     \/ r = "H" /\ {"HUP", "RDHUP"} \cap e # {}}

\* What epoll_wait can report of a descriptor.
EpollEvents(f) ==
  {FromEpoll(e) :
     e \in (SUBSET (Conditions \cap (ToEpoll(st.kern[f].ev) \cup {"ERR", "HUP"}))) \ {{}}}

\* Whom EpollPoller::fill_active_channels tells of it: the address the kernel
\* has kept, if its descriptor is in channels_.
EpollTarget(f) ==
  LET c == st.kern[f].ptr IN
  IF c = 0 \/ st.channels[st.chan[c].fd] = 0 THEN 0 ELSE c

-----------------------------------------------------------------------------
(* KqueuePoller.                                                           *)

\* Mutant: nothing is ever unregistered.
KqueueCtlAddsOnly(s, f, add, del) ==
  [s EXCEPT !.kern[f].ev = @ \cup add]

\* register_read, register_write, unregister_read and unregister_write: the
\* filters that are new, and those that are not wanted any more.
KqueueCtl(s, f, add, del) ==
  LET ok == s.open[f] # 0 IN
  [s EXCEPT !.kern[f].ev = IF ok THEN (@ \cup add) \ del ELSE @,
            !.ensured = @ /\ (ok \/ add = {})]

\* Mutant: registered_events_ keeps its entry when the Channel's is erased.
KqueueUpdateKeepsEvents(s, c) ==
  LET f   == s.chan[c].fd
      ev  == s.chan[c].ev
      old == s.registered[f]
      t   == KqueueCtl(s, f, ev \ old, old \ ev)
  IN IF ev = {}
     THEN [t EXCEPT !.channels[f] = 0, !.chan[c].reg = FALSE]
     ELSE [t EXCEPT !.channels[f] = c, !.registered[f] = ev, !.chan[c].reg = TRUE]

\* KqueuePoller::update_channel.  The old events are looked up by descriptor,
\* and a descriptor that is in channels_ keeps the Channel it has there.
KqueueUpdate(s, c) ==
  LET f     == s.chan[c].fd
      ev    == s.chan[c].ev
      old   == s.registered[f]
      isNew == s.channels[f] = 0
      t     == KqueueCtl(s, f, ev \ old, old \ ev)
  IN CASE ev = {} /\ isNew  -> t
       [] ev = {} /\ ~isNew ->
            [t EXCEPT !.channels[f] = 0, !.registered[f] = {}, !.chan[c].reg = FALSE]
       [] ev # {} /\ isNew  ->
            [t EXCEPT !.channels[f] = c, !.registered[f] = ev, !.chan[c].reg = TRUE]
       [] ev # {} /\ ~isNew -> [t EXCEPT !.registered[f] = ev]

\* KqueuePoller::remove_channel
KqueueRemove(s, c) ==
  LET f == s.chan[c].fd IN
  IF s.channels[f] = 0 THEN s
  ELSE [KqueueCtl(s, f, {}, s.registered[f]) EXCEPT
          !.channels[f] = 0, !.registered[f] = {}, !.chan[c].reg = FALSE]

\* KqueuePoller::from_kqueue_events
FromKqueue(e) ==
  {e.filter}
  \cup (IF "ERR" \in e.flags THEN {"E"} ELSE {})
  \cup (IF "EOF" \in e.flags THEN {"H"} ELSE {})

\* What kevent can report of a descriptor; a filter that is ready has its own
\* entry, and fill_active_channels merges them.
KqueueEvents(f) ==
  LET ready == {r \in st.kern[f].ev : (IF r = "R" THEN "IN" ELSE "OUT") \in Conditions}
      flags == {x \in {"ERR", "EOF"} :
                  (IF x = "ERR" THEN {"ERR"} ELSE {"RDHUP", "HUP"}) \cap Conditions # {}}
  IN {UNION {FromKqueue(e) : e \in es} :
        es \in (SUBSET [filter : ready, flags : SUBSET flags]) \ {{}}}

\* Whom KqueuePoller::fill_active_channels tells of it.
KqueueTarget(f) == st.channels[f]

-----------------------------------------------------------------------------
(* Channel, and its owners.  An operator gives the state after the call.   *)

\* Channel::update_ and Channel::remove
UpdateChannel(s, c) == IF backend = "epoll" THEN EpollUpdate(s, c) ELSE KqueueUpdate(s, c)
RemoveChannel(s, c) == IF backend = "epoll" THEN EpollRemove(s, c) ELSE KqueueRemove(s, c)

\* Channel::add_read_event, add_write_event, remove_write_event, clear_event
SetEvents(s, c, ev) == UpdateChannel([s EXCEPT !.chan[c].ev = ev], c)

\* The constructor, and the first registration of the new Channel.
NewChannel(s, kind, f, sock, ev) ==
  SetEvents([s EXCEPT !.chan = Append(@,
               [kind |-> kind, fd |-> f, sock |-> sock, ev |-> {}, reg |-> FALSE,
                live |-> TRUE])],
            Len(s.chan) + 1, ev)

\* Platform::close_handle; the kernel forgets what was registered for it.
CloseHandle(s, f) == [s EXCEPT !.open[f] = 0, !.kern[f] = NotListed]

\* Freed memory; all but what it still asks for is forgotten.
Freed(ch) == [ch EXCEPT !.live = FALSE, !.kind = "none", !.sock = 0]

\* channel_.reset()
Reset(s, c) == [s EXCEPT !.chan[c] = Freed(@)]

Unregister(s, c) == RemoveChannel(SetEvents(s, c, {}), c)

\* Its owner still has it: it is there, and so is its socket.
Owned(s, c) == s.chan[c].live /\ s.open[s.chan[c].fd] = s.chan[c].sock

\* Mutant: the descriptor is closed and the Channel stays in the tables.
DoCleanupStaysListed(s, c) ==
  [CloseHandle(s, s.chan[c].fd) EXCEPT !.later = @ \cup {c}]

\* Mutant: the Channel is destroyed at once, like those of the others.
DoCleanupAtOnce(s, c) ==
  Reset(CloseHandle(Unregister(s, c), s.chan[c].fd), c)

\* Conn::do_cleanup_: the Channel is left to a closure.
DoCleanup(s, c) ==
  [CloseHandle(Unregister(s, c), s.chan[c].fd) EXCEPT !.later = @ \cup {c}]

\* Conn::handle_connect_event_: the attempt has failed ...
ConnectFailed(s, c) == Reset(CloseHandle(Unregister(s, c), s.chan[c].fd), c)

\* Mutant: the old Channel is not unregistered first.
ConnectedOver(s, c) ==
  NewChannel(Reset(s, c), "conn", s.chan[c].fd, s.chan[c].sock, {"R"})

\* ... or start_ puts another Channel in its place.
Connected(s, c) ==
  NewChannel(Reset(Unregister(s, c), c), "conn", s.chan[c].fd, s.chan[c].sock, {"R"})

\* Acceptor::shutdown_in_poll_
ShutdownAcceptor(s, c) == Reset(CloseHandle(Unregister(s, c), s.chan[c].fd), c)

-----------------------------------------------------------------------------
(* poll_: waiting and dispatching.                                         *)

Target(f) == IF backend = "epoll" THEN EpollTarget(f) ELSE KqueueTarget(f)
Events(f) == IF backend = "epoll" THEN EpollEvents(f) ELSE KqueueEvents(f)

\* What can be reported of a descriptor: the Channel, with its result_events_.
Reports(f) == {[c |-> Target(f), ev |-> e, of |-> st.open[f]] : e \in Events(f)}

\* poll(): some of the descriptors that have events are reported, as many as
\* fit into events_, in any order.  There are no more of them than Channels.
Wait ==
  /\ pc = "wait"
  /\ \E n \in 0..Len(st.chan) : \E ready \in [1..n -> {f \in Fds : Target(f) # 0}] :
       /\ \A i, j \in 1..n : ready[i] = ready[j] => i = j
       /\ active' \in [1..n -> UNION {Reports(f) : f \in Fds}]
       /\ \A i \in 1..n : active'[i] \in Reports(ready[i])
  /\ pc' = "dispatch"
  /\ UNCHANGED <<backend, st, running, calls>>

\* Channel::handle_event_: the callbacks that are set and due, in order.  One
\* of a Conn that is closed does nothing.
Callbacks(a) ==
  LET kind   == st.chan[a.c].kind
      failed == {"E", "H"} \cap a.ev # {}
  IN (IF "R" \in a.ev /\ kind # "connect" THEN <<"read">> ELSE <<>>)
     \o (IF failed /\ kind = "conn" THEN <<"close">> ELSE <<>>)
     \o (IF ~failed /\ "W" \in a.ev /\ kind # "listen" THEN <<"write">> ELSE <<>>)

\* The bound: a Channel can still be made.
Room == Len(st.chan) < MaxChannels

\* What the library does in a callback before it calls the user's: the
\* connection attempt has ended, or the connection is cleaned up.
Entered(cb, c) ==
  IF ~Owned(st, c) THEN {st}
  ELSE IF cb = "close" THEN {DoCleanup(st, c)}
  ELSE IF cb = "write" /\ st.chan[c].kind = "connect"
       THEN {ConnectFailed(st, c)} \cup (IF Room THEN {Connected(st, c)} ELSE {})
  ELSE {st}

\* The next Channel's handle_event.
HandleEvent ==
  /\ pc = "dispatch"
  /\ running = 0
  /\ active # <<>>
  /\ active' = Tail(active)
  /\ LET c == Head(active).c IN
     /\ st.chan[c].live
     /\ calls' = Callbacks(Head(active))
     /\ IF calls' = <<>>
        THEN UNCHANGED <<st, running>>
        ELSE running' = c /\ st' \in Entered(Head(calls'), c)
  /\ UNCHANGED <<backend, pc>>

\* A callback returns.  After the read callback handle_event_ looks at the
\* Channel's members again, the others are its last step.
Return ==
  /\ running # 0
  /\ Head(calls) = "read" => st.chan[running].live
  /\ calls' = Tail(calls)
  /\ IF calls' = <<>>
     THEN running' = 0 /\ UNCHANGED st
     ELSE st' \in Entered(Head(calls'), running) /\ UNCHANGED running
  /\ UNCHANGED <<backend, pc, active>>

\* All are dispatched, and the closures' turn comes.
SwapTasks ==
  /\ pc = "dispatch"
  /\ running = 0
  /\ active = <<>>
  /\ pc' = "closures"
  /\ st' = [st EXCEPT !.dying = st.later, !.later = {}]
  /\ UNCHANGED <<backend, active, running, calls>>

\* poll_ returns, and the closures with the Channels they hold go.
PollReturns ==
  /\ pc = "closures"
  /\ pc' = "wait"
  /\ st' = [st EXCEPT
       !.chan = [c \in DOMAIN @ |-> IF c \in st.dying THEN Freed(@[c]) ELSE @[c]],
       !.dying = {}]
  /\ UNCHANGED <<backend, active, running, calls>>

-----------------------------------------------------------------------------
(* What callbacks and closures do.                                         *)

InCode == running # 0 \/ pc = "closures"

Step(s) ==
  /\ st' = s
  /\ UNCHANGED <<backend, pc, active, running, calls>>

\* Acceptor::listen, Conn::start_connect_in_poll_, and Conn::start_ of an
\* accepted connection.
Open(kind) ==
  /\ InCode
  /\ Room
  /\ \E f \in Fds :
       /\ st.open[f] = 0
       /\ LET sock == Len(st.chan) + 1 IN
          Step(NewChannel([st EXCEPT !.open[f] = sock], kind, f, sock,
                          IF kind = "connect" THEN {"W"} ELSE {"R"}))

\* Bytes are left over, or have been written: the write event comes and goes.
ToggleWrite(c) ==
  /\ InCode
  /\ Owned(st, c) /\ st.chan[c].kind = "conn"
  /\ \/ "W" \notin st.chan[c].ev /\ Step(SetEvents(st, c, st.chan[c].ev \cup {"W"}))
     \/ "W" \in st.chan[c].ev /\ Step(SetEvents(st, c, st.chan[c].ev \ {"W"}))

\* Conn::cleanup_, of any connection.
Cleanup(c) ==
  /\ InCode
  /\ Owned(st, c) /\ st.chan[c].kind # "listen"
  /\ Step(DoCleanup(st, c))

\* Acceptor::shutdown
Shutdown(c) ==
  /\ pc = "closures" \/ (ShutdownInCallback /\ running # 0)
  /\ Owned(st, c) /\ st.chan[c].kind = "listen"
  /\ Step(ShutdownAcceptor(st, c))

-----------------------------------------------------------------------------
Next ==
  \/ Wait
  \/ HandleEvent
  \/ Return
  \/ SwapTasks
  \/ PollReturns
  \/ \E kind \in {"listen", "connect", "conn"} : Open(kind)
  \/ \E c \in DOMAIN st.chan : ToggleWrite(c) \/ Cleanup(c) \/ Shutdown(c)

Spec == Init /\ [][Next]_vars

-----------------------------------------------------------------------------
(* Properties.                                                             *)

Made == DOMAIN st.chan

\* channels_, registered_events_, registered_ and the kernel say the same:
\* every Channel that waits for something is listed, for exactly that, and
\* nothing else is, although the pollers derive what to tell the kernel from
\* what they remember by descriptor, and descriptors come back.
TablesAgree ==
  /\ \A c \in Made : LET ch == st.chan[c] IN
       /\ ch.live /\ ch.ev # {} =>
            /\ Owned(st, c)
            /\ ch.reg
            /\ st.channels[ch.fd] = c
            /\ st.kern[ch.fd].ev = ch.ev
            /\ backend = "kqueue" => st.registered[ch.fd] = ch.ev
            /\ backend = "epoll" => st.kern[ch.fd].ptr = c
       /\ ch.ev = {} => ~ch.reg
  /\ \A f \in Fds : LET c == st.channels[f] IN
       IF c # 0 THEN st.chan[c].live /\ st.chan[c].fd = f /\ st.chan[c].ev # {}
                ELSE st.kern[f] = NotListed /\ st.registered[f] = {}

\* "EPOLL_CTL_MOD/ADD: the descriptor should be valid": the kernel refuses
\* none of the registrations, and remove_channel finds its Channel.
EnsuresHold == st.ensured

\* The poll uses no Channel that has been destroyed: neither the ones in
\* active_channels_, whatever the callbacks before them have closed, nor the
\* one whose read callback is about to return to it.
NoDanglingUse ==
  /\ \A i \in DOMAIN active : st.chan[active[i].c].live
  /\ calls # <<>> /\ Head(calls) = "read" => st.chan[running].live

\* A Channel is told of the events of its own socket, not of one that was
\* given the same descriptor later or had it before.
OwnEvents ==
  \A i \in DOMAIN active : active[i].of = st.chan[active[i].c].sock

Abstract == INSTANCE Demultiplexer WITH
  Channels <- 1..MaxChannels,
  want <- [c \in 1..MaxChannels |-> IF c \in Made THEN st.chan[c].ev ELSE {}],
  due  <- [i \in DOMAIN active |-> [c |-> active[i].c, ev |-> active[i].ev]]

\* Owners of Channels are told of what they have asked for, and of nothing
\* else, by either poller.
ImplementsDemultiplexer == Abstract!Spec
=============================================================================
