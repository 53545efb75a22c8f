-------------------------- MODULE ConnEventProofs ---------------------------
(***************************************************************************)
(* Proofs about Conn, continued: the handlers of events, the kernel and    *)
(* the peer keep the inductive invariant of ConnProofs, and what follows   *)
(* from it.                                                                *)
(***************************************************************************)
EXTENDS ConnProofs

-----------------------------------------------------------------------------
(* Events and their handlers.                                              *)

LEMMA EventsProps ==
  /\ Events \subseteq {"R", "W", "E", "H"}
  /\ "R" \in Events <=> "R" \in interest /\ (rx > 0 \/ rfin \/ ksock = "dead")
  /\ "W" \in Events <=> "W" \in interest /\ ((ksock = "est" /\ Space > 0) \/ ksock = "dead")
BY Zenon DEF Events

\* There is nothing to report while the attempt is under way.
LEMMA EventsSyn ==
  ksock = "syn" /\ ~soerr /\ "R" \notin interest /\ ~finSent => Events = {}
BY Zenon DEF Events

\* epoll_wait: what it takes off the list it reports, or is asked for again.
LEMMA EpollWaitIInv == IInv /\ EpollWait => IInv'
<1> SUFFICES ASSUME IInv, EpollWait PROVE IInv'
  OBVIOUS
<1>1. /\ UNCHANGED <<state, chan, interest, wbuf, warned, timerId, cleanupDone>>
      /\ UNCHANGED <<closeTimeout, stack, tasks, timer, ksock, soerr, rx, rfin, wire, acked, finSent>>
      /\ UNCHANGED <<accepted, calls, rcvd, asked, outcome, closeCbs, crashed>>
      /\ stack = <<>> /\ interest # {} /\ edge' = FALSE
  BY DEF EpollWait, objVars, histVars, Quiet
<1> PICK ev : ev = Events
  OBVIOUS
<1>2. /\ pend' = IF ev = {} THEN NoEvent ELSE [kind |-> chan, ev |-> ev]
      /\ nospace' = (nospace \/ ("W" \in interest /\ "W" \notin ev))
  BY DEF EpollWait
<1>3. /\ ev \subseteq {"R", "W", "E", "H"}
      /\ "R" \in ev <=> "R" \in interest /\ (rx > 0 \/ rfin \/ ksock = "dead")
      /\ "W" \in ev <=> "W" \in interest /\ ((ksock = "est" /\ Space > 0) \/ ksock = "dead")
  BY EventsProps, Zenon
<1>4. /\ Begun /\ (Connecting \/ Up \/ Ending)
      /\ cleanupDone <=> closeCbs = 1
      /\ timer = "armed" => timerId
  BY <1>1 DEF IInv, Phases, Fresh, Failed, Over
<1>5. pend'.kind = (IF ev = {} THEN "none" ELSE chan) /\ pend'.ev = ev
  BY <1>2, Zenon DEF NoEvent
<1>6. TypeOK'
  <2>1. nospace' \in BOOLEAN /\ edge' \in BOOLEAN
    BY <1>1, <1>2, Zenon
  <2>2. pend' \in [kind : {"none", "connect", "io"}, ev : SUBSET {"R", "W", "E", "H"}]
    BY <1>2, <1>3, Zenon DEF IInv, TypeOK, NoEvent
  <2> QED BY <1>1, <2>1, <2>2, ZenonT(60) DEF IInv, TypeOK
<1>7. Bytes'
  BY <1>1, Zenon DEF IInv, Bytes
<1>8. Phases'
  <2>1. Begun'
    BY <1>1, <1>4 DEF Begun
  <2> QED BY <1>1, <1>4, <2>1, Zenon DEF Phases, Connecting, Up, Ending
<1>9. \A f : ~In(f, stack) /\ ~In(f, stack')
  BY <1>1, StackEmpty, Zenon
<1>10. Reported'
  <2>1. chan # "connect" /\ "W" \in ev => wbuf # <<>>
    BY <1>3, <1>4, <1>9, Zenon DEF IInv, Writing, Connecting, Up, Ending
  <2> QED BY <1>1, <1>2, <1>5, <1>9, <2>1, Zenon DEF IInv, Reported
<1>11. Writing'
  BY <1>1, Zenon DEF IInv, Writing
<1>12. Edges'
  <2>1. Space' = Space /\ Space \in Nat
    BY <1>1, SpaceProps, SMTT(30) DEF Space
  <2>2. wbuf # <<>> => "W" \in interest
    BY <1>4, SMTT(30) DEF IInv, Writing, Connecting, Up, Ending
  <2>3. wbuf # <<>> /\ ksock = "est" => "W" \in ev \/ (nospace' /\ Space = 0)
    <3>1. "W" \in interest /\ "W" \notin ev => nospace'
      BY <1>2, Zenon
    <3>2. "W" \in interest /\ "W" \notin ev /\ ksock = "est" => Space = 0
      BY <1>3, <2>1, SMTT(30)
    <3> QED BY <2>2, <3>1, <3>2, Zenon
  <2>4. state = "Connected" /\ (rx > 0 \/ rfin \/ ksock = "dead") => "R" \in ev
    BY <1>3, <1>4, Zenon DEF Connecting, Up, Ending
  <2> QED BY <1>1, <1>5, <2>1, <2>3, <2>4, Zenon DEF Edges
<1>13. Marks' /\ LoopHasChannel'
  BY <1>1, Zenon DEF IInv, Marks, LoopHasChannel
<1>14. Attempt'
  <2>1. ksock = "syn" => ev = {}
    <3>1. ASSUME ksock = "syn" PROVE ~soerr /\ "R" \notin interest /\ ~finSent
      BY <1>4, <3>1 DEF IInv, Attempt, Connecting, Up, Ending
    <3> QED BY <3>1, EventsSyn, SMTT(30)
  <2>2. ksock # "none"
    BY <1>4, SMTT(30) DEF Connecting, Up, Ending
  <2> QED BY <1>1, <1>2, <1>9, <2>1, <2>2, Zenon DEF IInv, Attempt
<1>15. Cleaned'
  BY <1>1 DEF IInv, Cleaned
<1> QED BY <1>6, <1>7, <1>8, <1>10, <1>11, <1>12, <1>13, <1>14, <1>15, Zenon DEF IInv

\* Two callbacks, one after the other.
LEMMA Pair ==
  ASSUME NEW S, NEW x \in S, NEW y \in S
  PROVE  <<x, y>> \in Seq(S) /\ <<x>> \o <<y>> = <<x, y>> /\ Append(<<x>>, y) = <<x, y>>
<1>1. /\ <<x>> \in Seq(S) /\ <<y>> \in Seq(S) /\ <<x, y>> \in Seq(S)
      /\ Len(<<x>>) = 1 /\ Len(<<y>>) = 1 /\ Len(<<x, y>>) = 2
      /\ <<x>>[1] = x /\ <<y>>[1] = y /\ <<x, y>>[1] = x /\ <<x, y>>[2] = y
  OBVIOUS
<1>2. ASSUME NEW s \in Seq(S), Len(s) = 2, s[1] = x, s[2] = y
      PROVE  s = <<x, y>>
  <2> PICK t : t = <<x, y>>
    BY Zenon
  <2>1. t \in Seq(S) /\ Len(t) = 2 /\ t[1] = x /\ t[2] = y
    BY <1>1
  <2>2. \A i \in 1..Len(s) : i = 1 \/ i = 2
    BY <1>2
  <2>3. \A i \in 1..Len(s) : s[i] = t[i]
    BY <1>2, <2>1, <2>2
  <2> QED BY <1>2, <2>1, <2>3, SeqEqual, SMTT(30)
<1>3. PICK u : u = <<x>> \o <<y>>
  BY Zenon
<1>4. u \in Seq(S) /\ Len(u) = 2 /\ u[1] = x /\ u[2] = y
  BY <1>1, <1>3
<1>5. PICK v : v = Append(<<x>>, y)
  BY Zenon
<1>6. v \in Seq(S) /\ Len(v) = 2 /\ v[1] = x /\ v[2] = y
  BY <1>1, <1>5, SMTT(30)
<1>7. u = <<x, y>> /\ v = <<x, y>>
  BY <1>2, <1>4, <1>6, Zenon
<1> QED BY <1>1, <1>3, <1>5, <1>7, Zenon

\* The callbacks an event leads to.
LEMMA EventStacks ==
  /\ \A f : In(f, <<"connectEvent">>) <=> f = "connectEvent"
  /\ \A f : In(f, <<"closeEvent">>) <=> f = "closeEvent"
  /\ \A f : In(f, <<"read">>) <=> f = "read"
  /\ \A f : In(f, <<"read", "closeEvent">>) <=> f \in {"read", "closeEvent"}
  /\ \A f : In(f, <<"read", "writeLoop">>) <=> f \in {"read", "writeLoop"}
  /\ Layout(<<"connectEvent">>) /\ Layout(<<"closeEvent">>) /\ Layout(<<"read">>)
  /\ Layout(<<"read", "closeEvent">>) /\ Layout(<<"read", "writeLoop">>)
BY DEF In, Layout

LEMMA EventCases ==
  ASSUME NEW ev, NEW kind, NEW reads, NEW s,
         reads = IF "R" \in ev THEN <<"read">> ELSE <<>>,
         s = CASE kind = "connect" /\ ev \cap {"E", "H"} # {} -> <<>>
               [] kind = "connect" /\ ~(ev \cap {"E", "H"} # {}) -> <<"connectEvent">>
               [] kind = "io" /\ ev \cap {"E", "H"} # {} -> Append(reads, "closeEvent")
               [] OTHER -> reads \o (IF "W" \in ev THEN <<"writeLoop">> ELSE <<>>)
  PROVE  \/ kind = "connect" /\ s = <<>>
         \/ kind = "connect" /\ s = <<"connectEvent">>
         \/ kind = "io" /\ ev \cap {"E", "H"} # {} /\ s = Append(reads, "closeEvent")
         \/ /\ kind # "connect" /\ (kind = "io" => ev \cap {"E", "H"} = {})
            /\ s = reads \o (IF "W" \in ev THEN <<"writeLoop">> ELSE <<>>)
BY Zenon

LEMMA HandleEventStack ==
  ASSUME HandleEvent
  PROVE  /\ stack' \in Seq(Frames) /\ Layout(stack')
         /\ \A f : In(f, stack') => f \in {"connectEvent", "read", "closeEvent", "writeLoop"}
         /\ In("writeLoop", stack') => pend.kind # "connect" /\ "W" \in pend.ev
         /\ pend.kind = "io" /\ pend.ev \cap {"R", "E", "H"} # {} =>
              In("read", stack') \/ In("closeEvent", stack')
         /\ pend.kind = "io" /\ pend.ev \cap {"W", "E", "H"} # {} =>
              In("writeLoop", stack') \/ In("closeEvent", stack')
<1> PICK ev, kind, s : ev = pend.ev /\ kind = pend.kind /\ s = stack'
  OBVIOUS
<1> PICK reads : reads = IF "R" \in ev THEN <<"read">> ELSE <<>>
  BY Zenon
<1>1. \/ kind = "connect" /\ s = <<>>
      \/ kind = "connect" /\ s = <<"connectEvent">>
      \/ kind = "io" /\ ev \cap {"E", "H"} # {} /\ s = Append(reads, "closeEvent")
      \/ /\ kind # "connect" /\ (kind = "io" => ev \cap {"E", "H"} = {})
         /\ s = reads \o (IF "W" \in ev THEN <<"writeLoop">> ELSE <<>>)
  <2>1. s = CASE kind = "connect" /\ ev \cap {"E", "H"} # {} -> <<>>
              [] kind = "connect" /\ ~(ev \cap {"E", "H"} # {}) -> <<"connectEvent">>
              [] kind = "io" /\ ev \cap {"E", "H"} # {} -> Append(reads, "closeEvent")
              [] OTHER -> reads \o (IF "W" \in ev THEN <<"writeLoop">> ELSE <<>>)
    BY Zenon DEF HandleEvent
  <2> QED BY <2>1, EventCases, Zenon
<1>2. \/ kind = "connect" /\ s = <<>>
      \/ kind = "connect" /\ s = <<"connectEvent">>
      \/ kind = "io" /\ s \in {<<"read", "closeEvent">>, <<"closeEvent">>}
      \/ /\ kind # "connect" /\ (kind = "io" => ev \cap {"E", "H"} = {})
         /\ \/ "R" \in ev /\ "W" \in ev /\ s = <<"read", "writeLoop">>
            \/ "R" \in ev /\ "W" \notin ev /\ s = <<"read">>
            \/ "R" \notin ev /\ "W" \in ev /\ s = <<"writeLoop">>
            \/ "R" \notin ev /\ "W" \notin ev /\ s = <<>>
  <2>1. /\ Append(<<"read">>, "closeEvent") = <<"read", "closeEvent">>
        /\ <<"read">> \o <<"writeLoop">> = <<"read", "writeLoop">>
    <3>1. \A y \in {"read", "closeEvent", "writeLoop"} :
            <<"read">> \o <<y>> = <<"read", y>> /\ Append(<<"read">>, y) = <<"read", y>>
      BY Pair
    <3> QED BY <3>1, Zenon
  <2>2. /\ Append(<<>>, "closeEvent") = <<"closeEvent">>
        /\ <<"read">> \o <<>> = <<"read">>
        /\ <<>> \o <<"writeLoop">> = <<"writeLoop">>
        /\ <<>> \o <<>> = <<>>
    OBVIOUS
  <2> QED BY <1>1, <2>1, <2>2, Zenon
<1>3. /\ <<>> \in Seq(Frames) /\ <<"connectEvent">> \in Seq(Frames)
      /\ <<"closeEvent">> \in Seq(Frames) /\ <<"read">> \in Seq(Frames)
      /\ <<"writeLoop">> \in Seq(Frames)
      /\ <<"read", "closeEvent">> \in Seq(Frames) /\ <<"read", "writeLoop">> \in Seq(Frames)
  <2>1. /\ "connectEvent" \in Frames /\ "read" \in Frames /\ "closeEvent" \in Frames
        /\ "writeLoop" \in Frames
    BY DEF Frames, UserFrames, CodeFrames
  <2> QED BY <2>1
<1>4. s \in Seq(Frames)
  BY <1>2, <1>3, Zenon
<1> QED BY <1>2, <1>4, StackEmpty, StackStart, EventStacks, ZenonT(60)

\* Channel::handle_event_: each event that was reported has a handler to take
\* care of it.
LEMMA HandleEventIInv == IInv /\ HandleEvent => IInv'
<1> SUFFICES ASSUME IInv, HandleEvent PROVE IInv'
  OBVIOUS
<1>1. /\ UNCHANGED <<state, chan, interest, wbuf, warned, timerId, cleanupDone>>
      /\ UNCHANGED <<closeTimeout, tasks, timer, ksock, rx, rfin, wire, acked, finSent>>
      /\ UNCHANGED <<edge, nospace, accepted, calls, rcvd, asked, outcome, closeCbs, crashed>>
      /\ stack = <<>> /\ pend # NoEvent /\ pend' = NoEvent
  BY Zenon DEF HandleEvent, objVars, histVars, Quiet
<1>2. /\ stack' \in Seq(Frames) /\ Layout(stack')
      /\ \A f : In(f, stack') => f \in {"connectEvent", "read", "closeEvent", "writeLoop"}
      /\ In("writeLoop", stack') => pend.kind # "connect" /\ "W" \in pend.ev
      /\ pend.kind = "io" /\ pend.ev \cap {"R", "E", "H"} # {} =>
           In("read", stack') \/ In("closeEvent", stack')
      /\ pend.kind = "io" /\ pend.ev \cap {"W", "E", "H"} # {} =>
           In("writeLoop", stack') \/ In("closeEvent", stack')
  BY HandleEventStack, Zenon
<1>3. \A f : ~In(f, stack)
  BY <1>1, StackEmpty, Zenon
<1>4. /\ Begun /\ (Over \/ Connecting \/ Up \/ Ending)
      /\ cleanupDone <=> closeCbs = 1
      /\ timer = "armed" => timerId
  BY <1>1, Zenon DEF IInv, Phases, Fresh, Failed
<1>5. /\ pend.kind = chan \/ state = "Disconnected"
      /\ pend.kind # "connect" /\ "W" \in pend.ev => wbuf # <<>>
  BY <1>1, Zenon DEF IInv, Reported
<1>6. TypeOK'
  <2>1. soerr' \in BOOLEAN
    BY ZenonT(60) DEF HandleEvent
  <2>2. pend' \in [kind : {"none", "connect", "io"}, ev : SUBSET {"R", "W", "E", "H"}]
    BY <1>1, Zenon DEF NoEvent
  <2> QED BY <1>1, <1>2, <2>1, <2>2, ZenonT(60) DEF IInv, TypeOK, Frames
<1>7. Bytes'
  BY <1>1, Zenon DEF IInv, Bytes
<1>8. Phases'
  <2>1. Begun'
    BY <1>1, <1>4, ZenonT(60) DEF Begun
  <2> QED BY <1>1, <1>3, <1>4, <2>1, Zenon DEF Phases, Over, Connecting, Up, Ending
<1>9. Reported'
  BY <1>1, <1>2, Zenon DEF Reported
<1>10. Writing'
  BY <1>1, <1>3, Zenon DEF IInv, Writing
<1>11. Edges'
  <2>1. wbuf # <<>> /\ ksock = "est" => pend.kind = "io"
    BY <1>4, <1>5, Zenon DEF Over, Connecting, Up, Ending
  <2>2. state = "Connected" => pend.kind = "io"
    BY <1>4, <1>5, Zenon DEF Over, Connecting, Up, Ending
  <2>3. UNCHANGED Space
    BY <1>1, Zenon DEF Space
  <2> QED BY <1>1, <1>2, <1>3, <2>1, <2>2, <2>3, Zenon DEF IInv, Edges
<1>12. Marks' /\ LoopHasChannel'
  BY <1>1, <1>2, <1>3, <1>5, SMTT(30) DEF IInv, Marks, LoopHasChannel
<1>13. Attempt'
  BY <1>1, Zenon DEF IInv, Attempt
<1>14. Cleaned'
  BY <1>1, <1>2, SMTT(30) DEF Cleaned
<1> QED BY <1>6, <1>7, <1>8, <1>9, <1>10, <1>11, <1>12, <1>13, <1>14, SMTT(30) DEF IInv

\* The poll thread goes on with what is on top of the stack.
LEMMA AtProps ==
  ASSUME IInv, NEW frame, At(frame)
  PROVE  /\ stack # <<>> /\ Head(stack) = frame /\ Begun /\ In(frame, stack)
         /\ Keeps(Rest) \/ frame \in {"highDone", "lowDone", "closeDone"}
         /\ UNCHANGED <<pend, calls, rcvd, asked, closeTimeout>>
         /\ UNCHANGED <<tasks, outcome>> => Around
<1>1. /\ stack # <<>> /\ Head(stack) = frame
      /\ UNCHANGED <<pend, calls, rcvd, asked, closeTimeout>>
  BY DEF At
<1>2. Begun
  BY <1>1, StackIsBegun, Zenon
<1>3. /\ Tail(stack) \in Seq(Frames) /\ Layout(Tail(stack))
      /\ \A f : In(f, stack) <=> f = frame \/ In(f, Tail(stack))
  BY <1>1, StackType, StackPop, Zenon
<1>4. Keeps(Rest) \/ frame \in {"highDone", "lowDone", "closeDone"}
  BY <1>3, Zenon DEF Keeps, Rest
<1>5. calls \in Nat /\ rcvd \in Nat /\ tasks \in Seq(TaskSet)
  BY DEF IInv, TypeOK, TaskSet
<1>6. ASSUME UNCHANGED <<tasks, outcome>> PROVE Around
  BY <1>1, <1>2, <1>5, <1>6, Zenon DEF Around, Begun
<1> QED BY <1>1, <1>2, <1>3, <1>4, <1>6, Zenon

LEMMA UserReturnsIInv == IInv /\ UserReturns => IInv'
<1> SUFFICES ASSUME IInv, NEW frame \in UserFrames, At(frame), Return(Rest),
                    UNCHANGED <<tasks, outcome>>
             PROVE  IInv'
  BY DEF UserReturns
<1>1. stack # <<>> /\ Head(stack) = frame /\ Around
  BY AtProps, SMTT(30)
<1> QED BY <1>1, PopIInv DEF Return, Rest, UserFrames

\* A Conn that is not disconnected has not been cleaned up.
LEMMA NotCleaned == IInv /\ Begun /\ state # "Disconnected" => ~cleanupDone
BY BegunPhases, SMTT(30) DEF Failed, Over, Connecting, Up, Ending

LEMMA HandleCloseEventIInv == IInv /\ HandleCloseEvent => IInv'
<1> SUFFICES ASSUME IInv, HandleCloseEvent PROVE IInv'
  OBVIOUS
<1>1. At("closeEvent") /\ UNCHANGED <<tasks, outcome>>
  BY DEF HandleCloseEvent
<1>2. stack # <<>> /\ Head(stack) = "closeEvent" /\ Around /\ Keeps(Rest) /\ Begun
  BY <1>1, AtProps, SMTT(30)
<1>3. CASE state = "Disconnected" /\ Return(Rest)
  BY <1>2, <1>3, PopIInv, Zenon DEF Return, Rest
<1>4. CASE state # "Disconnected" /\ Cleanup(Rest)
  <2>1. ~cleanupDone
    BY <1>2, <1>4, NotCleaned, Zenon
  <2>2. LowOps \subseteq {"shutdown"} /\ In("writeLoop", Rest) => wbuf # <<>>
    BY <1>2, SMTT(30) DEF IInv, LoopHasChannel, Keeps
  <2> QED BY <1>2, <1>4, <2>1, <2>2, CleanupIInv, Zenon
<1> QED BY <1>3, <1>4, SMTT(30) DEF HandleCloseEvent

LEMMA WriteFailsIInv == IInv /\ WriteFails => IInv'
<1> SUFFICES ASSUME IInv, WriteFails PROVE IInv'
  OBVIOUS
<1>1. /\ At("writeLoop") /\ UNCHANGED <<tasks, outcome>> /\ wbuf # <<>> /\ ksock # "est"
  BY DEF WriteFails
<1>2. stack # <<>> /\ Head(stack) = "writeLoop" /\ Around /\ Keeps(Rest) /\ Begun
  BY <1>1, AtProps, SMTT(30)
<1>3. CASE state = "Disconnected" /\ Return(Rest)
  BY <1>1, <1>2, <1>3, PopIInv, Zenon DEF Return, Rest
<1>4. CASE state # "Disconnected" /\ Cleanup(Rest)
  <2>1. ~cleanupDone
    BY <1>2, <1>4, NotCleaned
  <2> QED BY <1>1, <1>2, <1>4, <2>1, CleanupIInv, Zenon
<1> QED BY <1>3, <1>4, Zenon DEF WriteFails

\* The frames F are put on top of s.
Pushed(t, s, F) ==
  /\ t \in Seq(Frames) /\ Layout(t)
  /\ \A f : In(f, t) <=> f \in F \/ In(f, s)

\* What handle_read_event_ still has to call when it has received.
LEMMA ReadPushes ==
  ASSUME NEW s \in Seq(Frames), Layout(s)
  PROVE  /\ Pushed(<<"uMessage", "closeEvent">> \o s, s, {"uMessage", "closeEvent"})
         /\ Pushed(<<"uMessage">> \o s, s, {"uMessage"})
         /\ Pushed(<<"closeEvent">> \o s, s, {"closeEvent"})
         /\ Pushed(s, s, {})
<1>1. {"uMessage", "closeEvent"} \subseteq Frames \ Special
  BY DEF Frames, UserFrames, CodeFrames, Special
<1>2. Pushed(<<"uMessage", "closeEvent">> \o s, s, {"uMessage", "closeEvent"})
  BY <1>1, StackPush2, Zenon DEF Pushed
<1>3. \A f \in {"uMessage", "closeEvent"} : Pushed(<<f>> \o s, s, {f})
  BY <1>1, StackPush DEF Pushed
<1>4. Pushed(s, s, {})
  BY DEF Pushed
<1> QED BY <1>2, <1>3, <1>4, Zenon

LEMMA ReadStack ==
  ASSUME NEW s \in Seq(Frames), Layout(s), NEW a \in BOOLEAN, NEW b \in BOOLEAN,
         NEW t, t = (IF a THEN <<"uMessage">> ELSE <<>>)
                    \o (IF b THEN <<"closeEvent">> ELSE <<>>) \o s
  PROVE  \E F \in SUBSET {"uMessage", "closeEvent"} :
           Pushed(t, s, F) /\ (b => "closeEvent" \in F)
<1>1. /\ <<"uMessage">> \o <<>> = <<"uMessage">> /\ <<>> \o <<"closeEvent">> = <<"closeEvent">>
      /\ <<>> \o <<>> = <<>> /\ <<>> \o s = s
  <2>1. "uMessage" \in Frames /\ "closeEvent" \in Frames
    BY DEF Frames, UserFrames, CodeFrames
  <2>2. <<"uMessage">> \in Seq(Frames) /\ <<"closeEvent">> \in Seq(Frames) /\ <<>> \in Seq(Frames)
    BY <2>1
  <2> QED BY <2>2, ConcatEmptySeq, Zenon
<1>2. <<"uMessage">> \o <<"closeEvent">> = <<"uMessage", "closeEvent">>
  <2>1. \A y \in {"uMessage", "closeEvent"} : <<"uMessage">> \o <<y>> = <<"uMessage", y>>
    BY Pair
  <2> QED BY <2>1, Zenon
<1>3. /\ Pushed(<<"uMessage", "closeEvent">> \o s, s, {"uMessage", "closeEvent"})
      /\ Pushed(<<"uMessage">> \o s, s, {"uMessage"})
      /\ Pushed(<<"closeEvent">> \o s, s, {"closeEvent"})
      /\ Pushed(s, s, {})
  BY ReadPushes, Zenon
<1>4. CASE a /\ b
  BY <1>2, <1>3, <1>4, Zenon
<1>5. CASE a /\ ~b
  BY <1>1, <1>3, <1>5, Zenon
<1>6. CASE ~a /\ b
  BY <1>1, <1>3, <1>6, Zenon
<1>7. CASE ~a /\ ~b
  BY <1>1, <1>3, <1>7, Zenon
<1> QED BY <1>4, <1>5, <1>6, <1>7, Zenon

\* handle_read_event_: nothing is left to receive, and the end of the stream
\* is followed by a close.
LEMMA HandleReadEventIInv == IInv /\ HandleReadEvent => IInv'
<1> SUFFICES ASSUME IInv, HandleReadEvent PROVE IInv'
  OBVIOUS
<1>1. At("read") /\ UNCHANGED <<tasks, outcome>>
  BY DEF HandleReadEvent
<1>2. /\ stack # <<>> /\ Head(stack) = "read" /\ Around /\ Keeps(Rest) /\ Begun
      /\ In("read", stack) /\ UNCHANGED <<pend, calls, rcvd, asked, closeTimeout>>
  BY <1>1, AtProps, SMTT(30)
<1>3. CASE state # "Connected" /\ Return(Rest)
  BY <1>2, <1>3, PopIInv, Zenon DEF Return, Rest
<1>4. CASE ~(state # "Connected" /\ Return(Rest))
  <2>1. /\ state = "Connected" /\ rx' = 0 /\ soerr' = FALSE
        /\ UNCHANGED <<state, chan, interest, wbuf, warned, timerId, cleanupDone>>
        /\ UNCHANGED <<timer, ksock, rfin, wire, acked, finSent, edge, nospace, accepted,
                       closeCbs, crashed>>
    BY <1>4 DEF HandleReadEvent, objVars
  <2> PICK a, b : a = (rx > 0) /\ b = (rfin \/ ksock = "dead")
    OBVIOUS
  <2>2. PICK F \in SUBSET {"uMessage", "closeEvent"} :
          Pushed(stack', Rest, F) /\ (b => "closeEvent" \in F)
    <3>1. stack' = (IF a THEN <<"uMessage">> ELSE <<>>)
                   \o (IF b THEN <<"closeEvent">> ELSE <<>>) \o Rest
      BY <1>4, Zenon DEF HandleReadEvent
    <3>2. a \in BOOLEAN /\ b \in BOOLEAN
      BY SMTT(30)
    <3>3. Rest \in Seq(Frames) /\ Layout(Rest)
      BY <1>2, SMTT(30) DEF Keeps
    <3> QED BY <3>1, <3>2, <3>3, ReadStack, Zenon
  <2>3. \A f : In(f, stack) <=> f = "read" \/ In(f, Rest)
    BY <1>2, StackType, StackPop, ZenonT(60) DEF Rest
  <2>4. Up /\ (cleanupDone <=> closeCbs = 1) /\ (timer = "armed" => timerId)
    BY <1>2, <2>1, BegunPhases, Zenon DEF Failed, Over, Connecting, Up, Ending
  <2>5. pend = NoEvent /\ pend' = NoEvent
    BY <1>2, ZenonT(60) DEF IInv, Reported
  <2>6. TypeOK'
    <3>1. TypeOK /\ rx' \in Nat /\ soerr' \in BOOLEAN
      BY <2>1, ZenonT(60) DEF IInv
    <3>2. {warned, timerId, cleanupDone, soerr, rfin, finSent, edge, nospace,
           crashed}' \subseteq BOOLEAN
      BY <2>1, <3>1, Zenon DEF TypeOK
    <3> QED BY <1>1, <1>2, <2>1, <2>2, <3>1, <3>2, ZenonT(60) DEF TypeOK, Frames, Pushed
  <2>7. Bytes'
    BY <2>1, Zenon DEF IInv, Bytes
  <2>8. Phases'
    BY <1>2, <2>1, <2>4, Zenon DEF Phases, Up, Around
  <2>9. Reported' /\ Writing'
    BY <2>1, <2>2, <2>3, <2>5, Zenon DEF IInv, Reported, Writing, Pushed
  <2>10. Edges'
    <3>1. b => In("closeEvent", stack')
      BY <2>2, Zenon DEF Pushed
    <3>2. ~(rx' > 0) /\ UNCHANGED Space
      BY <2>1, SMTT(30) DEF Space
    <3> QED BY <2>1, <2>2, <2>3, <2>5, <3>1, <3>2, ZenonT(60) DEF IInv, Edges, Pushed
  <2>11. \A f \in {"highDone", "lowDone", "writeLoop"} : In(f, stack') <=> In(f, stack)
    BY <2>2, <2>3, Zenon DEF Pushed
  <2>12. Marks' /\ LoopHasChannel'
    BY <1>2, <2>1, <2>11, Zenon DEF IInv, Marks, LoopHasChannel
  <2>13. Attempt'
    BY <2>1, <2>4, Zenon DEF Attempt, Up
  <2>14. Cleaned'
    BY <2>1, <2>2, <2>3, Zenon DEF IInv, Cleaned, Pushed
  <2> QED BY <2>6, <2>7, <2>8, <2>9, <2>10, <2>12, <2>13, <2>14, ZenonT(60) DEF IInv
<1> QED BY <1>3, <1>4, Zenon

\* handle_connect_event_: the attempt has failed, or the Conn is up.
LEMMA HandleConnectEventIInv == IInv /\ HandleConnectEvent => IInv'
<1> SUFFICES ASSUME IInv, HandleConnectEvent PROVE IInv'
  OBVIOUS
<1>1. At("connectEvent") /\ UNCHANGED tasks
  BY Zenon DEF HandleConnectEvent
<1>2. /\ stack # <<>> /\ Head(stack) = "connectEvent" /\ Keeps(Rest) /\ Begun
      /\ In("connectEvent", stack) /\ UNCHANGED <<pend, calls, rcvd, asked, closeTimeout>>
      /\ UNCHANGED <<tasks, outcome>> => Around
  BY <1>1, AtProps, SMTT(30)
<1>3. CASE state # "Connecting" /\ Return(Rest) /\ UNCHANGED outcome
  BY <1>1, <1>2, <1>3, PopIInv, Zenon DEF Return, Rest
<1>4. CASE state = "Connecting"
  <2>1. /\ soerr' = FALSE /\ outcome' = (IF soerr THEN "err" ELSE "ok")
        /\ UNCHANGED <<wbuf, warned, timerId, timer, rx, rfin, wire, acked,
                       finSent, nospace, accepted, closeCbs, crashed>>
    BY <1>4, SMTT(30) DEF HandleConnectEvent
  <2>2. \/ /\ soerr /\ chan' = "none" /\ interest' = {} /\ edge' = FALSE /\ ksock' = "closed"
           /\ state' = "Disconnected" /\ stack' = <<"uConnErr">> \o Rest /\ UNCHANGED cleanupDone
        \/ /\ ~soerr /\ chan' = "io" /\ interest' = {"R"} /\ edge' = TRUE /\ UNCHANGED ksock
           /\ state' = "Connected" /\ stack' = <<"uConnected">> \o Rest /\ cleanupDone' = FALSE
    <3>1. {"R"} # {}
      BY Zenon
    <3> QED BY <1>4, <3>1, Zenon DEF HandleConnectEvent, AddReadEvent, UpdateChannel
  <2>3. /\ Connecting /\ wbuf = <<>> /\ cleanupDone = FALSE /\ closeCbs = 0
        /\ timer = "armed" => timerId
    <3>1. /\ Connecting
          /\ (cleanupDone <=> closeCbs = 1) /\ (timer = "armed" => timerId)
      BY <1>2, <1>4, BegunPhases, Zenon DEF Failed, Over, Up, Ending
    <3>2. cleanupDone \in BOOLEAN
      BY Zenon DEF IInv, TypeOK
    <3> QED BY <3>1, <3>2 DEF Connecting
  <2>4. pend = NoEvent /\ pend' = NoEvent /\ ksock \in {"est", "dead"}
    BY <1>2, <2>3, Zenon DEF IInv, Reported, Attempt, Connecting
  <2>5. PICK a \in {"uConnErr", "uConnected"} :
          stack' = <<a>> \o Rest /\ (a = "uConnErr" <=> soerr)
    BY <2>2, Zenon
  <2>6. /\ stack' \in Seq(Frames) /\ Layout(stack')
        /\ \A f : In(f, stack') <=> f = a \/ In(f, Rest)
    <3>1. a \in Frames \ Special
      BY SMTT(30) DEF Frames, UserFrames, Special
    <3>2. Rest \in Seq(Frames) /\ Layout(Rest)
      BY <1>2 DEF Keeps
    <3>3. stack' = <<a>> \o Rest
      BY <2>5, SMTT(30)
    <3> QED BY <3>1, <3>2, <3>3, StackPush, Zenon
  <2>7. \A f : In(f, stack) <=> f = "connectEvent" \/ In(f, Rest)
    BY <1>2, StackType, StackPop, ZenonT(60) DEF Rest
  <2>8. TypeOK'
    <3>1. TypeOK
      BY SMTT(30) DEF IInv
    <3>2. /\ state' \in {"Disconnected", "Connected"} /\ chan' \in {"none", "io"}
          /\ interest' \subseteq {"R", "W"} /\ edge' \in BOOLEAN /\ cleanupDone' \in BOOLEAN
          /\ ksock' \in {"closed", "est", "dead"} /\ outcome' \in {"err", "ok"}
      BY <2>1, <2>2, <2>3, <2>4, Zenon
    <3>3. {warned, timerId, cleanupDone, soerr, rfin, finSent, edge, nospace,
           crashed}' \subseteq BOOLEAN
      BY <2>1, <3>1, <3>2, ZenonT(60) DEF TypeOK
    <3>4. UNCHANGED <<wbuf, timer, rx, wire, acked, accepted, closeCbs>>
      BY <2>1, Zenon
    <3> QED BY <1>1, <1>2, <2>6, <3>1, <3>2, <3>3, <3>4, ZenonT(60) DEF TypeOK, Frames
  <2>9. Bytes'
    BY <2>1, Zenon DEF IInv, Bytes
  <2>10. Phases'
    <3>1. Begun'
      BY <1>1, <1>2, Zenon DEF Begun
    <3>2. Failed' \/ Up'
      BY <2>1, <2>2, <2>3, <2>4, ZenonT(60) DEF Failed, Up, Connecting
    <3> QED BY <2>1, <2>2, <2>3, <3>1, <3>2, SMTT(30) DEF Phases
  <2>11. Reported' /\ Writing' /\ Edges'
    BY <2>1, <2>2, <2>3, <2>4, <2>6, Zenon DEF Reported, Writing, Edges
  <2>12. \A f \in {"highDone", "lowDone", "writeLoop"} : In(f, stack') <=> In(f, stack)
    BY <2>6, <2>7, Zenon
  <2>13. Marks' /\ LoopHasChannel'
    BY <1>2, <1>4, <2>1, <2>3, <2>12, ZenonT(60) DEF IInv, Marks, LoopHasChannel
  <2>14. Attempt'
    BY <2>2, <2>4, Zenon DEF Attempt
  <2>15. Cleaned'
    BY <2>2, <2>3, <2>6, <2>7, Zenon DEF IInv, Cleaned
  <2> QED BY <2>8, <2>9, <2>10, <2>11, <2>13, <2>14, <2>15, ZenonT(60) DEF IInv
<1> QED BY <1>3, <1>4, Zenon DEF HandleConnectEvent

\* handle_write_event_ leaves a socket that is full.
LEMMA WriteBlockedIInv == IInv /\ WriteBlocked => IInv'
<1> SUFFICES ASSUME IInv, WriteBlocked PROVE IInv'
  OBVIOUS
<1>1. /\ At("writeLoop") /\ wbuf # <<>> /\ ksock = "est" /\ Space = 0 /\ nospace' = TRUE
      /\ UNCHANGED <<state, chan, interest, wbuf, warned, timerId, cleanupDone>>
      /\ UNCHANGED <<tasks, timer, ksock, soerr, rx, rfin, wire, acked, finSent, edge,
                     accepted, outcome, closeCbs, crashed>>
  BY Zenon DEF WriteBlocked, objVars
<1>2. /\ Begun /\ UNCHANGED <<pend, calls, rcvd, asked, closeTimeout>>
      /\ stack = <<"writeLoop">> /\ stack' = <<>>
  BY <1>1, AtProps, StackType, StackTop, Zenon DEF WriteBlocked, Rest
<1>3. \A f : (In(f, stack) <=> f = "writeLoop") /\ ~In(f, stack')
  BY <1>2, StackStart, StackEmpty, ZenonT(60)
<1>4. TypeOK'
  <2>1. TypeOK /\ stack' \in Seq(Frames) /\ nospace' \in BOOLEAN
    BY <1>1, <1>2, SMTT(30) DEF IInv
  <2> QED BY <1>1, <1>2, <2>1, ZenonT(60) DEF TypeOK, Frames
<1>5. Bytes'
  BY <1>1, SMTT(30) DEF IInv, Bytes
<1>6. Phases'
  <2>1. Begun'
    BY <1>1, <1>2, Zenon DEF Begun
  <2>2. (Up \/ Ending) /\ (cleanupDone <=> closeCbs = 1) /\ (timer = "armed" => timerId)
    BY <1>1, <1>2, BegunPhases, Zenon DEF Failed, Over, Connecting
  <2> QED BY <1>1, <2>1, <2>2, Zenon DEF Phases, Up, Ending
<1>7. Reported' /\ Writing'
  BY <1>1, <1>2, <1>3, StackEmpty, ZenonT(60) DEF IInv, Reported, Writing
<1>8. Edges'
  <2>1. ~In("read", stack) /\ ~In("closeEvent", stack)
    BY <1>3
  <2>2. wbuf' # <<>> => nospace' /\ Space' = 0
    BY <1>1, Zenon DEF Space
  <2>3. UNCHANGED <<state, rx, rfin, ksock, edge, pend>>
    BY <1>1, <1>2
  <2> QED BY <2>1, <2>2, <2>3, Zenon DEF IInv, Edges
<1>9. Marks' /\ LoopHasChannel' /\ Attempt' /\ Cleaned'
  BY <1>1, <1>3, SMTT(30) DEF IInv, Marks, LoopHasChannel, Attempt, Cleaned
<1> QED BY <1>4, <1>5, <1>6, <1>7, <1>8, <1>9, Zenon DEF IInv

\* handle_write_event_ has written everything.
LEMMA WriteDoneIInv == IInv /\ WriteDone => IInv'
<1> SUFFICES ASSUME IInv, WriteDone PROVE IInv'
  OBVIOUS
<1>1. /\ At("writeLoop") /\ wbuf = <<>> /\ crashed' = (chan = "none")
      /\ finSent' = (finSent \/ state = "Disconnecting")
      /\ UNCHANGED <<state, chan, wbuf, warned, timerId, cleanupDone, tasks, timer,
                     ksock, soerr, rx, rfin, wire, acked, nospace, accepted,
                     outcome, closeCbs>>
  BY Zenon DEF WriteDone, FinWhenDrained
<1>2. /\ Begun /\ UNCHANGED <<pend, calls, rcvd, asked, closeTimeout>>
      /\ stack = <<"writeLoop">> /\ stack' = <<>>
  BY <1>1, AtProps, StackType, StackTop, ZenonT(60) DEF WriteDone, Rest
<1>3. \A f : (In(f, stack) <=> f = "writeLoop") /\ ~In(f, stack')
  BY <1>2, StackStart, StackEmpty, SMTT(30)
<1>4. /\ interest' = interest \ {"W"}
      /\ \/ UNCHANGED edge
         \/ edge' = (interest \ {"W"} # {})
  BY ZenonT(60) DEF WriteDone, RemoveWriteEvent, UpdateChannel
<1>5. TypeOK'
  <2>1. TypeOK
    BY Zenon DEF IInv
  <2>2. crashed' \in BOOLEAN /\ finSent' \in BOOLEAN
    BY <1>1, SMTT(30)
  <2>3. edge' \in BOOLEAN /\ interest' \subseteq {"R", "W"}
    BY <1>4, <2>1, ZenonT(60) DEF TypeOK
  <2>4. stack' \in Seq(Frames)
    BY <1>2, SMTT(30)
  <2>5. UNCHANGED <<state, chan, wbuf, warned, timerId, cleanupDone, tasks, timer,
                    ksock, soerr, rx, rfin, wire, acked, nospace, accepted,
                    outcome, closeCbs>>
    BY <1>1, Zenon
  <2> QED BY <1>2, <2>1, <2>2, <2>3, <2>4, <2>5, SMTT(30) DEF TypeOK, Frames
<1>6. Bytes'
  BY <1>1 DEF IInv, Bytes
<1>7. Phases'
  <2>1. Begun'
    BY <1>1, <1>2, ZenonT(60) DEF Begun
  <2>2. /\ Failed \/ Over \/ Connecting \/ Up \/ Ending
        /\ (cleanupDone <=> closeCbs = 1) /\ (timer = "armed" => timerId)
    BY <1>2, BegunPhases, SMTT(30)
  <2>3. state # "Disconnecting" => (finSent' <=> finSent)
    BY <1>1, ZenonT(60)
  <2>4. Failed' \/ Over' \/ Connecting' \/ Up' \/ Ending'
    <3>1. Failed => Failed'
      BY <1>1, <1>2, <1>4, <2>3, Zenon DEF Failed
    <3>2. Over => Over'
      <4>1. interest = {} => interest' = {}
        BY <1>4, Zenon
      <4>2. ~In("closeDone", stack)
        BY <1>3
      <4> QED BY <1>1, <4>1, <4>2, Zenon DEF Over
    <3>3. Connecting => Connecting'
      BY <1>1, <2>3, Zenon DEF Connecting
    <3>4. Up => Up'
      BY <1>1, <1>4, <2>3, Zenon DEF Up
    <3>5. Ending => Ending'
      BY <1>1, Zenon DEF Ending
    <3> QED BY <2>2, <3>1, <3>2, <3>3, <3>4, <3>5, ZenonT(60)
  <2> QED BY <1>1, <2>1, <2>2, <2>4, Zenon DEF Phases
<1>8. Reported' /\ Writing'
  BY <1>1, <1>2, <1>3, <1>4, StackEmpty, ZenonT(60) DEF IInv, Reported, Writing
<1>9. Edges'
  <2>1. state = "Connected" => "R" \in interest \ {"W"}
    BY <1>2, BegunPhases, SMTT(30) DEF Failed, Over, Connecting, Up, Ending
  <2>2. state = "Connected" => edge' \/ UNCHANGED edge
    BY <1>4, <2>1, Zenon
  <2>3. ~In("read", stack) /\ ~In("closeEvent", stack)
    BY <1>3
  <2>4. UNCHANGED <<state, rx, rfin, ksock, pend>> /\ wbuf' = <<>>
    BY <1>1, <1>2
  <2> QED BY <2>2, <2>3, <2>4, Zenon DEF IInv, Edges
<1>10. LoopHasChannel'
  <2>1. LowOps \subseteq {"shutdown"} => chan = "io"
    BY <1>1, <1>3, Zenon DEF IInv, LoopHasChannel
  <2> QED BY <1>1, <1>3, <2>1, ZenonT(60) DEF LoopHasChannel
<1>11. Marks' /\ Attempt' /\ Cleaned'
  BY <1>1, <1>2, <1>3, <1>4, Zenon DEF IInv, Marks, Attempt, Cleaned
<1> QED BY <1>5, <1>6, <1>7, <1>8, <1>9, <1>10, <1>11, ZenonT(60) DEF IInv

\* A watermark's callback has returned.
LEMMA WatermarkDoneIInv == IInv /\ WatermarkDone => IInv'
<1> SUFFICES ASSUME IInv, NEW frame \in {"lowDone", "highDone"}, At(frame), WatermarkDone
             PROVE  IInv'
  BY Zenon DEF WatermarkDone
<1>1. /\ stack' = Tail(stack)
      /\ UNCHANGED <<state, chan, interest, wbuf, timerId, cleanupDone, tasks, timer>>
      /\ UNCHANGED <<ksock, soerr, rx, rfin, wire, acked, finSent, edge, nospace>>
      /\ UNCHANGED <<accepted, outcome, closeCbs, crashed>>
  BY Zenon DEF WatermarkDone, Rest, sockVars
<1>2. /\ stack # <<>> /\ Head(stack) = frame /\ Begun /\ In(frame, stack)
      /\ UNCHANGED <<pend, calls, rcvd, asked, closeTimeout>>
  BY AtProps, Zenon
<1>3. warned' = (frame = "highDone")
  BY <1>2, SMTT(30) DEF WatermarkDone
<1>4. /\ stack' \in Seq(Frames) /\ Layout(stack')
      /\ \A f : In(f, stack) <=> f = frame \/ In(f, stack')
      /\ frame = "lowDone" => stack' = <<"writeLoop">>
  BY <1>1, <1>2, StackType, StackPop, StackTop, Zenon
<1>5. TypeOK'
  <2>1. TypeOK /\ warned' \in BOOLEAN
    BY <1>3, Zenon DEF IInv
  <2>2. {warned, timerId, cleanupDone, soerr, rfin, finSent, edge, nospace,
         crashed}' \subseteq BOOLEAN
    <3>1. {warned, timerId, cleanupDone, soerr, rfin, finSent, edge, nospace,
           crashed} \subseteq BOOLEAN
      BY <2>1, Zenon DEF TypeOK
    <3> QED BY <1>1, <2>1, <3>1, ZenonT(60)
  <2> QED BY <1>1, <1>2, <1>4, <2>1, <2>2, ZenonT(60) DEF TypeOK, Frames
<1>6. Bytes'
  BY <1>1, Zenon DEF IInv, Bytes
<1>7. Phases'
  <2>1. Begun'
    BY <1>1, <1>2, Zenon DEF Begun
  <2>2. /\ Failed \/ Over \/ Connecting \/ Up \/ Ending
        /\ (cleanupDone <=> closeCbs = 1) /\ (timer = "armed" => timerId)
    BY <1>2, BegunPhases, Zenon
  <2> QED BY <1>1, <1>2, <1>4, <2>1, <2>2, Zenon DEF Phases, Failed, Over, Connecting, Up, Ending
<1>8. Reported' /\ Writing' /\ Edges'
  BY <1>1, <1>2, <1>4, Zenon DEF IInv, Reported, Writing, Edges, Space
<1>9. Attempt' /\ Cleaned'
  BY <1>1, <1>2, <1>4 DEF IInv, Attempt, Cleaned
<1> PICK m : m = Len(wbuf)
  BY Zenon
<1>10. m \in Nat /\ High \in Nat /\ Low \in Nat /\ Low < High /\ UNCHANGED wbuf
  BY <1>1, ConnAssumption, LenProperties, Zenon DEF IInv, TypeOK
<1>11. CASE frame = "highDone"
  <2>1. m > High /\ ~(m <= Low) /\ wbuf # <<>> /\ warned'
    <3>1. m > High
      BY <1>2, <1>11, Zenon DEF IInv, Marks
    <3>2. wbuf = <<>> => m = 0
      OBVIOUS
    <3>3. ~(m <= Low) /\ wbuf # <<>>
      BY <1>10, <3>1, <3>2, SMTT(30)
    <3>4. warned'
      BY <1>3, <1>11, Zenon
    <3> QED BY <3>1, <3>3, <3>4
  <2>2. Marks'
    BY <1>4, <1>10, <1>11, <2>1, ZenonT(60) DEF IInv, Marks
  <2>3. LoopHasChannel'
    BY <1>1, <2>1, Zenon DEF IInv, LoopHasChannel
  <2> QED BY <1>5, <1>6, <1>7, <1>8, <1>9, <2>2, <2>3 DEF IInv
<1>12. CASE frame = "lowDone"
  <2>1. ~warned' /\ \A f : In(f, stack') <=> f = "writeLoop"
    BY <1>3, <1>4, <1>12, StackStart, Zenon
  <2>2. "send" \notin LowOps => ~(m > High)
    <3>1. "send" \notin LowOps => m <= Low
      BY <1>2, <1>12, Zenon DEF IInv, Marks
    <3> QED BY <1>10, <3>1, SMTT(30)
  <2>3. Marks'
    BY <1>10, <2>1, <2>2, SMTT(30) DEF Marks
  <2>4. Head(stack') = "writeLoop"
    BY <1>4, <1>12, StackStart, Zenon
  <2>5. LoopHasChannel'
    BY <1>1, <1>4, <2>4, ZenonT(60) DEF IInv, LoopHasChannel
  <2> QED BY <1>5, <1>6, <1>7, <1>8, <1>9, <2>3, <2>5 DEF IInv
<1> QED BY <1>11, <1>12, Zenon

\* The close callbacks have returned.
LEMMA CloseDoneIInv == IInv /\ CloseDone => IInv'
<1> SUFFICES ASSUME IInv, CloseDone PROVE IInv'
  OBVIOUS
<1>1. /\ At("closeDone") /\ stack' = Tail(stack) /\ chan' = "none"
      /\ tasks' = IF chan # "none" THEN Append(tasks, Task("release")) ELSE tasks
      /\ UNCHANGED <<state, interest, wbuf, warned, timerId, cleanupDone, timer>>
      /\ UNCHANGED <<ksock, soerr, rx, rfin, wire, acked, finSent, edge, nospace>>
      /\ UNCHANGED <<accepted, outcome, closeCbs, crashed>>
  BY Zenon DEF CloseDone, Rest, sockVars
<1>2. /\ stack # <<>> /\ Head(stack) = "closeDone" /\ Begun /\ In("closeDone", stack)
      /\ UNCHANGED <<pend, calls, rcvd, asked, closeTimeout>>
  BY <1>1, AtProps, Zenon
<1>3. /\ stack' \in Seq(Frames) /\ Layout(stack')
      /\ \A f : In(f, stack) <=> f = "closeDone" \/ In(f, stack')
  BY <1>1, <1>2, StackType, StackPop, Zenon
<1>4. Begun' /\ tasks' \in Seq(TaskSet)
  <2>1. CASE chan = "none"
    <3>1. tasks' = tasks /\ tasks \in Seq(TaskSet)
      BY <1>1, <2>1, Zenon DEF IInv, TypeOK, TaskSet
    <3> QED BY <1>2, <3>1, ZenonT(60) DEF Begun
  <2>2. CASE chan # "none"
    <3>1. Task("release") \in TaskSet /\ Task("release").op \notin {"start", "connect"}
      BY SMTT(30) DEF Task, TaskSet, Ops
    <3>2. tasks' = Append(tasks, Task("release"))
      BY <1>1, <2>2, ZenonT(60)
    <3> QED BY <1>2, <3>1, <3>2, AppendTask, Zenon
  <2> QED BY <2>1, <2>2, Zenon
<1>5. Over /\ cleanupDone /\ closeCbs = 1 /\ (timer = "armed" => timerId)
  BY <1>2, BegunPhases, SMTT(30) DEF IInv, Cleaned, Failed, Connecting, Up, Ending
<1>6. TypeOK'
  <2>1. TypeOK
    BY DEF IInv
  <2>2. UNCHANGED <<state, interest, wbuf, warned, timerId, cleanupDone, timer, ksock, soerr, rx,
                    rfin, wire, acked, finSent, edge, nospace, accepted, outcome, closeCbs, crashed>>
    BY <1>1, SMTT(30)
  <2>3. chan' \in {"none", "connect", "io"}
    BY <1>1, SMTT(30)
  <2> QED BY <1>2, <1>3, <1>4, <2>1, <2>2, <2>3, ZenonT(60) DEF TypeOK, Frames, TaskSet
<1>7. Bytes'
  BY <1>1, Zenon DEF IInv, Bytes
<1>8. Phases'
  BY <1>1, <1>4, <1>5, Zenon DEF Phases, Over
<1>9. Reported' /\ Writing' /\ Edges'
  BY <1>1, <1>2, <1>3, <1>5, ZenonT(60) DEF IInv, Reported, Writing, Edges, Over
<1>10. Marks' /\ LoopHasChannel'
  BY <1>1, <1>2, <1>3, <1>5, ZenonT(60) DEF IInv, Marks, LoopHasChannel, Over
<1>11. Attempt' /\ Cleaned'
  BY <1>1, <1>5 DEF Attempt, Cleaned, Over
<1> QED BY <1>6, <1>7, <1>8, <1>9, <1>10, <1>11, Zenon DEF IInv

LEMMA LowStack ==
  /\ <<"uLow", "lowDone">> \o <<"writeLoop">> = <<"uLow", "lowDone", "writeLoop">>
  /\ <<"uLow", "lowDone", "writeLoop">> \in Seq(Frames) /\ <<"writeLoop">> \in Seq(Frames)
<1>1. "uLow" \in Frames /\ "lowDone" \in Frames /\ "writeLoop" \in Frames
  BY DEF Frames, UserFrames, CodeFrames
<1> PICK a, b, s, t : /\ a = <<"uLow", "lowDone">> /\ b = <<"writeLoop">>
                      /\ s = a \o b /\ t = <<"uLow", "lowDone", "writeLoop">>
  BY Zenon
<1>2. /\ a \in Seq(Frames) /\ b \in Seq(Frames) /\ t \in Seq(Frames)
      /\ Len(a) = 2 /\ Len(b) = 1 /\ Len(t) = 3
      /\ a[1] = "uLow" /\ a[2] = "lowDone" /\ b[1] = "writeLoop"
      /\ t[1] = "uLow" /\ t[2] = "lowDone" /\ t[3] = "writeLoop"
  BY <1>1, SMTT(30)
<1>3. s \in Seq(Frames) /\ Len(s) = 3
  BY <1>2, ConcatProperties, SMTT(30)
<1>4. s[1] = "uLow" /\ s[2] = "lowDone" /\ s[3] = "writeLoop"
  BY <1>2, ConcatProperties, SMTT(30)
<1>5. \A i \in 1..Len(s) : i = 1 \/ i = 2 \/ i = 3
  BY <1>3, SMTT(30)
<1>6. \A i \in 1..Len(s) : s[i] = t[i]
  BY <1>2, <1>4, <1>5, ZenonT(60)
<1>7. s = t
  BY <1>2, <1>3, <1>6, SeqEqual, ZenonT(60)
<1> QED BY <1>2, <1>7, Zenon

\* handle_write_event_ sends a part of the buffer, or all of it.
LEMMA WriteSomeIInv == IInv /\ WriteSome => IInv'
<1> SUFFICES ASSUME IInv, WriteSome PROVE IInv'
  OBVIOUS
<1> PICK sent, m, k : sent = Least(Len(wbuf), Space) /\ m = Len(wbuf) /\ k = Len(wire)
  BY Zenon
<1>1. /\ At("writeLoop") /\ wbuf # <<>> /\ ksock = "est" /\ Space > 0
      /\ UNCHANGED <<state, chan, interest, warned, timerId, cleanupDone, tasks,
                     timer, ksock, soerr, rx, rfin, acked, finSent, edge, nospace,
                     accepted, outcome, closeCbs, crashed>>
  BY Zenon DEF WriteSome
<1>2. /\ Begun /\ UNCHANGED <<pend, calls, rcvd, asked, closeTimeout>>
      /\ stack = <<"writeLoop">>
  BY <1>1, AtProps, StackType, StackTop, Zenon
<1>3. \A f : In(f, stack) <=> f = "writeLoop"
  BY <1>2, StackStart, ZenonT(60)
<1>4. /\ Up \/ (Ending /\ chan = "io" /\ ~finSent)
      /\ (cleanupDone <=> closeCbs = 1) /\ (timer = "armed" => timerId)
  BY <1>1, <1>2, BegunPhases, Zenon DEF Failed, Over, Connecting, Ending
<1>5. m \in Nat /\ k \in Nat /\ Space \in Nat /\ sent \in 0..m /\ sent <= Space
  <2>1. m \in Nat /\ k \in Nat /\ Space \in Nat
    BY LenProperties, SpaceProps, ZenonT(60) DEF IInv, TypeOK
  <2> QED BY <2>1, SMTT(30) DEF Least
<1>6. /\ wire' \in Seq(Nat) /\ wbuf' \in Seq(Nat)
      /\ Len(wire') = k + sent /\ Len(wbuf') = m - sent
      /\ \A i \in 1..Len(wire') : wire'[i] = i
      /\ \A i \in 1..Len(wbuf') : wbuf'[i] = Len(wire') + i
  <2> PICK w, b, w2, b2 : w = wire /\ b = wbuf /\ w2 = wire' /\ b2 = wbuf'
    BY Zenon
  <2>1. Len(w) = k /\ Len(b) = m /\ Numbered(w, b)
    BY Zenon DEF Numbered, IInv, TypeOK, Bytes
  <2>2. Spliced(w, b, sent, w2, b2)
    BY <1>5, <2>1, ZenonT(60) DEF WriteSome, BeenRead, Spliced
  <2>3. Numbered(w2, b2) /\ Len(w2) = Len(w) + sent /\ Len(b2) = Len(b) - sent
    BY <2>1, <2>2, Splice, SMTT(30)
  <2> QED BY <2>1, <2>3, Zenon DEF Numbered
<1>7. Bytes'
  <2>1. k + m = accepted /\ acked <= k /\ acked \in Nat /\ SendSpace \in Nat /\ accepted \in Nat
    BY ConnAssumption, Zenon DEF IInv, Bytes, TypeOK
  <2>2. Space = SendSpace - (k - acked)
    BY Zenon DEF Space
  <2>3. /\ (k + sent) + (m - sent) = k + m
        /\ acked <= k + sent /\ k + sent <= acked + SendSpace
    <3>1. sent \in Nat /\ sent <= m /\ sent <= SendSpace - (k - acked) /\ k \in Nat /\ m \in Nat
      BY <1>5, <2>1, <2>2, SMTT(30)
    <3>2. \A a, i, j, n, s \in Nat :
            a <= i /\ j <= s - (i - a) /\ j <= n =>
              (i + j) + (n - j) = i + n /\ a <= i + j /\ i + j <= a + s
      BY SMTT(30)
    <3> QED BY <2>1, <3>1, <3>2, SMTT(30)
  <2> QED BY <1>1, <1>6, <2>1, <2>3, ZenonT(60) DEF Bytes
<1>8. \/ /\ warned /\ m - sent <= Low /\ stack' = <<"uLow", "lowDone", "writeLoop">>
         /\ Head(stack') = "uLow" /\ \A f : In(f, stack') <=> f \in Special
      \/ /\ ~(warned /\ m - sent <= Low) /\ stack' = <<"writeLoop">>
         /\ Head(stack') = "writeLoop" /\ \A f : In(f, stack') <=> f = "writeLoop"
  <2>1. stack' = IF warned /\ m - sent <= Low THEN <<"uLow", "lowDone">> \o stack ELSE stack
    BY DEF WriteSome
  <2>2. \/ warned /\ m - sent <= Low /\ stack' = <<"uLow", "lowDone", "writeLoop">>
        \/ ~(warned /\ m - sent <= Low) /\ stack' = <<"writeLoop">>
    BY <1>2, <2>1, LowStack, Zenon
  <2> QED BY <2>2, StackStart, Zenon
<1>9. stack' \in Seq(Frames) /\ Layout(stack') /\ In("writeLoop", stack')
  BY <1>8, LowStack, StackStart, Zenon DEF Special
<1>10. TypeOK'
  <2>1. TypeOK
    BY DEF IInv
  <2>2. UNCHANGED <<state, chan, interest, warned, timerId, cleanupDone, tasks,
                    timer, ksock, soerr, rx, rfin, acked, finSent, edge, nospace,
                    accepted, outcome, closeCbs, crashed>>
    BY <1>1
  <2>3. wire' \in Seq(Nat) /\ wbuf' \in Seq(Nat)
    BY <1>6, Zenon
  <2>4. {rx, acked, accepted, calls, rcvd, closeCbs}' \subseteq Nat
    BY <1>2, <2>1, <2>2, Zenon DEF TypeOK
  <2> QED BY <1>2, <1>9, <2>1, <2>2, <2>3, <2>4, ZenonT(60) DEF TypeOK, Frames
<1>11. Phases'
  <2>1. Begun'
    BY <1>1, <1>2, Zenon DEF Begun
  <2> QED BY <1>1, <1>4, <2>1, Zenon DEF Phases, Up, Ending
<1>12. Reported' /\ Writing'
  BY <1>1, <1>2, <1>3, <1>9, Zenon DEF IInv, Reported, Writing
<1>13. Edges'
  BY <1>1, <1>2, <1>3, <1>9, Zenon DEF IInv, Edges
<1>14. Marks'
  <2>1. ~In("highDone", stack') /\ ~In("highDone", stack)
    BY <1>3, <1>8, SMTT(30) DEF Special
  <2>2. warned /\ Len(wbuf') <= Low => In("lowDone", stack')
    BY <1>6, <1>8, Zenon DEF Special
  <2>3. "send" \notin LowOps => ~(Len(wbuf') > High /\ ~warned)
    <3>1. "send" \notin LowOps => ~(m > High /\ ~warned)
      BY <2>1, Zenon DEF IInv, Marks
    <3>2. Len(wbuf') > High => m > High
      <4>1. High \in Nat /\ Len(wbuf') = m - sent
        BY <1>6, ConnAssumption, ZenonT(60)
      <4> QED BY <1>5, <4>1, SMTT(30)
    <3> QED BY <3>1, <3>2, Zenon
  <2>4. In("lowDone", stack') => Len(wbuf') <= Low /\ Head(stack') = "uLow"
    BY <1>6, <1>8, SMTT(30)
  <2> QED BY <1>1, <2>1, <2>2, <2>3, <2>4, Zenon DEF Marks
<1>15. LoopHasChannel'
  <2>1. chan = "io" /\ state # "Disconnected" /\ Head(stack') \in {"writeLoop", "uLow"}
    BY <1>4, <1>8, ZenonT(60) DEF Up, Ending
  <2> QED BY <1>1, <2>1, Zenon DEF IInv, LoopHasChannel
<1>16. Attempt' /\ Cleaned'
  BY <1>1, <1>8, SMTT(30) DEF Attempt, Cleaned, Special
<1> QED BY <1>7, <1>10, <1>11, <1>12, <1>13, <1>14, <1>15, <1>16 DEF IInv

-----------------------------------------------------------------------------
(* The network and the peer.                                               *)

\* There are bytes to write, or to read, only with the socket registered.
LEMMA Registered ==
  ASSUME IInv, ksock \in {"syn", "est", "dead"}
  PROVE  /\ wbuf # <<>> => interest # {}
         /\ state = "Connected" => interest # {}
         /\ Fresh \/ (Begun /\ (Connecting \/ Up \/ Ending))
<1>1. Fresh \/ (Begun /\ (Connecting \/ Up \/ Ending))
  BY Zenon DEF IInv, Phases, Failed, Over
<1>2. wbuf # <<>> => "W" \in interest
  BY <1>1, Zenon DEF IInv, Writing, Fresh, Connecting, Up, Ending
<1>3. state = "Connected" => "R" \in interest
  BY <1>1, Zenon DEF Fresh, Connecting, Up, Ending
<1> QED BY <1>1, <1>2, <1>3, ZenonT(60)

\* Something new happens to the socket, and epoll lists it.
LEMMA KernelIInv ==
  ASSUME IInv, Kernel, UNCHANGED <<acked, nospace>>,
         ksock \in {"syn", "est"}, ksock' \in {"est", "dead"},
         soerr' \in BOOLEAN, rfin' \in BOOLEAN, rx' \in Nat, rcvd' \in Nat
  PROVE  IInv'
<1>1. /\ UNCHANGED <<closeTimeout, state, chan, interest, wbuf, warned, timerId, cleanupDone>>
      /\ UNCHANGED <<stack, pend, tasks, timer, wire, finSent, accepted, calls,
                     asked, outcome, closeCbs, crashed, acked, nospace>>
  BY SMTT(30) DEF Kernel, objVars, loopVars
<1>2. edge' = (interest # {})
  BY ZenonT(60) DEF Kernel, HandleOpen
<1>3. TypeOK'
  <2>1. TypeOK /\ edge' \in BOOLEAN
    BY <1>2, Zenon DEF IInv
  <2>2. {warned, timerId, cleanupDone, soerr, rfin, finSent, edge, nospace,
         crashed}' \subseteq BOOLEAN
    BY <1>1, <2>1, Zenon DEF TypeOK
  <2> QED BY <1>1, <2>1, <2>2, ZenonT(60) DEF TypeOK
<1>4. Bytes'
  BY <1>1, Zenon DEF IInv, Bytes
<1>5. Phases'
  <2>1. Fresh' \/ (Begun' /\ (Connecting' \/ Up' \/ Ending'))
    BY <1>1, Registered, ZenonT(60) DEF Fresh, Begun, Connecting, Up, Ending
  <2> QED BY <1>1, <2>1, ZenonT(60) DEF IInv, Phases
<1>6. Reported' /\ Writing'
  BY <1>1, ZenonT(60) DEF IInv, Reported, Writing
<1>7. Edges'
  BY <1>1, <1>2, Registered, ZenonT(60) DEF Edges
<1>8. Marks' /\ LoopHasChannel' /\ Attempt' /\ Cleaned'
  BY <1>1, Zenon DEF IInv, Marks, LoopHasChannel, Attempt, Cleaned
<1> QED BY <1>3, <1>4, <1>5, <1>6, <1>7, <1>8, ZenonT(60) DEF IInv

\* The peer takes bytes off the socket's buffer.
LEMMA PeerAcksIInv == IInv /\ PeerAcks => IInv'
<1> SUFFICES ASSUME IInv, PeerAcks PROVE IInv'
  OBVIOUS
<1>1. /\ UNCHANGED <<closeTimeout, state, chan, interest, wbuf, warned, timerId, cleanupDone>>
      /\ UNCHANGED <<stack, pend, tasks, timer, ksock, soerr, rx, rfin, wire, finSent>>
      /\ UNCHANGED <<accepted, calls, rcvd, asked, outcome, closeCbs, crashed>>
      /\ ksock = "est" /\ acked' = Len(wire) /\ nospace' = FALSE
  BY DEF PeerAcks, objVars, loopVars, histVars
<1>2. edge' = (edge \/ (nospace /\ interest # {}))
  BY Zenon DEF PeerAcks
<1>3. acked' \in Nat
  BY <1>1, LenProperties, ZenonT(60) DEF IInv, TypeOK
<1>4. TypeOK'
  <2>1. TypeOK /\ edge' \in BOOLEAN /\ nospace' \in BOOLEAN
    BY <1>1, <1>2, ZenonT(60) DEF IInv
  <2>2. {warned, timerId, cleanupDone, soerr, rfin, finSent, edge, nospace,
         crashed}' \subseteq BOOLEAN
    BY <1>1, <2>1, ZenonT(60) DEF TypeOK
  <2> QED BY <1>1, <1>3, <2>1, <2>2, ZenonT(60) DEF TypeOK
<1>5. Bytes'
  <2>1. acked' <= Len(wire') /\ Len(wire') <= acked' + SendSpace
    <3>1. SendSpace \in Nat /\ Len(wire') = acked'
      BY <1>1, ConnAssumption, Zenon
    <3>2. \A a, b \in Nat : a <= a /\ a <= a + b
      BY SMTT(30)
    <3> QED BY <1>3, <3>1, <3>2, ZenonT(60)
  <2> QED BY <1>1, <2>1, Zenon DEF IInv, Bytes
<1>6. Phases'
  BY <1>1, ZenonT(60) DEF IInv, Phases, Fresh, Begun, Failed, Over, Connecting, Up, Ending
<1>7. Reported' /\ Writing'
  BY <1>1, ZenonT(60) DEF IInv, Reported, Writing
<1>8. Edges'
  <2>1. edge => edge'
    BY <1>2, Zenon
  <2>2. nospace /\ wbuf # <<>> => edge'
    <3>1. wbuf # <<>> => interest # {}
      BY <1>1, Registered, ZenonT(60)
    <3> QED BY <1>2, <3>1, Zenon
  <2> QED BY <1>1, <2>1, <2>2, ZenonT(60) DEF IInv, Edges
<1>9. Marks' /\ LoopHasChannel' /\ Attempt' /\ Cleaned'
  BY <1>1, Zenon DEF IInv, Marks, LoopHasChannel, Attempt, Cleaned
<1> QED BY <1>4, <1>5, <1>6, <1>7, <1>8, <1>9 DEF IInv

LEMMA NetworkIInv == IInv /\ Network => IInv'
<1> SUFFICES ASSUME IInv, Network PROVE IInv'
  OBVIOUS
<1>0. /\ soerr \in BOOLEAN /\ rfin \in BOOLEAN /\ rx \in Nat /\ rcvd \in Nat
  BY Zenon DEF IInv, TypeOK
<1>1. CASE ConnectOk
  BY <1>0, <1>1, KernelIInv, Zenon DEF ConnectOk
<1>2. CASE Reset
  BY <1>0, <1>2, KernelIInv, Zenon DEF Reset
<1>3. CASE PeerSends
  BY <1>0, <1>3, KernelIInv, SMTT(30) DEF PeerSends
<1>4. CASE PeerFin
  BY <1>0, <1>4, KernelIInv, Zenon DEF PeerFin
<1>5. CASE PeerAcks
  BY <1>5, PeerAcksIInv, SMTT(30)
<1> QED BY <1>1, <1>2, <1>3, <1>4, <1>5, ZenonT(60) DEF Network

-----------------------------------------------------------------------------
(* The invariant, and what it says.                                        *)

LEMMA PollThreadIInv == IInv /\ PollThread => IInv'
BY ZenonT(60), RunTaskIInv, EpollWaitIInv, HandleEventIInv, UserReturnsIInv,
   HandleConnectEventIInv, HandleReadEventIInv, HandleCloseEventIInv,
   WriteSomeIInv, WriteBlockedIInv, WriteFailsIInv, WriteDoneIInv,
   WatermarkDoneIInv, CloseDoneIInv DEF PollThread

LEMMA CallsIInv == IInv /\ Calls => IInv'
<1> SUFFICES ASSUME IInv, Calls PROVE IInv'
  OBVIOUS
<1>1. CASE \E n \in Sizes : CallSend(n)
  BY <1>1, CallSendIInv, SMTT(30)
<1>2. CASE ~\E n \in Sizes : CallSend(n)
  BY ZenonT(60), <1>2, CallShutdownIInv, CallCloseIInv, CallConnectIInv, ConnectSyncIInv,
     PostCallIInv, PostConnectIInv DEF Calls
<1> QED BY <1>1, <1>2, Zenon

LEMMA StutterIInv == IInv /\ UNCHANGED vars => IInv'
<1> SUFFICES ASSUME IInv, UNCHANGED vars PROVE IInv'
  BY Zenon
<1>1. /\ UNCHANGED <<state, chan, interest, wbuf, warned, timerId, cleanupDone>>
      /\ UNCHANGED <<stack, pend, tasks, timer, closeTimeout>>
      /\ UNCHANGED <<ksock, soerr, rx, rfin, wire, acked, finSent, edge, nospace>>
      /\ UNCHANGED <<accepted, calls, rcvd, asked, outcome, closeCbs, crashed>>
  BY Zenon DEF vars, objVars, loopVars, sockVars, histVars
<1>2. TypeOK' /\ Bytes'
  <2>1. TypeOK'
    BY <1>1, ZenonT(60) DEF IInv, TypeOK
  <2>2. Bytes'
    BY <1>1, ZenonT(60) DEF IInv, Bytes
  <2> QED BY <2>1, <2>2, Zenon
<1>3. Phases'
  BY <1>1, ZenonT(60) DEF IInv, Phases, Fresh, Begun, Failed, Over, Connecting, Up, Ending
<1>4. Reported' /\ Writing' /\ Edges'
  BY <1>1, ZenonT(60) DEF IInv, Reported, Writing, Edges, Space
<1>5. Marks' /\ LoopHasChannel' /\ Attempt' /\ Cleaned'
  BY <1>1, ZenonT(60) DEF IInv, Marks, LoopHasChannel, Attempt, Cleaned
<1> QED BY <1>2, <1>3, <1>4, <1>5, Zenon DEF IInv

LEMMA StepIInv == IInv /\ [Next]_vars => IInv'
BY CallsIInv, PollThreadIInv, TimerIInv, NetworkIInv, StutterIInv, SMTT(30) DEF Next

LEMMA Invariance == Spec => []IInv
BY InitIInv, StepIInv, PTL DEF Spec

\* Bytes leave in the order in which send() took them: none twice, none left
\* out, whatever is sent directly, buffered, or sent from a callback.
THEOREM OrderKept == Spec => []BytesInOrder
<1>1. IInv => BytesInOrder
  <2> SUFFICES ASSUME IInv PROVE BytesInOrder
    OBVIOUS
  <2> PICK w, b, n, s, t : /\ w = wire /\ b = wbuf /\ n = accepted
                           /\ s = w \o b /\ t = [i \in 1..n |-> i]
    BY Zenon
  <2>1. /\ TypeOK /\ w \in Seq(Nat) /\ b \in Seq(Nat) /\ n \in Nat
        /\ Len(w) + Len(b) = n
        /\ \A i \in 1..Len(w) : w[i] = i
        /\ \A i \in 1..Len(b) : b[i] = Len(w) + i
    BY Zenon DEF IInv, TypeOK, Bytes
  <2>2. t \in Seq(Nat) /\ Len(t) = n /\ \A i \in 1..n : t[i] = i
    BY <2>1, SMTT(30)
  <2>3. /\ s \in Seq(Nat) /\ Len(s) = n
        /\ \A i \in 1..n : s[i] = IF i <= Len(w) THEN w[i] ELSE b[i - Len(w)]
    BY <2>1, ConcatProperties, SMTT(30)
  <2>4. \A i \in 1..n : s[i] = i
    <3> SUFFICES ASSUME NEW i \in 1..n PROVE s[i] = i
      BY Zenon
    <3>1. Len(w) \in Nat /\ Len(b) \in Nat
      BY <2>1, LenProperties, Zenon
    <3>2. CASE i <= Len(w)
      BY <2>1, <2>3, <3>1, <3>2, SMTT(30)
    <3>3. CASE ~(i <= Len(w))
      <4>1. i - Len(w) \in 1..Len(b) /\ Len(w) + (i - Len(w)) = i
        BY <2>1, <3>1, <3>3, SMTT(30)
      <4>2. b[i - Len(w)] = Len(w) + (i - Len(w))
        BY <2>1, <4>1, Zenon
      <4> QED BY <2>3, <3>3, <4>1, <4>2, ZenonT(60)
    <3> QED BY <3>2, <3>3, Zenon
  <2>5. s = t
    BY <2>2, <2>3, <2>4, SeqEqual, ZenonT(60)
  <2> QED BY <2>1, <2>5, Zenon DEF BytesInOrder
<1> QED BY <1>1, Invariance, PTL

\* While the poll thread is not in one of its handlers, a Conn is in a phase
\* in which it holds all of its Channel or nothing of it.
LEMMA QuietPhases ==
  ASSUME IInv, Quiet
  PROVE  /\ \A f : ~In(f, stack)
         /\ \/ state = "Disconnected" /\ chan = "none"
            \/ state # "Disconnected"
<1>1. \A f : ~In(f, stack)
  BY StackEmpty, Zenon DEF Quiet
<1> QED BY <1>1, Zenon DEF IInv, Phases, Fresh, Failed, Over, Connecting, Up, Ending

\* EPOLLOUT is asked for exactly while there is something to write.
THEOREM WriteEventKept == Spec => []WriteInterest
<1>1. IInv => WriteInterest
  BY QuietPhases, Zenon DEF IInv, Writing, WriteInterest
<1> QED BY <1>1, Invariance, PTL

\* Bytes in write_buffer_ are never left without an edge to come: direct
\* writes up to the budget, full sockets, and callbacks notwithstanding.
THEOREM WritableKept == Spec => []WritableEdgeKept
<1>1. IInv => WritableEdgeKept
  BY QuietPhases, ZenonT(60) DEF IInv, Edges, WritableEdgeKept
<1> QED BY <1>1, Invariance, PTL

\* Neither are bytes to receive, the end of the stream, or an error.
THEOREM ReadableKept == Spec => []ReadableEdgeKept
<1>1. IInv => ReadableEdgeKept
  BY QuietPhases, Zenon DEF IInv, Edges, ReadableEdgeKept
<1> QED BY <1>1, Invariance, PTL

\* However close(), shutdown(), FIN, reset, a failing send, and the timer
\* meet, the close callbacks run once, and no descriptor is closed silently.
THEOREM CloseIsOnce == Spec => []ClosedOnce
<1>1. IInv => ClosedOnce
  <2> SUFFICES ASSUME IInv PROVE ClosedOnce
    OBVIOUS
  <2>1. Fresh \/ Failed \/ Over \/ Connecting \/ Up \/ Ending
    BY SMTT(30) DEF IInv, Phases
  <2>2. closeCbs = 0 \/ closeCbs = 1
    BY <2>1, ZenonT(60) DEF Fresh, Failed, Over, Connecting, Up, Ending
  <2>3. ksock = "closed" => closeCbs = 1 \/ outcome = "err"
    BY <2>1, Zenon DEF Fresh, Failed, Over, Connecting, Up, Ending
  <2> QED BY <2>2, <2>3, SMTT(30) DEF ClosedOnce
<1> QED BY <1>1, Invariance, PTL

\* After the close callbacks the Conn holds no descriptor, registration,
\* Channel or timer.
THEOREM CloseReleases == Spec => []AllReleased
<1>1. IInv => AllReleased
  <2> SUFFICES ASSUME IInv, Quiet, closeCbs = 1
               PROVE  /\ state = "Disconnected" /\ ~HandleOpen /\ interest = {}
                      /\ chan = "none" /\ ~timerId /\ timer # "armed"
    BY ZenonT(60) DEF AllReleased
  <2>1. Over
    BY DEF IInv, Phases, Fresh, Failed, Over, Connecting, Up, Ending
  <2> QED BY <2>1, QuietPhases, SMTT(30) DEF Over, HandleOpen
<1> QED BY <1>1, Invariance, PTL

\* high_watermark_warning_ tells the side of the hysteresis the buffer is on,
\* for every application that does not send from the low watermark's callback.
THEOREM HysteresisKept ==
  ASSUME "send" \notin LowOps
  PROVE  Spec => []WatermarkHysteresis
<1>1. IInv => WatermarkHysteresis
  <2> SUFFICES ASSUME IInv, Quiet
               PROVE  /\ Len(wbuf) > High => warned
                      /\ warned => Len(wbuf) > Low
    BY DEF WatermarkHysteresis
  <2>1. ~In("highDone", stack) /\ ~In("lowDone", stack)
    BY QuietPhases, SMTT(30)
  <2>2. (Len(wbuf) > High => warned) /\ ~(warned /\ Len(wbuf) <= Low)
    BY <2>1, ZenonT(60) DEF IInv, Marks
  <2>3. Len(wbuf) \in Nat /\ Low \in Nat
    BY ConnAssumption, LenProperties, Zenon DEF IInv, TypeOK
  <2>4. ~(Len(wbuf) <= Low) => Len(wbuf) > Low
    BY <2>3
  <2> QED BY <2>2, <2>4, Zenon
<1> QED BY <1>1, Invariance, PTL

\* handle_write_event_ uses channel_ without a test; it is there for every
\* application that at most shuts down in the low watermark's callback.
THEOREM ChannelKept ==
  ASSUME LowOps \subseteq {"shutdown"}
  PROVE  Spec => []NoNullChannel
<1>1. IInv => NoNullChannel
  BY Zenon DEF IInv, LoopHasChannel, NoNullChannel
<1> QED BY <1>1, Invariance, PTL

\* After shut_wr the send functions have nothing to do.
LEMMA FinSentPhase ==
  ASSUME IInv, finSent
  PROVE  state # "Connected" /\ (wbuf # <<>> => ksock # "est")
BY ZenonT(60) DEF IInv, Phases, Fresh, Failed, Over, Connecting, Up, Ending

LEMMA SendAfterFin ==
  ASSUME NEW n, NEW rest, state # "Connected", SendInPollThread(n, rest)
  PROVE  UNCHANGED wire
BY SendCases DEF Return, sockVars, SendQueued, SendDirect

\* One action after the other: none of them writes after the FIN.
LEMMA NothingAfterFin ==
  ASSUME IInv, finSent, [Next]_vars
  PROVE  wire' = wire
<1>0. state # "Connected" /\ (wbuf # <<>> => ksock # "est")
  BY FinSentPhase
<1>1. CASE Calls
  <2>1. CASE \E n \in Sizes : CallSend(n)
    BY <1>0, <2>1, Zenon DEF CallSend
  <2>2. CASE CallShutdown \/ CallClose
    BY <2>2, Zenon DEF CallShutdown, CallClose, ShutdownInPoll, Cleanup, Return, sockVars
  <2>3. CASE CallConnect \/ CallConnectSync
    BY <2>3, Zenon DEF CallConnect, CallConnectSync, StartConnectInPoll, Return, sockVars
  <2>4. CASE PostCall \/ PostConnect
    BY <2>4, Zenon DEF PostCall, PostConnect, Post, sockVars
  <2> QED BY <1>1, <2>1, <2>2, <2>3, <2>4, ZenonT(60) DEF Calls
<1>2. CASE RunTask
  <2> PICK op, n : op = Head(tasks).op /\ n = Head(tasks).n
    BY Zenon
  <2>1. CASE op = "send"
    BY <1>0, <1>2, <2>1, TaskCases, SendAfterFin, Zenon
  <2>2. CASE op # "send"
    <3>1. op \in Ops
      <4>1. tasks \in Seq(TaskSet) /\ tasks # <<>>
        BY <1>2, Zenon DEF RunTask, IInv, TypeOK, TaskSet
      <4>2. Head(tasks) \in TaskSet
        BY <4>1, HeadTailProperties, Zenon
      <4> QED BY <4>2, Zenon DEF TaskSet
    <3>2. \/ ShutdownInPoll(<<>>) \/ Cleanup(<<>>) \/ Start(<<>>) \/ Return(<<>>)
          \/ StartConnectInPoll(<<>>)
      BY <1>2, <2>2, <3>1, TaskCases, Zenon DEF Ops
    <3> QED BY <3>2, Zenon DEF ShutdownInPoll, Cleanup, Start, Return, StartConnectInPoll, sockVars
  <2> QED BY <2>1, <2>2, Zenon
<1>3. CASE EpollWait \/ HandleEvent \/ UserReturns
  BY <1>3, ZenonT(60) DEF EpollWait, HandleEvent, UserReturns, Return, sockVars
<1>4. CASE HandleConnectEvent \/ HandleReadEvent \/ HandleCloseEvent
  BY <1>4, Zenon DEF HandleConnectEvent, HandleReadEvent, HandleCloseEvent, Cleanup, Return, sockVars
<1>5. CASE WriteSome \/ WriteBlocked \/ WriteFails \/ WriteDone
  BY <1>0, <1>5, ZenonT(60) DEF WriteSome, WriteBlocked, WriteFails, WriteDone, Cleanup, Return, sockVars
<1>6. CASE WatermarkDone \/ CloseDone \/ TimerThread
  BY <1>6, Zenon DEF WatermarkDone, CloseDone, TimerThread, TimerExtract, TimerCallback, sockVars
<1>7. CASE Network
  BY <1>7, ZenonT(60) DEF Network, ConnectOk, Reset, PeerSends, PeerFin, PeerAcks, Kernel
<1>8. CASE UNCHANGED vars
  BY <1>8 DEF vars, sockVars
<1> QED BY <1>1, <1>2, <1>3, <1>4, <1>5, <1>6, <1>7, <1>8, ZenonT(60) DEF Next, PollThread

\* shutdown() cuts nothing off, and nothing is written after shut_wr.
THEOREM NothingCutOff == Spec => FinIsLast
<1>1. ASSUME IInv, IInv', [Next]_vars
      PROVE  /\ finSent => wire' = wire
             /\ finSent' /\ ~finSent /\ HandleOpen' => wbuf' = <<>>
  <2>1. finSent => wire' = wire
    BY <1>1, NothingAfterFin, Zenon
  <2>2. finSent' /\ HandleOpen' => wbuf' = <<>>
    BY <1>1, ZenonT(60) DEF IInv, Phases, HandleOpen, Fresh, Failed, Over, Connecting, Up, Ending
  <2> QED BY <2>1, <2>2, Zenon
<1>2. IInv /\ IInv' /\ [Next]_vars =>
        [/\ finSent => wire' = wire
         /\ finSent' /\ ~finSent /\ HandleOpen' => wbuf' = <<>>]_vars
  BY <1>1
<1> QED BY <1>2, Invariance, PTL DEF Spec, FinIsLast
=============================================================================
