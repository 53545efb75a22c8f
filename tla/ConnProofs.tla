----------------------------- MODULE ConnProofs -----------------------------
(***************************************************************************)
(* Proofs about Conn, for messages, budgets, socket buffers and watermarks *)
(* of any size, any number of calls from any thread and from any callback, *)
(* and any peer.                                                           *)
(***************************************************************************)
EXTENDS Conn, SequenceTheorems, TLAPS

-----------------------------------------------------------------------------
(* The inductive invariant.                                                *)

\* Frame f is on the stack s.
In(f, s) == \E i \in 1..Len(s) : s[i] = f

Frames == UserFrames \cup CodeFrames

\* The write loop is the last thing an event's dispatch comes to, and the low
\* watermark's callback is only called from there.
Layout(s) ==
  \A i \in 1..Len(s) :
    /\ s[i] = "writeLoop" => i = Len(s)
    /\ s[i] = "lowDone" => i + 1 = Len(s) /\ s[i + 1] = "writeLoop"
    /\ s[i] = "uLow" => /\ i + 2 = Len(s)
                        /\ s[i + 1] = "lowDone" /\ s[i + 2] = "writeLoop"

\* What is on the wire and in write_buffer_ are the bytes 1, 2, ... accepted,
\* and the kernel holds no more of them than its buffer takes.
Bytes ==
  /\ Len(wire) + Len(wbuf) = accepted
  /\ \A i \in 1..Len(wire) : wire[i] = i
  /\ \A i \in 1..Len(wbuf) : wbuf[i] = Len(wire) + i
  /\ acked <= Len(wire)
  /\ Len(wire) <= acked + SendSpace

\* start_ or start_connect_in_poll_ is still to be run, and nothing has
\* happened to the Conn.
Fresh ==
  /\ state = "Disconnected" /\ chan = "none" /\ interest = {}
  /\ wbuf = <<>> /\ ~warned /\ ~timerId /\ timer = "none" /\ ~finSent
  /\ stack = <<>> /\ pend = NoEvent /\ closeCbs = 0
  /\ \/ ~asked /\ tasks = <<>> /\ ksock = "none"
     \/ asked /\ tasks = <<Task("connect")>> /\ ksock = "none"
     \/ asked /\ tasks = <<Task("start")>> /\ ksock \in {"est", "dead"}

\* The attempt to connect has failed.
Failed ==
  /\ state = "Disconnected" /\ chan = "none" /\ interest = {}
  /\ wbuf = <<>> /\ pend = NoEvent /\ ~finSent /\ closeCbs = 0
  /\ ksock \in {"none", "closed"} /\ outcome = "err"

\* do_cleanup_ has been run.
Over ==
  /\ state = "Disconnected" /\ interest = {}
  /\ ~timerId /\ timer # "armed"
  /\ ksock = "closed" /\ closeCbs = 1
  /\ chan = "none" \/ In("closeDone", stack)

Connecting ==
  /\ state = "Connecting" /\ chan = "connect" /\ wbuf = <<>> /\ ~finSent
  /\ ksock \in {"syn", "est", "dead"} /\ closeCbs = 0

Up ==
  /\ state = "Connected" /\ chan = "io" /\ "R" \in interest /\ ~finSent
  /\ ksock \in {"est", "dead"} /\ closeCbs = 0

Ending ==
  /\ state = "Disconnecting"
  /\ chan = "io" \/ (chan = "connect" /\ wbuf = <<>>)
  /\ finSent => wbuf = <<>>
  /\ ksock \in {"est", "dead"} /\ closeCbs = 0

\* No closure is going to start it again.
Begun == asked /\ \A i \in 1..Len(tasks) : tasks[i].op \notin {"start", "connect"}

Phases ==
  /\ cleanupDone <=> closeCbs = 1
  /\ timer = "armed" => timerId
  /\ Fresh \/ (Begun /\ (Failed \/ Over \/ Connecting \/ Up \/ Ending))

\* An event is reported for the Channel there is, and while it waits to be
\* dispatched no handler is half done.
Reported ==
  /\ Layout(stack)
  /\ pend # NoEvent =>
       /\ pend.kind = chan \/ state = "Disconnected"
       /\ pend.kind # "connect" /\ "W" \in pend.ev => wbuf # <<>>
       /\ \A f \in {"connectEvent", "read", "closeEvent", "writeLoop"} : ~In(f, stack)

\* The write event is on while there are bytes to write, and off otherwise,
\* but for the end of a write loop.
Writing ==
  chan = "io" /\ state # "Disconnected" =>
    /\ wbuf # <<>> => "W" \in interest
    /\ "W" \in interest /\ wbuf = <<>> => In("writeLoop", stack)

\* Somebody is going to come back for the bytes to write, and for those to
\* read.
Edges ==
  /\ wbuf # <<>> /\ ksock = "est" =>
       \/ edge \/ pend.ev \cap {"W", "E", "H"} # {}
       \/ nospace /\ Space = 0
       \/ In("writeLoop", stack) \/ In("closeEvent", stack)
  /\ state = "Connected" /\ (rx > 0 \/ rfin \/ ksock = "dead") =>
       \/ edge \/ pend.ev \cap {"R", "E", "H"} # {}
       \/ In("read", stack) \/ In("closeEvent", stack)

\* The flag lags behind the buffer only while a watermark's callback runs.
Marks ==
  /\ In("highDone", stack) => Len(wbuf) > High
  /\ warned /\ Len(wbuf) <= Low => In("lowDone", stack)
  /\ "send" \notin LowOps =>
       /\ Len(wbuf) > High /\ ~warned => In("highDone", stack)
       /\ In("lowDone", stack) =>
            /\ Len(wbuf) <= Low
            /\ state # "Disconnected" => Head(stack) \in {"uLow", "lowDone"}

\* A write loop that will find the buffer empty has its Channel.
LoopHasChannel ==
  LowOps \subseteq {"shutdown"} =>
    /\ ~crashed
    /\ In("writeLoop", stack) =>
         \/ wbuf # <<>>
         \/ /\ chan = "io" /\ state # "Disconnected"
            /\ Head(stack) \in {"writeLoop", "uLow", "lowDone"}

\* Nothing is reported of a connection attempt before it has a result.
Attempt ==
  ksock \in {"none", "syn"} =>
    /\ ~soerr /\ "R" \notin interest
    /\ pend = NoEvent /\ ~In("connectEvent", stack)

\* Only do_cleanup_ lets go of the Channel.
Cleaned == In("closeDone", stack) => cleanupDone

IInv ==
  /\ TypeOK /\ Bytes /\ Phases /\ Reported /\ Writing /\ Edges /\ Marks
  /\ LoopHasChannel /\ Attempt /\ Cleaned

-----------------------------------------------------------------------------
(* Lemmas about stacks.                                                    *)

Special == {"writeLoop", "lowDone", "uLow"}

LEMMA StackEmpty == (\A f : ~In(f, <<>>)) /\ Layout(<<>>)
BY DEF In, Layout

\* One frame is put on top.
LEMMA StackPush ==
  ASSUME NEW s \in Seq(Frames), NEW a \in Frames \ Special
  PROVE  /\ <<a>> \o s \in Seq(Frames) /\ <<a>> \o s # <<>> /\ Head(<<a>> \o s) = a
         /\ \A f : In(f, <<a>> \o s) <=> f = a \/ In(f, s)
         /\ Layout(s) => Layout(<<a>> \o s)
<1> PICK t : t = <<a>> \o s
  BY Zenon
<1>1. /\ Len(s) \in Nat /\ t \in Seq(Frames) /\ Len(t) = Len(s) + 1
      /\ t[1] = a /\ \A i \in 1..Len(s) : t[i + 1] = s[i]
  BY LenProperties
<1>2. t # <<>> /\ Head(t) = a
  BY <1>1
<1>3. \A f : In(f, t) <=> f = a \/ In(f, s)
  <2> TAKE f
  <2>1. In(f, t) => f = a \/ In(f, s)
    <3> SUFFICES ASSUME NEW i \in 1..Len(t), t[i] = f, f # a
                 PROVE  \E j \in 1..Len(s) : s[j] = f
      BY DEF In
    <3>1. i - 1 \in 1..Len(s) /\ t[(i - 1) + 1] = s[i - 1] /\ (i - 1) + 1 = i
      BY <1>1
    <3> QED BY <3>1
  <2>2. f = a => In(f, t)
    <3>1. 1 \in 1..Len(t)
      BY <1>1
    <3> QED BY <1>1, <3>1 DEF In
  <2>3. In(f, s) => In(f, t)
    <3> SUFFICES ASSUME NEW i \in 1..Len(s), s[i] = f
                 PROVE  \E j \in 1..Len(t) : t[j] = f
      BY DEF In
    <3>1. i + 1 \in 1..Len(t)
      BY <1>1, SMTT(30)
    <3> QED BY <1>1, <3>1
  <2> QED BY <2>1, <2>2, <2>3
<1>4. ASSUME Layout(s) PROVE Layout(t)
  <2> SUFFICES ASSUME NEW i \in 1..Len(t)
               PROVE  /\ t[i] = "writeLoop" => i = Len(t)
                      /\ t[i] = "lowDone" => i + 1 = Len(t) /\ t[i + 1] = "writeLoop"
                      /\ t[i] = "uLow" => /\ i + 2 = Len(t)
                                          /\ t[i + 1] = "lowDone" /\ t[i + 2] = "writeLoop"
    BY DEF Layout
  <2>1. CASE i = 1
    BY <1>1, <2>1, SMTT(30) DEF Special
  <2>2. CASE i # 1
    <3> PICK j \in 1..Len(s) : i = j + 1
      <4>1. i - 1 \in 1..Len(s) /\ i = (i - 1) + 1
        BY <1>1, <2>2
      <4> QED BY <4>1
    <3>1. /\ s[j] = "writeLoop" => j = Len(s)
          /\ s[j] = "lowDone" => j + 1 = Len(s) /\ s[j + 1] = "writeLoop"
          /\ s[j] = "uLow" => /\ j + 2 = Len(s)
                              /\ s[j + 1] = "lowDone" /\ s[j + 2] = "writeLoop"
      BY <1>4 DEF Layout
    <3>2. /\ t[i] = s[j]
          /\ j + 1 \in 1..Len(s) => t[i + 1] = s[j + 1]
          /\ j + 2 \in 1..Len(s) => t[i + 2] = s[j + 2]
      <4>1. i + 1 = (j + 1) + 1 /\ i + 2 = (j + 2) + 1
        OBVIOUS
      <4> QED BY <1>1, <4>1, Zenon
    <3> QED BY <1>1, <3>1, <3>2
  <2> QED BY <2>1, <2>2, SMTT(30)
<1> QED BY <1>1, <1>2, <1>3, <1>4

\* Two frames are.
LEMMA StackPush2 ==
  ASSUME NEW s \in Seq(Frames), NEW a \in Frames \ Special, NEW b \in Frames \ Special
  PROVE  /\ <<a, b>> \o s \in Seq(Frames) /\ <<a, b>> \o s # <<>> /\ Head(<<a, b>> \o s) = a
         /\ \A f : In(f, <<a, b>> \o s) <=> f = a \/ f = b \/ In(f, s)
         /\ Layout(s) => Layout(<<a, b>> \o s)
<1>1. <<a, b>> \o s = <<a>> \o (<<b>> \o s)
  <2>1. a \in Frames /\ b \in Frames
    OBVIOUS
  <2>2. /\ <<a>> \in Seq(Frames) /\ <<b>> \in Seq(Frames)
        /\ <<a, b>> \in Seq(Frames) /\ <<a>> \o <<b>> \in Seq(Frames)
    BY <2>1
  <2>3. <<a, b>> = <<a>> \o <<b>>
    <3> PICK t : t = <<a>> \o <<b>>
      BY Zenon
    <3>1. t \in Seq(Frames) /\ Len(t) = 2 /\ t[1] = a /\ t[2] = b
      BY <2>1
    <3>2. Len(<<a, b>>) = 2 /\ <<a, b>>[1] = a /\ <<a, b>>[2] = b
      OBVIOUS
    <3>3. ASSUME NEW i \in 1..2 PROVE <<a, b>>[i] = t[i]
      <4>1. i = 1 \/ i = 2
        OBVIOUS
      <4> QED BY <3>1, <3>2, <4>1, Zenon
    <3> QED BY <2>2, <3>1, <3>2, <3>3, SeqEqual, Zenon
  <2> QED BY <2>2, <2>3, ConcatAssociative
<1>2. <<b>> \o s \in Seq(Frames)
  BY StackPush
<1> QED BY <1>1, <1>2, StackPush, Zenon

\* The top one is taken off.
LEMMA StackPop ==
  ASSUME NEW s \in Seq(Frames), s # <<>>
  PROVE  /\ Tail(s) \in Seq(Frames) /\ Head(s) \in Frames
         /\ \A f : In(f, s) <=> f = Head(s) \/ In(f, Tail(s))
         /\ Layout(s) => Layout(Tail(s))
<1> PICK t : t = Tail(s)
  BY Zenon
<1>1. /\ Len(s) \in Nat /\ Len(s) >= 1 /\ t \in Seq(Frames) /\ Len(t) = Len(s) - 1
      /\ Head(s) = s[1] /\ Head(s) \in Frames /\ \A i \in 1..Len(t) : t[i] = s[i + 1]
  BY LenProperties, EmptySeq, HeadTailProperties
<1>3. \A f : In(f, s) <=> f = Head(s) \/ In(f, t)
  <2> TAKE f
  <2>1. In(f, s) => f = Head(s) \/ In(f, t)
    <3> SUFFICES ASSUME NEW i \in 1..Len(s), s[i] = f, f # Head(s)
                 PROVE  \E j \in 1..Len(t) : t[j] = f
      BY DEF In
    <3>1. i - 1 \in 1..Len(t) /\ (i - 1) + 1 = i
      BY <1>1
    <3> QED BY <1>1, <3>1
  <2>2. f = Head(s) => In(f, s)
    <3>1. 1 \in 1..Len(s)
      BY <1>1
    <3> QED BY <1>1, <3>1 DEF In
  <2>3. In(f, t) => In(f, s)
    <3> SUFFICES ASSUME NEW i \in 1..Len(t), t[i] = f
                 PROVE  \E j \in 1..Len(s) : s[j] = f
      BY DEF In
    <3>1. i + 1 \in 1..Len(s)
      BY <1>1
    <3> QED BY <1>1, <3>1
  <2> QED BY <2>1, <2>2, <2>3
<1>4. ASSUME Layout(s) PROVE Layout(t)
  <2> SUFFICES ASSUME NEW i \in 1..Len(t)
               PROVE  /\ t[i] = "writeLoop" => i = Len(t)
                      /\ t[i] = "lowDone" => i + 1 = Len(t) /\ t[i + 1] = "writeLoop"
                      /\ t[i] = "uLow" => /\ i + 2 = Len(t)
                                          /\ t[i + 1] = "lowDone" /\ t[i + 2] = "writeLoop"
    BY DEF Layout
  <2> PICK j : j = i + 1
    OBVIOUS
  <2>1. j \in 1..Len(s)
    BY <1>1
  <2>2. /\ s[j] = "writeLoop" => j = Len(s)
        /\ s[j] = "lowDone" => j + 1 = Len(s) /\ s[j + 1] = "writeLoop"
        /\ s[j] = "uLow" => /\ j + 2 = Len(s)
                            /\ s[j + 1] = "lowDone" /\ s[j + 2] = "writeLoop"
    BY <1>4, <2>1 DEF Layout
  <2>3. /\ t[i] = s[j]
        /\ i + 1 \in 1..Len(t) => t[i + 1] = s[j + 1]
        /\ i + 2 \in 1..Len(t) => t[i + 2] = s[j + 2]
    <3>1. j + 1 = (i + 1) + 1 /\ j + 2 = (i + 2) + 1
      OBVIOUS
    <3> QED BY <1>1, <3>1
  <2>4. /\ j = Len(s) => i = Len(t)
        /\ j + 1 = Len(s) => i + 1 = Len(t) /\ i + 1 \in 1..Len(t)
        /\ j + 2 = Len(s) => i + 2 = Len(t) /\ i + 2 \in 1..Len(t) /\ i + 1 \in 1..Len(t)
    <3> PICK m : m = Len(s)
      OBVIOUS
    <3>1. m \in Nat /\ Len(t) = m - 1
      BY <1>1
    <3> QED BY <3>1
  <2> QED BY <2>2, <2>3, <2>4
<1> QED BY <1>1, <1>3, <1>4

\* What lies under the frames of the write loop.
LEMMA StackTop ==
  ASSUME NEW s \in Seq(Frames), s # <<>>, Layout(s)
  PROVE  /\ Head(s) = "writeLoop" => s = <<"writeLoop">> /\ Tail(s) = <<>>
         /\ Head(s) = "lowDone" => Tail(s) = <<"writeLoop">>
         /\ Head(s) = "uLow" => Tail(s) = <<"lowDone", "writeLoop">>
<1>1. Len(s) \in Nat /\ 1 \in 1..Len(s) /\ Head(s) = s[1]
  BY LenProperties, EmptySeq, HeadTailProperties
<1>2. /\ s[1] = "writeLoop" => 1 = Len(s)
      /\ s[1] = "lowDone" => 1 + 1 = Len(s) /\ s[1 + 1] = "writeLoop"
      /\ s[1] = "uLow" => /\ 1 + 2 = Len(s)
                          /\ s[1 + 1] = "lowDone" /\ s[1 + 2] = "writeLoop"
  BY <1>1, Zenon DEF Layout
<1>3. /\ Tail(s) \in Seq(Frames) /\ Len(Tail(s)) = Len(s) - 1
      /\ \A i \in 1..Len(Tail(s)) : Tail(s)[i] = s[i + 1]
  BY HeadTailProperties
<1>4. ASSUME s[1] = "writeLoop" PROVE s = <<"writeLoop">> /\ Tail(s) = <<>>
  <2>1. Len(s) = 1 /\ s = <<s[1]>>
    BY <1>1, <1>2, <1>4
  <2> QED BY <1>4, <2>1, SMTT(30)
<1>5. ASSUME s[1] = "lowDone" PROVE Tail(s) = <<"writeLoop">>
  <2>1. Len(Tail(s)) = 1 /\ Tail(s)[1] = "writeLoop"
    BY <1>1, <1>2, <1>3, <1>5
  <2>2. <<"writeLoop">> \in Seq(Frames) /\ Len(<<"writeLoop">>) = 1
    BY DEF Frames, CodeFrames
  <2>3. ASSUME NEW i \in 1..1 PROVE Tail(s)[i] = <<"writeLoop">>[i]
    <3>1. i = 1 /\ <<"writeLoop">>[1] = "writeLoop"
      OBVIOUS
    <3> QED BY <2>1, <3>1
  <2> QED BY <1>3, <2>1, <2>2, <2>3, SeqEqual, Zenon
<1>6. ASSUME s[1] = "uLow" PROVE Tail(s) = <<"lowDone", "writeLoop">>
  <2>1. Len(Tail(s)) = 2 /\ Tail(s)[1] = "lowDone" /\ Tail(s)[2] = "writeLoop"
    BY <1>1, <1>2, <1>3, <1>6
  <2>2. /\ <<"lowDone", "writeLoop">> \in Seq(Frames)
        /\ Len(<<"lowDone", "writeLoop">>) = 2
    BY DEF Frames, CodeFrames
  <2>3. ASSUME NEW i \in 1..2 PROVE Tail(s)[i] = <<"lowDone", "writeLoop">>[i]
    <3>1. /\ i = 1 \/ i = 2
          /\ <<"lowDone", "writeLoop">>[1] = "lowDone"
          /\ <<"lowDone", "writeLoop">>[2] = "writeLoop"
      OBVIOUS
    <3> QED BY <2>1, <3>1, Zenon
  <2> QED BY <1>3, <2>1, <2>2, <2>3, SeqEqual, Zenon
<1> QED BY <1>1, <1>4, <1>5, <1>6

\* The frames a write loop starts with.
LEMMA StackStart ==
  /\ \A f : In(f, <<"writeLoop">>) <=> f = "writeLoop"
  /\ \A f : In(f, <<"lowDone", "writeLoop">>) <=> f \in {"lowDone", "writeLoop"}
  /\ \A f : In(f, <<"uLow", "lowDone", "writeLoop">>) <=> f \in Special
  /\ Layout(<<"writeLoop">>) /\ Layout(<<"uLow", "lowDone", "writeLoop">>)
  /\ Head(<<"writeLoop">>) = "writeLoop"
  /\ Head(<<"lowDone", "writeLoop">>) = "lowDone"
  /\ Head(<<"uLow", "lowDone", "writeLoop">>) = "uLow"
BY DEF In, Layout, Special

-----------------------------------------------------------------------------
(* The handlers keep the invariant.                                        *)

\* What is left of the stack when a handler returns.
Keeps(rest) ==
  /\ rest \in Seq(Frames) /\ Layout(rest)
  /\ \A f : In(f, rest) => In(f, stack)
  /\ \A f \in {"highDone", "lowDone", "closeDone"} : In(f, stack) => In(f, rest)

TaskSet == [op : Ops, n : Nat]

\* What surrounds a handler: closures are taken or handed over, and calls
\* counted.
Around ==
  /\ Begun /\ Begun'
  /\ tasks' \in Seq(TaskSet) /\ calls' \in Nat /\ rcvd' \in Nat
  /\ UNCHANGED <<pend, asked, outcome, closeTimeout>>

LEMMA FreshNotBegun == Fresh => ~Begun
<1>1. \A t : Len(<<t>>) = 1 /\ <<t>>[1] = t
  OBVIOUS
<1>2. Task("connect").op = "connect" /\ Task("start").op = "start"
  BY DEF Task
<1>3. \A op \in {"start", "connect"} : tasks = <<Task(op)>> => ~Begun
  BY <1>1, <1>2 DEF Begun
<1> QED BY <1>3 DEF Fresh, Begun

\* Init
LEMMA InitIInv == Init => IInv
<1> SUFFICES ASSUME Init PROVE IInv
  OBVIOUS
<1> USE DEF Init
<1>0. \/ ~asked /\ tasks = <<>> /\ ksock = "none"
      \/ asked /\ tasks = <<Task("start")>> /\ ksock = "est"
  BY Zenon DEF NewConn
<1>1. TypeOK
  <2>1. Task("start") \in TaskSet
    BY DEF Task, TaskSet, Ops
  <2>2. tasks \in Seq(TaskSet)
    <3> HIDE DEF Init
    <3>1. <<>> \in Seq(TaskSet) /\ \A t \in TaskSet : <<t>> \in Seq(TaskSet)
      OBVIOUS
    <3> QED BY <1>0, <2>1, <3>1, Zenon
  <2>3. asked \in BOOLEAN
    <3>1. PICK role \in Roles : asked = (role = "accepted")
      BY DEF NewConn
    <3> QED BY <3>1
  <2>4. {warned, timerId, cleanupDone, soerr, rfin, finSent, edge, nospace,
         crashed} \subseteq BOOLEAN
    BY Zenon
  <2>5. pend \in [kind : {"none", "connect", "io"}, ev : SUBSET {"R", "W", "E", "H"}]
    BY DEF NoEvent
  <2> QED BY <1>0, <2>2, <2>3, <2>4, <2>5, SMTT(30) DEF TypeOK, TaskSet
<1>2. Bytes
  BY ConnAssumption DEF Bytes
<1>3. Phases
  <2>1. Fresh
    BY <1>0 DEF Fresh
  <2> QED BY <2>1 DEF Phases
<1>4. Reported /\ Writing /\ Edges
  BY StackEmpty, SMTT(30) DEF Reported, Writing, Edges
<1>5. Marks /\ LoopHasChannel
  BY StackEmpty, ConnAssumption, SMTT(30) DEF Marks, LoopHasChannel
<1>6. Attempt
  BY StackEmpty DEF Attempt
<1>7. Cleaned
  BY StackEmpty DEF Cleaned
<1> QED BY <1>1, <1>2, <1>3, <1>4, <1>5, <1>6, <1>7, SMTT(30) DEF IInv

\* Nothing but closures and counters changes, and perhaps the timer goes off.
LEMMA StayIInv ==
  ASSUME IInv, Around,
         UNCHANGED <<objVars, stack, sockVars, accepted, closeCbs, crashed>>,
         timer' \in {timer, "extracted", "none"}
  PROVE  IInv'
<1>1. /\ UNCHANGED <<state, chan, interest, wbuf, warned, timerId, cleanupDone>>
      /\ UNCHANGED <<stack, accepted, closeCbs, crashed, pend, asked, outcome, closeTimeout>>
      /\ UNCHANGED <<ksock, soerr, rx, rfin, wire, acked, finSent, edge, nospace>>
  BY DEF Around, objVars, sockVars
<1>2. tasks' \in Seq(TaskSet) /\ calls' \in Nat /\ rcvd' \in Nat /\ Begun'
  BY Zenon DEF Around
<1>3. TypeOK'
  BY <1>1, <1>2, SMTT(30) DEF IInv, TypeOK, TaskSet
<1>4. Bytes'
  BY <1>1 DEF IInv, Bytes
<1>5. Phases'
  <2>1. Failed \/ Over \/ Connecting \/ Up \/ Ending
    BY FreshNotBegun, ZenonT(60) DEF IInv, Phases, Around
  <2> QED BY <1>1, <1>2, <2>1 DEF IInv, Phases, Failed, Over, Connecting, Up, Ending
<1>6. Reported' /\ Writing' /\ Edges'
  BY <1>1, Zenon DEF IInv, Reported, Writing, Edges, Space
<1>7. Marks' /\ LoopHasChannel'
  BY <1>1, SMTT(30) DEF IInv, Marks, LoopHasChannel
<1>8. Attempt'
  BY <1>1 DEF IInv, Attempt
<1>9. Cleaned'
  BY <1>1 DEF IInv, Cleaned
<1> QED BY <1>3, <1>4, <1>5, <1>6, <1>7, <1>8, <1>9, Zenon DEF IInv

\* The phases of a Conn that has been started.
LEMMA BegunPhases ==
  IInv /\ Begun => /\ Failed \/ Over \/ Connecting \/ Up \/ Ending
                   /\ cleanupDone <=> closeCbs = 1
                   /\ timer = "armed" => timerId
BY FreshNotBegun DEF IInv, Phases

\* What follows from a frame on the stack.
LEMMA StackIsBegun == IInv /\ stack # <<>> => Begun
BY Zenon DEF IInv, Phases, Fresh

LEMMA StackType == IInv => stack \in Seq(Frames) /\ Layout(stack)
BY Zenon DEF IInv, TypeOK, Frames, Reported

\* A handler returns without having done anything.
LEMMA PopIInv ==
  ASSUME IInv, Around, stack # <<>>, stack' = Tail(stack),
         UNCHANGED <<objVars, timer, sockVars, accepted, closeCbs, crashed>>,
         Head(stack) \notin {"highDone", "lowDone", "closeDone"},
         Head(stack) = "writeLoop" => wbuf # <<>> /\ ksock # "est",
         Head(stack) = "read" => state # "Connected",
         Head(stack) = "closeEvent" => state = "Disconnected"
  PROVE  IInv'
<1>1. /\ UNCHANGED <<state, chan, interest, wbuf, warned, timerId, cleanupDone>>
      /\ UNCHANGED <<timer, accepted, closeCbs, crashed, pend, asked, outcome, closeTimeout>>
      /\ UNCHANGED <<ksock, soerr, rx, rfin, wire, acked, finSent, edge, nospace>>
  BY DEF Around, objVars, sockVars
<1>2. tasks' \in Seq(TaskSet) /\ calls' \in Nat /\ rcvd' \in Nat /\ Begun /\ Begun'
  BY DEF Around
<1>3. /\ stack' \in Seq(Frames) /\ Layout(stack')
      /\ \A f : In(f, stack) <=> f = Head(stack) \/ In(f, stack')
      /\ Head(stack) = "uLow" => stack' = <<"lowDone", "writeLoop">>
      /\ Head(stack) = "writeLoop" => stack' = <<>>
  BY StackType, StackPop, StackTop
<1>4. /\ Failed \/ Over \/ Connecting \/ Up \/ Ending
      /\ cleanupDone <=> closeCbs = 1
      /\ timer = "armed" => timerId
  BY <1>2, BegunPhases, Zenon
<1>5. TypeOK'
  <2>1. TypeOK
    BY DEF IInv
  <2> QED BY <1>1, <1>2, <1>3, <2>1, ZenonT(60) DEF TypeOK, TaskSet, Frames
<1>6. Bytes'
  BY <1>1 DEF IInv, Bytes
<1>7. Phases'
  BY <1>1, <1>2, <1>3, <1>4 DEF Phases, Failed, Over, Connecting, Up, Ending
<1>8. Reported'
  BY <1>1, <1>3 DEF IInv, Reported
<1>9. Writing' /\ Edges'
  BY <1>1, <1>3, <1>4 DEF IInv, Writing, Edges, Space, Failed, Over, Connecting, Up, Ending
<1>10. Head(stack) = "uLow" => Head(stack') = "lowDone"
  BY <1>3, StackStart, Zenon
<1>11. Marks' /\ LoopHasChannel'
  BY <1>1, <1>3, <1>10, SMTT(30) DEF IInv, Marks, LoopHasChannel
<1>12. Attempt'
  BY <1>1, <1>3, SMTT(30) DEF IInv, Attempt
<1>13. Cleaned'
  BY <1>1, <1>3 DEF IInv, Cleaned
<1> QED BY <1>5, <1>6, <1>7, <1>8, <1>9, <1>11, <1>12, <1>13, Zenon DEF IInv

\* cleanup_ and do_cleanup_, once: whatever the Conn was doing, it is over.
LEMMA CleanupIInv ==
  ASSUME IInv, Around, NEW rest, Keeps(rest), Cleanup(rest), ~cleanupDone,
         LowOps \subseteq {"shutdown"} /\ In("writeLoop", rest) => wbuf # <<>>
  PROVE  IInv'
<1>1. /\ cleanupDone' = TRUE /\ closeCbs' = closeCbs + 1
      /\ state' = "Disconnected" /\ ksock' = "closed" /\ interest' = {} /\ edge' = FALSE
      /\ timer' = (IF timerId /\ timer = "armed" THEN "none" ELSE timer) /\ timerId' = FALSE
      /\ finSent' = (finSent \/ (state = "Connected" /\ HandleOpen))
      /\ stack' = <<"uClose", "closeDone">> \o rest
      /\ UNCHANGED <<chan, wbuf, warned, soerr, rx, rfin, wire, acked, nospace, accepted, crashed>>
  BY Zenon DEF Cleanup, AlreadyCleaned, CancelCloseTimeout, ClearEvent, UpdateChannel
<1>2. /\ tasks' \in Seq(TaskSet) /\ calls' \in Nat /\ rcvd' \in Nat /\ Begun /\ Begun'
      /\ UNCHANGED <<pend, asked, outcome, closeTimeout>>
  BY SMTT(30) DEF Around
<1>3. /\ stack' \in Seq(Frames) /\ Layout(stack')
      /\ \A f : In(f, stack') <=> f = "uClose" \/ f = "closeDone" \/ In(f, rest)
  <2>1. {"uClose", "closeDone"} \subseteq Frames \ Special
    BY DEF Frames, UserFrames, CodeFrames, Special
  <2> QED BY <1>1, <2>1, StackPush2 DEF Keeps
<1>4. closeCbs = 0 /\ (timer = "armed" => timerId)
  BY <1>2, BegunPhases DEF Failed, Over, Connecting, Up, Ending
<1>5. TypeOK'
  <2>1. closeCbs' \in Nat /\ timer' \in {"none", "armed", "extracted"} /\ finSent' \in BOOLEAN
    BY <1>1, <1>4, SMTT(30) DEF IInv, TypeOK
  <2> QED BY <1>1, <1>2, <1>3, <2>1, ZenonT(60) DEF IInv, TypeOK, TaskSet, Frames
<1>6. Bytes'
  BY <1>1, Zenon DEF IInv, Bytes
<1>7. Phases'
  <2>1. Over'
    BY <1>1, <1>3, <1>4, SMTT(30) DEF Over
  <2> QED BY <1>1, <1>2, <1>4, <2>1, SMTT(30) DEF Phases
<1>8. Reported' /\ Writing' /\ Edges'
  BY <1>1, <1>2, <1>3, ZenonT(60) DEF IInv, Reported, Writing, Edges, Keeps
<1>9. Marks' /\ LoopHasChannel'
  BY <1>1, <1>3, Zenon DEF IInv, Marks, LoopHasChannel, Keeps
<1>10. Attempt'
  BY <1>1 DEF Attempt
<1>11. Cleaned'
  BY <1>1 DEF Cleaned
<1> QED BY <1>5, <1>6, <1>7, <1>8, <1>9, <1>10, <1>11 DEF IInv

\* The cases of send_in_poll_thread_: behind other bytes, ...
SendQueued(n, rest) ==
  /\ state = "Connected" /\ wbuf # <<>>
  /\ wbuf' = wbuf \o NewBytes(n)
  /\ accepted' = accepted + n
  /\ AddWriteEvent
  /\ UNCHANGED <<wire, nospace>>
  /\ Watermark(rest)

\* ... or to the socket.
SendDirect(n, goal, sent, rest) ==
  /\ state = "Connected" /\ wbuf = <<>> /\ ksock # "dead"
  /\ wire' = wire \o SubSeq(NewBytes(n), 1, sent)
  /\ wbuf' = SubSeq(NewBytes(n), sent + 1, n)
  /\ accepted' = accepted + n
  /\ nospace' = (nospace \/ sent < goal)
  /\ IF sent < n THEN AddWriteEvent ELSE UNCHANGED <<interest, edge>>
  /\ Watermark(rest)

LEMMA SendCases ==
  ASSUME NEW n, NEW rest, SendInPollThread(n, rest)
  PROVE  \/ Return(rest)
         \/ SendQueued(n, rest)
         \/ state = "Connected" /\ Cleanup(rest)
         \/ SendDirect(n, Least(n, Budget), Least(Least(n, Budget), Space), rest)
BY Zenon DEF SendInPollThread, SendQueued, SendDirect

LEMMA NewBytesProps ==
  ASSUME IInv, NEW n \in Nat
  PROVE  /\ NewBytes(n) \in Seq(Nat) /\ Len(NewBytes(n)) = n
         /\ \A i \in 1..n : NewBytes(n)[i] = accepted + i
<1>1. accepted \in Nat
  BY DEF IInv, TypeOK
<1> QED BY <1>1, SMTT(30) DEF NewBytes

LEMMA SpaceProps == IInv => Space \in Nat
<1> SUFFICES ASSUME IInv PROVE Space \in Nat
  OBVIOUS
<1> PICK m : m = Len(wire)
  BY Zenon
<1>1. m \in Nat /\ acked \in Nat /\ SendSpace \in Nat
  BY LenProperties, ConnAssumption, Zenon DEF IInv, TypeOK
<1>2. acked <= m /\ m <= acked + SendSpace
  BY DEF IInv, Bytes
<1>3. Space = SendSpace - (m - acked)
  BY Zenon DEF Space
<1> QED BY <1>1, <1>2, <1>3

\* The end of send_in_poll_thread_.
LEMMA WatermarkProps ==
  ASSUME IInv, NEW rest, rest = stack, Watermark(rest)
  PROVE  /\ stack' \in Seq(Frames) /\ Layout(stack')
         /\ \/ /\ ~warned /\ Len(wbuf') > High /\ Head(stack') = "uHigh"
               /\ \A f : In(f, stack') <=> f = "uHigh" \/ f = "highDone" \/ In(f, stack)
            \/ ~(~warned /\ Len(wbuf') > High) /\ stack' = stack
<1>1. CASE ~warned /\ Len(wbuf') > High
  <2>1. {"uHigh", "highDone"} \subseteq Frames \ Special
    BY DEF Frames, UserFrames, CodeFrames, Special
  <2>2. stack' = <<"uHigh", "highDone">> \o rest
    BY <1>1, Zenon DEF Watermark
  <2> QED BY <1>1, <2>1, <2>2, StackType, StackPush2, Zenon
<1>2. CASE ~(~warned /\ Len(wbuf') > High)
  BY <1>2, StackType, SMTT(30) DEF Watermark
<1> QED BY <1>1, <1>2, Zenon

\* Bytes are buffered behind others.
LEMMA SendQueuedIInv ==
  ASSUME IInv, Around, NEW rest, rest = stack, NEW n \in Nat, SendQueued(n, rest),
         In("lowDone", rest) => "send" \in LowOps
  PROVE  IInv'
<1>1. /\ state = "Connected" /\ wbuf # <<>> /\ accepted' = accepted + n
      /\ UNCHANGED <<wire, nospace, state, chan, warned, timerId, cleanupDone, timer, ksock,
                     soerr, rx, rfin, acked, finSent, closeCbs, crashed>>
  BY SMTT(30) DEF SendQueued, Watermark
<1>2. /\ tasks' \in Seq(TaskSet) /\ calls' \in Nat /\ rcvd' \in Nat /\ Begun /\ Begun'
      /\ UNCHANGED <<pend, asked, outcome, closeTimeout>>
  BY Zenon DEF Around
<1>3. Up /\ (cleanupDone <=> closeCbs = 1) /\ (timer = "armed" => timerId)
  BY <1>1, <1>2, BegunPhases, Zenon DEF Failed, Over, Connecting, Up, Ending
<1>4. UNCHANGED <<interest, edge>>
  BY <1>1, <1>3, Zenon DEF SendQueued, AddWriteEvent, IInv, Writing, Up
<1>5. /\ wbuf \in Seq(Nat) /\ wire \in Seq(Nat) /\ accepted \in Nat /\ Len(wbuf) \in Nat
      /\ Len(wire) \in Nat
  BY LenProperties, Zenon DEF IInv, TypeOK
<1>6. /\ wbuf' \in Seq(Nat) /\ Len(wbuf') = Len(wbuf) + n
      /\ \A i \in 1..Len(wbuf) : wbuf'[i] = wbuf[i]
      /\ \A i \in (Len(wbuf) + 1)..(Len(wbuf) + n) : wbuf'[i] = accepted + (i - Len(wbuf))
  <2> PICK new : new = NewBytes(n)
    OBVIOUS
  <2>1. new \in Seq(Nat) /\ Len(new) = n /\ \A i \in 1..n : new[i] = accepted + i
    BY NewBytesProps, SMTT(30)
  <2>2. wbuf' = wbuf \o new
    BY Zenon DEF SendQueued
  <2>3. /\ wbuf' \in Seq(Nat) /\ Len(wbuf') = Len(wbuf) + Len(new)
        /\ \A i \in 1..(Len(wbuf) + Len(new)) :
             wbuf'[i] = IF i <= Len(wbuf) THEN wbuf[i] ELSE new[i - Len(wbuf)]
    BY <1>5, <2>1, <2>2, ConcatProperties, ZenonT(60)
  <2>4. ASSUME NEW i \in (Len(wbuf) + 1)..(Len(wbuf) + n)
        PROVE  wbuf'[i] = accepted + (i - Len(wbuf))
    <3>1. i \in 1..(Len(wbuf) + Len(new)) /\ ~(i <= Len(wbuf)) /\ i - Len(wbuf) \in 1..n
      BY <1>5, <2>1, SMTT(30)
    <3> QED BY <2>1, <2>3, <3>1, Zenon
  <2>5. ASSUME NEW i \in 1..Len(wbuf) PROVE wbuf'[i] = wbuf[i]
    <3>1. i \in 1..(Len(wbuf) + Len(new)) /\ i <= Len(wbuf)
      BY <1>5, <2>1, SMTT(30)
    <3> QED BY <2>3, <3>1, Zenon
  <2> QED BY <2>1, <2>3, <2>4, <2>5, SMTT(30)
<1>7. wbuf' # <<>>
  BY <1>1, <1>5, <1>6, EmptySeq, SMTT(30)
<1>8. Bytes'
  <2>1. Len(wire) + Len(wbuf) = accepted /\ \A i \in 1..Len(wbuf) : wbuf[i] = Len(wire) + i
    BY DEF IInv, Bytes
  <2> PICK k : k = Len(wire)
    BY Zenon
  <2> PICK m : m = Len(wbuf)
    BY Zenon
  <2>a. k \in Nat /\ m \in Nat /\ accepted = k + m
    BY <1>5, <2>1, SMTT(30)
  <2>2. ASSUME NEW i \in 1..Len(wbuf') PROVE wbuf'[i] = Len(wire) + i
    <3>1. i \in 1..Len(wbuf) \/ i \in (Len(wbuf) + 1)..(Len(wbuf) + n)
      BY <1>5, <1>6
    <3>2. accepted + (i - Len(wbuf)) = Len(wire) + i
      BY <2>a, <1>6, SMTT(30)
    <3> QED BY <1>6, <2>1, <3>1, <3>2, Zenon
  <2>3. Len(wire) + Len(wbuf') = accepted + n
    <3>1. Len(wbuf') = Len(wbuf) + n
      BY <1>6, Zenon
    <3> QED BY <2>a, <3>1, SMTT(30)
  <2> QED BY <1>1, <2>2, <2>3, Zenon DEF IInv, Bytes
<1>9. /\ stack' \in Seq(Frames) /\ Layout(stack')
      /\ \/ /\ ~warned /\ Len(wbuf') > High /\ Head(stack') = "uHigh"
            /\ \A f : In(f, stack') <=> f = "uHigh" \/ f = "highDone" \/ In(f, stack)
         \/ ~(~warned /\ Len(wbuf') > High) /\ stack' = stack
  BY WatermarkProps, SMTT(30) DEF SendQueued
<1>10. TypeOK'
  <2>1. accepted' \in Nat
    BY <1>1, <1>5
  <2> QED BY <1>1, <1>2, <1>4, <1>6, <1>9, <2>1, ZenonT(60) DEF IInv, TypeOK, TaskSet, Frames
<1>11. Phases'
  BY <1>1, <1>2, <1>3, <1>4 DEF Phases, Up
<1>12. Reported' /\ Writing'
  BY <1>1, <1>2, <1>3, <1>4, <1>7, <1>9, Zenon DEF IInv, Reported, Writing, Up
<1>13. Edges'
  BY <1>1, <1>2, <1>4, <1>9, ZenonT(60) DEF IInv, Edges, Space
<1>14. Marks'
  <2>1. Len(wbuf') >= Len(wbuf) /\ High \in Nat /\ Low \in Nat /\ Len(wbuf') \in Nat
    BY <1>5, <1>6, ConnAssumption, SMTT(30)
  <2>2. In("lowDone", stack') => "send" \in LowOps /\ In("lowDone", stack)
    BY <1>9, Zenon
  <2>3. In("highDone", stack') => Len(wbuf') > High
    BY <1>5, <1>9, <2>1, SMTT(30) DEF IInv, Marks
  <2>4. warned /\ Len(wbuf') <= Low => In("lowDone", stack')
    BY <1>5, <1>9, <2>1, SMTT(30) DEF IInv, Marks
  <2>5. Len(wbuf') > High /\ ~warned => In("highDone", stack')
    BY <1>9, Zenon
  <2> QED BY <1>1, <2>2, <2>3, <2>4, <2>5, Zenon DEF Marks
<1>15. LoopHasChannel'
  BY <1>1, <1>7, <1>9, Zenon DEF IInv, LoopHasChannel
<1>16. Attempt'
  BY <1>1, <1>3, Zenon DEF Attempt, Up
<1>17. Cleaned'
  BY <1>1, <1>9, Zenon DEF IInv, Cleaned
<1> QED BY <1>8, <1>10, <1>11, <1>12, <1>13, <1>14, <1>15, <1>16, <1>17, Zenon DEF IInv

\* The bytes of b follow those of w, which are the first ones.
Numbered(w, b) ==
  /\ w \in Seq(Nat) /\ b \in Seq(Nat)
  /\ \A i \in 1..Len(w) : w[i] = i
  /\ \A i \in 1..Len(b) : b[i] = Len(w) + i

\* The first bytes of new go to the wire, the others stay.
Spliced(w, new, sent, w2, b2) ==
  /\ sent \in 0..Len(new)
  /\ w2 = w \o SubSeq(new, 1, sent)
  /\ b2 = SubSeq(new, sent + 1, Len(new))

LEMMA Splice ==
  ASSUME NEW w, NEW new, NEW sent, NEW w2, NEW b2,
         Numbered(w, new), Spliced(w, new, sent, w2, b2)
  PROVE  /\ Numbered(w2, b2)
         /\ Len(w2) = Len(w) + sent /\ Len(b2) = Len(new) - sent
<1>0. /\ w \in Seq(Nat) /\ new \in Seq(Nat)
      /\ \A i \in 1..Len(w) : w[i] = i
      /\ \A i \in 1..Len(new) : new[i] = Len(w) + i
      /\ sent \in 0..Len(new) /\ w2 = w \o SubSeq(new, 1, sent)
      /\ b2 = SubSeq(new, sent + 1, Len(new))
  BY DEF Numbered, Spliced
<1> PICK a : a = SubSeq(new, 1, sent)
  BY Zenon
<1> PICK k : k = Len(w)
  BY Zenon
<1> PICK m : m = Len(new)
  BY Zenon
<1>1. k \in Nat /\ m \in Nat /\ sent \in 0..m /\ sent \in Nat
  BY <1>0, LenProperties, SMTT(30)
<1>2. \A i \in 1..m : new[i] \in Nat
  BY <1>0, <1>1, SMTT(30)
<1>3. a \in Seq(Nat) /\ Len(a) = sent /\ \A i \in 1..sent : a[i] = new[i]
  <2>1. \A i \in 1..sent : new[i] \in Nat
    BY <1>1, <1>2, SMTT(30)
  <2>2. /\ a \in Seq(Nat) /\ Len(a) = (IF 1 <= sent THEN sent - 1 + 1 ELSE 0)
        /\ \A i \in 1..(sent - 1 + 1) : a[i] = new[1 + i - 1]
    BY <1>0, <1>1, <2>1, SubSeqProperties, SMTT(30)
  <2> QED BY <1>1, <2>2, SMTT(30)
<1>4. b2 \in Seq(Nat) /\ Len(b2) = m - sent /\ \A i \in 1..(m - sent) : b2[i] = new[sent + i]
  <2>1. \A i \in (sent + 1)..m : new[i] \in Nat
    BY <1>1, <1>2, SMTT(30)
  <2>2. /\ b2 \in Seq(Nat) /\ Len(b2) = (IF sent + 1 <= m THEN m - (sent + 1) + 1 ELSE 0)
        /\ \A i \in 1..(m - (sent + 1) + 1) : b2[i] = new[(sent + 1) + i - 1]
    BY <1>0, <1>1, <2>1, SubSeqProperties, SMTT(30)
  <2>3. Len(b2) = m - sent /\ m - (sent + 1) + 1 = m - sent
    BY <1>1, <2>2, SMTT(30)
  <2>4. ASSUME NEW i \in 1..(m - sent) PROVE b2[i] = new[sent + i]
    <3>1. (sent + 1) + i - 1 = sent + i
      BY <1>1, SMTT(30)
    <3> QED BY <2>2, <2>3, <3>1, Zenon
  <2> QED BY <2>2, <2>3, <2>4
<1>5. /\ w2 \in Seq(Nat) /\ Len(w2) = k + sent
      /\ \A i \in 1..(k + sent) : w2[i] = IF i <= k THEN w[i] ELSE a[i - k]
  BY <1>0, <1>1, <1>3, ConcatProperties, SMTT(30)
<1>6. ASSUME NEW i \in 1..(k + sent) PROVE w2[i] = i
  <2>1. CASE i <= k
    <3>1. i \in 1..k
      BY <1>1, <2>1, SMTT(30)
    <3> QED BY <1>0, <1>5, <2>1, <3>1, Zenon
  <2>2. CASE ~(i <= k)
    <3>1. i - k \in 1..sent /\ i - k \in 1..m /\ k + (i - k) = i
      BY <1>1, <2>2, SMTT(30)
    <3>2. w2[i] = new[i - k] /\ new[i - k] = k + (i - k)
      BY <1>0, <1>3, <1>5, <2>2, <3>1, Zenon
    <3> QED BY <3>1, <3>2, SMTT(30)
  <2> QED BY <2>1, <2>2
<1>7. ASSUME NEW i \in 1..(m - sent) PROVE b2[i] = (k + sent) + i
  <2>1. sent + i \in 1..m /\ k + (sent + i) = (k + sent) + i
    BY <1>1, SMTT(30)
  <2> QED BY <1>0, <1>4, <2>1, SMTT(30)
<1> QED BY <1>4, <1>5, <1>6, <1>7, Zenon DEF Numbered

\* Bytes are sent at once, up to the budget and the socket's space, and the
\* rest is buffered.
LEMMA SendDirectIInv ==
  ASSUME IInv, Around, NEW rest, rest = stack, NEW n \in Nat, NEW goal, NEW sent,
         goal = Least(n, Budget), sent = Least(goal, Space),
         SendDirect(n, goal, sent, rest),
         In("lowDone", rest) => "send" \in LowOps,
         LowOps \subseteq {"shutdown"} /\ In("writeLoop", rest) => wbuf # <<>>
  PROVE  IInv'
<1>1. /\ state = "Connected" /\ wbuf = <<>> /\ ksock # "dead" /\ accepted' = accepted + n
      /\ nospace' = (nospace \/ sent < goal)
      /\ UNCHANGED <<state, chan, warned, timerId, cleanupDone, timer, ksock,
                     soerr, rx, rfin, acked, finSent, closeCbs, crashed>>
  BY Zenon DEF SendDirect, Watermark
<1>2. /\ tasks' \in Seq(TaskSet) /\ calls' \in Nat /\ rcvd' \in Nat /\ Begun /\ Begun'
      /\ UNCHANGED <<pend, asked, outcome, closeTimeout>>
  BY Zenon DEF Around
<1>3. Up /\ (cleanupDone <=> closeCbs = 1) /\ (timer = "armed" => timerId)
  BY <1>1, <1>2, BegunPhases, Zenon DEF Failed, Over, Connecting, Up, Ending
<1>4. /\ goal \in Nat /\ goal <= n /\ sent \in Nat /\ sent <= goal /\ sent <= Space
      /\ sent \in 0..n /\ Space \in Nat
  <2>1. Budget \in Nat /\ Space \in Nat
    BY SpaceProps, ConnAssumption, Zenon
  <2> QED BY <2>1 DEF Least
<1>5. /\ wire \in Seq(Nat) /\ accepted \in Nat /\ Len(wire) \in Nat /\ accepted = Len(wire)
      /\ \A i \in 1..Len(wire) : wire[i] = i
      /\ acked \in Nat /\ acked <= Len(wire) /\ SendSpace \in Nat
      /\ Space = SendSpace - (Len(wire) - acked)
  <2>1. Len(wire) \in Nat /\ Len(wire) + Len(wbuf) = accepted /\ Len(wbuf) = 0
    BY <1>1, LenProperties, Zenon DEF IInv, TypeOK, Bytes
  <2>2. accepted = Len(wire)
    BY <2>1, SMTT(30)
  <2> QED BY <2>1, <2>2, ConnAssumption, ZenonT(60) DEF IInv, TypeOK, Bytes, Space
<1>6. /\ wire' \in Seq(Nat) /\ wbuf' \in Seq(Nat)
      /\ Len(wire') = Len(wire) + sent /\ Len(wbuf') = n - sent
      /\ \A i \in 1..Len(wire') : wire'[i] = i
      /\ \A i \in 1..Len(wbuf') : wbuf'[i] = Len(wire') + i
  <2> PICK new : new = NewBytes(n)
    BY SMTT(30)
  <2> PICK w : w = wire
    BY SMTT(30)
  <2> PICK w2 : w2 = wire'
    BY Zenon
  <2> PICK b2 : b2 = wbuf'
    OBVIOUS
  <2>1. Len(new) = n /\ Numbered(w, new)
    BY <1>5, NewBytesProps, ZenonT(60) DEF Numbered
  <2>2. Spliced(w, new, sent, w2, b2)
    BY <1>4, <2>1, Zenon DEF SendDirect, Spliced
  <2>4. Numbered(w2, b2) /\ Len(w2) = Len(w) + sent /\ Len(b2) = Len(new) - sent
    BY <2>1, <2>2, Splice, SMTT(30)
  <2> QED BY <2>1, <2>4, Zenon DEF Numbered
<1>7. Bytes'
  <2> PICK k : k = Len(wire)
    BY Zenon
  <2>1. /\ k \in Nat /\ accepted' = k + n /\ Len(wire') = k + sent /\ Len(wbuf') = n - sent
        /\ acked' = acked /\ acked <= k /\ acked \in Nat /\ SendSpace \in Nat
        /\ sent <= SendSpace - (k - acked)
    BY <1>1, <1>4, <1>5, <1>6, Zenon
  <2>2. /\ Len(wire') + Len(wbuf') = accepted' /\ acked' <= Len(wire')
        /\ Len(wire') <= acked' + SendSpace
    <3>1. sent \in Nat /\ sent <= n
      BY <1>4, SMTT(30)
    <3>2. (k + sent) + (n - sent) = k + n
      BY <2>1, <3>1, SMTT(30)
    <3>3. acked <= k + sent /\ k + sent <= acked + SendSpace
      <4>1. \A a, i, j, s \in Nat :
              a <= i /\ j <= s - (i - a) => a <= i + j /\ i + j <= a + s
        BY SMTT(30)
      <4> QED BY <2>1, <3>1, <4>1, Zenon
    <3> QED BY <2>1, <3>2, <3>3, Zenon
  <2> QED BY <1>6, <2>2 DEF Bytes
<1>8. wbuf' # <<>> <=> sent < n
  <2>1. Len(wbuf') = n - sent /\ wbuf' \in Seq(Nat)
    BY <1>6
  <2> QED BY <1>4, <2>1, EmptySeq, SMTT(30)
<1>9. /\ stack' \in Seq(Frames) /\ Layout(stack')
      /\ \/ /\ ~warned /\ Len(wbuf') > High /\ Head(stack') = "uHigh"
            /\ \A f : In(f, stack') <=> f = "uHigh" \/ f = "highDone" \/ In(f, stack)
         \/ ~(~warned /\ Len(wbuf') > High) /\ stack' = stack
  BY WatermarkProps, Zenon DEF SendDirect
<1>10. /\ sent < n => "W" \in interest'
       /\ \/ UNCHANGED <<interest, edge>>
          \/ /\ sent < n /\ "W" \notin interest /\ interest' = interest \cup {"W"}
             /\ edge' = TRUE
  <2>1. interest \cup {"W"} # {}
    OBVIOUS
  <2> QED BY <2>1, ZenonT(60) DEF SendDirect, AddWriteEvent, UpdateChannel
<1>11. TypeOK'
  <2>a. accepted' \in Nat /\ nospace' \in BOOLEAN
    BY <1>1, <1>5, SMTT(30)
  <2>b. edge' \in BOOLEAN /\ interest' \subseteq {"R", "W"}
    BY <1>10, ZenonT(60) DEF IInv, TypeOK
  <2>1. accepted' \in Nat /\ nospace' \in BOOLEAN /\ edge' \in BOOLEAN /\ interest' \subseteq {"R", "W"}
    BY <2>a, <2>b, Zenon
  <2>2. wire' \in Seq(Nat) /\ wbuf' \in Seq(Nat) /\ stack' \in Seq(Frames)
    BY <1>6, <1>9, Zenon
  <2>3. TypeOK
    BY SMTT(30) DEF IInv
  <2>4. UNCHANGED <<state, chan, warned, timerId, cleanupDone, timer, ksock,
                    soerr, rx, rfin, acked, finSent, closeCbs, crashed>>
    BY <1>1, Zenon
  <2>5. {warned, timerId, cleanupDone, soerr, rfin, finSent, edge, nospace,
         crashed}' \subseteq BOOLEAN
    BY <2>1, <2>3, <2>4, Zenon DEF TypeOK
  <2>6. {rx, acked, accepted, calls, rcvd, closeCbs}' \subseteq Nat
    BY <1>2, <2>1, <2>3, <2>4, ZenonT(60) DEF TypeOK
  <2>7. /\ state' \in {"Disconnected", "Connecting", "Connected", "Disconnecting"}
        /\ chan' \in {"none", "connect", "io"} /\ timer' \in {"none", "armed", "extracted"}
        /\ ksock' \in {"none", "syn", "est", "dead", "closed"} /\ closeTimeout' \in Timeouts
        /\ pend' \in [kind : {"none", "connect", "io"}, ev : SUBSET {"R", "W", "E", "H"}]
        /\ asked' \in BOOLEAN /\ outcome' \in {"none", "ok", "err"}
    BY <1>2, <2>3, <2>4, ZenonT(60) DEF TypeOK
  <2> QED BY <1>2, <2>1, <2>2, <2>5, <2>6, <2>7, ZenonT(60) DEF TypeOK, TaskSet, Frames
<1>12. Phases'
  BY <1>1, <1>2, <1>3, <1>10, SMTT(30) DEF Phases, Up
<1>13. \A f \in {"writeLoop", "read", "closeEvent", "connectEvent", "lowDone"} : In(f, stack') <=> In(f, stack)
  BY <1>9, Zenon
<1>14. Reported'
  BY <1>1, <1>2, <1>9, <1>13, Zenon DEF IInv, Reported
<1>15. Writing'
  BY <1>1, <1>3, <1>8, <1>10, <1>13, ZenonT(60) DEF IInv, Writing, Up
<1>16. Edges'
  <2>1. wbuf' # <<>> => edge' \/ In("writeLoop", stack')
    BY <1>1, <1>3, <1>8, <1>10, <1>13, Zenon DEF IInv, Writing, Up
  <2>2. edge => edge'
    BY <1>10, Zenon
  <2>3. \A f \in {"read", "closeEvent"} : In(f, stack) => In(f, stack')
    BY <1>13, Zenon
  <2>4. UNCHANGED <<state, rx, rfin, ksock, pend>>
    BY <1>1, <1>2, Zenon
  <2> QED BY <2>1, <2>2, <2>3, <2>4, Zenon DEF IInv, Edges
<1>17. Marks'
  <2>1. High \in Nat /\ Low \in Nat /\ Len(wbuf) = 0
    BY <1>1, ConnAssumption, Zenon
  <2>2. ~In("highDone", stack) /\ (warned => In("lowDone", stack))
    BY <2>1, SMTT(30) DEF IInv, Marks
  <2>3. In("lowDone", stack) => "send" \in LowOps
    BY SMTT(30)
  <2>4. In("highDone", stack') <=> ~warned /\ Len(wbuf') > High
    BY <1>9, <2>2, Zenon
  <2> QED BY <1>1, <1>13, <2>2, <2>3, <2>4, ZenonT(60) DEF Marks
<1>18. LoopHasChannel'
  BY <1>1, <1>13, Zenon DEF IInv, LoopHasChannel
<1>19. Attempt'
  BY <1>1, <1>3, ZenonT(60) DEF Attempt, Up
<1>20. Cleaned'
  BY <1>1, <1>9, Zenon DEF IInv, Cleaned
<1> QED BY <1>7, <1>11, <1>12, <1>14, <1>15, <1>16, <1>17, <1>18, <1>19, <1>20, ZenonT(60) DEF IInv

\* shutdown_in_poll_
LEMMA ShutdownIInv ==
  ASSUME IInv, Around, NEW rest, rest = stack, ShutdownInPoll(rest)
  PROVE  IInv'
<1>1. CASE Return(rest)
  BY <1>1, StayIInv, SMTT(30) DEF Return
<1>2. CASE ~Return(rest)
  <2>1. /\ state \notin {"Disconnected", "Disconnecting"} /\ state' = "Disconnecting" /\ stack' = stack
        /\ UNCHANGED <<chan, wbuf, warned, cleanupDone, soerr, rx, rfin, wire,
                       acked, nospace, accepted, closeCbs, crashed>>
    BY <1>2, Zenon DEF ShutdownInPoll
  <2>2. IF wbuf = <<>>
        THEN RemoveWriteEvent /\ finSent' = TRUE /\ ksock' = IF ksock = "syn" THEN "dead" ELSE ksock
        ELSE UNCHANGED <<interest, edge, finSent, ksock>>
    BY <1>2, Zenon DEF ShutdownInPoll, NothingToWrite
  <2>3. /\ timerId' = (timerId \/ closeTimeout)
        /\ timer' = IF closeTimeout /\ ~timerId THEN "armed" ELSE timer
    BY <1>2 DEF ShutdownInPoll, StartCloseTimeout
  <2>4. /\ tasks' \in Seq(TaskSet) /\ calls' \in Nat /\ rcvd' \in Nat /\ Begun /\ Begun'
        /\ UNCHANGED <<pend, asked, outcome, closeTimeout>>
    BY ZenonT(60) DEF Around
  <2>5. (Connecting \/ Up) /\ (cleanupDone <=> closeCbs = 1) /\ (timer = "armed" => timerId)
    BY <2>1, <2>4, BegunPhases, SMTT(30) DEF Failed, Over, Connecting, Up, Ending
  <2>6. /\ wbuf = <<>> => "W" \notin interest' /\ interest' \subseteq interest /\ edge' \in BOOLEAN
        /\ wbuf # <<>> => UNCHANGED <<interest, edge, finSent, ksock>>
    BY <2>2, ZenonT(60) DEF RemoveWriteEvent, UpdateChannel, IInv, TypeOK
  <2>7. TypeOK'
    <3>1. timerId' \in BOOLEAN /\ timer' \in {"none", "armed", "extracted"}
      BY <2>3 DEF IInv, TypeOK
    <3>2. /\ finSent' \in BOOLEAN /\ ksock' \in {"none", "syn", "est", "dead", "closed"}
          /\ edge' \in BOOLEAN /\ interest' \subseteq {"R", "W"}
      BY <2>2, <2>6, Zenon DEF IInv, TypeOK
    <3> QED BY <2>1, <2>4, <3>1, <3>2, ZenonT(60) DEF IInv, TypeOK, TaskSet
  <2>8. Bytes'
    BY <2>1, SMTT(30) DEF IInv, Bytes
  <2>9. Phases'
    <3>1. Ending'
      BY <2>1, <2>2, <2>5 DEF Connecting, Up, Ending
    <3>2. timer' = "armed" => timerId'
      BY <2>3, <2>5, ZenonT(60)
    <3> QED BY <2>1, <2>4, <2>5, <3>1, <3>2, SMTT(30) DEF Phases
  <2>10. Reported' /\ Writing'
    BY <2>1, <2>4, <2>6, Zenon DEF IInv, Reported, Writing
  <2>11. Edges'
    <3>1. wbuf' # <<>> /\ ksock' = "est" =>
            \/ edge' \/ pend'.ev \cap {"W", "E", "H"} # {}
            \/ nospace' /\ Space' = 0
            \/ In("writeLoop", stack') \/ In("closeEvent", stack')
      <4> SUFFICES ASSUME wbuf' # <<>>, ksock' = "est"
                   PROVE  \/ edge' \/ pend'.ev \cap {"W", "E", "H"} # {}
                          \/ nospace' /\ Space' = 0
                          \/ In("writeLoop", stack') \/ In("closeEvent", stack')
        BY Zenon
      <4>1. /\ wbuf # <<>> /\ UNCHANGED <<ksock, edge, pend, nospace, stack>>
            /\ Space' = Space
        BY <2>1, <2>4, <2>6, Zenon DEF Space
      <4> QED BY <4>1, Zenon DEF IInv, Edges
    <3>2. state' # "Connected"
      BY <2>1, Zenon
    <3> QED BY <3>1, <3>2, Zenon DEF Edges
  <2>12. Marks' /\ LoopHasChannel'
    BY <2>1, Zenon DEF IInv, Marks, LoopHasChannel
  <2>13. Attempt'
    BY <2>1, <2>2, <2>5, Zenon DEF Attempt, Connecting, Up
  <2>14. Cleaned'
    BY <2>1, SMTT(30) DEF IInv, Cleaned
  <2> QED BY <2>7, <2>8, <2>9, <2>10, <2>11, <2>12, <2>13, <2>14, ZenonT(60) DEF IInv
<1> QED BY <1>1, <1>2, SMTT(30)

\* What has to be shown of a Conn that leaves its first phase.
LEMMA BeginIInv ==
  ASSUME IInv, Fresh, TypeOK', tasks' = <<>>, asked' = TRUE, cleanupDone' = FALSE,
         UNCHANGED <<pend, wbuf, warned, timerId, timer, wire, acked, accepted, closeCbs, crashed>>,
         \/ stack' = <<>> /\ (Connecting' \/ Up' \/ Failed')
         \/ stack' = <<"uConnErr">> \o <<>> /\ Failed',
         chan' = "io" => "W" \notin interest' /\ edge' = TRUE,
         ksock' \in {"none", "syn"} => ksock = "none" /\ "R" \notin interest' /\ UNCHANGED soerr
  PROVE  IInv'
<1>1. /\ wbuf = <<>> /\ ~warned /\ pend = NoEvent /\ ~timerId /\ timer = "none" /\ closeCbs = 0
      /\ pend' = NoEvent /\ wbuf' = <<>>
  BY Zenon DEF Fresh
<1>2. /\ Layout(stack') /\ \A f \in {"writeLoop", "highDone", "lowDone", "closeDone", "read",
                                     "closeEvent", "connectEvent"} : ~In(f, stack')
  <2>1. "uConnErr" \in Frames \ Special /\ <<>> \in Seq(Frames)
    BY DEF Frames, UserFrames, Special
  <2>2. /\ Layout(<<"uConnErr">> \o <<>>)
        /\ \A f : In(f, <<"uConnErr">> \o <<>>) <=> f = "uConnErr" \/ In(f, <<>>)
    BY <2>1, StackEmpty, StackPush, ZenonT(60)
  <2>3. CASE stack' = <<>>
    BY <2>3, StackEmpty
  <2>4. CASE stack' = <<"uConnErr">> \o <<>>
    BY <2>2, <2>4, StackEmpty, ZenonT(60)
  <2> QED BY <2>3, <2>4, Zenon
<1>3. Bytes'
  BY Zenon DEF IInv, Bytes
<1>4. Phases'
  <2>1. Begun'
    BY SMTT(30) DEF Begun
  <2> QED BY <1>1, <2>1, SMTT(30) DEF Phases
<1>5. Reported' /\ Writing' /\ Edges'
  BY <1>1, <1>2, ZenonT(60) DEF Reported, Writing, Edges, Connecting, Up, Failed
<1>6. Marks' /\ LoopHasChannel'
  <2>1. Len(wbuf') = 0 /\ High \in Nat
    BY <1>1, ConnAssumption, Zenon
  <2>2. ~warned' /\ ~(Len(wbuf') > High)
    BY <1>1, <2>1, SMTT(30)
  <2>3. Marks'
    BY <1>2, <2>2, Zenon DEF Marks
  <2>4. LoopHasChannel'
    BY <1>2, ZenonT(60) DEF IInv, LoopHasChannel
  <2> QED BY <2>3, <2>4, Zenon
<1>7. Attempt'
  BY <1>1, <1>2, Zenon DEF IInv, Attempt
<1>8. Cleaned'
  BY <1>2 DEF Cleaned
<1> QED BY <1>3, <1>4, <1>5, <1>6, <1>7, <1>8, ZenonT(60) DEF IInv

\* start_connect_in_poll_
LEMMA ConnectIInv ==
  ASSUME IInv, Fresh, ksock = "none", StartConnectInPoll(<<>>), tasks' = <<>>, asked' = TRUE,
         calls' \in Nat, rcvd' \in Nat, UNCHANGED <<pend, closeTimeout>>
  PROVE  IInv'
<1>0. cleanupDone = FALSE
  BY SMTT(30) DEF IInv, TypeOK, Phases, Fresh
<1>1. CASE outcome' = "err" /\ Return(<<"uConnErr">> \o <<>>)
  <2>1. /\ stack' = <<"uConnErr">> \o <<>> /\ outcome' = "err"
        /\ UNCHANGED <<state, chan, interest, wbuf, warned, timerId, cleanupDone>>
        /\ UNCHANGED <<ksock, soerr, rx, rfin, wire, acked, finSent, edge, nospace>>
        /\ UNCHANGED <<timer, accepted, closeCbs, crashed>>
    BY <1>1, Zenon DEF Return, objVars, sockVars
  <2>2. TypeOK'
    <3>1. stack' \in Seq(Frames)
      BY <2>1 DEF Frames, UserFrames
    <3>2. tasks' \in Seq(TaskSet)
      BY SMTT(30)
    <3> QED BY <2>1, <3>1, <3>2, ZenonT(60) DEF IInv, TypeOK, Frames, TaskSet
  <2>3. Failed'
    BY <2>1, SMTT(30) DEF Fresh, Failed
  <2>4. chan' = "none" /\ cleanupDone' = FALSE /\ "R" \notin interest'
    BY <1>0, <2>1 DEF Fresh
  <2> QED BY <2>1, <2>2, <2>3, <2>4, BeginIInv, Zenon
<1>2. CASE ~(outcome' = "err" /\ Return(<<"uConnErr">> \o <<>>))
  <2>1. /\ ksock' = "syn" /\ state' = "Connecting" /\ chan' = "connect"
        /\ interest' = {"W"} /\ edge' = TRUE /\ stack' = <<>>
        /\ UNCHANGED <<wbuf, warned, timerId, cleanupDone, timer, soerr, rx, rfin,
                       wire, acked, finSent, nospace, accepted, closeCbs, crashed, outcome>>
    <3>1. {"W"} # {}
      BY ZenonT(60)
    <3> QED BY <1>2, <3>1, ZenonT(60) DEF StartConnectInPoll, PlatformConnect, UpdateChannel
  <2>2. TypeOK'
    <3>1. stack' \in Seq(Frames) /\ tasks' \in Seq(TaskSet)
      BY <2>1, SMTT(30)
    <3> QED BY <2>1, <3>1, ZenonT(60) DEF IInv, TypeOK, Frames, TaskSet
  <2>3. Connecting'
    BY <2>1, Zenon DEF Fresh, Connecting
  <2> QED BY <1>0, <2>1, <2>2, <2>3, BeginIInv, Zenon
<1> QED BY <1>1, <1>2, ZenonT(60)

\* connect_sync
LEMMA ConnectSyncIInv == IInv /\ CallConnectSync => IInv'
<1> SUFFICES ASSUME IInv, CallConnectSync PROVE IInv'
  BY SMTT(30)
<1>1. ~asked /\ asked' = TRUE /\ UNCHANGED <<closeTimeout, pend, tasks, calls, rcvd>>
  BY ZenonT(60) DEF CallConnectSync, MayConnect
<1>2. Fresh /\ cleanupDone = FALSE /\ ksock = "none" /\ tasks' = <<>>
  BY <1>1, SMTT(30) DEF IInv, TypeOK, Phases, Fresh, Begun
<1>3. CASE outcome' = "err" /\ Return(stack)
  <2>1. /\ outcome' = "err" /\ stack' = <<>>
        /\ UNCHANGED <<state, chan, interest, wbuf, warned, timerId, cleanupDone>>
        /\ UNCHANGED <<ksock, soerr, rx, rfin, wire, acked, finSent, edge, nospace>>
        /\ UNCHANGED <<timer, accepted, closeCbs, crashed>>
    BY <1>2, <1>3, Zenon DEF Return, objVars, sockVars, Fresh
  <2>2. TypeOK'
    <3>1. stack' \in Seq(Frames) /\ tasks' \in Seq(TaskSet)
      BY <1>2, <2>1, SMTT(30)
    <3> QED BY <1>1, <2>1, <3>1, ZenonT(60) DEF IInv, TypeOK, Frames, TaskSet
  <2>3. Failed' /\ chan' = "none" /\ "R" \notin interest'
    BY <1>1, <1>2, <2>1, SMTT(30) DEF Fresh, Failed
  <2> QED BY <1>1, <1>2, <2>1, <2>2, <2>3, BeginIInv, Zenon
<1>4. CASE ~(outcome' = "err" /\ Return(stack))
  <2>1. /\ outcome' = "ok" /\ ksock' = "est" /\ state' = "Connected" /\ chan' = "io"
        /\ interest' = {"R"} /\ edge' = TRUE /\ stack' = <<>>
        /\ UNCHANGED <<wbuf, warned, timerId, cleanupDone, timer, soerr, rx, rfin,
                       wire, acked, finSent, nospace, accepted, closeCbs, crashed>>
    <3>1. {"R"} # {}
      BY ZenonT(60)
    <3> QED BY <1>2, <1>4, <3>1, Zenon DEF CallConnectSync, PlatformConnect, AddReadEvent, UpdateChannel, Fresh
  <2>2. TypeOK'
    <3>1. stack' \in Seq(Frames) /\ tasks' \in Seq(TaskSet)
      BY <1>2, <2>1, SMTT(30)
    <3> QED BY <1>1, <2>1, <3>1, Zenon DEF IInv, TypeOK, Frames, TaskSet
  <2>3. Up'
    BY <1>2, <2>1 DEF Fresh, Up
  <2> QED BY <1>1, <1>2, <2>1, <2>2, <2>3, BeginIInv, Zenon
<1> QED BY <1>3, <1>4, SMTT(30)

\* start_ of an accepted connection.
LEMMA StartIInv ==
  ASSUME IInv, Fresh, ksock \in {"est", "dead"}, Start(<<>>), tasks' = <<>>, asked,
         UNCHANGED <<pend, calls, rcvd, asked, outcome, closeTimeout>>
  PROVE  IInv'
<1>1. /\ cleanupDone' = FALSE /\ state' = "Connected" /\ chan' = "io"
      /\ interest' = {"R"} /\ edge' = TRUE /\ stack' = <<>> /\ asked' = TRUE
      /\ UNCHANGED <<wbuf, warned, timerId, timer, ksock, soerr, rx, rfin,
                     wire, acked, finSent, nospace, accepted, closeCbs, crashed>>
  <2>1. {"R"} # {} /\ HandleOpen /\ asked = TRUE
    BY Zenon DEF HandleOpen, IInv, TypeOK
  <2> QED BY <2>1, ZenonT(60) DEF Start, AddReadEvent, UpdateChannel
<1>2. TypeOK'
  <2>1. stack' \in Seq(Frames) /\ tasks' \in Seq(TaskSet)
    BY <1>1, SMTT(30)
  <2> QED BY <1>1, <2>1, ZenonT(60) DEF IInv, TypeOK, Frames, TaskSet
<1>3. Up'
  BY <1>1, Zenon DEF Fresh, Up
<1> QED BY <1>1, <1>2, <1>3, BeginIInv, Zenon

\* send_in_poll_thread_
LEMMA SendIInv ==
  ASSUME IInv, Around, NEW rest, rest = stack, NEW n \in Nat, SendInPollThread(n, rest),
         state = "Connected" /\ In("lowDone", rest) => "send" \in LowOps,
         LowOps \subseteq {"shutdown"} /\ state = "Connected" /\ In("writeLoop", rest) => wbuf # <<>>
  PROVE  IInv'
<1>1. CASE Return(rest)
  BY <1>1, StayIInv, Zenon DEF Return
<1>2. CASE SendQueued(n, rest)
  <2>1. state = "Connected"
    BY <1>2, SMTT(30) DEF SendQueued
  <2> QED BY <1>2, <2>1, SendQueuedIInv, Zenon
<1>3. CASE state = "Connected" /\ Cleanup(rest)
  <2>1. ~cleanupDone
    BY <1>3, BegunPhases, SMTT(30) DEF Around, Failed, Over, Connecting, Up, Ending
  <2>2. Keeps(rest)
    BY StackType, ZenonT(60) DEF Keeps
  <2> QED BY <1>3, <2>1, <2>2, CleanupIInv, ZenonT(60)
<1>4. CASE SendDirect(n, Least(n, Budget), Least(Least(n, Budget), Space), rest)
  <2> PICK goal : goal = Least(n, Budget)
    BY SMTT(30)
  <2> PICK sent : sent = Least(goal, Space)
    BY SMTT(30)
  <2>1. SendDirect(n, goal, sent, rest)
    BY <1>4, ZenonT(60)
  <2>2. state = "Connected"
    BY <2>1, Zenon DEF SendDirect
  <2> QED BY <2>1, <2>2, SendDirectIInv, Zenon
<1> QED BY <1>1, <1>2, <1>3, <1>4, SendCases, Zenon

\* What the application may call in the watermark callbacks limits what a
\* call can meet on the stack.
LEMMA MayCallProps ==
  ASSUME IInv, NEW op, MayCall(op), state # "Disconnected"
  PROVE  /\ op = "send" /\ In("lowDone", stack) => "send" \in LowOps
         /\ LowOps \subseteq {"shutdown"} /\ op # "shutdown" /\ In("writeLoop", stack) => wbuf # <<>>
<1>1. CASE stack = <<>>
  BY <1>1, StackEmpty, ZenonT(60)
<1>2. CASE stack # <<>>
  <2>1. Head(stack) \in UserFrames /\ (Head(stack) = "uLow" => op \in LowOps)
    BY <1>2 DEF MayCall, Quiet
  <2>2. Head(stack) \notin {"lowDone", "writeLoop"}
    BY <2>1, ZenonT(60) DEF UserFrames
  <2> QED BY <2>1, <2>2, Zenon DEF IInv, Marks, LoopHasChannel
<1> QED BY <1>1, <1>2, SMTT(30)

\* A public call that counts.
LEMMA CallIsAround ==
  ASSUME IInv, state # "Disconnected", Counted, UNCHANGED <<pend, tasks>>
  PROVE  Around
<1>1. Begun
  BY DEF IInv, Phases, Fresh
<1>2. calls' = calls + 1 /\ UNCHANGED <<rcvd, asked, outcome, closeTimeout>>
  BY Zenon DEF Counted
<1>3. calls \in Nat /\ rcvd \in Nat /\ tasks \in Seq(TaskSet)
  BY Zenon DEF IInv, TypeOK, TaskSet
<1> QED BY <1>1, <1>2, <1>3, SMTT(30) DEF Around, Begun

LEMMA CallSendIInv == ASSUME IInv, NEW n \in Sizes, CallSend(n) PROVE IInv'
<1>1. MayCall("send") /\ state = "Connected" /\ SendInPollThread(n, stack) /\ Around /\ n \in Nat
  BY CallIsAround, ConnAssumption, Zenon DEF CallSend
<1> PICK rest : rest = stack
  BY Zenon
<1>2. SendInPollThread(n, rest)
  BY <1>1, Zenon
<1>3. /\ In("lowDone", rest) => "send" \in LowOps
      /\ LowOps \subseteq {"shutdown"} /\ In("writeLoop", rest) => wbuf # <<>>
  BY <1>1, MayCallProps, SMTT(30)
<1> QED BY <1>1, <1>2, <1>3, SendIInv, ZenonT(60)

LEMMA CallShutdownIInv == IInv /\ CallShutdown => IInv'
<1> SUFFICES ASSUME IInv, CallShutdown PROVE IInv'
  OBVIOUS
<1> PICK rest : rest = stack
  BY SMTT(30)
<1>1. ShutdownInPoll(rest) /\ Around
  BY CallIsAround, Zenon DEF CallShutdown
<1> QED BY <1>1, ShutdownIInv, SMTT(30)

LEMMA CallCloseIInv == IInv /\ CallClose => IInv'
<1> SUFFICES ASSUME IInv, CallClose PROVE IInv'
  OBVIOUS
<1> PICK rest : rest = stack
  OBVIOUS
<1>1. Cleanup(rest) /\ Around /\ state # "Disconnected" /\ MayCall("close")
  BY CallIsAround, ZenonT(60) DEF CallClose
<1>2. ~cleanupDone
  BY <1>1, BegunPhases, SMTT(30) DEF Around, Failed, Over, Connecting, Up, Ending
<1>3. Keeps(rest)
  BY StackType, Zenon DEF Keeps
<1>4. LowOps \subseteq {"shutdown"} /\ In("writeLoop", rest) => wbuf # <<>>
  BY <1>1, MayCallProps, SMTT(30)
<1> QED BY <1>1, <1>2, <1>3, <1>4, CleanupIInv, Zenon

LEMMA CallConnectIInv == IInv /\ CallConnect => IInv'
<1> SUFFICES ASSUME IInv, CallConnect PROVE IInv'
  OBVIOUS
<1>1. /\ ~asked /\ asked' = TRUE /\ StartConnectInPoll(<<>>)
      /\ UNCHANGED <<closeTimeout, pend, tasks, calls, rcvd>>
  BY Zenon DEF CallConnect, MayConnect, Quiet
<1>2. Fresh /\ ksock = "none" /\ tasks' = <<>> /\ calls' \in Nat /\ rcvd' \in Nat
  BY <1>1, Zenon DEF IInv, TypeOK, Phases, Fresh, Begun
<1> QED BY <1>1, <1>2, ConnectIInv, SMTT(30)

\* A closure is handed to the poll thread.
LEMMA AppendTask ==
  ASSUME IInv, Begun, NEW t \in TaskSet, t.op \notin {"start", "connect"},
         tasks' = Append(tasks, t), asked' = asked
  PROVE  Begun' /\ tasks' \in Seq(TaskSet)
<1>1. tasks \in Seq(TaskSet)
  BY ZenonT(60) DEF IInv, TypeOK, TaskSet
<1>2. /\ tasks' \in Seq(TaskSet) /\ Len(tasks') = Len(tasks) + 1 /\ Len(tasks) \in Nat
      /\ \A i \in 1..Len(tasks) : tasks'[i] = tasks[i]
      /\ tasks'[Len(tasks) + 1] = t
  BY <1>1, AppendProperties, LenProperties, SMTT(30)
<1>3. ASSUME NEW i \in 1..Len(tasks')
      PROVE  tasks'[i].op \notin {"start", "connect"}
  <2>1. i \in 1..Len(tasks) \/ i = Len(tasks) + 1
    BY <1>2, SMTT(30)
  <2> QED BY <1>2, <2>1, ZenonT(60) DEF Begun
<1> QED BY <1>2, <1>3, Zenon DEF Begun

\* send, shutdown and close on another thread.
LEMMA PostCallIInv == IInv /\ PostCall => IInv'
<1> SUFFICES ASSUME IInv, PostCall PROVE IInv'
  OBVIOUS
<1>1. /\ state # "Disconnected"
      /\ \E op \in {"send", "shutdown", "close"}, n \in Nat : Post(op, n)
      /\ Counted
  BY ConnAssumption, Zenon DEF PostCall
<1>2. PICK op \in {"send", "shutdown", "close"}, n \in Nat : Post(op, n)
  BY <1>1, Zenon
<1>3. Begun
  BY <1>1 DEF IInv, Phases, Fresh
<1> PICK t : t = [op |-> op, n |-> n]
  BY ZenonT(60)
<1>4. t \in TaskSet /\ t.op \notin {"start", "connect"} /\ tasks' = Append(tasks, t)
  BY <1>2, SMTT(30) DEF Post, TaskSet, Ops
<1>5. calls' = calls + 1 /\ UNCHANGED <<rcvd, asked, outcome, closeTimeout>>
  BY <1>1, Zenon DEF Counted
<1>6. Begun' /\ tasks' \in Seq(TaskSet)
  BY <1>3, <1>4, <1>5, AppendTask, Zenon
<1>7. /\ UNCHANGED <<objVars, stack, timer, sockVars, accepted, closeCbs, crashed>>
      /\ UNCHANGED pend
  BY <1>2, ZenonT(60) DEF Post
<1>8. Around
  <2>1. calls' \in Nat /\ rcvd' \in Nat
    BY <1>5 DEF IInv, TypeOK
  <2> QED BY <1>3, <1>5, <1>6, <1>7, <2>1, Zenon DEF Around
<1>9. UNCHANGED <<objVars, stack, sockVars, accepted, closeCbs, crashed>> /\ timer' = timer
  BY <1>7, Zenon
<1> QED BY <1>8, <1>9, StayIInv, Zenon

\* connect on another thread.
LEMMA PostConnectIInv == IInv /\ PostConnect => IInv'
<1> SUFFICES ASSUME IInv, PostConnect PROVE IInv'
  OBVIOUS
<1>1. /\ UNCHANGED <<state, chan, interest, wbuf, warned, timerId, cleanupDone>>
      /\ UNCHANGED <<stack, pend, timer, accepted, closeCbs, crashed, calls, rcvd, outcome, closeTimeout>>
      /\ UNCHANGED <<ksock, soerr, rx, rfin, wire, acked, finSent, edge, nospace>>
      /\ ~asked /\ asked' = TRUE /\ tasks' = Append(tasks, Task("connect"))
  BY Zenon DEF PostConnect, MayConnect, Post, objVars, sockVars, Task
<1>2. Fresh /\ tasks = <<>>
  BY <1>1, ZenonT(60) DEF IInv, Phases, Fresh, Begun
<1>3. tasks' = <<Task("connect")>> /\ tasks' \in Seq(TaskSet)
  <2>1. Task("connect") \in TaskSet
    BY Zenon DEF Task, TaskSet, Ops
  <2> QED BY <1>1, <1>2, <2>1, SMTT(30)
<1>4. TypeOK'
  BY <1>1, <1>3, ZenonT(60) DEF IInv, TypeOK, TaskSet
<1>5. Bytes'
  BY <1>1, Zenon DEF IInv, Bytes
<1>6. Phases'
  <2>1. Fresh'
    BY <1>1, <1>2, <1>3, SMTT(30) DEF Fresh
  <2> QED BY <1>1, <2>1, Zenon DEF IInv, Phases
<1>7. Reported' /\ Writing' /\ Edges'
  BY <1>1, ZenonT(60) DEF IInv, Reported, Writing, Edges, Space
<1>8. Marks' /\ LoopHasChannel'
  BY <1>1, Zenon DEF IInv, Marks, LoopHasChannel
<1>9. Attempt'
  BY <1>1, Zenon DEF IInv, Attempt
<1>10. Cleaned'
  BY <1>1, Zenon DEF IInv, Cleaned
<1> QED BY <1>4, <1>5, <1>6, <1>7, <1>8, <1>9, <1>10, ZenonT(60) DEF IInv

\* The close timer goes off.
LEMMA TimerIInv == IInv /\ TimerThread => IInv'
<1> SUFFICES ASSUME IInv, TimerThread PROVE IInv'
  OBVIOUS
<1>1. /\ UNCHANGED <<objVars, stack, sockVars, accepted, closeCbs, crashed>>
      /\ UNCHANGED <<pend, asked, outcome, closeTimeout, calls, rcvd>>
      /\ timer # "none" /\ timer' \in {"extracted", "none"}
      /\ tasks' = tasks \/ tasks' = Append(tasks, Task("timeout"))
  BY ZenonT(60) DEF TimerThread, TimerExtract, TimerCallback, histVars
<1>2. Begun
  BY <1>1, SMTT(30) DEF IInv, Phases, Fresh
<1>3. Begun' /\ tasks' \in Seq(TaskSet)
  <2>1. CASE tasks' = tasks
    BY <1>1, <1>2, <2>1, ZenonT(60) DEF Begun, IInv, TypeOK, TaskSet
  <2>2. CASE tasks' = Append(tasks, Task("timeout"))
    <3> PICK t : t = Task("timeout")
      BY SMTT(30)
    <3>1. t \in TaskSet /\ t.op \notin {"start", "connect"} /\ tasks' = Append(tasks, t)
      BY <2>2, ZenonT(60) DEF Task, TaskSet, Ops
    <3> QED BY <1>1, <1>2, <3>1, AppendTask, Zenon
  <2> QED BY <1>1, <2>1, <2>2, Zenon
<1>4. Around
  BY <1>1, <1>2, <1>3, Zenon DEF Around, IInv, TypeOK
<1> QED BY <1>1, <1>4, StayIInv, Zenon

\* The closures there are.
LEMMA TaskCases ==
  ASSUME RunTask
  PROVE  /\ Head(tasks).op = "send" => SendInPollThread(Head(tasks).n, <<>>)
         /\ Head(tasks).op = "shutdown" => ShutdownInPoll(<<>>)
         /\ Head(tasks).op \in {"close", "timeout"} => Cleanup(<<>>)
         /\ Head(tasks).op = "start" => Start(<<>>)
         /\ Head(tasks).op = "release" => Return(<<>>)
         /\ Head(tasks).op = "connect" => StartConnectInPoll(<<>>)
BY Zenon DEF RunTask

LEMMA TakeTask ==
  ASSUME IInv, Begun, tasks # <<>>, tasks' = Tail(tasks), asked' = asked
  PROVE  /\ Begun' /\ tasks' \in Seq(TaskSet) /\ Head(tasks) \in TaskSet
         /\ Head(tasks).op \notin {"start", "connect"}
<1>1. tasks \in Seq(TaskSet)
  BY Zenon DEF IInv, TypeOK, TaskSet
<1>2. /\ tasks' \in Seq(TaskSet) /\ Len(tasks') = Len(tasks) - 1 /\ Len(tasks) \in Nat \ {0}
      /\ \A i \in 1..Len(tasks') : tasks'[i] = tasks[i + 1]
      /\ Head(tasks) = tasks[1] /\ Head(tasks) \in TaskSet
  BY <1>1, HeadTailProperties, EmptySeq, SMTT(30)
<1>3. ASSUME NEW i \in 1..Len(tasks')
      PROVE  tasks'[i].op \notin {"start", "connect"}
  <2>1. i + 1 \in 1..Len(tasks)
    BY <1>2, SMTT(30)
  <2> QED BY <1>2, <2>1, Zenon DEF Begun
<1>4. 1 \in 1..Len(tasks)
  BY <1>2, SMTT(30)
<1> QED BY <1>2, <1>3, <1>4, ZenonT(60) DEF Begun

\* A closure is run.
LEMMA RunTaskIInv == IInv /\ RunTask => IInv'
<1> SUFFICES ASSUME IInv, RunTask PROVE IInv'
  OBVIOUS
<1>1. /\ stack = <<>> /\ pend = NoEvent /\ tasks # <<>> /\ tasks' = Tail(tasks)
      /\ UNCHANGED <<pend, calls, rcvd, asked, closeTimeout>>
      /\ Head(tasks).op # "connect" => UNCHANGED outcome
  BY Zenon DEF RunTask, Quiet
<1>2. calls' \in Nat /\ rcvd' \in Nat
  BY <1>1, ZenonT(60) DEF IInv, TypeOK
<1>3. CASE ~Begun
  <2>1. Fresh /\ asked = TRUE /\ asked' = TRUE
    BY <1>1, <1>3, ZenonT(60) DEF IInv, TypeOK, Phases, Fresh
  <2>2. \A t : Head(<<t>>) = t /\ Tail(<<t>>) = <<>>
    BY SMTT(30)
  <2>3. Task("connect").op = "connect" /\ Task("start").op = "start"
    BY SMTT(30) DEF Task
  <2>4. CASE tasks = <<Task("connect")>> /\ ksock = "none"
    <3>1. tasks' = <<>> /\ StartConnectInPoll(<<>>)
      BY <1>1, <2>2, <2>3, <2>4, TaskCases, Zenon
    <3> QED BY <1>1, <1>2, <2>1, <2>4, <3>1, ConnectIInv, Zenon
  <2>5. CASE tasks = <<Task("start")>> /\ ksock \in {"est", "dead"}
    <3>1. tasks' = <<>> /\ Start(<<>>) /\ UNCHANGED outcome
      BY <1>1, <2>2, <2>3, <2>5, TaskCases, Zenon
    <3> QED BY <1>1, <2>1, <2>5, <3>1, StartIInv, ZenonT(60)
  <2> QED BY <1>1, <2>1, <2>4, <2>5, Zenon DEF Fresh
<1>4. CASE Begun
  <2> PICK op : op = Head(tasks).op
    BY SMTT(30)
  <2> PICK n : n = Head(tasks).n
    BY SMTT(30)
  <2> PICK rest : rest = stack
    BY Zenon
  <2>1. Begun' /\ tasks' \in Seq(TaskSet) /\ op \in Ops \ {"start", "connect"} /\ n \in Nat
    BY <1>1, <1>4, TakeTask, Zenon DEF TaskSet
  <2>2. Around
    BY <1>1, <1>2, <1>4, <2>1, Zenon DEF Around
  <2>3. \A f : ~In(f, rest)
    BY <1>1, StackEmpty, Zenon
  <2>4. CASE op = "send"
    <3>1. SendInPollThread(n, rest)
      BY <1>1, <2>4, TaskCases, Zenon
    <3> QED BY <2>1, <2>2, <2>3, <3>1, SendIInv, ZenonT(60)
  <2>5. CASE op = "shutdown"
    <3>1. ShutdownInPoll(rest)
      BY <1>1, <2>5, TaskCases, Zenon
    <3> QED BY <2>2, <3>1, ShutdownIInv, Zenon
  <2>6. CASE op \in {"close", "timeout"}
    <3>1. Cleanup(rest)
      BY <1>1, <2>6, TaskCases, ZenonT(60)
    <3>2. CASE cleanupDone
      BY <2>2, <3>1, <3>2, StayIInv, Zenon DEF Cleanup, AlreadyCleaned, Return
    <3>3. CASE ~cleanupDone
      <4>1. Keeps(rest)
        BY StackType, SMTT(30) DEF Keeps
      <4> QED BY <2>2, <2>3, <3>1, <3>3, <4>1, CleanupIInv, Zenon
    <3> QED BY <3>2, <3>3, Zenon
  <2>7. CASE op = "release"
    <3>1. Return(rest)
      BY <1>1, <2>7, TaskCases, SMTT(30)
    <3> QED BY <2>2, <3>1, StayIInv, ZenonT(60) DEF Return
  <2> QED BY <2>1, <2>4, <2>5, <2>6, <2>7, Zenon DEF Ops
<1> QED BY <1>3, <1>4, SMTT(30)
=============================================================================
