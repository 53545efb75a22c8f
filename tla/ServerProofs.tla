----------------------------- MODULE ServerProofs -----------------------------
(***************************************************************************)
(* Server's inductive invariant, and that the steps of the main loop, of   *)
(* accepting and of closing a connection keep it.  ServerExitProofs has    *)
(* the other steps and what follows.                                       *)
(***************************************************************************)
EXTENDS Server, TLAPS

-----------------------------------------------------------------------------
(* The inductive invariant.                                                *)

\* The closures in a queue the closer waits for: all but start_.
NoSync(s)  == \A i \in 1..Len(s) : s[i].op = "start"
OneSync(s) ==
  \A i, j \in 1..Len(s) : s[i].op # "start" /\ s[j].op # "start" => i = j

CleanIn(s, c) == \E i \in 1..Len(s) : s[i].op = "clean" /\ s[i].c = c

StartIn(s, c) == \E i \in 1..Len(s) : s[i].op = "start" /\ s[i].c = c

\* Descriptors the kernel has given out and nobody has closed.
Handles ==
  /\ \A i, j \in 1..Len(batch) : batch[i] = batch[j] => i = j
  /\ \A i \in 1..Len(batch) : \A c \in Conns : HasFd(c) => conn[c].fd # batch[i]
  /\ \A c, d \in Conns : HasFd(c) /\ conn[d].fd = conn[c].fd => d <= c

\* The way of the main thread through start(), run() and poll().
MainPhases ==
  /\ mpc = "init" => \A p \in Polls : loop[p] = "init" /\ ~shut[p] /\ tasks[p] = <<>>
  /\ mpc \in {"init", "failed"} => ~started /\ ~listening /\ cpc = "idle"
  /\ connecting # 0 => /\ mpc = "dispatch" /\ conn[connecting].st = "new"
                       /\ \A p \in Polls : ~StartIn(tasks[p], connecting)
  /\ mpc = "insert" => batch # <<>>
  /\ mpc = "callback" => OneThread

\* kOnePollPerThread: what is in the polls' queues, and where.
Queues ==
  /\ \A c \in Conns : conn[c].poll \in Subs
  /\ \A p \in Polls : \A i \in 1..Len(tasks[p]) :
       /\ p = Main <=> tasks[p][i].op = "acceptor"
       /\ p # Main => tasks[p][i].c \in Conns
  /\ closing[Main] = NotClosing

\* One closure at most is waited for; the first is the Acceptor's.
Waiting ==
  /\ ~pending => \A p \in Polls : NoSync(tasks[p]) /\ ~closing[p].sync
  /\ \A p \in Polls : OneSync(tasks[p])
  /\ \A p, q \in Polls : ~NoSync(tasks[p]) /\ ~NoSync(tasks[q]) => p = q
  /\ \A p, q \in Polls : closing[p].sync => NoSync(tasks[q])
  /\ \A p, q \in Polls : closing[p].sync /\ closing[q].sync => p = q
  /\ pending /\ cpc \in {"snapshot", "clear"} =>
       \A p \in Subs : NoSync(tasks[p]) /\ ~closing[p].sync
  /\ pending => cpc \in {"snapshot", "shutConns", "clear", "cleanConns"}

\* The acceptor is down once its closure has been run.
AcceptorDown == cpc \notin {"idle", "acceptor"} /\ ~(pending /\ cpc \in {"snapshot", "clear"})

Stopping == cpc \in {"stopSubs", "joinSubs", "stopMain", "done"}

\* The way of the closer.
CloserPhases ==
  /\ cpc # "idle" => ~started /\ mpc \notin {"init", "failed"}
  /\ AcceptorDown => ~listening /\ connecting = 0 /\ mpc \in {"loop", "returned"}
  /\ cpc \in {"cleanConns"} \/ Stopping => \A f \in Fds : conns[f] = 0
  /\ Stopping => todo = {}
  /\ cpc \in {"stopMain", "done"} => \A p \in Subs : loop[p] = "exited"

\* A poll ends when it is shut down, and not before its queue is empty.
Ended ==
  /\ \A p \in Polls : shut[p] =>
       /\ ~started
       /\ Stopping \/ (cpc = "idle" /\ mpc \in {"failed", "returned"})
  /\ shut[Main] => cpc = "done" \/ (cpc = "idle" /\ mpc = "returned")
  /\ \A p \in Polls : loop[p] = "exited" =>
       shut[p] /\ tasks[p] = <<>> /\ closing[p] = NotClosing

\* A Conn that has its descriptor is in conns_, or its entry was erased by an
\* earlier Conn with this descriptor, or the closer cleans it up.
Accounted ==
  /\ \A c \in Conns : HasFd(c) =>
       \/ conns[conn[c].fd] = c
       \/ \E d \in 1..(c - 1) : conn[d].fd = conn[c].fd
       \/ cpc = "cleanConns" /\ c \in todo
       \/ \E p \in Polls : CleanIn(tasks[p], c)
  /\ \A c \in Conns : conn[c].st = "closing" => \E p \in Polls : closing[p].c = c

\* Each thread in do_cleanup_ is there with a Conn of its own.
InCleanup ==
  /\ \A p \in Polls : closing[p].c # 0 => conn[closing[p].c].st = "closing"
  /\ \A p, q \in Polls : closing[p].c # 0 /\ closing[p].c = closing[q].c => p = q

\* kAllOneThread: closing a Conn is one step to all others.
Alone ==
  /\ \A c \in Conns : conn[c].poll = Main
  /\ \A p \in Polls : tasks[p] = <<>> /\ loop[p] # "exited"
  /\ \A c \in Conns : conn[c].st # "closed" => conns[conn[c].fd] = c
  /\ \A c \in Conns : conn[c].st = "closing" => closing[Main].c = c
  /\ closing[Main].c # 0 => /\ mpc \in {"loop", "callback"}
                            /\ conn[closing[Main].c].st = "closing"
  /\ \A p \in Subs : closing[p] = NotClosing
  /\ cpc \in {"idle", "drain", "done"}
  /\ cpc # "idle" => ~listening /\ mpc # "init"
  /\ cpc = "done" => ~started
  /\ cpc = "done" /\ ~EndInCallback =>
       /\ mpc \notin {"dispatch", "insert", "callback"} /\ connecting = 0
       /\ \A f \in Fds : conns[f] = 0

IInv ==
  /\ NoStaleEntry
  /\ Handles
  /\ MainPhases
  /\ InCleanup
  /\ PerThread => Queues /\ Waiting /\ CloserPhases /\ Ended /\ Accounted
  /\ OneThread => Alone

-----------------------------------------------------------------------------
(* Sequences.                                                              *)

LEMMA ElementOfSeq == ASSUME NEW S, NEW s \in Seq(S), NEW n \in 1..Len(s) PROVE s[n] \in S
OBVIOUS

LEMMA EmptySeq ==
  ASSUME NEW S
  PROVE  <<>> \in Seq(S) /\ Len(<<>>) = 0 /\ \A s \in Seq(S) : s # <<>> => Len(s) \in Nat \ {0}
OBVIOUS

LEMMA LenProperties ==
  ASSUME NEW S, NEW s \in Seq(S)
  PROVE  Len(s) \in Nat /\ s \in [1..Len(s) -> S] /\ DOMAIN s = 1..Len(s)
OBVIOUS

LEMMA HeadTailProperties ==
  ASSUME NEW S, NEW s \in Seq(S), s # <<>>
  PROVE  /\ Head(s) \in S /\ Tail(s) \in Seq(S) /\ Len(Tail(s)) = Len(s) - 1
         /\ \A i \in 1..Len(Tail(s)) : Tail(s)[i] = s[i + 1]
OBVIOUS

LEMMA AppendProperties ==
  ASSUME NEW S, NEW s \in Seq(S), NEW e \in S
  PROVE  /\ Append(s, e) \in Seq(S) /\ Len(Append(s, e)) = Len(s) + 1
         /\ \A i \in 1..Len(s) : Append(s, e)[i] = s[i]
         /\ Append(s, e)[Len(s) + 1] = e
OBVIOUS

LEMMA ConcatProperties ==
  ASSUME NEW S, NEW s \in Seq(S), NEW t \in Seq(S)
  PROVE  /\ s \o t \in Seq(S) /\ Len(s \o t) = Len(s) + Len(t)
         /\ \A i \in 1..(Len(s) + Len(t)) :
              (s \o t)[i] = IF i <= Len(s) THEN s[i] ELSE t[i - Len(s)]
OBVIOUS

-----------------------------------------------------------------------------
(* Queues of closures.                                                     *)

\* A closure is pushed.
LEMMA PushSync ==
  ASSUME NEW s \in Seq(Closures), NEW t \in Closures
  PROVE  /\ Append(s, t) \in Seq(Closures)
         /\ t.op = "start" => /\ NoSync(Append(s, t)) <=> NoSync(s)
                              /\ OneSync(s) => OneSync(Append(s, t))
         /\ t.op # "start" /\ NoSync(s) => OneSync(Append(s, t))
         /\ \A c : CleanIn(s, c) => CleanIn(Append(s, t), c)
         /\ t.op = "clean" => CleanIn(Append(s, t), t.c)
<1> PICK u : u = Append(s, t)
  BY Zenon
<1> PICK n : n = Len(s)
  BY Zenon
<1>1. /\ u \in Seq(Closures) /\ n \in Nat /\ Len(u) = n + 1
      /\ \A i \in 1..n : u[i] = s[i]
      /\ u[n + 1] = t
  BY AppendProperties
<1>2. \A i \in 1..(n + 1) : i \in 1..n \/ i = n + 1
  BY <1>1
<1>3. 1..n \subseteq 1..(n + 1) /\ n + 1 \in 1..(n + 1)
  BY <1>1
<1>4. t.op = "start" => (NoSync(u) <=> NoSync(s))
  BY <1>1, <1>2, <1>3, Zenon DEF NoSync
<1>5. t.op = "start" /\ OneSync(s) => OneSync(u)
  BY <1>1, <1>2, <1>3 DEF OneSync
<1>6. t.op # "start" /\ NoSync(s) => OneSync(u)
  BY <1>1, <1>2, <1>3, ZenonT(60) DEF OneSync, NoSync
<1>7. \A c : CleanIn(s, c) => CleanIn(u, c)
  BY <1>1, <1>3, Zenon DEF CleanIn
<1>8. t.op = "clean" => CleanIn(u, t.c)
  BY <1>1, <1>3, Zenon DEF CleanIn
<1> QED BY <1>1, <1>4, <1>5, <1>6, <1>7, <1>8, Zenon

\* The first closure is taken.
LEMMA PopSync ==
  ASSUME NEW s \in Seq(Closures), s # <<>>
  PROVE  /\ Tail(s) \in Seq(Closures) /\ Head(s) \in Closures
         /\ NoSync(s) => NoSync(Tail(s)) /\ Head(s).op = "start"
         /\ OneSync(s) => OneSync(Tail(s))
         /\ OneSync(s) /\ Head(s).op # "start" => NoSync(Tail(s))
         /\ Head(s).op = "start" /\ NoSync(Tail(s)) => NoSync(s)
         /\ \A c : CleanIn(s, c) =>
              CleanIn(Tail(s), c) \/ (Head(s).op = "clean" /\ Head(s).c = c)
         /\ \A i \in 1..Len(Tail(s)) : i + 1 \in 1..Len(s) /\ Tail(s)[i] = s[i + 1]
         /\ 1 \in 1..Len(s) /\ Head(s) = s[1]
<1> PICK u, h : u = Tail(s) /\ h = Head(s)
  BY Zenon
<1> PICK n : n = Len(s)
  BY Zenon
<1>1. /\ u \in Seq(Closures) /\ n \in Nat /\ n # 0 /\ Len(u) = n - 1
      /\ \A i \in 1..(n - 1) : u[i] = s[i + 1]
      /\ h = s[1]
  BY HeadTailProperties, EmptySeq, LenProperties
<1>2. \A i \in 1..n : i = 1 \/ (i - 1 \in 1..(n - 1) /\ (i - 1) + 1 = i)
  BY <1>1
<1>3. 1 \in 1..n /\ \A i \in 1..(n - 1) : i + 1 \in 1..n
  BY <1>1
<1>4. \A i, j \in 1..(n - 1) : i + 1 = j + 1 => i = j
  BY <1>1
<1>5. \A i \in 1..(n - 1) : i + 1 # 1
  BY <1>1
<1>6. NoSync(s) => NoSync(u) /\ h.op = "start"
  BY <1>1, <1>3 DEF NoSync
<1>7. OneSync(s) => OneSync(u)
  BY <1>1, <1>3, <1>4 DEF OneSync
<1>8. OneSync(s) /\ h.op # "start" => NoSync(u)
  BY <1>1, <1>3, <1>5 DEF OneSync, NoSync
<1>9. h.op = "start" /\ NoSync(u) => NoSync(s)
  BY <1>1, <1>2 DEF NoSync
<1>10. ASSUME NEW c, CleanIn(s, c) PROVE CleanIn(u, c) \/ (h.op = "clean" /\ h.c = c)
  <2> PICK i \in 1..n : s[i].op = "clean" /\ s[i].c = c
    BY <1>10, Zenon DEF CleanIn
  <2>1. CASE i = 1
    BY <1>1, <2>1
  <2>2. CASE i # 1
    <3>1. i - 1 \in 1..Len(u) /\ u[i - 1] = s[i]
      BY <1>1, <1>2, <2>2
    <3> QED BY <3>1, Zenon DEF CleanIn
  <2> QED BY <2>1, <2>2
<1>11. h \in Closures
  BY <1>1, <1>3, ElementOfSeq
<1> QED BY <1>1, <1>3, <1>6, <1>7, <1>8, <1>9, <1>10, <1>11, Zenon

-----------------------------------------------------------------------------
(* The Conns.                                                              *)

ConnRecord == [fd : Fds, poll : Polls, st : ConnState]

\* No Conn is made, and none gets its descriptor back.
Older ==
  /\ conn' \in Seq(ConnRecord) /\ Len(conn') = Len(conn)
  /\ \A d \in Conns : conn'[d].fd = conn[d].fd /\ conn'[d].poll = conn[d].poll
  /\ \A d \in Conns : HasFd(d)' => HasFd(d)

LEMMA ConnsType == TypeOK => conn \in Seq(ConnRecord) /\ Len(conn) \in Nat /\ 0 \notin Conns
BY LenProperties DEF TypeOK, ConnRecord, Conns

LEMMA EntriesType == TypeOK => \A f \in Fds : conns[f] # 0 => conns[f] \in Conns
BY ConnsType, SMTT(30) DEF TypeOK, Conns

LEMMA OlderConns == Older => Conns' = Conns
BY Zenon DEF Older, Conns

\* One changes its state.
LEMMA SetStateProps ==
  ASSUME TypeOK, NEW c \in Conns, NEW s \in ConnState, SetState(c, s)
  PROVE  /\ conn' \in Seq(ConnRecord) /\ Len(conn') = Len(conn)
         /\ \A d \in Conns : conn'[d].fd = conn[d].fd /\ conn'[d].poll = conn[d].poll
         /\ \A d \in Conns : d # c => conn'[d].st = conn[d].st
         /\ conn'[c].st = s
<1>1. conn \in Seq(ConnRecord) /\ Len(conn) \in Nat
  BY ConnsType, Zenon
<1>2. conn \in [1..Len(conn) -> ConnRecord] /\ c \in 1..Len(conn)
  BY <1>1 DEF Conns
<1>3. conn' = [conn EXCEPT ![c] = [conn[c] EXCEPT !.st = s]]
  BY DEF SetState
<1>4. conn[c] \in ConnRecord
  BY <1>2, Zenon
<1>5. [conn[c] EXCEPT !.st = s] \in ConnRecord
  BY <1>4 DEF ConnRecord
<1>6. conn' \in [1..Len(conn) -> ConnRecord]
  BY <1>2, <1>3, <1>5, Zenon
<1>7. conn' \in Seq(ConnRecord) /\ Len(conn') = Len(conn)
  BY <1>1, <1>6
<1>8. \A d \in Conns : d # c => conn'[d] = conn[d]
  BY <1>2, <1>3, Zenon DEF Conns
<1>9. conn'[c] = [conn[c] EXCEPT !.st = s]
  BY <1>2, <1>3, Zenon
<1>10. /\ conn'[c].st = s /\ conn'[c].fd = conn[c].fd /\ conn'[c].poll = conn[c].poll
  BY <1>4, <1>9 DEF ConnRecord
<1> QED BY <1>7, <1>8, <1>10, Zenon

LEMMA SetStateOlder ==
  ASSUME TypeOK, NEW c \in Conns, NEW s \in ConnState, SetState(c, s),
         s \in {"new", "up", "half"} => HasFd(c)
  PROVE  Older
<1>1. \A d \in Conns : HasFd(d)' => HasFd(d)
  <2> SUFFICES ASSUME NEW d \in Conns, HasFd(d)' PROVE HasFd(d)
    BY Zenon
  <2>1. CASE d = c
    BY <2>1, SetStateProps, Zenon DEF HasFd
  <2>2. CASE d # c
    BY <2>2, SetStateProps, Zenon DEF HasFd
  <2> QED BY <2>1, <2>2
<1> QED BY <1>1, SetStateProps, Zenon DEF Older

LEMMA SameOlder == TypeOK /\ conn' = conn => Older
BY ConnsType, Zenon DEF Older, HasFd

\* The descriptors stay in order.
LEMMA HandlesKept ==
  ASSUME IInv, Older, batch' = batch
  PROVE  Handles'
<1>1. Conns' = Conns
  BY OlderConns, Zenon
<1>2. Handles
  BY Zenon DEF IInv
<1>3. \A c \in Conns : (HasFd(c)' => HasFd(c)) /\ conn'[c].fd = conn[c].fd
  BY Zenon DEF Older
<1>4. /\ \A i, j \in 1..Len(batch) : batch[i] = batch[j] => i = j
      /\ \A i \in 1..Len(batch) : \A c \in Conns : HasFd(c) => conn[c].fd # batch[i]
      /\ \A c, d \in Conns : HasFd(c) /\ conn[d].fd = conn[c].fd => d <= c
  BY <1>2, Zenon DEF Handles
<1>5. \A i \in 1..Len(batch) : \A c \in Conns : HasFd(c)' => conn'[c].fd # batch[i]
  BY <1>3, <1>4, Zenon
<1>6. \A c, d \in Conns : HasFd(c)' /\ conn'[d].fd = conn'[c].fd => d <= c
  BY <1>3, <1>4, Zenon
<1> QED BY <1>1, <1>4, <1>5, <1>6, Zenon DEF Handles

-----------------------------------------------------------------------------
(* The initial states.                                                     *)

LEMMA EmptyQueue == NoSync(<<>>) /\ OneSync(<<>>)
BY DEF NoSync, OneSync

LEMMA InitIInv == Init => IInv
<1> SUFFICES ASSUME Init PROVE IInv
  OBVIOUS
<1>1. Len(conn) = 0 /\ Conns = {} /\ 0 \in Nat
  BY DEF Init, Conns
<1>2. NoStaleEntry
  <2>1. NSubs \in Nat \ {0} /\ 0 \in 0..(NSubs - 1)
    BY ServerAssumption
  <2>2. NotClosing \in [c : 0..Len(conn), sync : BOOLEAN] /\ 0 \in 0..Len(conn)
    BY <1>1 DEF NotClosing
  <2>3. /\ batch \in Seq(Fds) /\ conn \in Seq([fd : Fds, poll : Polls, st : ConnState])
        /\ \A p \in Polls : tasks[p] \in Seq(Closures)
    BY DEF Init
  <2>4. TypeOK
    BY <1>1, <2>1, <2>2, <2>3, Zenon DEF Init, TypeOK, MainPc, CloserPc
  <2> QED BY <2>4, Zenon DEF Init, NoStaleEntry
<1>3. Handles
  <2>1. Len(batch) = 0 /\ 1..0 = {}
    BY DEF Init
  <2> QED BY <1>1, <2>1, Zenon DEF Handles
<1>4. MainPhases
  BY Zenon DEF Init, MainPhases
<1>5. Len(<<>>) = 0 /\ 1..0 = {} /\ Main \in Polls
  BY ServerAssumption DEF Main, Polls
<1>6. Queues
  BY <1>1, <1>5, Zenon DEF Init, Queues
<1>7. Waiting
  <2>1. \A p \in Polls : tasks[p] = <<>> /\ ~closing[p].sync
    BY DEF Init, NotClosing
  <2> QED BY <2>1, EmptyQueue, Zenon DEF Init, Waiting
<1>8. CloserPhases /\ Ended /\ Accounted
  BY <1>1, <1>5, Zenon DEF Init, CloserPhases, AcceptorDown, Stopping, Ended, Accounted
<1>9. Alone
  <2>1. closing[Main].c = 0 /\ Subs \subseteq Polls
    BY <1>5, ServerAssumption DEF Init, NotClosing, Subs, Polls
  <2> QED BY <1>1, <1>5, <2>1, Zenon DEF Init, Alone
<1>10. InCleanup
  <2>1. \A p \in Polls : closing[p].c = 0
    BY DEF Init, NotClosing
  <2> QED BY <2>1, Zenon DEF InCleanup
<1> QED BY <1>2, <1>3, <1>4, <1>6, <1>7, <1>8, <1>9, <1>10, Zenon DEF IInv

-----------------------------------------------------------------------------
(* The main thread.                                                        *)

\* What an action leaves alone stays as it was.
LEMMA QueuesKept == IInv /\ PerThread /\ UNCHANGED <<conn, tasks, closing>> => Queues'
BY Zenon DEF IInv, Queues, Conns

LEMMA WaitingKept == IInv /\ PerThread /\ UNCHANGED <<tasks, closing, pending, cpc>> => Waiting'
BY DEF IInv, Waiting

LEMMA AccountedKept ==
  IInv /\ PerThread /\ UNCHANGED <<conn, conns, tasks, closing, todo, cpc>> => Accounted'
BY Zenon DEF IInv, Accounted, Conns, HasFd

LEMMA EntriesKept == IInv /\ TypeOK' /\ UNCHANGED <<conn, conns>> => NoStaleEntry'
BY Zenon DEF IInv, NoStaleEntry

LEMMA CleanupKept ==
  ASSUME IInv, closing' = closing,
         \A d \in Conns : conn[d].st = "closing" => conn'[d].st = "closing"
  PROVE  InCleanup'
<1>1. \A p \in Polls : closing[p].c # 0 => closing[p].c \in Conns
  BY ConnsType DEF IInv, NoStaleEntry, TypeOK, Conns
<1> QED BY <1>1, Zenon DEF IInv, InCleanup

LEMMA MainIsPoll == Main \in Polls /\ Main \notin Subs /\ Subs \subseteq Polls
                    /\ \A p \in Polls : p # Main => p \in Subs
BY ServerAssumption DEF Main, Polls, Subs

LEMMA StartIInv == IInv /\ Start => IInv'
<1> SUFFICES ASSUME IInv, Start PROVE IInv'
  OBVIOUS
<1>1. /\ mpc = "init" /\ started' = TRUE /\ listening' = TRUE /\ mpc' = "ready"
      /\ UNCHANGED <<mode, batch, connecting, next, conn, conns, shut, tasks, closing,
                     how, cpc, todo, pending>>
      /\ TypeOK /\ Main \in Polls
  BY ServerAssumption DEF Start, Listen, exitVars, IInv, NoStaleEntry, Main, Polls
<1>2. \A p \in Polls : loop'[p] \in {"init", "run"}
  BY <1>1, Zenon DEF Start, TypeOK, IInv, MainPhases
<1>3. TypeOK'
  <2>1. loop' \in [Polls -> {"init", "run", "exited"}]
    BY <1>1 DEF Start, TypeOK
  <2> QED BY <1>1, <2>1, Zenon DEF TypeOK, MainPc, Conns
<1>4. Handles' /\ NoStaleEntry' /\ InCleanup'
  BY <1>1, <1>3, HandlesKept, SameOlder, EntriesKept, CleanupKept, Zenon
<1>5. MainPhases'
  BY <1>1, Zenon DEF IInv, MainPhases
<1>6. ASSUME PerThread PROVE Queues' /\ Waiting' /\ CloserPhases' /\ Ended' /\ Accounted'
  <2>1. cpc = "idle" /\ \A p \in Polls : ~shut[p]
    BY <1>1, Zenon DEF IInv, MainPhases
  <2>2. CloserPhases'
    BY <1>1, <2>1 DEF CloserPhases, AcceptorDown, Stopping
  <2>3. Ended'
    BY <1>1, <1>2, <2>1, Zenon DEF Ended
  <2> QED BY <1>1, <1>6, <2>2, <2>3, QueuesKept, WaitingKept, AccountedKept, Zenon
<1>7. ASSUME OneThread PROVE Alone'
  BY <1>1, <1>2, <1>7, Zenon DEF IInv, MainPhases, Alone, Conns
<1> QED BY <1>1, <1>4, <1>5, <1>6, <1>7, Zenon DEF IInv, PerThread, OneThread

\* Only the place of the main thread, shut_ and the state of the loops change.
LEMMA ControlIInv ==
  ASSUME IInv, TypeOK', MainPhases',
         UNCHANGED <<mode, batch, conn, conns, tasks, closing, cpc, todo, pending>>,
         PerThread => CloserPhases' /\ Ended', OneThread => Alone'
  PROVE  IInv'
<1>1. TypeOK /\ (PerThread' <=> PerThread) /\ (OneThread' <=> OneThread)
  BY DEF IInv, NoStaleEntry, PerThread, OneThread
<1>2. Handles' /\ NoStaleEntry' /\ InCleanup'
  BY <1>1, HandlesKept, SameOlder, EntriesKept, CleanupKept, Zenon
<1> QED BY <1>1, <1>2, QueuesKept, WaitingKept, AccountedKept, Zenon DEF IInv

\* While the acceptor is up, no poll is shut down, or start() has failed.
LEMMA NotStopping ==
  ASSUME IInv, PerThread, mpc \notin {"loop", "returned", "failed"}
  PROVE  ~AcceptorDown /\ ~Stopping /\ \A p \in Polls : ~shut[p]
<1>1. CloserPhases /\ Ended /\ Waiting
  BY DEF IInv
<1>2. ~AcceptorDown
  BY <1>1, Zenon DEF CloserPhases
<1>3. Stopping => AcceptorDown
  BY DEF Stopping, AcceptorDown
<1> QED BY <1>1, <1>2, <1>3, Zenon DEF Ended

LEMMA StartFailsIInv == IInv /\ StartFails => IInv'
<1> SUFFICES ASSUME IInv, StartFails PROVE IInv'
  OBVIOUS
<1>1. /\ mpc = "init" /\ mpc' = "failed" /\ shut' = [p \in Polls |-> p \in SubPolls]
      /\ UNCHANGED <<mode, started, listening, batch, connecting, next, conn, conns,
                     loop, tasks, closing, how, cpc, todo, pending>>
      /\ TypeOK
  BY DEF StartFails, exitVars, IInv, NoStaleEntry
<1>2. /\ ~started /\ ~listening /\ cpc = "idle" /\ connecting = 0
      /\ \A p \in Polls : loop[p] = "init"
  BY <1>1, Zenon DEF IInv, MainPhases
<1>3. TypeOK'
  BY <1>1, SMTT(30) DEF TypeOK, MainPc, Conns
<1>4. MainPhases'
  BY <1>1, <1>2, Zenon DEF MainPhases
<1>5. PerThread => CloserPhases' /\ Ended'
  <2>1. PerThread => ~shut'[Main]
    BY <1>1, MainIsPoll, Zenon DEF SubPolls
  <2> QED BY <1>1, <1>2, <2>1, Zenon DEF CloserPhases, AcceptorDown, Stopping, Ended
<1>6. OneThread => Alone'
  BY <1>1, <1>2, Zenon DEF IInv, Alone, Conns
<1> QED BY <1>1, <1>3, <1>4, <1>5, <1>6, ControlIInv, Zenon

LEMMA StartReturnsFalseIInv == IInv /\ StartReturnsFalse => IInv'
<1> SUFFICES ASSUME IInv, StartReturnsFalse PROVE IInv'
  OBVIOUS
<1>1. /\ mpc = "failed" /\ mpc' = "returned" /\ shut' = [shut EXCEPT ![Main] = TRUE]
      /\ UNCHANGED <<mode, started, listening, batch, connecting, next, conn, conns,
                     loop, tasks, closing, how, cpc, todo, pending>>
      /\ TypeOK
  BY DEF StartReturnsFalse, exitVars, IInv, NoStaleEntry
<1>2. ~started /\ ~listening /\ cpc = "idle" /\ connecting = 0
  BY <1>1, Zenon DEF IInv, MainPhases
<1>3. TypeOK'
  BY <1>1, Zenon DEF TypeOK, MainPc, Conns
<1>4. MainPhases'
  BY <1>1, <1>2, Zenon DEF MainPhases
<1>5. PerThread => CloserPhases' /\ Ended'
  <2>1. \A p \in Polls : shut[p] => shut'[p]
    BY <1>1, Zenon DEF TypeOK
  <2> QED BY <1>1, <1>2, <2>1, Zenon DEF IInv, CloserPhases, AcceptorDown, Stopping, Ended
<1>6. OneThread => Alone'
  BY <1>1, <1>2, Zenon DEF IInv, Alone, Conns
<1> QED BY <1>1, <1>3, <1>4, <1>5, <1>6, ControlIInv, Zenon

LEMMA RunIInv == IInv /\ Run => IInv'
<1> SUFFICES ASSUME IInv, Run PROVE IInv'
  OBVIOUS
<1>1. /\ PerThread /\ ~OneThread /\ mpc = "ready" /\ mpc' \in {"enter", "returned"}
      /\ UNCHANGED <<mode, started, listening, batch, connecting, next, conn, conns,
                     loop, shut, tasks, closing, how, cpc, todo, pending>>
      /\ TypeOK
  BY DEF Run, exitVars, pollVars, IInv, NoStaleEntry, PerThread, OneThread
<1>2. connecting = 0
  BY <1>1, Zenon DEF IInv, MainPhases
<1>3. TypeOK'
  BY <1>1, Zenon DEF TypeOK, MainPc, Conns
<1>4. MainPhases'
  BY <1>1, <1>2, Zenon DEF MainPhases
<1>5. CloserPhases' /\ Ended'
  <2>1. ~AcceptorDown /\ ~Stopping /\ \A p \in Polls : ~shut[p]
    BY <1>1, NotStopping, Zenon
  <2>2. ~AcceptorDown' /\ ~Stopping'
    BY <1>1, <2>1, Zenon DEF AcceptorDown, Stopping
  <2>3. cpc \notin {"cleanConns", "stopMain", "done"}
    BY <1>1, <2>1 DEF AcceptorDown
  <2> QED BY <1>1, <2>1, <2>2, <2>3, MainIsPoll, Zenon DEF IInv, CloserPhases, Ended
<1> QED BY <1>1, <1>3, <1>4, <1>5, ControlIInv, Zenon

LEMMA RunEnterIInv == IInv /\ RunEnter => IInv'
<1> SUFFICES ASSUME IInv, RunEnter PROVE IInv'
  OBVIOUS
<1>1. /\ mpc = "enter" /\ mpc' = "loop" /\ loop' = [loop EXCEPT ![Main] = "run"]
      /\ UNCHANGED <<mode, started, listening, batch, connecting, next, conn, conns,
                     shut, tasks, closing, how, cpc, todo, pending>>
      /\ TypeOK
  BY DEF RunEnter, exitVars, IInv, NoStaleEntry
<1>2. loop' \in [Polls -> {"init", "run", "exited"}]
  BY <1>1, Zenon DEF TypeOK
<1>3. \A p \in Polls : loop'[p] = "exited" => loop[p] = "exited"
  BY <1>1, Zenon DEF TypeOK
<1>4. TypeOK'
  BY <1>1, <1>2, Zenon DEF TypeOK, MainPc, Conns
<1>5. MainPhases'
  BY <1>1, Zenon DEF IInv, MainPhases
<1>6. ASSUME PerThread PROVE CloserPhases' /\ Ended'
  <2>1. ~AcceptorDown /\ ~Stopping /\ \A p \in Polls : ~shut[p]
    BY <1>1, <1>6, NotStopping, Zenon
  <2>2. ~AcceptorDown' /\ ~Stopping'
    BY <1>1, <2>1, Zenon DEF AcceptorDown, Stopping
  <2>3. cpc \notin {"cleanConns", "stopMain", "done"}
    BY <1>1, <2>1 DEF AcceptorDown
  <2> QED BY <1>1, <1>3, <1>6, <2>1, <2>2, <2>3, MainIsPoll, Zenon DEF IInv, CloserPhases, Ended
<1>7. OneThread => Alone'
  BY <1>1, <1>3, Zenon DEF IInv, Alone, Conns
<1> QED BY <1>1, <1>4, <1>5, <1>6, <1>7, ControlIInv, Zenon

LEMMA DispatchIInv == IInv /\ (Admit \/ CallbackReturns \/ DispatchDone) => IInv'
<1> SUFFICES ASSUME IInv, Admit \/ CallbackReturns \/ DispatchDone PROVE IInv'
  OBVIOUS
<1>0. /\ mpc \in {"dispatch", "callback"} /\ mpc' \in {"loop", "insert", "dispatch"}
      /\ mpc' = "insert" => batch # <<>>
      /\ mpc = "dispatch" => connecting = 0
      /\ mpc = "callback" => closing[Main] = NotClosing
      /\ UNCHANGED <<mode, started, listening, batch, connecting, next, conn, conns,
                     loop, shut, tasks, closing, how, cpc, todo, pending>>
      /\ TypeOK
  BY Zenon DEF Admit, CallbackReturns, InConnCallback, DispatchDone, exitVars, pollVars, IInv,
               NoStaleEntry
<1>1. /\ mpc \in {"dispatch", "callback"} /\ mpc' \in {"loop", "insert", "dispatch"}
      /\ mpc' = "insert" => batch # <<>>
      /\ connecting = 0
      /\ UNCHANGED <<mode, started, listening, batch, connecting, next, conn, conns,
                     loop, shut, tasks, closing, how, cpc, todo, pending>>
      /\ TypeOK
  BY <1>0, Zenon DEF IInv, MainPhases
<1>2. TypeOK'
  BY <1>1 DEF TypeOK, MainPc, Conns
<1>3. MainPhases'
  BY <1>1, Zenon DEF MainPhases
<1>4. ASSUME PerThread PROVE CloserPhases' /\ Ended'
  <2>1. ~AcceptorDown /\ ~Stopping /\ \A p \in Polls : ~shut[p]
    BY <1>1, <1>4, NotStopping, Zenon
  <2>2. ~AcceptorDown' /\ ~Stopping'
    BY <1>1, <2>1, Zenon DEF AcceptorDown, Stopping
  <2>3. cpc \notin {"cleanConns", "stopMain", "done"}
    BY <1>1, <2>1 DEF AcceptorDown
  <2> QED BY <1>1, <1>4, <2>1, <2>2, <2>3, MainIsPoll, Zenon DEF IInv, CloserPhases, Ended
<1>5. ASSUME OneThread PROVE Alone'
  <2>1. Alone /\ (cpc = "done" => EndInCallback)
    BY <1>1, <1>5 DEF IInv, Alone
  <2>2. closing[Main].c = 0
    BY <1>0, <2>1 DEF Alone, NotClosing
  <2> QED BY <1>1, <2>1, <2>2, Zenon DEF Alone, Conns
<1> QED BY <1>1, <1>2, <1>3, <1>4, <1>5, ControlIInv, Zenon

LEMMA PollIInv == IInv /\ (Poll \/ PollReturns) => IInv'
<1> SUFFICES ASSUME IInv, Poll \/ PollReturns PROVE IInv'
  OBVIOUS
<1>1. /\ OneThread /\ ~PerThread /\ closing[Main].c = 0 /\ connecting = 0
      /\ mpc \in {"ready", "loop"} /\ mpc' \in {"ready", "loop"}
      /\ UNCHANGED <<mode, started, listening, batch, connecting, next, conn, conns,
                     loop, shut, tasks, closing, how, cpc, todo, pending>>
      /\ TypeOK
  <2>1. OneThread /\ ~PerThread /\ TypeOK
    BY DEF Poll, PollReturns, OneThread, PerThread, IInv, NoStaleEntry
  <2>2. mpc \in {"ready", "loop"} /\ mpc' \in {"ready", "loop"}
    BY Zenon DEF Poll, PollReturns, Free
  <2>3. connecting = 0
    BY <2>2 DEF IInv, MainPhases
  <2>4. closing[Main].c = 0
    <3>1. CASE Poll
      BY <2>1, <3>1 DEF Poll, IInv, Alone
    <3>2. CASE PollReturns
      BY <3>2 DEF PollReturns, Free, NotClosing
    <3> QED BY <3>1, <3>2, Zenon
  <2> QED BY <2>1, <2>2, <2>3, <2>4, Zenon DEF Poll, PollReturns, exitVars, pollVars
<1>2. TypeOK'
  BY <1>1, Zenon DEF TypeOK, MainPc, Conns
<1>3. MainPhases'
  BY <1>1, Zenon DEF IInv, MainPhases
<1>4. Alone'
  BY <1>1, Zenon DEF IInv, Alone, Conns
<1> QED BY <1>1, <1>2, <1>3, <1>4, ControlIInv, Zenon

\* A batch is filled or gets shorter.
LEMMA BatchIInv ==
  ASSUME IInv, TypeOK', Handles', mpc \in {"loop", "dispatch"}, mpc' \in {mpc, "dispatch"},
         mpc' # mpc => listening /\ connecting = 0 /\ closing[Main] = NotClosing,
         UNCHANGED <<mode, started, listening, connecting, next, conn, conns, loop, shut,
                     tasks, closing, how, cpc, todo, pending>>
  PROVE  IInv'
<1>1. TypeOK /\ (PerThread' <=> PerThread) /\ (OneThread' <=> OneThread)
  BY DEF IInv, NoStaleEntry, PerThread, OneThread
<1>2. NoStaleEntry' /\ InCleanup'
  BY EntriesKept, CleanupKept, Zenon
<1>3. MainPhases'
  BY <1>1, Zenon DEF IInv, MainPhases
<1>4. ASSUME PerThread PROVE CloserPhases' /\ Ended'
  <2>1. CloserPhases /\ Ended
    BY <1>4 DEF IInv
  <2>2. mpc' # mpc => ~AcceptorDown /\ ~Stopping
    BY <2>1 DEF CloserPhases, AcceptorDown, Stopping
  <2>3. (AcceptorDown' <=> AcceptorDown) /\ (Stopping' <=> Stopping)
    BY Zenon DEF AcceptorDown, Stopping
  <2>4. mpc' # mpc => cpc \notin {"stopMain", "done", "cleanConns"}
    BY <2>2 DEF Stopping, AcceptorDown
  <2>5. CloserPhases'
    BY <2>1, <2>2, <2>3, <2>4, Zenon DEF CloserPhases
  <2> QED BY <2>1, <2>2, <2>3, <2>4, <2>5, Zenon DEF Ended
<1>5. ASSUME OneThread PROVE Alone'
  <2>1. closing[Main].c # 0 => mpc' = "loop"
    BY <1>5, SMTT(30) DEF IInv, Alone, NotClosing
  <2>2. cpc = "done" /\ ~EndInCallback => mpc' \notin {"dispatch", "insert", "callback"}
    BY <1>5 DEF IInv, Alone
  <2> QED BY <1>5, <2>1, <2>2, Zenon DEF IInv, Alone, Conns
<1> QED BY <1>1, <1>2, <1>3, <1>4, <1>5, QueuesKept, WaitingKept, AccountedKept, Zenon DEF IInv

\* What is in a sequence made of two.
LEMMA Joined ==
  ASSUME NEW S, NEW a \in Seq(S), NEW b \in Seq(S)
  PROVE  /\ a \o b \in Seq(S) /\ Len(a \o b) = Len(a) + Len(b)
         /\ \A i \in 1..(Len(a) + Len(b)) :
              \/ i \in 1..Len(a) /\ (a \o b)[i] = a[i]
              \/ i - Len(a) \in 1..Len(b) /\ (a \o b)[i] = b[i - Len(a)]
<1> PICK m, n : m = Len(a) /\ n = Len(b)
  BY Zenon
<1>1. m \in Nat /\ n \in Nat
  BY LenProperties
<1>2. /\ a \o b \in Seq(S) /\ Len(a \o b) = m + n
      /\ \A i \in 1..(m + n) : (a \o b)[i] = IF i <= m THEN a[i] ELSE b[i - m]
  BY ConcatProperties
<1>3. \A i \in 1..(m + n) : IF i <= m THEN i \in 1..m ELSE i - m \in 1..n
  BY <1>1
<1> QED BY <1>2, <1>3

\* Accepted descriptors are free, and not in the batch yet.
LEMMA AcceptProps ==
  ASSUME IInv, Accept, UNCHANGED conn
  PROVE  batch' \in Seq(Fds) /\ Handles'
<1> PICK n \in 0..MaxBatch : \E new \in [1..n -> Fds \ OpenFds] :
           (\A i, j \in 1..n : new[i] = new[j] => i = j) /\ batch' = batch \o new
  BY Zenon DEF Accept
<1> PICK new \in [1..n -> Fds \ OpenFds] :
           (\A i, j \in 1..n : new[i] = new[j] => i = j) /\ batch' = batch \o new
  BY Zenon
<1> PICK k, b : k = Len(batch) /\ b = batch
  BY Zenon
<1>1. n \in Nat /\ k \in Nat /\ b \in Seq(Fds) /\ DOMAIN b = 1..k
  BY ServerAssumption, LenProperties, SMTT(30) DEF IInv, NoStaleEntry, TypeOK
<1>2. new \in Seq(Fds) /\ Len(new) = n
  <2>1. new \in [1..n -> Fds]
    BY Zenon
  <2> QED BY <1>1, <2>1
<1>3. batch' \in Seq(Fds) /\ Len(batch') = k + n
  BY <1>1, <1>2, Joined, ZenonT(60)
<1>4. \A i \in 1..(k + n) : \/ i \in 1..k /\ batch'[i] = b[i]
                            \/ i - k \in 1..n /\ batch'[i] = new[i - k]
  <2>1. \A i \in 1..(Len(b) + Len(new)) :
          \/ i \in 1..Len(b) /\ (b \o new)[i] = b[i]
          \/ i - Len(b) \in 1..Len(new) /\ (b \o new)[i] = new[i - Len(b)]
    <3>1. b \in Seq(Fds) /\ new \in Seq(Fds)
      BY <1>1, <1>2, Zenon
    <3> QED BY <3>1, Joined
  <2>2. Len(b) = k /\ Len(new) = n /\ b \o new = batch'
    BY <1>2, Zenon
  <2> QED BY <2>1, <2>2
<1>5. /\ \A i \in 1..k : b[i] \in OpenFds
      /\ \A i \in 1..n : new[i] \notin OpenFds
      /\ \A c \in Conns : HasFd(c) => conn[c].fd \in OpenFds
  BY <1>1, Zenon DEF OpenFds
<1>6. ASSUME NEW i \in 1..Len(batch'), NEW j \in 1..Len(batch'), batch'[i] = batch'[j]
      PROVE  i = j
  <2>1. i \in 1..(k + n) /\ j \in 1..(k + n)
    BY <1>3, Zenon
  <2>2. CASE i \in 1..k /\ j \in 1..k /\ b[i] = b[j]
    BY <2>2, Zenon DEF IInv, Handles
  <2>3. CASE i - k \in 1..n /\ j - k \in 1..n /\ new[i - k] = new[j - k]
    <3>1. i - k = j - k
      BY <2>3, Zenon
    <3> QED BY <1>1, <2>1, <3>1
  <2>4. \/ i \in 1..k /\ batch'[i] = b[i] /\ b[i] \in OpenFds
        \/ i - k \in 1..n /\ batch'[i] = new[i - k] /\ new[i - k] \notin OpenFds
    BY <1>4, <1>5, <2>1, Zenon
  <2>5. \/ j \in 1..k /\ batch'[j] = b[j] /\ b[j] \in OpenFds
        \/ j - k \in 1..n /\ batch'[j] = new[j - k] /\ new[j - k] \notin OpenFds
    BY <1>4, <1>5, <2>1, Zenon
  <2> QED BY <1>6, <2>2, <2>3, <2>4, <2>5, Zenon
<1>7. ASSUME NEW i \in 1..Len(batch'), NEW c \in Conns, HasFd(c)
      PROVE  conn[c].fd # batch'[i]
  <2>1. i \in 1..(k + n)
    BY <1>3, Zenon
  <2>2. CASE i \in 1..k /\ batch'[i] = b[i]
    BY <1>7, <2>2, Zenon DEF IInv, Handles
  <2>3. CASE i - k \in 1..n /\ batch'[i] = new[i - k]
    BY <1>5, <1>7, <2>3, Zenon
  <2> QED BY <1>4, <2>1, <2>2, <2>3, Zenon
<1>8. Conns' = Conns /\ \A c \in Conns : HasFd(c)' = HasFd(c)
  BY DEF Conns, HasFd
<1>9. \A c, d \in Conns : HasFd(c) /\ conn[d].fd = conn[c].fd => d <= c
  BY Zenon DEF IInv, Handles
<1>10. Handles'
  BY <1>6, <1>7, <1>8, <1>9, Zenon DEF Handles
<1> QED BY <1>3, <1>10

LEMMA HandleReadIInv == IInv /\ (HandleRead \/ HandleReadFails) => IInv'
<1> SUFFICES ASSUME IInv, HandleRead \/ HandleReadFails PROVE IInv'
  OBVIOUS
<1>1. /\ mpc = "loop" /\ mpc' \in {mpc, "dispatch"} /\ listening /\ Accept
      /\ closing[Main] = NotClosing
      /\ UNCHANGED <<mode, started, listening, connecting, next, conn, conns, loop, shut,
                     tasks, closing, how, cpc, todo, pending>>
  BY Zenon DEF HandleRead, HandleReadFails, Free, exitVars, pollVars
<1>2. batch' \in Seq(Fds) /\ Handles'
  BY <1>1, AcceptProps, Zenon
<1>3. TypeOK /\ connecting = 0
  BY <1>1, Zenon DEF IInv, NoStaleEntry, MainPhases
<1>4. TypeOK'
  BY <1>1, <1>2, <1>3, Zenon DEF TypeOK, MainPc, Conns
<1> QED BY <1>1, <1>2, <1>3, <1>4, BatchIInv, Zenon

LEMMA BatchTail ==
  ASSUME IInv, batch # <<>>, batch' = Tail(batch)
  PROVE  /\ batch' \in Seq(Fds) /\ Head(batch) \in Fds
         /\ \A i, j \in 1..Len(batch') : batch'[i] = batch'[j] => i = j
         /\ \A i \in 1..Len(batch') : batch'[i] # Head(batch)
         /\ \A c \in Conns : HasFd(c) =>
              /\ conn[c].fd # Head(batch)
              /\ \A i \in 1..Len(batch') : conn[c].fd # batch'[i]
<1> PICK k, b : k = Len(batch) /\ b = batch
  BY Zenon
<1>1. b \in Seq(Fds) /\ k \in Nat /\ k # 0
  BY LenProperties, EmptySeq DEF IInv, NoStaleEntry, TypeOK
<1>2. /\ batch' \in Seq(Fds) /\ Len(batch') = k - 1 /\ Head(b) = b[1] /\ Head(b) \in Fds
      /\ \A i \in 1..(k - 1) : batch'[i] = b[i + 1]
  BY <1>1, HeadTailProperties, ElementOfSeq
<1>3. /\ 1 \in 1..k /\ \A i \in 1..(k - 1) : i + 1 \in 1..k /\ i + 1 # 1
      /\ \A i, j \in 1..(k - 1) : i + 1 = j + 1 => i = j
  BY <1>1
<1>4. /\ \A i, j \in 1..k : b[i] = b[j] => i = j
      /\ \A i \in 1..k : \A c \in Conns : HasFd(c) => conn[c].fd # b[i]
  BY Zenon DEF IInv, Handles
<1>5. \A i, j \in 1..(k - 1) : batch'[i] = batch'[j] => i = j
  BY <1>2, <1>3, <1>4
<1>6. \A i \in 1..(k - 1) : batch'[i] # Head(b)
  BY <1>2, <1>3, <1>4, SMTT(30)
<1>7. ASSUME NEW c \in Conns, HasFd(c)
      PROVE  conn[c].fd # Head(b) /\ \A i \in 1..(k - 1) : conn[c].fd # batch'[i]
  <2>1. \A i \in 1..k : conn[c].fd # b[i]
    BY <1>4, <1>7, Zenon
  <2> QED BY <1>2, <1>3, <2>1
<1> QED BY <1>2, <1>5, <1>6, <1>7

LEMMA NewConnectionRefusedIInv == IInv /\ NewConnectionRefused => IInv'
<1> SUFFICES ASSUME IInv, NewConnectionRefused PROVE IInv'
  OBVIOUS
<1>1. /\ mpc = "dispatch" /\ batch # <<>> /\ batch' = Tail(batch)
      /\ UNCHANGED <<mode, started, mpc, listening, connecting, next, conn, conns, loop, shut,
                     tasks, closing, how, cpc, todo, pending>>
  BY DEF NewConnectionRefused, exitVars, pollVars
<1>2. Conns' = Conns /\ \A c \in Conns : HasFd(c)' = HasFd(c)
  BY <1>1 DEF Conns, HasFd
<1>3. Handles'
  BY <1>1, <1>2, BatchTail, Zenon DEF IInv, Handles
<1>4. TypeOK'
  <2>1. TypeOK /\ batch' \in Seq(Fds)
    BY <1>1, BatchTail, Zenon DEF IInv, NoStaleEntry
  <2> QED BY <1>1, <2>1, Zenon DEF TypeOK, MainPc, Conns
<1> QED BY <1>1, <1>3, <1>4, BatchIInv, Zenon

\* The types of what the steps of a Conn concern, for a list of Conns that gets
\* longer or stays.
LEMMA ConnTypes ==
  ASSUME TypeOK, conn' \in Seq(ConnRecord), Len(conn) <= Len(conn')
  PROVE  /\ conns' = conns => conns' \in [Fds -> 0..Len(conn')]
         /\ closing' = closing => closing' \in [Polls -> [c : 0..Len(conn'), sync : BOOLEAN]]
         /\ connecting' = connecting => connecting' \in 0..Len(conn')
         /\ todo' = todo => todo' \subseteq Conns'
         /\ conn' \in Seq([fd : Fds, poll : Polls, st : ConnState])
<1>1. Len(conn) \in Nat /\ Len(conn') \in Nat
  BY LenProperties, ConnsType
<1>2. 0..Len(conn) \subseteq 0..Len(conn') /\ Conns \subseteq Conns'
  BY <1>1 DEF Conns
<1>3. [c : 0..Len(conn), sync : BOOLEAN] \subseteq [c : 0..Len(conn'), sync : BOOLEAN]
  BY <1>2, Zenon
<1>4. conns \in [Fds -> 0..Len(conn')] /\ connecting \in 0..Len(conn') /\ todo \subseteq Conns'
  BY <1>2, Zenon DEF TypeOK
<1>5. closing \in [Polls -> [c : 0..Len(conn'), sync : BOOLEAN]]
  BY <1>3, Zenon DEF TypeOK
<1> QED BY <1>4, <1>5, Zenon DEF ConnRecord

\* A Conn is added.
Grown(c, r) ==
  /\ conn' \in Seq(ConnRecord) /\ Len(conn') = c /\ Len(conn) <= Len(conn')
  /\ Conns' = Conns \cup {c} /\ c \notin Conns /\ c # 0
  /\ c \in 0..c /\ 0..Len(conn) \subseteq 0..c
  /\ \A d \in Conns : d <= c
  /\ c <= c
  /\ \A d \in Conns : conn'[d] = conn[d]
  /\ conn'[c] = r

LEMMA GrownConn ==
  ASSUME TypeOK, NEW r \in ConnRecord, conn' = Append(conn, r)
  PROVE  Grown(Len(conn) + 1, r)
<1> PICK n : n = Len(conn)
  BY Zenon
<1>1. conn \in Seq(ConnRecord) /\ n \in Nat
  BY ConnsType, Zenon
<1>2. /\ conn' \in Seq(ConnRecord) /\ Len(conn') = n + 1
      /\ \A i \in 1..n : conn'[i] = conn[i]
      /\ conn'[n + 1] = r
  BY <1>1, AppendProperties
<1>3. /\ 1..(n + 1) = (1..n) \cup {n + 1} /\ n + 1 \notin 1..n /\ n + 1 # 0 /\ n <= n + 1
      /\ \A i \in 1..n : i <= n + 1
      /\ n + 1 <= n + 1
      /\ n + 1 \in 0..(n + 1) /\ 0..n \subseteq 0..(n + 1)
  BY <1>1
<1> QED BY <1>1, <1>2, <1>3, Zenon DEF Conns, Grown

\* It is entered under a descriptor that no other Conn has.
Entered(f, c, p) ==
  /\ f \in Fds /\ p \in Polls /\ (PerThread => p \in Subs) /\ (OneThread => p = Main)
  /\ conn'[c].fd = f /\ conn'[c].poll = p /\ conn'[c].st = "new"
  /\ connecting' = c
  /\ conns' \in [Fds -> 0..c] /\ conns'[f] = c /\ \A g \in Fds : g # f => conns'[g] = conns[g]
  /\ \A d \in Conns : HasFd(d) => conn[d].fd # f
  /\ batch' \in Seq(Fds)
  /\ \A i, j \in 1..Len(batch') : batch'[i] = batch'[j] => i = j
  /\ \A i \in 1..Len(batch') : batch'[i] # f
  /\ \A d \in Conns : HasFd(d) => \A i \in 1..Len(batch') : conn[d].fd # batch'[i]

LEMMA NewConnectionEnters ==
  ASSUME IInv, NewConnection
  PROVE  \E f, c, p, r : Grown(c, r) /\ Entered(f, c, p)
<1>1. TypeOK /\ NSubs \in Nat \ {0} /\ next \in 0..(NSubs - 1)
  BY ServerAssumption, Zenon DEF IInv, NoStaleEntry, TypeOK
<1>2. \E p \in Polls :
        /\ PerThread => p \in Subs
        /\ OneThread => p = Main
        /\ conn' = Append(conn, [fd |-> Head(batch), poll |-> p, st |-> "new"])
  <2> PICK p : p = (IF PerThread THEN next + 1 ELSE Main)
    BY Zenon
  <2>1. p \in Polls /\ (PerThread => p \in Subs) /\ (OneThread => p = Main)
    BY <1>1 DEF Polls, Subs, Main, OneThread, PerThread
  <2>2. conn' = Append(conn, [fd |-> Head(batch), poll |-> p, st |-> "new"])
    BY Zenon DEF NewConnection
  <2> QED BY <2>1, <2>2, Zenon
<1>3. batch # <<>> /\ batch' = Tail(batch)
  BY Zenon DEF NewConnection, IInv, MainPhases
<1>4. /\ batch' \in Seq(Fds) /\ Head(batch) \in Fds
      /\ \A i, j \in 1..Len(batch') : batch'[i] = batch'[j] => i = j
      /\ \A i \in 1..Len(batch') : batch'[i] # Head(batch)
      /\ \A c \in Conns : HasFd(c) =>
           /\ conn[c].fd # Head(batch)
           /\ \A i \in 1..Len(batch') : conn[c].fd # batch'[i]
  BY <1>3, BatchTail, Zenon
<1>5. conns' = [conns EXCEPT ![Head(batch)] = Len(conn) + 1] /\ connecting' = Len(conn) + 1
  BY Zenon DEF NewConnection
<1> PICK p \in Polls : /\ PerThread => p \in Subs
                       /\ OneThread => p = Main
                       /\ conn' = Append(conn, [fd |-> Head(batch), poll |-> p, st |-> "new"])
  BY <1>2, Zenon
<1>6. \E r \in ConnRecord : /\ r.fd = Head(batch) /\ r.poll = p /\ r.st = "new"
                            /\ conn' = Append(conn, r)
  <2>1. [fd |-> Head(batch), poll |-> p, st |-> "new"] \in ConnRecord
    BY <1>4 DEF ConnRecord, ConnState
  <2> QED BY <2>1, Zenon
<1>7. PICK r \in ConnRecord : /\ r.fd = Head(batch) /\ r.poll = p /\ r.st = "new"
                              /\ conn' = Append(conn, r)
  BY <1>6, Zenon
<1>8. Grown(Len(conn) + 1, r)
  BY <1>1, <1>7, GrownConn, Zenon
<1> PICK c : c = Len(conn) + 1
  BY Zenon
<1>9. conns' \in [Fds -> 0..c] /\ conns'[Head(batch)] = c
      /\ \A g \in Fds : g # Head(batch) => conns'[g] = conns[g]
  <2>1. 0..Len(conn) \subseteq 0..c /\ c \in 0..c
    BY <1>8, Zenon DEF Grown
  <2>2. conns \in [Fds -> 0..Len(conn)]
    BY <1>1 DEF TypeOK
  <2>3. conns \in [Fds -> 0..c]
    BY <2>1, <2>2, Zenon
  <2> QED BY <1>4, <1>5, <2>1, <2>3, Zenon
<1>10. Grown(c, r) /\ connecting' = c
  BY <1>5, <1>8, Zenon
<1>11. conn'[c] = r
  BY <1>10, Zenon DEF Grown
<1>12. Entered(Head(batch), c, p)
  BY <1>4, <1>7, <1>9, <1>10, <1>11, Zenon DEF Entered
<1> QED BY <1>10, <1>12, Zenon

LEMMA NewConnectionIInv == IInv /\ NewConnection => IInv'
<1> SUFFICES ASSUME IInv, NewConnection PROVE IInv'
  OBVIOUS
<1>0. \E f, c, p, r : Grown(c, r) /\ Entered(f, c, p)
  BY NewConnectionEnters, Zenon
<1> PICK f, c, p, r : Grown(c, r) /\ Entered(f, c, p)
  BY <1>0, Zenon
<1>1. TypeOK /\ NSubs \in Nat \ {0} /\ next \in 0..(NSubs - 1)
  BY ServerAssumption DEF IInv, NoStaleEntry, TypeOK
<1>2. /\ mpc = "insert" /\ mpc' = "dispatch"
      /\ UNCHANGED <<mode, started, listening, loop, shut, tasks, closing, how, cpc, todo,
                     pending>>
  BY Zenon DEF NewConnection, pollVars, exitVars
<1>3. (PerThread => p \in Subs) /\ f \in Fds
  BY Zenon DEF Entered
<1>5. conn'[c].fd = f /\ conn'[c].poll = p /\ conn'[c].st = "new" /\ connecting' = c
  BY Zenon DEF Entered
<1>6. /\ conn' \in Seq(ConnRecord) /\ Len(conn') = c /\ Len(conn) <= Len(conn')
      /\ Conns' = Conns \cup {c} /\ c \notin Conns /\ c # 0
      /\ \A d \in Conns : d <= c
      /\ c <= c
      /\ \A d \in Conns : conn'[d] = conn[d]
  BY Zenon DEF Grown
<1>7. conns' \in [Fds -> 0..c] /\ c \in 0..c
  BY Zenon DEF Entered, Grown
<1>8. conns'[f] = c /\ \A g \in Fds : g # f => conns'[g] = conns[g]
  BY Zenon DEF Entered
<1>9. next' \in 0..(NSubs - 1)
  BY <1>1 DEF NewConnection, NextPoll
<1>10. TypeOK'
  <2>1. /\ closing' \in [Polls -> [c : 0..Len(conn'), sync : BOOLEAN]]
        /\ todo' \subseteq Conns'
        /\ conn' \in Seq([fd : Fds, poll : Polls, st : ConnState])
    BY <1>1, <1>2, <1>6, ConnTypes, Zenon
  <2>2. batch' \in Seq(Fds) /\ mpc' \in MainPc
    BY <1>2, Zenon DEF Entered, MainPc
  <2> QED BY <1>1, <1>2, <1>5, <1>6, <1>7, <1>9, <2>1, <2>2, Zenon DEF TypeOK
<1>11. \A g \in Fds : conns[g] # 0 => conns[g] \in Conns
  BY <1>1, EntriesType, Zenon
<1>12. NoStaleEntry'
  <2> SUFFICES ASSUME NEW g \in Fds, conns'[g] # 0
               PROVE  conn'[conns'[g]].fd = g /\ conn'[conns'[g]].st # "closed"
    BY <1>10, Zenon DEF NoStaleEntry
  <2>1. CASE g = f
    BY <1>5, <1>6, <1>8, <2>1, Zenon
  <2>2. CASE g # f
    <3>1. conns'[g] = conns[g] /\ conns[g] \in Conns
      BY <1>8, <1>11, <2>2, Zenon
    <3> QED BY <1>6, <3>1, Zenon DEF IInv, NoStaleEntry
  <2> QED BY <2>1, <2>2
<1>13. HasFd(c)' /\ \A d \in Conns : HasFd(d)' <=> HasFd(d)
  BY <1>5, <1>6, Zenon DEF HasFd
<1>14. \A d \in Conns : HasFd(d) => conn[d].fd # f
  BY Zenon DEF Entered
<1>15. Handles'
  <2>1. \A i, j \in 1..Len(batch') : batch'[i] = batch'[j] => i = j
    BY Zenon DEF Entered
  <2>2. ASSUME NEW i \in 1..Len(batch'), NEW d \in Conns', HasFd(d)'
        PROVE  conn'[d].fd # batch'[i]
    <3>1. CASE d = c
      BY <1>5, <3>1, Zenon DEF Entered
    <3>2. CASE d \in Conns
      <4>1. HasFd(d) /\ conn'[d].fd = conn[d].fd
        BY <1>6, <1>13, <2>2, <3>2, Zenon
      <4> QED BY <3>2, <4>1, ZenonT(60) DEF Entered
    <3> QED BY <1>6, <3>1, <3>2, Zenon
  <2>3. ASSUME NEW d \in Conns', NEW e \in Conns', HasFd(d)', conn'[e].fd = conn'[d].fd
        PROVE  e <= d
    <3>1. CASE d = c
      BY <1>6, <3>1, Zenon
    <3>2. CASE d \in Conns /\ e = c
      BY <1>5, <1>6, <1>13, <1>14, <2>3, <3>2, Zenon
    <3>3. CASE d \in Conns /\ e \in Conns
      BY <1>6, <1>13, <2>3, <3>3, Zenon DEF IInv, Handles
    <3> QED BY <1>6, <3>1, <3>2, <3>3, Zenon
  <2> QED BY <2>1, <2>2, <2>3, Zenon DEF Handles
<1>16. MainPhases'
  <2>1. \A q \in Polls : \A i \in 1..Len(tasks[q]) :
          tasks[q][i].op = "start" => tasks[q][i].c \in Conns
    <3>1. CASE PerThread
      BY <3>1, Zenon DEF IInv, Queues
    <3>2. CASE OneThread
      <4>1. Len(<<>>) = 0 /\ 1..0 = {}
        OBVIOUS
      <4> QED BY <3>2, <4>1, Zenon DEF IInv, Alone
    <3> QED BY <1>1, <3>1, <3>2, ServerAssumption, Zenon DEF TypeOK, PerThread, OneThread
  <2>2. \A q \in Polls : ~StartIn(tasks[q], c)
    BY <1>6, <2>1, Zenon DEF StartIn
  <2> QED BY <1>2, <1>5, <2>2, Zenon DEF MainPhases
<1>17. ASSUME PerThread PROVE Queues' /\ Waiting' /\ CloserPhases' /\ Ended' /\ Accounted'
  <2>1. ~AcceptorDown /\ ~Stopping /\ \A q \in Polls : ~shut[q]
    BY <1>2, <1>17, NotStopping, Zenon
  <2>2. cpc \notin {"cleanConns", "stopMain", "done"}
    BY <1>2, <2>1 DEF AcceptorDown
  <2>3. CloserPhases'
    BY <1>2, <1>17, <2>1, <2>2, Zenon DEF IInv, CloserPhases, AcceptorDown, Stopping
  <2>4. Queues'
    BY <1>2, <1>3, <1>5, <1>6, <1>17, Zenon DEF IInv, Queues
  <2>5. Ended'
    BY <1>2, <1>17, <2>1, Zenon DEF IInv, Ended
  <2>6. ASSUME NEW d \in Conns', HasFd(d)'
        PROVE  \/ conns'[conn'[d].fd] = d
               \/ \E e \in 1..(d - 1) : conn'[e].fd = conn'[d].fd
               \/ \E q \in Polls : CleanIn(tasks[q], d)
    <3>1. CASE d = c
      BY <1>5, <1>6, <1>8, <3>1, Zenon
    <3>2. CASE d \in Conns
      <4>1. HasFd(d) /\ conn'[d].fd = conn[d].fd /\ conn[d].fd # f
        BY <1>6, <1>13, <1>14, <2>6, <3>2, Zenon
      <4>2. conn[d].fd \in Fds
        <5>1. conn[d] \in ConnRecord
          BY <1>1, <3>2, ConnsType, ElementOfSeq DEF Conns
        <5> QED BY <5>1 DEF ConnRecord
      <4>3. 1..(d - 1) \subseteq Conns
        BY <1>1, <3>2, ConnsType DEF Conns
      <4> QED BY <1>6, <1>8, <1>17, <2>2, <3>2, <4>1, <4>2, <4>3, ZenonT(60) DEF IInv, Accounted
    <3> QED BY <1>6, <3>1, <3>2, Zenon
  <2>7. \A d \in Conns' : conn'[d].st = "closing" => \E q \in Polls : closing[q].c = d
    BY <1>5, <1>6, <1>17, Zenon DEF IInv, Accounted
  <2>8. Accounted'
    BY <1>2, <2>6, <2>7, Zenon DEF Accounted
  <2> QED BY <1>2, <1>17, <2>3, <2>4, <2>5, <2>8, WaitingKept, Zenon
<1>18. ASSUME OneThread PROVE Alone'
  <2>1. p = Main /\ closing[Main].c = 0
    BY <1>2, <1>18, Zenon DEF Entered, IInv, Alone
  <2>2. ASSUME NEW d \in Conns, conn[d].st # "closed" PROVE conns'[conn[d].fd] = d
    <3>1. conn[d] \in ConnRecord /\ d # 0
      BY <1>1, ConnsType, ElementOfSeq, Zenon DEF Conns
    <3>2. conn[d].fd \in Fds /\ conn[d].st \in ConnState
      BY <3>1, Zenon DEF ConnRecord
    <3>3. conn[d].st # "closing"
      BY <1>18, <2>1, <3>1, Zenon DEF IInv, Alone
    <3>4. HasFd(d)
      BY <2>2, <3>2, <3>3 DEF HasFd, ConnState
    <3> QED BY <1>8, <1>14, <1>18, <2>2, <3>2, <3>4, ZenonT(60) DEF IInv, Alone
  <2>3. Alone
    BY <1>18 DEF IInv
  <2>4. \A d \in Conns' : conn'[d].poll = Main
    BY <1>5, <1>6, <2>1, <2>3, Zenon DEF Alone
  <2>5. \A d \in Conns' : conn'[d].st # "closed" => conns'[conn'[d].fd] = d
    BY <1>5, <1>6, <1>8, <2>2, Zenon
  <2>6. \A d \in Conns' : conn'[d].st = "closing" => closing'[Main].c = d
    BY <1>2, <1>5, <1>6, <2>3, ZenonT(60) DEF Alone
  <2>7. closing'[Main].c = 0 /\ (cpc' = "done" => EndInCallback)
    BY <1>2, <2>1, <2>3, Zenon DEF Alone
  <2> QED BY <1>2, <2>3, <2>4, <2>5, <2>6, <2>7, ZenonT(60) DEF Alone
<1>19. InCleanup'
  BY <1>2, <1>6, CleanupKept, Zenon
<1> QED BY <1>2, <1>12, <1>15, <1>16, <1>17, <1>18, <1>19, Zenon DEF IInv, PerThread, OneThread

-----------------------------------------------------------------------------
(* Steps of a Conn.                                                        *)

\* No Conn gets or loses its descriptor.
SameFds ==
  /\ Older
  /\ \A d \in Conns : /\ HasFd(d)' <=> HasFd(d)
                      /\ conn'[d].st = "closing" <=> conn[d].st = "closing"
                      /\ conn'[d].st = "closed" <=> conn[d].st = "closed"

LEMMA SetStateSame ==
  ASSUME TypeOK, NEW c \in Conns, NEW s \in {"up", "half"}, SetState(c, s), HasFd(c)
  PROVE  SameFds
<1>1. s \in ConnState
  BY DEF ConnState
<1>2. /\ \A d \in Conns : d # c => conn'[d].st = conn[d].st
      /\ conn'[c].st = s
  BY <1>1, SetStateProps, Zenon
<1>3. s \notin {"closing", "closed"} /\ s \in {"new", "up", "half"}
  OBVIOUS
<1>4. conn[c].st \notin {"closing", "closed"}
  BY DEF HasFd
<1>5. Older
  BY <1>1, SetStateOlder, Zenon
<1> QED BY <1>2, <1>3, <1>4, <1>5, Zenon DEF SameFds, HasFd

LEMMA SameSame == TypeOK /\ conn' = conn => SameFds
BY SameOlder, Zenon DEF SameFds, HasFd

LEMMA SameEntries ==
  ASSUME IInv, SameFds, TypeOK', conns' = conns
  PROVE  NoStaleEntry'
<1>1. \A f \in Fds : conns[f] # 0 => conns[f] \in Conns
  BY EntriesType, Zenon DEF IInv, NoStaleEntry
<1> QED BY <1>1, ZenonT(60) DEF IInv, NoStaleEntry, SameFds, Older

LEMMA OlderQueues ==
  ASSUME IInv, PerThread, Older, closing'[Main] = closing[Main],
         \A p \in Polls : \A i \in 1..Len(tasks'[p]) :
           /\ p = Main <=> tasks'[p][i].op = "acceptor"
           /\ p # Main => tasks'[p][i].c \in Conns
  PROVE  Queues'
<1>1. Conns' = Conns
  BY OlderConns, Zenon
<1> QED BY <1>1, Zenon DEF IInv, Queues, Older

LEMMA OldTasks ==
  IInv /\ PerThread => \A p \in Polls : \A i \in 1..Len(tasks[p]) :
                         /\ p = Main <=> tasks[p][i].op = "acceptor"
                         /\ p # Main => tasks[p][i].c \in Conns
BY Zenon DEF IInv, Queues

\* What becomes of the Conns that have a descriptor.
LEMMA AccountedStep ==
  ASSUME IInv, PerThread, Older,
         \A d \in Conns : HasFd(d)' /\ conns[conn[d].fd] = d =>
           \/ conns'[conn[d].fd] = d
           \/ \E e \in 1..(d - 1) : conn[e].fd = conn[d].fd
           \/ cpc' = "cleanConns" /\ d \in todo',
         \A d \in Conns : HasFd(d)' /\ cpc = "cleanConns" /\ d \in todo =>
           \/ cpc' = "cleanConns" /\ d \in todo'
           \/ \E q \in Polls : CleanIn(tasks'[q], d),
         \A d \in Conns : \A p \in Polls : HasFd(d)' /\ CleanIn(tasks[p], d) =>
           \E q \in Polls : CleanIn(tasks'[q], d),
         \A d \in Conns : conn'[d].st = "closing" => \E q \in Polls : closing'[q].c = d
  PROVE  Accounted'
<1>1. Conns' = Conns
  BY OlderConns, Zenon
<1>2. TypeOK
  BY DEF IInv, NoStaleEntry
<1>3. ASSUME NEW d \in Conns, HasFd(d)'
      PROVE  \/ conns'[conn'[d].fd] = d
             \/ \E e \in 1..(d - 1) : conn'[e].fd = conn'[d].fd
             \/ cpc' = "cleanConns" /\ d \in todo'
             \/ \E q \in Polls : CleanIn(tasks'[q], d)
  <2>1. HasFd(d) /\ conn'[d].fd = conn[d].fd
    BY <1>3, Zenon DEF Older
  <2>2. 1..(d - 1) \subseteq Conns
    BY <1>2, ConnsType DEF Conns
  <2>3. \A e \in 1..(d - 1) : conn'[e].fd = conn[e].fd
    BY <2>2, Zenon DEF Older
  <2>4. \/ conns[conn[d].fd] = d
        \/ \E e \in 1..(d - 1) : conn[e].fd = conn[d].fd
        \/ cpc = "cleanConns" /\ d \in todo
        \/ \E p \in Polls : CleanIn(tasks[p], d)
    BY <2>1, Zenon DEF IInv, Accounted
  <2> QED BY <1>3, <2>1, <2>3, <2>4, Zenon
<1> QED BY <1>1, <1>3, ZenonT(60) DEF Accounted

\* A closure is pushed to a queue.
Pushed(p, o, c) ==
  /\ tasks' \in [Polls -> Seq(Closures)]
  /\ \A q \in Polls : q # p => tasks'[q] = tasks[q]
  /\ o = "start" => /\ NoSync(tasks'[p]) <=> NoSync(tasks[p])
                    /\ OneSync(tasks[p]) => OneSync(tasks'[p])
  /\ o # "start" /\ NoSync(tasks[p]) => OneSync(tasks'[p])
  /\ \A d : CleanIn(tasks[p], d) => CleanIn(tasks'[p], d)
  /\ o = "clean" => CleanIn(tasks'[p], c)
  /\ \A i \in 1..Len(tasks'[p]) :
       \/ i \in 1..Len(tasks[p]) /\ tasks'[p][i] = tasks[p][i]
       \/ tasks'[p][i].op = o /\ tasks'[p][i].c = c

LEMMA EnqueueProps ==
  ASSUME TypeOK, NEW p \in Polls, NEW o \in {"start", "shut", "clean", "acceptor"},
         NEW c \in Nat, Enqueue(p, o, c)
  PROVE  Pushed(p, o, c)
<1> PICK s : s = tasks[p]
  BY Zenon
<1>1. \E t \in Closures : t.op = o /\ t.c = c /\ tasks' = [tasks EXCEPT ![p] = Append(s, t)]
  <2>1. [op |-> o, c |-> c] \in Closures
    BY Zenon DEF Closures
  <2>2. tasks' = [tasks EXCEPT ![p] = Append(s, [op |-> o, c |-> c])]
    BY DEF Enqueue
  <2> QED BY <2>1, <2>2, Zenon
<1>2. PICK t \in Closures : t.op = o /\ t.c = c /\ tasks' = [tasks EXCEPT ![p] = Append(s, t)]
  BY <1>1, Zenon
<1>3. tasks \in [Polls -> Seq(Closures)] /\ s \in Seq(Closures)
  BY Zenon DEF TypeOK
<1>4. Append(s, t) \in Seq(Closures)
  BY <1>3, PushSync, Zenon
<1>5. /\ tasks' \in [Polls -> Seq(Closures)] /\ tasks'[p] = Append(s, t)
      /\ \A q \in Polls : q # p => tasks'[q] = tasks[q]
  BY <1>2, <1>3, <1>4, Zenon
<1>6. \A i \in 1..Len(Append(s, t)) :
        (i \in 1..Len(s) /\ Append(s, t)[i] = s[i]) \/ Append(s, t)[i] = t
  <2> PICK n : n = Len(s)
    BY Zenon
  <2>1. /\ n \in Nat /\ Len(Append(s, t)) = n + 1
        /\ \A i \in 1..n : Append(s, t)[i] = s[i]
        /\ Append(s, t)[n + 1] = t
    BY <1>3, AppendProperties, LenProperties, SMTT(30)
  <2>2. \A i \in 1..(n + 1) : i \in 1..n \/ i = n + 1
    BY <2>1
  <2> QED BY <2>1, <2>2, Zenon
<1>7. \A i \in 1..Len(tasks'[p]) :
        \/ i \in 1..Len(tasks[p]) /\ tasks'[p][i] = tasks[p][i]
        \/ tasks'[p][i].op = o /\ tasks'[p][i].c = c
  BY <1>2, <1>5, <1>6, Zenon
<1>8. /\ t.op = "start" => /\ NoSync(Append(s, t)) <=> NoSync(s)
                           /\ OneSync(s) => OneSync(Append(s, t))
      /\ t.op # "start" /\ NoSync(s) => OneSync(Append(s, t))
      /\ \A d : CleanIn(s, d) => CleanIn(Append(s, t), d)
      /\ t.op = "clean" => CleanIn(Append(s, t), t.c)
  BY <1>3, PushSync, Zenon
<1> QED BY <1>2, <1>5, <1>7, <1>8, Zenon DEF Pushed

LEMMA EnqueueTasks ==
  ASSUME IInv, PerThread, NEW p \in Polls, NEW o \in {"start", "shut", "clean", "acceptor"},
         NEW c \in Nat, Enqueue(p, o, c), p = Main <=> o = "acceptor", p # Main => c \in Conns
  PROVE  \A q \in Polls : \A i \in 1..Len(tasks'[q]) :
           /\ q = Main <=> tasks'[q][i].op = "acceptor"
           /\ q # Main => tasks'[q][i].c \in Conns
<1>1. TypeOK
  BY DEF IInv, NoStaleEntry
<1>2. /\ \A q \in Polls : q # p => tasks'[q] = tasks[q]
      /\ \A i \in 1..Len(tasks'[p]) :
           \/ i \in 1..Len(tasks[p]) /\ tasks'[p][i] = tasks[p][i]
           \/ tasks'[p][i].op = o /\ tasks'[p][i].c = c
  <2>1. Pushed(p, o, c)
    BY <1>1, EnqueueProps
  <2> QED BY <2>1, Zenon DEF Pushed
<1> SUFFICES ASSUME NEW q \in Polls, NEW i \in 1..Len(tasks'[q])
             PROVE  /\ q = Main <=> tasks'[q][i].op = "acceptor"
                    /\ q # Main => tasks'[q][i].c \in Conns
  BY Zenon
<1>3. CASE tasks'[q] = tasks[q]
  BY <1>3, OldTasks, Zenon
<1>4. CASE q = p /\ i \in 1..Len(tasks[p]) /\ tasks'[p][i] = tasks[p][i]
  BY <1>4, OldTasks, Zenon
<1>5. CASE q = p /\ tasks'[p][i].op = o /\ tasks'[p][i].c = c
  BY <1>5, Zenon
<1> QED BY <1>2, <1>3, <1>4, <1>5, Zenon

\* What is waited for stays the same ...
LEMMA WaitingSame ==
  ASSUME IInv, PerThread, UNCHANGED <<pending, cpc>>,
         \A q \in Polls : /\ NoSync(tasks'[q]) <=> NoSync(tasks[q])
                          /\ OneSync(tasks[q]) => OneSync(tasks'[q])
                          /\ closing'[q].sync <=> closing[q].sync
  PROVE  Waiting'
<1>1. Waiting
  BY Zenon DEF IInv
<1>2. ~pending' => \A p \in Polls : NoSync(tasks'[p]) /\ ~closing'[p].sync
  BY <1>1, Zenon DEF Waiting
<1>3. /\ \A p \in Polls : OneSync(tasks'[p])
      /\ \A p, q \in Polls : ~NoSync(tasks'[p]) /\ ~NoSync(tasks'[q]) => p = q
  BY <1>1, Zenon DEF Waiting
<1>4. /\ \A p, q \in Polls : closing'[p].sync => NoSync(tasks'[q])
      /\ \A p, q \in Polls : closing'[p].sync /\ closing'[q].sync => p = q
  BY <1>1, Zenon DEF Waiting
<1>5. pending' /\ cpc' \in {"snapshot", "clear"} =>
        \A p \in Subs : NoSync(tasks'[p]) /\ ~closing'[p].sync
  BY <1>1, MainIsPoll, Zenon DEF Waiting
<1>6. pending' => cpc' \in {"snapshot", "shutConns", "clear", "cleanConns"}
  BY <1>1, Zenon DEF Waiting
<1> QED BY <1>2, <1>3, <1>4, <1>5, <1>6, Zenon DEF Waiting

\* ... or the closer posts a closure ...
LEMMA WaitingPosted ==
  ASSUME IInv, PerThread, ~pending, pending', closing' = closing,
         NEW p \in Polls, NEW o \in {"shut", "clean", "acceptor"}, NEW c \in Nat, Enqueue(p, o, c),
         cpc' \in {"snapshot", "shutConns", "clear", "cleanConns"},
         p = Main \/ cpc' \notin {"snapshot", "clear"}
  PROVE  Waiting'
<1>1. Waiting /\ TypeOK
  BY Zenon DEF IInv, NoStaleEntry
<1>2. \A q \in Polls : NoSync(tasks[q]) /\ ~closing[q].sync
  BY <1>1, Zenon DEF Waiting
<1>3. /\ \A q \in Polls : q # p => tasks'[q] = tasks[q]
      /\ OneSync(tasks'[p])
  <2>1. o \in {"start", "shut", "clean", "acceptor"} /\ o # "start"
    OBVIOUS
  <2>2. Pushed(p, o, c)
    BY <1>1, <2>1, EnqueueProps, Zenon
  <2>3. \A q \in Polls : q # p => tasks'[q] = tasks[q]
    BY <2>2, Zenon DEF Pushed
  <2>4. OneSync(tasks'[p])
    BY <1>2, <2>1, <2>2, Zenon DEF Pushed
  <2> QED BY <2>3, <2>4, Zenon
<1>4. \A q \in Polls : q # p => NoSync(tasks'[q])
  BY <1>2, <1>3, Zenon
<1>5. Main \notin Subs /\ Subs \subseteq Polls
  BY MainIsPoll
<1> QED BY <1>1, <1>2, <1>3, <1>4, <1>5, Zenon DEF Waiting

LEMMA StartConnectionIInv == IInv /\ StartConnection => IInv'
<1> SUFFICES ASSUME IInv, StartConnection PROVE IInv'
  OBVIOUS
<1> PICK c, p : c = connecting /\ p = conn[connecting].poll
  BY Zenon
<1>1. /\ mpc = "dispatch" /\ c # 0 /\ connecting' = 0 /\ TypeOK
      /\ mpc' = IF OneThread THEN "callback" ELSE mpc
      /\ UNCHANGED <<mode, started, listening, batch, next, conns, loop, shut,
                     closing, how, cpc, todo, pending>>
  BY ZenonT(60) DEF StartConnection, exitVars, IInv, NoStaleEntry
<1>0. /\ mpc' \in MainPc /\ mpc' \in {"dispatch", "callback"}
      /\ (mpc' = "callback" => OneThread') /\ (PerThread => mpc' = mpc)
  BY <1>1, Zenon DEF MainPc, PerThread, OneThread
<1>2. c \in Conns /\ c \in Nat /\ conn[c].st = "new"
  BY <1>1, ConnsType, SMTT(30) DEF TypeOK, Conns, IInv, MainPhases
<1>3. p \in Polls
  <2>1. conn[c] \in ConnRecord
    BY <1>1, <1>2, ConnsType, ElementOfSeq, Zenon DEF Conns
  <2> QED BY <2>1, Zenon DEF ConnRecord
<1>4. \/ (p = Main \/ loop[p] = "init") /\ SetState(c, "up") /\ tasks' = tasks
      \/ p # Main /\ loop[p] # "init" /\ Enqueue(p, "start", c) /\ conn' = conn
  BY Zenon DEF StartConnection
<1>5. SameFds
  <2>1. CASE SetState(c, "up")
    BY <1>1, <1>2, <2>1, SetStateSame, Zenon DEF HasFd
  <2>2. CASE conn' = conn
    BY <1>1, <2>2, SameSame, Zenon
  <2> QED BY <1>4, <2>1, <2>2
<1>6. Older /\ conn' \in Seq(ConnRecord) /\ Len(conn') = Len(conn) /\ Len(conn) <= Len(conn')
      /\ Conns' = Conns
  <2>1. Older
    BY <1>5 DEF SameFds
  <2>2. Len(conn) \in Nat
    BY <1>1, ConnsType
  <2> QED BY <2>1, <2>2, SMTT(30) DEF Older, Conns
<1>7. tasks' \in [Polls -> Seq(Closures)]
  BY <1>1, <1>2, <1>3, <1>4, EnqueueProps, Zenon DEF TypeOK, Pushed
<1>8. TypeOK'
  <2>1. 0 \in 0..Len(conn')
    BY <1>1, <1>6, ConnsType
  <2> QED BY <1>0, <1>1, <1>6, <1>7, <2>1, ConnTypes, Zenon DEF TypeOK
<1>9. NoStaleEntry' /\ Handles'
  BY <1>1, <1>5, <1>6, <1>8, SameEntries, HandlesKept, Zenon
<1>10. MainPhases'
  BY <1>0, <1>1, Zenon DEF MainPhases
<1>11. ASSUME PerThread PROVE Queues' /\ Waiting' /\ CloserPhases' /\ Ended' /\ Accounted'
  <2>1. ~AcceptorDown /\ ~Stopping /\ \A q \in Polls : ~shut[q]
    BY <1>1, <1>11, NotStopping, Zenon
  <2>2. cpc \notin {"cleanConns", "stopMain", "done"} /\ mpc' = mpc
    BY <1>0, <1>1, <1>11, <2>1 DEF AcceptorDown
  <2>3. CloserPhases'
    BY <1>1, <1>11, <2>1, <2>2, Zenon DEF IInv, CloserPhases, AcceptorDown, Stopping
  <2>4. Queues'
    <3>1. CASE tasks' = tasks
      BY <1>1, <1>6, <1>11, <3>1, OlderQueues, OldTasks, Zenon
    <3>2. CASE p # Main /\ Enqueue(p, "start", c)
      BY <1>1, <1>2, <1>3, <1>6, <1>11, <3>2, OlderQueues, EnqueueTasks, ZenonT(60)
    <3> QED BY <1>4, <3>1, <3>2
  <2>5. Waiting'
    <3>1. CASE tasks' = tasks
      BY <1>1, <1>11, <3>1, WaitingKept, Zenon
    <3>2. CASE Enqueue(p, "start", c)
      <4>1. /\ \A q \in Polls : q # p => tasks'[q] = tasks[q]
            /\ NoSync(tasks'[p]) <=> NoSync(tasks[p])
            /\ OneSync(tasks[p]) => OneSync(tasks'[p])
        BY <1>1, <1>2, <1>3, <3>2, EnqueueProps, Zenon DEF Pushed
      <4>2. \A q \in Polls : /\ NoSync(tasks'[q]) <=> NoSync(tasks[q])
                             /\ OneSync(tasks[q]) => OneSync(tasks'[q])
        BY <4>1, Zenon
      <4> QED BY <1>1, <1>11, <4>2, WaitingSame, Zenon
    <3> QED BY <1>4, <3>1, <3>2
  <2>6. Ended'
    BY <1>1, <1>11, <2>1, <2>2, ZenonT(60) DEF IInv, Ended
  <2>7. \A q \in Polls : \A d : CleanIn(tasks[q], d) => CleanIn(tasks'[q], d)
    <3>1. CASE tasks' = tasks
      BY <3>1
    <3>2. CASE Enqueue(p, "start", c)
      <4>1. /\ \A q \in Polls : q # p => tasks'[q] = tasks[q]
            /\ \A d : CleanIn(tasks[p], d) => CleanIn(tasks'[p], d)
        BY <1>1, <1>2, <1>3, <3>2, EnqueueProps, Zenon DEF Pushed
      <4> QED BY <4>1, Zenon
    <3> QED BY <1>4, <3>1, <3>2, Zenon
  <2>8. \A d \in Conns : conn'[d].st = "closing" => \E q \in Polls : closing'[q].c = d
    BY <1>1, <1>5, <1>11, Zenon DEF IInv, Accounted, SameFds
  <2>9. Accounted'
    BY <1>1, <1>6, <1>11, <2>7, <2>8, AccountedStep, ZenonT(60)
  <2> QED BY <2>3, <2>4, <2>5, <2>6, <2>9, Zenon
<1>12. ASSUME OneThread PROVE Alone'
  <2>1. Alone
    BY <1>12, Zenon DEF IInv
  <2>2. p = Main /\ tasks' = tasks /\ closing[Main].c = 0
    BY <1>1, <1>2, <1>4, <2>1, Zenon DEF Alone
  <2>3. closing'[Main].c = 0
    BY <1>1, <2>2
  <2>4. \A d \in Conns : conn'[d].poll = Main
    BY <1>6, <2>1, Zenon DEF Older, Alone
  <2>5. \A d \in Conns : conn'[d].st # "closed" => conns'[conn'[d].fd] = d
    BY <1>1, <1>5, <2>1, Zenon DEF SameFds, Older, Alone
  <2>6. \A d \in Conns : conn'[d].st = "closing" => closing'[Main].c = d
    BY <1>1, <1>5, <2>1, Zenon DEF SameFds, Alone
  <2>7. mpc' = "callback" /\ (cpc' = "done" => EndInCallback)
    BY <1>1, <1>12, <2>1, Zenon DEF Alone
  <2> QED BY <1>1, <1>6, <2>1, <2>2, <2>3, <2>4, <2>5, <2>6, <2>7, ZenonT(60) DEF Alone
<1>13. InCleanup'
  BY <1>1, <1>5, CleanupKept, Zenon DEF SameFds
<1> QED BY <1>1, <1>9, <1>10, <1>11, <1>12, <1>13, Zenon DEF IInv, PerThread, OneThread

-----------------------------------------------------------------------------
(* The poll threads.                                                       *)

LEMMA SubEnterIInv == ASSUME IInv, NEW p \in Subs, SubEnter(p) PROVE IInv'
<1>1. /\ PerThread /\ ~OneThread /\ mpc # "init" /\ loop[p] = "init" /\ TypeOK /\ p \in Polls
      /\ loop' = [loop EXCEPT ![p] = "run"]
      /\ UNCHANGED <<mode, started, mpc, listening, batch, connecting, next, conn, conns,
                     shut, tasks, closing, how, cpc, todo, pending>>
  BY MainIsPoll, Zenon DEF SubEnter, SubPolls, PerThread, OneThread, mainVars, exitVars, IInv, NoStaleEntry
<1>2. loop' \in [Polls -> {"init", "run", "exited"}]
  BY <1>1 DEF TypeOK
<1>3. \A q \in Polls : loop'[q] = "exited" => loop[q] = "exited"
  BY <1>1, Zenon DEF TypeOK
<1>4. TypeOK'
  BY <1>1, <1>2, ZenonT(60) DEF TypeOK, MainPc, Conns
<1>5. MainPhases'
  BY <1>1, Zenon DEF IInv, MainPhases
<1>6. cpc \notin {"stopMain", "done"}
  BY <1>1 DEF IInv, CloserPhases
<1>7. CloserPhases'
  BY <1>1, <1>6, Zenon DEF IInv, CloserPhases, AcceptorDown, Stopping
<1>8. Ended'
  BY <1>1, <1>3, Zenon DEF IInv, Ended, Stopping
<1> QED BY <1>1, <1>4, <1>5, <1>7, <1>8, ControlIInv, ZenonT(60)

LEMMA LoopExitIInv == ASSUME IInv, NEW p \in Polls, LoopExit(p) PROVE IInv'
<1>1. /\ PerThread /\ ~OneThread /\ loop[p] = "run" /\ closing[p] = NotClosing /\ TypeOK
      /\ p = Main => mpc = "loop"
      /\ shut[p] /\ tasks[p] = <<>>
      /\ loop' = [loop EXCEPT ![p] = "exited"]
      /\ mpc' = IF p = Main THEN "returned" ELSE mpc
      /\ UNCHANGED <<mode, started, listening, batch, connecting, next, conn, conns,
                     shut, tasks, closing, how, cpc, todo, pending>>
  BY Zenon DEF LoopExit, Free, PerThread, OneThread, exitVars, IInv, NoStaleEntry
<1>2. loop' \in [Polls -> {"init", "run", "exited"}]
  BY <1>1 DEF TypeOK
<1>3. \A q \in Polls : q = p \/ loop'[q] = loop[q]
  BY <1>1, Zenon DEF TypeOK
<1>4. loop'[p] = "exited"
  BY <1>1, ZenonT(60) DEF TypeOK
<1>5. mpc' = mpc \/ (mpc = "loop" /\ mpc' = "returned")
  BY <1>1, Zenon
<1>6. mpc # "init"
  BY <1>1, ZenonT(60) DEF IInv, MainPhases
<1>7. TypeOK'
  <2>1. mpc' \in MainPc
    BY <1>1 DEF TypeOK, MainPc
  <2> QED BY <1>1, <1>2, <2>1, Zenon DEF TypeOK, Conns
<1>8. MainPhases'
  BY <1>1, <1>5, <1>6, Zenon DEF IInv, MainPhases, OneThread
<1>9. CloserPhases'
  <2>1. CloserPhases
    BY <1>1 DEF IInv
  <2>2. (AcceptorDown' <=> AcceptorDown) /\ (Stopping' <=> Stopping)
    BY <1>1, Zenon DEF AcceptorDown, Stopping
  <2>3. \A q \in Subs : loop[q] = "exited" => loop'[q] = "exited"
    BY <1>3, <1>4, MainIsPoll, Zenon
  <2>4. /\ cpc' # "idle" => ~started' /\ mpc' \notin {"init", "failed"}
        /\ AcceptorDown => ~listening' /\ connecting' = 0 /\ mpc' \in {"loop", "returned"}
    BY <1>1, <1>5, <2>1, Zenon DEF CloserPhases
  <2> QED BY <1>1, <2>1, <2>2, <2>3, <2>4, Zenon DEF CloserPhases
<1>10. Ended'
  <2>1. \A q \in Polls : shut[q] => ~started /\ (Stopping \/ (cpc = "idle" /\ mpc' \in {"failed", "returned"}))
    BY <1>1, <1>5, Zenon DEF IInv, Ended
  <2>2. shut[Main] => cpc = "done" \/ (cpc = "idle" /\ mpc' = "returned")
    BY <1>1, <1>5, Zenon DEF IInv, Ended
  <2>3. \A q \in Polls : loop'[q] = "exited" => shut[q] /\ tasks[q] = <<>> /\ closing[q] = NotClosing
    BY <1>1, <1>3, Zenon DEF IInv, Ended
  <2> QED BY <1>1, <2>1, <2>2, <2>3, Zenon DEF Ended, Stopping
<1> QED BY <1>1, <1>7, <1>8, <1>9, <1>10, ControlIInv, ZenonT(60)

\* A Conn is put in the hands of a thread that was in no other do_cleanup_.
LEMMA BeginCloseProps ==
  ASSUME IInv, NEW p \in Polls, NEW c \in Conns, NEW s \in BOOLEAN, HasFd(c),
         closing[p] = NotClosing, BeginClose(p, c, s)
  PROVE  /\ Older
         /\ closing' \in [Polls -> [c : 0..Len(conn'), sync : BOOLEAN]]
         /\ conn'[c].st = "closing" /\ \A d \in Conns : d # c => conn'[d].st = conn[d].st
         /\ closing'[p].c = c /\ (closing'[p].sync <=> s)
         /\ \A q \in Polls : q # p => closing'[q] = closing[q]
         /\ InCleanup'
<1>1. TypeOK /\ "closing" \in ConnState /\ Len(conn) \in Nat
  BY ConnsType, Zenon DEF IInv, NoStaleEntry, ConnState
<1>2. SetState(c, "closing") /\ closing' = [closing EXCEPT ![p] = [c |-> c, sync |-> s]]
  BY DEF BeginClose
<1>3. Older
  BY <1>1, <1>2, SetStateOlder
<1>4. conn'[c].st = "closing" /\ \A d \in Conns : d # c => conn'[d].st = conn[d].st
  BY <1>1, <1>2, SetStateProps, ZenonT(60)
<1>5. closing \in [Polls -> [c : 0..Len(conn), sync : BOOLEAN]] /\ Len(conn') = Len(conn)
  BY <1>1, <1>3, Zenon DEF TypeOK, Older
<1>6. [c |-> c, sync |-> s] \in [c : 0..Len(conn), sync : BOOLEAN]
  BY <1>1 DEF Conns
<1>7. /\ closing' \in [Polls -> [c : 0..Len(conn), sync : BOOLEAN]]
      /\ closing'[p] = [c |-> c, sync |-> s]
      /\ \A q \in Polls : q # p => closing'[q] = closing[q]
  BY <1>2, <1>5, <1>6, ZenonT(60)
<1>8. closing'[p].c = c /\ (closing'[p].sync <=> s)
  BY <1>7, SMTT(30)
<1>9. \A q \in Polls : closing[q].c # 0 => closing[q].c \in Conns
  BY <1>1, ConnsType, SMTT(30) DEF TypeOK, Conns
<1>10. \A q \in Polls : closing[q].c # 0 => conn[closing[q].c].st = "closing" /\ closing[q].c # c
  BY Zenon DEF IInv, InCleanup, HasFd
<1>11. InCleanup'
  <2>1. ASSUME NEW q \in Polls, closing'[q].c # 0 PROVE conn'[closing'[q].c].st = "closing"
    <3>1. CASE q = p
      BY <1>4, <1>8, <3>1, Zenon
    <3>2. CASE q # p
      BY <1>4, <1>7, <1>9, <1>10, <2>1, <3>2, ZenonT(60)
    <3> QED BY <3>1, <3>2
  <2>2. ASSUME NEW q \in Polls, NEW r \in Polls, closing'[q].c # 0, closing'[q].c = closing'[r].c
        PROVE  q = r
    <3>1. CASE q = p
      BY <1>7, <1>8, <1>10, <2>2, <3>1, Zenon
    <3>2. CASE r = p
      BY <1>7, <1>8, <1>10, <2>2, <3>2, Zenon
    <3>3. CASE q # p /\ r # p
      BY <1>7, <2>2, <3>3, ZenonT(60) DEF IInv, InCleanup
    <3> QED BY <3>1, <3>2, <3>3
  <2> QED BY <2>1, <2>2, ZenonT(60) DEF InCleanup
<1> QED BY <1>3, <1>4, <1>5, <1>7, <1>8, <1>11, ZenonT(60)

LEMMA OlderTypes ==
  ASSUME TypeOK, Older
  PROVE  /\ conns' = conns => conns' \in [Fds -> 0..Len(conn')]
         /\ closing' = closing => closing' \in [Polls -> [c : 0..Len(conn'), sync : BOOLEAN]]
         /\ connecting' = connecting => connecting' \in 0..Len(conn')
         /\ todo' = todo => todo' \subseteq Conns'
         /\ conn' \in Seq([fd : Fds, poll : Polls, st : ConnState])
         /\ Conns' = Conns
<1>1. conn' \in Seq(ConnRecord) /\ Len(conn') = Len(conn) /\ Len(conn) \in Nat
  BY ConnsType, Zenon DEF Older
<1>2. Len(conn) <= Len(conn')
  BY <1>1
<1> QED BY <1>1, <1>2, ConnTypes, Zenon DEF Conns

\* An entry stays in order while its Conn is not closed.
LEMMA OpenEntries ==
  ASSUME IInv, TypeOK', Older, conns' = conns,
         \A d \in Conns : conn'[d].st = "closed" => conn[d].st = "closed"
  PROVE  NoStaleEntry'
<1>1. \A f \in Fds : conns[f] # 0 => conns[f] \in Conns
  BY EntriesType, Zenon DEF IInv, NoStaleEntry
<1> QED BY <1>1, ZenonT(60) DEF IInv, NoStaleEntry, Older

LEMMA ConnEndsIInv == ASSUME IInv, NEW c \in Conns, ConnEnds(c) PROVE IInv'
<1> PICK p : p = conn[c].poll
  BY Zenon
<1>1. /\ closing[p] = NotClosing
      /\ IF p = Main THEN mpc \in {"loop", "callback"} ELSE loop[p] = "run"
      /\ conn[c].st \in {"up", "half"} /\ BeginClose(p, c, FALSE)
      /\ UNCHANGED <<mode, started, mpc, listening, batch, connecting, next, conns, loop, shut,
                     tasks, how, cpc, todo, pending>>
  BY Zenon DEF ConnEnds, Free, InConnCallback, mainVars, exitVars
<1>2. TypeOK /\ p \in Polls /\ c # 0
  <2>1. TypeOK
    BY DEF IInv, NoStaleEntry
  <2>2. conn[c] \in ConnRecord
    BY <2>1, ConnsType, ElementOfSeq, Zenon DEF Conns
  <2> QED BY <2>1, <2>2, ConnsType, Zenon DEF ConnRecord
<1>3. HasFd(c) /\ conn[c].st # "new"
  BY <1>1 DEF HasFd
<1>4. /\ Older
      /\ closing' \in [Polls -> [c : 0..Len(conn'), sync : BOOLEAN]]
      /\ conn'[c].st = "closing" /\ \A d \in Conns : d # c => conn'[d].st = conn[d].st
      /\ closing'[p].c = c /\ ~closing'[p].sync
      /\ \A q \in Polls : q # p => closing'[q] = closing[q]
      /\ InCleanup'
  <2>1. FALSE \in BOOLEAN
    OBVIOUS
  <2> QED BY <1>1, <1>2, <1>3, <2>1, BeginCloseProps, Zenon
<1>5. TypeOK' /\ Conns' = Conns
  BY <1>1, <1>2, <1>4, OlderTypes, Zenon DEF TypeOK
<1>6. \A d \in Conns : conn'[d].st = "closed" => conn[d].st = "closed"
  BY <1>4, Zenon
<1>7. NoStaleEntry' /\ Handles'
  BY <1>1, <1>4, <1>5, <1>6, OpenEntries, HandlesKept, Zenon
<1>8. MainPhases'
  <2>1. connecting # 0 => connecting \in Conns /\ connecting # c
    <3>1. connecting # 0 => connecting \in Conns
      BY <1>2, ConnsType, SMTT(30) DEF TypeOK, Conns
    <3>2. connecting # 0 => conn[connecting].st = "new"
      BY Zenon DEF IInv, MainPhases
    <3> QED BY <1>3, <3>1, <3>2, ZenonT(60)
  <2> QED BY <1>1, <1>4, <2>1, Zenon DEF IInv, MainPhases, OneThread
<1>9. closing[p].c = 0 /\ ~closing[p].sync
  BY <1>1, SMTT(30) DEF NotClosing
<1>10. ASSUME PerThread PROVE Queues' /\ Waiting' /\ CloserPhases' /\ Ended' /\ Accounted'
  <2>1. p # Main
    BY <1>10, MainIsPoll, Zenon DEF IInv, Queues
  <2>2. Queues'
    BY <1>1, <1>4, <1>10, <2>1, OlderQueues, OldTasks, MainIsPoll, Zenon
  <2>3. \A q \in Polls : closing'[q].sync <=> closing[q].sync
    BY <1>4, <1>9, Zenon
  <2>4. Waiting'
    BY <1>1, <1>10, <2>3, WaitingSame, ZenonT(60)
  <2>5. CloserPhases'
    BY <1>1, <1>10, Zenon DEF IInv, CloserPhases, AcceptorDown, Stopping
  <2>6. Ended'
    <3>1. Ended
      BY <1>10, Zenon DEF IInv
    <3>2. \A q \in Polls : loop[q] = "exited" => closing'[q] = closing[q]
      BY <1>1, <1>4, <2>1, ZenonT(60)
    <3> QED BY <1>1, <3>1, <3>2, Zenon DEF Ended, Stopping
  <2>7. \A d \in Conns : conn'[d].st = "closing" => \E q \in Polls : closing'[q].c = d
    <3> SUFFICES ASSUME NEW d \in Conns, conn'[d].st = "closing"
                 PROVE  \E q \in Polls : closing'[q].c = d
      BY Zenon
    <3>1. CASE d = c
      BY <1>2, <1>4, <3>1, Zenon
    <3>2. CASE d # c
      <4>1. PICK q \in Polls : closing[q].c = d
        BY <1>4, <1>10, <3>2, ZenonT(60) DEF IInv, Accounted
      <4>2. d # 0
        BY <1>2, ConnsType, Zenon
      <4> QED BY <1>4, <1>9, <4>1, <4>2, Zenon
    <3> QED BY <3>1, <3>2, Zenon
  <2>8. Accounted'
    BY <1>1, <1>4, <1>10, <2>7, AccountedStep, Zenon
  <2> QED BY <2>2, <2>4, <2>5, <2>6, <2>8, Zenon
<1>11. ASSUME OneThread PROVE Alone'
  <2>1. Alone
    BY <1>11, Zenon DEF IInv
  <2>2. p = Main /\ mpc \in {"loop", "callback"}
    BY <1>1, <2>1 DEF Alone
  <2>3. \A d \in Conns : conn'[d].poll = Main /\ conn'[d].fd = conn[d].fd
    BY <1>4, <2>1, ZenonT(60) DEF Older, Alone
  <2>4. \A d \in Conns : conn[d].st # "closed"  => conns[conn[d].fd] = d
    BY <2>1, Zenon DEF Alone
  <2>5. \A d \in Conns : conn'[d].st # "closed" => conns'[conn'[d].fd] = d
    <3>1. conn[c].st # "closed"
      BY <1>3 DEF HasFd
    <3> QED BY <1>1, <1>4, <2>3, <2>4, <3>1, ZenonT(60)
  <2>6. \A d \in Conns : conn'[d].st = "closing" => closing'[Main].c = d
    <3>1. \A d \in Conns : conn[d].st # "closing"
      BY <1>2, <1>9, <2>1, <2>2, ConnsType, Zenon DEF Alone
    <3> QED BY <1>4, <2>2, <3>1, Zenon
  <2>7. \A q \in Subs : closing'[q] = NotClosing
    <3>1. \A q \in Subs : q \in Polls /\ q # p
      BY <2>2, MainIsPoll
    <3>2. \A q \in Subs : closing[q] = NotClosing
      BY <2>1, Zenon DEF Alone
    <3> QED BY <1>4, <3>1, <3>2, Zenon
  <2>8. /\ closing'[Main].c # 0 => /\ mpc' \in {"loop", "callback"}
                                   /\ conn'[closing'[Main].c].st = "closing"
    BY <1>1, <1>4, <2>2, Zenon
  <2> QED BY <1>1, <1>5, <2>1, <2>3, <2>5, <2>6, <2>7, <2>8, ZenonT(60) DEF Alone
<1> QED BY <1>1, <1>4, <1>7, <1>8, <1>10, <1>11, Zenon DEF IInv, PerThread, OneThread

LEMMA FinishCloseIInv == ASSUME IInv, NEW p \in Polls, FinishClose(p) PROVE IInv'
<1> PICK c : c = closing[p].c
  BY Zenon
<1>1. /\ c # 0 /\ SetState(c, "closed") /\ conns' = [conns EXCEPT ![conn[c].fd] = 0]
      /\ closing' = [closing EXCEPT ![p] = NotClosing]
      /\ pending' = (pending /\ ~closing[p].sync)
      /\ UNCHANGED <<mode, started, mpc, listening, batch, connecting, next, loop, shut,
                     tasks, how, cpc, todo>>
  BY Zenon DEF FinishClose, OnConnClose, mainVars
<1>2. TypeOK /\ c \in Conns /\ "closed" \in ConnState
  <2>1. TypeOK
    BY Zenon DEF IInv, NoStaleEntry
  <2>2. \A q \in Polls : closing[q].c # 0 => closing[q].c \in Conns
    BY <2>1, ConnsType, SMTT(30) DEF TypeOK, Conns
  <2>3. "closed" \in ConnState
    BY Zenon DEF ConnState
  <2> QED BY <1>1, <2>1, <2>2, <2>3, Zenon
<1>3. conn[c].st = "closing" /\ ~HasFd(c)
  <2>1. conn[c].st = "closing"
    BY <1>1, Zenon DEF IInv, InCleanup
  <2> QED BY <2>1 DEF HasFd
<1>4. /\ Older
      /\ conn'[c].st = "closed" /\ \A d \in Conns : d # c => conn'[d].st = conn[d].st
  <2>1. "closed" \notin {"new", "up", "half"}
    OBVIOUS
  <2> QED BY <1>1, <1>2, <2>1, SetStateProps, SetStateOlder, Zenon
<1> PICK f : f = conn[c].fd
  BY Zenon
<1>5. f \in Fds
  <2>1. conn[c] \in ConnRecord
    BY <1>2, ConnsType, ElementOfSeq, Zenon DEF Conns
  <2> QED BY <2>1, Zenon DEF ConnRecord
<1>6. /\ conns' \in [Fds -> 0..Len(conn')] /\ conns'[f] = 0
      /\ \A g \in Fds : g # f => conns'[g] = conns[g]
  <2>1. 0 \in 0..Len(conn) /\ Len(conn') = Len(conn)
    BY <1>2, <1>4, ConnsType, SMTT(30) DEF Older
  <2>2. conns \in [Fds -> 0..Len(conn)]
    BY <1>2, Zenon DEF TypeOK
  <2> QED BY <1>1, <1>5, <2>1, <2>2, ZenonT(60)
<1>7. /\ closing' \in [Polls -> [c : 0..Len(conn'), sync : BOOLEAN]]
      /\ closing'[p] = NotClosing /\ \A q \in Polls : q # p => closing'[q] = closing[q]
  <2>1. NotClosing \in [c : 0..Len(conn), sync : BOOLEAN] /\ Len(conn') = Len(conn)
    BY <1>2, <1>4, ConnsType, SMTT(30) DEF NotClosing, Older
  <2>2. closing \in [Polls -> [c : 0..Len(conn), sync : BOOLEAN]]
    BY <1>2, Zenon DEF TypeOK
  <2> QED BY <1>1, <2>1, <2>2, ZenonT(60)
<1>8. closing'[p].c = 0 /\ ~closing'[p].sync
  BY <1>7 DEF NotClosing
<1>9. TypeOK' /\ Conns' = Conns
  <2>1. {started, listening, pending}' \subseteq BOOLEAN
    BY <1>1, <1>2 DEF TypeOK
  <2> QED BY <1>1, <1>2, <1>4, <1>6, <1>7, <2>1, OlderTypes, ZenonT(60) DEF TypeOK
<1>10. NoStaleEntry'
  <2> SUFFICES ASSUME NEW g \in Fds, conns'[g] # 0
               PROVE  conn'[conns'[g]].fd = g /\ conn'[conns'[g]].st # "closed"
    BY <1>9, Zenon DEF NoStaleEntry
  <2>1. g # f /\ conns'[g] = conns[g] /\ conns[g] # 0
    BY <1>6, ZenonT(60)
  <2>2. conns[g] \in Conns
    BY <1>2, <2>1, ConnsType, SMTT(30) DEF TypeOK, Conns
  <2>3. conn[conns[g]].fd = g /\ conn[conns[g]].st # "closed"
    BY <2>1, Zenon DEF IInv, NoStaleEntry
  <2> QED BY <1>4, <2>1, <2>2, <2>3, Zenon DEF Older
<1>11. Handles'
  BY <1>1, <1>4, HandlesKept, Zenon
<1>12. MainPhases'
  <2>1. connecting # 0 => connecting \in Conns
    BY <1>2, ConnsType, SMTT(30) DEF TypeOK, Conns
  <2>2. connecting # 0 => connecting # c
    BY <1>3, Zenon DEF IInv, MainPhases
  <2> QED BY <1>1, <1>4, <2>1, <2>2, ZenonT(60) DEF IInv, MainPhases, OneThread
<1>13. \A q \in Polls : q # p => closing[q].c # c
  BY <1>1, ZenonT(60) DEF IInv, InCleanup
<1>14. \A q \in Polls : closing[q].c # 0 => closing[q].c \in Conns
  BY <1>2, ConnsType, SMTT(30) DEF TypeOK, Conns
<1>15. InCleanup'
  <2>1. ASSUME NEW q \in Polls, closing'[q].c # 0
        PROVE  q # p /\ closing'[q] = closing[q] /\ closing[q].c # c /\ closing[q].c \in Conns
    BY <1>7, <1>8, <1>13, <1>14, <2>1, Zenon
  <2>2. ASSUME NEW q \in Polls, closing'[q].c # 0 PROVE conn'[closing'[q].c].st = "closing"
    <3>1. conn[closing[q].c].st = "closing"
      BY <2>1, <2>2, Zenon DEF IInv, InCleanup
    <3> QED BY <1>4, <2>1, <2>2, <3>1, Zenon
  <2>3. ASSUME NEW q \in Polls, NEW r \in Polls, closing'[q].c # 0, closing'[q].c = closing'[r].c
        PROVE  q = r
    <3>1. closing[q].c # 0 /\ closing[q].c = closing[r].c
      BY <2>1, <2>3, Zenon
    <3> QED BY <3>1, Zenon DEF IInv, InCleanup
  <2> QED BY <2>2, <2>3, Zenon DEF InCleanup
<1>16. ASSUME PerThread PROVE Queues' /\ Waiting' /\ CloserPhases' /\ Ended' /\ Accounted'
  <2>1. p # Main /\ p \in Subs
    <3>1. closing[Main].c = 0
      BY <1>16 DEF IInv, Queues, NotClosing
    <3> QED BY <1>1, <3>1, MainIsPoll, Zenon
  <2>2. Queues'
    <3>1. closing'[Main] = closing[Main]
      BY <1>7, <2>1, MainIsPoll, Zenon
    <3> QED BY <1>1, <1>4, <1>16, <3>1, OlderQueues, OldTasks, Zenon
  <2>3. Waiting
    BY <1>16 DEF IInv
  <2>4. closing[p].sync => \A q \in Polls : NoSync(tasks'[q]) /\ ~closing'[q].sync
    BY <1>1, <1>7, <1>8, <2>3, Zenon DEF Waiting
  <2>5. ~closing[p].sync => (pending' <=> pending) /\ \A q \in Polls : closing'[q].sync <=> closing[q].sync
    BY <1>1, <1>7, <1>8, Zenon
  <2>6. closing[p].sync => cpc \notin {"snapshot", "clear"} /\ pending /\ ~pending'
    BY <1>1, <2>1, <2>3, Zenon DEF Waiting
  <2>7. Waiting'
    <3>1. CASE closing[p].sync
      <4>1. \A q \in Polls : NoSync(tasks'[q]) /\ ~closing'[q].sync /\ OneSync(tasks'[q])
        BY <1>1, <2>3, <2>4, <3>1, Zenon DEF Waiting
      <4> QED BY <2>6, <3>1, <4>1, Zenon DEF Waiting
    <3>2. CASE ~closing[p].sync
      <4>1. pending' = pending
        BY <1>1, <1>2, <3>2, Zenon DEF TypeOK
      <4> QED BY <1>1, <1>16, <2>5, <3>2, <4>1, WaitingSame, ZenonT(60)
    <3> QED BY <3>1, <3>2
  <2>8. AcceptorDown' => AcceptorDown
    BY <1>1, <2>5, <2>6, ZenonT(60) DEF AcceptorDown
  <2>9. CloserPhases'
    <3>1. CloserPhases
      BY <1>16, Zenon DEF IInv
    <3>2. (\A g \in Fds : conns[g] = 0) => \A g \in Fds : conns'[g] = 0
      BY <1>6, Zenon
    <3>3. Stopping' <=> Stopping
      BY <1>1, Zenon DEF Stopping
    <3> QED BY <1>1, <2>8, <3>1, <3>2, <3>3, Zenon DEF CloserPhases
  <2>10. Ended'
    <3>1. Ended
      BY <1>16 DEF IInv
    <3>2. \A q \in Polls : closing[q] = NotClosing => closing'[q] = NotClosing
      BY <1>7, Zenon
    <3> QED BY <1>1, <3>1, <3>2, Zenon DEF Ended, Stopping
  <2>11. \A d \in Conns : conn'[d].st = "closing" => \E q \in Polls : closing'[q].c = d
    <3> SUFFICES ASSUME NEW d \in Conns, conn'[d].st = "closing"
                 PROVE  \E q \in Polls : closing'[q].c = d
      BY Zenon
    <3>1. d # c /\ conn[d].st = "closing"
      BY <1>4, Zenon
    <3>2. PICK q \in Polls : closing[q].c = d
      BY <1>16, <3>1, ZenonT(60) DEF IInv, Accounted
    <3> QED BY <1>7, <3>1, <3>2, Zenon
  <2>12. ASSUME NEW d \in Conns, HasFd(d)', conns[conn[d].fd] = d
         PROVE  conns'[conn[d].fd] = d \/ \E e \in 1..(d - 1) : conn[e].fd = conn[d].fd
    <3>1. HasFd(d) /\ d # c
      BY <1>3, <1>4, <2>12, ZenonT(60) DEF Older
    <3>2. conn[d].fd \in Fds
      <4>1. conn[d] \in ConnRecord
        BY <1>2, ConnsType, ElementOfSeq, Zenon DEF Conns
      <4> QED BY <4>1, Zenon DEF ConnRecord
    <3>3. CASE conn[d].fd = f
      <4>1. c <= d
        BY <1>2, <3>1, <3>3, ZenonT(60) DEF IInv, Handles
      <4>2. c \in 1..(d - 1)
        BY <1>2, <3>1, <4>1, ConnsType, SMTT(30) DEF Conns
      <4> QED BY <3>3, <4>2, Zenon
    <3>4. CASE conn[d].fd # f
      BY <1>6, <2>12, <3>2, <3>4, Zenon
    <3> QED BY <3>3, <3>4, Zenon
  <2>13. Accounted'
    BY <1>1, <1>4, <1>16, <2>11, <2>12, AccountedStep, ZenonT(60)
  <2> QED BY <2>2, <2>7, <2>9, <2>10, <2>13, Zenon
<1>17. ASSUME OneThread PROVE Alone'
  <2>1. Alone
    BY <1>17 DEF IInv
  <2>2. p = Main
    <3>1. \A q \in Subs : closing[q] = NotClosing
      BY <2>1, ZenonT(60) DEF Alone
    <3>2. NotClosing.c = 0
      BY DEF NotClosing
    <3> QED BY <1>1, <3>1, <3>2, MainIsPoll, ZenonT(60)
  <2>3. \A d \in Conns : conn'[d].poll = Main /\ conn'[d].fd = conn[d].fd
    BY <1>4, <2>1, ZenonT(60) DEF Older, Alone
  <2>4. conns[f] = c
    BY <1>2, <1>3, <2>1, Zenon DEF Alone
  <2>5. ASSUME NEW d \in Conns, conn'[d].st # "closed" PROVE conns'[conn'[d].fd] = d
    <3>1. d # c /\ conn[d].st # "closed"
      BY <1>4, <2>5, Zenon
    <3>2. conns[conn[d].fd] = d
      BY <2>1, <3>1, ZenonT(60) DEF Alone
    <3>3. conn[d].fd \in Fds
      <4>1. conn[d] \in ConnRecord
        BY <1>2, ConnsType, ElementOfSeq DEF Conns
      <4> QED BY <4>1 DEF ConnRecord
    <3>4. conn[d].fd # f
      BY <2>4, <3>1, <3>2, Zenon
    <3> QED BY <1>6, <2>3, <3>2, <3>3, <3>4, Zenon
  <2>6. \A d \in Conns : conn'[d].st # "closing"
    <3>1. \A d \in Conns : conn[d].st = "closing" => d = c
      BY <2>1, <2>2, Zenon DEF Alone
    <3> QED BY <1>4, <3>1, Zenon
  <2>7. \A q \in Subs : closing'[q] = NotClosing
    <3>1. \A q \in Subs : q \in Polls /\ q # p
      BY <2>2, MainIsPoll, Zenon
    <3>2. \A q \in Subs : closing[q] = NotClosing
      BY <2>1, Zenon DEF Alone
    <3>3. \A q \in Polls : q # p => closing'[q] = closing[q]
      BY <1>7, Zenon
    <3> QED BY <3>1, <3>2, <3>3, Zenon
  <2>8. closing'[Main].c = 0 /\ ((\A g \in Fds : conns[g] = 0) => \A g \in Fds : conns'[g] = 0)
    BY <1>6, <1>8, <2>2, Zenon
  <2>9. \A q \in Polls : tasks'[q] = <<>> /\ loop'[q] # "exited"
    BY <1>1, <2>1, Zenon DEF Alone
  <2>10. /\ cpc' \in {"idle", "drain", "done"}
         /\ cpc' # "idle" => ~listening' /\ mpc' # "init"
         /\ cpc' = "done" => ~started'
         /\ cpc' = "done" /\ ~EndInCallback =>
              /\ mpc' \notin {"dispatch", "insert", "callback"} /\ connecting' = 0
              /\ \A g \in Fds : conns'[g] = 0
    BY <1>1, <2>1, <2>8, Zenon DEF Alone
  <2> QED BY <1>9, <2>3, <2>5, <2>6, <2>7, <2>8, <2>9, <2>10, ZenonT(60) DEF Alone
<1> QED BY <1>1, <1>10, <1>11, <1>12, <1>15, <1>16, <1>17, ZenonT(60) DEF IInv, PerThread, OneThread
=============================================================================
