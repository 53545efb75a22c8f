--------------------------- MODULE ServerExitProofs ---------------------------
(***************************************************************************)
(* The other steps of ServerProofs, those of the closures and of           *)
(* shutdown() and close(), and what follows from the invariant: Server     *)
(* keeps its table of connections and its limit, for any number of sub     *)
(* polls, descriptors and connections, and leaves nothing behind when      *)
(* shutdown() or close() is through.                                       *)
(***************************************************************************)
EXTENDS ServerProofs

-----------------------------------------------------------------------------
(* The closures the sub polls run.                                         *)

\* The first closure of a poll is taken from its queue.
Popped(p, o, c) ==
  /\ PerThread /\ ~OneThread
  /\ tasks' \in [Polls -> Seq(Closures)] /\ \A q \in Polls : q # p => tasks'[q] = tasks[q]
  /\ p = Main <=> o = "acceptor"
  /\ p # Main => c \in Conns
  /\ \A q \in Polls : \A i \in 1..Len(tasks'[q]) :
       /\ q = Main <=> tasks'[q][i].op = "acceptor"
       /\ q # Main => tasks'[q][i].c \in Conns
  /\ \A q \in Polls : \A d : StartIn(tasks'[q], d) => StartIn(tasks[q], d)
  /\ o = "start" => StartIn(tasks[p], c)
  /\ \A q \in Polls : \A d : CleanIn(tasks[q], d) =>
       CleanIn(tasks'[q], d) \/ (o = "clean" /\ c = d)
  /\ NoSync(tasks[p]) => NoSync(tasks'[p]) /\ o = "start"
  /\ OneSync(tasks[p]) => OneSync(tasks'[p])
  /\ OneSync(tasks[p]) /\ o # "start" => NoSync(tasks'[p])
  /\ o = "start" /\ NoSync(tasks'[p]) => NoSync(tasks[p])

LEMMA PopTasks ==
  ASSUME IInv, NEW p \in Polls, tasks[p] # <<>>, tasks' = [tasks EXCEPT ![p] = Tail(@)]
  PROVE  Popped(p, Head(tasks[p]).op, Head(tasks[p]).c)
<1>1. TypeOK
  BY DEF IInv, NoStaleEntry
<1>2. PerThread /\ ~OneThread
  <2>1. ~OneThread
    BY Zenon DEF IInv, Alone
  <2> QED BY <1>1, <2>1, ServerAssumption DEF TypeOK, PerThread, OneThread
<1> PICK s, h : s = tasks[p] /\ h = Head(tasks[p])
  BY Zenon
<1>3. s \in Seq(Closures) /\ s # <<>> /\ tasks \in [Polls -> Seq(Closures)]
  BY <1>1, Zenon DEF TypeOK
<1>4. /\ Tail(s) \in Seq(Closures)
      /\ NoSync(s) => NoSync(Tail(s)) /\ Head(s).op = "start"
      /\ OneSync(s) => OneSync(Tail(s))
      /\ OneSync(s) /\ Head(s).op # "start" => NoSync(Tail(s))
      /\ Head(s).op = "start" /\ NoSync(Tail(s)) => NoSync(s)
      /\ \A c : CleanIn(s, c) =>
           CleanIn(Tail(s), c) \/ (Head(s).op = "clean" /\ Head(s).c = c)
      /\ \A i \in 1..Len(Tail(s)) : i + 1 \in 1..Len(s) /\ Tail(s)[i] = s[i + 1]
      /\ 1 \in 1..Len(s) /\ Head(s) = s[1]
  BY <1>3, PopSync, Zenon
<1>5. /\ tasks' \in [Polls -> Seq(Closures)] /\ tasks'[p] = Tail(s)
      /\ \A q \in Polls : q # p => tasks'[q] = tasks[q]
  BY <1>3, <1>4, Zenon
<1>6. \A i \in 1..Len(s) : /\ p = Main <=> s[i].op = "acceptor"
                           /\ p # Main => s[i].c \in Conns
  BY <1>2, OldTasks, Zenon
<1>7. (p = Main <=> h.op = "acceptor") /\ (p # Main => h.c \in Conns)
  BY <1>4, <1>6, Zenon
<1>8. ASSUME NEW q \in Polls, NEW i \in 1..Len(tasks'[q])
      PROVE  /\ q = Main <=> tasks'[q][i].op = "acceptor"
             /\ q # Main => tasks'[q][i].c \in Conns
  <2>1. CASE q = p
    <3>1. i + 1 \in 1..Len(s) /\ tasks'[q][i] = s[i + 1]
      BY <1>4, <1>5, <2>1, Zenon
    <3> QED BY <1>6, <2>1, <3>1, Zenon
  <2>2. CASE q # p
    BY <1>2, <1>5, <2>2, OldTasks, Zenon
  <2> QED BY <2>1, <2>2, SMTT(30)
<1>9. \A d : StartIn(Tail(s), d) => StartIn(s, d)
  BY <1>4, ZenonT(60) DEF StartIn
<1>10. \A q \in Polls : \A d : StartIn(tasks'[q], d) => StartIn(tasks[q], d)
  BY <1>5, <1>9, Zenon
<1>11. h.op = "start" => StartIn(s, h.c)
  BY <1>4, Zenon DEF StartIn
<1>12. \A q \in Polls : \A d : CleanIn(tasks[q], d) =>
         CleanIn(tasks'[q], d) \/ (h.op = "clean" /\ h.c = d)
  BY <1>4, <1>5, Zenon
<1>13. /\ NoSync(s) => NoSync(tasks'[p]) /\ h.op = "start"
       /\ OneSync(s) => OneSync(tasks'[p])
       /\ OneSync(s) /\ h.op # "start" => NoSync(tasks'[p])
       /\ h.op = "start" /\ NoSync(tasks'[p]) => NoSync(s)
  BY <1>4, <1>5, Zenon
<1> QED BY <1>2, <1>5, <1>7, <1>8, <1>10, <1>11, <1>12, <1>13, ZenonT(60) DEF Popped

\* It is start_, or the closure that the closer waits for.
LEMMA PopWaiting ==
  ASSUME IInv, NEW p \in Polls, tasks[p] # <<>>, tasks' = [tasks EXCEPT ![p] = Tail(@)]
  PROVE  /\ Head(tasks[p]).op = "start" =>
              \A q \in Polls : /\ NoSync(tasks'[q]) <=> NoSync(tasks[q])
                               /\ OneSync(tasks[q]) => OneSync(tasks'[q])
         /\ Head(tasks[p]).op # "start" =>
              /\ pending /\ cpc \in {"snapshot", "shutConns", "clear", "cleanConns"}
              /\ p # Main => AcceptorDown /\ cpc \in {"shutConns", "cleanConns"}
              /\ \A q \in Polls : NoSync(tasks'[q]) /\ OneSync(tasks'[q]) /\ ~closing[q].sync
<1> PICK o : o = Head(tasks[p]).op
  BY Zenon
<1>1. /\ PerThread /\ \A q \in Polls : q # p => tasks'[q] = tasks[q]
      /\ NoSync(tasks[p]) => NoSync(tasks'[p]) /\ o = "start"
      /\ OneSync(tasks[p]) => OneSync(tasks'[p])
      /\ OneSync(tasks[p]) /\ o # "start" => NoSync(tasks'[p])
      /\ o = "start" /\ NoSync(tasks'[p]) => NoSync(tasks[p])
  BY PopTasks, Zenon DEF Popped
<1>2. Waiting
  BY <1>1, Zenon DEF IInv
<1>3. ASSUME o = "start", NEW q \in Polls
      PROVE  /\ NoSync(tasks'[q]) <=> NoSync(tasks[q])
             /\ OneSync(tasks[q]) => OneSync(tasks'[q])
  BY <1>1, <1>3, Zenon
<1>4. ASSUME o # "start"
      PROVE  /\ pending /\ cpc \in {"snapshot", "shutConns", "clear", "cleanConns"}
             /\ p # Main => AcceptorDown /\ cpc \in {"shutConns", "cleanConns"}
             /\ \A q \in Polls : NoSync(tasks'[q]) /\ OneSync(tasks'[q]) /\ ~closing[q].sync
  <2>1. ~NoSync(tasks[p])
    BY <1>1, <1>4, Zenon
  <2>2. pending /\ cpc \in {"snapshot", "shutConns", "clear", "cleanConns"}
    BY <1>2, <2>1, Zenon DEF Waiting
  <2>3. p # Main => cpc \notin {"snapshot", "clear"}
    BY <1>2, <2>1, <2>2, MainIsPoll, Zenon DEF Waiting
  <2>4. p # Main => AcceptorDown /\ cpc \in {"shutConns", "cleanConns"}
    BY <2>2, <2>3 DEF AcceptorDown
  <2>5. \A q \in Polls : OneSync(tasks[q]) /\ ~closing[q].sync /\ (q # p => NoSync(tasks[q]))
    BY <1>2, <2>1, Zenon DEF Waiting
  <2> QED BY <1>1, <1>4, <2>2, <2>4, <2>5, Zenon
<1> QED BY <1>3, <1>4, Zenon

\* What closures that leave the descriptors alone do.
Answer(o, c) ==
  /\ IF o = "start" THEN pending' = pending ELSE ~pending'
  /\ IF o = "acceptor" THEN ~listening' ELSE listening' = listening
  /\ o = "clean" => ~HasFd(c)

LEMMA RunQuietIInv ==
  ASSUME IInv, NEW p \in Polls, Free(p), tasks[p] # <<>>, tasks' = [tasks EXCEPT ![p] = Tail(@)],
         SameFds, pending' \in BOOLEAN, listening' \in BOOLEAN,
         connecting # 0 => conn'[connecting].st = "new",
         Answer(Head(tasks[p]).op, Head(tasks[p]).c),
         UNCHANGED <<mode, started, mpc, batch, connecting, next, conns, loop, shut, closing,
                     how, cpc, todo>>
  PROVE  IInv'
<1> PICK o, c : o = Head(tasks[p]).op /\ c = Head(tasks[p]).c
  BY Zenon
<1>0. Answer(o, c) /\ Popped(p, o, c)
  BY PopTasks, Zenon
<1>1. /\ PerThread /\ ~OneThread
      /\ tasks' \in [Polls -> Seq(Closures)] /\ \A q \in Polls : q # p => tasks'[q] = tasks[q]
      /\ p = Main <=> o = "acceptor"
      /\ \A q \in Polls : \A i \in 1..Len(tasks'[q]) :
           /\ q = Main <=> tasks'[q][i].op = "acceptor"
           /\ q # Main => tasks'[q][i].c \in Conns
      /\ \A q \in Polls : \A d : StartIn(tasks'[q], d) => StartIn(tasks[q], d)
      /\ \A q \in Polls : \A d : CleanIn(tasks[q], d) =>
           CleanIn(tasks'[q], d) \/ (o = "clean" /\ c = d)
  BY <1>0, Zenon DEF Popped
<1>2. TypeOK /\ Older /\ MainPhases /\ Waiting /\ CloserPhases /\ Ended /\ Accounted
  BY <1>1, Zenon DEF IInv, NoStaleEntry, SameFds
<1>3. TypeOK' /\ Conns' = Conns
  <2>1. {started, listening, pending}' \subseteq BOOLEAN
    BY <1>2 DEF TypeOK
  <2> QED BY <1>1, <1>2, <2>1, OlderTypes, ZenonT(60) DEF TypeOK
<1>4. NoStaleEntry' /\ Handles'
  BY <1>2, <1>3, SameEntries, HandlesKept, ZenonT(60)
<1>5. InCleanup'
  BY CleanupKept, ZenonT(60) DEF SameFds
<1>6. loop[p] = "run" /\ (p = Main => mpc = "loop")
  BY DEF Free
<1>7. MainPhases'
  <2>1. mpc # "init"
    BY <1>2, <1>6, Zenon DEF MainPhases
  <2>2. mpc = "failed" => ~listening'
    <3>1. mpc = "failed" => p # Main /\ ~listening
      BY <1>2, <1>6, Zenon DEF MainPhases
    <3> QED BY <1>0, <1>1, <3>1, ZenonT(60) DEF Answer
  <2> QED BY <1>1, <1>2, <2>1, <2>2, Zenon DEF MainPhases
<1>8. Queues'
  BY <1>1, <1>2, OlderQueues, Zenon
<1>9. /\ o = "start" => \A q \in Polls : /\ NoSync(tasks'[q]) <=> NoSync(tasks[q])
                                         /\ OneSync(tasks[q]) => OneSync(tasks'[q])
      /\ o # "start" =>
           /\ pending /\ cpc \in {"snapshot", "shutConns", "clear", "cleanConns"}
           /\ p # Main => AcceptorDown /\ cpc \in {"shutConns", "cleanConns"}
           /\ \A q \in Polls : NoSync(tasks'[q]) /\ OneSync(tasks'[q]) /\ ~closing[q].sync
  BY PopWaiting, ZenonT(60)
<1>10. Waiting'
  <2>1. CASE o = "start"
    BY <1>0, <1>1, <1>9, <2>1, WaitingSame, Zenon DEF Answer
  <2>2. CASE o # "start"
    <3>1. ~pending' /\ \A q \in Polls : NoSync(tasks'[q]) /\ OneSync(tasks'[q]) /\ ~closing'[q].sync
      BY <1>0, <1>9, <2>2, Zenon DEF Answer
    <3> QED BY <3>1, Zenon DEF Waiting
  <2> QED BY <2>1, <2>2, SMTT(30)
<1>11. CloserPhases'
  <2>1. \/ ~listening' /\ mpc = "loop" /\ connecting = 0
        \/ listening' = listening /\ (AcceptorDown' => AcceptorDown)
    <3>1. CASE p = Main
      <4>1. mpc = "loop" /\ o = "acceptor"
        BY <1>1, <1>6, <3>1, ZenonT(60)
      <4>2. connecting = 0
        BY <1>2, <4>1 DEF MainPhases
      <4> QED BY <1>0, <4>1, <4>2, Zenon DEF Answer
    <3>2. CASE p # Main /\ o # "start"
      BY <1>0, <1>1, <1>9, <3>2, ZenonT(60) DEF Answer
    <3>3. CASE p # Main /\ o = "start"
      <4>1. listening' = listening /\ pending' = pending
        BY <1>0, <1>1, <3>3, Zenon DEF Answer
      <4> QED BY <4>1, Zenon DEF AcceptorDown
    <3> QED BY <3>1, <3>2, <3>3, SMTT(30)
  <2>2. AcceptorDown' => ~listening' /\ connecting' = 0 /\ mpc' \in {"loop", "returned"}
    BY <1>2, <2>1, Zenon DEF CloserPhases
  <2>3. Stopping' <=> Stopping
    BY Zenon DEF Stopping
  <2> QED BY <1>2, <2>2, <2>3, ZenonT(60) DEF CloserPhases
<1>12. Ended'
  <2>1. \A q \in Polls : loop[q] = "exited" => q # p
    BY <1>6, Zenon
  <2> QED BY <1>1, <1>2, <2>1, Zenon DEF Ended, Stopping
<1>13. Accounted'
  <2>1. \A d \in Conns : conn'[d].st = "closing" => \E q \in Polls : closing'[q].c = d
    BY <1>2, Zenon DEF SameFds, Accounted
  <2>2. \A d \in Conns : \A q \in Polls : HasFd(d)' /\ CleanIn(tasks[q], d) => CleanIn(tasks'[q], d)
    <3> SUFFICES ASSUME NEW d \in Conns, NEW q \in Polls, HasFd(d)', CleanIn(tasks[q], d)
                 PROVE  CleanIn(tasks'[q], d)
      BY Zenon
    <3>1. HasFd(d)
      BY <1>2, Zenon DEF Older
    <3>2. ~(o = "clean" /\ c = d)
      BY <1>0, <3>1, Zenon DEF Answer
    <3> QED BY <1>1, <3>2, Zenon
  <2> QED BY <1>1, <1>2, <2>1, <2>2, AccountedStep, Zenon
<1> QED BY <1>1, <1>4, <1>5, <1>7, <1>8, <1>10, <1>11, <1>12, <1>13, ZenonT(60) DEF IInv, PerThread, OneThread

\* The closure that closes a connection.
LEMMA RunCleanIInv ==
  ASSUME IInv, NEW p \in Polls, Free(p), tasks[p] # <<>>, tasks' = [tasks EXCEPT ![p] = Tail(@)],
         NEW c, c = Head(tasks[p]).c, Head(tasks[p]).op = "clean", HasFd(c), BeginClose(p, c, TRUE),
         UNCHANGED <<mode, started, mpc, listening, batch, connecting, next, conns, loop, shut,
                     how, cpc, todo, pending>>
  PROVE  IInv'
<1>1. Popped(p, "clean", c)
  BY PopTasks, Zenon
<1>2. /\ PerThread /\ ~OneThread
      /\ tasks' \in [Polls -> Seq(Closures)] /\ \A q \in Polls : q # p => tasks'[q] = tasks[q]
      /\ \A q \in Polls : \A i \in 1..Len(tasks'[q]) :
           /\ q = Main <=> tasks'[q][i].op = "acceptor"
           /\ q # Main => tasks'[q][i].c \in Conns
      /\ \A q \in Polls : \A d : StartIn(tasks'[q], d) => StartIn(tasks[q], d)
      /\ \A q \in Polls : \A d : CleanIn(tasks[q], d) => CleanIn(tasks'[q], d) \/ c = d
  BY <1>1, ZenonT(60) DEF Popped
<1>3. p # Main /\ p \in Subs /\ c \in Conns
  BY <1>1, MainIsPoll, SMTT(30) DEF Popped
<1>4. TypeOK /\ MainPhases /\ Waiting /\ CloserPhases /\ Ended /\ Accounted
  BY <1>2, ZenonT(60) DEF IInv, NoStaleEntry
<1>5. loop[p] = "run" /\ closing[p] = NotClosing /\ closing[p].c = 0
  BY DEF Free, NotClosing
<1>6. /\ Older
      /\ closing' \in [Polls -> [c : 0..Len(conn'), sync : BOOLEAN]]
      /\ conn'[c].st = "closing" /\ \A d \in Conns : d # c => conn'[d].st = conn[d].st
      /\ closing'[p].c = c
      /\ \A q \in Polls : q # p => closing'[q] = closing[q]
      /\ InCleanup'
  <2>1. TRUE \in BOOLEAN
    OBVIOUS
  <2> QED BY <1>3, <1>5, <2>1, BeginCloseProps, ZenonT(60)
<1>7. TypeOK' /\ Conns' = Conns
  BY <1>2, <1>4, <1>6, OlderTypes, ZenonT(60) DEF TypeOK
<1>8. \A d \in Conns : conn'[d].st = "closed" => conn[d].st = "closed"
  BY <1>6, Zenon
<1>9. NoStaleEntry' /\ Handles'
  BY <1>6, <1>7, <1>8, OpenEntries, HandlesKept, ZenonT(60)
<1>10. /\ pending /\ AcceptorDown /\ cpc \in {"shutConns", "cleanConns"}
       /\ \A q \in Polls : NoSync(tasks'[q]) /\ OneSync(tasks'[q]) /\ ~closing[q].sync
  BY <1>3, PopWaiting, Zenon
<1>11. connecting = 0 /\ mpc \in {"loop", "returned"}
  BY <1>4, <1>10, Zenon DEF CloserPhases
<1>12. MainPhases'
  BY <1>4, <1>11, Zenon DEF MainPhases
<1>13. Queues'
  <2>1. closing'[Main] = closing[Main]
    BY <1>3, <1>6, MainIsPoll, Zenon
  <2> QED BY <1>2, <1>6, <2>1, OlderQueues, Zenon
<1>14. Waiting'
  <2>1. \A q \in Polls : q # p => ~closing'[q].sync
    BY <1>6, <1>10, Zenon
  <2>2. cpc' \notin {"snapshot", "clear"} /\ pending'
    BY <1>10
  <2> QED BY <1>4, <1>10, <2>1, <2>2, Zenon DEF Waiting
<1>15. CloserPhases'
  BY <1>4, Zenon DEF CloserPhases, AcceptorDown, Stopping
<1>16. Ended'
  <2>1. \A q \in Polls : loop[q] = "exited" => tasks'[q] = tasks[q] /\ closing'[q] = closing[q]
    BY <1>2, <1>5, <1>6, ZenonT(60)
  <2> QED BY <1>4, <2>1, Zenon DEF Ended, Stopping
<1>17. \A d \in Conns : conn'[d].st = "closing" => \E q \in Polls : closing'[q].c = d
  <2> SUFFICES ASSUME NEW d \in Conns, conn'[d].st = "closing"
               PROVE  \E q \in Polls : closing'[q].c = d
    BY Zenon
  <2>1. CASE d = c
    BY <1>6, <2>1, Zenon
  <2>2. CASE d # c
    <3>1. PICK q \in Polls : closing[q].c = d
      BY <1>4, <1>6, <2>2, ZenonT(60) DEF Accounted
    <3>2. d # 0
      BY <1>4, ConnsType, Zenon
    <3> QED BY <1>5, <1>6, <3>1, <3>2, ZenonT(60)
  <2> QED BY <2>1, <2>2
<1>18. \A d \in Conns : \A q \in Polls : HasFd(d)' /\ CleanIn(tasks[q], d) => CleanIn(tasks'[q], d)
  <2>1. ~HasFd(c)'
    BY <1>6 DEF HasFd
  <2> QED BY <1>2, <2>1, ZenonT(60)
<1>19. Accounted'
  BY <1>2, <1>6, <1>17, <1>18, AccountedStep, Zenon
<1> QED BY <1>2, <1>6, <1>9, <1>12, <1>13, <1>14, <1>15, <1>16, <1>19, ZenonT(60) DEF IInv, PerThread, OneThread

LEMMA RunTaskIInv == ASSUME IInv, NEW p \in Polls, RunTask(p) PROVE IInv'
<1> PICK o, c : o = Head(tasks[p]).op /\ c = Head(tasks[p]).c
  BY Zenon
<1>1. /\ Free(p) /\ tasks[p] # <<>> /\ tasks' = [tasks EXCEPT ![p] = Tail(@)]
      /\ UNCHANGED <<mode, started, mpc, batch, connecting, next, conns, loop, shut, how, cpc, todo>>
  BY Zenon DEF RunTask
<1>2. \/ /\ o = "start" /\ conn[c].st = "new" /\ SetState(c, "up")
         /\ UNCHANGED <<listening, closing, pending>>
      \/ /\ o = "shut" /\ conn[c].st = "up" /\ SetState(c, "half") /\ pending' = FALSE
         /\ UNCHANGED <<listening, closing>>
      \/ o = "clean" /\ HasFd(c) /\ BeginClose(p, c, TRUE) /\ UNCHANGED <<listening, pending>>
      \/ o = "acceptor" /\ listening' = FALSE /\ pending' = FALSE /\ UNCHANGED <<conn, closing>>
      \/ /\ (o = "shut" /\ conn[c].st # "up") \/ (o = "clean" /\ ~HasFd(c))
         /\ pending' = FALSE /\ UNCHANGED <<listening, conn, closing>>
  BY ZenonT(60) DEF RunTask, ShutdownInPoll
<1>3. TypeOK /\ Popped(p, o, c) /\ {listening, pending, FALSE} \subseteq BOOLEAN
  BY <1>1, PopTasks, Zenon DEF IInv, NoStaleEntry, TypeOK
<1>4. p # Main => c \in Conns
  BY <1>3, Zenon DEF Popped
<1>5. o # "acceptor" => p # Main
  BY <1>3, ZenonT(60) DEF Popped
<1>6. connecting # 0 => conn[connecting].st = "new" /\ connecting \in Conns
  <2>1. MainPhases
    BY Zenon DEF IInv
  <2>2. connecting \in 0..Len(conn) /\ Len(conn) \in Nat
    BY <1>3, ConnsType, Zenon DEF TypeOK
  <2>3. connecting # 0 => conn[connecting].st = "new"
    BY <2>1, Zenon DEF MainPhases
  <2> QED BY <2>2, <2>3, SMTT(30) DEF Conns
<1>7. CASE /\ o = "start" /\ conn[c].st = "new" /\ SetState(c, "up")
           /\ UNCHANGED <<listening, closing, pending>>
  <2>1. c \in Conns /\ HasFd(c)
    BY <1>4, <1>5, <1>7, SMTT(30) DEF HasFd
  <2>2. connecting # 0 => connecting # c
    BY <1>3, <1>7, Zenon DEF IInv, MainPhases, Popped
  <2>3. SameFds
    BY <1>3, <1>7, <2>1, SetStateSame, Zenon
  <2>4. connecting # 0 => conn'[connecting].st = "new"
    <3>1. "up" \in ConnState
      BY SMTT(30) DEF ConnState
    <3> QED BY <1>3, <1>6, <1>7, <2>1, <2>2, <3>1, SetStateProps, ZenonT(60)
  <2>5. Answer(o, c) /\ pending' \in BOOLEAN /\ listening' \in BOOLEAN
    BY <1>3, <1>7, Zenon DEF Answer
  <2> QED BY <1>1, <1>7, <2>3, <2>4, <2>5, RunQuietIInv, ZenonT(60)
<1>8. CASE /\ o = "shut" /\ conn[c].st = "up" /\ SetState(c, "half") /\ pending' = FALSE
           /\ UNCHANGED <<listening, closing>>
  <2>1. c \in Conns /\ HasFd(c)
    BY <1>4, <1>5, <1>8, ZenonT(60) DEF HasFd
  <2>2. connecting # 0 => connecting # c
    BY <1>6, <1>8, SMTT(30)
  <2>3. SameFds
    BY <1>3, <1>8, <2>1, SetStateSame, Zenon
  <2>4. connecting # 0 => conn'[connecting].st = "new"
    <3>1. "half" \in ConnState
      BY SMTT(30) DEF ConnState
    <3> QED BY <1>3, <1>6, <1>8, <2>1, <2>2, <3>1, SetStateProps, ZenonT(60)
  <2>5. Answer(o, c) /\ pending' \in BOOLEAN /\ listening' \in BOOLEAN
    BY <1>3, <1>8, Zenon DEF Answer
  <2> QED BY <1>1, <1>8, <2>3, <2>4, <2>5, RunQuietIInv, ZenonT(60)
<1>9. CASE o = "clean" /\ HasFd(c) /\ BeginClose(p, c, TRUE) /\ UNCHANGED <<listening, pending>>
  BY <1>1, <1>9, RunCleanIInv, Zenon
<1>10. CASE o = "acceptor" /\ listening' = FALSE /\ pending' = FALSE /\ UNCHANGED <<conn, closing>>
  <2>1. SameFds /\ (connecting # 0 => conn'[connecting].st = "new")
    BY <1>3, <1>6, <1>10, SameSame, ZenonT(60)
  <2>2. Answer(o, c) /\ pending' \in BOOLEAN /\ listening' \in BOOLEAN
    BY <1>3, <1>10, Zenon DEF Answer
  <2> QED BY <1>1, <1>10, <2>1, <2>2, RunQuietIInv, Zenon
<1>11. CASE /\ (o = "shut" /\ conn[c].st # "up") \/ (o = "clean" /\ ~HasFd(c))
            /\ pending' = FALSE /\ UNCHANGED <<listening, conn, closing>>
  <2>1. SameFds /\ (connecting # 0 => conn'[connecting].st = "new")
    BY <1>3, <1>6, <1>11, SameSame, Zenon
  <2>2. Answer(o, c) /\ pending' \in BOOLEAN /\ listening' \in BOOLEAN
    BY <1>3, <1>11, ZenonT(60) DEF Answer
  <2> QED BY <1>1, <1>11, <2>1, <2>2, RunQuietIInv, ZenonT(60)
<1> QED BY <1>2, <1>7, <1>8, <1>9, <1>10, <1>11, ZenonT(60)

-----------------------------------------------------------------------------
(* The closer.                                                             *)

\* It does not touch the Conns, nor what the main thread is doing.
LEMMA CloserIInv ==
  ASSUME IInv, PerThread, TypeOK',
         UNCHANGED <<mode, mpc, listening, batch, connecting, conn, closing>>,
         NoStaleEntry', MainPhases', Queues', Waiting', CloserPhases', Ended', Accounted'
  PROVE  IInv'
<1>1. TypeOK /\ PerThread' /\ ~OneThread'
  BY Zenon DEF IInv, NoStaleEntry, PerThread, OneThread
<1>2. Handles' /\ InCleanup'
  BY <1>1, HandlesKept, SameOlder, CleanupKept, Zenon
<1> QED BY <1>1, <1>2, Zenon DEF IInv

\* Only the closer's own variables change, and it waits for nothing.
LEMMA CloserOwnIInv ==
  ASSUME IInv, PerThread, TypeOK', ~pending, UNCHANGED pending,
         UNCHANGED <<mode, mpc, listening, batch, connecting, conn, conns, loop, tasks, closing>>,
         cpc' # "idle", mpc \notin {"init", "failed"},
         CloserPhases', Ended',
         cpc = "cleanConns" => todo = {}
  PROVE  IInv'
<1>1. TypeOK /\ Waiting /\ MainPhases
  BY Zenon DEF IInv, NoStaleEntry
<1>2. MainPhases'
  BY <1>1, Zenon DEF MainPhases, OneThread
<1>3. Queues' /\ NoStaleEntry'
  BY QueuesKept, EntriesKept, Zenon
<1>4. Waiting'
  BY <1>1, Zenon DEF Waiting
<1>5. Accounted'
  <2>1. \A d \in Conns : conn[d].st = "closing" => \E q \in Polls : closing[q].c = d
    BY Zenon DEF IInv, Accounted
  <2>2. Older
    BY <1>1, SameOlder, Zenon
  <2> QED BY <2>1, <2>2, AccountedStep, Zenon
<1> QED BY <1>2, <1>3, <1>4, <1>5, CloserIInv, Zenon

LEMMA ExitIInv == ASSUME IInv, NEW op \in {"shutdown", "close"}, Exit(op) PROVE IInv'
<1>1. /\ PerThread /\ started /\ ~started' /\ started' \in BOOLEAN
      /\ how' = op /\ cpc' = "acceptor"
      /\ UNCHANGED <<mode, mpc, listening, batch, connecting, next, conn, conns, loop, shut, tasks,
                     closing, todo, pending>>
  BY Zenon DEF Exit, pollVars
<1>2. TypeOK /\ Waiting /\ CloserPhases /\ Ended /\ MainPhases
  BY <1>1, Zenon DEF IInv, NoStaleEntry
<1>3. cpc = "idle" /\ ~pending
  BY <1>1, <1>2, SMTT(30) DEF CloserPhases, Waiting
<1>4. mpc \notin {"init", "failed"}
  BY <1>1, <1>2, ZenonT(60) DEF MainPhases
<1>5. TypeOK'
  BY <1>1, <1>2, SMTT(30) DEF TypeOK, CloserPc, Conns
<1>6. CloserPhases'
  <2>1. ~AcceptorDown' /\ ~Stopping'
    BY <1>1 DEF AcceptorDown, Stopping
  <2>2. cpc' \notin {"cleanConns", "stopMain", "done"}
    BY <1>1, SMTT(30)
  <2> QED BY <1>1, <1>4, <2>1, <2>2, Zenon DEF CloserPhases
<1>7. Ended'
  <2>1. \A p \in Polls : ~shut[p]
    BY <1>1, <1>2, Zenon DEF Ended
  <2> QED BY <1>1, <1>2, <2>1, MainIsPoll, Zenon DEF Ended
<1> QED BY <1>1, <1>3, <1>4, <1>5, <1>6, <1>7, CloserOwnIInv, ZenonT(60)

\* Where the closer is, the main thread is past start(), and no poll is shut
\* down before the closer stops it.
LEMMA AtProps ==
  ASSUME IInv, NEW l, At(l), l # "idle"
  PROVE  /\ PerThread /\ cpc = l /\ ~pending /\ ~started /\ mpc \notin {"init", "failed"}
         /\ TypeOK /\ CloserPhases /\ Ended /\ Waiting /\ MainPhases /\ Accounted
         /\ l # "acceptor" => AcceptorDown /\ ~listening /\ connecting = 0 /\ mpc \in {"loop", "returned"}
         /\ ~Stopping => \A p \in Polls : ~shut[p] /\ loop[p] # "exited"
<1>1. PerThread /\ cpc = l /\ ~pending
  BY DEF At
<1>2. TypeOK /\ CloserPhases /\ Ended /\ Waiting /\ MainPhases /\ Accounted
  BY <1>1, Zenon DEF IInv, NoStaleEntry
<1>3. ~started /\ mpc \notin {"init", "failed"}
  BY <1>1, <1>2, Zenon DEF CloserPhases
<1>4. l # "acceptor" => AcceptorDown
  BY <1>1 DEF AcceptorDown
<1>5. ~Stopping => \A p \in Polls : ~shut[p] /\ loop[p] # "exited"
  BY <1>1, <1>2, Zenon DEF Ended
<1> QED BY <1>1, <1>2, <1>3, <1>4, <1>5, Zenon DEF CloserPhases

\* A closure is posted that the closer then waits for.
LEMMA PostIInv ==
  ASSUME IInv, NEW l, At(l), l # "idle", ~Stopping,
         NEW p \in Polls, NEW o \in {"shut", "clean", "acceptor"}, NEW c \in Nat,
         PostAndWait(p, o, c), p = Main <=> o = "acceptor", p # Main => c \in Conns,
         cpc' \in {"snapshot", "shutConns", "clear", "cleanConns"},
         p = Main \/ cpc' \notin {"snapshot", "clear"},
         todo' \subseteq todo,
         cpc = "cleanConns" => /\ cpc' = "cleanConns"
                               /\ \A d \in todo : d \in todo' \/ (o = "clean" /\ d = c),
         CloserPhases',
         UNCHANGED <<mode, started, mpc, listening, batch, connecting, next, conn, conns, loop, shut,
                     closing, how>>
  PROVE  IInv'
<1>1. /\ PerThread /\ ~pending /\ mpc \notin {"init", "failed"}
      /\ TypeOK /\ Ended /\ MainPhases /\ Accounted
      /\ \A q \in Polls : ~shut[q] /\ loop[q] # "exited"
  BY AtProps, ZenonT(60)
<1>2. Enqueue(p, o, c) /\ pending' = TRUE
  BY SMTT(30) DEF PostAndWait
<1>3. o \in {"start", "shut", "clean", "acceptor"} /\ o # "start"
  OBVIOUS
<1>4. /\ tasks' \in [Polls -> Seq(Closures)]
      /\ \A q \in Polls : q # p => tasks'[q] = tasks[q]
      /\ \A d : CleanIn(tasks[p], d) => CleanIn(tasks'[p], d)
      /\ o = "clean" => CleanIn(tasks'[p], c)
      /\ \A i \in 1..Len(tasks'[p]) :
           \/ i \in 1..Len(tasks[p]) /\ tasks'[p][i] = tasks[p][i]
           \/ tasks'[p][i].op = o /\ tasks'[p][i].c = c
  <2>1. Pushed(p, o, c)
    BY <1>1, <1>2, <1>3, EnqueueProps, SMTT(30)
  <2> QED BY <2>1, ZenonT(60) DEF Pushed
<1>5. TypeOK'
  <2>1. todo' \subseteq Conns' /\ cpc' \in CloserPc
    BY <1>1, SMTT(30) DEF TypeOK, Conns, CloserPc
  <2>2. {started, listening, pending}' \subseteq BOOLEAN
    BY <1>1, <1>2, SMTT(30) DEF TypeOK
  <2> QED BY <1>1, <1>4, <2>1, <2>2, ZenonT(60) DEF TypeOK
<1>6. NoStaleEntry' /\ Older
  BY <1>1, <1>5, EntriesKept, SameOlder, Zenon
<1>7. MainPhases'
  <2>1. \A d : StartIn(tasks'[p], d) => StartIn(tasks[p], d)
    BY <1>3, <1>4, SMTT(30) DEF StartIn
  <2>2. \A q \in Polls : \A d : StartIn(tasks'[q], d) => StartIn(tasks[q], d)
    BY <1>4, <2>1, Zenon
  <2> QED BY <1>1, <2>2, ZenonT(60) DEF MainPhases, OneThread
<1>8. Queues'
  <2>1. \A q \in Polls : \A i \in 1..Len(tasks'[q]) :
          /\ q = Main <=> tasks'[q][i].op = "acceptor"
          /\ q # Main => tasks'[q][i].c \in Conns
    BY <1>1, <1>2, <1>3, EnqueueTasks, SMTT(30)
  <2> QED BY <1>1, <1>6, <2>1, OlderQueues, ZenonT(60)
<1>9. Waiting'
  BY <1>1, <1>2, WaitingPosted, Zenon
<1>10. Ended'
  BY <1>1, MainIsPoll, Zenon DEF Ended
<1>11. Accounted'
  <2>1. \A q \in Polls : \A d : CleanIn(tasks[q], d) => CleanIn(tasks'[q], d)
    BY <1>4, Zenon
  <2>2. cpc = "cleanConns" => \A d \in todo : d \in todo' \/ CleanIn(tasks'[p], d)
    BY <1>4, Zenon
  <2>3. \A d \in Conns : cpc = "cleanConns" /\ d \in todo =>
          \/ cpc' = "cleanConns" /\ d \in todo'
          \/ \E q \in Polls : CleanIn(tasks'[q], d)
    BY <2>2, Zenon
  <2>4. \A d \in Conns : conn'[d].st = "closing" => \E q \in Polls : closing'[q].c = d
    BY <1>1, ZenonT(60) DEF Accounted
  <2> QED BY <1>1, <1>6, <2>1, <2>3, <2>4, AccountedStep, ZenonT(60)
<1> QED BY <1>1, <1>5, <1>6, <1>7, <1>8, <1>9, <1>10, <1>11, CloserIInv, ZenonT(60)

LEMMA ShutdownAcceptorIInv == ASSUME IInv, ShutdownAcceptor PROVE IInv'
<1>1. /\ At("acceptor") /\ PostAndWait(Main, "acceptor", 0) /\ cpc' \in {"snapshot", "clear"}
      /\ UNCHANGED <<mode, started, mpc, listening, batch, connecting, next, conn, conns, loop, shut,
                     closing, how, todo>>
  BY SMTT(30) DEF ShutdownAcceptor, mainVars
<1>2. /\ cpc = "acceptor" /\ ~started /\ mpc \notin {"init", "failed"} /\ pending'
  BY <1>1, AtProps, SMTT(30) DEF PostAndWait
<1>3. ~Stopping
  BY <1>2, SMTT(30) DEF Stopping
<1>4. CloserPhases'
  BY <1>1, <1>2, SMTT(30) DEF CloserPhases, AcceptorDown, Stopping
<1>5. /\ Main \in Polls /\ 0 \in Nat /\ "acceptor" \in {"shut", "clean", "acceptor"}
      /\ "acceptor" # "idle" /\ "acceptor" # "cleanConns"
      /\ cpc' \in {"snapshot", "shutConns", "clear", "cleanConns"}
  BY <1>1, MainIsPoll, SMTT(30)
<1> QED BY <1>1, <1>2, <1>3, <1>4, <1>5, PostIInv, SMTT(30)

LEMMA PostConnIInv == ASSUME IInv, NEW c \in todo, ShutConn(c) \/ CleanConn(c) PROVE IInv'
<1>1. /\ todo' = todo \ {c}
      /\ UNCHANGED <<mode, started, mpc, listening, batch, connecting, next, conn, conns, loop, shut,
                     closing, how, cpc>>
  BY Zenon DEF ShutConn, CleanConn, mainVars
<1> PICK p : p = conn[c].poll
  BY Zenon
<1>2. \/ At("shutConns") /\ PostAndWait(p, "shut", c)
      \/ At("cleanConns") /\ PostAndWait(p, "clean", c)
  BY Zenon DEF ShutConn, CleanConn
<1>3. cpc \in {"shutConns", "cleanConns"} /\ PerThread
  BY <1>2, Zenon DEF At
<1>4. TypeOK /\ CloserPhases /\ Queues
  BY <1>3, Zenon DEF IInv, NoStaleEntry
<1>5. c \in Conns /\ c \in Nat /\ p \in Subs
  <2>1. c \in Conns
    BY <1>4, SMTT(30) DEF TypeOK
  <2>2. p \in Subs
    BY <1>4, <2>1, Zenon DEF Queues
  <2> QED BY <1>4, <2>1, <2>2, ConnsType, SMTT(30) DEF Conns
<1>6. p \in Polls /\ p # Main
  BY <1>5, MainIsPoll, SMTT(30)
<1>7. /\ ~Stopping /\ AcceptorDown /\ AcceptorDown' /\ ~Stopping'
      /\ cpc \notin {"idle", "acceptor", "stopMain", "done"}
  BY <1>1, <1>3 DEF Stopping, AcceptorDown
<1>8. CloserPhases'
  BY <1>1, <1>4, <1>7, Zenon DEF CloserPhases
<1>9. /\ todo' \subseteq todo
      /\ cpc' \in {"snapshot", "shutConns", "clear", "cleanConns"} /\ cpc' \notin {"snapshot", "clear"}
      /\ \A d \in todo : d \in todo' \/ d = c
  BY <1>1, <1>3, SMTT(30)
<1>10. CASE At("shutConns") /\ PostAndWait(p, "shut", c)
  <2>1. "shutConns" # "idle" /\ cpc = "shutConns" /\ cpc # "cleanConns"
        /\ "shut" \in {"shut", "clean", "acceptor"} /\ "shut" # "acceptor"
    BY <1>10, SMTT(30) DEF At
  <2> QED BY <1>1, <1>5, <1>6, <1>7, <1>8, <1>9, <1>10, <2>1, PostIInv, ZenonT(60)
<1>11. CASE At("cleanConns") /\ PostAndWait(p, "clean", c)
  <2>1. "cleanConns" # "idle" /\ cpc = "cleanConns" /\ cpc' = "cleanConns"
        /\ "clean" \in {"shut", "clean", "acceptor"} /\ "clean" # "acceptor"
    BY <1>1, <1>11, SMTT(30) DEF At
  <2> QED BY <1>1, <1>5, <1>6, <1>7, <1>8, <1>9, <1>11, <2>1, PostIInv, ZenonT(60)
<1> QED BY <1>2, <1>10, <1>11, SMTT(30)

\* The steps in which the closer only goes on to the next thing.
LEMMA CloserGoesOn ==
  ASSUME IInv, NEW l, At(l), l \notin {"idle", "acceptor"}, cpc' \in CloserPc, todo' \subseteq Conns,
         cpc' \notin {"idle", "acceptor"}, UNCHANGED <<mode, started, mpc, listening, batch, connecting,
                     next, conn, conns, loop, tasks, closing, how, pending>>,
         shut' \in [Polls -> BOOLEAN],
         cpc' \in {"cleanConns"} \/ Stopping' => cpc \in {"cleanConns"} \/ Stopping,
         Stopping' => todo' = {},
         cpc' \in {"stopMain", "done"} => \A p \in Subs : loop[p] = "exited",
         \A p \in Polls : shut'[p] => Stopping',
         shut'[Main] => cpc' = "done",
         \A p \in Polls : shut[p] => shut'[p],
         cpc = "cleanConns" => todo = {}
  PROVE  IInv'
<1>1. /\ PerThread /\ cpc = l /\ ~pending /\ ~started /\ mpc \notin {"init", "failed"}
      /\ TypeOK /\ CloserPhases /\ Ended
      /\ ~listening /\ connecting = 0 /\ mpc \in {"loop", "returned"}
  <2>1. l # "idle" /\ l # "acceptor"
    BY Zenon
  <2> QED BY <2>1, AtProps, Zenon
<1>2. TypeOK'
  BY <1>1, Zenon DEF TypeOK, Conns
<1>3. CloserPhases'
  BY <1>1, Zenon DEF CloserPhases
<1>4. Ended'
  BY <1>1, Zenon DEF Ended
<1>5. cpc' # "idle" /\ mpc \notin {"init", "failed"}
  BY <1>1, ZenonT(60)
<1> QED BY <1>1, <1>2, <1>3, <1>4, <1>5, CloserOwnIInv, ZenonT(60)

LEMMA KnownConns == TypeOK => Known \subseteq Conns
BY ConnsType, SMTT(30) DEF TypeOK, Known, Conns

LEMMA CloserStepsIInv ==
  ASSUME IInv, Snapshot \/ ShutConnsDone \/ Drained \/ CleanConnsDone \/ JoinSubs
  PROVE  IInv'
<1>1. UNCHANGED <<mode, started, mpc, listening, batch, connecting, next, conn, conns, loop, shut,
                  tasks, closing, how, pending>>
  BY Zenon DEF Snapshot, ShutConnsDone, Drained, CleanConnsDone, JoinSubs, mainVars, pollVars
<1>2. PICK l \in {"snapshot", "shutConns", "drain", "cleanConns", "joinSubs"} : At(l)
  BY Zenon DEF Snapshot, ShutConnsDone, Drained, CleanConnsDone, JoinSubs
<1>3. l \notin {"idle", "acceptor"} /\ l # "idle" /\ l # "acceptor"
  OBVIOUS
<1>4. cpc = l /\ TypeOK /\ CloserPhases /\ Ended
      /\ (~Stopping => \A p \in Polls : ~shut[p] /\ loop[p] # "exited")
  BY <1>2, <1>3, AtProps, ZenonT(60)
<1>5. /\ cpc' \in {"shutConns", "drain", "clear", "stopSubs", "stopMain"}
      /\ cpc' \in {"stopSubs", "stopMain"} => cpc \in {"cleanConns", "joinSubs"}
      /\ cpc' = "stopMain" => \A p \in Subs : loop[p] = "exited"
      /\ cpc = "joinSubs" => cpc' = "stopMain"
      /\ cpc = "cleanConns" => todo = {}
      /\ todo' = todo \/ (cpc' = "shutConns" /\ todo' = Known)
  BY SMTT(30) DEF Snapshot, ShutConnsDone, Drained, CleanConnsDone, JoinSubs, At
<1>6. cpc' \in CloserPc /\ cpc' \notin {"idle", "acceptor"} /\ cpc' # "done" /\ cpc' # "cleanConns"
  BY <1>5, SMTT(30) DEF CloserPc
<1>7. (Stopping' <=> cpc' \in {"stopSubs", "stopMain"}) /\ (Stopping <=> cpc = "joinSubs")
  BY <1>2, <1>4, <1>5, SMTT(30) DEF Stopping
<1>8. todo' \subseteq Conns /\ (Stopping' => todo' = {})
  <2>1. todo' \subseteq Conns
    BY <1>4, <1>5, KnownConns, ZenonT(60) DEF TypeOK
  <2>2. Stopping' => todo' = todo
    BY <1>5, <1>7, SMTT(30)
  <2>3. Stopping' => todo = {}
    BY <1>4, <1>5, <1>7, ZenonT(60) DEF CloserPhases
  <2> QED BY <2>1, <2>2, <2>3, Zenon
<1>9. shut' \in [Polls -> BOOLEAN] /\ \A p \in Polls : shut[p] => shut'[p]
  BY <1>1, <1>4, SMTT(30) DEF TypeOK
<1>10. \A p \in Polls : shut[p] => Stopping'
  BY <1>4, <1>5, <1>7, Zenon
<1>11. ~shut[Main]
  <2>1. cpc \notin {"idle", "done"}
    BY <1>2, <1>4, SMTT(30)
  <2> QED BY <1>4, <2>1, ZenonT(60) DEF Ended
<1>12. cpc' \in {"cleanConns"} \/ Stopping' => cpc \in {"cleanConns"} \/ Stopping
  BY <1>5, <1>6, <1>7, SMTT(30)
<1>13. cpc' \in {"stopMain", "done"} => \A p \in Subs : loop[p] = "exited"
  BY <1>5, <1>6, SMTT(30)
<1> QED BY <1>1, <1>2, <1>3, <1>5, <1>6, <1>8, <1>9, <1>10, <1>11, <1>12, <1>13, CloserGoesOn, ZenonT(60)

LEMMA StopSubIInv == ASSUME IInv, NEW p \in Subs, StopSub(p) PROVE IInv'
<1>1. /\ At("stopSubs") /\ shut' = [shut EXCEPT ![p] = TRUE] /\ cpc' \in {"stopSubs", "joinSubs"}
      /\ UNCHANGED <<mode, started, mpc, listening, batch, connecting, next, conn, conns, loop,
                     tasks, closing, how, todo, pending>>
  BY DEF StopSub, mainVars, At
<1>2. "stopSubs" \notin {"idle", "acceptor"} /\ "stopSubs" # "idle" /\ p \in Polls /\ p # Main
  BY MainIsPoll
<1>3. cpc = "stopSubs" /\ TypeOK /\ CloserPhases /\ Ended
  BY <1>1, <1>2, AtProps, ZenonT(60)
<1>4. /\ Stopping /\ Stopping' /\ cpc' \in CloserPc /\ cpc' \notin {"idle", "acceptor"}
      /\ cpc' \notin {"stopMain", "done"} /\ cpc # "cleanConns"
  BY <1>1, <1>3, SMTT(30) DEF Stopping, CloserPc
<1>5. todo' \subseteq Conns /\ todo' = {}
  BY <1>1, <1>3, <1>4, ZenonT(60) DEF TypeOK, CloserPhases
<1>6. shut' \in [Polls -> BOOLEAN] /\ (\A q \in Polls : shut[q] => shut'[q]) /\ shut'[Main] = shut[Main]
  BY <1>1, <1>2, <1>3, MainIsPoll, ZenonT(60) DEF TypeOK
<1>7. ~shut[Main]
  BY <1>3 DEF Ended
<1> QED BY <1>1, <1>2, <1>4, <1>5, <1>6, <1>7, CloserGoesOn, ZenonT(60)

LEMMA StopMainIInv == ASSUME IInv, StopMain PROVE IInv'
<1>1. /\ At("stopMain") /\ shut' = [shut EXCEPT ![Main] = TRUE] /\ cpc' = "done"
      /\ UNCHANGED <<mode, started, mpc, listening, batch, connecting, next, conn, conns, loop,
                     tasks, closing, how, todo, pending>>
  BY DEF StopMain, mainVars
<1>2. "stopMain" \notin {"idle", "acceptor"} /\ "stopMain" # "idle"
  OBVIOUS
<1>3. cpc = "stopMain" /\ TypeOK /\ CloserPhases /\ Ended
  BY <1>1, <1>2, AtProps, ZenonT(60)
<1>4. /\ Stopping /\ Stopping' /\ cpc' \in CloserPc /\ cpc' \notin {"idle", "acceptor"}
      /\ cpc # "cleanConns" /\ cpc \in {"stopMain", "done"}
  BY <1>1, <1>3, SMTT(30) DEF Stopping, CloserPc
<1>5. todo' \subseteq Conns /\ todo' = {} /\ \A p \in Subs : loop[p] = "exited"
  BY <1>1, <1>3, <1>4, ZenonT(60) DEF TypeOK, CloserPhases
<1>6. shut' \in [Polls -> BOOLEAN] /\ (\A q \in Polls : shut[q] => shut'[q])
  BY <1>1, <1>3, MainIsPoll, SMTT(30) DEF TypeOK
<1> QED BY <1>1, <1>2, <1>4, <1>5, <1>6, CloserGoesOn, Zenon

LEMMA ClearConnsIInv == ASSUME IInv, ClearConns PROVE IInv'
<1>1. /\ At("clear") /\ todo' = Known /\ conns' = [f \in Fds |-> 0] /\ cpc' = "cleanConns"
      /\ UNCHANGED <<mode, started, mpc, listening, batch, connecting, next, conn, loop, shut,
                     tasks, closing, how, pending>>
  BY SMTT(30) DEF ClearConns, mainVars, pollVars
<1>2. "clear" # "acceptor" /\ "clear" # "idle"
  OBVIOUS
<1>3. /\ PerThread /\ cpc = "clear" /\ ~pending /\ ~started /\ mpc \notin {"init", "failed"}
      /\ TypeOK /\ CloserPhases /\ Ended /\ Waiting /\ MainPhases /\ Accounted
      /\ ~listening /\ connecting = 0 /\ mpc \in {"loop", "returned"}
      /\ (~Stopping => \A p \in Polls : ~shut[p] /\ loop[p] # "exited")
  BY <1>1, <1>2, AtProps, ZenonT(60)
<1>4. ~Stopping /\ ~Stopping' /\ cpc' \in CloserPc /\ cpc' \notin {"idle", "stopMain", "done"}
  BY <1>1, <1>3, SMTT(30) DEF Stopping, CloserPc
<1>5. TypeOK' /\ \A f \in Fds : conns'[f] = 0
  <2>1. todo' \subseteq Conns'
    BY <1>1, <1>3, KnownConns, ZenonT(60) DEF Conns
  <2>2. 0 \in 0..Len(conn)
    BY <1>3, ConnsType, SMTT(30)
  <2>3. conns' \in [Fds -> 0..Len(conn)] /\ \A f \in Fds : conns'[f] = 0
    BY <1>1, <2>2, Zenon
  <2> QED BY <1>1, <1>3, <1>4, <2>1, <2>3, ZenonT(60) DEF TypeOK
<1>6. NoStaleEntry' /\ Queues' /\ Older
  BY <1>1, <1>3, <1>5, QueuesKept, SameOlder, ZenonT(60) DEF NoStaleEntry
<1>7. MainPhases'
  BY <1>1, <1>3, Zenon DEF MainPhases
<1>8. Waiting'
  BY <1>1, <1>3, Zenon DEF Waiting
<1>9. CloserPhases'
  BY <1>1, <1>3, <1>4, <1>5, Zenon DEF CloserPhases
<1>10. Ended'
  BY <1>1, <1>3, <1>4, MainIsPoll, Zenon DEF Ended
<1>11. Accounted'
  <2>1. \A d \in Conns : conns[conn[d].fd] = d => d \in todo'
    <3> SUFFICES ASSUME NEW d \in Conns, conns[conn[d].fd] = d PROVE d \in Known
      BY <1>1, ZenonT(60)
    <3>1. conn[d] \in ConnRecord /\ d # 0
      BY <1>3, ConnsType, ElementOfSeq, SMTT(30) DEF Conns
    <3>2. conn[d].fd \in Fds
      BY <3>1 DEF ConnRecord
    <3> QED BY <3>1, <3>2, Zenon DEF Known
  <2>2. \A d \in Conns : conn[d].st = "closing" => \E q \in Polls : closing[q].c = d
    BY <1>3, Zenon DEF Accounted
  <2>3. cpc # "cleanConns"
    BY <1>3
  <2> QED BY <1>1, <1>3, <1>6, <2>1, <2>2, <2>3, AccountedStep, ZenonT(60)
<1> QED BY <1>1, <1>3, <1>5, <1>6, <1>7, <1>8, <1>9, <1>10, <1>11, CloserIInv, ZenonT(60)

-----------------------------------------------------------------------------
(* kAllOneThread.                                                          *)

\* Some Conns change their state at once.
LEMMA AllStates ==
  ASSUME TypeOK, NEW s \in ConnState, DOMAIN conn' = Conns, conn' = [c \in Conns |-> conn'[c]],
         \A c \in Conns : conn'[c] \in {conn[c], [conn[c] EXCEPT !.st = s]}
  PROVE  /\ conn' \in Seq(ConnRecord) /\ Len(conn') = Len(conn)
         /\ \A d \in Conns : conn'[d].fd = conn[d].fd /\ conn'[d].poll = conn[d].poll
<1>1. conn \in Seq(ConnRecord) /\ Len(conn) \in Nat
  BY ConnsType, Zenon
<1>2. ASSUME NEW d \in Conns
      PROVE  conn'[d] \in ConnRecord /\ conn'[d].fd = conn[d].fd /\ conn'[d].poll = conn[d].poll
  <2>1. conn[d] \in ConnRecord
    BY <1>1, ElementOfSeq, SMTT(30) DEF Conns
  <2> QED BY <2>1 DEF ConnRecord
<1>3. conn' \in [1..Len(conn) -> ConnRecord]
  BY <1>2, Zenon DEF Conns
<1>4. conn' \in Seq(ConnRecord) /\ Len(conn') = Len(conn)
  BY <1>1, <1>3, SMTT(30)
<1> QED BY <1>2, <1>4, Zenon

\* All Conns are in conns_, or closed already.
LEMMA ReleaseAllProps ==
  ASSUME IInv, OneThread, ReleaseAll
  PROVE  /\ Older /\ \A d \in Conns : conn'[d].st = "closed"
         /\ conns' \in [Fds -> 0..Len(conn')] /\ \A f \in Fds : conns'[f] = 0
         /\ shut' \in [Polls -> BOOLEAN] /\ started' = FALSE /\ cpc' = "done"
<1>1. TypeOK /\ Alone
  BY Zenon DEF IInv, NoStaleEntry
<1>2. conn' = [c \in Conns |->
               IF c \in Known THEN [conn[c] EXCEPT !.st = "closed"] ELSE conn[c]]
  BY DEF ReleaseAll
<1>3. /\ DOMAIN conn' = Conns /\ conn' = [c \in Conns |-> conn'[c]]
      /\ \A c \in Conns : conn'[c] =
           IF c \in Known THEN [conn[c] EXCEPT !.st = "closed"] ELSE conn[c]
  BY <1>2, Zenon
<1>4. "closed" \in ConnState
  BY DEF ConnState
<1>5. /\ conn' \in Seq(ConnRecord) /\ Len(conn') = Len(conn)
      /\ \A d \in Conns : conn'[d].fd = conn[d].fd /\ conn'[d].poll = conn[d].poll
  <2>1. \A c \in Conns : conn'[c] \in {conn[c], [conn[c] EXCEPT !.st = "closed"]}
    BY <1>3, Zenon
  <2>2. DOMAIN conn' = Conns /\ conn' = [c \in Conns |-> conn'[c]]
    BY <1>3, Zenon
  <2> QED BY <1>1, <1>4, <2>1, <2>2, AllStates, Zenon
<1>6. ASSUME NEW d \in Conns PROVE conn'[d].st = "closed"
  <2>1. conn[d] \in ConnRecord /\ d # 0
    BY <1>1, ConnsType, ElementOfSeq, SMTT(30) DEF Conns
  <2>2. conn[d].fd \in Fds
    BY <2>1 DEF ConnRecord
  <2>3. conn[d].st # "closed" => d \in Known
    BY <1>1, <2>1, <2>2, Zenon DEF Alone, Known
  <2>4. CASE d \in Known
    <3>1. conn'[d] = [conn[d] EXCEPT !.st = "closed"]
      BY <1>3, <2>4, Zenon
    <3> QED BY <2>1, <3>1, SMTT(30) DEF ConnRecord
  <2>5. CASE d \notin Known
    BY <1>3, <2>3, <2>5, ZenonT(60)
  <2> QED BY <2>4, <2>5, SMTT(30)
<1>7. \A d \in Conns : ~HasFd(d)'
  BY <1>6, SMTT(30) DEF HasFd
<1>8. Older
  BY <1>5, <1>7, Zenon DEF Older
<1>9. conns' \in [Fds -> 0..Len(conn')] /\ \A f \in Fds : conns'[f] = 0
  <2>1. 0 \in 0..Len(conn')
    BY <1>1, <1>5, ConnsType, SMTT(30)
  <2>2. conns' = [f \in Fds |-> 0]
    BY DEF ReleaseAll
  <2> QED BY <2>1, <2>2, ZenonT(60)
<1>10. shut' \in [Polls -> BOOLEAN] /\ started' = FALSE /\ cpc' = "done"
  BY <1>1, ZenonT(60) DEF ReleaseAll, TypeOK
<1> QED BY <1>6, <1>8, <1>9, <1>10, Zenon

LEMMA ReleaseIInv ==
  ASSUME IInv, OneThread, ReleaseAll, mpc \in {"ready", "loop", "callback"},
         mpc' \in {"ready", "loop", "callback"}, mpc' = "callback" => EndInCallback,
         closing[Main].c = 0, how' \in {"none", "shutdown", "close"}, ~listening', listening' \in BOOLEAN,
         UNCHANGED <<mode, batch, connecting, next, loop, tasks, closing, todo, pending>>
  PROVE  IInv'
<1>1. /\ Older /\ \A d \in Conns : conn'[d].st = "closed"
      /\ conns' \in [Fds -> 0..Len(conn')] /\ \A f \in Fds : conns'[f] = 0
      /\ shut' \in [Polls -> BOOLEAN] /\ started' = FALSE /\ cpc' = "done"
  BY ReleaseAllProps, Zenon
<1>2. TypeOK /\ Alone /\ MainPhases
  BY Zenon DEF IInv, NoStaleEntry
<1>3. connecting = 0 /\ mpc' \notin {"init", "failed", "dispatch", "insert"} /\ mpc' \in MainPc
  BY <1>2, SMTT(30) DEF MainPhases, MainPc
<1>4. TypeOK' /\ Conns' = Conns
  <2>1. {started, listening, pending}' \subseteq BOOLEAN /\ cpc' \in CloserPc
    BY <1>1, <1>2, Zenon DEF TypeOK, CloserPc
  <2> QED BY <1>1, <1>2, <1>3, <2>1, OlderTypes, ZenonT(60) DEF TypeOK
<1>5. NoStaleEntry' /\ Handles'
  BY <1>1, <1>4, HandlesKept, Zenon DEF NoStaleEntry
<1>6. MainPhases'
  BY <1>3, Zenon DEF MainPhases, OneThread
<1>7. \A p \in Polls : closing[p].c = 0
  <2>1. \A p \in Subs : closing[p].c = 0
    BY <1>2 DEF Alone, NotClosing
  <2> QED BY <2>1, MainIsPoll, ZenonT(60)
<1>8. InCleanup'
  BY <1>7, Zenon DEF InCleanup
<1>9. Alone'
  <2>1. \A d \in Conns : conn'[d].poll = Main
    BY <1>1, <1>2, ZenonT(60) DEF Older, Alone
  <2>2. \A d \in Conns : conn'[d].st # "closing"
    BY <1>1, SMTT(30)
  <2>3. /\ cpc' \in {"idle", "drain", "done"} /\ mpc' \notin {"init", "dispatch", "insert"} /\ ~started'
    BY <1>1, <1>3, SMTT(30)
  <2> QED BY <1>1, <1>2, <1>3, <1>4, <1>7, <2>1, <2>2, <2>3, ZenonT(60) DEF Alone
<1>10. OneThread' /\ ~PerThread'
  BY SMTT(30) DEF OneThread, PerThread
<1> QED BY <1>5, <1>6, <1>8, <1>9, <1>10, ZenonT(60) DEF IInv

LEMMA InApplicationProps ==
  ASSUME IInv, OneThread, InApplication \/ InConnCallback
  PROVE  mpc \in {"ready", "loop", "callback"} /\ closing[Main].c = 0
<1>1. CASE mpc = "ready"
  BY <1>1, SMTT(30) DEF IInv, Alone
<1>2. CASE Free(Main)
  BY <1>2, SMTT(30) DEF Free, NotClosing
<1>3. CASE InConnCallback
  BY <1>3, SMTT(30) DEF InConnCallback, NotClosing
<1> QED BY <1>1, <1>2, <1>3, SMTT(30) DEF InApplication

LEMMA ReleaseStepsIInv ==
  ASSUME IInv,
         \/ FinishShutdownAllOneThread
         \/ CloseAllOneThread
         \/ ShutdownAllOneThread /\ ConnectionCount = 0
  PROVE  IInv'
<1>1. OneThread /\ ReleaseAll
      /\ UNCHANGED <<mode, batch, connecting, next, loop, tasks, closing, todo, pending>>
  BY Zenon DEF FinishShutdownAllOneThread, CloseAllOneThread, ShutdownAllOneThread, ShuttingDown
<1>2. InApplication \/ InConnCallback
  BY Zenon DEF FinishShutdownAllOneThread, CloseAllOneThread, ShutdownAllOneThread, InApplication
<1>3. mpc \in {"ready", "loop", "callback"} /\ closing[Main].c = 0
  BY <1>1, <1>2, InApplicationProps, ZenonT(60)
<1>4. mpc' \in {"ready", "loop", "callback"} /\ (mpc' = "callback" => EndInCallback)
  BY <1>3, SMTT(30) DEF FinishShutdownAllOneThread, CloseAllOneThread, ShutdownAllOneThread
<1>5. how' \in {"none", "shutdown", "close"} /\ ~listening' /\ listening' \in BOOLEAN
  <2>1. CASE FinishShutdownAllOneThread
    <3>1. how' = how /\ listening' = listening /\ cpc = "drain"
      BY <2>1, SMTT(30) DEF FinishShutdownAllOneThread, ShuttingDown
    <3>2. ~listening /\ how \in {"none", "shutdown", "close"} /\ listening \in BOOLEAN
      BY <1>1, <3>1, SMTT(30) DEF IInv, NoStaleEntry, TypeOK, Alone
    <3> QED BY <3>1, <3>2, SMTT(30)
  <2>2. CASE CloseAllOneThread \/ ShutdownAllOneThread
    BY <2>2, Zenon DEF CloseAllOneThread, ShutdownAllOneThread, ShutdownInPoll
  <2> QED BY <2>1, <2>2, SMTT(30)
<1> QED BY <1>1, <1>3, <1>4, <1>5, ReleaseIInv, ZenonT(60)

\* shutdown() with connections left: they are closed for writing.
LEMMA ShutdownAllOneThreadIInv == ASSUME IInv, ShutdownAllOneThread, ConnectionCount # 0 PROVE IInv'
<1>1. /\ OneThread /\ (InApplication \/ InConnCallback) /\ listening' = FALSE /\ how' = "shutdown"
      /\ conn' = [c \in Conns |-> IF c \in Known /\ conn[c].st = "up"
                                  THEN [conn[c] EXCEPT !.st = "half"] ELSE conn[c]]
      /\ cpc' = "drain"
      /\ UNCHANGED <<mode, started, mpc, batch, connecting, next, conns, loop, shut, tasks, closing,
                     todo, pending>>
  BY Zenon DEF ShutdownAllOneThread, ShutdownInPoll
<1>2. TypeOK /\ Alone /\ MainPhases
  BY <1>1, Zenon DEF IInv, NoStaleEntry
<1>3. closing[Main].c = 0 /\ connecting = 0 /\ mpc \in {"ready", "loop", "callback"}
  BY <1>1, <1>2, InApplicationProps, SMTT(30) DEF MainPhases
<1>4. /\ DOMAIN conn' = Conns /\ conn' = [c \in Conns |-> conn'[c]]
      /\ \A c \in Conns : conn'[c] = IF c \in Known /\ conn[c].st = "up"
                                     THEN [conn[c] EXCEPT !.st = "half"] ELSE conn[c]
  BY <1>1, Zenon
<1>5. /\ conn' \in Seq(ConnRecord) /\ Len(conn') = Len(conn)
      /\ \A d \in Conns : conn'[d].fd = conn[d].fd /\ conn'[d].poll = conn[d].poll
  <2>1. "half" \in ConnState
    BY DEF ConnState
  <2>2. \A c \in Conns : conn'[c] \in {conn[c], [conn[c] EXCEPT !.st = "half"]}
    BY <1>4, Zenon
  <2>3. DOMAIN conn' = Conns /\ conn' = [c \in Conns |-> conn'[c]]
    BY <1>4, Zenon
  <2> QED BY <1>2, <2>1, <2>2, <2>3, AllStates, ZenonT(60)
<1>6. ASSUME NEW d \in Conns
      PROVE  /\ HasFd(d)' <=> HasFd(d)
             /\ conn'[d].st = "closing" <=> conn[d].st = "closing"
             /\ conn'[d].st = "closed" <=> conn[d].st = "closed"
  <2>1. CASE conn'[d] = conn[d]
    BY <2>1, Zenon DEF HasFd
  <2>2. CASE conn[d].st = "up" /\ conn'[d] = [conn[d] EXCEPT !.st = "half"]
    <3>1. conn[d] \in ConnRecord
      BY <1>2, ConnsType, ElementOfSeq, SMTT(30) DEF Conns
    <3>2. conn'[d].st = "half"
      BY <2>2, <3>1, SMTT(30) DEF ConnRecord
    <3> QED BY <2>2, <3>2, SMTT(30) DEF HasFd
  <2> QED BY <1>4, <2>1, <2>2, Zenon
<1>7. SameFds /\ Older
  BY <1>5, <1>6, Zenon DEF SameFds, Older
<1>8. TypeOK' /\ Conns' = Conns
  <2>1. {started, listening, pending}' \subseteq BOOLEAN /\ cpc' \in CloserPc
        /\ how' \in {"none", "shutdown", "close"}
    BY <1>1, <1>2, ZenonT(60) DEF TypeOK, CloserPc
  <2> QED BY <1>1, <1>2, <1>7, <2>1, OlderTypes, ZenonT(60) DEF TypeOK
<1>9. NoStaleEntry' /\ Handles'
  BY <1>1, <1>7, <1>8, SameEntries, HandlesKept, ZenonT(60)
<1>10. InCleanup'
  BY <1>1, <1>7, CleanupKept, Zenon DEF SameFds
<1>11. mpc \notin {"init", "failed"}
  BY <1>3, SMTT(30)
<1>12. MainPhases'
  BY <1>1, <1>3, <1>11, Zenon DEF MainPhases, OneThread
<1>13. Alone'
  <2>1. \A d \in Conns : conn'[d].poll = Main
    BY <1>2, <1>5, Zenon DEF Alone
  <2>2. \A d \in Conns : conn'[d].st # "closed" => conns'[conn'[d].fd] = d
    BY <1>1, <1>2, <1>5, <1>6, Zenon DEF Alone
  <2>3. \A d \in Conns : conn'[d].st = "closing" => closing'[Main].c = d
    BY <1>1, <1>2, <1>6, Zenon DEF Alone
  <2>4. cpc' \in {"idle", "drain", "done"} /\ cpc' # "done" /\ mpc' # "init" /\ ~listening'
        /\ closing'[Main].c = 0
    BY <1>1, <1>3, SMTT(30)
  <2> QED BY <1>1, <1>2, <1>8, <2>1, <2>2, <2>3, <2>4, ZenonT(60) DEF Alone
<1>14. OneThread' /\ ~PerThread'
  BY <1>1, SMTT(30) DEF OneThread, PerThread
<1> QED BY <1>9, <1>10, <1>12, <1>13, <1>14, ZenonT(60) DEF IInv

-----------------------------------------------------------------------------
(* The theorems.                                                           *)

LEMMA StutterIInv == IInv /\ UNCHANGED vars => IInv'
<1> SUFFICES ASSUME IInv, UNCHANGED vars PROVE IInv'
  BY SMTT(30)
<1>1. UNCHANGED <<mode, started, mpc, listening, batch, connecting, next, conn, conns, loop, shut,
                  tasks, closing, how, cpc, todo, pending>>
  BY SMTT(30) DEF vars, mainVars, pollVars, exitVars
<1>2. TypeOK'
  BY <1>1, SMTT(30) DEF IInv, NoStaleEntry, TypeOK, Conns
<1>3. MainPhases'
  BY <1>1, Zenon DEF IInv, MainPhases, OneThread
<1>4. PerThread => CloserPhases' /\ Ended'
  BY <1>1, ZenonT(60) DEF IInv, CloserPhases, Ended, AcceptorDown, Stopping
<1>5. OneThread => Alone'
  BY <1>1, ZenonT(60) DEF IInv, Alone, Conns
<1> QED BY <1>1, <1>2, <1>3, <1>4, <1>5, ControlIInv, ZenonT(60)

LEMMA CloserKeeps == IInv /\ Closer => IInv'
<1> SUFFICES ASSUME IInv, Closer PROVE IInv'
  OBVIOUS
<1>1. CASE ShutdownAcceptor
  BY <1>1, ShutdownAcceptorIInv, SMTT(30)
<1>2. ASSUME NEW c \in todo, ShutConn(c) \/ CleanConn(c) PROVE IInv'
  BY <1>2, PostConnIInv, SMTT(30)
<1>3. CASE Snapshot \/ ShutConnsDone \/ Drained \/ CleanConnsDone \/ JoinSubs
  BY <1>3, CloserStepsIInv, SMTT(30)
<1>4. CASE ClearConns
  BY <1>4, ClearConnsIInv
<1>5. ASSUME NEW p \in Subs, StopSub(p) PROVE IInv'
  BY <1>5, StopSubIInv, SMTT(30)
<1>6. CASE StopMain
  BY <1>6, StopMainIInv
<1> QED BY <1>1, <1>2, <1>3, <1>4, <1>5, <1>6, ZenonT(60) DEF Closer

LEMMA MainStepKeeps == IInv /\ MainStep => IInv'
<1> SUFFICES ASSUME IInv, MainStep PROVE IInv'
  OBVIOUS
<1>1. CASE StartReturnsFalse
  BY <1>1, StartReturnsFalseIInv, SMTT(30)
<1>2. CASE Run \/ RunEnter
  BY <1>2, RunIInv, RunEnterIInv, SMTT(30)
<1>3. CASE NewConnectionRefused \/ NewConnection
  BY <1>3, NewConnectionRefusedIInv, NewConnectionIInv, SMTT(30)
<1>4. CASE StartConnection \/ Admit \/ CallbackReturns \/ DispatchDone
  BY <1>4, StartConnectionIInv, DispatchIInv, SMTT(30)
<1>5. CASE Poll \/ PollReturns
  BY <1>5, PollIInv, SMTT(30)
<1> QED BY <1>1, <1>2, <1>3, <1>4, <1>5, ZenonT(60) DEF MainStep

\* Every step of the server keeps the inductive invariant.
THEOREM StepIInv == IInv /\ [Next]_vars => IInv'
<1> SUFFICES ASSUME IInv, [Next]_vars PROVE IInv'
  OBVIOUS
<1>1. CASE Start \/ StartFails
  BY <1>1, StartIInv, StartFailsIInv, SMTT(30)
<1>2. CASE MainStep
  BY <1>2, MainStepKeeps, SMTT(30)
<1>3. CASE HandleRead \/ HandleReadFails
  BY <1>3, HandleReadIInv, SMTT(30)
<1>4. ASSUME NEW p \in Subs, SubEnter(p) PROVE IInv'
  BY <1>4, SubEnterIInv, SMTT(30)
<1>5. ASSUME NEW p \in Polls, FinishClose(p) \/ RunTask(p) \/ LoopExit(p) PROVE IInv'
  BY <1>5, FinishCloseIInv, RunTaskIInv, LoopExitIInv, SMTT(30)
<1>6. ASSUME NEW c \in Conns, ConnEnds(c) PROVE IInv'
  BY <1>6, ConnEndsIInv, SMTT(30)
<1>7. CASE Shutdown \/ Close
  BY <1>7, ExitIInv, SMTT(30) DEF Shutdown, Close
<1>8. CASE Closer
  BY <1>8, CloserKeeps
<1>9. CASE FinishShutdownAllOneThread \/ CloseAllOneThread
  BY <1>9, ReleaseStepsIInv, SMTT(30)
<1>10. CASE ShutdownAllOneThread
  BY <1>10, ReleaseStepsIInv, ShutdownAllOneThreadIInv, SMTT(30)
<1>11. CASE UNCHANGED vars
  BY <1>11, StutterIInv, SMTT(30)
<1> QED BY <1>1, <1>2, <1>3, <1>4, <1>5, <1>6, <1>7, <1>8, <1>9, <1>10, <1>11, ZenonT(60) DEF Next

\* The inductive invariant holds in every state of the server.
THEOREM Invariance == Spec => []IInv
<1>1. IInv /\ [Next]_vars => IInv'
  BY StepIInv, SMTT(30)
<1> QED BY <1>1, InitIInv, PTL DEF Spec

LEMMA ModeCases == TypeOK => (PerThread /\ ~OneThread) \/ (OneThread /\ ~PerThread /\ SubPolls = {})
BY ServerAssumption, SMTT(30) DEF TypeOK, PerThread, OneThread, SubPolls

\* Server::add_conn_ and remove_conn_: an entry of conns_ is a Conn that has
\* this descriptor and has not been closed.
THEOREM EntriesValid == Spec => []NoStaleEntry
<1>1. IInv => NoStaleEntry
  BY SMTT(30) DEF IInv
<1> QED BY <1>1, Invariance, PTL

\* IOEventPoll::run: no closure is left in a poll that has ended, so nobody
\* waits for one that is never run.
THEOREM NothingOrphaned == Spec => []NoOrphan
<1>1. IInv => NoOrphan
  <2> SUFFICES ASSUME IInv PROVE NoOrphan
    BY SMTT(30)
  <2>1. CASE PerThread
    BY <2>1, Zenon DEF IInv, Ended, NoOrphan
  <2>2. CASE OneThread
    BY <2>2, ZenonT(60) DEF IInv, Alone, NoOrphan
  <2> QED BY <2>1, <2>2, ModeCases, ZenonT(60) DEF IInv, NoStaleEntry
<1> QED BY <1>1, Invariance, PTL

\* Server::shutdown and close: when they are through nothing is accepted any
\* more, the pool's threads have ended and conns_ is empty, unless they end it
\* in the connection callback of kAllOneThread.
THEOREM QuietDone == ASSUME ~EndInCallback PROVE Spec => []QuietWhenDone
<1>1. IInv => QuietWhenDone
  <2> SUFFICES ASSUME IInv, cpc = "done"
               PROVE  /\ ~listening
                      /\ \A p \in SubPolls : loop[p] = "exited" /\ tasks[p] = <<>>
                      /\ \A f \in Fds : conns[f] = 0
    BY Zenon DEF QuietWhenDone
  <2>1. CASE PerThread
    <3>1. AcceptorDown /\ Stopping
      BY DEF AcceptorDown, Stopping
    <3>2. CloserPhases /\ Ended
      BY <2>1, Zenon DEF IInv
    <3>3. \A p \in Subs : loop[p] = "exited"
      BY <3>2, SMTT(30) DEF CloserPhases
    <3>4. SubPolls \subseteq Subs /\ Subs \subseteq Polls
      BY DEF SubPolls, Polls, Subs
    <3> QED BY <3>1, <3>2, <3>3, <3>4, ZenonT(60) DEF CloserPhases, Ended
  <2>2. CASE OneThread /\ SubPolls = {}
    <3>1. Alone /\ cpc # "idle"
      BY <2>2, SMTT(30) DEF IInv
    <3> QED BY <2>2, <3>1, ZenonT(60) DEF Alone
  <2> QED BY <2>1, <2>2, ModeCases, Zenon DEF IInv, NoStaleEntry
<1> QED BY <1>1, Invariance, PTL

\* Server::shutdown and close: ... and every Conn has been closed, but for
\* those of kOnePollPerThread whose descriptor an earlier Conn has had, whose
\* entry that Conn's late remove_conn_ may have erased; under the same
\* condition.
THEOREM FirstReleased == ASSUME ~EndInCallback PROVE Spec => []FirstUseReleased
<1>1. IInv => FirstUseReleased
  <2> SUFFICES ASSUME IInv, cpc = "done", NEW c \in Conns, conn[c].st # "closed"
               PROVE  PerThread /\ \E d \in 1..(c - 1) : conn[d].fd = conn[c].fd
    BY ZenonT(60) DEF FirstUseReleased
  <2>1. TypeOK /\ c # 0 /\ conn[c].fd \in Fds
    <3>1. TypeOK
      BY SMTT(30) DEF IInv, NoStaleEntry
    <3>2. conn[c] \in ConnRecord
      BY <3>1, ConnsType, ElementOfSeq, SMTT(30) DEF Conns
    <3> QED BY <3>1, <3>2, SMTT(30) DEF ConnRecord, Conns
  <2>2. CASE PerThread
    <3>1. Queues /\ CloserPhases /\ Ended /\ Accounted
      BY <2>2, ZenonT(60) DEF IInv
    <3>2. conns[conn[c].fd] # c
      BY <2>1, <3>1, SMTT(30) DEF CloserPhases, Stopping
    <3>3. \A p \in Subs : tasks[p] = <<>> /\ closing[p] = NotClosing
      <4>1. \A p \in Subs : p \in Polls /\ loop[p] = "exited"
        BY <3>1, SMTT(30) DEF CloserPhases, Polls, Subs
      <4> QED BY <3>1, <4>1, ZenonT(60) DEF Ended
    <3>4. \A p \in Polls : p = Main \/ p \in Subs
      BY ServerAssumption, SMTT(30) DEF Main, Polls, Subs
    <3>5. ASSUME NEW p \in Polls PROVE ~CleanIn(tasks[p], c)
      <4>1. CASE p = Main
        <5>1. \A i \in 1..Len(tasks[p]) : tasks[p][i].op = "acceptor"
          BY <3>1, <4>1, Zenon DEF Queues
        <5> QED BY <5>1, SMTT(30) DEF CleanIn
      <4>2. CASE p \in Subs
        BY <3>3, <4>2, SMTT(30) DEF CleanIn
      <4> QED BY <3>4, <4>1, <4>2, SMTT(30)
    <3>6. NotClosing.c = 0
      BY DEF NotClosing
    <3>7. \A p \in Polls : closing[p].c # c
      BY <2>1, <3>1, <3>3, <3>4, <3>6, ZenonT(60) DEF Queues
    <3>8. HasFd(c)
      <4>1. conn[c].st # "closing"
        BY <3>1, <3>7, ZenonT(60) DEF Accounted
      <4>2. conn[c] \in ConnRecord
        BY <2>1, ConnsType, ElementOfSeq, SMTT(30) DEF Conns
      <4> QED BY <4>1, <4>2, SMTT(30) DEF HasFd, ConnRecord, ConnState
    <3>9. cpc # "cleanConns"
      OBVIOUS
    <3> QED BY <2>2, <3>1, <3>2, <3>5, <3>8, <3>9, ZenonT(60) DEF Accounted
  <2>3. CASE OneThread
    <3>1. Alone
      BY <2>3, Zenon DEF IInv
    <3> QED BY <2>1, <3>1, ZenonT(60) DEF Alone
  <2> QED BY <2>1, <2>2, <2>3, ModeCases, Zenon
<1> QED BY <1>1, Invariance, PTL

-----------------------------------------------------------------------------
(* max_connections_.                                                       *)

INSTANCE FiniteSetTheorems

\* The descriptors conns_ has an entry for.
InTable == {f \in Fds : conns[f] # 0}

\* There are finitely many, so that their number is one to compare with; and
\* between the two locks of on_new_connection_ there is still room for one.
LimitInv ==
  /\ conns = [f \in Fds |-> conns[f]]
  /\ IsFiniteSet(InTable)
  /\ LimitKept
  /\ mpc = "insert" => ~LimitReached

\* What an operation may do to conns_, and who gets between the locks.
Insert == mpc = "insert" /\ mpc' # "insert" /\ \E f, c : conns' = [conns EXCEPT ![f] = c]
Tested == mpc' = "insert" => mpc = "insert" \/ ~LimitReached
Erase  == \E f : conns' = [conns EXCEPT ![f] = 0]
Empty  == conns' = [f \in Fds |-> 0]

LEMMA InsertKeeps == LimitInv /\ Insert => LimitInv'
<1> SUFFICES ASSUME LimitInv, mpc = "insert", mpc' # "insert",
                    NEW f, NEW c, conns' = [conns EXCEPT ![f] = c]
             PROVE  LimitInv'
  BY Zenon DEF Insert
<1>1. conns' = [g \in Fds |-> conns'[g]] /\ \A g \in Fds : g # f => conns'[g] = conns[g]
  BY ZenonT(60) DEF LimitInv
<1>2. InTable' \subseteq InTable \cup {f}
  BY <1>1, SMTT(30) DEF InTable
<1>3. IsFiniteSet(InTable \cup {f}) /\ Cardinality(InTable \cup {f}) <= Cardinality(InTable) + 1
  <2>1. IsFiniteSet(InTable) /\ Cardinality(InTable) \in Nat
    BY FS_CardinalityType, SMTT(30) DEF LimitInv
  <2>2. IsFiniteSet(InTable \cup {f})
        /\ Cardinality(InTable \cup {f}) \in {Cardinality(InTable), Cardinality(InTable) + 1}
    BY <2>1, FS_AddElement, ZenonT(60)
  <2> QED BY <2>1, <2>2, SMTT(30)
<1>4. IsFiniteSet(InTable') /\ Cardinality(InTable') <= Cardinality(InTable \cup {f})
  BY <1>2, <1>3, FS_Subset, SMTT(30)
<1>5. {Cardinality(InTable'), Cardinality(InTable \cup {f}), Cardinality(InTable)} \subseteq Nat
  BY <1>3, <1>4, FS_CardinalityType, SMTT(30) DEF LimitInv
<1>6. LimitKept'
  <2>1. ~LimitReached
    BY Zenon DEF LimitInv
  <2> QED BY <1>3, <1>4, <1>5, <2>1, ServerAssumption, SMTT(30)
          DEF LimitKept, LimitReached, ConnectionCount, InTable
<1> QED BY <1>1, <1>4, <1>6, ZenonT(60) DEF LimitInv

LEMMA ShrinkKeeps ==
  ASSUME LimitInv, Tested, conns' = [g \in Fds |-> conns'[g]],
         \A g \in Fds : conns'[g] \in {conns[g], 0}
  PROVE  LimitInv'
<1>1. InTable' \subseteq InTable
  BY SMTT(30) DEF InTable
<1>2. IsFiniteSet(InTable') /\ Cardinality(InTable') <= Cardinality(InTable)
  BY <1>1, FS_Subset, SMTT(30) DEF LimitInv
<1>3. {Cardinality(InTable'), Cardinality(InTable)} \subseteq Nat
  BY <1>2, FS_CardinalityType, SMTT(30) DEF LimitInv
<1>4. LimitKept'
  BY <1>2, <1>3, ServerAssumption, SMTT(30) DEF LimitInv, LimitKept, ConnectionCount, InTable
<1>5. ~LimitReached => ~LimitReached'
  BY <1>2, <1>3, ServerAssumption, SMTT(30) DEF LimitReached, ConnectionCount, InTable
<1>6. mpc' = "insert" => ~LimitReached'
  BY <1>5, Zenon DEF LimitInv, Tested
<1> QED BY <1>2, <1>4, <1>6, ZenonT(60) DEF LimitInv

LEMMA OtherKeeps == LimitInv /\ Tested /\ (Erase \/ Empty \/ UNCHANGED conns) => LimitInv'
<1>1. ASSUME LimitInv, Tested, NEW f, conns' = [conns EXCEPT ![f] = 0] PROVE LimitInv'
  <2>1. conns' = [g \in Fds |-> conns'[g]] /\ \A g \in Fds : conns'[g] \in {conns[g], 0}
    BY <1>1, Zenon DEF LimitInv
  <2> QED BY <1>1, <2>1, ShrinkKeeps, ZenonT(60)
<1>2. ASSUME LimitInv, Tested, Empty \/ UNCHANGED conns PROVE LimitInv'
  <2>1. conns' = [g \in Fds |-> conns'[g]] /\ \A g \in Fds : conns'[g] \in {conns[g], 0}
    BY <1>2, ZenonT(60) DEF LimitInv, Empty
  <2> QED BY <1>2, <2>1, ShrinkKeeps, ZenonT(60)
<1> QED BY <1>1, <1>2, ZenonT(60) DEF Erase

\* Every step does one of these: only NewConnection makes an entry, and only
\* Admit lets it.
LEMMA StepKinds == [Next]_vars => Insert \/ (Tested /\ (Erase \/ Empty \/ UNCHANGED conns))
<1> DEFINE Stays == mpc' = mpc \/ mpc' # "insert"
<1> SUFFICES ASSUME [Next]_vars
             PROVE  Insert \/ (Tested /\ (Erase \/ Empty \/ UNCHANGED conns))
  BY SMTT(30)
<1>1. CASE Start \/ StartFails \/ HandleRead \/ HandleReadFails
  <2>1. UNCHANGED conns /\ (UNCHANGED mpc \/ mpc' \in {"ready", "failed", "dispatch"})
    BY <1>1, ZenonT(60) DEF Start, StartFails, HandleRead, HandleReadFails
  <2> QED BY <2>1, SMTT(30) DEF Tested
<1>2. CASE NewConnection
  <2>1. mpc = "insert" /\ mpc' = "dispatch" /\ \E f, c : conns' = [conns EXCEPT ![f] = c]
    BY <1>2, ZenonT(60) DEF NewConnection
  <2> QED BY <2>1, ZenonT(60) DEF Insert
<1>3. CASE Admit
  BY <1>3, ZenonT(60) DEF Admit, Tested
<1>4. CASE MainStep /\ ~NewConnection /\ ~Admit
  <2>1. /\ UNCHANGED conns
        /\ UNCHANGED mpc \/ mpc' \in {"returned", "enter", "loop", "ready", "dispatch", "callback"}
    <3>1. CASE StartReturnsFalse \/ Run \/ RunEnter \/ NewConnectionRefused
      BY <3>1, ZenonT(60) DEF StartReturnsFalse, Run, RunEnter, NewConnectionRefused
    <3>2. CASE StartConnection \/ CallbackReturns \/ DispatchDone \/ Poll \/ PollReturns
      BY <3>2, ZenonT(60) DEF StartConnection, CallbackReturns, DispatchDone, Poll, PollReturns
    <3> QED BY <1>4, <3>1, <3>2, ZenonT(60) DEF MainStep
  <2> QED BY <2>1, SMTT(30) DEF Tested
<1>5. ASSUME NEW p \in Polls, FinishClose(p) PROVE Erase /\ Stays
  BY <1>5, ZenonT(60) DEF FinishClose, OnConnClose, Erase, mainVars
<1>6. ASSUME NEW p \in Polls, SubEnter(p) \/ RunTask(p) \/ LoopExit(p)
      PROVE  UNCHANGED conns /\ Stays
  <2>1. UNCHANGED conns /\ mpc' \in {mpc, "returned"}
    BY <1>6, ZenonT(60) DEF SubEnter, RunTask, LoopExit, mainVars
  <2> QED BY <2>1, SMTT(30)
<1>7. ASSUME NEW c \in Conns, ConnEnds(c) PROVE UNCHANGED <<conns, mpc>>
  BY <1>7, ZenonT(60) DEF ConnEnds, mainVars
<1>8. CASE Shutdown \/ Close
  BY <1>8, ZenonT(60) DEF Shutdown, Close, Exit, Tested
<1>9. ASSUME Closer PROVE (Empty \/ UNCHANGED conns) /\ UNCHANGED mpc
  <2>1. CASE ShutdownAcceptor \/ Snapshot \/ ShutConnsDone \/ Drained \/ CleanConnsDone
             \/ JoinSubs \/ StopMain
    BY <2>1, ZenonT(60) DEF ShutdownAcceptor, Snapshot, ShutConnsDone, Drained, CleanConnsDone, JoinSubs,
                       StopMain, mainVars
  <2>2. ASSUME NEW c, ShutConn(c) \/ CleanConn(c) PROVE UNCHANGED <<conns, mpc>>
    BY <2>2, ZenonT(60) DEF ShutConn, CleanConn, mainVars
  <2>3. CASE ClearConns
    BY <2>3, ZenonT(60) DEF ClearConns, Empty, mainVars
  <2>4. ASSUME NEW p, StopSub(p) PROVE UNCHANGED <<conns, mpc>>
    BY <2>4, ZenonT(60) DEF StopSub, mainVars
  <2> QED BY <1>9, <2>1, <2>2, <2>3, <2>4, ZenonT(60) DEF Closer
<1>10. CASE FinishShutdownAllOneThread \/ ShutdownAllOneThread \/ CloseAllOneThread
  <2>1. (Empty \/ UNCHANGED conns) /\ mpc' \in {mpc, "ready"}
    BY <1>10, ZenonT(60) DEF FinishShutdownAllOneThread, ShutdownAllOneThread, CloseAllOneThread,
                       ReleaseAll, Empty
  <2>2. Tested
    BY <2>1, SMTT(30) DEF Tested
  <2> QED BY <2>1, <2>2, Zenon
<1>11. UNCHANGED vars => UNCHANGED <<conns, mpc>>
  BY SMTT(30) DEF vars, mainVars
<1>12. Subs \subseteq Polls
  BY ServerAssumption, SMTT(30) DEF Subs, Polls
<1>13. Stays \/ UNCHANGED <<conns, mpc>> => Tested
  BY Zenon DEF Tested
<1> HIDE DEF Stays
<1>14. CASE (\E p \in Subs : SubEnter(p)) \/ (\E p \in Polls : FinishClose(p) \/ RunTask(p) \/ LoopExit(p))
             \/ (\E c \in Conns : ConnEnds(c)) \/ Closer \/ UNCHANGED vars
  <2>1. CASE \E p \in Polls : FinishClose(p)
    BY <1>5, <1>13, <2>1, Zenon
  <2>2. CASE \/ \E p \in Subs : SubEnter(p)
             \/ \E p \in Polls : RunTask(p) \/ LoopExit(p)
    BY <1>6, <1>12, <1>13, <2>2, Zenon
  <2>3. CASE (\E c \in Conns : ConnEnds(c)) \/ Closer \/ UNCHANGED vars
    BY <1>7, <1>9, <1>11, <2>3, Zenon DEF Tested
  <2> QED BY <1>14, <2>1, <2>2, <2>3, Zenon
<1> QED BY <1>1, <1>2, <1>3, <1>4, <1>8, <1>10, <1>14, ZenonT(60) DEF Next

\* Server::on_new_connection_: max_connections_ is never exceeded, although
\* it is compared with the number of connections under one lock and the entry
\* is made under another, and connections are erased and the table emptied by
\* other threads in between.
THEOREM LimitHolds == Spec => []LimitKept
<1>1. Init => LimitInv
  <2> SUFFICES ASSUME Init PROVE LimitInv
    BY SMTT(30)
  <2>1. conns = [f \in Fds |-> 0]
    BY SMTT(30) DEF Init
  <2>2. InTable = {}
    BY <2>1, SMTT(30) DEF InTable
  <2>3. ConnectionCount = 0 /\ IsFiniteSet(InTable)
    BY <2>2, FS_EmptySet, SMTT(30) DEF ConnectionCount, InTable
  <2>4. mpc # "insert"
    BY SMTT(30) DEF Init
  <2> QED BY <2>1, <2>3, <2>4, ServerAssumption, SMTT(30) DEF LimitInv, LimitKept
<1>2. LimitInv /\ [Next]_vars => LimitInv'
  BY StepKinds, InsertKeeps, OtherKeeps, ZenonT(60)
<1>3. LimitInv => LimitKept
  BY DEF LimitInv
<1> QED BY <1>1, <1>2, <1>3, PTL DEF Spec
=============================================================================
