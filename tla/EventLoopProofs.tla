-------------------------- MODULE EventLoopProofs --------------------------
(***************************************************************************)
(* Proofs about EventLoop, for any set of threads, whoever constructs and  *)
(* whoever runs the loop, with run() or with poll(), and for any number of *)
(* closures.                                                               *)
(***************************************************************************)
EXTENDS EventLoop, SequenceTheorems, TLAPS

-----------------------------------------------------------------------------
(* The inductive invariant.                                                *)

\* s and then u hold the ranks after l up to p.
Consecutive(s, u, l, p) ==
  /\ p = l + Len(s) + Len(u)
  /\ \A i \in 1..Len(s) : s[i] = l + i
  /\ \A i \in 1..Len(u) : u[i] = l + Len(s) + i

\* InOrderOnce, one element at a time.
Ranks == Consecutive(batch, tasks, lastRun, posted)

\* A batch exists only while its closures are being run, and run() leaves
\* its polling loop only because of shut_.
Phases ==
  /\ batch # <<>> => loop \in {"exec", "task", "drainExec", "drainTask"}
  /\ loop \in {"drain", "drainExec", "drainTask", "exited"} => shut

\* Wherever the Runner may still block before it takes the queued closures,
\* a wakeup is in the eventfd or on its way.
TasksWake ==
  (tasks # <<>> /\ loop \in BeforeWait /\ (loop = "check" => ~shut)) =>
    WakeupReady \/ \E t \in Threads : pc[t] = "notify"

\* A Runner in epoll_wait is going to learn of shut_.
ShutWakes ==
  (shut /\ loop = "wait") =>
    WakeupReady \/ \E t \in Threads : pc[t] = "shutNotify"

IInv == TypeOK /\ Ranks /\ Phases /\ TasksWake /\ ShutWakes

-----------------------------------------------------------------------------
(* Facts about sequences of consecutive ranks.                             *)

\* The ranks after l up to p.
Span(l, p) == [i \in 1..(p - l) |-> l + i]

\* What Ranks says of the two halves is what InOrderOnce says of the whole.
LEMMA RanksInOrder ==
  ASSUME NEW s \in Seq(Nat), NEW u \in Seq(Nat), NEW l \in Nat, NEW p \in Nat,
         Consecutive(s, u, l, p)
  PROVE  s \o u = Span(l, p)
<1> USE DEF Consecutive
<1>1. /\ s \o u \in Seq(Nat)
      /\ Len(s \o u) = Len(s) + Len(u)
      /\ \A i \in 1..(Len(s) + Len(u)) :
           (s \o u)[i] = IF i <= Len(s) THEN s[i] ELSE u[i - Len(s)]
  BY ConcatProperties
<1>2. Len(s) \in Nat /\ Len(u) \in Nat /\ p - l = Len(s) + Len(u)
  BY LenProperties
<1>3. s \o u = [i \in 1..(p - l) |-> (s \o u)[i]]
  BY <1>1, <1>2, LenProperties, Zenon
<1>4. ASSUME NEW i \in 1..(p - l)
      PROVE  (s \o u)[i] = l + i
  <2>1. CASE i <= Len(s)
    BY <2>1, <1>1, <1>2
  <2>2. CASE ~(i <= Len(s))
    <3>1. i - Len(s) \in 1..Len(u)
      BY <2>2, <1>2
    <3>2. (s \o u)[i] = l + Len(s) + (i - Len(s))
      BY <3>1, <2>2, <1>1, <1>2
    <3> QED BY <3>2, <1>2
  <2> QED BY <2>1, <2>2
<1> QED BY <1>3, <1>4, Zenon DEF Span

\* How Span grows at its end and shrinks at its front.
LEMMA SpanSteps ==
  ASSUME NEW l \in Nat, NEW p \in Nat, l <= p
  PROVE  /\ Span(l, p) \in Seq(Nat)
         /\ Len(Span(l, p)) = p - l
         /\ Append(Span(l, p), p + 1) = Span(l, p + 1)
         /\ l = p => Span(l, p) = <<>>
         /\ l < p => /\ Span(l, p) # <<>>
                     /\ Head(Span(l, p)) = l + 1
                     /\ Tail(Span(l, p)) = Span(l + 1, p)
<1>1. Span(l, p) \in Seq(Nat) /\ Len(Span(l, p)) = p - l
  BY DEF Span
<1>2. Append(Span(l, p), p + 1) = Span(l, p + 1)
  <2>1. /\ Append(Span(l, p), p + 1) \in Seq(Nat)
        /\ Len(Append(Span(l, p), p + 1)) = (p + 1) - l
        /\ \A i \in 1..Len(Span(l, p)) :
             Append(Span(l, p), p + 1)[i] = Span(l, p)[i]
        /\ Append(Span(l, p), p + 1)[Len(Span(l, p)) + 1] = p + 1
    BY <1>1, AppendProperties
  <2>2. Span(l, p + 1) \in Seq(Nat) /\ Len(Span(l, p + 1)) = (p + 1) - l
    BY DEF Span
  <2>3. \A i \in 1..((p + 1) - l) :
          Append(Span(l, p), p + 1)[i] = Span(l, p + 1)[i]
    BY <2>1, <1>1 DEF Span
  <2> QED BY <2>1, <2>2, <2>3, SeqEqual, Zenon
<1>3. l = p => Span(l, p) = <<>>
  BY <1>1, EmptySeq
<1>4. ASSUME l < p
      PROVE  /\ Span(l, p) # <<>>
             /\ Head(Span(l, p)) = l + 1
             /\ Tail(Span(l, p)) = Span(l + 1, p)
  <2>1. Span(l, p) # <<>>
    BY <1>1, <1>4
  <2>2. Head(Span(l, p)) = l + 1
    BY <1>1, <1>4 DEF Span
  <2>3. /\ Tail(Span(l, p)) \in Seq(Nat)
        /\ Len(Tail(Span(l, p))) = p - (l + 1)
        /\ \A i \in 1..(p - (l + 1)) :
             Tail(Span(l, p))[i] = Span(l, p)[i + 1]
    BY <1>1, <1>4, <2>1, HeadTailProperties
  <2>4. Span(l + 1, p) \in Seq(Nat) /\ Len(Span(l + 1, p)) = p - (l + 1)
    BY <1>4 DEF Span
  <2>5. \A i \in 1..(p - (l + 1)) : Tail(Span(l, p))[i] = Span(l + 1, p)[i]
    BY <2>3, <1>4 DEF Span
  <2> QED BY <2>1, <2>2, <2>3, <2>4, <2>5, SeqEqual, Zenon
<1> QED BY <1>1, <1>2, <1>3, <1>4

-----------------------------------------------------------------------------
(* The invariant is inductive.                                             *)

\* The constructor establishes the invariant.
LEMMA InitIInv == Init => IInv
<1> SUFFICES ASSUME Init PROVE IInv
  OBVIOUS
<1> USE DEF Init
<1>1. TypeOK
  BY EventLoopAssumption, EmptySeq, Zenon DEF TypeOK, LoopLabels, InCallback, PcLabels
<1>2. Ranks
  BY EmptySeq DEF Ranks, Consecutive
<1>3. Phases /\ TasksWake /\ ShutWakes
  BY DEF Phases, TasksWake, ShutWakes
<1> QED BY <1>1, <1>2, <1>3 DEF IInv

\* Every step keeps the invariant.  The steps that could break it: a push
\* (TasksWake: the pushing thread still has its notification to do), a store
\* of shut_ (ShutWakes, likewise), the way back to epoll_wait (TasksWake: the
\* swap emptied tasks_ after the eventfd was read, so what is in tasks_ now
\* was notified later), and a drained batch (Check will see shut_ again).
LEMMA StepIInv == IInv /\ [Next]_vars => IInv'
<1> SUFFICES ASSUME IInv, [Next]_vars PROVE IInv'
  OBVIOUS
<1> USE EventLoopAssumption DEF IInv
<1>a. ASSUME NEW t \in Threads, RunInPollInline(t) \/ InlineReturns(t)
                                \/ RunInPollQueued(t) \/ RunLater(t)
                                \/ ShutdownLoad(t)
      PROVE  IInv'
  <2> pc[t] \in {"idle", "inline"} /\ UNCHANGED <<queueVars, shut, loopVars, counter, edge>>
    BY <1>a DEF RunInPollInline, InlineReturns, RunInPollQueued, RunLater,
                ShutdownLoad, CanCall
  <2> \E x \in PcLabels : pc' = [pc EXCEPT ![t] = x]
    BY <1>a DEF RunInPollInline, InlineReturns, RunInPollQueued, RunLater,
                ShutdownLoad, Goto, PcLabels
  <2>1. TypeOK'
    BY DEF TypeOK, queueVars, loopVars
  <2>2. Ranks' /\ Phases'
    BY DEF Ranks, Consecutive, Phases, queueVars, loopVars
  <2>3. TasksWake' /\ ShutWakes'
    BY DEF TasksWake, ShutWakes, WakeupReady, queueVars, loopVars, TypeOK
  <2> QED BY <2>1, <2>2, <2>3
<1>b. ASSUME NEW t \in Threads, Push(t) PROVE IInv'
  <2> USE <1>b DEF Push, loopVars, Goto
  <2>1. TypeOK'
    BY AppendProperties DEF TypeOK, PcLabels
  <2>2. Ranks'
    <3>1. /\ Len(tasks') = Len(tasks) + 1
          /\ \A i \in 1..Len(tasks) : tasks'[i] = tasks[i]
          /\ tasks'[Len(tasks) + 1] = posted + 1
          /\ Len(tasks) \in Nat /\ Len(batch) \in Nat /\ lastRun \in Nat
      BY AppendProperties, LenProperties DEF TypeOK
    <3>2. posted' = posted + 1 /\ UNCHANGED <<batch, lastRun>>
      OBVIOUS
    <3>3. ASSUME NEW i \in 1..(Len(tasks) + 1)
          PROVE  tasks'[i] = lastRun + Len(batch) + i
      <4>1. CASE i = Len(tasks) + 1
        BY <4>1, <3>1 DEF Ranks, Consecutive
      <4>2. CASE i \in 1..Len(tasks)
        BY <4>2, <3>1, Zenon DEF Ranks, Consecutive
      <4> QED BY <4>1, <4>2, <3>1
    <3>4. posted' = lastRun' + Len(batch') + Len(tasks')
      BY <3>1, <3>2 DEF Ranks, Consecutive
    <3> HIDE DEF Push
    <3> QED BY <3>1, <3>2, <3>3, <3>4 DEF Ranks, Consecutive
  <2>3. Phases'
    BY DEF Phases
  <2>4. pc'[t] = "notify" /\ (\A u \in Threads : pc[u] = "shutNotify" => pc'[u] = "shutNotify")
    BY DEF TypeOK
  <2>5. TasksWake' /\ ShutWakes'
    BY <2>4 DEF TasksWake, ShutWakes, WakeupReady
  <2> QED BY <2>1, <2>2, <2>3, <2>5
<1>c. ASSUME NEW t \in Threads, Notify(t) \/ ShutdownNotify(t) PROVE IInv'
  <2> USE <1>c DEF Notify, ShutdownNotify, NotifyWakeup, queueVars, loopVars, Goto
  <2>1. TypeOK'
    BY Zenon DEF TypeOK, PcLabels
  <2>2. Ranks' /\ Phases'
    BY DEF Ranks, Consecutive, Phases
  <2>3. TasksWake' /\ ShutWakes'
    BY DEF TasksWake, ShutWakes, WakeupReady
  <2> QED BY <2>1, <2>2, <2>3
<1>d. ASSUME NEW t \in Threads, ShutdownStore(t) PROVE IInv'
  <2> USE <1>d DEF ShutdownStore, queueVars, loopVars, Goto
  <2>1. TypeOK'
    BY DEF TypeOK, PcLabels
  <2>2. Ranks' /\ Phases'
    BY DEF Ranks, Consecutive, Phases
  <2>3. pc'[t] = "shutNotify" /\ (\A u \in Threads : pc[u] = "notify" => pc'[u] = "notify")
    BY DEF TypeOK
  <2>4. TasksWake' /\ ShutWakes'
    BY <2>3 DEF TasksWake, ShutWakes, WakeupReady
  <2> QED BY <2>1, <2>2, <2>4
<1>e. CASE RunStart \/ PollStart \/ Check
  <2> USE <1>e DEF RunStart, PollStart, Check, AtLoop, queueVars
  <2>1. TypeOK'
    BY Zenon DEF TypeOK, LoopLabels, InCallback
  <2>2. Ranks' /\ Phases'
    BY DEF Ranks, Consecutive, Phases
  <2>3. TasksWake' /\ ShutWakes'
    BY DEF TasksWake, ShutWakes, WakeupReady, BeforeWait
  <2> QED BY <2>1, <2>2, <2>3
<1>f. CASE WaitEvents \/ WaitTimeout \/ WaitError
  <2> USE <1>f DEF WaitEvents, WaitTimeout, WaitError, AtLoop, queueVars
  <2>1. TypeOK'
    BY Zenon DEF TypeOK, LoopLabels, InCallback
  <2>2. Ranks' /\ Phases'
    BY DEF Ranks, Consecutive, Phases
  <2>3. TasksWake' /\ ShutWakes'
    BY DEF TasksWake, ShutWakes, BeforeWait
  <2> QED BY <2>1, <2>2, <2>3
<1>g. CASE HandleWakeup \/ HandleIo \/ IoReturns \/ DispatchDone
  <2> USE <1>g DEF HandleWakeup, HandleIo, IoReturns, DispatchDone, AtLoop, queueVars
  <2>1. TypeOK'
    BY Zenon DEF TypeOK, LoopLabels, InCallback
  <2>2. Ranks' /\ Phases'
    BY DEF Ranks, Consecutive, Phases
  <2>3. TasksWake' /\ ShutWakes'
    BY DEF TasksWake, ShutWakes, BeforeWait
  <2> QED BY <2>1, <2>2, <2>3
<1>h. ASSUME TakeTasks, batch = <<>> PROVE Ranks'
  BY <1>h, EmptySeq, LenProperties DEF TakeTasks, Ranks, Consecutive, TypeOK
<1>i. CASE Swap
  <2> USE <1>i DEF Swap, AtLoop
  <2>1. TypeOK'
    BY EmptySeq DEF TypeOK, TakeTasks, LoopLabels, InCallback
  <2>2. Ranks'
    BY <1>h DEF Phases
  <2>3. Phases' /\ TasksWake' /\ ShutWakes'
    BY DEF TakeTasks, Phases, TasksWake, ShutWakes
  <2> QED BY <2>1, <2>2, <2>3
<1>j. CASE Drain
  <2> USE <1>j DEF Drain, AtLoop, queueVars
  <2>1. TypeOK'
    BY EmptySeq, Zenon DEF TypeOK, TakeTasks, LoopLabels, InCallback
  <2>2. Ranks'
    BY <1>h DEF Phases, Ranks, Consecutive
  <2>3. Phases' /\ TasksWake' /\ ShutWakes'
    BY DEF TakeTasks, Phases, TasksWake, ShutWakes, BeforeWait
  <2> QED BY <2>1, <2>2, <2>3
<1>k. CASE ExecTask \/ DrainTask
  <2>1. /\ batch # <<>> /\ lastRun' = Head(batch) /\ batch' = Tail(batch)
        /\ UNCHANGED <<tasks, posted, shut, threadId, inRun, active, perr,
                       counter, edge, pc>>
        /\ \/ loop = "exec" /\ loop' = "task"
           \/ loop = "drainExec" /\ loop' = "drainTask"
    BY <1>k DEF ExecTask, DrainTask, RunTask, AtLoop
  <2>2. batch \in Seq(Nat) /\ tasks \in Seq(Nat) /\ lastRun \in Nat
    BY DEF TypeOK
  <2>3. /\ Head(batch) \in Nat /\ Tail(batch) \in Seq(Nat)
        /\ Len(Tail(batch)) = Len(batch) - 1
        /\ \A i \in 1..Len(Tail(batch)) : Tail(batch)[i] = batch[i + 1]
        /\ Head(batch) = batch[1]
        /\ Len(batch) \in Nat \ {0} /\ Len(tasks) \in Nat
    BY <2>1, <2>2, HeadTailProperties, EmptySeq, LenProperties
  <2>4. TypeOK'
    BY <2>1, <2>3 DEF TypeOK, LoopLabels, InCallback
  <2>5. Ranks'
    <3>1. /\ posted = lastRun + Len(batch) + Len(tasks)
          /\ \A i \in 1..Len(batch) : batch[i] = lastRun + i
          /\ \A i \in 1..Len(tasks) : tasks[i] = lastRun + Len(batch) + i
      BY DEF Ranks, Consecutive
    <3> HIDE DEF IInv
    <3>2. lastRun' = lastRun + 1
      BY <2>1, <2>3, <3>1
    <3>3. posted' = lastRun' + Len(batch') + Len(tasks')
      BY <2>1, <2>2, <2>3, <3>1, <3>2
    <3>4. ASSUME NEW i \in 1..Len(batch') PROVE batch'[i] = lastRun' + i
      <4>1. i \in 1..Len(Tail(batch)) /\ i + 1 \in 1..Len(batch)
        BY <2>1, <2>3
      <4> QED BY <4>1, <2>1, <2>2, <2>3, <3>1, <3>2
    <3>5. ASSUME NEW i \in 1..Len(tasks')
          PROVE  tasks'[i] = lastRun' + Len(batch') + i
      BY <2>1, <2>2, <2>3, <3>1, <3>2
    <3> QED BY <3>3, <3>4, <3>5 DEF Ranks, Consecutive
  <2>6. Phases' /\ TasksWake' /\ ShutWakes'
    BY <2>1 DEF Phases, TasksWake, ShutWakes, WakeupReady, BeforeWait
  <2> QED BY <2>4, <2>5, <2>6
<1>l. CASE TaskReturns \/ ExecDone \/ ErrorReturns \/ DrainDone
  <2> USE <1>l DEF TaskReturns, ExecDone, ErrorReturns, DrainDone, AtLoop,
                   AfterPoll, queueVars
  <2>1. TypeOK'
    BY Zenon DEF TypeOK, LoopLabels, InCallback
  <2>2. Ranks' /\ Phases'
    BY DEF Ranks, Consecutive, Phases
  <2>3. TasksWake' /\ ShutWakes'
    BY DEF TasksWake, ShutWakes, WakeupReady, BeforeWait, Phases
  <2> QED BY <2>1, <2>2, <2>3, SMTT(30)
<1>m. CASE UNCHANGED vars
  BY <1>m DEF vars, TypeOK, Ranks, Consecutive, Phases, TasksWake, ShutWakes, WakeupReady
<1> QED
  BY <1>a, <1>b, <1>c, <1>d, <1>e, <1>f, <1>g, <1>i, <1>j, <1>k, <1>l, <1>m
     DEF Next, StartCall, FinishCall, RunnerStep

\* The invariant holds in every reachable state.
LEMMA Invariance == Spec => []IInv
BY InitIInv, StepIInv, PTL DEF Spec

-----------------------------------------------------------------------------
(* The theorems.                                                           *)

\* Every variable keeps its type.
THEOREM TypeCorrect == Spec => []TypeOK
BY Invariance, PTL DEF IInv

\* The Runner never blocks in epoll_wait on a closure, or on a shutdown, that
\* nobody is going to wake it for, whatever the interleaving of pushes,
\* notifications and dispatches.
THEOREM WakeupNotLost == Spec => []NoLostWakeup
<1>1. IInv => NoLostWakeup
  BY DEF IInv, TasksWake, ShutWakes, NoLostWakeup, BeforeWait
<1> QED BY <1>1, Invariance, PTL

\* What is taken and queued are the ranks after lastRun up to posted.
LEMMA QueueIsSpan ==
  IInv => /\ batch \o tasks = Span(lastRun, posted)
          /\ lastRun \in Nat /\ posted \in Nat /\ lastRun <= posted
<1> SUFFICES ASSUME IInv
             PROVE  /\ batch \o tasks = Span(lastRun, posted)
                    /\ lastRun \in Nat /\ posted \in Nat /\ lastRun <= posted
  OBVIOUS
<1>1. /\ batch \in Seq(Nat) /\ tasks \in Seq(Nat)
      /\ lastRun \in Nat /\ posted \in Nat
      /\ Len(batch) \in Nat /\ Len(tasks) \in Nat
  BY LenProperties DEF IInv, TypeOK
<1>2. lastRun <= posted
  BY <1>1 DEF IInv, Ranks, Consecutive
<1>3. Consecutive(batch, tasks, lastRun, posted)
  BY DEF IInv, Ranks
<1>4. batch \o tasks = Span(lastRun, posted)
  BY <1>1, <1>3, RanksInOrder
<1> QED BY <1>1, <1>2, <1>4

\* Closures are run exactly once and in posting order.
THEOREM OrderKept == Spec => []InOrderOnce
<1>1. IInv => InOrderOnce
  BY QueueIsSpan DEF InOrderOnce, Span, IInv
<1> QED BY <1>1, Invariance, PTL

\* When run() returns, every closure posted so far has been run.
THEOREM ExitDrained == Spec => DrainedAtExit
<1>1. IInv /\ [Next]_vars => [loop # "exited" /\ loop' = "exited" => lastRun = posted]_vars
  <2> SUFFICES ASSUME IInv, Next, loop # "exited", loop' = "exited"
               PROVE  lastRun = posted
    BY DEF vars
  <2>1. Drain
    <3>1. ~\E t \in Threads : StartCall(t) \/ FinishCall(t)
      BY DEF StartCall, FinishCall, RunInPollInline, InlineReturns,
             RunInPollQueued, RunLater, Push, Notify, ShutdownLoad,
             ShutdownStore, ShutdownNotify, loopVars
    <3>2. ~(RunStart \/ WaitEvents \/ WaitTimeout \/ WaitError)
      BY DEF RunStart, WaitEvents, WaitTimeout, WaitError
    <3>3. ~(PollStart \/ Check \/ HandleWakeup \/ HandleIo \/ IoReturns \/ DispatchDone)
      BY DEF PollStart, Check, HandleWakeup, HandleIo, IoReturns, DispatchDone
    <3>4. ~(Swap \/ ExecTask \/ DrainTask)
      BY DEF Swap, ExecTask, DrainTask, RunTask
    <3>5. ~(TaskReturns \/ ExecDone \/ ErrorReturns \/ DrainDone)
      BY DEF TaskReturns, ExecDone, ErrorReturns, DrainDone, AfterPoll
    <3> QED BY <3>1, <3>2, <3>3, <3>4, <3>5 DEF Next, RunnerStep
  <2>2. tasks = <<>> /\ batch = <<>>
    BY <2>1 DEF Drain, AtLoop, IInv, Phases
  <2> QED BY <2>2, EmptySeq DEF IInv, Ranks, Consecutive, TypeOK
<1> QED BY <1>1, Invariance, PTL DEF Spec, DrainedAtExit

\* A closure that run_in_poll executes at once is on the loop's thread, but for
\* one of the constructing thread that was under way when run() took the loop
\* over.  Until then thread_id_ is the constructing thread and all of them are
\* its, so there is one such thread at most; from then on thread_id_ stays.
THEOREM InlineOnThread == Spec => []MustInIOThread
<1> DEFINE Claimed == IF inRun THEN threadId = Runner ELSE threadId \in Owners
           Inv     == Claimed /\ MustInIOThread
<1>1. Init => Inv
  BY Zenon DEF Init, MustInIOThread
<1>2. ASSUME TypeOK, Claimed, MustInIOThread, [Next]_vars
      PROVE  Claimed' /\ MustInIOThread'
  <2>1. pc \in [Threads -> PcLabels]
    BY <1>2 DEF TypeOK
  <2>2. CASE UNCHANGED vars
    BY <1>2, <2>2 DEF vars, MustInIOThread, IsInPollThread
  <2>3. ASSUME NEW t \in Threads, StartCall(t) \/ FinishCall(t)
        PROVE  Claimed' /\ MustInIOThread'
    <3>1. threadId' = threadId /\ inRun' = inRun
      BY <2>3, Zenon
         DEF StartCall, FinishCall, RunInPollInline, InlineReturns,
             RunInPollQueued, RunLater, Push, Notify, ShutdownLoad,
             ShutdownStore, ShutdownNotify, loopVars
    <3>2. PICK l \in PcLabels :
            pc' = [pc EXCEPT ![t] = l] /\ (l = "inline" => threadId = t)
      BY <2>3
         DEF StartCall, FinishCall, RunInPollInline, InlineReturns,
             RunInPollQueued, RunLater, Push, Notify, ShutdownLoad,
             ShutdownStore, ShutdownNotify, Goto, PcLabels, IsInPollThread
    <3>3. \A u \in Threads : pc'[u] = "inline" => pc[u] = "inline" \/ threadId = u
      BY <2>1, <3>2
    <3> QED BY <1>2, <3>1, <3>3, Zenon DEF MustInIOThread, IsInPollThread
  <2>4. CASE RunStart
    <3>1. pc' = pc /\ threadId' = Runner /\ inRun'
      BY <2>4, Zenon DEF RunStart
    <3>2. CASE inRun
      BY <1>2, <3>1, <3>2, Zenon DEF MustInIOThread, IsInPollThread
    <3>3. CASE ~inRun
      <4>1. \A t \in Threads : pc[t] = "inline" => t = threadId /\ t \in Owners
        BY <1>2, <3>3, Zenon DEF MustInIOThread, IsInPollThread
      <4> QED BY <3>1, <4>1, Zenon DEF MustInIOThread, IsInPollThread
    <3> QED BY <3>2, <3>3
  <2>5. CASE RunnerStep \/ WaitEvents \/ WaitTimeout \/ WaitError
    <3>1. pc' = pc /\ threadId' = threadId /\ inRun' = inRun
      BY <2>5, Zenon
         DEF RunnerStep, PollStart, Check, WaitEvents, WaitTimeout, WaitError,
             HandleWakeup, HandleIo, IoReturns, DispatchDone, Swap, TakeTasks,
             ExecTask, RunTask, TaskReturns, ExecDone, ErrorReturns, Drain,
             DrainTask, DrainDone
    <3> QED BY <1>2, <3>1, Zenon DEF MustInIOThread, IsInPollThread
  <2> QED BY <1>2, <2>2, <2>3, <2>4, <2>5, Zenon DEF Next
<1>3. IInv /\ Inv /\ [Next]_vars => Inv'
  BY <1>2 DEF IInv
<1>4. Inv => MustInIOThread
  OBVIOUS
<1> QED BY <1>1, <1>3, <1>4, Invariance, PTL DEF Spec

\* The loop implements the queue of TaskExecutor.
THEOREM Implementation == Spec => ImplementsExecutor
<1>1. Init => Executor!Init
  BY EmptySeq, ConcatEmptySeq DEF Init, Executor!Init
<1>2. IInv /\ IInv' /\ [Next]_vars => [Executor!Next]_(Executor!vars)
  <2> SUFFICES ASSUME IInv, IInv', [Next]_vars
               PROVE  Executor!Next \/ UNCHANGED (Executor!vars)
    OBVIOUS
  <2> DEFINE q == batch \o tasks
  <2>0. /\ q = Span(lastRun, posted)
        /\ q' = Span(lastRun', posted')
        /\ lastRun \in Nat /\ posted \in Nat /\ lastRun <= posted
        /\ lastRun' \in Nat /\ posted' \in Nat /\ lastRun' <= posted'
    <3>1. /\ q = Span(lastRun, posted)
          /\ lastRun \in Nat /\ posted \in Nat /\ lastRun <= posted
      BY QueueIsSpan
    <3>2. (/\ batch \o tasks = Span(lastRun, posted)
           /\ lastRun \in Nat /\ posted \in Nat /\ lastRun <= posted)'
      BY QueueIsSpan, PTL
    <3> QED BY <3>1, <3>2 DEF Span
  <2>a. CASE \E t \in Threads : Push(t)
    <3>1. posted' = posted + 1 /\ lastRun' = lastRun /\ loop' = loop
      BY <2>a DEF Push, loopVars
    <3>2. Append(Span(lastRun, posted), posted + 1) = Span(lastRun, posted + 1)
      BY <2>0, SpanSteps, Zenon
    <3>3. q' = Append(q, posted + 1)
      BY <3>1, <3>2, <2>0, Zenon
    <3> QED BY <3>1, <3>3 DEF Executor!Next, Executor!Submit
  <2>b. CASE ExecTask \/ DrainTask
    <3>1. /\ batch # <<>> /\ lastRun' = Head(batch) /\ posted' = posted
          /\ loop # "exited" /\ loop' # "exited"
      BY <2>b DEF ExecTask, DrainTask, RunTask, AtLoop
    <3>2. /\ batch \in Seq(Nat) /\ tasks \in Seq(Nat)
          /\ posted = lastRun + Len(batch) + Len(tasks)
          /\ \A i \in 1..Len(batch) : batch[i] = lastRun + i
      BY DEF IInv, TypeOK, Ranks, Consecutive
    <3>3. /\ Len(batch) \in Nat \ {0} /\ Len(tasks) \in Nat
          /\ Head(batch) = batch[1]
      BY <3>1, <3>2, HeadTailProperties, EmptySeq, LenProperties
    <3>4. lastRun < posted /\ lastRun' = lastRun + 1
      BY <3>1, <3>2, <3>3, <2>0, SMTT(30)
    <3>5. /\ Span(lastRun, posted) # <<>>
          /\ Head(Span(lastRun, posted)) = lastRun + 1
          /\ Tail(Span(lastRun, posted)) = Span(lastRun + 1, posted)
      BY <3>4, <2>0, SpanSteps, Zenon
    <3>6. q # <<>> /\ q' = Tail(q) /\ lastRun' = Head(q)
      BY <3>1, <3>4, <3>5, <2>0, Zenon
    <3> QED BY <3>1, <3>6 DEF Executor!Next, Executor!RunNext
  <2>c. CASE Drain /\ tasks = <<>>
    <3>1. loop # "exited" /\ loop' = "exited" /\ q' = q
          /\ posted' = posted /\ lastRun' = lastRun
      BY <2>c, Zenon DEF Drain, AtLoop, queueVars
    <3>2. batch = <<>>
      BY <2>c DEF Drain, AtLoop, IInv, Phases
    <3>3. q = <<>>
      BY <2>c, <3>2, EmptySeq, ConcatEmptySeq
    <3> QED BY <3>1, <3>3 DEF Executor!Next, Executor!Close
  <2>d. CASE /\ posted' = posted /\ lastRun' = lastRun
             /\ (loop' = "exited") = (loop = "exited")
    <3>1. q' = q
      BY <2>d, <2>0
    <3> QED BY <2>d, <3>1 DEF Executor!vars
  <2>e. CASE UNCHANGED vars
    BY <2>d, <2>e DEF vars
  <2>f. CASE \E t \in Threads : StartCall(t) \/ (FinishCall(t) /\ ~Push(t))
    BY <2>d, <2>f
       DEF StartCall, FinishCall, RunInPollInline, InlineReturns,
           RunInPollQueued, RunLater, Notify, ShutdownLoad, ShutdownStore,
           ShutdownNotify, queueVars, loopVars
  <2>g. CASE Drain /\ tasks # <<>>
    <3>1. /\ posted' = posted /\ lastRun' = lastRun
          /\ loop # "exited" /\ loop' # "exited"
      BY <2>g DEF Drain, AtLoop, TakeTasks
    <3> QED BY <2>d, <3>1
  <2>h. CASE RunStart \/ WaitEvents \/ WaitTimeout \/ WaitError
             \/ (RunnerStep /\ ~Drain /\ ~ExecTask /\ ~DrainTask)
    BY <2>d, <2>h
       DEF RunnerStep, RunStart, PollStart, Check, WaitEvents, WaitTimeout,
           WaitError, HandleWakeup, HandleIo, IoReturns, DispatchDone, Swap,
           TakeTasks, TaskReturns, ExecDone, ErrorReturns, DrainDone,
           AfterPoll, AtLoop, queueVars
  <2> QED BY <2>a, <2>b, <2>c, <2>e, <2>f, <2>g, <2>h DEF Next
<1> QED BY <1>1, <1>2, Invariance, PTL DEF Spec, ImplementsExecutor, Executor!Spec
=============================================================================
