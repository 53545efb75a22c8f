------------------------- MODULE TimerManagerProofs -------------------------
(***************************************************************************)
(* Proofs about TimerManager, for any set of client threads, any delays    *)
(* and any number of timers.                                               *)
(***************************************************************************)
EXTENDS TimerManager, SequenceTheorems, TLAPS

-----------------------------------------------------------------------------
(* The inductive invariant.                                                *)

Ordered(s) == \A i, j \in DOMAIN s : i < j => Before(s[i], s[j])

\* What has left the schedule did so in order, its time had come, and it comes
\* before everything that is still scheduled: a timer that is added later has
\* a time that is not earlier than now, and a larger id.
DueOrder ==
  /\ snap <= now
  /\ \A i \in DOMAIN fired : due[fired[i]] <= now
  /\ \A i \in DOMAIN expired : due[expired[i]] <= now
  /\ Ordered(fired)
  /\ Ordered(expired)
  /\ \A i \in DOMAIN fired, j \in DOMAIN expired : Before(fired[i], expired[j])
  /\ \A i \in DOMAIN fired, id \in schedule : Before(fired[i], id)
  /\ \A i \in DOMAIN expired, id \in schedule : Before(expired[i], id)

\* A timer that was cancelled is not scheduled any more, nor was it taken out
\* to be run.
CancelledIsGone == CancelledNeverRuns /\ cancelled \cap schedule = {}

\* What the timer thread knows of the schedule while it holds the mutex, and
\* may still rely on when it sleeps.
ThreadKnows ==
  /\ (tpc = "chk1" /\ running) => schedule # {}
  /\ tpc \in {"block1", "wait1"} => schedule = {}
  /\ tpc \in {"block2", "wait2"} => \A id \in schedule : due[id] >= deadline
  /\ expired # <<>> => tpc \in {"extract", "run", "cb"}

\* How far a shutdown has come: running_ is cleared before anything else, the
\* maps are emptied when the thread has ended.
ShutdownPhases ==
  \A c \in Clients :
    /\ cpc[c] # "idle" => ~running
    /\ cpc[c] \in {"clear", "down"} => tpc = "done"
    /\ cpc[c] = "down" => schedule = {}

Data    == schedule = timers /\ CancelledIsGone /\ DueOrder
Control == ThreadKnows /\ ShutdownPhases

IInv == TypeOK /\ Data /\ Control

-----------------------------------------------------------------------------
(* The invariant is inductive.                                             *)

dataVars == <<now, due, timers, schedule, snap, expired, fired, cancelled>>

\* The constructor establishes the invariant.
LEMMA InitIInv == Init => IInv
<1> SUFFICES ASSUME Init PROVE IInv
  OBVIOUS
<1> USE DEF Init
<1>1. TypeOK
  BY EmptySeq DEF TypeOK, Ids, ThreadLabels, Locked, ClientLabels
<1>2. Data
  BY EmptySeq DEF Data, CancelledIsGone, CancelledNeverRuns, DueOrder, Ordered
<1>3. Control
  BY DEF Control, ThreadKnows, ShutdownPhases
<1> QED BY <1>1, <1>2, <1>3 DEF IInv

\* What a notification does to the thread.
LEMMA WakeCases ==
  ASSUME NEW pc
  PROVE  /\ pc = "wait1" => Wake(pc) = "lock1"
         /\ pc = "wait2" => Wake(pc) = "lock2"
         /\ pc \notin {"wait1", "wait2"} => Wake(pc) = pc
BY Zenon DEF Wake

\* A step that leaves the timers alone leaves alone what is said of them.
LEMMA DataStays == Data /\ UNCHANGED dataVars => Data'
BY DEF Data, CancelledIsGone, CancelledNeverRuns, DueOrder, Ordered, Before,
       dataVars

\* add_timer: the new timer has the largest id, and a time that is not earlier
\* than that of any timer whose time has come.  A thread that sleeps is woken,
\* so it does not rely any more on what it knew.
LEMMA AddTimerIInv ==
  ASSUME IInv, NEW c \in Clients, NEW delay \in Delays, AddTimer(c, delay)
  PROVE  IInv'
<1> PICK id : id = Len(due) + 1
  OBVIOUS
<1> DEFINE Earlier(i, j) == due'[i] < due'[j] \/ (due'[i] = due'[j] /\ i < j)
<1>1. /\ due' = Append(due, now + delay)
      /\ schedule' = schedule \cup {id}
      /\ timers' = timers \cup {id}
      /\ tpc' = Wake(tpc)
      /\ tpc \notin Locked
      /\ running
      /\ UNCHANGED <<running, now, deadline, snap, expired, fired, cancelled, cpc>>
  BY DEF AddTimer, ExpireTime, MutexFree
<1>2. /\ due \in Seq(Nat) /\ now \in Nat /\ now + delay \in Nat
      /\ Len(due) \in Nat /\ DOMAIN due = 1..Len(due)
      /\ id \in Nat
  BY TimerAssumption, LenProperties DEF IInv, TypeOK
<1>3. /\ due' \in Seq(Nat)
      /\ Len(due') = id
      /\ DOMAIN due' = 1..id
      /\ \A i \in Ids : due'[i] = due[i]
      /\ due'[id] = now + delay
  BY <1>1, <1>2, AppendProperties, LenProperties DEF Ids
<1>4. Ids \subseteq Ids' /\ id \in Ids' /\ Ids \subseteq Nat
      /\ \A i \in Ids : i < id /\ due[i] \in Nat
  BY <1>2, <1>3, ElementOfSeq DEF Ids
<1>5. /\ expired \in Seq(Ids) /\ fired \in Seq(Ids)
      /\ schedule \subseteq Ids /\ cancelled \subseteq Ids /\ timers \subseteq Ids
      /\ \A i \in DOMAIN fired : fired[i] \in Ids
      /\ \A i \in DOMAIN expired : expired[i] \in Ids
  BY ElementOfSeq, LenProperties DEF IInv, TypeOK
<1>6. TypeOK'
  <2>1. expired' \in Seq(Ids') /\ fired' \in Seq(Ids')
    BY <1>1, <1>4, <1>5, SeqMonotonic, Zenon
  <2>2. tpc' \in ThreadLabels
    BY <1>1, WakeCases DEF IInv, TypeOK, ThreadLabels
  <2> QED BY <1>1, <1>3, <1>4, <1>5, <2>1, <2>2, Zenon DEF IInv, TypeOK
<1>7. Data'
  <2>1. \A i, j \in Ids : Before(i, j) => Earlier(i, j)
    BY <1>3 DEF Before
  <2>2. \A i \in Ids : due[i] <= now => Earlier(i, id)
    <3> SUFFICES ASSUME NEW i \in Ids, due[i] <= now PROVE Earlier(i, id)
      OBVIOUS
    <3>1. i < id /\ due'[i] = due[i] /\ due[i] \in Nat /\ due'[id] = now + delay
      BY <1>3, <1>4
    <3> QED BY <3>1, <1>2, TimerAssumption
  <2>3. schedule' = timers' /\ CancelledIsGone'
    <3>1. id \notin Ids
      BY <1>4
    <3> QED BY <3>1, <1>1, <1>5
            DEF IInv, Data, CancelledIsGone, CancelledNeverRuns
  <2> HIDE DEF Earlier
  <2>4. \A i \in DOMAIN fired, k \in schedule' : Earlier(fired[i], k)
    BY <1>1, <1>5, <2>1, <2>2 DEF IInv, Data, DueOrder
  <2>5. \A i \in DOMAIN expired, k \in schedule' : Earlier(expired[i], k)
    BY <1>1, <1>5, <2>1, <2>2 DEF IInv, Data, DueOrder
  <2>6. /\ \A i, j \in DOMAIN fired : i < j => Earlier(fired[i], fired[j])
        /\ \A i, j \in DOMAIN expired : i < j => Earlier(expired[i], expired[j])
        /\ \A i \in DOMAIN fired, j \in DOMAIN expired :
             Earlier(fired[i], expired[j])
    BY <1>5, <2>1 DEF IInv, Data, DueOrder, Ordered
  <2>7. /\ \A i \in DOMAIN fired : due'[fired[i]] <= now
        /\ \A i \in DOMAIN expired : due'[expired[i]] <= now
        /\ snap <= now
    BY <1>3, <1>5, Zenon DEF IInv, Data, DueOrder
  <2>8. DueOrder'
    <3>0. UNCHANGED <<expired, fired>>
      BY <1>1
    <3>1. Ordered(fired)' /\ Ordered(expired)'
      BY <3>0, <2>6 DEF Ordered, Before, Earlier
    <3>2. (\A i \in DOMAIN fired, j \in DOMAIN expired : Before(fired[i], expired[j]))'
      BY <3>0, <2>6 DEF Before, Earlier
    <3>3. (\A i \in DOMAIN fired, k \in schedule : Before(fired[i], k))'
      BY <3>0, <2>4 DEF Before, Earlier
    <3>4. (\A i \in DOMAIN expired, k \in schedule : Before(expired[i], k))'
      BY <3>0, <2>5 DEF Before, Earlier
    <3> QED BY <1>1, <2>7, <3>1, <3>2, <3>3, <3>4, Zenon DEF DueOrder
  <2> QED BY <2>3, <2>8 DEF Data
<1>8. Control'
  BY <1>1, WakeCases DEF IInv, Control, ThreadKnows, ShutdownPhases, Locked
<1> QED BY <1>6, <1>7, <1>8 DEF IInv

\* cancel_timer: the schedule only shrinks.
LEMMA CancelTimerIInv ==
  ASSUME IInv, NEW c \in Clients, NEW id \in timers, CancelTimer(c, id)
  PROVE  IInv'
<1>1. /\ schedule' = schedule \ {id}
      /\ timers' = timers \ {id}
      /\ cancelled' = cancelled \cup {id}
      /\ tpc' = Wake(tpc)
      /\ tpc \notin Locked
      /\ running
      /\ UNCHANGED <<running, now, due, deadline, snap, expired, fired, cpc>>
  BY DEF CancelTimer, MutexFree
<1>2. TypeOK'
  BY <1>1, WakeCases DEF IInv, TypeOK, Ids, ThreadLabels
<1>3. Data'
  <2>1. id \in schedule /\ id \in Ids /\ due \in Seq(Nat)
    BY DEF IInv, Data, TypeOK
  <2>2. ~Before(id, id)
    BY <2>1, ElementOfSeq, LenProperties DEF Before, Ids
  <2>3. /\ \A i \in DOMAIN fired : fired[i] # id
        /\ \A i \in DOMAIN expired : expired[i] # id
    BY <2>1, <2>2 DEF IInv, Data, DueOrder
  <2>4. schedule' = timers' /\ CancelledIsGone'
    BY <1>1, <2>3 DEF IInv, Data, CancelledIsGone, CancelledNeverRuns
  <2>5. DueOrder'
    BY <1>1 DEF IInv, Data, DueOrder, Ordered, Before
  <2> QED BY <2>4, <2>5 DEF Data
<1>4. Control'
  BY <1>1, WakeCases DEF IInv, Control, ThreadKnows, ShutdownPhases, Locked
<1> QED BY <1>2, <1>3, <1>4 DEF IInv

\* shutdown(), its four steps.
LEMMA ShutdownIInv ==
  ASSUME IInv, NEW c \in Clients, ShutdownExchange(c) \/ ShutdownStep(c)
  PROVE  IInv'
<1>0. cpc \in [Clients -> ClientLabels]
  BY DEF IInv, TypeOK
<1>a. ASSUME NEW x \in ClientLabels, cpc' = [cpc EXCEPT ![c] = x]
      PROVE  /\ cpc' \in [Clients -> ClientLabels]
             /\ \A d \in Clients : cpc'[d] = IF d = c THEN x ELSE cpc[d]
  BY <1>0, <1>a
<1>1. CASE ShutdownExchange(c)
  <2>1. /\ ~running' /\ UNCHANGED <<dataVars, deadline, tpc>>
        /\ cpc' = [cpc EXCEPT ![c] = "notify"] /\ cpc[c] = "idle"
    BY <1>1 DEF ShutdownExchange, dataVars
  <2>2. TypeOK'
    BY <1>1, <1>a, Zenon DEF ShutdownExchange, IInv, TypeOK, Ids, ClientLabels
  <2>3. Data'
    BY <2>1, DataStays DEF IInv
  <2>4. ThreadKnows'
    BY <2>1 DEF dataVars, IInv, Control, ThreadKnows
  <2>5. ShutdownPhases'
    BY <2>1, <1>a DEF dataVars, IInv, Control, ShutdownPhases, ClientLabels
  <2> QED BY <2>2, <2>3, <2>4, <2>5 DEF IInv, Control
<1>b. CASE ShutdownNotify(c)
  <2>1. /\ tpc' = Wake(tpc) /\ UNCHANGED <<dataVars, deadline, running>>
        /\ cpc' = [cpc EXCEPT ![c] = "join"] /\ cpc[c] = "notify"
    BY <1>b DEF ShutdownNotify, dataVars
  <2>2. TypeOK'
    <3>1. tpc' \in ThreadLabels
      BY <2>1, WakeCases DEF IInv, TypeOK, ThreadLabels
    <3> QED BY <2>1, <3>1, <1>a DEF dataVars, IInv, TypeOK, Ids, ClientLabels
  <2>3. Data'
    BY <2>1, DataStays DEF IInv
  <2>4. ThreadKnows'
    BY <2>1, WakeCases DEF dataVars, IInv, Control, ThreadKnows
  <2>5. ShutdownPhases'
    BY <2>1, <1>a, WakeCases DEF dataVars, IInv, Control, ShutdownPhases, ClientLabels
  <2> QED BY <2>2, <2>3, <2>4, <2>5 DEF IInv, Control
<1>c. CASE ShutdownJoin(c)
  <2>1. /\ tpc = "done" /\ UNCHANGED <<dataVars, deadline, running, tpc>>
        /\ cpc' = [cpc EXCEPT ![c] = "clear"] /\ cpc[c] = "join"
    BY <1>c DEF ShutdownJoin, dataVars
  <2>2. TypeOK'
    BY <2>1, <1>a DEF dataVars, IInv, TypeOK, Ids, ClientLabels
  <2>3. Data'
    BY <2>1, DataStays DEF IInv
  <2>4. ThreadKnows'
    BY <2>1 DEF dataVars, IInv, Control, ThreadKnows
  <2>5. ShutdownPhases'
    BY <2>1, <1>a DEF dataVars, IInv, Control, ShutdownPhases, ClientLabels
  <2> QED BY <2>2, <2>3, <2>4, <2>5 DEF IInv, Control
<1>2. CASE ShutdownClear(c)
  <2>1. /\ timers' = {} /\ schedule' = {} /\ cpc[c] = "clear"
        /\ cpc' = [cpc EXCEPT ![c] = "down"]
        /\ UNCHANGED <<running, now, due, tpc, deadline, snap, expired, fired,
                       cancelled>>
    BY <1>2 DEF ShutdownClear
  <2>2. TypeOK'
    BY <2>1 DEF IInv, TypeOK, Ids, ClientLabels
  <2>3. Data'
    BY <2>1 DEF IInv, Data, CancelledIsGone, CancelledNeverRuns, DueOrder,
                Ordered, Before
  <2>4. tpc = "done"
    BY <2>1 DEF IInv, Control, ShutdownPhases
  <2>5. Control'
    BY <1>0, <2>1, <2>4 DEF IInv, Control, ThreadKnows, ShutdownPhases
  <2> QED BY <2>2, <2>3, <2>5 DEF IInv
<1> QED BY <1>1, <1>b, <1>c, <1>2 DEF ShutdownStep

\* The steps of the timer thread that only move it on.
LEMMA MoveIInv ==
  ASSUME IInv, Top \/ Lock \/ Pred1 \/ Block \/ Spurious \/ Pred2 \/ Timeout
               \/ ExtractDone \/ CallbackReturns
  PROVE  IInv'
<1>0. tpc \in ThreadLabels
  BY DEF IInv, TypeOK
<1>1. UNCHANGED <<dataVars, running, deadline, cpc>>
  BY DEF Top, Lock, Pred1, Block, Spurious, Pred2, Timeout, ExtractDone,
         CallbackReturns, clientVars, timerVars, firedVars, dataVars
<1>2. tpc # "done"
  BY DEF Top, Lock, Pred1, Block, Spurious, Pred2, Timeout, ExtractDone,
         CallbackReturns
<1>3. /\ tpc' \in ThreadLabels
      /\ tpc' = "chk1" => tpc = "pred1" /\ (~running \/ schedule # {})
      /\ tpc' = "block1" => tpc = "pred1" /\ schedule = {}
      /\ tpc' = "wait1" => tpc = "block1"
      /\ tpc' = "block2" =>
           /\ tpc = "pred2"
           /\ ~ \E id \in schedule : due[id] < deadline
      /\ tpc' = "wait2" => tpc = "block2"
      /\ tpc \in {"extract", "run", "cb"} => tpc' \in {"run", "cb"}
  <2>1. CASE Top
    BY <2>1 DEF Top, ThreadLabels
  <2>2. CASE Lock
    <3>1. now < deadline \/ now >= deadline
      BY DEF IInv, TypeOK
    <3>2. tpc \in {"lock1", "lock2"} /\ tpc' \in {"pred1", "pred2", "chk2"}
      BY <2>2, <3>1, Zenon DEF Lock
    <3> QED BY <3>2 DEF ThreadLabels, Locked
  <2>3. CASE Pred1
    BY <2>3 DEF Pred1, ThreadLabels, Locked
  <2>4. CASE Block
    BY <2>4 DEF Block, ThreadLabels
  <2>5. CASE Spurious
    BY <2>5, WakeCases DEF Spurious, ThreadLabels
  <2>6. CASE Pred2
    BY <2>6 DEF Pred2, ThreadLabels, Locked
  <2>7. CASE Timeout \/ ExtractDone \/ CallbackReturns
    BY <2>7 DEF Timeout, ExtractDone, CallbackReturns, ThreadLabels
  <2> QED BY <2>1, <2>2, <2>3, <2>4, <2>5, <2>6, <2>7
<1>4. TypeOK'
  BY <1>1, <1>3 DEF dataVars, IInv, TypeOK, Ids
<1>5. Data'
  BY <1>1, DataStays DEF IInv
<1>6. ThreadKnows'
  <2>1. \A id \in schedule : due[id] \in Nat /\ deadline \in Nat
    BY ElementOfSeq, LenProperties DEF IInv, TypeOK, Ids
  <2>2. /\ (tpc' = "chk1" /\ running') => schedule' # {}
        /\ tpc' \in {"block1", "wait1"} => schedule' = {}
        /\ expired' # <<>> => tpc' \in {"extract", "run", "cb"}
    BY <1>1, <1>3 DEF dataVars, IInv, Control, ThreadKnows
  <2>3. tpc' \in {"block2", "wait2"} => \A id \in schedule : due[id] >= deadline
    BY <1>3, <2>1 DEF IInv, Control, ThreadKnows
  <2> QED BY <1>1, <2>2, <2>3 DEF dataVars, ThreadKnows
<1>7. ShutdownPhases'
  BY <1>1, <1>2 DEF dataVars, IInv, Control, ShutdownPhases
<1> QED BY <1>4, <1>5, <1>6, <1>7 DEF IInv, Control

\* The two places where running_ is read again under the mutex, and the clock.
LEMMA ReadIInv == ASSUME IInv, Chk1 \/ Chk2 \/ Tick PROVE IInv'
<1>1. CASE Chk1
  <2>1. /\ UNCHANGED <<dataVars, running, cpc>> /\ tpc = "chk1"
        /\ tpc' \in {"pred2", "done"}
    BY <1>1 DEF Chk1, clientVars, timerVars, firedVars, dataVars
  <2>2. deadline' \in Nat
    <3>1. \A id \in schedule : due[id] \in Nat
      BY ElementOfSeq, LenProperties DEF IInv, TypeOK, Ids
    <3> QED BY <1>1, <3>1 DEF Chk1, IInv, TypeOK
  <2>3. TypeOK'
    BY <2>1, <2>2 DEF dataVars, IInv, TypeOK, Ids, ThreadLabels, Locked
  <2>4. Data'
    BY <2>1, DataStays DEF IInv
  <2>5. Control'
    BY <2>1 DEF dataVars, IInv, Control, ThreadKnows, ShutdownPhases
  <2> QED BY <2>3, <2>4, <2>5 DEF IInv
<1>2. CASE Chk2 \/ Tick
  <2>0. /\ now \in Nat /\ snap \in Nat /\ snap <= now
        /\ \A id \in Ids : due[id] \in Nat
        /\ \A i \in DOMAIN fired : fired[i] \in Ids
        /\ \A i \in DOMAIN expired : expired[i] \in Ids
    BY ElementOfSeq, LenProperties DEF IInv, TypeOK, Data, DueOrder, Ids
  <2>1. /\ UNCHANGED <<due, timers, schedule, expired, fired, cancelled, running,
                       deadline, cpc>>
        /\ now' \in Nat /\ now <= now' /\ snap' \in Nat /\ snap' <= now'
        /\ tpc' = tpc \/ (tpc = "chk2" /\ tpc' \in {"extract", "done"})
    BY <1>2, <2>0 DEF Chk2, Tick, clientVars, timerVars, firedVars
  <2>2. TypeOK'
    BY <2>1, SMTT(30) DEF IInv, TypeOK, Ids, ThreadLabels, Locked
  <2>3. Data'
    <3>1. /\ \A i \in DOMAIN fired : due[fired[i]] <= now'
          /\ \A i \in DOMAIN expired : due[expired[i]] <= now'
      BY <2>0, <2>1 DEF IInv, Data, DueOrder
    <3>2. UNCHANGED <<due, timers, schedule, expired, fired, cancelled>>
          /\ snap' <= now'
      BY <2>1
    <3> QED BY <3>1, <3>2, SMTT(30) DEF IInv, Data, CancelledIsGone, CancelledNeverRuns,
                              DueOrder, Ordered, Before
  <2>4. Control'
    BY <2>1 DEF IInv, Control, ThreadKnows, ShutdownPhases
  <2> QED BY <2>2, <2>3, <2>4 DEF IInv
<1> QED BY <1>1, <1>2

\* One turn of the extraction loop: the earliest timer moves from the schedule
\* to the end of what is to be run.
LEMMA ExtractIInv == ASSUME IInv, NEW id \in schedule, Extract(id) PROVE IInv'
<1>1. /\ tpc = "extract" /\ due[id] <= snap
      /\ \A j \in schedule : j = id \/ Before(id, j)
      /\ schedule' = schedule \ {id}
      /\ timers' = timers \ {id}
      /\ UNCHANGED <<running, now, due, tpc, deadline, snap, fired, cancelled, cpc>>
  BY DEF Extract, IsFirst, clientVars
<1>2. /\ id \in Ids /\ Ids \subseteq Nat /\ \A i \in Ids : due[i] \in Nat
      /\ now \in Nat /\ snap \in Nat /\ expired \in Seq(Ids) /\ fired \in Seq(Ids)
  BY ElementOfSeq, LenProperties, SMTT(30) DEF IInv, TypeOK, Ids
<1>3. expired' = Append(expired, id)
  BY DEF Extract, IInv, Data
<1>4. /\ expired' \in Seq(Ids)
      /\ DOMAIN expired = 1..Len(expired) /\ Len(expired) \in Nat
      /\ DOMAIN expired' = 1..(Len(expired) + 1)
      /\ \A i \in DOMAIN expired : expired'[i] = expired[i]
      /\ expired'[Len(expired) + 1] = id
  BY <1>2, <1>3, AppendProperties, LenProperties
<1>5. \A i \in DOMAIN expired' :
        \/ i \in DOMAIN expired /\ expired'[i] = expired[i]
        \/ i = Len(expired) + 1 /\ expired'[i] = id
  BY <1>4
<1>6. TypeOK'
  BY <1>1, <1>4, Zenon DEF IInv, TypeOK, Ids
<1>7. ~Before(id, id)
  BY <1>2 DEF Before
<1>8. schedule' = timers' /\ CancelledIsGone'
  <2>1. \A k \in cancelled : k # id
    BY SMTT(30) DEF IInv, Data, CancelledIsGone
  <2> QED BY <1>1, <1>5, <2>1 DEF IInv, Data, CancelledIsGone, CancelledNeverRuns
<1>9. DueOrder'
  <2>0. /\ \A i \in DOMAIN fired : due[fired[i]] <= now
        /\ \A i \in DOMAIN expired : due[expired[i]] <= now
        /\ snap <= now
        /\ \A i, j \in DOMAIN fired : i < j => Before(fired[i], fired[j])
        /\ \A i, j \in DOMAIN expired : i < j => Before(expired[i], expired[j])
        /\ \A i \in DOMAIN fired, j \in DOMAIN expired : Before(fired[i], expired[j])
        /\ \A i \in DOMAIN fired, k \in schedule : Before(fired[i], k)
        /\ \A i \in DOMAIN expired, k \in schedule : Before(expired[i], k)
    BY DEF IInv, Data, DueOrder, Ordered
  <2>1. \A i \in DOMAIN expired' : due[expired'[i]] <= now
    BY <1>1, <1>2, <1>5, <2>0, SMTT(30)
  <2>2. \A i, j \in DOMAIN expired' : i < j => Before(expired'[i], expired'[j])
    <3> SUFFICES ASSUME NEW i \in DOMAIN expired', NEW j \in DOMAIN expired', i < j
                 PROVE  Before(expired'[i], expired'[j])
      OBVIOUS
    <3>1. i \in DOMAIN expired
      BY <1>4
    <3> QED BY <3>1, <1>5, <2>0, SMTT(30)
  <2>3. \A i \in DOMAIN fired, j \in DOMAIN expired' : Before(fired[i], expired'[j])
    BY <1>5, <2>0, SMTT(30)
  <2>4. \A i \in DOMAIN fired, k \in schedule' : Before(fired[i], k)
    BY <1>1, <2>0, SMTT(30)
  <2>5. \A i \in DOMAIN expired', k \in schedule' : Before(expired'[i], k)
    BY <1>1, <1>5, <2>0
  <2>6. UNCHANGED <<now, due, snap, fired>>
    BY <1>1
  <2> QED BY <2>0, <2>1, <2>2, <2>3, <2>4, <2>5, <2>6, SMTT(30) DEF DueOrder, Ordered, Before
<1>10. Control'
  BY <1>1 DEF IInv, Control, ThreadKnows, ShutdownPhases
<1> QED BY <1>6, <1>8, <1>9, <1>10 DEF IInv, Data

\* A callback starts: the first of those to be run becomes the last that was.
LEMMA RunCallbackIInv == ASSUME IInv, RunCallback PROVE IInv'
<1> PICK id : id = Head(expired)
  OBVIOUS
<1>1. /\ tpc = "run" /\ tpc' = "cb" /\ expired # <<>>
      /\ fired' = Append(fired, id) /\ expired' = Tail(expired)
      /\ UNCHANGED <<running, now, due, cancelled, cpc, timers, schedule,
                     deadline, snap>>
  BY DEF RunCallback, clientVars, timerVars
<1>2. expired \in Seq(Ids) /\ fired \in Seq(Ids)
  BY DEF IInv, TypeOK
<1>3. /\ Len(expired) \in Nat \ {0} /\ DOMAIN expired = 1..Len(expired)
      /\ id = expired[1] /\ id \in Ids
      /\ expired' \in Seq(Ids)
      /\ DOMAIN expired' = 1..(Len(expired) - 1)
      /\ \A i \in 1..(Len(expired) - 1) : expired'[i] = expired[i + 1]
  BY <1>1, <1>2, HeadTailProperties, LenProperties, EmptySeq
<1>4. /\ fired' \in Seq(Ids)
      /\ Len(fired) \in Nat /\ DOMAIN fired = 1..Len(fired)
      /\ DOMAIN fired' = 1..(Len(fired) + 1)
      /\ \A i \in 1..Len(fired) : fired'[i] = fired[i]
      /\ fired'[Len(fired) + 1] = id
  BY <1>1, <1>2, <1>3, AppendProperties, LenProperties
<1>5. /\ \A i \in DOMAIN fired' :
           \/ i \in DOMAIN fired /\ fired'[i] = fired[i]
           \/ i = Len(fired) + 1 /\ fired'[i] = id
      /\ \A i \in DOMAIN expired' :
           /\ i + 1 \in DOMAIN expired /\ 1 < i + 1 /\ expired'[i] = expired[i + 1]
      /\ 1 \in DOMAIN expired /\ id = expired[1]
  BY <1>3, <1>4
<1>6. TypeOK'
  BY <1>1, <1>3, <1>4, SMTT(30) DEF IInv, TypeOK, Ids, ThreadLabels
<1>7. schedule' = timers' /\ CancelledIsGone'
  BY <1>1, <1>5 DEF IInv, Data, CancelledIsGone, CancelledNeverRuns
<1>8. DueOrder'
  <2>0. /\ \A i \in DOMAIN fired : due[fired[i]] <= now
        /\ \A i \in DOMAIN expired : due[expired[i]] <= now
        /\ snap <= now
        /\ \A i, j \in DOMAIN fired : i < j => Before(fired[i], fired[j])
        /\ \A i, j \in DOMAIN expired : i < j => Before(expired[i], expired[j])
        /\ \A i \in DOMAIN fired, j \in DOMAIN expired : Before(fired[i], expired[j])
        /\ \A i \in DOMAIN fired, k \in schedule : Before(fired[i], k)
        /\ \A i \in DOMAIN expired, k \in schedule : Before(expired[i], k)
    BY DEF IInv, Data, DueOrder, Ordered
  <2>1. /\ \A i \in DOMAIN fired' : due[fired'[i]] <= now
        /\ \A i \in DOMAIN expired' : due[expired'[i]] <= now
    BY <1>5, <2>0
  <2>2. \A i, j \in DOMAIN fired' : i < j => Before(fired'[i], fired'[j])
    <3> SUFFICES ASSUME NEW i \in DOMAIN fired', NEW j \in DOMAIN fired', i < j
                 PROVE  Before(fired'[i], fired'[j])
      OBVIOUS
    <3>1. i \in DOMAIN fired
      BY <1>4
    <3>2. fired'[i] = fired[i] /\ Before(fired[i], id)
      BY <3>1, <1>4, <1>5, <2>0, SMTT(30)
    <3>3. CASE j \in DOMAIN fired
      BY <3>1, <3>2, <3>3, <1>4, <2>0, SMTT(30)
    <3> QED BY <3>2, <3>3, <1>5
  <2>3. \A i, j \in DOMAIN expired' : i < j => Before(expired'[i], expired'[j])
    <3> SUFFICES ASSUME NEW i \in DOMAIN expired', NEW j \in DOMAIN expired', i < j
                 PROVE  Before(expired'[i], expired'[j])
      OBVIOUS
    <3>1. i + 1 < j + 1
      BY <1>3, SMTT(30)
    <3> QED BY <3>1, <1>5, <2>0
  <2>4. \A i \in DOMAIN fired', j \in DOMAIN expired' : Before(fired'[i], expired'[j])
    BY <1>5, <2>0, SMTT(30)
  <2>5. /\ \A i \in DOMAIN fired', k \in schedule : Before(fired'[i], k)
        /\ \A i \in DOMAIN expired', k \in schedule : Before(expired'[i], k)
    BY <1>5, <2>0
  <2>6. UNCHANGED <<now, due, snap, schedule>>
    BY <1>1
  <2>7. Ordered(fired)' /\ Ordered(expired)'
    BY <2>2, <2>3, <2>6 DEF Ordered, Before
  <2>8. (\A i \in DOMAIN fired, j \in DOMAIN expired : Before(fired[i], expired[j]))'
    BY <2>4, <2>6 DEF Before
  <2>9. (/\ \A i \in DOMAIN fired, k \in schedule : Before(fired[i], k)
         /\ \A i \in DOMAIN expired, k \in schedule : Before(expired[i], k))'
    BY <2>5, <2>6 DEF Before
  <2> QED BY <2>0, <2>1, <2>6, <2>7, <2>8, <2>9, Zenon DEF DueOrder
<1>9. Control'
  BY <1>1 DEF IInv, Control, ThreadKnows, ShutdownPhases
<1> QED BY <1>6, <1>7, <1>8, <1>9 DEF IInv, Data

\* What is left is dropped.
LEMMA RunDoneIInv == ASSUME IInv, RunDone PROVE IInv'
<1>1. /\ tpc = "run" /\ tpc' = "top" /\ expired' = <<>>
      /\ UNCHANGED <<running, now, due, cancelled, cpc, timers, schedule, fired,
                     deadline, snap>>
  BY DEF RunDone, clientVars, timerVars
<1>2. DOMAIN expired' = {} /\ expired' \in Seq(Ids)
  BY <1>1, EmptySeq
<1>3. TypeOK'
  BY <1>1, <1>2, Zenon DEF IInv, TypeOK, Ids, ThreadLabels
<1>4. Data'
  BY <1>1, <1>2 DEF IInv, Data, CancelledIsGone, CancelledNeverRuns, DueOrder,
                    Ordered, Before
<1>5. Control'
  BY <1>1 DEF IInv, Control, ThreadKnows, ShutdownPhases
<1> QED BY <1>3, <1>4, <1>5 DEF IInv

\* Every step keeps the invariant.
LEMMA StepIInv == IInv /\ [Next]_vars => IInv'
<1> SUFFICES ASSUME IInv, [Next]_vars PROVE IInv'
  OBVIOUS
<1>1. ASSUME NEW c \in Clients, Call(c) \/ ShutdownStep(c) PROVE IInv'
  BY <1>1, AddTimerIInv, CancelTimerIInv, ShutdownIInv DEF Call
<1>2. CASE ThreadStep
  BY <1>2, MoveIInv, ReadIInv, ExtractIInv, RunCallbackIInv, RunDoneIInv
     DEF ThreadStep
<1>3. CASE Spurious
  BY <1>3, MoveIInv
<1>4. CASE Tick
  BY <1>4, ReadIInv
<1>5. CASE UNCHANGED vars
  <2>1. UNCHANGED <<dataVars, running, tpc, deadline, cpc>>
    BY <1>5 DEF vars, dataVars
  <2>2. TypeOK' /\ Control'
    BY <2>1 DEF dataVars, IInv, TypeOK, Ids, Control, ThreadKnows, ShutdownPhases
  <2> QED BY <2>1, <2>2, DataStays DEF IInv
<1> QED BY <1>1, <1>2, <1>3, <1>4, <1>5 DEF Next

\* The invariant holds in every reachable state.
LEMMA Invariance == Spec => []IInv
BY InitIInv, StepIInv, PTL DEF Spec

-----------------------------------------------------------------------------
(* The theorems.                                                           *)

\* timers_ and schedule_ hold the same timers in every reachable state, and
\* every variable keeps its type.
THEOREM TablesSame == Spec => []SameTimers
<1>1. IInv => SameTimers
  BY DEF IInv, Data, SameTimers
<1> QED BY <1>1, Invariance, PTL

\* schedule_.begin() is never dereferenced when the schedule is empty, wherever
\* a shutdown comes in.
THEOREM BeginValid == Spec => []BeginIsValid
<1>1. IInv => BeginIsValid
  BY DEF IInv, Control, ThreadKnows, BeginIsValid
<1> QED BY <1>1, Invariance, PTL

\* The timer thread never sleeps past the time of a scheduled timer: no
\* insertion between the look at the schedule and the wait goes unnoticed.
THEOREM NeverOversleeps == Spec => []NoTimerOverslept
<1>1. IInv => NoTimerOverslept
  BY DEF IInv, Control, ThreadKnows, NoTimerOverslept
<1> QED BY <1>1, Invariance, PTL

\* No timer that cancel_timer found is run, whenever it was cancelled.
THEOREM CancelIsFinal == Spec => []CancelledNeverRuns
<1>1. IInv => CancelledNeverRuns
  BY DEF IInv, Data, CancelledIsGone
<1> QED BY <1>1, Invariance, PTL

\* Callbacks run at most once, not early, and in the order of their times over
\* the whole life of the manager.
THEOREM DueOrderKept == Spec => []RunInDueOrder
<1>1. IInv => RunInDueOrder
  <2> SUFFICES ASSUME IInv PROVE RunInDueOrder
    OBVIOUS
  <2> PICK all : all = fired \o expired
    BY Zenon
  <2>1. fired \in Seq(Ids) /\ expired \in Seq(Ids)
    BY DEF IInv, TypeOK
  <2>2. /\ Len(fired) \in Nat /\ DOMAIN fired = 1..Len(fired)
        /\ Len(expired) \in Nat /\ DOMAIN expired = 1..Len(expired)
        /\ DOMAIN all = 1..(Len(fired) + Len(expired))
        /\ \A i \in DOMAIN all :
             all[i] = IF i <= Len(fired) THEN fired[i] ELSE expired[i - Len(fired)]
    BY <2>1, ConcatProperties, LenProperties
  <2>3. \A i \in DOMAIN all :
          \/ i \in DOMAIN fired /\ all[i] = fired[i]
          \/ /\ i > Len(fired) /\ i - Len(fired) \in DOMAIN expired
             /\ all[i] = expired[i - Len(fired)]
    BY <2>2
  <2>4. /\ \A i \in DOMAIN fired : due[fired[i]] <= now
        /\ \A i \in DOMAIN expired : due[expired[i]] <= now
        /\ \A i, j \in DOMAIN fired : i < j => Before(fired[i], fired[j])
        /\ \A i, j \in DOMAIN expired : i < j => Before(expired[i], expired[j])
        /\ \A i \in DOMAIN fired, j \in DOMAIN expired : Before(fired[i], expired[j])
    BY DEF IInv, Data, DueOrder, Ordered
  <2>5. \A i \in DOMAIN all : due[all[i]] <= now
    BY <2>3, <2>4
  <2>6. ASSUME NEW i \in DOMAIN all, NEW j \in DOMAIN all, i < j
        PROVE  Before(all[i], all[j])
    <3>1. CASE i \in DOMAIN fired /\ all[i] = fired[i]
      BY <3>1, <2>3, <2>4, <2>6, SMTT(30)
    <3>2. CASE /\ i > Len(fired) /\ i - Len(fired) \in DOMAIN expired
               /\ all[i] = expired[i - Len(fired)]
      <4>1. /\ j > Len(fired) /\ i - Len(fired) < j - Len(fired)
            /\ j \notin DOMAIN fired
        BY <3>2, <2>2, <2>6
      <4> QED BY <3>2, <4>1, <2>3, <2>4
    <3> QED BY <3>1, <3>2, <2>3
  <2> QED BY <2>5, <2>6 DEF RunInDueOrder
<1> QED BY <1>1, Invariance, PTL

\* When shutdown() has returned, the thread has ended and nothing is left.
THEOREM ShutdownQuiet == Spec => []QuietAfterShutdown
<1>1. IInv => QuietAfterShutdown
  BY DEF IInv, Data, Control, ThreadKnows, ShutdownPhases, QuietAfterShutdown
<1> QED BY <1>1, Invariance, PTL
=============================================================================
