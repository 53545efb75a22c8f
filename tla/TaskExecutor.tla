---------------------------- MODULE TaskExecutor ----------------------------
(***************************************************************************)
(* What an IOEventPoll promises to the threads that post closures to it,   *)
(* with every trace of the mutex, the eventfd and epoll removed: one       *)
(* first-in first-out queue, from which closures are run one by one, and   *)
(* which may only be closed while it is empty.  Closures are named by      *)
(* their rank in posting order.                                            *)
(***************************************************************************)
EXTENDS Naturals, Sequences

VARIABLES
  queue,   \* posted closures that have not been run, in posting order
  posted,  \* number of closures posted so far
  lastRun, \* rank of the closure run last, 0 before the first
  closed   \* TRUE once the loop has left run()

vars == <<queue, posted, lastRun, closed>>

Init ==
  /\ queue = <<>>
  /\ posted = 0
  /\ lastRun = 0
  /\ closed = FALSE

\* A closure is appended.  This stays possible after the queue was closed:
\* such a closure is kept, and never run.
Submit ==
  /\ queue' = Append(queue, posted + 1)
  /\ posted' = posted + 1
  /\ UNCHANGED <<lastRun, closed>>

\* The oldest closure is run.
RunNext ==
  /\ ~closed
  /\ queue # <<>>
  /\ queue' = Tail(queue)
  /\ lastRun' = Head(queue)
  /\ UNCHANGED <<posted, closed>>

\* The loop ends; everything posted so far has been run.
Close ==
  /\ ~closed
  /\ queue = <<>>
  /\ closed' = TRUE
  /\ UNCHANGED <<queue, posted, lastRun>>

Next == Submit \/ RunNext \/ Close

Spec == Init /\ [][Next]_vars
=============================================================================
