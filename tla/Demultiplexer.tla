---------------------------- MODULE Demultiplexer ----------------------------
(***************************************************************************)
(* What a poller promises to the owners of Channels: each is told of       *)
(* events it has asked for, or of an error, and of no others.              *)
(***************************************************************************)
EXTENDS Naturals, Sequences

CONSTANT Channels

VARIABLES
  want, \* the events each Channel has asked for
  due   \* the Channels that are still to be told, and of what

vars == <<want, due>>

Asked == SUBSET {"R", "W"}

Init ==
  /\ want = [c \in Channels |-> {}]
  /\ due = <<>>

\* Owners change their minds at any time.
Ask ==
  /\ want' \in [Channels -> Asked]
  /\ UNCHANGED due

\* Some of those who have asked for something are to be told of it.
Report ==
  /\ due = <<>>
  /\ UNCHANGED want
  /\ \A i \in DOMAIN due' : LET d == due'[i] IN
       /\ want[d.c] # {}
       /\ d.ev # {} /\ d.ev \subseteq want[d.c] \cup {"E", "H"}
       /\ \A j \in DOMAIN due' : due'[j].c = d.c => i = j

\* The next one is told, and may change what is asked for.
Tell ==
  /\ due # <<>>
  /\ due' = Tail(due)
  /\ want' \in [Channels -> Asked]

Next == Ask \/ Report \/ Tell

Spec == Init /\ [][Next]_vars
=============================================================================
