----------------------------- MODULE PollerProofs -----------------------------
(***************************************************************************)
(* EpollPoller and KqueuePoller keep their tables, the kernel's and the    *)
(* Channels in agreement, for any number of descriptors and Channels, use  *)
(* no Channel that is gone, and tell each of its own events only.          *)
(***************************************************************************)
EXTENDS Poller, TLAPS

-----------------------------------------------------------------------------
(* The inductive invariant.                                                *)

Interest == SUBSET {"R", "W"}
Entries  == [ptr : Nat, ev : Interest]
Chans    == [kind : {"none", "listen", "connect", "conn"}, fd : Fds, sock : Nat,
             ev : Interest, reg : BOOLEAN, live : BOOLEAN]
States   == [open : [Fds -> Nat], kern : [Fds -> Entries], channels : [Fds -> Nat],
             registered : [Fds -> Interest], chan : Seq(Chans),
             later : SUBSET Nat, dying : SUBSET Nat, ensured : BOOLEAN]

\* What the kernel and registered_events_ have of Channel c, if it waits for
\* ev: epoll has its address, kqueue has not.
Entry(c, ev) == [ptr |-> IF backend = "epoll" THEN c ELSE 0, ev |-> ev]
Kept(ev)     == IF backend = "epoll" THEN {} ELSE ev

Listed(s, c) ==
  LET ch == s.chan[c] IN
  /\ ch.reg
  /\ s.channels[ch.fd] = c
  /\ s.kern[ch.fd] = Entry(c, ch.ev)
  /\ s.registered[ch.fd] = Kept(ch.ev)

\* The descriptor is in no table.
Unlisted(s, f) == s.channels[f] = 0 /\ s.kern[f] = NotListed /\ s.registered[f] = {}

\* A Channel waits for something exactly as long as its owner has it.
GoodChan(s, c) ==
  LET ch == s.chan[c] IN
  /\ ch.sock <= Len(s.chan)
  /\ ch.live => ch.sock # 0
  /\ ch.ev # {} => Owned(s, c) /\ Listed(s, c)
  /\ Owned(s, c) => ch.ev # {}
  /\ Owned(s, c) /\ ch.kind = "conn" => "R" \in ch.ev
  /\ ch.ev = {} => ~ch.reg

GoodFd(s, f) ==
  LET c == s.channels[f] IN
  \/ Unlisted(s, f)
  \/ c \in DOMAIN s.chan /\ s.chan[c].fd = f /\ s.chan[c].ev # {}

Good(s) ==
  /\ s \in States
  /\ s.ensured
  /\ \A c \in DOMAIN s.chan : GoodChan(s, c)
  /\ \A f \in Fds : GoodFd(s, f)
  /\ \A c \in s.later \cup s.dying : c \in DOMAIN s.chan /\ s.chan[c].ev = {}

-----------------------------------------------------------------------------
(* The operations on the tables.                                           *)

\* s but for what the tables have of f, and for Channel c.
Change(s, f, c, kern, registered, entry, ch) ==
  [open |-> s.open, kern |-> [s.kern EXCEPT ![f] = kern],
   channels |-> [s.channels EXCEPT ![f] = entry],
   registered |-> [s.registered EXCEPT ![f] = registered],
   chan |-> [s.chan EXCEPT ![c] = ch],
   later |-> s.later, dying |-> s.dying, ensured |-> s.ensured]

LEMMA StateFields ==
  ASSUME NEW s \in States
  PROVE  /\ s = [open |-> s.open, kern |-> s.kern, channels |-> s.channels,
                 registered |-> s.registered, chan |-> s.chan, later |-> s.later,
                 dying |-> s.dying, ensured |-> s.ensured]
         /\ s.open \in [Fds -> Nat] /\ s.kern \in [Fds -> Entries] /\ s.channels \in [Fds -> Nat]
         /\ s.registered \in [Fds -> Interest] /\ s.chan \in Seq(Chans)
         /\ s.later \subseteq Nat /\ s.dying \subseteq Nat /\ s.ensured \in BOOLEAN
BY DEF States

LEMMA ReplacedType ==
  ASSUME NEW q \in Seq(Chans), NEW c, NEW ch \in Chans
  PROVE  [q EXCEPT ![c] = ch] \in Seq(Chans)
<1>1. q \in [1..Len(q) -> Chans] /\ Len(q) \in Nat
  OBVIOUS
<1>2. [q EXCEPT ![c] = ch] \in [1..Len(q) -> Chans]
  BY <1>1, Zenon
<1> QED BY <1>1, <1>2

LEMMA ChangeType ==
  ASSUME NEW s \in States, NEW f \in Fds, NEW c \in DOMAIN s.chan, NEW kern \in Entries,
         NEW registered \in Interest, NEW entry \in Nat, NEW ch \in Chans
  PROVE  Change(s, f, c, kern, registered, entry, ch) \in States
<1>1. [s.chan EXCEPT ![c] = ch] \in Seq(Chans)
  BY StateFields
<1>2. [s.kern EXCEPT ![f] = kern] \in [Fds -> Entries]
  BY StateFields, Zenon
<1>3. [s.channels EXCEPT ![f] = entry] \in [Fds -> Nat]
  BY StateFields, Zenon
<1>4. [s.registered EXCEPT ![f] = registered] \in [Fds -> Interest]
  BY StateFields, Zenon
<1> QED BY <1>1, <1>2, <1>3, <1>4, StateFields DEF Change, States

LEMMA EpollCtlOk ==
  ASSUME NEW s \in States, NEW c, NEW op, s.open[s.chan[c].fd] # 0,
         op = "add" <=> s.kern[s.chan[c].fd] = NotListed
  PROVE  EpollCtl(s, op, c) =
           [s EXCEPT !.kern[s.chan[c].fd] = IF op = "del" THEN NotListed
                                            ELSE [ptr |-> c, ev |-> s.chan[c].ev]]
<1>1. EpollCtl(s, op, c) =
        [s EXCEPT !.kern[s.chan[c].fd] = IF op = "del" THEN NotListed
                                         ELSE [ptr |-> c, ev |-> s.chan[c].ev],
                  !.ensured = @ /\ TRUE]
  BY Zenon DEF EpollCtl
<1>2. (s.ensured /\ TRUE) = s.ensured
  BY DEF States
<1> QED BY <1>1, <1>2, Zenon DEF States

LEMMA Unaltered ==
  ASSUME NEW s \in States, NEW f, NEW c
  PROVE  /\ s.registered = [s.registered EXCEPT ![f] = s.registered[f]]
         /\ s.channels = [s.channels EXCEPT ![f] = s.channels[f]]
         /\ s.chan = [s.chan EXCEPT ![c] = s.chan[c]]
<1>1. s.chan \in [1..Len(s.chan) -> Chans]
  BY StateFields, SMTT(30)
<1> QED BY <1>1, StateFields, Zenon

LEMMA ChanFacts ==
  ASSUME NEW s \in States, NEW c \in DOMAIN s.chan
  PROVE  /\ c \in Nat \ {0} /\ c \in 1..Len(s.chan) /\ DOMAIN s.chan = 1..Len(s.chan)
         /\ s.chan[c] \in Chans
         /\ s.chan[c].fd \in Fds /\ s.chan[c].sock \in Nat /\ s.chan[c].ev \in Interest
         /\ s.chan[c].reg \in BOOLEAN /\ s.chan[c].live \in BOOLEAN
         /\ s.kern[s.chan[c].fd] \in Entries
         /\ s.registered[s.chan[c].fd] \in Interest
         /\ s.channels[s.chan[c].fd] \in Nat
<1>1. s.chan \in Seq(Chans)
  BY StateFields
<1>2. c \in Nat \ {0} /\ c \in 1..Len(s.chan) /\ DOMAIN s.chan = 1..Len(s.chan) /\ s.chan[c] \in Chans
  BY <1>1
<1>3. s.chan[c].fd \in Fds
  BY <1>2 DEF Chans
<1> QED BY <1>2, <1>3, StateFields, SMTT(30) DEF Chans

LEMMA EpollMod ==
  ASSUME NEW s \in States, NEW c \in DOMAIN s.chan, s.chan[c].reg, s.chan[c].ev # {},
         s.open[s.chan[c].fd] # 0, s.kern[s.chan[c].fd] # NotListed
  PROVE  EpollUpdate(s, c) =
           Change(s, s.chan[c].fd, c, [ptr |-> c, ev |-> s.chan[c].ev],
                  s.registered[s.chan[c].fd], s.channels[s.chan[c].fd], s.chan[c])
<1> PICK f, t : f = s.chan[c].fd /\ t = EpollUpdate(s, c)
  BY Zenon
<1>1. t = EpollCtl(s, "mod", c)
  BY Zenon DEF EpollUpdate
<1>2. t = [s EXCEPT !.kern[f] = [ptr |-> c, ev |-> s.chan[c].ev]]
  BY <1>1, EpollCtlOk
<1>3. /\ s.registered = [s.registered EXCEPT ![f] = s.registered[f]]
      /\ s.channels = [s.channels EXCEPT ![f] = s.channels[f]]
      /\ s.chan = [s.chan EXCEPT ![c] = s.chan[c]]
  BY Unaltered, Zenon
<1> QED BY <1>2, <1>3, Zenon DEF Change, States

LEMMA EpollAdd ==
  ASSUME NEW s \in States, NEW c \in DOMAIN s.chan, ~s.chan[c].reg, s.chan[c].ev # {},
         s.open[s.chan[c].fd] # 0, s.kern[s.chan[c].fd] = NotListed
  PROVE  EpollUpdate(s, c) =
           Change(s, s.chan[c].fd, c, [ptr |-> c, ev |-> s.chan[c].ev],
                  s.registered[s.chan[c].fd], c, [s.chan[c] EXCEPT !.reg = TRUE])
<1> PICK f, t, ch : /\ f = s.chan[c].fd /\ t = EpollUpdate(s, c)
                    /\ ch = [s.chan[c] EXCEPT !.reg = TRUE]
  BY Zenon
<1>0. PICK u : u = [s EXCEPT !.channels[f] = c, !.chan[c].reg = TRUE]
  BY Zenon
<1>1. t = EpollCtl(u, "add", c)
  BY <1>0, Zenon DEF EpollUpdate
<1>2. /\ u = [s EXCEPT !.channels = [s.channels EXCEPT ![f] = c], !.chan = [s.chan EXCEPT ![c] = ch]]
      /\ u.open = s.open /\ u.kern = s.kern /\ u.registered = s.registered
      /\ u.channels = [s.channels EXCEPT ![f] = c] /\ u.chan = [s.chan EXCEPT ![c] = ch]
  BY <1>0 DEF States
<1>3. ch \in Chans /\ ch.fd = f /\ ch.ev = s.chan[c].ev /\ s.chan[c] \in Chans /\ c \in Nat
  <2>1. s.chan[c] \in Chans /\ c \in Nat
    BY ChanFacts, Zenon
  <2> QED BY <2>1, Zenon DEF Chans
<1>4. u \in States
  <2>1. [s.chan EXCEPT ![c] = ch] \in Seq(Chans)
    BY <1>3, StateFields
  <2>2. [s.channels EXCEPT ![f] = c] \in [Fds -> Nat]
    BY <1>3, StateFields, Zenon
  <2> QED BY <1>2, <2>1, <2>2, Zenon DEF States
<1>5. u.chan[c] = ch
  BY <1>2, ZenonT(60)
<1>6. t = [u EXCEPT !.kern[f] = [ptr |-> c, ev |-> s.chan[c].ev]]
  <2>1. u.chan[c].fd = f /\ u.chan[c].ev = s.chan[c].ev
    BY <1>3, <1>5, Zenon
  <2>2. u.open[u.chan[c].fd] # 0 /\ ("add" = "add" <=> u.kern[u.chan[c].fd] = NotListed)
    BY <1>2, <2>1, Zenon
  <2>3. EpollCtl(u, "add", c) =
          [u EXCEPT !.kern[u.chan[c].fd] = IF "add" = "del" THEN NotListed
                                           ELSE [ptr |-> c, ev |-> u.chan[c].ev]]
    BY <1>4, <2>2, EpollCtlOk, SMTT(30)
  <2> QED BY <1>1, <2>1, <2>3
<1>7. s.registered = [s.registered EXCEPT ![f] = s.registered[f]]
  BY Unaltered, ZenonT(60)
<1>8. /\ u.later = s.later /\ u.dying = s.dying /\ u.ensured = s.ensured
  BY <1>0 DEF States
<1>9. t = [open |-> u.open, kern |-> [u.kern EXCEPT ![f] = [ptr |-> c, ev |-> s.chan[c].ev]],
           channels |-> u.channels, registered |-> u.registered, chan |-> u.chan,
           later |-> u.later, dying |-> u.dying, ensured |-> u.ensured]
  BY <1>4, <1>6, Zenon DEF States
<1> QED BY <1>2, <1>7, <1>8, <1>9, Zenon DEF Change

LEMMA EpollDel ==
  ASSUME NEW s \in States, NEW c \in DOMAIN s.chan, s.chan[c].reg, s.chan[c].ev = {},
         s.open[s.chan[c].fd] # 0, s.kern[s.chan[c].fd] # NotListed
  PROVE  EpollUpdate(s, c) =
           Change(s, s.chan[c].fd, c, NotListed,
                  s.registered[s.chan[c].fd], 0, [s.chan[c] EXCEPT !.reg = FALSE])
<1> PICK f, t : f = s.chan[c].fd /\ t = EpollUpdate(s, c)
  BY Zenon
<1>1. t = [EpollCtl(s, "del", c) EXCEPT !.channels[f] = 0, !.chan[c].reg = FALSE]
  BY Zenon DEF EpollUpdate
<1>2. t = [s EXCEPT !.kern[f] = NotListed, !.channels[f] = 0, !.chan[c].reg = FALSE]
  BY <1>1, EpollCtlOk, ZenonT(60)
<1>3. s.registered = [s.registered EXCEPT ![f] = s.registered[f]]
  BY Unaltered, ZenonT(60)
<1> QED BY <1>2, <1>3, ZenonT(60) DEF Change, States

LEMMA KqueueCtlOk ==
  ASSUME NEW s \in States, NEW f \in Fds, NEW ev, s.open[f] # 0, s.kern[f].ev = s.registered[f]
  PROVE  KqueueCtl(s, f, ev \ s.registered[f], s.registered[f] \ ev)
           = [s EXCEPT !.kern[f] = [ptr |-> s.kern[f].ptr, ev |-> ev]]
<1> PICK old, t : old = s.registered[f] /\ t = KqueueCtl(s, f, ev \ old, old \ ev)
  BY Zenon
<1>1. t = [s EXCEPT !.kern[f].ev = (@ \cup (ev \ old)) \ (old \ ev), !.ensured = @ /\ TRUE]
  BY Zenon DEF KqueueCtl
<1>2. (s.ensured /\ TRUE) = s.ensured
  BY DEF States
<1>3. (s.kern[f].ev \cup (ev \ old)) \ (old \ ev) = ev
  BY Zenon
<1>4. t = [s EXCEPT !.kern[f].ev = ev]
  BY <1>1, <1>2, <1>3, Zenon DEF States
<1>5. [s.kern[f] EXCEPT !.ev = ev] = [ptr |-> s.kern[f].ptr, ev |-> ev]
  BY StateFields DEF Entries
<1> QED BY <1>4, <1>5, Zenon

LEMMA KqueueMod ==
  ASSUME NEW s \in States, NEW c \in DOMAIN s.chan, s.chan[c].ev # {},
         s.open[s.chan[c].fd] # 0, s.channels[s.chan[c].fd] # 0,
         s.kern[s.chan[c].fd].ev = s.registered[s.chan[c].fd]
  PROVE  KqueueUpdate(s, c) =
           Change(s, s.chan[c].fd, c, [ptr |-> s.kern[s.chan[c].fd].ptr, ev |-> s.chan[c].ev],
                  s.chan[c].ev, s.channels[s.chan[c].fd], s.chan[c])
<1> PICK f, ev, t : f = s.chan[c].fd /\ ev = s.chan[c].ev /\ t = KqueueUpdate(s, c)
  BY Zenon
<1>1. t = [KqueueCtl(s, f, ev \ s.registered[f], s.registered[f] \ ev) EXCEPT !.registered[f] = ev]
  BY Zenon DEF KqueueUpdate
<1>2. f \in Fds
  BY ChanFacts, Zenon
<1>3. KqueueCtl(s, f, ev \ s.registered[f], s.registered[f] \ ev)
        = [s EXCEPT !.kern[f] = [ptr |-> s.kern[f].ptr, ev |-> ev]]
  BY <1>2, KqueueCtlOk, ZenonT(60)
<1>4. /\ s.channels = [s.channels EXCEPT ![f] = s.channels[f]]
      /\ s.chan = [s.chan EXCEPT ![c] = s.chan[c]]
  BY Unaltered, Zenon
<1>5. t = [s EXCEPT !.kern[f] = [ptr |-> s.kern[f].ptr, ev |-> ev], !.registered[f] = ev]
  BY <1>1, <1>3, Zenon
<1> QED BY <1>4, <1>5, ZenonT(60) DEF Change, States

LEMMA KqueueAdd ==
  ASSUME NEW s \in States, NEW c \in DOMAIN s.chan, s.chan[c].ev # {},
         s.open[s.chan[c].fd] # 0, s.channels[s.chan[c].fd] = 0,
         s.kern[s.chan[c].fd].ev = s.registered[s.chan[c].fd]
  PROVE  KqueueUpdate(s, c) =
           Change(s, s.chan[c].fd, c, [ptr |-> s.kern[s.chan[c].fd].ptr, ev |-> s.chan[c].ev],
                  s.chan[c].ev, c, [s.chan[c] EXCEPT !.reg = TRUE])
<1> PICK f, ev, t : f = s.chan[c].fd /\ ev = s.chan[c].ev /\ t = KqueueUpdate(s, c)
  BY Zenon
<1>1. t = [KqueueCtl(s, f, ev \ s.registered[f], s.registered[f] \ ev) EXCEPT
             !.channels[f] = c, !.registered[f] = ev, !.chan[c].reg = TRUE]
  BY Zenon DEF KqueueUpdate
<1>2. f \in Fds
  BY ChanFacts, Zenon
<1>3. KqueueCtl(s, f, ev \ s.registered[f], s.registered[f] \ ev)
        = [s EXCEPT !.kern[f] = [ptr |-> s.kern[f].ptr, ev |-> ev]]
  BY <1>2, KqueueCtlOk, ZenonT(60)
<1>4. t = [s EXCEPT !.kern[f] = [ptr |-> s.kern[f].ptr, ev |-> ev], !.channels[f] = c,
                    !.registered[f] = ev, !.chan[c].reg = TRUE]
  BY <1>1, <1>3, Zenon
<1> QED BY <1>4, ZenonT(60) DEF Change, States

LEMMA KqueueDel ==
  ASSUME NEW s \in States, NEW c \in DOMAIN s.chan, s.chan[c].ev = {},
         s.open[s.chan[c].fd] # 0, s.channels[s.chan[c].fd] # 0,
         s.kern[s.chan[c].fd].ev = s.registered[s.chan[c].fd]
  PROVE  KqueueUpdate(s, c) =
           Change(s, s.chan[c].fd, c, [ptr |-> s.kern[s.chan[c].fd].ptr, ev |-> {}],
                  {}, 0, [s.chan[c] EXCEPT !.reg = FALSE])
<1> PICK f, t : f = s.chan[c].fd /\ t = KqueueUpdate(s, c)
  BY Zenon
<1>1. t = [KqueueCtl(s, f, {} \ s.registered[f], s.registered[f] \ {}) EXCEPT
             !.channels[f] = 0, !.registered[f] = {}, !.chan[c].reg = FALSE]
  BY Zenon DEF KqueueUpdate
<1>2. f \in Fds
  BY ChanFacts, Zenon
<1>3. KqueueCtl(s, f, {} \ s.registered[f], s.registered[f] \ {})
        = [s EXCEPT !.kern[f] = [ptr |-> s.kern[f].ptr, ev |-> {}]]
  BY <1>2, KqueueCtlOk, ZenonT(60)
<1>4. t = [s EXCEPT !.kern[f] = [ptr |-> s.kern[f].ptr, ev |-> {}], !.channels[f] = 0,
                    !.registered[f] = {}, !.chan[c].reg = FALSE]
  BY <1>1, <1>3, Zenon
<1> QED BY <1>4, ZenonT(60) DEF Change, States

-----------------------------------------------------------------------------
(* Channel's operations.                                                   *)

\* The Channel's own record apart, the tables of s are in order for c.
LEMMA SetEventsIs ==
  ASSUME NEW s \in States, NEW c \in DOMAIN s.chan, NEW ev \in Interest, backend \in {"epoll", "kqueue"},
         s.chan[c].reg, s.open[s.chan[c].fd] # 0, Listed(s, c), s.chan[c].ev # {}, ev # {}
  PROVE  SetEvents(s, c, ev) =
           Change(s, s.chan[c].fd, c, Entry(c, ev), Kept(ev), c, [s.chan[c] EXCEPT !.ev = ev])
<1>0. PICK u : u = [s EXCEPT !.chan[c].ev = ev]
  BY Zenon
<1>1. PICK f, ch : f = s.chan[c].fd /\ ch = [s.chan[c] EXCEPT !.ev = ev]
  BY Zenon
<1>2. /\ u.open = s.open /\ u.kern = s.kern /\ u.registered = s.registered
      /\ u.channels = s.channels /\ u.chan = [s.chan EXCEPT ![c] = ch]
      /\ u.later = s.later /\ u.dying = s.dying /\ u.ensured = s.ensured
      /\ u = [s EXCEPT !.chan = [s.chan EXCEPT ![c] = ch]]
  BY <1>0, <1>1 DEF States
<1>3. ch \in Chans /\ ch.fd = f /\ ch.ev = ev /\ ch.reg /\ c \in Nat \ {0}
  <2>1. s.chan[c] \in Chans /\ c \in Nat \ {0}
    BY ChanFacts, Zenon
  <2> QED BY <1>1, <2>1 DEF Chans
<1>4. u \in States
  <2>1. [s.chan EXCEPT ![c] = ch] \in Seq(Chans)
    BY <1>3, StateFields
  <2> QED BY <1>2, <2>1, Zenon DEF States
<1>5. u.chan[c] = ch /\ c \in DOMAIN u.chan /\ [u.chan EXCEPT ![c] = ch] = [s.chan EXCEPT ![c] = ch]
  BY <1>2, <1>3, StateFields
<1>6. /\ u.open[f] # 0 /\ u.channels[f] = c /\ u.kern[f] = Entry(c, s.chan[c].ev)
      /\ u.registered[f] = Kept(s.chan[c].ev)
  BY <1>1, <1>2, Zenon DEF Listed
<1>7. CASE backend = "epoll"
  <2>1. u.kern[f] # NotListed
    BY <1>6 DEF Entry, NotListed
  <2>2. EpollUpdate(u, c) = Change(u, f, c, [ptr |-> c, ev |-> ev], u.registered[f], u.channels[f], ch)
    BY <1>3, <1>4, <1>5, <1>6, <2>1, EpollMod
  <2>3. u.registered[f] = Kept(ev) /\ [ptr |-> c, ev |-> ev] = Entry(c, ev)
    BY <1>6, <1>7, Zenon DEF Kept, Entry
  <2>4. SetEvents(s, c, ev) = EpollUpdate(u, c)
    BY <1>0, <1>7, Zenon DEF SetEvents, UpdateChannel
  <2> QED BY <1>1, <1>2, <1>5, <1>6, <2>2, <2>3, <2>4, ZenonT(60) DEF Change
<1>8. CASE backend = "kqueue"
  <2>1. u.kern[f].ev = u.registered[f] /\ u.kern[f].ptr = 0
    BY <1>6, <1>8 DEF Entry, Kept
  <2>2. KqueueUpdate(u, c) = Change(u, f, c, [ptr |-> u.kern[f].ptr, ev |-> ev], ev, u.channels[f], ch)
    BY <1>3, <1>4, <1>5, <1>6, <2>1, KqueueMod, SMTT(30)
  <2>3. ev = Kept(ev) /\ [ptr |-> u.kern[f].ptr, ev |-> ev] = Entry(c, ev)
    BY <1>8, <2>1 DEF Kept, Entry
  <2>4. SetEvents(s, c, ev) = KqueueUpdate(u, c)
    BY <1>0, <1>8 DEF SetEvents, UpdateChannel
  <2> QED BY <1>1, <1>2, <1>5, <1>6, <2>2, <2>3, <2>4, ZenonT(60) DEF Change
<1> QED BY <1>7, <1>8

\* u is s but for the events that c, now ch, waits for.
Asks(s, c, ev, u, ch) ==
  /\ u \in States
  /\ u.open = s.open /\ u.kern = s.kern /\ u.registered = s.registered
  /\ u.channels = s.channels /\ u.chan = [s.chan EXCEPT ![c] = ch]
  /\ u.later = s.later /\ u.dying = s.dying /\ u.ensured = s.ensured
  /\ ch \in Chans /\ ch.fd = s.chan[c].fd /\ ch.ev = ev /\ ch.reg = s.chan[c].reg
  /\ u.chan[c] = ch /\ c \in DOMAIN u.chan
  /\ \A r : [u.chan EXCEPT ![c] = r] = [s.chan EXCEPT ![c] = r]

LEMMA WithEvents ==
  ASSUME NEW s \in States, NEW c \in DOMAIN s.chan, NEW ev \in Interest,
         NEW u, u = [s EXCEPT !.chan[c].ev = ev], NEW ch, ch = [s.chan[c] EXCEPT !.ev = ev]
  PROVE  Asks(s, c, ev, u, ch)
<1>1. /\ u.open = s.open /\ u.kern = s.kern /\ u.registered = s.registered
      /\ u.channels = s.channels /\ u.chan = [s.chan EXCEPT ![c] = ch]
      /\ u.later = s.later /\ u.dying = s.dying /\ u.ensured = s.ensured
      /\ u = [s EXCEPT !.chan = [s.chan EXCEPT ![c] = ch]]
  BY DEF States
<1>2. ch \in Chans /\ ch.fd = s.chan[c].fd /\ ch.ev = ev /\ ch.reg = s.chan[c].reg
  <2>1. s.chan[c] \in Chans
    BY ChanFacts, Zenon
  <2> QED BY <2>1 DEF Chans
<1>3. u \in States
  <2>1. [s.chan EXCEPT ![c] = ch] \in Seq(Chans)
    BY <1>2, StateFields
  <2> QED BY <1>1, <2>1, Zenon DEF States
<1>4. u.chan[c] = ch /\ c \in DOMAIN u.chan
  BY <1>1, <1>2, StateFields
<1>5. ASSUME NEW r PROVE [u.chan EXCEPT ![c] = r] = [s.chan EXCEPT ![c] = r]
  BY <1>1, <1>2, StateFields, SMTT(30)
<1> QED BY <1>1, <1>2, <1>3, <1>4, <1>5, Zenon DEF Asks

LEMMA UnregisterIs ==
  ASSUME NEW s \in States, NEW c \in DOMAIN s.chan, backend \in {"epoll", "kqueue"},
         s.chan[c].reg, s.open[s.chan[c].fd] # 0, Listed(s, c), s.chan[c].ev # {}
  PROVE  Unregister(s, c) =
           Change(s, s.chan[c].fd, c, NotListed, {}, 0, [s.chan[c] EXCEPT !.ev = {}, !.reg = FALSE])
<1>0. PICK u : u = [s EXCEPT !.chan[c].ev = {}]
  BY Zenon
<1>1. PICK f, ch : f = s.chan[c].fd /\ ch = [s.chan[c] EXCEPT !.ev = {}]
  BY Zenon
<1>2. {} \in Interest /\ c \in Nat \ {0}
  <2>1. c \in Nat \ {0}
    BY ChanFacts, Zenon
  <2> QED BY <2>1 DEF Interest
<1>3. /\ u \in States
      /\ u.open = s.open /\ u.kern = s.kern /\ u.registered = s.registered
      /\ u.channels = s.channels /\ u.chan = [s.chan EXCEPT ![c] = ch]
      /\ u.later = s.later /\ u.dying = s.dying /\ u.ensured = s.ensured
      /\ ch \in Chans /\ ch.fd = f /\ ch.ev = {} /\ ch.reg
      /\ u.chan[c] = ch /\ c \in DOMAIN u.chan
      /\ \A r : [u.chan EXCEPT ![c] = r] = [s.chan EXCEPT ![c] = r]
  <2>1. Asks(s, c, {}, u, ch)
    BY <1>0, <1>1, <1>2, WithEvents, Zenon
  <2> QED BY <1>1, <2>1, Zenon DEF Asks
<1>4. /\ u.open[f] # 0 /\ u.channels[f] = c /\ u.kern[f] = Entry(c, s.chan[c].ev)
      /\ u.registered[f] = Kept(s.chan[c].ev)
  BY <1>1, <1>3, Zenon DEF Listed
<1>5. PICK v, last : /\ last = [ch EXCEPT !.reg = FALSE]
                     /\ v = Change(s, f, c, NotListed, {}, 0, last)
  BY Zenon
<1>6. last = [s.chan[c] EXCEPT !.ev = {}, !.reg = FALSE] /\ ~last.reg /\ last.fd = f
  BY <1>1, <1>3, <1>5, SMTT(30) DEF Chans
<1>7. v.chan[c] = last /\ v.channels[f] = 0
  <2>1. f \in Fds
    BY <1>1, ChanFacts, Zenon
  <2> QED BY <1>5, <2>1, StateFields DEF Change
<1>8. [u.chan EXCEPT ![c] = last] = [s.chan EXCEPT ![c] = last]
  BY <1>3, Zenon
<1>9. CASE backend = "epoll"
  <2>1. u.kern[f] # NotListed
    BY <1>2, <1>4, <1>9, SMTT(30) DEF Entry, NotListed
  <2>2. EpollUpdate(u, c) = Change(u, f, c, NotListed, u.registered[f], 0, last)
    BY <1>3, <1>4, <1>5, <2>1, EpollDel
  <2>3. u.registered[f] = {}
    BY <1>4, <1>9, Zenon DEF Kept
  <2>4. SetEvents(s, c, {}) = EpollUpdate(u, c)
    BY <1>0, <1>9, Zenon DEF SetEvents, UpdateChannel
  <2>5. SetEvents(s, c, {}) = v
    <3>1. Change(u, f, c, NotListed, {}, 0, last) = v
      BY <1>3, <1>5, <1>8, Zenon DEF Change
    <3> QED BY <2>2, <2>3, <2>4, <3>1, Zenon
  <2>6. RemoveChannel(v, c) = v
    BY <1>6, <1>7, <1>9, Zenon DEF RemoveChannel, EpollRemove
  <2> QED BY <1>1, <1>5, <1>6, <2>5, <2>6, Zenon DEF Unregister
<1>10. CASE backend = "kqueue"
  <2>1. u.kern[f].ev = u.registered[f] /\ u.kern[f].ptr = 0
    BY <1>4, <1>10, SMTT(30) DEF Entry, Kept
  <2>2. KqueueUpdate(u, c) = Change(u, f, c, [ptr |-> u.kern[f].ptr, ev |-> {}], {}, 0, last)
    BY <1>2, <1>3, <1>4, <1>5, <2>1, KqueueDel, SMTT(30)
  <2>3. [ptr |-> u.kern[f].ptr, ev |-> {}] = NotListed
    BY <2>1 DEF NotListed
  <2>4. SetEvents(s, c, {}) = KqueueUpdate(u, c)
    BY <1>0, <1>10 DEF SetEvents, UpdateChannel
  <2>5. SetEvents(s, c, {}) = v
    <3>1. Change(u, f, c, NotListed, {}, 0, last) = v
      BY <1>3, <1>5, <1>8, Zenon DEF Change
    <3> QED BY <2>2, <2>3, <2>4, <3>1, ZenonT(60)
  <2>6. RemoveChannel(v, c) = v
    BY <1>6, <1>7, <1>10 DEF RemoveChannel, KqueueRemove
  <2> QED BY <1>1, <1>5, <1>6, <2>5, <2>6, Zenon DEF Unregister
<1> QED BY <1>9, <1>10

\* s, with a new Channel ch that waits for its events.
Added(s, ch) ==
  [open |-> s.open, kern |-> [s.kern EXCEPT ![ch.fd] = Entry(Len(s.chan) + 1, ch.ev)],
   channels |-> [s.channels EXCEPT ![ch.fd] = Len(s.chan) + 1],
   registered |-> [s.registered EXCEPT ![ch.fd] = Kept(ch.ev)],
   chan |-> Append(s.chan, ch),
   later |-> s.later, dying |-> s.dying, ensured |-> s.ensured]

Extended(q, ch, last, n) ==
  /\ n \in Nat \ {0} /\ Append(q, ch) \in Seq(Chans)
  /\ n \in DOMAIN Append(q, ch) /\ Append(q, ch)[n] = ch
  /\ [Append(q, ch) EXCEPT ![n] = last] = Append(q, last)

LEMMA Appended ==
  ASSUME NEW q \in Seq(Chans), NEW ch \in Chans, NEW last \in Chans, NEW n, n = Len(q) + 1
  PROVE  Extended(q, ch, last, n)
<1>1. n \in Nat \ {0} /\ Append(q, ch) \in Seq(Chans) /\ n \in DOMAIN Append(q, ch) /\ Append(q, ch)[n] = ch
  OBVIOUS
<1>2. PICK m, b : m = Append(q, ch) /\ b = Append(q, last)
  BY Zenon
<1>3. /\ m \in [1..n -> Chans] /\ b \in [1..n -> Chans] /\ b[n] = last
      /\ \A i \in 1..n : i # n => m[i] = b[i]
  <2>1. m \in [1..n -> Chans]
    <3>1. m \in Seq(Chans) /\ Len(m) = n
      BY <1>2
    <3> QED BY <3>1
  <2>2. b \in [1..n -> Chans] /\ b[n] = last
    <3>1. b \in Seq(Chans) /\ Len(b) = n /\ b[n] = last
      BY <1>2
    <3> QED BY <3>1
  <2>3. ASSUME NEW i \in 1..n, i # n PROVE m[i] = b[i]
    <3>1. i \in 1..Len(q)
      BY <2>3
    <3>2. m[i] = q[i] /\ b[i] = q[i]
      BY <1>2, <3>1
    <3> QED BY <3>2
  <2> QED BY <2>1, <2>2, <2>3
<1>4. [m EXCEPT ![n] = last] = b
  BY <1>3
<1> QED BY <1>1, <1>2, <1>4, Zenon DEF Extended

LEMMA NewChannelIs ==
  ASSUME NEW s \in States, NEW f \in Fds, NEW kind \in {"listen", "connect", "conn"}, NEW sock \in Nat,
         NEW ev \in Interest, ev # {}, backend \in {"epoll", "kqueue"}, s.open[f] # 0, Unlisted(s, f)
  PROVE  NewChannel(s, kind, f, sock, ev) =
           Added(s, [kind |-> kind, fd |-> f, sock |-> sock, ev |-> ev, reg |-> TRUE, live |-> TRUE])
<1>0. PICK c, new, last :
        /\ c = Len(s.chan) + 1
        /\ new = [kind |-> kind, fd |-> f, sock |-> sock, ev |-> {}, reg |-> FALSE, live |-> TRUE]
        /\ last = [kind |-> kind, fd |-> f, sock |-> sock, ev |-> ev, reg |-> TRUE, live |-> TRUE]
  BY Zenon
<1>1. PICK w : w = [s EXCEPT !.chan = Append(@, new)]
  BY Zenon
<1>2. PICK u, ch : u = [w EXCEPT !.chan[c].ev = ev] /\ ch = [w.chan[c] EXCEPT !.ev = ev]
  BY Zenon
<1>3. new \in Chans /\ last \in Chans
  BY <1>0 DEF Chans, Interest
<1>4. /\ c \in Nat \ {0} /\ Append(s.chan, new) \in Seq(Chans)
      /\ c \in DOMAIN Append(s.chan, new) /\ Append(s.chan, new)[c] = new
      /\ [Append(s.chan, new) EXCEPT ![c] = last] = Append(s.chan, last)
  <2>1. s.chan \in Seq(Chans)
    BY StateFields
  <2>2. Extended(s.chan, new, last, c)
    BY <1>0, <1>3, <2>1, Appended, Zenon
  <2> QED BY <2>2, Zenon DEF Extended
<1>5. /\ w \in States /\ w.chan = Append(s.chan, new)
      /\ w.open = s.open /\ w.kern = s.kern /\ w.registered = s.registered
      /\ w.channels = s.channels /\ w.later = s.later /\ w.dying = s.dying /\ w.ensured = s.ensured
  BY <1>1, <1>4, Zenon DEF States
<1>6. Asks(w, c, ev, u, ch)
  BY <1>2, <1>4, <1>5, WithEvents, Zenon
<1>7. /\ u \in States
      /\ u.open = s.open /\ u.kern = s.kern /\ u.registered = s.registered
      /\ u.channels = s.channels /\ u.later = s.later /\ u.dying = s.dying /\ u.ensured = s.ensured
      /\ ch.fd = f /\ ch.ev = ev /\ ~ch.reg /\ u.chan[c] = ch /\ c \in DOMAIN u.chan
  <2>1. w.chan[c] = new /\ new.fd = f /\ new.reg = FALSE
    BY <1>0, <1>4, <1>5
  <2> QED BY <1>5, <1>6, <2>1, Zenon DEF Asks
<1>8. [ch EXCEPT !.reg = TRUE] = last
  <2>1. ch = [new EXCEPT !.ev = ev]
    BY <1>2, <1>4, <1>5, Zenon
  <2>2. PICK r : r = [ch EXCEPT !.reg = TRUE]
    BY Zenon
  <2>3. /\ new.kind = kind /\ new.fd = f /\ new.sock = sock /\ new.live = TRUE
        /\ last.kind = kind /\ last.fd = f /\ last.sock = sock /\ last.live = TRUE
        /\ last.ev = ev /\ last.reg = TRUE
    BY <1>0
  <2>4. /\ r \in Chans /\ r.kind = kind /\ r.fd = f /\ r.sock = sock /\ r.live = TRUE
        /\ r.ev = ev /\ r.reg = TRUE
    BY <1>3, <2>1, <2>2, <2>3, Zenon DEF Chans
  <2>5. r = last
    BY <1>3, <2>3, <2>4 DEF Chans
  <2> QED BY <2>2, <2>5
<1>9. [u.chan EXCEPT ![c] = last] = Append(s.chan, last)
  <2>1. [u.chan EXCEPT ![c] = last] = [w.chan EXCEPT ![c] = last]
    BY <1>6, Zenon DEF Asks
  <2> QED BY <1>4, <1>5, <2>1, Zenon
<1>10. /\ u.open[f] # 0 /\ u.channels[f] = 0 /\ u.kern[f] = NotListed /\ u.registered[f] = {}
  BY <1>7, Zenon DEF Unlisted
<1>11. last.fd = f /\ last.ev = ev
  BY <1>0
<1>12. NewChannel(s, kind, f, sock, ev) = UpdateChannel(u, c)
  BY <1>0, <1>1, <1>2, Zenon DEF NewChannel, SetEvents
<1>13. Change(u, f, c, Entry(c, ev), Kept(ev), c, last) = Added(s, last)
  BY <1>0, <1>7, <1>9, <1>11, ZenonT(60) DEF Change, Added
<1>14. CASE backend = "epoll"
  <2>1. EpollUpdate(u, c) = Change(u, f, c, [ptr |-> c, ev |-> ev], u.registered[f], c, last)
    BY <1>7, <1>8, <1>10, EpollAdd, Zenon
  <2>2. u.registered[f] = Kept(ev) /\ [ptr |-> c, ev |-> ev] = Entry(c, ev)
    BY <1>10, <1>14, Zenon DEF Kept, Entry
  <2>3. UpdateChannel(u, c) = EpollUpdate(u, c)
    BY <1>14, Zenon DEF UpdateChannel
  <2> QED BY <1>0, <1>12, <1>13, <2>1, <2>2, <2>3, Zenon
<1>15. CASE backend = "kqueue"
  <2>1. u.kern[f].ev = u.registered[f] /\ u.kern[f].ptr = 0
    BY <1>10 DEF NotListed
  <2>2. KqueueUpdate(u, c) = Change(u, f, c, [ptr |-> u.kern[f].ptr, ev |-> ev], ev, c, last)
    BY <1>7, <1>8, <1>10, <2>1, KqueueAdd, Zenon
  <2>3. ev = Kept(ev) /\ [ptr |-> u.kern[f].ptr, ev |-> ev] = Entry(c, ev)
    BY <1>15, <2>1 DEF Kept, Entry
  <2>4. UpdateChannel(u, c) = KqueueUpdate(u, c)
    BY <1>15 DEF UpdateChannel
  <2> QED BY <1>0, <1>12, <1>13, <2>2, <2>3, <2>4, Zenon
<1> QED BY <1>14, <1>15

-----------------------------------------------------------------------------
(* The operations keep Good.                                               *)

LEMMA OwnedFacts ==
  ASSUME NEW s, Good(s), NEW c \in DOMAIN s.chan, Owned(s, c)
  PROVE  /\ s \in States /\ Listed(s, c) /\ s.chan[c].ev # {} /\ s.chan[c].reg
         /\ s.chan[c].live /\ s.chan[c].sock # 0 /\ s.open[s.chan[c].fd] = s.chan[c].sock
         /\ s.open[s.chan[c].fd] # 0
BY ZenonT(60) DEF Good, GoodChan, Owned, Listed

\* c has left the tables, and does not wait for anything any more.
Off(s, u, c) ==
  LET f == s.chan[c].fd IN
  /\ u \in States
  /\ u.open = s.open /\ u.later = s.later /\ u.dying = s.dying /\ u.ensured = s.ensured
  /\ u.kern = [s.kern EXCEPT ![f] = NotListed]
  /\ u.channels = [s.channels EXCEPT ![f] = 0]
  /\ u.registered = [s.registered EXCEPT ![f] = {}]
  /\ u.chan = [s.chan EXCEPT ![c] = [s.chan[c] EXCEPT !.ev = {}, !.reg = FALSE]]

LEMMA UnregisterOff ==
  ASSUME NEW s, Good(s), NEW c \in DOMAIN s.chan, Owned(s, c), backend \in {"epoll", "kqueue"}
  PROVE  Off(s, Unregister(s, c), c)
<1>1. PICK f, last : f = s.chan[c].fd /\ last = [s.chan[c] EXCEPT !.ev = {}, !.reg = FALSE]
  BY Zenon
<1>2. s \in States /\ s.chan[c] \in Chans /\ f \in Fds
  BY <1>1, OwnedFacts, ChanFacts, Zenon
<1>3. Unregister(s, c) = Change(s, f, c, NotListed, {}, 0, last)
  BY <1>1, OwnedFacts, UnregisterIs, ZenonT(60)
<1>4. last \in Chans /\ {} \in Interest /\ NotListed \in Entries
  BY <1>1, <1>2, Zenon DEF Chans, Interest, NotListed, Entries
<1>5. Unregister(s, c) \in States
  BY <1>2, <1>3, <1>4, ChangeType
<1> QED BY <1>1, <1>3, <1>5 DEF Off, Change

\* c is out of all tables, destroyed or its descriptor closed.
Gone(s, t, c) ==
  LET f == s.chan[c].fd IN
  /\ t \in States
  /\ t.ensured = s.ensured
  /\ t.later \subseteq s.later \cup {c}
  /\ t.dying = s.dying
  /\ \A g \in Fds : g # f => /\ t.open[g] = s.open[g] /\ t.kern[g] = s.kern[g]
                             /\ t.channels[g] = s.channels[g] /\ t.registered[g] = s.registered[g]
  /\ t.open[f] \in {0, s.open[f]}
  /\ Unlisted(t, f)
  /\ DOMAIN t.chan = DOMAIN s.chan /\ Len(t.chan) = Len(s.chan)
  /\ \A d \in DOMAIN s.chan : d # c => t.chan[d] = s.chan[d]
  /\ t.chan[c].ev = {} /\ ~t.chan[c].reg /\ t.chan[c].fd = f
  /\ t.chan[c].sock \in {0, s.chan[c].sock}
  /\ t.chan[c].live => t.chan[c].sock = s.chan[c].sock /\ t.open[f] = 0

LEMMA GoneGood ==
  ASSUME NEW s, Good(s), NEW c \in DOMAIN s.chan, Owned(s, c), NEW t, Gone(s, t, c)
  PROVE  Good(t)
<1>1. PICK f : f = s.chan[c].fd
  BY Zenon
<1>2. s.channels[f] = c /\ s \in States /\ f \in Fds
  BY <1>1, OwnedFacts, ChanFacts, ZenonT(60) DEF Listed
<1>3. ASSUME NEW d \in DOMAIN t.chan, d # c PROVE GoodChan(t, d)
  <2>1. d \in DOMAIN s.chan /\ t.chan[d] = s.chan[d] /\ GoodChan(s, d) /\ Len(t.chan) = Len(s.chan)
    BY <1>3, Zenon DEF Gone, Good
  <2>2. s.chan[d].fd \in Fds
    BY <1>2, <2>1, ChanFacts, Zenon
  <2>3. CASE s.chan[d].fd = f
    <3>1. s.chan[d].ev = {} /\ ~Owned(s, d)
      BY <1>2, <1>3, <2>1, <2>3, Zenon DEF GoodChan, Listed
    <3>2. ~Owned(t, d)
      <4>1. t.open[f] = 0 \/ t.open[f] = s.open[f]
        BY <1>1 DEF Gone
      <4> QED BY <2>1, <2>3, <3>1, <4>1, ZenonT(60) DEF Owned, GoodChan
    <3> QED BY <2>1, <3>1, <3>2, Zenon DEF GoodChan
  <2>4. CASE s.chan[d].fd # f
    <3>1. (Owned(t, d) <=> Owned(s, d)) /\ (Listed(t, d) <=> Listed(s, d))
      <4>1. PICK g \in Fds : g = s.chan[d].fd /\ g # f
        BY <2>2, <2>4, Zenon
      <4>2. /\ t.open[g] = s.open[g] /\ t.kern[g] = s.kern[g]
            /\ t.channels[g] = s.channels[g] /\ t.registered[g] = s.registered[g]
        BY <1>1, <4>1, Zenon DEF Gone
      <4>3. Owned(t, d) <=> Owned(s, d)
        BY <2>1, <4>1, <4>2, ZenonT(60) DEF Owned
      <4>4. Listed(t, d) <=> Listed(s, d)
        BY <2>1, <4>1, <4>2, ZenonT(60) DEF Listed
      <4> QED BY <4>3, <4>4
    <3> QED BY <2>1, <3>1, Zenon DEF GoodChan
  <2> QED BY <2>3, <2>4
<1>4. GoodChan(t, c)
  <2>1. GoodChan(s, c) /\ s.chan[c].sock # 0 /\ s.chan[c].sock \in Nat /\ Len(s.chan) \in Nat
    <3>1. Len(s.chan) \in Nat
      BY <1>2, StateFields, SMTT(30)
    <3> QED BY <1>2, <3>1, OwnedFacts, ChanFacts, ZenonT(60) DEF Good
  <2>2. t.chan[c].sock <= Len(t.chan)
    BY <2>1 DEF Gone, GoodChan
  <2>3. ~Owned(t, c)
    BY <2>1, ZenonT(60) DEF Gone, Owned
  <2> QED BY <2>1, <2>2, <2>3, Zenon DEF Gone, GoodChan
<1>5. ASSUME NEW g \in Fds PROVE GoodFd(t, g)
  <2>1. CASE g = f
    BY <1>1, <2>1, Zenon DEF Gone, GoodFd
  <2>2. CASE g # f
    <3>1. GoodFd(s, g)
      BY Zenon DEF Good
    <3>2. /\ t.kern[g] = s.kern[g] /\ t.channels[g] = s.channels[g] /\ t.registered[g] = s.registered[g]
      BY <1>1, <2>2, Zenon DEF Gone
    <3>3. CASE Unlisted(s, g)
      <4>1. Unlisted(t, g)
        BY <3>2, <3>3, Zenon DEF Unlisted
      <4> QED BY <4>1, Zenon DEF GoodFd
    <3>4. CASE s.channels[g] \in DOMAIN s.chan /\ s.chan[s.channels[g]].fd = g /\ s.chan[s.channels[g]].ev # {}
      <4>1. s.channels[g] # c
        BY <1>1, <2>2, <3>4, Zenon
      <4> QED BY <3>2, <3>4, <4>1, ZenonT(60) DEF Gone, GoodFd
    <3> QED BY <3>1, <3>3, <3>4, Zenon DEF GoodFd
  <2> QED BY <2>1, <2>2
<1>6. ASSUME NEW d \in t.later \cup t.dying PROVE d \in DOMAIN t.chan /\ t.chan[d].ev = {}
  <2>1. CASE d = c
    BY <2>1, Zenon DEF Gone
  <2>2. CASE d # c
    <3>1. d \in s.later \cup s.dying
      BY <2>2 DEF Gone
    <3> QED BY <2>2, <3>1, ZenonT(60) DEF Good, Gone
  <2> QED BY <2>1, <2>2
<1>7. t \in States /\ t.ensured
  BY Zenon DEF Gone, Good
<1> QED BY <1>3, <1>4, <1>5, <1>6, <1>7, Zenon DEF Good

LEMMA FreedIs ==
  ASSUME NEW ch \in Chans
  PROVE  /\ Freed(ch) \in Chans /\ Freed(ch).ev = ch.ev /\ Freed(ch).reg = ch.reg
         /\ Freed(ch).fd = ch.fd /\ Freed(ch).sock = 0 /\ ~Freed(ch).live
BY Zenon DEF Freed, Chans

\* Only the descriptor, the list of closures and c itself have changed since
\* c left the tables.
LEMMA OffGone ==
  ASSUME NEW s, Good(s), NEW c \in DOMAIN s.chan, Owned(s, c), NEW u, Off(s, u, c),
         NEW t, t \in States, t.ensured = u.ensured, t.dying = u.dying,
         t.later \subseteq u.later \cup {c}, t.registered = u.registered, t.channels = u.channels,
         NEW h \in {0, s.open[s.chan[c].fd]},
         t.open = [u.open EXCEPT ![s.chan[c].fd] = h], t.kern = [u.kern EXCEPT ![s.chan[c].fd] = NotListed],
         NEW ch \in Chans, t.chan = [u.chan EXCEPT ![c] = ch],
         (ch = u.chan[c] /\ h = 0) \/ ch = Freed(u.chan[c])
  PROVE  Gone(s, t, c)
<1>1. PICK f, last : f = s.chan[c].fd /\ last = [s.chan[c] EXCEPT !.ev = {}, !.reg = FALSE]
  BY Zenon
<1>2. s \in States /\ s.chan[c] \in Chans /\ f \in Fds
  BY <1>1, OwnedFacts, ChanFacts, Zenon
<1>3. /\ last \in Chans /\ last.ev = {} /\ ~last.reg /\ last.fd = f
      /\ last.sock = s.chan[c].sock /\ last.live = s.chan[c].live
  BY <1>1, <1>2, Zenon DEF Chans, Interest
<1>4. u.chan = [s.chan EXCEPT ![c] = last] /\ u.chan[c] = last /\ u.open = s.open
  BY <1>1, Zenon DEF Off
<1>5. /\ t.chan[c] = ch /\ DOMAIN t.chan = DOMAIN s.chan /\ \A d \in DOMAIN s.chan : d # c => t.chan[d] = s.chan[d]
  BY <1>4, Zenon
<1>6. Len(t.chan) = Len(s.chan)
  <2>1. s.chan \in Seq(Chans) /\ t.chan \in Seq(Chans)
    BY <1>2, StateFields, Zenon
  <2> QED BY <1>5, <2>1
<1>7. /\ ch.ev = {} /\ ~ch.reg /\ ch.fd = f /\ ch.sock \in {0, s.chan[c].sock}
      /\ ch.live => ch.sock = s.chan[c].sock /\ h = 0
  <2>1. CASE ch = last /\ h = 0
    BY <1>3, <2>1
  <2>2. CASE ch = Freed(last)
    BY <1>3, <2>2, FreedIs
  <2> QED BY <1>4, <2>1, <2>2
<1>8. t.open[f] = h
  BY <1>1, <1>2, <1>4, StateFields
<1>9. Unlisted(t, f)
  BY <1>1, <1>2, StateFields, SMTT(30) DEF Unlisted, Off
<1>10. ASSUME NEW g \in Fds, g # f
       PROVE  /\ t.open[g] = s.open[g] /\ t.kern[g] = s.kern[g]
              /\ t.channels[g] = s.channels[g] /\ t.registered[g] = s.registered[g]
  BY <1>1, <1>2, <1>10, StateFields, SMTT(30) DEF Off
<1>11. t.ensured = s.ensured /\ t.later \subseteq s.later \cup {c} /\ t.dying = s.dying
  BY Zenon DEF Off
<1> QED BY <1>1, <1>5, <1>6, <1>7, <1>8, <1>9, <1>10, <1>11, Zenon DEF Gone

LEMMA DoCleanupGone ==
  ASSUME NEW s, Good(s), NEW c \in DOMAIN s.chan, Owned(s, c), backend \in {"epoll", "kqueue"}
  PROVE  /\ Gone(s, DoCleanup(s, c), c)
         /\ DoCleanup(s, c).chan[c].live /\ DoCleanup(s, c).chan[c].sock = s.chan[c].sock
<1>1. PICK u, f, t : u = Unregister(s, c) /\ f = s.chan[c].fd /\ t = DoCleanup(s, c)
  BY Zenon
<1>2. Off(s, u, c)
  BY <1>1, UnregisterOff, Zenon
<1>3. s \in States /\ s.chan[c] \in Chans /\ f \in Fds /\ c \in Nat
  BY <1>1, OwnedFacts, ChanFacts, Zenon
<1>4. t = [u EXCEPT !.open[f] = 0, !.kern[f] = NotListed, !.later = @ \cup {c}]
  BY <1>1, Zenon DEF DoCleanup, CloseHandle
<1>5. /\ t.open = [u.open EXCEPT ![f] = 0] /\ t.kern = [u.kern EXCEPT ![f] = NotListed]
      /\ t.channels = u.channels /\ t.registered = u.registered /\ t.chan = u.chan
      /\ t.later = u.later \cup {c} /\ t.dying = u.dying /\ t.ensured = u.ensured
  BY <1>2, <1>4, Zenon DEF Off, States
<1>6. t \in States
  <2>1. [u.open EXCEPT ![f] = 0] \in [Fds -> Nat]
    BY <1>2, StateFields, Zenon DEF Off
  <2>2. [u.kern EXCEPT ![f] = NotListed] \in [Fds -> Entries]
    BY <1>2, StateFields, Zenon DEF Off, NotListed, Entries, Interest
  <2>3. u.later \cup {c} \subseteq Nat
    BY <1>2, <1>3, StateFields DEF Off
  <2>4. t = [u EXCEPT !.open = [u.open EXCEPT ![f] = 0], !.kern = [u.kern EXCEPT ![f] = NotListed],
                      !.later = u.later \cup {c}]
    BY <1>4, Zenon
  <2> QED BY <1>2, <2>1, <2>2, <2>3, <2>4, Zenon DEF Off, States
<1>7. PICK last : last = [s.chan[c] EXCEPT !.ev = {}, !.reg = FALSE]
  BY Zenon
<1>8. u.chan[c] = last /\ last \in Chans /\ u.chan = [u.chan EXCEPT ![c] = last]
  <2>1. u.chan[c] = last
    BY <1>2, <1>7, Zenon DEF Off
  <2>2. last \in Chans
    BY <1>3, <1>7, Zenon DEF Chans, Interest
  <2>3. u \in States
    BY <1>2, Zenon DEF Off
  <2>4. u.chan = [u.chan EXCEPT ![c] = u.chan[c]]
    BY <2>3, Unaltered, Zenon
  <2> QED BY <2>1, <2>2, <2>4
<1>9. Gone(s, t, c)
  <2>1. t.chan = [u.chan EXCEPT ![c] = last] /\ t.later \subseteq u.later \cup {c}
    BY <1>5, <1>8
  <2>2. t.open = [u.open EXCEPT ![s.chan[c].fd] = 0] /\ t.kern = [u.kern EXCEPT ![s.chan[c].fd] = NotListed]
        /\ 0 \in {0, s.open[s.chan[c].fd]} /\ (last = u.chan[c] /\ 0 = 0)
    BY <1>1, <1>5, <1>8
  <2> QED BY <1>2, <1>5, <1>6, <1>8, <2>1, <2>2, OffGone, ZenonT(60)
<1>10. last.live /\ last.sock = s.chan[c].sock
  <2>1. s.chan[c].live
    BY OwnedFacts, Zenon
  <2> QED BY <1>3, <1>7, <2>1 DEF Chans
<1> QED BY <1>1, <1>5, <1>8, <1>9, <1>10, Zenon

\* The descriptor is closed and the Channel destroyed.
LEMMA ResetGone ==
  ASSUME NEW s, Good(s), NEW c \in DOMAIN s.chan, Owned(s, c), backend \in {"epoll", "kqueue"}
  PROVE  Gone(s, Reset(CloseHandle(Unregister(s, c), s.chan[c].fd), c), c)
<1>1. PICK u, f, t : u = Unregister(s, c) /\ f = s.chan[c].fd
                     /\ t = Reset(CloseHandle(Unregister(s, c), s.chan[c].fd), c)
  BY Zenon
<1>2. Off(s, u, c)
  BY <1>1, UnregisterOff, Zenon
<1>3. s \in States /\ s.chan[c] \in Chans /\ f \in Fds
  BY <1>1, OwnedFacts, ChanFacts, Zenon
<1>4. PICK last, ch : last = [s.chan[c] EXCEPT !.ev = {}, !.reg = FALSE] /\ ch = Freed(last)
  BY Zenon
<1>5. u.chan[c] = last /\ last \in Chans /\ ch \in Chans
  <2>1. last \in Chans
    BY <1>3, <1>4, Zenon DEF Chans, Interest
  <2> QED BY <1>2, <1>4, <2>1, FreedIs, Zenon DEF Off
<1>6. t = [u EXCEPT !.open[f] = 0, !.kern[f] = NotListed, !.chan[c] = Freed(@)]
  BY <1>1, Zenon DEF Reset, CloseHandle
<1>7. /\ t.open = [u.open EXCEPT ![f] = 0] /\ t.kern = [u.kern EXCEPT ![f] = NotListed]
      /\ t.channels = u.channels /\ t.registered = u.registered
      /\ t.chan = [u.chan EXCEPT ![c] = Freed(u.chan[c])]
      /\ t.later = u.later /\ t.dying = u.dying /\ t.ensured = u.ensured
  BY <1>2, <1>6, Zenon DEF Off, States
<1>8. t.chan = [u.chan EXCEPT ![c] = ch]
  BY <1>4, <1>5, <1>7, Zenon
<1>9. t \in States
  <2>1. [u.open EXCEPT ![f] = 0] \in [Fds -> Nat]
    BY <1>2, StateFields DEF Off
  <2>2. [u.kern EXCEPT ![f] = NotListed] \in [Fds -> Entries]
    BY <1>2, StateFields DEF Off, NotListed, Entries, Interest
  <2>3. [u.chan EXCEPT ![c] = ch] \in Seq(Chans)
    <3>1. u.chan \in Seq(Chans)
      BY <1>2, StateFields, Zenon DEF Off
    <3> QED BY <1>5, <3>1, ReplacedType, Zenon
  <2>4. t = [u EXCEPT !.open = [u.open EXCEPT ![f] = 0], !.kern = [u.kern EXCEPT ![f] = NotListed],
                      !.chan = [u.chan EXCEPT ![c] = ch]]
    BY <1>4, <1>5, <1>6, Zenon
  <2> QED BY <1>2, <2>1, <2>2, <2>3, <2>4, Zenon DEF Off, States
<1> QED
  <2>1. t.later \subseteq u.later \cup {c} /\ ch = Freed(u.chan[c])
    BY <1>4, <1>5, <1>7
  <2> QED BY <1>1, <1>2, <1>5, <1>7, <1>8, <1>9, <2>1, OffGone, Zenon

\* The Channel is destroyed, its descriptor stays open.
LEMMA ReplacedGone ==
  ASSUME NEW s, Good(s), NEW c \in DOMAIN s.chan, Owned(s, c), backend \in {"epoll", "kqueue"}
  PROVE  /\ Gone(s, Reset(Unregister(s, c), c), c)
         /\ Reset(Unregister(s, c), c).open = s.open
         /\ ~Reset(Unregister(s, c), c).chan[c].live
<1>1. PICK u, f, t : u = Unregister(s, c) /\ f = s.chan[c].fd /\ t = Reset(Unregister(s, c), c)
  BY Zenon
<1>2. Off(s, u, c)
  BY <1>1, UnregisterOff, Zenon
<1>3. s \in States /\ s.chan[c] \in Chans /\ f \in Fds
  BY <1>1, OwnedFacts, ChanFacts, Zenon
<1>4. PICK last, ch : last = [s.chan[c] EXCEPT !.ev = {}, !.reg = FALSE] /\ ch = Freed(last)
  BY Zenon
<1>5. u.chan[c] = last /\ last \in Chans /\ ch \in Chans /\ ~ch.live
  <2>1. last \in Chans
    BY <1>3, <1>4 DEF Chans, Interest
  <2> QED BY <1>2, <1>4, <2>1, FreedIs, Zenon DEF Off
<1>6. t = [u EXCEPT !.chan[c] = Freed(@)]
  BY <1>1, ZenonT(60) DEF Reset
<1>7. /\ t.open = u.open /\ t.kern = u.kern /\ t.channels = u.channels /\ t.registered = u.registered
      /\ t.chan = [u.chan EXCEPT ![c] = Freed(u.chan[c])]
      /\ t.later = u.later /\ t.dying = u.dying /\ t.ensured = u.ensured
  BY <1>2, <1>6 DEF Off, States
<1>8. t.chan = [u.chan EXCEPT ![c] = ch] /\ t.chan[c] = ch
  <2>1. c \in DOMAIN u.chan
    BY <1>2, Zenon DEF Off
  <2> QED BY <1>4, <1>5, <1>7, <2>1, Zenon
<1>9. t \in States
  <2>1. [u.chan EXCEPT ![c] = ch] \in Seq(Chans)
    <3>1. u.chan \in Seq(Chans)
      BY <1>2, StateFields DEF Off
    <3> QED BY <1>5, <3>1, ReplacedType, Zenon
  <2>2. t = [u EXCEPT !.chan = [u.chan EXCEPT ![c] = ch]]
    BY <1>4, <1>5, <1>6, Zenon
  <2> QED BY <1>2, <2>1, <2>2, Zenon DEF Off, States
<1>10. u.open = [u.open EXCEPT ![f] = s.open[f]] /\ u.kern = [u.kern EXCEPT ![f] = NotListed]
       /\ u.open = s.open
  <2>1. u.open = s.open /\ u.kern = [s.kern EXCEPT ![f] = NotListed]
    BY <1>1, <1>2, Zenon DEF Off
  <2> QED BY <1>3, <2>1, StateFields, Zenon
<1>11. Gone(s, t, c)
  <2>1. /\ t.later \subseteq u.later \cup {c} /\ ch = Freed(u.chan[c])
        /\ s.open[s.chan[c].fd] \in {0, s.open[s.chan[c].fd]}
        /\ t.open = [u.open EXCEPT ![s.chan[c].fd] = s.open[s.chan[c].fd]]
        /\ t.kern = [u.kern EXCEPT ![s.chan[c].fd] = NotListed]
    BY <1>1, <1>4, <1>5, <1>7, <1>10, Zenon
  <2> QED BY <1>2, <1>5, <1>7, <1>8, <1>9, <2>1, OffGone, ZenonT(60)
<1> QED BY <1>1, <1>5, <1>7, <1>8, <1>10, <1>11, Zenon

\* A Channel is made for an open descriptor that no Channel has.
LEMMA AddedGood ==
  ASSUME NEW s, Good(s), NEW ch \in Chans, ch.ev # {}, ch.reg, ch.live, ch.sock # 0,
         ch.sock <= Len(s.chan) + 1, ch.kind = "conn" => "R" \in ch.ev,
         s.open[ch.fd] = ch.sock, Unlisted(s, ch.fd)
  PROVE  /\ Good(Added(s, ch))
         /\ DOMAIN Added(s, ch).chan = 1..(Len(s.chan) + 1) /\ Len(Added(s, ch).chan) = Len(s.chan) + 1
         /\ \A d \in DOMAIN s.chan : d \in DOMAIN Added(s, ch).chan /\ Added(s, ch).chan[d] = s.chan[d]
<1>1. PICK t, n, f : t = Added(s, ch) /\ n = Len(s.chan) + 1 /\ f = ch.fd
  BY Zenon
<1>2. s \in States /\ f \in Fds /\ s.chan \in Seq(Chans) /\ ch.ev \in Interest /\ ch.sock \in Nat
  <2>1. s \in States
    BY Zenon DEF Good
  <2> QED BY <1>1, <2>1, StateFields, Zenon DEF Chans
<1>3. /\ t.open = s.open /\ t.kern = [s.kern EXCEPT ![f] = Entry(n, ch.ev)]
      /\ t.channels = [s.channels EXCEPT ![f] = n]
      /\ t.registered = [s.registered EXCEPT ![f] = Kept(ch.ev)]
      /\ t.chan = Append(s.chan, ch)
      /\ t.later = s.later /\ t.dying = s.dying /\ t.ensured = s.ensured
  BY <1>1 DEF Added
<1>4. /\ n \in Nat \ {0} /\ t.chan \in Seq(Chans) /\ Len(t.chan) = n /\ Len(s.chan) \in Nat
      /\ DOMAIN t.chan = 1..n /\ DOMAIN s.chan = 1..Len(s.chan) /\ n \notin DOMAIN s.chan
      /\ t.chan[n] = ch
      /\ \A d \in DOMAIN s.chan : d \in 1..n /\ t.chan[d] = s.chan[d]
      /\ \A d \in 1..n : d \in DOMAIN s.chan \/ d = n
  <2>1. Len(s.chan) \in Nat /\ DOMAIN s.chan = 1..Len(s.chan)
    BY <1>2
  <2>2. t.chan \in Seq(Chans) /\ Len(t.chan) = n /\ t.chan[n] = ch
        /\ \A d \in DOMAIN s.chan : t.chan[d] = s.chan[d]
    BY <1>1, <1>2, <1>3
  <2>3. n \in Nat \ {0} /\ n \notin 1..Len(s.chan) /\ \A d \in 1..n : d \in 1..Len(s.chan) \/ d = n
    BY <1>1, <2>1
  <2>4. DOMAIN t.chan = 1..n /\ \A d \in 1..Len(s.chan) : d \in 1..n
    BY <1>1, <2>1, <2>2
  <2> QED BY <2>1, <2>2, <2>3, <2>4, Zenon
<1>5. /\ t.kern[f] = Entry(n, ch.ev) /\ t.channels[f] = n /\ t.registered[f] = Kept(ch.ev)
      /\ \A g \in Fds : g # f => /\ t.kern[g] = s.kern[g] /\ t.channels[g] = s.channels[g]
                                 /\ t.registered[g] = s.registered[g]
  BY <1>2, <1>3, StateFields, SMTT(30)
<1>6. t \in States
  <2>1. Entry(n, ch.ev) \in Entries /\ Kept(ch.ev) \in Interest
    BY <1>2, <1>4 DEF Entry, Entries, Kept, Interest
  <2>2. [s.kern EXCEPT ![f] = Entry(n, ch.ev)] \in [Fds -> Entries]
    BY <1>2, <2>1, StateFields
  <2>3. [s.channels EXCEPT ![f] = n] \in [Fds -> Nat]
    BY <1>2, <1>4, StateFields, SMTT(30)
  <2>4. [s.registered EXCEPT ![f] = Kept(ch.ev)] \in [Fds -> Interest]
    BY <1>2, <2>1, StateFields
  <2>5. t = [open |-> t.open, kern |-> t.kern, channels |-> t.channels, registered |-> t.registered,
             chan |-> t.chan, later |-> t.later, dying |-> t.dying, ensured |-> t.ensured]
    BY <1>1 DEF Added
  <2> QED BY <1>2, <1>3, <1>4, <2>2, <2>3, <2>4, <2>5, StateFields, ZenonT(60) DEF States
<1>7. GoodChan(t, n)
  <2>1. Owned(t, n) /\ Listed(t, n)
    BY <1>1, <1>3, <1>4, <1>5, ZenonT(60) DEF Owned, Listed
  <2>2. ch.sock <= Len(t.chan)
    BY <1>1, <1>4
  <2> QED BY <1>4, <2>1, <2>2, Zenon DEF GoodChan
<1>8. ASSUME NEW d \in DOMAIN s.chan PROVE GoodChan(t, d)
  <2>1. GoodChan(s, d) /\ t.chan[d] = s.chan[d] /\ s.chan[d].fd \in Fds /\ s.chan[d].sock \in Nat
    BY <1>2, <1>4, ChanFacts, Zenon DEF Good
  <2>2. d # 0 /\ s.chan[d].sock <= Len(t.chan)
    BY <1>1, <1>4, <2>1 DEF GoodChan
  <2>3. Owned(t, d) <=> Owned(s, d)
    BY <1>3, <2>1, Zenon DEF Owned
  <2>4. CASE s.chan[d].ev = {}
    BY <2>1, <2>2, <2>3, <2>4, Zenon DEF GoodChan
  <2>5. CASE s.chan[d].ev # {}
    <3>1. s.chan[d].fd # f
      BY <1>1, <2>1, <2>2, <2>5, Zenon DEF GoodChan, Listed, Unlisted
    <3>2. Listed(t, d)
      BY <1>5, <2>1, <2>5, <3>1, ZenonT(60) DEF GoodChan, Listed
    <3> QED BY <2>1, <2>2, <2>3, <3>2, Zenon DEF GoodChan
  <2> QED BY <2>4, <2>5
<1>9. ASSUME NEW g \in Fds PROVE GoodFd(t, g)
  <2>1. CASE g = f
    <3>1. t.channels[g] = n /\ n \in DOMAIN t.chan /\ t.chan[n].fd = g /\ t.chan[n].ev # {}
      BY <1>1, <1>4, <1>5, <2>1
    <3> QED BY <3>1, Zenon DEF GoodFd
  <2>2. CASE g # f
    <3>1. GoodFd(s, g)
      BY Zenon DEF Good
    <3>2. CASE Unlisted(s, g)
      <4>1. Unlisted(t, g)
        BY <1>5, <2>2, <3>2, Zenon DEF Unlisted
      <4> QED BY <4>1, Zenon DEF GoodFd
    <3>3. CASE s.channels[g] \in DOMAIN s.chan /\ s.chan[s.channels[g]].fd = g /\ s.chan[s.channels[g]].ev # {}
      <4>1. PICK d \in DOMAIN s.chan : d = s.channels[g] /\ s.chan[d].fd = g /\ s.chan[d].ev # {}
        BY <3>3, Zenon
      <4>2. t.channels[g] = d /\ d \in DOMAIN t.chan /\ t.chan[d] = s.chan[d]
        BY <1>4, <1>5, <2>2, <4>1, Zenon
      <4> QED BY <4>1, <4>2, Zenon DEF GoodFd
    <3> QED BY <3>1, <3>2, <3>3, Zenon DEF GoodFd
  <2> QED BY <2>1, <2>2
<1>10. Good(t)
  <2>1. \A d \in DOMAIN t.chan : GoodChan(t, d)
    BY <1>4, <1>7, <1>8, Zenon
  <2>2. \A d \in t.later \cup t.dying : d \in DOMAIN t.chan /\ t.chan[d].ev = {}
    BY <1>3, <1>4, Zenon DEF Good
  <2> QED BY <1>3, <1>6, <1>9, <2>1, <2>2, Zenon DEF Good
<1> QED BY <1>1, <1>4, <1>10, Zenon

\* t is s, with c waiting for ev.
Asking(s, t, c, ev) ==
  LET f == s.chan[c].fd IN
  /\ t \in States
  /\ t.open = s.open /\ t.ensured = s.ensured /\ t.later = s.later /\ t.dying = s.dying
  /\ t.kern[f] = Entry(c, ev) /\ t.channels[f] = c /\ t.registered[f] = Kept(ev)
  /\ \A g \in Fds : g # f => /\ t.kern[g] = s.kern[g] /\ t.channels[g] = s.channels[g]
                             /\ t.registered[g] = s.registered[g]
  /\ DOMAIN t.chan = DOMAIN s.chan /\ Len(t.chan) = Len(s.chan)
  /\ \A d \in DOMAIN s.chan : d # c => t.chan[d] = s.chan[d]
  /\ t.chan[c].ev = ev /\ t.chan[c].reg /\ t.chan[c].fd = f /\ t.chan[c].sock = s.chan[c].sock
  /\ t.chan[c].live /\ t.chan[c].kind = s.chan[c].kind

LEMMA SetEventsAsking ==
  ASSUME NEW s, Good(s), NEW c \in DOMAIN s.chan, Owned(s, c), backend \in {"epoll", "kqueue"},
         NEW ev \in Interest, ev # {}
  PROVE  Asking(s, SetEvents(s, c, ev), c, ev)
<1>1. PICK t, f, ch : t = SetEvents(s, c, ev) /\ f = s.chan[c].fd /\ ch = [s.chan[c] EXCEPT !.ev = ev]
  BY Zenon
<1>2. s \in States /\ s.chan[c] \in Chans /\ f \in Fds /\ c \in Nat /\ s.chan[c].reg /\ s.chan[c].live
  BY <1>1, OwnedFacts, ChanFacts, Zenon
<1>3. t = Change(s, f, c, Entry(c, ev), Kept(ev), c, ch)
  <2>1. s.chan[c].reg /\ s.open[s.chan[c].fd] # 0 /\ Listed(s, c) /\ s.chan[c].ev # {}
    BY OwnedFacts, Zenon
  <2>2. SetEvents(s, c, ev) =
          Change(s, s.chan[c].fd, c, Entry(c, ev), Kept(ev), c, [s.chan[c] EXCEPT !.ev = ev])
    BY <1>2, <2>1, SetEventsIs, Zenon
  <2> QED BY <1>1, <2>2, Zenon
<1>4. /\ ch \in Chans /\ ch.ev = ev /\ ch.reg /\ ch.fd = f /\ ch.sock = s.chan[c].sock
      /\ ch.live /\ ch.kind = s.chan[c].kind
  BY <1>1, <1>2 DEF Chans
<1>5. Entry(c, ev) \in Entries /\ Kept(ev) \in Interest
  BY <1>2 DEF Entry, Entries, Kept, Interest
<1>6. t \in States
  BY <1>2, <1>3, <1>4, <1>5, ChangeType, SMTT(30)
<1>7. /\ t.open = s.open /\ t.ensured = s.ensured /\ t.later = s.later /\ t.dying = s.dying
      /\ t.kern = [s.kern EXCEPT ![f] = Entry(c, ev)]
      /\ t.channels = [s.channels EXCEPT ![f] = c]
      /\ t.registered = [s.registered EXCEPT ![f] = Kept(ev)]
      /\ t.chan = [s.chan EXCEPT ![c] = ch]
  BY <1>3 DEF Change
<1>8. /\ t.kern[f] = Entry(c, ev) /\ t.channels[f] = c /\ t.registered[f] = Kept(ev)
      /\ \A g \in Fds : g # f => /\ t.kern[g] = s.kern[g] /\ t.channels[g] = s.channels[g]
                                 /\ t.registered[g] = s.registered[g]
  BY <1>2, <1>7, StateFields
<1>9. /\ DOMAIN t.chan = DOMAIN s.chan /\ t.chan[c] = ch
      /\ \A d \in DOMAIN s.chan : d # c => t.chan[d] = s.chan[d]
  BY <1>7, Zenon
<1>10. Len(t.chan) = Len(s.chan)
  <2>1. s.chan \in Seq(Chans) /\ t.chan \in Seq(Chans)
    BY <1>2, <1>6, StateFields
  <2> QED BY <1>9, <2>1
<1>11. Asking(s, t, c, ev)
  <2>1. f = s.chan[c].fd
    BY <1>1, Zenon
  <2> QED BY <1>4, <1>6, <1>7, <1>8, <1>9, <1>10, <2>1, ZenonT(60) DEF Asking
<1> QED BY <1>1, <1>11, Zenon

LEMMA AskingGood ==
  ASSUME NEW s, Good(s), NEW c \in DOMAIN s.chan, Owned(s, c), NEW ev, ev # {},
         s.chan[c].kind = "conn" => "R" \in ev, NEW t, Asking(s, t, c, ev)
  PROVE  Good(t)
<1>1. PICK f : f = s.chan[c].fd
  BY Zenon
<1>2. s.channels[f] = c /\ s \in States /\ f \in Fds
  BY <1>1, OwnedFacts, ChanFacts, Zenon DEF Listed
<1>3. ASSUME NEW d \in DOMAIN t.chan, d # c PROVE GoodChan(t, d)
  <2>1. /\ d \in DOMAIN s.chan /\ t.chan[d] = s.chan[d] /\ GoodChan(s, d) /\ Len(t.chan) = Len(s.chan)
        /\ t.open = s.open
    BY <1>3, Zenon DEF Asking, Good
  <2>2. s.chan[d].fd \in Fds /\ (Owned(t, d) <=> Owned(s, d))
    BY <1>2, <2>1, ChanFacts, Zenon DEF Owned
  <2>3. CASE s.chan[d].ev = {}
    BY <2>1, <2>2, <2>3, Zenon DEF GoodChan
  <2>4. CASE s.chan[d].ev # {}
    <3>1. PICK g \in Fds : g = s.chan[d].fd /\ g # f
      BY <1>2, <1>3, <2>1, <2>2, <2>4, Zenon DEF GoodChan, Listed
    <3>2. t.kern[g] = s.kern[g] /\ t.channels[g] = s.channels[g] /\ t.registered[g] = s.registered[g]
      BY <1>1, <3>1, Zenon DEF Asking
    <3>3. Listed(t, d)
      BY <2>1, <2>4, <3>1, <3>2, ZenonT(60) DEF GoodChan, Listed
    <3> QED BY <2>1, <2>2, <3>3, Zenon DEF GoodChan
  <2> QED BY <2>3, <2>4
<1>4. GoodChan(t, c)
  <2>1. Owned(t, c) /\ Listed(t, c)
    <3>1. s.open[f] = s.chan[c].sock
      BY <1>1, OwnedFacts, Zenon
    <3>2. Owned(t, c)
      BY <1>1, <3>1, Zenon DEF Asking, Owned
    <3>3. Listed(t, c)
      BY <1>1, Zenon DEF Asking, Listed
    <3> QED BY <3>2, <3>3
  <2>2. s.chan[c].sock <= Len(s.chan) /\ s.chan[c].sock # 0
    BY OwnedFacts, Zenon DEF Good, GoodChan
  <2> QED BY <2>1, <2>2, Zenon DEF Asking, GoodChan
<1>5. ASSUME NEW g \in Fds PROVE GoodFd(t, g)
  <2>1. CASE g = f
    <3>1. t.channels[g] = c /\ c \in DOMAIN t.chan /\ t.chan[c].fd = g /\ t.chan[c].ev # {}
      BY <1>1, <2>1, Zenon DEF Asking
    <3> QED BY <3>1, Zenon DEF GoodFd
  <2>2. CASE g # f
    <3>1. GoodFd(s, g)
      BY Zenon DEF Good
    <3>2. /\ t.kern[g] = s.kern[g] /\ t.channels[g] = s.channels[g] /\ t.registered[g] = s.registered[g]
      BY <1>1, <2>2, Zenon DEF Asking
    <3>3. CASE Unlisted(s, g)
      <4>1. Unlisted(t, g)
        BY <3>2, <3>3, Zenon DEF Unlisted
      <4> QED BY <4>1, Zenon DEF GoodFd
    <3>4. CASE s.channels[g] \in DOMAIN s.chan /\ s.chan[s.channels[g]].fd = g /\ s.chan[s.channels[g]].ev # {}
      <4>1. PICK d \in DOMAIN s.chan : d = s.channels[g] /\ s.chan[d].fd = g /\ s.chan[d].ev # {}
        BY <3>4, Zenon
      <4>2. d # c
        BY <1>1, <2>2, <4>1, Zenon
      <4>3. t.channels[g] = d /\ d \in DOMAIN t.chan /\ t.chan[d] = s.chan[d]
        BY <3>2, <4>1, <4>2, Zenon DEF Asking
      <4> QED BY <4>1, <4>3, Zenon DEF GoodFd
    <3> QED BY <3>1, <3>3, <3>4, Zenon DEF GoodFd
  <2> QED BY <2>1, <2>2
<1>6. ASSUME NEW d \in t.later \cup t.dying PROVE d \in DOMAIN t.chan /\ t.chan[d].ev = {}
  <2>1. d \in s.later \cup s.dying /\ d \in DOMAIN s.chan /\ s.chan[d].ev = {}
    BY Zenon DEF Asking, Good
  <2>2. d # c
    BY <2>1, OwnedFacts, ZenonT(60)
  <2> QED BY <2>1, <2>2, Zenon DEF Asking
<1>7. t \in States /\ t.ensured
  BY Zenon DEF Asking, Good
<1> QED BY <1>3, <1>4, <1>5, <1>6, <1>7, Zenon DEF Good

\* No Channel but x has been destroyed.
Stays(s, t, x) ==
  \A d \in DOMAIN s.chan :
    d \in DOMAIN t.chan /\ (d # x => t.chan[d].live = s.chan[d].live /\ t.chan[d].sock = s.chan[d].sock)

LEMMA DoCleanupGood ==
  ASSUME NEW s, Good(s), NEW c \in DOMAIN s.chan, Owned(s, c), backend \in {"epoll", "kqueue"}
  PROVE  /\ Good(DoCleanup(s, c)) /\ Stays(s, DoCleanup(s, c), 0)
         /\ Len(DoCleanup(s, c).chan) = Len(s.chan)
<1>1. PICK t : t = DoCleanup(s, c)
  BY Zenon
<1>2. Gone(s, t, c) /\ t.chan[c].live /\ t.chan[c].sock = s.chan[c].sock /\ s.chan[c].live
  BY <1>1, DoCleanupGone, OwnedFacts, Zenon
<1>3. Good(t)
  BY <1>2, GoneGood, Zenon
<1>4. t.chan[c].live = s.chan[c].live
  <2>1. s.chan[c].live \in BOOLEAN /\ t.chan[c].live \in BOOLEAN
    BY <1>2, <1>3, ChanFacts, Zenon DEF Good, Gone
  <2> QED BY <1>2, <2>1
<1>5. Stays(s, t, 0)
  BY <1>2, <1>4, Zenon DEF Gone, Stays
<1> QED BY <1>1, <1>2, <1>3, <1>5, Zenon DEF Gone

LEMMA GoneStays ==
  ASSUME NEW s, NEW t, NEW c, Gone(s, t, c)
  PROVE  Stays(s, t, c) /\ Len(t.chan) = Len(s.chan)
BY Zenon DEF Gone, Stays

LEMMA ResetGood ==
  ASSUME NEW s, Good(s), NEW c \in DOMAIN s.chan, Owned(s, c), backend \in {"epoll", "kqueue"},
         NEW t, t = Reset(CloseHandle(Unregister(s, c), s.chan[c].fd), c)
  PROVE  Good(t) /\ Stays(s, t, c) /\ Len(t.chan) = Len(s.chan)
<1>1. Gone(s, t, c)
  BY ResetGone, Zenon
<1> QED BY <1>1, GoneGood, GoneStays, Zenon

LEMMA ConnectedGood ==
  ASSUME NEW s, Good(s), NEW c \in DOMAIN s.chan, Owned(s, c), backend \in {"epoll", "kqueue"}
  PROVE  /\ Good(Connected(s, c)) /\ Stays(s, Connected(s, c), c)
         /\ Len(Connected(s, c).chan) = Len(s.chan) + 1
<1>1. PICK u, f, sock : u = Reset(Unregister(s, c), c) /\ f = s.chan[c].fd /\ sock = s.chan[c].sock
  BY Zenon
<1>2. Gone(s, u, c) /\ u.open = s.open
  BY <1>1, ReplacedGone, Zenon
<1>3. Good(u)
  BY <1>2, GoneGood, Zenon
<1>4. f \in Fds /\ sock \in Nat /\ sock # 0 /\ s.open[f] = sock /\ sock <= Len(s.chan) /\ s \in States
  BY <1>1, OwnedFacts, ChanFacts, Zenon DEF Good, GoodChan
<1>5. Unlisted(u, f) /\ u.open[f] = sock /\ Len(u.chan) = Len(s.chan) /\ u \in States
  BY <1>1, <1>2, <1>4, Zenon DEF Gone
<1>6. PICK ch : ch = [kind |-> "conn", fd |-> f, sock |-> sock, ev |-> {"R"}, reg |-> TRUE, live |-> TRUE]
  BY Zenon
<1>7. {"R"} \in Interest /\ {"R"} # {} /\ u.open[f] # 0
  BY <1>4, <1>5 DEF Interest
<1>8. Connected(s, c) = Added(u, ch)
  <2>1. NewChannel(u, "conn", f, sock, {"R"}) = Added(u, ch)
    BY <1>4, <1>5, <1>6, <1>7, NewChannelIs, ZenonT(60)
  <2> QED BY <1>1, <2>1, Zenon DEF Connected
<1>9. /\ ch \in Chans /\ ch.ev # {} /\ ch.reg /\ ch.live /\ ch.sock = sock /\ ch.fd = f
      /\ ch.kind = "conn" => "R" \in ch.ev
  BY <1>4, <1>6, <1>7 DEF Chans
<1>10. ch.sock <= Len(u.chan) + 1
  <2>1. Len(s.chan) \in Nat
    BY <1>4, StateFields
  <2> QED BY <1>4, <1>5, <1>9, <2>1
<1>11. /\ Good(Added(u, ch)) /\ Len(Added(u, ch).chan) = Len(u.chan) + 1
       /\ \A d \in DOMAIN u.chan : d \in DOMAIN Added(u, ch).chan /\ Added(u, ch).chan[d] = u.chan[d]
  <2>1. ch.sock # 0 /\ u.open[ch.fd] = ch.sock /\ Unlisted(u, ch.fd)
    BY <1>4, <1>5, <1>9, Zenon
  <2> QED BY <1>3, <1>9, <1>10, <2>1, AddedGood, Zenon
<1>12. Stays(s, Added(u, ch), c)
  BY <1>2, <1>11, Zenon DEF Gone, Stays
<1> QED BY <1>5, <1>8, <1>11, <1>12, Zenon

\* A descriptor is opened, and a Channel made for it.
LEMMA OpenedGood ==
  ASSUME NEW s, Good(s), NEW f \in Fds, s.open[f] = 0, NEW kind \in {"listen", "connect", "conn"},
         backend \in {"epoll", "kqueue"}, NEW ev \in Interest, ev # {}, kind = "conn" => "R" \in ev,
         NEW t, t = NewChannel([s EXCEPT !.open[f] = Len(s.chan) + 1], kind, f, Len(s.chan) + 1, ev)
  PROVE  Good(t) /\ Stays(s, t, 0) /\ Len(t.chan) = Len(s.chan) + 1
<1>1. PICK u, sock : u = [s EXCEPT !.open[f] = Len(s.chan) + 1] /\ sock = Len(s.chan) + 1
  BY Zenon
<1>2. s \in States /\ Len(s.chan) \in Nat /\ sock \in Nat /\ sock # 0
  <2>1. s \in States
    BY Zenon DEF Good
  <2> QED BY <1>1, <2>1, StateFields
<1>3. /\ u.open = [s.open EXCEPT ![f] = sock] /\ u.kern = s.kern /\ u.channels = s.channels
      /\ u.registered = s.registered /\ u.chan = s.chan /\ u.later = s.later /\ u.dying = s.dying
      /\ u.ensured = s.ensured
  BY <1>1, <1>2 DEF States
<1>4. u.chan = s.chan
  BY <1>3, Zenon
<1>5. u \in States
  <2>1. [s.open EXCEPT ![f] = sock] \in [Fds -> Nat]
    BY <1>2, StateFields
  <2>2. u = [s EXCEPT !.open = [s.open EXCEPT ![f] = sock]]
    BY <1>1, Zenon
  <2> QED BY <1>2, <2>1, <2>2, Zenon DEF States
<1>6. u.open[f] = sock /\ \A g \in Fds : g # f => u.open[g] = s.open[g]
  BY <1>2, <1>3, StateFields
<1>7. ASSUME NEW d \in DOMAIN s.chan PROVE GoodChan(u, d) /\ (s.chan[d].ev # {} => s.chan[d].fd # f)
  <2>1. GoodChan(s, d) /\ s.chan[d].fd \in Fds /\ s.chan[d].sock \in Nat
    BY <1>2, ChanFacts, Zenon DEF Good
  <2>2. Listed(u, d) <=> Listed(s, d)
    BY <1>3, Zenon DEF Listed
  <2>3. Owned(u, d) <=> s.chan[d].live /\ u.open[s.chan[d].fd] = s.chan[d].sock
    BY <1>4, Zenon DEF Owned
  <2>4. u.chan[d] = s.chan[d] /\ Len(u.chan) = Len(s.chan)
    BY <1>4, Zenon
  <2>5. CASE s.chan[d].fd = f
    <3>0. s.chan[d].sock # sock
      BY <1>1, <1>2, <2>1 DEF GoodChan
    <3>1. ~Owned(s, d)
      BY <2>1, <2>5, Zenon DEF GoodChan, Owned
    <3>2. s.chan[d].ev = {}
      BY <2>1, <3>1, Zenon DEF GoodChan
    <3>3. ~Owned(u, d)
      BY <1>6, <2>5, <2>3, <3>0, Zenon
    <3> QED BY <2>1, <2>4, <3>1, <3>2, <3>3, SMTT(30) DEF GoodChan
  <2>6. CASE s.chan[d].fd # f
    <3>1. u.open[s.chan[d].fd] = s.open[s.chan[d].fd]
      BY <1>6, <2>1, <2>6, Zenon
    <3>2. Owned(u, d) <=> Owned(s, d)
      BY <2>3, <3>1, Zenon DEF Owned
    <3> QED BY <2>1, <2>2, <2>6, <2>4, <3>2, Zenon DEF GoodChan
  <2> QED BY <2>5, <2>6
<1>8. ASSUME NEW g \in Fds PROVE GoodFd(u, g)
  <2>1. GoodFd(s, g)
    BY Zenon DEF Good
  <2>2. u.channels[g] = s.channels[g] /\ (Unlisted(u, g) <=> Unlisted(s, g))
    BY <1>3, Zenon DEF Unlisted
  <2> QED BY <1>4, <2>1, <2>2, Zenon DEF GoodFd
<1>9. Good(u)
  <2>1. \A d \in DOMAIN u.chan : GoodChan(u, d)
    BY <1>4, <1>7, Zenon
  <2>2. u.ensured /\ \A d \in u.later \cup u.dying : d \in DOMAIN u.chan /\ u.chan[d].ev = {}
    BY <1>4, <1>3, Zenon DEF Good
  <2> QED BY <1>5, <1>8, <2>1, <2>2, Zenon DEF Good
<1>10. Unlisted(u, f)
  <2>1. GoodFd(u, f)
    BY <1>8, Zenon
  <2>2. ASSUME u.channels[f] \in DOMAIN u.chan, u.chan[u.channels[f]].fd = f,
               u.chan[u.channels[f]].ev # {}
        PROVE  FALSE
    BY <1>4, <1>7, <2>2, Zenon
  <2> QED BY <2>1, <2>2, Zenon DEF GoodFd
<1>11. PICK ch : ch = [kind |-> kind, fd |-> f, sock |-> sock, ev |-> ev, reg |-> TRUE, live |-> TRUE]
  BY Zenon
<1>12. t = Added(u, ch)
  <2>1. u.open[f] # 0
    BY <1>2, <1>6
  <2>2. NewChannel(u, kind, f, sock, ev) = Added(u, ch)
    BY <1>2, <1>5, <1>10, <1>11, <2>1, NewChannelIs, SMTT(30)
  <2> QED BY <1>1, <2>2, Zenon
<1>13. /\ ch \in Chans /\ ch.ev # {} /\ ch.reg /\ ch.live /\ ch.sock = sock /\ ch.fd = f
       /\ ch.kind = "conn" => "R" \in ch.ev
  BY <1>2, <1>11 DEF Chans
<1>14. ch.sock <= Len(u.chan) + 1
  BY <1>1, <1>2, <1>3, <1>13
<1>15. /\ Good(Added(u, ch)) /\ Len(Added(u, ch).chan) = Len(u.chan) + 1
       /\ \A d \in DOMAIN u.chan : d \in DOMAIN Added(u, ch).chan /\ Added(u, ch).chan[d] = u.chan[d]
  <2>1. ch.sock # 0 /\ u.open[ch.fd] = ch.sock /\ Unlisted(u, ch.fd)
    BY <1>2, <1>6, <1>10, <1>13, Zenon
  <2> QED BY <1>9, <1>13, <1>14, <2>1, AddedGood, Zenon
<1>16. Stays(s, t, 0)
  BY <1>3, <1>12, <1>15, Zenon DEF Stays
<1> QED BY <1>3, <1>12, <1>15, <1>16, Zenon

LEMMA SetEventsGood ==
  ASSUME NEW s, Good(s), NEW c \in DOMAIN s.chan, Owned(s, c), backend \in {"epoll", "kqueue"},
         NEW ev \in Interest, ev # {}, s.chan[c].kind = "conn" => "R" \in ev
  PROVE  /\ Good(SetEvents(s, c, ev)) /\ Stays(s, SetEvents(s, c, ev), 0)
         /\ Len(SetEvents(s, c, ev).chan) = Len(s.chan)
<1>1. PICK t : t = SetEvents(s, c, ev)
  BY Zenon
<1>2. Asking(s, t, c, ev)
  BY <1>1, SetEventsAsking, Zenon
<1>3. Good(t)
  BY <1>2, AskingGood, Zenon
<1>4. t.chan[c].live = s.chan[c].live
  <2>1. /\ s.chan[c].live \in BOOLEAN /\ t.chan[c].live \in BOOLEAN
        /\ s.chan[c].live /\ t.chan[c].live
    BY <1>2, <1>3, ChanFacts, OwnedFacts, Zenon DEF Good, Asking
  <2> QED BY <2>1
<1>5. Stays(s, t, 0)
  BY <1>2, <1>4, Zenon DEF Asking, Stays
<1> QED BY <1>1, <1>2, <1>3, <1>5, Zenon DEF Asking

LEMMA SwapGood ==
  ASSUME NEW s, Good(s), NEW t, t = [s EXCEPT !.dying = s.later, !.later = {}]
  PROVE  Good(t) /\ t.chan = s.chan
<1>1. s \in States
  BY Zenon DEF Good
<1>2. /\ t.open = s.open /\ t.kern = s.kern /\ t.channels = s.channels
      /\ t.registered = s.registered /\ t.chan = s.chan /\ t.later = {} /\ t.dying = s.later
      /\ t.ensured = s.ensured /\ t \in States
  BY <1>1, Zenon DEF States
<1>3. ASSUME NEW d \in DOMAIN s.chan PROVE GoodChan(t, d)
  <2>1. GoodChan(s, d)
    BY Zenon DEF Good
  <2>2. (Owned(t, d) <=> Owned(s, d)) /\ (Listed(t, d) <=> Listed(s, d))
    BY <1>2, Zenon DEF Owned, Listed
  <2> QED BY <1>2, <2>1, <2>2, Zenon DEF GoodChan
<1>4. ASSUME NEW f \in Fds PROVE GoodFd(t, f)
  <2>1. GoodFd(s, f)
    BY Zenon DEF Good
  <2>2. t.channels[f] = s.channels[f] /\ (Unlisted(t, f) <=> Unlisted(s, f))
    BY <1>2, Zenon DEF Unlisted
  <2> QED BY <1>2, <2>1, <2>2, Zenon DEF GoodFd
<1>5. \A c \in t.later \cup t.dying : c \in DOMAIN t.chan /\ t.chan[c].ev = {}
  BY <1>2, Zenon DEF Good
<1> QED BY <1>2, <1>3, <1>4, <1>5, Zenon DEF Good

\* The closures go, and the Channels of the connections that are closed.
LEMMA ReturnGood ==
  ASSUME NEW s, Good(s),
         NEW t, t = [s EXCEPT
           !.chan = [c \in DOMAIN @ |-> IF c \in s.dying THEN Freed(@[c]) ELSE @[c]],
           !.dying = {}]
  PROVE  Good(t) /\ Len(t.chan) = Len(s.chan)
<1>1. s \in States /\ s.chan \in Seq(Chans)
  BY StateFields, Zenon DEF Good
<1>2. PICK q : q = [c \in DOMAIN s.chan |-> IF c \in s.dying THEN Freed(s.chan[c]) ELSE s.chan[c]]
  BY Zenon
<1>3. /\ DOMAIN q = DOMAIN s.chan
      /\ \A c \in DOMAIN s.chan : q[c] = IF c \in s.dying THEN Freed(s.chan[c]) ELSE s.chan[c]
  BY <1>2, Zenon
<1>4. \A c \in DOMAIN s.chan : q[c] \in Chans
  <2> TAKE c \in DOMAIN s.chan
  <2>1. s.chan[c] \in Chans
    BY <1>1, ChanFacts, Zenon
  <2>2. Freed(s.chan[c]) \in Chans
    BY <2>1, FreedIs, Zenon
  <2> QED BY <1>3, <2>1, <2>2, Zenon
<1>5. q \in Seq(Chans) /\ Len(q) = Len(s.chan)
  <2>1. DOMAIN s.chan = 1..Len(s.chan) /\ Len(s.chan) \in Nat
    BY <1>1
  <2>2. q \in [1..Len(s.chan) -> Chans]
    BY <1>2, <1>3, <1>4, <2>1, Zenon
  <2> QED BY <2>1, <2>2
<1>6. t = [s EXCEPT !.chan = q, !.dying = {}]
  BY <1>2, ZenonT(60)
<1>7. /\ t.open = s.open /\ t.kern = s.kern /\ t.channels = s.channels
      /\ t.registered = s.registered /\ t.chan = q /\ t.later = s.later /\ t.dying = {}
      /\ t.ensured = s.ensured /\ t \in States
  BY <1>1, <1>5, <1>6, Zenon DEF States
<1>8. \A d \in DOMAIN s.chan : s.chan[d].ev # {} => q[d] = s.chan[d]
  BY <1>3, Zenon DEF Good
<1>9. ASSUME NEW d \in DOMAIN s.chan PROVE GoodChan(t, d) /\ q[d].ev = s.chan[d].ev
  <2>1. GoodChan(s, d)
    BY Zenon DEF Good
  <2>2. CASE q[d] = s.chan[d]
    <3>1. t.chan[d] = s.chan[d] /\ Len(t.chan) = Len(s.chan)
      BY <1>5, <1>7, <2>2, Zenon
    <3>2. (Owned(t, d) <=> Owned(s, d)) /\ (Listed(t, d) <=> Listed(s, d))
      BY <1>7, <3>1, ZenonT(60) DEF Owned, Listed
    <3> QED BY <2>1, <2>2, <3>1, <3>2, Zenon DEF GoodChan
  <2>3. CASE q[d] # s.chan[d]
    <3>1. s.chan[d].ev = {} /\ q[d] = Freed(s.chan[d]) /\ s.chan[d] \in Chans
      <4>1. s.chan[d] \in Chans
        BY <1>1, ChanFacts, Zenon
      <4> QED BY <1>3, <1>8, <2>3, <4>1, Zenon
    <3>2. q[d].ev = {} /\ q[d].reg = s.chan[d].reg /\ q[d].sock = 0 /\ ~q[d].live
      <4>1. /\ Freed(s.chan[d]).ev = s.chan[d].ev /\ Freed(s.chan[d]).reg = s.chan[d].reg
            /\ Freed(s.chan[d]).sock = 0 /\ ~Freed(s.chan[d]).live
        BY <3>1, FreedIs, Zenon
      <4> QED BY <3>1, <4>1, Zenon
    <3>3. t.chan[d] = q[d] /\ 0 <= Len(t.chan)
      BY <1>1, <1>5, <1>7
    <3>4. ~Owned(t, d)
      BY <3>2, <3>3, Zenon DEF Owned
    <3> QED BY <2>1, <3>1, <3>2, <3>3, <3>4, Zenon DEF GoodChan
  <2> QED BY <2>2, <2>3
<1>10. ASSUME NEW f \in Fds PROVE GoodFd(t, f)
  <2>1. GoodFd(s, f)
    BY Zenon DEF Good
  <2>2. t.channels[f] = s.channels[f] /\ (Unlisted(t, f) <=> Unlisted(s, f))
    BY <1>7, Zenon DEF Unlisted
  <2>3. CASE Unlisted(s, f)
    BY <2>2, <2>3, Zenon DEF GoodFd
  <2>4. CASE ~Unlisted(s, f)
    <3>1. PICK d \in DOMAIN s.chan : d = s.channels[f] /\ s.chan[d].fd = f /\ s.chan[d].ev # {}
      BY <2>1, <2>4, Zenon DEF GoodFd
    <3>2. d \in DOMAIN t.chan /\ t.chan[d] = s.chan[d]
      BY <1>3, <1>7, <1>8, <3>1, Zenon
    <3> QED BY <2>2, <3>1, <3>2, Zenon DEF GoodFd
  <2> QED BY <2>3, <2>4
<1>11. \A c \in t.later \cup t.dying : c \in DOMAIN t.chan /\ t.chan[c].ev = {}
  BY <1>3, <1>7, <1>9, Zenon DEF Good
<1>12. \A d \in DOMAIN t.chan : GoodChan(t, d)
  BY <1>3, <1>7, <1>9, Zenon
<1> QED BY <1>5, <1>7, <1>10, <1>11, <1>12, Zenon DEF Good

-----------------------------------------------------------------------------
(* Rounds of the poll.                                                     *)

Reported == [c : Nat, ev : SUBSET {"R", "W", "E", "H"}, of : Nat]

\* What is left to do in this round: every Channel has at most one turn, and
\* the read callback is the first of its callbacks.
Rounds ==
  /\ pc \in {"wait", "dispatch", "closures"}
  /\ active \in Seq(Reported)
  /\ calls \in Seq({"read", "close", "write"})
  /\ pc # "dispatch" => active = <<>> /\ running = 0
  /\ running = 0 <=> calls = <<>>
  /\ \A i \in DOMAIN calls : calls[i] = "read" => i = 1
  /\ running # 0 => running \in DOMAIN st.chan
  /\ \A i \in DOMAIN active : active[i].c \in DOMAIN st.chan /\ active[i].c # running
  /\ \A i, j \in DOMAIN active : active[i].c = active[j].c => i = j

\* Good: the tables are, whatever has been closed and opened.
IInv ==
  /\ backend \in {"epoll", "kqueue"}
  /\ Good(st)
  /\ Len(st.chan) <= MaxChannels
  /\ Rounds

\* And if no Acceptor is shut down from a callback, the Channels that wait for
\* their turn are neither destroyed nor given another socket.
Safe == ShutdownInCallback \/ (NoDanglingUse /\ OwnEvents)
SafeIInv == IInv /\ Safe

LEMMA TargetIs ==
  ASSUME Good(st), backend \in {"epoll", "kqueue"}, NEW f \in Fds, Target(f) # 0
  PROVE  /\ Target(f) \in DOMAIN st.chan /\ st.chan[Target(f)].fd = f
         /\ st.chan[Target(f)].ev # {} /\ st.kern[f].ev = st.chan[Target(f)].ev
         /\ st.chan[Target(f)].live /\ st.chan[Target(f)].sock = st.open[f]
<1>1. ~Unlisted(st, f)
  <2>1. CASE backend = "epoll"
    <3>1. st.kern[f].ptr # 0
      BY <2>1, Zenon DEF Target, EpollTarget
    <3> QED BY <3>1 DEF Unlisted, NotListed
  <2>2. CASE backend # "epoll"
    BY <2>2, Zenon DEF Target, KqueueTarget, Unlisted
  <2> QED BY <2>1, <2>2
<1>2. GoodFd(st, f)
  BY Zenon DEF Good
<1>3. PICK d \in DOMAIN st.chan : d = st.channels[f] /\ st.chan[d].fd = f /\ st.chan[d].ev # {}
  BY <1>1, <1>2, Zenon DEF GoodFd
<1>4. Owned(st, d) /\ Listed(st, d)
  BY <1>3, Zenon DEF Good, GoodChan
<1>5. st.kern[f] = Entry(d, st.chan[d].ev)
  BY <1>3, <1>4, Zenon DEF Listed
<1>6. st.kern[f].ev = st.chan[d].ev /\ (backend = "epoll" => st.kern[f].ptr = d)
  BY <1>5 DEF Entry
<1>7. Target(f) = d
  BY <1>3, <1>6, Zenon DEF Target, EpollTarget, KqueueTarget
<1> QED BY <1>3, <1>4, <1>6, <1>7, Zenon DEF Owned

LEMMA EpollEventsAsked ==
  ASSUME NEW f, st.kern[f].ev \in Interest, NEW e \in EpollEvents(f)
  PROVE  e # {} /\ e \subseteq {"R", "W", "E", "H"} /\ e \subseteq st.kern[f].ev \cup {"E", "H"}
<1>1. PICK x \in (SUBSET (Conditions \cap (ToEpoll(st.kern[f].ev) \cup {"ERR", "HUP"}))) \ {{}} :
        e = FromEpoll(x)
  BY Zenon DEF EpollEvents
<1>2. PICK a : a \in x
  BY <1>1, Zenon
<1>3. a \in {"IN", "OUT", "RDHUP", "HUP", "ERR"}
  BY <1>1, <1>2, PollerAssumption, SMTT(30)
<1>4. e # {}
  <2>1. CASE a = "IN"
    BY <1>1, <1>2, <2>1, SMTT(30) DEF FromEpoll
  <2>2. CASE a = "OUT"
    BY <1>1, <1>2, <2>2, SMTT(30) DEF FromEpoll
  <2>3. CASE a = "ERR"
    BY <1>1, <1>2, <2>3, SMTT(30) DEF FromEpoll
  <2>4. CASE a \in {"HUP", "RDHUP"}
    <3>1. {"HUP", "RDHUP"} \cap x # {}
      BY <1>2, <2>4
    <3> QED BY <1>1, <3>1 DEF FromEpoll
  <2> QED BY <1>3, <2>1, <2>2, <2>3, <2>4, SMTT(30)
<1>5. "R" \in e => "R" \in st.kern[f].ev
  BY <1>1, SMTT(30) DEF FromEpoll, ToEpoll
<1>6. "W" \in e => "W" \in st.kern[f].ev
  BY <1>1 DEF FromEpoll, ToEpoll
<1>7. e \subseteq {"R", "W", "E", "H"}
  BY <1>1, Zenon DEF FromEpoll
<1> QED BY <1>4, <1>5, <1>6, <1>7

LEMMA KqueueEventsAsked ==
  ASSUME NEW f, st.kern[f].ev \in Interest, NEW e \in KqueueEvents(f)
  PROVE  e # {} /\ e \subseteq {"R", "W", "E", "H"} /\ e \subseteq st.kern[f].ev \cup {"E", "H"}
<1>1. PICK ready, flags :
        /\ ready = {r \in st.kern[f].ev : (IF r = "R" THEN "IN" ELSE "OUT") \in Conditions}
        /\ \E es \in (SUBSET [filter : ready, flags : SUBSET flags]) \ {{}} :
             e = UNION {FromKqueue(x) : x \in es}
  BY Zenon DEF KqueueEvents
<1>2. PICK es \in (SUBSET [filter : ready, flags : SUBSET flags]) \ {{}} :
        e = UNION {FromKqueue(x) : x \in es}
  BY <1>1, Zenon
<1>3. ready \subseteq st.kern[f].ev
  BY <1>1, Zenon
<1>4. \A x \in es : x.filter \in st.kern[f].ev
  BY <1>2, <1>3, SMTT(30)
<1>5. \A x \in es : FromKqueue(x) \subseteq st.kern[f].ev \cup {"E", "H"} /\ FromKqueue(x) # {}
  BY <1>4 DEF FromKqueue
<1>6. e \subseteq st.kern[f].ev \cup {"E", "H"}
  BY <1>2, <1>5, Zenon
<1>7. e # {}
  <2>1. PICK x \in es : TRUE
    BY <1>2
  <2>2. PICK a : a \in FromKqueue(x)
    BY <1>5, <2>1, Zenon
  <2> QED BY <1>2, <2>1, <2>2, Zenon
<1> QED BY <1>6, <1>7, SMTT(30) DEF Interest

\* What a Channel is told of it has asked for, and its own socket is meant.
LEMMA ReportIs ==
  ASSUME Good(st), backend \in {"epoll", "kqueue"}, NEW f \in Fds, Target(f) # 0, NEW a \in Reports(f)
  PROVE  /\ a \in Reported /\ a.c = Target(f) /\ a.c \in DOMAIN st.chan /\ st.chan[a.c].fd = f
         /\ st.chan[a.c].ev # {} /\ a.ev # {} /\ a.ev \subseteq st.chan[a.c].ev \cup {"E", "H"}
         /\ st.chan[a.c].live /\ a.of = st.chan[a.c].sock
<1>1. PICK e \in Events(f) : a = [c |-> Target(f), ev |-> e, of |-> st.open[f]]
  BY Zenon DEF Reports
<1>2. a.c = Target(f) /\ a.ev = e /\ a.of = st.open[f]
  BY <1>1
<1>3. st \in States /\ st.kern[f].ev \in Interest /\ st.open[f] \in Nat
  <2>1. st \in States
    BY Zenon DEF Good
  <2>2. st.kern[f] \in Entries /\ st.open[f] \in Nat
    BY <2>1, StateFields, SMTT(30)
  <2> QED BY <2>1, <2>2 DEF Entries
<1>4. e # {} /\ e \subseteq {"R", "W", "E", "H"} /\ e \subseteq st.kern[f].ev \cup {"E", "H"}
  BY <1>1, <1>3, EpollEventsAsked, KqueueEventsAsked, Zenon DEF Events
<1>5. /\ Target(f) \in DOMAIN st.chan /\ st.chan[Target(f)].fd = f
      /\ st.chan[Target(f)].ev # {} /\ st.kern[f].ev = st.chan[Target(f)].ev
      /\ st.chan[Target(f)].live /\ st.chan[Target(f)].sock = st.open[f]
  BY TargetIs, Zenon
<1>6. Target(f) \in Nat
  BY <1>3, <1>5, ChanFacts, Zenon
<1>7. a \in Reported
  BY <1>1, <1>3, <1>4, <1>6, SMTT(30) DEF Reported
<1> QED BY <1>2, <1>4, <1>5, <1>7, Zenon

\* One more round begins.
LEMMA WaitIs ==
  ASSUME IInv, Wait
  PROVE  /\ active' \in Seq(Reported)
         /\ \A i \in DOMAIN active' : LET a == active'[i] IN
              /\ a.c \in DOMAIN st.chan /\ st.chan[a.c].live /\ a.of = st.chan[a.c].sock
              /\ st.chan[a.c].ev # {} /\ a.ev # {} /\ a.ev \subseteq st.chan[a.c].ev \cup {"E", "H"}
         /\ \A i, j \in DOMAIN active' : active'[i].c = active'[j].c => i = j
<1>1. Good(st) /\ backend \in {"epoll", "kqueue"}
  BY Zenon DEF IInv
<1>2. Len(st.chan) \in Nat
  <2>1. st \in States
    BY <1>1, Zenon DEF Good
  <2> QED BY <2>1, StateFields
<1>3. PICK n \in 0..Len(st.chan) : \E ready \in [1..n -> {f \in Fds : Target(f) # 0}] :
         /\ \A i, j \in 1..n : ready[i] = ready[j] => i = j
         /\ active' \in [1..n -> UNION {Reports(f) : f \in Fds}]
         /\ \A i \in 1..n : active'[i] \in Reports(ready[i])
  BY Zenon DEF Wait
<1>4. PICK ready \in [1..n -> {f \in Fds : Target(f) # 0}] :
         /\ \A i, j \in 1..n : ready[i] = ready[j] => i = j
         /\ active' \in [1..n -> UNION {Reports(f) : f \in Fds}]
         /\ \A i \in 1..n : active'[i] \in Reports(ready[i])
  BY <1>3, Zenon
<1>5. n \in Nat
  BY <1>2, <1>3
<1>6. DOMAIN active' = 1..n
  BY <1>4, Zenon
<1>7. ASSUME NEW i \in 1..n
      PROVE  LET a == active'[i] IN
             /\ a \in Reported /\ a.c = Target(ready[i])
             /\ a.c \in DOMAIN st.chan /\ st.chan[a.c].fd = ready[i]
             /\ st.chan[a.c].ev # {} /\ a.ev # {} /\ a.ev \subseteq st.chan[a.c].ev \cup {"E", "H"}
             /\ st.chan[a.c].live /\ a.of = st.chan[a.c].sock
  <2>1. ready[i] \in Fds /\ Target(ready[i]) # 0 /\ active'[i] \in Reports(ready[i])
    BY <1>4, Zenon
  <2> QED BY <1>1, <2>1, ReportIs, ZenonT(60)
<1>8. active' \in [1..n -> Reported]
  BY <1>4, <1>6, <1>7, Zenon
<1>9. active' \in Seq(Reported)
  BY <1>5, <1>8
<1>10. \A i, j \in 1..n : active'[i].c = active'[j].c => i = j
  <2> SUFFICES ASSUME NEW i \in 1..n, NEW j \in 1..n, active'[i].c = active'[j].c PROVE i = j
    BY Zenon
  <2>1. st.chan[active'[i].c].fd = ready[i] /\ st.chan[active'[j].c].fd = ready[j]
    BY <1>7, Zenon
  <2> QED BY <1>4, <2>1, Zenon
<1> QED BY <1>6, <1>7, <1>9, <1>10, Zenon

LEMMA CallbacksAre ==
  ASSUME NEW a
  PROVE  /\ Callbacks(a) \in Seq({"read", "close", "write"})
         /\ \A i \in DOMAIN Callbacks(a) : Callbacks(a)[i] = "read" => i = 1
<1>1. PICK r, x, w :
        /\ r \in {<<>>, <<"read">>} /\ x \in {<<>>, <<"close">>} /\ w \in {<<>>, <<"write">>}
        /\ Callbacks(a) = r \o x \o w
  BY Zenon DEF Callbacks
<1>2. r \in Seq({"read", "close", "write"}) /\ Len(r) \in 0..1
  <2>1. CASE r = <<>>
    BY <2>1
  <2>2. CASE r = <<"read">>
    BY <2>2
  <2> QED BY <1>1, <2>1, <2>2
<1>3. x \in Seq({"read", "close", "write"}) /\ \A i \in 1..Len(x) : x[i] # "read"
  <2>1. CASE x = <<>>
    BY <2>1, SMTT(30)
  <2>2. CASE x = <<"close">>
    BY <2>2, SMTT(30)
  <2> QED BY <1>1, <2>1, <2>2
<1>4. w \in Seq({"read", "close", "write"}) /\ \A i \in 1..Len(w) : w[i] # "read"
  <2>1. CASE w = <<>>
    BY <2>1
  <2>2. CASE w = <<"write">>
    BY <2>2
  <2> QED BY <1>1, <2>1, <2>2, SMTT(30)
<1>5. /\ r \o x \in Seq({"read", "close", "write"})
      /\ \A i \in 1..Len(r \o x) : (r \o x)[i] = "read" => i = 1
  BY <1>2, <1>3, SMTT(30)
<1>6. /\ (r \o x) \o w \in Seq({"read", "close", "write"})
      /\ \A i \in 1..Len((r \o x) \o w) : ((r \o x) \o w)[i] = "read" => i = 1
  BY <1>4, <1>5
<1> QED BY <1>1, <1>6, SMTT(30)

\* What a callback does before the user's is called.
LEMMA EnteredGood ==
  ASSUME IInv, NEW c \in DOMAIN st.chan, NEW cb, NEW t \in Entered(cb, c)
  PROVE  Good(t) /\ Stays(st, t, c) /\ Len(t.chan) <= MaxChannels /\ (cb = "read" => t = st)
<1>1. /\ Good(st) /\ backend \in {"epoll", "kqueue"} /\ Len(st.chan) <= MaxChannels
      /\ Len(st.chan) \in Nat /\ MaxChannels \in Nat
  <2>1. st \in States
    BY Zenon DEF IInv, Good
  <2> QED BY <2>1, StateFields, PollerAssumption DEF IInv
<1>2. Stays(st, st, c)
  BY Zenon DEF Stays
<1>3. CASE t = st
  BY <1>1, <1>2, <1>3, Zenon
<1>4. CASE Owned(st, c) /\ cb = "close" /\ t = DoCleanup(st, c)
  <2>1. Good(t) /\ Stays(st, t, 0) /\ Len(t.chan) = Len(st.chan)
    BY <1>1, <1>4, DoCleanupGood, Zenon
  <2>2. Stays(st, t, c)
    <3>1. \A d \in DOMAIN st.chan : d # 0
      BY <1>1, ChanFacts, Zenon DEF Good
    <3> QED BY <2>1, <3>1, Zenon DEF Stays
  <2> QED BY <1>1, <1>4, <2>1, <2>2, SMTT(30)
<1>5. CASE Owned(st, c) /\ cb = "write" /\ t = ConnectFailed(st, c)
  <2>1. Good(t) /\ Stays(st, t, c) /\ Len(t.chan) = Len(st.chan)
    BY <1>1, <1>5, ResetGood, Zenon DEF ConnectFailed
  <2> QED BY <1>1, <1>5, <2>1, SMTT(30)
<1>6. CASE Owned(st, c) /\ cb = "write" /\ t = Connected(st, c) /\ Room
  <2>1. Good(t) /\ Stays(st, t, c) /\ Len(t.chan) = Len(st.chan) + 1
    BY <1>1, <1>6, ConnectedGood, Zenon
  <2>2. Len(st.chan) < MaxChannels
    BY <1>6, Zenon DEF Room
  <2> QED BY <1>1, <1>6, <2>1, <2>2, SMTT(30)
<1> QED BY <1>3, <1>4, <1>5, <1>6, Zenon DEF Entered

-----------------------------------------------------------------------------
(* Every step keeps the invariant.                                         *)

LEMMA GoodNext ==
  ASSUME backend' = backend, Good(st')
  PROVE  Good(st)'
<1>1. \A c : Listed(st, c)' <=> Listed(st', c)
  BY Zenon DEF Listed, Entry, Kept
<1>2. \A c : Owned(st, c)' <=> Owned(st', c)
  BY Zenon DEF Owned
<1>3. \A c : GoodChan(st, c)' <=> GoodChan(st', c)
  BY <1>1, <1>2, Zenon DEF GoodChan
<1>4. \A f : GoodFd(st, f)' <=> GoodFd(st', f)
  BY Zenon DEF GoodFd, Unlisted
<1> QED BY <1>3, <1>4, Zenon DEF Good

\* x is 0, or the only Channel that goes.
LEMMA StayKeeps ==
  ASSUME IInv, NEW x, Good(st'), Stays(st, st', x), Len(st'.chan) <= MaxChannels,
         UNCHANGED <<backend, pc, active, running, calls>>
  PROVE  IInv' /\ (Safe /\ (ShutdownInCallback \/ x = 0 \/ (active = <<>> /\ calls = <<>>)) => Safe')
<1>1. /\ backend' = backend /\ pc' = pc /\ active' = active /\ running' = running /\ calls' = calls
      /\ Rounds /\ backend \in {"epoll", "kqueue"} /\ st \in States
  BY Zenon DEF IInv, Good
<1>2. \A d \in DOMAIN st.chan : d \in DOMAIN st'.chan
  BY Zenon DEF Stays
<1>3. Rounds'
  BY <1>1, <1>2, Zenon DEF Rounds
<1>4. IInv'
  BY <1>1, <1>3, GoodNext, Zenon DEF IInv
<1>5. ASSUME Safe, ~ShutdownInCallback, x = 0 PROVE Safe'
  <2>1. NoDanglingUse /\ OwnEvents
    BY <1>5, Zenon DEF Safe
  <2>2. \A d \in DOMAIN st.chan : st'.chan[d].live = st.chan[d].live /\ st'.chan[d].sock = st.chan[d].sock
    <3>1. \A d \in DOMAIN st.chan : d # 0
      BY <1>1, ChanFacts, Zenon
    <3> QED BY <1>5, <3>1, Zenon DEF Stays
  <2>3. \A i \in DOMAIN active : active[i].c \in DOMAIN st.chan
    BY <1>1, Zenon DEF Rounds
  <2>4. calls # <<>> => running \in DOMAIN st.chan
    BY <1>1, Zenon DEF Rounds
  <2>5. OwnEvents'
    BY <1>1, <2>1, <2>2, <2>3, ZenonT(60) DEF OwnEvents
  <2>6. NoDanglingUse'
    BY <1>1, <2>1, <2>2, <2>3, <2>4, Zenon DEF NoDanglingUse
  <2> QED BY <2>5, <2>6, Zenon DEF Safe
<1>6. ASSUME active = <<>>, calls = <<>> PROVE Safe'
  <2>1. active' = <<>> /\ calls' = <<>> /\ DOMAIN active' = {}
    BY <1>1, <1>6
  <2> QED BY <2>1, Zenon DEF Safe, NoDanglingUse, OwnEvents
<1>7. ShutdownInCallback => Safe'
  BY Zenon DEF Safe
<1> QED BY <1>4, <1>5, <1>6, <1>7, Zenon

LEMMA WaitKeeps ==
  ASSUME IInv, Wait
  PROVE  IInv' /\ Safe'
<1>1. /\ pc = "wait" /\ pc' = "dispatch" /\ backend' = backend /\ st' = st
      /\ running' = running /\ calls' = calls
  BY Zenon DEF Wait
<1>2. running = 0 /\ calls = <<>>
  BY <1>1 DEF IInv, Rounds
<1>3. /\ active' \in Seq(Reported)
      /\ \A i \in DOMAIN active' :
           /\ active'[i].c \in DOMAIN st.chan /\ st.chan[active'[i].c].live
           /\ active'[i].of = st.chan[active'[i].c].sock
      /\ \A i, j \in DOMAIN active' : active'[i].c = active'[j].c => i = j
  BY WaitIs, Zenon
<1>4. \A d \in DOMAIN st.chan : d # 0
  BY ChanFacts, Zenon DEF IInv, Good
<1>5. calls \in Seq({"read", "close", "write"}) /\ \A i \in DOMAIN calls : calls[i] = "read" => i = 1
  BY Zenon DEF IInv, Rounds
<1>6. Rounds'
  BY <1>1, <1>2, <1>3, <1>4, <1>5, Zenon DEF Rounds
<1>7. IInv'
  <2>1. Good(st)'
    <3>1. Good(st')
      BY <1>1, Zenon DEF IInv
    <3> QED BY <1>1, <3>1, GoodNext, Zenon
  <2> QED BY <1>1, <1>6, <2>1, Zenon DEF IInv
<1>8. Safe'
  BY <1>1, <1>2, <1>3, Zenon DEF Safe, NoDanglingUse, OwnEvents
<1> QED BY <1>7, <1>8

\* The first of active_channels_ has its turn.
LEMMA FirstActive ==
  ASSUME Rounds, active # <<>>, active' = Tail(active)
  PROVE  /\ Head(active) = active[1] /\ 1 \in DOMAIN active /\ active' \in Seq(Reported)
         /\ \A i \in DOMAIN active' : /\ i + 1 \in DOMAIN active /\ active'[i] = active[i + 1]
                                      /\ active'[i].c # Head(active).c
         /\ \A i, j \in DOMAIN active' : active'[i].c = active'[j].c => i = j
<1>1. active \in Seq(Reported)
  BY Zenon DEF Rounds
<1>2. /\ Head(active) = active[1] /\ 1 \in DOMAIN active /\ active' \in Seq(Reported)
      /\ \A i \in DOMAIN active' : i \in Nat \ {0} /\ i + 1 \in DOMAIN active /\ active'[i] = active[i + 1]
  BY <1>1
<1>3. \A i \in DOMAIN active' : i + 1 # 1
  BY <1>2
<1>4. \A i \in DOMAIN active' : active'[i].c # Head(active).c
  BY <1>2, <1>3, Zenon DEF Rounds
<1>5. \A i, j \in DOMAIN active' : active'[i].c = active'[j].c => i + 1 = j + 1
  <2>1. \A i, j \in DOMAIN active : active[i].c = active[j].c => i = j
    BY Zenon DEF Rounds
  <2> SUFFICES ASSUME NEW i \in DOMAIN active', NEW j \in DOMAIN active', active'[i].c = active'[j].c
               PROVE  i + 1 = j + 1
    BY Zenon
  <2>2. /\ i + 1 \in DOMAIN active /\ j + 1 \in DOMAIN active
        /\ active'[i] = active[i + 1] /\ active'[j] = active[j + 1]
    BY <1>2, Zenon
  <2>3. active[i + 1].c = active[j + 1].c
    BY <2>2, Zenon
  <2> QED BY <2>1, <2>2, <2>3, Zenon
<1>6. \A i, j \in DOMAIN active' : i + 1 = j + 1 => i = j
  BY <1>2
<1> QED BY <1>2, <1>4, <1>5, <1>6, ZenonT(60)

LEMMA HandleEventKeeps ==
  ASSUME IInv, HandleEvent
  PROVE  IInv' /\ (Safe => Safe')
<1>1. PICK a, c : a = Head(active) /\ c = a.c
  BY Zenon
<1>2. /\ pc = "dispatch" /\ pc' = pc /\ running = 0 /\ active # <<>> /\ active' = Tail(active)
      /\ backend' = backend /\ st.chan[c].live /\ calls' = Callbacks(a)
      /\ \/ calls' = <<>> /\ st' = st /\ running' = running
         \/ calls' # <<>> /\ running' = c /\ st' \in Entered(Head(calls'), c)
  BY <1>1, Zenon DEF HandleEvent
<1>3. Rounds /\ backend \in {"epoll", "kqueue"} /\ Good(st) /\ st \in States /\ Len(st.chan) <= MaxChannels
  BY Zenon DEF IInv, Good
<1>4. /\ Head(active) = active[1] /\ 1 \in DOMAIN active /\ active' \in Seq(Reported)
      /\ \A i \in DOMAIN active' : /\ i + 1 \in DOMAIN active /\ active'[i] = active[i + 1]
                                   /\ active'[i].c # Head(active).c
      /\ \A i, j \in DOMAIN active' : active'[i].c = active'[j].c => i = j
  BY <1>2, <1>3, FirstActive, Zenon
<1>5. c \in DOMAIN st.chan /\ c # 0 /\ \A d \in DOMAIN st.chan : d # 0
  <2>1. c \in DOMAIN st.chan
    BY <1>1, <1>3, <1>4, Zenon DEF Rounds
  <2> QED BY <1>3, <2>1, ChanFacts, Zenon
<1>6. Good(st') /\ Stays(st, st', c) /\ Len(st'.chan) <= MaxChannels /\ (running' # 0 /\ Head(calls') = "read" => st' = st)
  <2>1. CASE calls' = <<>>
    <3>1. st' = st /\ running' = 0
      BY <1>2, <2>1, Zenon
    <3> QED BY <1>3, <3>1, Zenon DEF Stays
  <2>2. CASE calls' # <<>>
    <3>1. PICK cb : cb = Head(calls')
      BY Zenon
    <3>2. st' \in Entered(cb, c)
      BY <1>2, <2>2, <3>1, Zenon
    <3>3. Good(st') /\ Stays(st, st', c) /\ Len(st'.chan) <= MaxChannels /\ (cb = "read" => st' = st)
      BY <1>5, <3>2, EnteredGood
    <3> QED BY <3>1, <3>3, Zenon
  <2> QED BY <2>1, <2>2, SMTT(30)
<1>7. \A i \in DOMAIN active' : active'[i].c \in DOMAIN st.chan /\ active'[i].c # c
  BY <1>1, <1>3, <1>4, ZenonT(60) DEF Rounds
<1>8. \A d \in DOMAIN st.chan : d \in DOMAIN st'.chan
  BY <1>6, Zenon DEF Stays
<1>9. running' = 0 \/ running' = c
  BY <1>2, Zenon
<1>10. Rounds'
  <2>1. calls' \in Seq({"read", "close", "write"}) /\ \A i \in DOMAIN calls' : calls'[i] = "read" => i = 1
    BY <1>2, CallbacksAre, Zenon
  <2>2. running' = 0 <=> calls' = <<>>
    BY <1>2, <1>5, Zenon
  <2>3. running' # 0 => running' \in DOMAIN st'.chan
    BY <1>5, <1>8, <1>9, Zenon
  <2>4. \A i \in DOMAIN active' : active'[i].c \in DOMAIN st'.chan /\ active'[i].c # running'
    BY <1>5, <1>7, <1>8, <1>9, Zenon
  <2>5. pc' = "dispatch"
    BY <1>2, Zenon
  <2> QED BY <1>4, <2>1, <2>2, <2>3, <2>4, <2>5, SMTT(30) DEF Rounds
<1>11. IInv'
  BY <1>2, <1>3, <1>6, <1>10, GoodNext, Zenon DEF IInv
<1>12. ASSUME Safe PROVE Safe'
  <2>1. CASE ShutdownInCallback
    BY <2>1, Zenon DEF Safe
  <2>2. CASE ~ShutdownInCallback
    <3>1. NoDanglingUse /\ OwnEvents
      BY <1>12, <2>2, Zenon DEF Safe
    <3>2. \A d \in DOMAIN st.chan :
            d # c => st'.chan[d].live = st.chan[d].live /\ st'.chan[d].sock = st.chan[d].sock
      BY <1>6, Zenon DEF Stays
    <3>3. OwnEvents'
      <4> SUFFICES ASSUME NEW i \in DOMAIN active' PROVE active'[i].of = st'.chan[active'[i].c].sock
        BY Zenon DEF OwnEvents
      <4>1. active'[i].of = st.chan[active'[i].c].sock
        BY <1>4, <3>1, ZenonT(60) DEF OwnEvents
      <4> QED BY <1>7, <3>2, <4>1, Zenon
    <3>4. \A i \in DOMAIN active' : st'.chan[active'[i].c].live
      BY <1>4, <1>7, <3>1, <3>2, ZenonT(60) DEF NoDanglingUse
    <3>5. calls' # <<>> /\ Head(calls') = "read" => st'.chan[running'].live
      BY <1>2, <1>5, <1>6, Zenon
    <3> QED BY <3>3, <3>4, <3>5, Zenon DEF Safe, NoDanglingUse
  <2> QED BY <2>1, <2>2, SMTT(30)
<1> QED BY <1>11, <1>12

LEMMA ReturnKeeps ==
  ASSUME IInv, Return
  PROVE  IInv' /\ (Safe => Safe')
<1>1. /\ running # 0 /\ calls' = Tail(calls) /\ backend' = backend /\ pc' = pc /\ active' = active
      /\ \/ calls' = <<>> /\ running' = 0 /\ st' = st
         \/ calls' # <<>> /\ running' = running /\ st' \in Entered(Head(calls'), running)
  BY Zenon DEF Return
<1>2. /\ Rounds /\ backend \in {"epoll", "kqueue"} /\ Good(st) /\ Len(st.chan) <= MaxChannels
      /\ running \in DOMAIN st.chan /\ calls # <<>> /\ calls \in Seq({"read", "close", "write"})
  BY <1>1, Zenon DEF IInv, Rounds
<1>3. /\ calls' \in Seq({"read", "close", "write"})
      /\ \A i \in DOMAIN calls' : i \in Nat \ {0} /\ i + 1 \in DOMAIN calls /\ calls'[i] = calls[i + 1]
  BY <1>1, <1>2
<1>4. \A i \in DOMAIN calls' : calls'[i] # "read"
  <2>1. \A i \in DOMAIN calls' : i + 1 # 1
    BY <1>3
  <2> QED BY <1>2, <1>3, <2>1, Zenon DEF Rounds
<1>5. calls' # <<>> => Head(calls') # "read"
  BY <1>3, <1>4, SMTT(30)
<1>6. Good(st') /\ Stays(st, st', running) /\ Len(st'.chan) <= MaxChannels
  <2>1. CASE st' = st
    BY <1>2, <2>1, Zenon DEF Stays
  <2>2. CASE st' # st
    <3>1. PICK cb : st' \in Entered(cb, running)
      BY <1>1, <2>2, Zenon
    <3> QED BY <1>2, <3>1, EnteredGood
  <2> QED BY <2>1, <2>2, SMTT(30)
<1>7. \A i \in DOMAIN active : active[i].c \in DOMAIN st.chan /\ active[i].c # running
  BY <1>2, Zenon DEF Rounds
<1>8. \A d \in DOMAIN st.chan : d \in DOMAIN st'.chan
  BY <1>6, Zenon DEF Stays
<1>9. \A d \in DOMAIN st.chan : d # 0
  BY <1>2, ChanFacts, Zenon DEF Good
<1>10. Rounds'
  <2>1. running' = 0 <=> calls' = <<>>
    BY <1>1, Zenon
  <2>2. running' # 0 => running' \in DOMAIN st'.chan
    BY <1>1, <1>2, <1>8, Zenon
  <2>3. \A i \in DOMAIN active' : active'[i].c \in DOMAIN st'.chan /\ active'[i].c # running'
    BY <1>1, <1>7, <1>8, <1>9, Zenon
  <2>4. /\ pc' \in {"wait", "dispatch", "closures"} /\ active' \in Seq(Reported)
        /\ pc' = "dispatch" /\ \A i, j \in DOMAIN active' : active'[i].c = active'[j].c => i = j
    BY <1>1, <1>2, Zenon DEF Rounds
  <2> QED BY <1>3, <1>4, <2>1, <2>2, <2>3, <2>4, ZenonT(60) DEF Rounds
<1>11. IInv'
  BY <1>1, <1>2, <1>6, <1>10, GoodNext, Zenon DEF IInv
<1>12. ASSUME Safe PROVE Safe'
  <2>1. CASE ShutdownInCallback
    BY <2>1, Zenon DEF Safe
  <2>2. CASE ~ShutdownInCallback
    <3>1. NoDanglingUse /\ OwnEvents
      BY <1>12, <2>2, Zenon DEF Safe
    <3>2. \A d \in DOMAIN st.chan :
            d # running => st'.chan[d].live = st.chan[d].live /\ st'.chan[d].sock = st.chan[d].sock
      BY <1>6, Zenon DEF Stays
    <3>3. OwnEvents'
      <4> SUFFICES ASSUME NEW i \in DOMAIN active' PROVE active'[i].of = st'.chan[active'[i].c].sock
        BY Zenon DEF OwnEvents
      <4>1. active'[i].of = st.chan[active'[i].c].sock
        BY <1>1, <3>1, Zenon DEF OwnEvents
      <4> QED BY <1>1, <1>7, <3>2, <4>1, ZenonT(60)
    <3>4. \A i \in DOMAIN active' : st'.chan[active'[i].c].live
      BY <1>1, <1>7, <3>1, <3>2, ZenonT(60) DEF NoDanglingUse
    <3> QED BY <1>5, <3>3, <3>4, Zenon DEF Safe, NoDanglingUse
  <2> QED BY <2>1, <2>2
<1> QED BY <1>11, <1>12

\* Neither of them finds anything that is left of a round.
LEMMA RoundEnds ==
  ASSUME IInv, SwapTasks \/ PollReturns
  PROVE  IInv' /\ Safe'
<1>1. /\ running = 0 /\ active = <<>> /\ backend' = backend /\ active' = active /\ running' = running
      /\ calls' = calls /\ pc' \in {"closures", "wait"}
  BY Zenon DEF SwapTasks, PollReturns, IInv, Rounds
<1>2. calls = <<>> /\ Good(st) /\ Len(st.chan) <= MaxChannels /\ backend \in {"epoll", "kqueue"}
  BY <1>1, Zenon DEF IInv, Rounds
<1>3. Good(st') /\ Len(st'.chan) = Len(st.chan)
  <2>1. CASE SwapTasks
    <3>1. st' = [st EXCEPT !.dying = st.later, !.later = {}]
      BY <2>1, Zenon DEF SwapTasks
    <3> QED BY <1>2, <3>1, SwapGood, Zenon
  <2>2. CASE PollReturns
    <3>1. st' = [st EXCEPT
             !.chan = [c \in DOMAIN @ |-> IF c \in st.dying THEN Freed(@[c]) ELSE @[c]],
             !.dying = {}]
      BY <2>2, Zenon DEF PollReturns
    <3> QED BY <1>2, <3>1, ReturnGood, Zenon
  <2> QED BY <2>1, <2>2, SMTT(30)
<1>4. active' = <<>> /\ calls' = <<>> /\ DOMAIN active' = {} /\ DOMAIN calls' = {}
  BY <1>1, <1>2, SMTT(30)
<1>5. active' \in Seq(Reported) /\ calls' \in Seq({"read", "close", "write"})
  BY <1>4, SMTT(30)
<1>6. Rounds'
  BY <1>1, <1>4, <1>5, SMTT(30) DEF Rounds
<1>7. IInv'
  BY <1>1, <1>2, <1>3, <1>6, GoodNext, Zenon DEF IInv
<1>8. Safe'
  BY <1>4, Zenon DEF Safe, NoDanglingUse, OwnEvents
<1> QED BY <1>7, <1>8, SMTT(30)

LEMMA OpenKeeps ==
  ASSUME IInv, NEW kind \in {"listen", "connect", "conn"}, Open(kind)
  PROVE  IInv' /\ (Safe => Safe')
<1>1. PICK f \in Fds :
        /\ st.open[f] = 0
        /\ st' = NewChannel([st EXCEPT !.open[f] = Len(st.chan) + 1], kind, f, Len(st.chan) + 1,
                            IF kind = "connect" THEN {"W"} ELSE {"R"})
  BY Zenon DEF Open, Step
<1>2. Room /\ UNCHANGED <<backend, pc, active, running, calls>>
  BY Zenon DEF Open, Step
<1>3. Good(st) /\ backend \in {"epoll", "kqueue"} /\ Len(st.chan) \in Nat /\ MaxChannels \in Nat
  <2>1. st \in States
    BY Zenon DEF IInv, Good
  <2> QED BY <2>1, StateFields, PollerAssumption, SMTT(30) DEF IInv
<1>4. PICK ev : ev = IF kind = "connect" THEN {"W"} ELSE {"R"}
  BY Zenon
<1>5. ev \in Interest /\ ev # {} /\ (kind = "conn" => "R" \in ev)
  BY <1>4 DEF Interest
<1>6. Good(st') /\ Stays(st, st', 0) /\ Len(st'.chan) = Len(st.chan) + 1
  <2>1. st' = NewChannel([st EXCEPT !.open[f] = Len(st.chan) + 1], kind, f, Len(st.chan) + 1, ev)
    BY <1>1, <1>4, Zenon
  <2>2. st.open[f] = 0
    BY <1>1, Zenon
  <2>3. PICK t : t = st'
    BY Zenon
  <2>4. Good(t) /\ Stays(st, t, 0) /\ Len(t.chan) = Len(st.chan) + 1
    BY <1>3, <1>5, <2>1, <2>2, <2>3, OpenedGood, SMTT(30)
  <2> QED BY <2>3, <2>4, Zenon
<1>7. Len(st'.chan) <= MaxChannels
  BY <1>2, <1>3, <1>6 DEF Room
<1> QED BY <1>2, <1>6, <1>7, StayKeeps, Zenon

LEMMA ToggleWriteKeeps ==
  ASSUME IInv, NEW c \in DOMAIN st.chan, ToggleWrite(c)
  PROVE  IInv' /\ (Safe => Safe')
<1>1. Good(st) /\ backend \in {"epoll", "kqueue"} /\ Len(st.chan) <= MaxChannels
  BY Zenon DEF IInv
<1>2. Owned(st, c) /\ st.chan[c].kind = "conn" /\ UNCHANGED <<backend, pc, active, running, calls>>
  BY Zenon DEF ToggleWrite, Step
<1>3. "R" \in st.chan[c].ev /\ st.chan[c].ev \in Interest
  BY <1>1, <1>2, ChanFacts, Zenon DEF Good, GoodChan
<1>4. PICK ev \in {st.chan[c].ev \cup {"W"}, st.chan[c].ev \ {"W"}} : st' = SetEvents(st, c, ev)
  BY Zenon DEF ToggleWrite, Step
<1>5. ev \in Interest /\ ev # {} /\ "R" \in ev
  BY <1>3, <1>4 DEF Interest
<1>6. Good(st') /\ Stays(st, st', 0) /\ Len(st'.chan) = Len(st.chan)
  BY <1>1, <1>2, <1>4, <1>5, SetEventsGood, Zenon
<1> QED BY <1>1, <1>2, <1>6, StayKeeps, Zenon

LEMMA CleanupKeeps ==
  ASSUME IInv, NEW c \in DOMAIN st.chan, Cleanup(c)
  PROVE  IInv' /\ (Safe => Safe')
<1>1. Good(st) /\ backend \in {"epoll", "kqueue"} /\ Len(st.chan) <= MaxChannels
  BY Zenon DEF IInv
<1>2. /\ Owned(st, c) /\ st' = DoCleanup(st, c)
      /\ UNCHANGED <<backend, pc, active, running, calls>>
  BY Zenon DEF Cleanup, Step
<1>3. Good(st') /\ Stays(st, st', 0) /\ Len(st'.chan) = Len(st.chan)
  BY <1>1, <1>2, DoCleanupGood, Zenon
<1> QED BY <1>1, <1>2, <1>3, StayKeeps, Zenon

LEMMA ShutdownKeeps ==
  ASSUME IInv, NEW c \in DOMAIN st.chan, Shutdown(c)
  PROVE  IInv' /\ (Safe => Safe')
<1>1. Good(st) /\ backend \in {"epoll", "kqueue"} /\ Len(st.chan) <= MaxChannels
  BY Zenon DEF IInv
<1>2. /\ Owned(st, c) /\ st' = Reset(CloseHandle(Unregister(st, c), st.chan[c].fd), c)
      /\ UNCHANGED <<backend, pc, active, running, calls>>
  BY Zenon DEF Shutdown, Step, ShutdownAcceptor
<1>3. Good(st') /\ Stays(st, st', c) /\ Len(st'.chan) = Len(st.chan)
  BY <1>1, <1>2, ResetGood, Zenon
<1>4. ShutdownInCallback \/ pc = "closures"
  BY Zenon DEF Shutdown
<1>5. pc = "closures" => active = <<>> /\ calls = <<>>
  BY DEF IInv, Rounds
<1> QED BY <1>1, <1>2, <1>3, <1>4, <1>5, StayKeeps, Zenon

LEMMA StepKeeps ==
  ASSUME IInv, [Next]_vars
  PROVE  IInv' /\ (Safe => Safe')
<1>1. CASE UNCHANGED vars
  <2>1. /\ st' = st /\ backend' = backend /\ pc' = pc /\ active' = active /\ running' = running
        /\ calls' = calls
    BY <1>1, Zenon DEF vars
  <2>2. Good(st') /\ Stays(st, st', 0) /\ Len(st'.chan) <= MaxChannels
    BY <2>1, Zenon DEF IInv, Stays
  <2> QED BY <2>1, <2>2, StayKeeps, Zenon
<1>2. CASE Wait
  BY <1>2, WaitKeeps, Zenon
<1>3. CASE HandleEvent
  BY <1>3, HandleEventKeeps, Zenon
<1>4. CASE Return
  BY <1>4, ReturnKeeps, Zenon
<1>5. CASE SwapTasks \/ PollReturns
  BY <1>5, RoundEnds, Zenon
<1>6. ASSUME NEW kind \in {"listen", "connect", "conn"}, Open(kind) PROVE IInv' /\ (Safe => Safe')
  BY <1>6, OpenKeeps, Zenon
<1>7. ASSUME NEW c \in DOMAIN st.chan, ToggleWrite(c) \/ Cleanup(c) \/ Shutdown(c)
      PROVE  IInv' /\ (Safe => Safe')
  BY <1>7, ToggleWriteKeeps, CleanupKeeps, ShutdownKeeps, Zenon
<1> QED BY <1>1, <1>2, <1>3, <1>4, <1>5, <1>6, <1>7, ZenonT(60) DEF Next

LEMMA InitKeeps ==
  ASSUME Init
  PROVE  IInv /\ Safe
<1>1. /\ backend \in {"epoll", "kqueue"} /\ pc = "closures" /\ active = <<>> /\ running = 0 /\ calls = <<>>
      /\ MaxChannels \in Nat
  BY PollerAssumption, Zenon DEF Init
<1>2. /\ st.open = [f \in Fds |-> 0] /\ st.kern = [f \in Fds |-> NotListed]
      /\ st.channels = [f \in Fds |-> 0] /\ st.registered = [f \in Fds |-> {}]
      /\ st.chan = <<>> /\ st.later = {} /\ st.dying = {} /\ st.ensured = TRUE
  BY SMTT(30) DEF Init
<1>3. NotListed \in Entries
  BY SMTT(30) DEF NotListed, Entries, Interest
<1>4. st \in States
  BY <1>3, SMTT(30) DEF Init, States, Interest
<1>5. \A f \in Fds : GoodFd(st, f)
  BY <1>2, SMTT(30) DEF GoodFd, Unlisted
<1>6. DOMAIN st.chan = {} /\ Len(st.chan) = 0 /\ DOMAIN active = {} /\ DOMAIN calls = {}
  BY <1>1, <1>2
<1>7. Good(st)
  BY <1>2, <1>4, <1>5, <1>6, Zenon DEF Good
<1>8. active \in Seq(Reported) /\ calls \in Seq({"read", "close", "write"})
  BY <1>1, SMTT(30)
<1>9. Rounds
  BY <1>1, <1>6, <1>8, Zenon DEF Rounds
<1>10. Len(st.chan) <= MaxChannels
  BY <1>1, <1>6, SMTT(30)
<1>11. IInv
  BY <1>1, <1>7, <1>9, <1>10, Zenon DEF IInv
<1>12. Safe
  BY <1>1, <1>6, Zenon DEF Safe, NoDanglingUse, OwnEvents
<1> QED BY <1>11, <1>12, SMTT(30)

\* The tables are good and the rounds are in order, and what the poll still
\* uses is there.
THEOREM Invariance == Spec => []SafeIInv
<1>1. Init => SafeIInv
  BY InitKeeps, Zenon DEF SafeIInv
<1>2. SafeIInv /\ [Next]_vars => SafeIInv'
  BY StepKeeps, Zenon DEF SafeIInv
<1> QED BY <1>1, <1>2, PTL DEF Spec

-----------------------------------------------------------------------------
(* What the poller promises.                                               *)

LEMMA GoodTables ==
  ASSUME IInv
  PROVE  TablesAgree
<1>1. Good(st) /\ st \in States /\ backend \in {"epoll", "kqueue"}
  BY Zenon DEF IInv, Good
<1>2. ASSUME NEW c \in Made, st.chan[c].live, st.chan[c].ev # {}
      PROVE  /\ Owned(st, c) /\ st.chan[c].reg /\ st.channels[st.chan[c].fd] = c
             /\ st.kern[st.chan[c].fd].ev = st.chan[c].ev
             /\ backend = "kqueue" => st.registered[st.chan[c].fd] = st.chan[c].ev
             /\ backend = "epoll" => st.kern[st.chan[c].fd].ptr = c
  <2>1. Owned(st, c) /\ Listed(st, c)
    BY <1>1, <1>2, Zenon DEF Good, GoodChan, Made
  <2>2. /\ st.chan[c].reg /\ st.channels[st.chan[c].fd] = c
        /\ st.kern[st.chan[c].fd] = Entry(c, st.chan[c].ev)
        /\ st.registered[st.chan[c].fd] = Kept(st.chan[c].ev)
    BY <2>1, Zenon DEF Listed
  <2>3. Entry(c, st.chan[c].ev).ev = st.chan[c].ev /\ (backend = "epoll" => Entry(c, st.chan[c].ev).ptr = c)
    BY DEF Entry
  <2>4. backend = "kqueue" => Kept(st.chan[c].ev) = st.chan[c].ev
    BY DEF Kept
  <2> QED BY <2>1, <2>2, <2>3, <2>4, Zenon
<1>3. \A c \in Made : st.chan[c].ev = {} => ~st.chan[c].reg
  BY <1>1, Zenon DEF Good, GoodChan, Made
<1>4. ASSUME NEW f \in Fds, st.channels[f] # 0
      PROVE  /\ st.chan[st.channels[f]].live /\ st.chan[st.channels[f]].fd = f
             /\ st.chan[st.channels[f]].ev # {}
  <2>1. GoodFd(st, f) /\ ~Unlisted(st, f)
    BY <1>1, <1>4, Zenon DEF Good, Unlisted
  <2>2. PICK d \in DOMAIN st.chan : d = st.channels[f] /\ st.chan[d].fd = f /\ st.chan[d].ev # {}
    BY <2>1, Zenon DEF GoodFd
  <2>3. st.chan[d].live
    BY <1>1, <2>2, Zenon DEF Good, GoodChan, Owned
  <2> QED BY <2>2, <2>3, Zenon
<1>5. ASSUME NEW f \in Fds, st.channels[f] = 0
      PROVE  st.kern[f] = NotListed /\ st.registered[f] = {}
  <2>1. GoodFd(st, f)
    BY <1>1, Zenon DEF Good
  <2>2. \A d \in DOMAIN st.chan : d # 0
    BY <1>1, ChanFacts, Zenon
  <2> QED BY <1>5, <2>1, <2>2, Zenon DEF GoodFd, Unlisted
<1> QED BY <1>2, <1>3, <1>4, <1>5, Zenon DEF TablesAgree

\* channels_, registered_events_, registered_ and the kernel say the same of
\* every Channel and of every descriptor, with either poller, after any
\* sequence of registrations, cleanups and reuses of descriptors.
THEOREM TablesKept == Spec => []TablesAgree
<1>1. SafeIInv => TablesAgree
  BY GoodTables, Zenon DEF SafeIInv
<1> QED BY <1>1, Invariance, PTL

\* No registration is refused, and remove_channel finds the Channel it is
\* given, so that none of the pollers' ENSUREs fails.
THEOREM EnsuresKept == Spec => []EnsuresHold
<1>1. SafeIInv => EnsuresHold
  BY Zenon DEF SafeIInv, IInv, Good, EnsuresHold
<1> QED BY <1>1, Invariance, PTL

\* If no Acceptor is shut down from a callback, fill_active_channels' list has
\* only Channels that exist at their turn, and handle_event_ finds its own
\* after the read callback.
THEOREM NothingDangles ==
  ASSUME ~ShutdownInCallback
  PROVE  Spec => []NoDanglingUse
<1>1. SafeIInv => NoDanglingUse
  BY Zenon DEF SafeIInv, Safe
<1> QED BY <1>1, Invariance, PTL

\* And the events in it are of the socket that the Channel is of, although a
\* callback may have closed it and opened another with the same descriptor.
THEOREM EventsOwn ==
  ASSUME ~ShutdownInCallback
  PROVE  Spec => []OwnEvents
<1>1. SafeIInv => OwnEvents
  BY Zenon DEF SafeIInv, Safe
<1> QED BY <1>1, Invariance, PTL

-----------------------------------------------------------------------------
(* The pollers implement the Demultiplexer.                                *)

Want(s) == [c \in 1..MaxChannels |-> IF c \in DOMAIN s.chan THEN s.chan[c].ev ELSE {}]
Due(q)  == [i \in DOMAIN q |-> [c |-> q[i].c, ev |-> q[i].ev]]
Told    == [c : Nat, ev : SUBSET {"R", "W", "E", "H"}]

LEMMA WantIs ==
  ASSUME NEW s \in States, Len(s.chan) <= MaxChannels
  PROVE  /\ Want(s) \in [1..MaxChannels -> SUBSET {"R", "W"}]
         /\ \A c \in DOMAIN s.chan : Want(s)[c] = s.chan[c].ev
<1>1. \A c \in DOMAIN s.chan : s.chan[c].ev \in SUBSET {"R", "W"}
  BY ChanFacts, Zenon DEF Interest
<1>2. \A c \in DOMAIN s.chan : c \in 1..MaxChannels
  <2>1. s.chan \in Seq(Chans) /\ MaxChannels \in Nat
    BY StateFields, PollerAssumption, Zenon
  <2> QED BY <2>1, SMTT(30)
<1>3. \A c \in 1..MaxChannels : Want(s)[c] = IF c \in DOMAIN s.chan THEN s.chan[c].ev ELSE {}
  BY Zenon DEF Want
<1>4. \A c \in 1..MaxChannels : Want(s)[c] \in SUBSET {"R", "W"}
  BY <1>1, <1>3, Zenon
<1>5. Want(s) \in [1..MaxChannels -> SUBSET {"R", "W"}]
  BY <1>4, Zenon DEF Want
<1> QED BY <1>2, <1>3, <1>5, Zenon

LEMMA DueIs ==
  ASSUME NEW q \in Seq(Reported)
  PROVE  /\ Due(q) \in Seq(Told)
         /\ DOMAIN Due(q) = DOMAIN q /\ Len(Due(q)) = Len(q)
         /\ \A i \in DOMAIN q : /\ Due(q)[i] = [c |-> q[i].c, ev |-> q[i].ev]
                                /\ Due(q)[i].c = q[i].c /\ Due(q)[i].ev = q[i].ev
<1>1. /\ DOMAIN q = 1..Len(q) /\ Len(q) \in Nat
      /\ \A i \in DOMAIN q : q[i] \in Reported
  OBVIOUS
<1>2. PICK d : d = Due(q)
  BY Zenon
<1>3. /\ DOMAIN d = DOMAIN q /\ d = [i \in DOMAIN q |-> d[i]]
      /\ \A i \in DOMAIN q : d[i] = [c |-> q[i].c, ev |-> q[i].ev]
  BY <1>2, Zenon DEF Due
<1>4. \A i \in DOMAIN q : [c |-> q[i].c, ev |-> q[i].ev] \in Told
  BY <1>1 DEF Reported, Told
<1>5. d \in [1..Len(q) -> Told]
  BY <1>1, <1>3, <1>4, Zenon
<1>6. d \in Seq(Told) /\ Len(d) = Len(q)
  BY <1>1, <1>5, SMTT(30)
<1>7. \A i \in DOMAIN q : d[i].c = q[i].c /\ d[i].ev = q[i].ev
  BY <1>3
<1> QED BY <1>2, <1>3, <1>6, <1>7, Zenon

LEMMA DueTail ==
  ASSUME NEW q \in Seq(Reported), q # <<>>
  PROVE  Due(q) # <<>> /\ Due(Tail(q)) = Tail(Due(q))
<1>1. PICK r, d, e : r = Tail(q) /\ d = Due(q) /\ e = Due(r)
  BY Zenon
<1>2. /\ r \in Seq(Reported) /\ Len(r) = Len(q) - 1 /\ Len(q) \in Nat \ {0}
      /\ \A i \in DOMAIN r : i \in Nat /\ i + 1 \in DOMAIN q /\ r[i] = q[i + 1]
  BY <1>1, SMTT(30)
<1>3. /\ d \in Seq(Told) /\ Len(d) = Len(q)
      /\ \A i \in DOMAIN q : d[i] = [c |-> q[i].c, ev |-> q[i].ev]
  BY <1>1, DueIs, Zenon
<1>4. /\ e \in Seq(Told) /\ Len(e) = Len(r) /\ DOMAIN e = DOMAIN r
      /\ \A i \in DOMAIN r : e[i] = [c |-> r[i].c, ev |-> r[i].ev]
  BY <1>1, <1>2, DueIs, Zenon
<1>5. \A i \in DOMAIN e : e[i] = d[i + 1]
  BY <1>2, <1>3, <1>4, ZenonT(60)
<1>6. d # <<>> /\ e = Tail(d)
  BY <1>2, <1>3, <1>4, <1>5, SMTT(30)
<1> QED BY <1>1, <1>6, Zenon

\* Owners of Channels are told of what they have asked for, and of nothing
\* else: a step of the poll is a step of the Demultiplexer, or changes nothing
\* that it speaks of.
THEOREM Implementation == Spec => ImplementsDemultiplexer
<1>1. Init => Abstract!Init
  <2> SUFFICES ASSUME Init PROVE Abstract!Init
    BY SMTT(30)
  <2>1. DOMAIN active = {} /\ Made = {}
    BY DEF Init, Made
  <2>2. Want(st) = [c \in 1..MaxChannels |-> {}]
    BY <2>1, Zenon DEF Want, Made
  <2>3. Due(active) = <<>>
    BY <2>1 DEF Due
  <2> QED BY <2>2, <2>3, Zenon DEF Abstract!Init, Want, Due, Made
<1>2. ASSUME IInv, IInv', [Next]_vars PROVE [Abstract!Next]_(Abstract!vars)
  <2>1. /\ st \in States /\ Len(st.chan) <= MaxChannels
        /\ st' \in States /\ Len(st'.chan) <= MaxChannels
        /\ active \in Seq(Reported) /\ active' \in Seq(Reported)
    BY <1>2, Zenon DEF IInv, Good, Rounds
  <2>2. Want(st') \in [1..MaxChannels -> SUBSET {"R", "W"}]
    BY <2>1, WantIs, Zenon
  <2>3. CASE active' = active
    <3>1. Due(active') = Due(active)
      BY <2>3, Zenon
    <3>2. Abstract!Ask
      BY <2>2, <3>1, Zenon DEF Abstract!Ask, Abstract!Asked, Want, Due, Made
    <3> QED BY <3>2, Zenon DEF Abstract!Next
  <2>4. CASE Wait
    <3>1. active = <<>> /\ st' = st
      BY <1>2, <2>4, SMTT(30) DEF IInv, Rounds, Wait
    <3>2. Due(active) = <<>> /\ Want(st') = Want(st)
      BY <3>1 DEF Due
    <3>3. PICK d : d = Due(active')
      BY Zenon
    <3>4. DOMAIN d = DOMAIN active' /\ \A i \in DOMAIN active' : d[i].c = active'[i].c /\ d[i].ev = active'[i].ev
      BY <2>1, <3>3, DueIs, Zenon
    <3>5. /\ \A i \in DOMAIN active' :
               /\ st.chan[active'[i].c].ev # {} /\ active'[i].ev # {}
               /\ active'[i].ev \subseteq st.chan[active'[i].c].ev \cup {"E", "H"}
               /\ active'[i].c \in DOMAIN st.chan
          /\ \A i, j \in DOMAIN active' : active'[i].c = active'[j].c => i = j
      BY <1>2, <2>4, WaitIs, Zenon
    <3>6. \A c \in DOMAIN st.chan : Want(st)[c] = st.chan[c].ev
      BY <2>1, WantIs, Zenon
    <3>7. ASSUME NEW i \in DOMAIN d
          PROVE  /\ Want(st)[d[i].c] # {}
                 /\ d[i].ev # {} /\ d[i].ev \subseteq Want(st)[d[i].c] \cup {"E", "H"}
                 /\ \A j \in DOMAIN d : d[j].c = d[i].c => i = j
      <4>1. /\ i \in DOMAIN active' /\ d[i].c = active'[i].c /\ d[i].ev = active'[i].ev
            /\ Want(st)[active'[i].c] = st.chan[active'[i].c].ev
        BY <3>4, <3>5, <3>6, Zenon
      <4>2. \A j \in DOMAIN d : d[j].c = d[i].c => i = j
        BY <3>4, <3>5, <4>1, Zenon
      <4> QED BY <3>5, <4>1, <4>2, Zenon
    <3>8. Abstract!Report
      BY <3>2, <3>3, <3>7, ZenonT(60) DEF Abstract!Report, Want, Due, Made
    <3> QED BY <3>8, Zenon DEF Abstract!Next
  <2>5. CASE HandleEvent
    <3>1. active # <<>> /\ active' = Tail(active)
      BY <2>5, Zenon DEF HandleEvent
    <3>2. Due(active) # <<>> /\ Due(active') = Tail(Due(active))
      BY <2>1, <3>1, DueTail, Zenon
    <3>3. Abstract!Tell
      BY <2>2, <3>2, Zenon DEF Abstract!Tell, Abstract!Asked, Want, Due, Made
    <3> QED BY <3>3, Zenon DEF Abstract!Next
  <2> QED BY <1>2, <2>3, <2>4, <2>5, Zenon
        DEF Next, Return, SwapTasks, PollReturns, Open, ToggleWrite, Cleanup, Shutdown, Step, vars
<1> QED BY <1>1, <1>2, Invariance, PTL DEF Spec, ImplementsDemultiplexer, Abstract!Spec, SafeIInv
=============================================================================
