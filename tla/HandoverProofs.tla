--------------------------- MODULE HandoverProofs ---------------------------
(***************************************************************************)
(* Proofs about machines that hand one pointer to each other: any number   *)
(* of them, any desk, any keys and buttons, whatever fails.                *)
(***************************************************************************)
EXTENDS Handover, WellFoundedInduction, TLAPS

(***************************************************************************)
(* The controller's operators.  Working is a controller in the middle of a *)
(* handler, with actions for the backend.                                  *)
(***************************************************************************)
Working == ControllerWith(Output)

LEMMA StateIsWorking == ControllerState \subseteq Working
<1>1. Nothing \in Output
  BY ControllerAssumption DEF Nothing, Output, Place
<1> QED
  BY <1>1 DEF ControllerState, Working, ControllerWith

(* The routes d has and c had, but for those dropped since. *)
RoutesKept(c, d) ==
    /\ \A k \in Key : d.keys[k] = c.keys[k]
                      \/ (c.keys[k] \in Machine /\ d.keys[k] = "dropped")
    /\ \A b \in Button : d.buttons[b] = c.buttons[b]
                         \/ (c.buttons[b] \in Machine /\ d.buttons[b] = "dropped")

(* Where d's pointer is, and what becomes of the OS pointer, as for c. *)
Stays(c, d) ==
    /\ d \in Working
    /\ d.me = c.me /\ d.layout = c.layout
    /\ d.peer = c.peer /\ d.out.os = c.out.os

LEMMA SendStays ==
    ASSUME NEW c \in Working, NEW to \in Machine, NEW msg \in InputMsg
    PROVE  LET d == Send(c, to, msg)
           IN  /\ Stays(c, d)
               /\ d.keys = c.keys /\ d.buttons = c.buttons
               /\ d.seq = c.seq /\ d.cursor = c.cursor /\ d.home = c.home
               /\ d.idle = c.idle /\ d.watcher = c.watcher
<1> DEFINE o == [c.out EXCEPT !.sent[to] = Append(@, msg)]
<1>1. c.out \in Output
  BY DEF Working, ControllerWith
<1> DEFINE q == Append(c.out.sent[to], msg)
<1>2. o \in Output /\ o.os = c.out.os
  <2>1. q \in Seq(InputMsg)
    BY <1>1 DEF Output
  <2>2. o = [c.out EXCEPT !.sent = [@ EXCEPT ![to] = q]]
    BY <1>1 DEF Output
  <2> HIDE DEF o, q
  <2> QED
    BY <1>1, <2>1, <2>2 DEF Output
<1>3. Send(c, to, msg) = [c EXCEPT !.out = o]
  BY <1>1 DEF Send, Working, ControllerWith, Output
<1> HIDE DEF o
<1> QED
  BY <1>2, <1>3 DEF Stays, Working, ControllerWith

LEMMA NextSeqType == \A s \in SeqNo : NextSeq(s) \in SeqNo
BY SeqModAssumption DEF SeqNo, NextSeq

LEMMA DatagramStays ==
    ASSUME NEW c \in Working, NEW to \in Machine, NEW type \in {"Motion", "Pointer"},
           NEW pos \in Place
    PROVE  LET d == Datagram(c, to, type, pos)
           IN  /\ Stays(c, d)
               /\ d.keys = c.keys /\ d.buttons = c.buttons
               /\ d.cursor = c.cursor /\ d.home = c.home
               /\ d.idle = c.idle /\ d.watcher = c.watcher
<1> DEFINE s == NextSeq(c.seq)
           o == [c.out EXCEPT !.datagrams = @ \union
                    {[to |-> to, type |-> type, seq |-> s, pos |-> pos]}]
<1>1. c.out \in Output /\ c.seq \in SeqNo
  BY DEF Working, ControllerWith
<1>2. s \in SeqNo
  BY <1>1, NextSeqType
<1>3. Datagram(c, to, type, pos) = [c EXCEPT !.seq = s, !.out = o]
  BY <1>1 DEF Datagram, Working, ControllerWith, Output
<1> HIDE DEF s
<1>4. o \in Output /\ o.os = c.out.os
  BY <1>1, <1>2 DEF Output
<1> HIDE DEF o
<1> QED
  BY <1>2, <1>3, <1>4 DEF Stays, Working, ControllerWith

(* What becomes of the OS pointer. *)
LEMMA PointerActions ==
    ASSUME NEW c \in Working, NEW x \in Place
    PROVE  /\ LET d == Capture(c)
              IN  /\ d \in Working /\ d.me = c.me /\ d.layout = c.layout
                  /\ d.peer = c.peer /\ d.out.os = "capture"
                  /\ d.keys = c.keys /\ d.buttons = c.buttons
           /\ LET d == Release(c, x)
              IN  /\ d \in Working /\ d.me = c.me /\ d.layout = c.layout
                  /\ d.peer = c.peer /\ d.out.os = "release"
                  /\ d.keys = c.keys /\ d.buttons = c.buttons
           /\ LET d == Unpark(c)
              IN  /\ d \in Working /\ d.me = c.me /\ d.layout = c.layout
                  /\ d.peer = c.peer /\ d.out.os = "unpark"
                  /\ d.keys = c.keys /\ d.buttons = c.buttons
<1> DEFINE oc == [c.out EXCEPT !.os = "capture"]
           or == [c.out EXCEPT !.os = "release", !.warp = x]
           ou == [c.out EXCEPT !.os = "unpark"]
<1>1. c.out \in Output
  BY DEF Working, ControllerWith
<1>2. /\ Capture(c) = [c EXCEPT !.out = oc]
      /\ Release(c, x) = [c EXCEPT !.out = or]
      /\ Unpark(c) = [c EXCEPT !.out = ou]
  BY <1>1 DEF Capture, Release, Unpark, Working, ControllerWith, Output
<1>3. /\ oc \in Output /\ oc.os = "capture"
      /\ or \in Output /\ or.os = "release"
      /\ ou \in Output /\ ou.os = "unpark"
  BY <1>1 DEF Output
<1> HIDE DEF oc, or, ou
<1> QED
  BY <1>2, <1>3 DEF Working, ControllerWith

LEMMA DropRoutesStays ==
    ASSUME NEW c \in Working, NEW p
    PROVE  LET d == DropRoutes(c, p)
           IN  /\ Stays(c, d)
               /\ d.seq = c.seq /\ d.cursor = c.cursor /\ d.home = c.home
               /\ d.idle = c.idle /\ d.watcher = c.watcher
               /\ d.keys = [k \in Key |-> IF c.keys[k] = p THEN "dropped" ELSE c.keys[k]]
               /\ d.buttons = [b \in Button |->
                    IF c.buttons[b] = p THEN "dropped" ELSE c.buttons[b]]
<1> DEFINE ks == [k \in Key |-> IF c.keys[k] = p THEN "dropped" ELSE c.keys[k]]
           bs == [b \in Button |-> IF c.buttons[b] = p THEN "dropped" ELSE c.buttons[b]]
<1>1. c.keys \in [Key -> Route] /\ c.buttons \in [Button -> Route]
  BY DEF Working, ControllerWith
<1>2. ks \in [Key -> Route] /\ bs \in [Button -> Route]
  BY <1>1 DEF Route
<1>3. DropRoutes(c, p) = [c EXCEPT !.keys = ks, !.buttons = bs]
  BY <1>1 DEF DropRoutes
<1> HIDE DEF ks, bs
<1>4. LET d == [c EXCEPT !.keys = ks, !.buttons = bs]
      IN  /\ Stays(c, d)
          /\ d.seq = c.seq /\ d.cursor = c.cursor /\ d.home = c.home
          /\ d.idle = c.idle /\ d.watcher = c.watcher
          /\ d.keys = ks /\ d.buttons = bs
  BY <1>2 DEF Stays, Working, ControllerWith
<1> QED
  BY <1>3, <1>4 DEF ks, bs

LEMMA DroppedKept ==
    ASSUME NEW c \in Working, NEW p \in Machine
    PROVE  RoutesKept(c, DropRoutes(c, p))
<1> DEFINE d == DropRoutes(c, p)
<1>1. /\ d.keys = [k \in Key |-> IF c.keys[k] = p THEN "dropped" ELSE c.keys[k]]
      /\ d.buttons = [b \in Button |->
            IF c.buttons[b] = p THEN "dropped" ELSE c.buttons[b]]
  BY DropRoutesStays
<1> HIDE DEF d
<1>2. RoutesKept(c, d)
  BY <1>1 DEF RoutesKept
<1> QED
  BY <1>2 DEF d

LEMMA KeptTrans ==
    ASSUME NEW c, NEW d, NEW e, RoutesKept(c, d), RoutesKept(d, e)
    PROVE  RoutesKept(c, e)
<1>1. "dropped" \notin Machine
  BY ControllerAssumption
<1>2. \A k \in Key : e.keys[k] = c.keys[k]
                     \/ (c.keys[k] \in Machine /\ e.keys[k] = "dropped")
  BY <1>1 DEF RoutesKept
<1>3. \A b \in Button : e.buttons[b] = c.buttons[b]
                        \/ (c.buttons[b] \in Machine /\ e.buttons[b] = "dropped")
  BY <1>1 DEF RoutesKept
<1> QED
  BY <1>2, <1>3 DEF RoutesKept

LEMMA SameRoutesKept ==
    ASSUME NEW c, NEW d, d.keys = c.keys, d.buttons = c.buttons
    PROVE  RoutesKept(c, d)
BY DEF RoutesKept

LEMMA StaysTrans ==
    ASSUME NEW c, NEW d, NEW e, Stays(c, d), Stays(d, e)
    PROVE  Stays(c, e)
BY DEF Stays

LEMMA NoPushType == NoPush \in [to : Machine \union {NoMachine}, dir : Dir, far : Nat]
BY DEF NoPush, Dir

LEMMA PlaceFacts ==
    /\ 1 \in Place /\ Width \in Place /\ (Width + 1) \div 2 \in Place
    /\ \A x : Clamp(x) \in Place \/ x \notin Int
    /\ \A dir : Entry(dir) \in Place
BY ControllerAssumption DEF Place, Clamp, Entry

LEMMA AccumulateStays ==
    ASSUME NEW c \in Working, NEW to \in Machine, NEW dir \in Dir, NEW expired
    PROVE  LET d == AccumulatePush(c, to, dir, expired)
           IN  /\ Stays(c, d)
               /\ d.keys = c.keys /\ d.buttons = c.buttons
               /\ d.cursor = c.cursor /\ d.home = c.home /\ d.idle = c.idle
<1> DEFINE far == PushSoFar(c, to, dir, expired)
           push == IF Crosses(c, to, dir, expired) THEN NoPush
                   ELSE [to |-> to, dir |-> dir, far |-> far]
<1>1. c.push.far \in Nat
  BY DEF Working, ControllerWith
<1>2. far \in Nat
  BY <1>1 DEF PushSoFar
<1> HIDE DEF far
<1>3. push \in [to : Machine \union {NoMachine}, dir : Dir, far : Nat]
  BY <1>2, NoPushType
<1>4. AccumulatePush(c, to, dir, expired) = [c EXCEPT !.push = push]
  BY DEF AccumulatePush, far
<1> HIDE DEF push
<1> QED
  BY <1>3, <1>4 DEF Stays, Working, ControllerWith

LEMMA ReportStays ==
    ASSUME NEW c \in Working, NEW pos \in Place, NEW recent
    PROVE  LET d == ReportMotion(c, pos, recent)
           IN  Stays(c, d) /\ d.keys = c.keys /\ d.buttons = c.buttons
<1> DEFINE w == [to |-> c.watcher, pos |-> pos]
           e == Datagram(c, c.watcher, "Pointer", pos)
<1>1. c.watcher \in Machine \union {NoMachine}
  BY DEF Working, ControllerWith
<1>2. w \in [to : Machine \union {NoMachine}, pos : Place]
      /\ NoReport \in [to : Machine \union {NoMachine}, pos : Place]
  BY <1>1, PlaceFacts DEF NoReport
<1>3. c.watcher # NoMachine => Stays(c, e) /\ e.keys = c.keys /\ e.buttons = c.buttons
  BY <1>1, DatagramStays
<1> HIDE DEF w, e
<1>4. LET d == [c EXCEPT !.waiting = NoReport]
      IN  Stays(c, d) /\ d.keys = c.keys /\ d.buttons = c.buttons
  BY <1>2 DEF Stays, Working, ControllerWith
<1>5. LET d == [c EXCEPT !.waiting = w]
      IN  Stays(c, d) /\ d.keys = c.keys /\ d.buttons = c.buttons
  BY <1>2 DEF Stays, Working, ControllerWith
<1>6. c.watcher # NoMachine =>
        LET d == [e EXCEPT !.paced = TRUE, !.waiting = NoReport]
        IN  Stays(c, d) /\ d.keys = c.keys /\ d.buttons = c.buttons
  BY <1>2, <1>3 DEF Stays, Working, ControllerWith
<1> QED
  BY <1>4, <1>5, <1>6 DEF ReportMotion, w, e

LEMMA WaitingStays ==
    ASSUME NEW c \in Working
    PROVE  LET d == SendWaitingReport(c)
           IN  Stays(c, d) /\ d.keys = c.keys /\ d.buttons = c.buttons
<1>1. /\ c.waiting.to \in Machine \union {NoMachine} /\ c.waiting.pos \in Place
      /\ NoReport \in [to : Machine \union {NoMachine}, pos : Place]
  BY PlaceFacts DEF Working, ControllerWith, NoReport
<1>2. LET d == [c EXCEPT !.waiting = NoReport]
      IN  Stays(c, d) /\ d.keys = c.keys /\ d.buttons = c.buttons
  BY <1>1 DEF Stays, Working, ControllerWith
<1> DEFINE e == [c EXCEPT !.waiting = NoReport, !.paced = TRUE]
<1>3. Stays(c, e) /\ e.keys = c.keys /\ e.buttons = c.buttons /\ e \in Working
  BY <1>1 DEF Stays, Working, ControllerWith
<1> HIDE DEF e
<1> DEFINE f == Datagram(e, c.waiting.to, "Pointer", c.waiting.pos)
<1>4. c.waiting.to # NoMachine => Stays(c, f) /\ f.keys = c.keys /\ f.buttons = c.buttons
  <2>1. c.waiting.to # NoMachine => Stays(e, f) /\ f.keys = e.keys /\ f.buttons = e.buttons
    BY <1>1, <1>3, DatagramStays
  <2> HIDE DEF f
  <2> QED
    BY <1>3, <2>1, StaysTrans
<1> QED
  BY <1>2, <1>4 DEF SendWaitingReport, e

LEMMA EnterMsgType ==
    /\ \A s \in SeqNo, x \in Place : EnterMsg(s, x) \in InputMsg
    /\ LeaveMsg \in InputMsg
    /\ \A k \in Key, down \in BOOLEAN : KeyMsg(k, down) \in InputMsg
    /\ \A b \in Button, down \in BOOLEAN, x \in Place : ButtonMsg(b, down, x) \in InputMsg
BY DEF InputMsg, EnterMsg, LeaveMsg, KeyMsg, ButtonMsg

LEMMA ResumeStays ==
    ASSUME NEW c \in Working
    PROVE  LET d == Resume(c)
           IN  /\ Stays(c, d)
               /\ d.keys = c.keys /\ d.buttons = c.buttons
               /\ d.cursor = c.cursor /\ d.home = c.home
<1> DEFINE s == NextSeq(c.seq)
           e == Send(c, c.peer, EnterMsg(s, c.cursor))
<1>1. c.seq \in SeqNo /\ c.cursor \in Place /\ c.peer \in Machine \union {NoMachine}
      /\ Stays(c, c)
  BY DEF Working, ControllerWith, Stays
<1>2. s \in SeqNo
  BY <1>1, NextSeqType
<1> HIDE DEF s
<1>3. c.peer # NoMachine =>
        /\ Stays(c, e) /\ e.keys = c.keys /\ e.buttons = c.buttons
        /\ e.cursor = c.cursor /\ e.home = c.home
  BY <1>1, <1>2, EnterMsgType, SendStays
<1> HIDE DEF e
<1>4. c.peer # NoMachine =>
        LET d == [e EXCEPT !.seq = s, !.idle = FALSE]
        IN  /\ Stays(c, d)
            /\ d.keys = c.keys /\ d.buttons = c.buttons
            /\ d.cursor = c.cursor /\ d.home = c.home
  BY <1>2, <1>3 DEF Stays, Working, ControllerWith
<1> QED
  BY <1>1, <1>4 DEF Resume, IsLocal, e, s

LEMMA EnterPeerMoves ==
    ASSUME NEW c \in Working, NEW p \in Machine, NEW entry \in Place, NEW home \in Place
    PROVE  LET d == EnterPeer(c, p, entry, home)
           IN  /\ d \in Working /\ d.me = c.me /\ d.layout = c.layout
               /\ d.peer = p /\ d.out.os = c.out.os
               /\ d.keys = c.keys /\ d.buttons = c.buttons
<1> DEFINE s == NextSeq(c.seq)
           e == Send(c, p, EnterMsg(s, entry))
<1>1. s \in SeqNo
  BY NextSeqType DEF Working, ControllerWith
<1> HIDE DEF s
<1>2. Stays(c, e) /\ e.keys = c.keys /\ e.buttons = c.buttons
  BY <1>1, EnterMsgType, SendStays
<1> HIDE DEF e
<1>3. EnterPeer(c, p, entry, home) =
        [e EXCEPT !.seq = s, !.peer = p, !.cursor = entry, !.home = home,
                  !.idle = FALSE, !.watcher = NoMachine]
  BY DEF EnterPeer, e, s
<1>4. LET d == [e EXCEPT !.seq = s, !.peer = p, !.cursor = entry, !.home = home,
                         !.idle = FALSE, !.watcher = NoMachine]
      IN  /\ d \in Working /\ d.me = e.me /\ d.layout = e.layout
          /\ d.peer = p /\ d.out.os = e.out.os
          /\ d.keys = e.keys /\ d.buttons = e.buttons
  BY <1>1, <1>2 DEF Stays, Working, ControllerWith
<1> QED
  BY <1>2, <1>3, <1>4 DEF Stays

LEMMA LeavePeerStays ==
    ASSUME NEW c \in Working, NEW p \in Machine
    PROVE  LET d == LeavePeer(c, p)
           IN  Stays(c, d) /\ RoutesKept(c, d) /\ d.home = c.home
<1> DEFINE e == Send(c, p, LeaveMsg)
<1>1. /\ Stays(c, e) /\ e.keys = c.keys /\ e.buttons = c.buttons
      /\ e.home = c.home /\ e \in Working
  BY EnterMsgType, SendStays, SMTT(30) DEF Stays
<1> HIDE DEF e
<1>2. RoutesKept(e, DropRoutes(e, p)) /\ Stays(e, DropRoutes(e, p))
      /\ DropRoutes(e, p).home = e.home
  BY <1>1, DroppedKept, DropRoutesStays
<1>3. RoutesKept(c, DropRoutes(e, p))
  BY <1>1, <1>2, SameRoutesKept, KeptTrans
<1> QED
  BY <1>1, <1>2, <1>3, StaysTrans DEF LeavePeer, e

LEMMA ToLocalMoves ==
    ASSUME NEW c \in Working
    PROVE  LET d == ToLocal(c)
           IN  /\ d \in Working /\ d.me = c.me /\ d.layout = c.layout
               /\ d.peer = NoMachine /\ d.out.os = c.out.os
               /\ d.keys = c.keys /\ d.buttons = c.buttons
BY PlaceFacts DEF ToLocal, Working, ControllerWith

LEMMA CameHomeStays ==
    ASSUME NEW c \in Working, NEW p \in Machine, NEW pos \in Place
    PROVE  LET d == CameHome(c, p, pos)
           IN  Stays(c, d) /\ d.keys = c.keys /\ d.buttons = c.buttons
<1> DEFINE e == [c EXCEPT !.watcher = p, !.last = pos]
<1>1. Stays(c, e) /\ e.keys = c.keys /\ e.buttons = c.buttons /\ e \in Working
  BY DEF Stays, Working, ControllerWith
<1> HIDE DEF e
<1>2. LET d == Datagram(e, p, "Pointer", pos)
      IN  Stays(e, d) /\ d.keys = e.keys /\ d.buttons = e.buttons
  BY <1>1, DatagramStays
<1> DEFINE d == Datagram(e, p, "Pointer", pos)
<1> HIDE DEF d
<1>3. Stays(c, d) /\ d.keys = c.keys /\ d.buttons = c.buttons
  BY <1>1, <1>2, StaysTrans DEF d
<1> QED
  BY <1>3 DEF CameHome, d, e

(***************************************************************************)
(* The controller's handlers, from a controller between events.  PinRight  *)
(* says that they hold the OS pointer as the pointer leaves, and let it go *)
(* as it comes home.                                                       *)
(***************************************************************************)
PinRight(c, d) ==
    \/ d.out.os = "keep" /\ (IsLocal(d) <=> IsLocal(c))
    \/ d.out.os = "capture" /\ ~IsLocal(d)
    \/ d.out.os \in {"release", "unpark"} /\ IsLocal(d)

OnDesk(c) == c.peer \in c.layout \union {NoMachine}

Turns(c, d) ==
    /\ d \in Working /\ d.me = c.me
    /\ PinRight(c, d)
    /\ OnDesk(d)
    /\ RoutesKept(c, d)

LEMMA AtRest ==
    ASSUME NEW c \in ControllerState
    PROVE  c \in Working /\ c.out = Nothing /\ c.out.os = "keep"
BY StateIsWorking DEF ControllerState, ControllerWith, Nothing

LEMMA StaysTurns ==
    ASSUME NEW c \in ControllerState, OnDesk(c), NEW d, Stays(c, d), RoutesKept(c, d)
    PROVE  Turns(c, d)
BY AtRest DEF Turns, Stays, PinRight, OnDesk, IsLocal

LEMMA NeighbourType ==
    ASSUME NEW c \in Working, NEW m \in Machine, NEW dir \in Dir
    PROVE  LET n == Neighbour(c, m, dir)
           IN  /\ n \in c.layout \union {c.me, NoMachine}
               /\ n \in Machine \union {NoMachine}
               /\ n # NoMachine => n # m
BY ControllerAssumption DEF Neighbour, Working, ControllerWith

LEMMA LocalMotionTurns ==
    ASSUME NEW c \in ControllerState, OnDesk(c), IsLocal(c), NEW pos \in Place,
           NEW dir \in Dir, NEW expired, NEW recent
    PROVE  LET d == LocalMotion(c, pos, dir, expired, recent)
           IN  /\ Turns(c, d) /\ d.layout = c.layout
               /\ SwitchBlocked(c) => d.peer = c.peer
<1> DEFINE c1 == [c EXCEPT !.last = pos]
           r  == ReportMotion(c1, pos, recent)
           to == IF AtEdge(pos, dir) THEN Neighbour(c, c.me, dir) ELSE NoMachine
           a  == AccumulatePush(r, to, dir, expired)
           e  == EnterPeer(a, to, Entry(dir), pos)
           n  == [r EXCEPT !.push = NoPush]
           d  == LocalMotion(c, pos, dir, expired, recent)
<1>0. c \in Working /\ c.out.os = "keep" /\ c.me \in Machine
  BY AtRest DEF Working, ControllerWith
<1>1. c1 \in Working /\ Stays(c, c1) /\ c1.keys = c.keys /\ c1.buttons = c.buttons
  BY <1>0 DEF Stays, Working, ControllerWith
<1> HIDE DEF c1
<1>2. r \in Working /\ Stays(c, r) /\ r.keys = c.keys /\ r.buttons = c.buttons
  BY <1>1, ReportStays, StaysTrans DEF Stays
<1> HIDE DEF r
<1>3. /\ to \in Machine \union {NoMachine}
      /\ to # NoMachine => to \in c.layout
  BY <1>0, NeighbourType
<1> HIDE DEF to
<1>4. d = IF to = NoMachine THEN n
          ELSE IF ~Crosses(c, to, dir, expired) \/ SwitchBlocked(c) THEN a
          ELSE Capture(e)
  BY DEF LocalMotion, d, to, r, c1
<1>5. Stays(c, n) /\ n.keys = c.keys /\ n.buttons = c.buttons
  BY <1>2, NoPushType DEF Stays, Working, ControllerWith
<1>6. to # NoMachine => a \in Working /\ Stays(c, a) /\ a.keys = c.keys /\ a.buttons = c.buttons
  BY <1>2, <1>3, AccumulateStays, StaysTrans DEF Stays
<1> HIDE DEF a, n
<1>7. to # NoMachine =>
        /\ e \in Working /\ e.me = c.me /\ e.layout = c.layout /\ e.peer = to
        /\ e.keys = c.keys /\ e.buttons = c.buttons
  BY <1>3, <1>6, EnterPeerMoves, PlaceFacts, SMTT(30) DEF Stays
<1> HIDE DEF e
<1>8. to # NoMachine =>
        LET f == Capture(e)
        IN  /\ f \in Working /\ f.me = c.me /\ f.layout = c.layout /\ f.peer = to
            /\ f.keys = c.keys /\ f.buttons = c.buttons /\ f.out.os = "capture"
  BY <1>7, PointerActions, PlaceFacts
<1> DEFINE f == Capture(e)
<1> HIDE DEF f, d
<1>9. to # NoMachine => Turns(c, f) /\ f.layout = c.layout
  BY <1>3, <1>8, SameRoutesKept DEF Turns, PinRight, OnDesk, IsLocal, f
<1>10. Turns(c, n) /\ n.layout = c.layout /\ n.peer = c.peer
  BY <1>5, StaysTurns, SameRoutesKept DEF Stays
<1>11. to # NoMachine => Turns(c, a) /\ a.layout = c.layout /\ a.peer = c.peer
  BY <1>6, StaysTurns, SameRoutesKept DEF Stays
<1>12. Turns(c, d) /\ d.layout = c.layout /\ (SwitchBlocked(c) => d.peer = c.peer)
  BY <1>4, <1>9, <1>10, <1>11 DEF f
<1> QED
  BY <1>12 DEF d

LEMMA MoveOnTurns ==
    ASSUME NEW c \in ControllerState, ~IsLocal(c), NEW b \in Working, Stays(c, b),
           RoutesKept(c, b),
           NEW to \in c.layout \union {c.me}, NEW entry \in Place
    PROVE  LET d == MoveOn(b, to, entry) IN Turns(c, d) /\ d.layout = c.layout
<1> DEFINE l == LeavePeer(b, b.peer)
           h == ToLocal(l)
           r == Release(h, entry)
           g == CameHome(r, b.peer, entry)
           e == EnterPeer(l, to, entry, b.home)
           d == MoveOn(b, to, entry)
<1>0. /\ c \in Working /\ c.out.os = "keep" /\ b.peer \in Machine /\ b.peer = c.peer
      /\ b.home \in Place /\ to \in Machine /\ b.me = c.me
  BY AtRest DEF Working, ControllerWith, IsLocal, Stays
<1>1. l \in Working /\ Stays(c, l) /\ RoutesKept(c, l)
  BY <1>0, LeavePeerStays, StaysTrans, KeptTrans DEF Stays
<1> HIDE DEF l
<1>2. /\ h \in Working /\ h.me = c.me /\ h.layout = c.layout /\ h.peer = NoMachine
      /\ h.keys = l.keys /\ h.buttons = l.buttons
  BY <1>1, ToLocalMoves DEF Stays
<1> HIDE DEF h
<1>3. /\ r \in Working /\ r.me = c.me /\ r.layout = c.layout /\ r.peer = NoMachine
      /\ r.out.os = "release" /\ r.keys = l.keys /\ r.buttons = l.buttons
  BY <1>2, PointerActions
<1> HIDE DEF r
<1>4. Stays(r, g) /\ g.keys = l.keys /\ g.buttons = l.buttons
  BY <1>0, <1>3, CameHomeStays
<1> HIDE DEF g
<1>5. Turns(c, g) /\ g.layout = c.layout
  BY <1>1, <1>3, <1>4, SameRoutesKept, KeptTrans
     DEF Turns, PinRight, OnDesk, IsLocal, Stays
<1>6. /\ e \in Working /\ e.me = c.me /\ e.layout = c.layout /\ e.peer = to
      /\ e.out.os = "keep" /\ e.keys = l.keys /\ e.buttons = l.buttons
  BY <1>0, <1>1, EnterPeerMoves, SMTT(30) DEF Stays
<1> HIDE DEF e
<1>7. to # c.me => Turns(c, e) /\ e.layout = c.layout
  <2>1. to # NoMachine
    BY <1>0, ControllerAssumption
  <2>2. RoutesKept(c, e)
    BY <1>1, <1>6, SameRoutesKept, KeptTrans
  <2> QED
    BY <1>6, <2>1, <2>2 DEF Turns, PinRight, OnDesk, IsLocal
<1>8. d = IF to = b.me THEN g ELSE e
  BY DEF MoveOn, g, r, h, e, l
<1> HIDE DEF d
<1>9. Turns(c, d) /\ d.layout = c.layout
  BY <1>0, <1>5, <1>7, <1>8
<1> QED
  BY <1>9 DEF d

LEMMA CapturedMotionTurns ==
    ASSUME NEW c \in ControllerState, OnDesk(c), NEW dir \in Dir, NEW expired
    PROVE  LET d == CapturedMotion(c, dir, expired)
           IN  /\ Turns(c, d) /\ d.layout = c.layout
               /\ SwitchBlocked(c) => d.peer = c.peer
<1> DEFINE b == Resume(c)
           wanted == Step(b.cursor, dir)
           to == Neighbour(b, b.peer, dir)
           n  == [b EXCEPT !.push = NoPush]
           w  == [b EXCEPT !.push = NoPush, !.cursor = wanted]
           t  == Datagram(w, b.peer, "Motion", wanted)
           a  == AccumulatePush(b, to, dir, expired)
           e  == MoveOn(a, to, Entry(dir))
           d  == CapturedMotion(c, dir, expired)
<1>0. c \in Working /\ c.out.os = "keep" /\ c.me \in Machine
      /\ c.peer \in Machine \union {NoMachine}
  BY AtRest DEF Working, ControllerWith
<1>1. b \in Working /\ Stays(c, b) /\ b.keys = c.keys /\ b.buttons = c.buttons
  BY <1>0, ResumeStays DEF Stays
<1>2. SwitchBlocked(b) <=> SwitchBlocked(c)
  BY <1>1 DEF SwitchBlocked
<1> HIDE DEF b
<1>3. ~IsLocal(c) =>
        /\ to \in Machine \union {NoMachine}
        /\ to # NoMachine => to \in c.layout \union {c.me}
  BY <1>0, <1>1, NeighbourType DEF IsLocal, Stays
<1> HIDE DEF to, wanted
<1>4. d = IF IsLocal(b) THEN b
          ELSE IF wanted \in Place THEN t
          ELSE IF to = NoMachine THEN n
          ELSE IF ~Crosses(b, to, dir, expired) \/ SwitchBlocked(b) THEN a
          ELSE e
  BY DEF CapturedMotion, b, to, wanted
<1>5. Stays(c, n) /\ n.keys = c.keys /\ n.buttons = c.buttons
  BY <1>1, NoPushType DEF Stays, Working, ControllerWith
<1>6. wanted \in Place /\ ~IsLocal(c) => Stays(c, t) /\ t.keys = c.keys /\ t.buttons = c.buttons
  <2>1. wanted \in Place => w \in Working /\ Stays(c, w) /\ w.keys = c.keys /\ w.buttons = c.buttons
    BY <1>1, NoPushType DEF Stays, Working, ControllerWith
  <2>2. ~IsLocal(c) => b.peer \in Machine
    BY <1>0, <1>1 DEF Stays, IsLocal
  <2> HIDE DEF w
  <2> QED
    BY <2>1, <2>2, DatagramStays, StaysTrans
<1>7. to # NoMachine /\ ~IsLocal(c) =>
        a \in Working /\ Stays(c, a) /\ a.keys = c.keys /\ a.buttons = c.buttons
  BY <1>1, <1>3, AccumulateStays, StaysTrans DEF Stays
<1> HIDE DEF a, n, t
<1>8. to # NoMachine /\ ~IsLocal(c) => Turns(c, e) /\ e.layout = c.layout
  BY <1>3, <1>7, MoveOnTurns, PlaceFacts, SameRoutesKept
<1> HIDE DEF e, d
<1>9. IsLocal(b) <=> IsLocal(c)
  BY <1>1 DEF IsLocal, Stays
<1>10. \A x : Stays(c, x) /\ x.keys = c.keys /\ x.buttons = c.buttons
                => Turns(c, x) /\ x.layout = c.layout /\ x.peer = c.peer
  BY StaysTurns, SameRoutesKept DEF Stays
<1>11. Turns(c, d) /\ d.layout = c.layout /\ (SwitchBlocked(c) => d.peer = c.peer)
  BY <1>1, <1>2, <1>4, <1>5, <1>6, <1>7, <1>8, <1>9, <1>10
<1> QED
  BY <1>11 DEF d

(***************************************************************************)
(* Keys and buttons: routed when they go down, told where they went when   *)
(* they come up.                                                           *)
(***************************************************************************)
LEMMA RouteTypes ==
    ASSUME NEW c \in Working
    PROVE  /\ c.keys \in [Key -> Route] /\ c.buttons \in [Button -> Route]
           /\ CurrentRoute(c) \in {"local"} \union Machine
           /\ CurrentRoute(c) \in Route
           /\ CurrentRoute(c) = "local" <=> IsLocal(c)
           /\ CurrentRoute(c) # "none"
BY ControllerAssumption
   DEF Working, ControllerWith, CurrentRoute, IsLocal, Route

LEMMA SendKeyStays ==
    ASSUME NEW c \in Working, NEW route \in Route, NEW k \in Key, NEW down \in BOOLEAN
    PROVE  LET d == SendKey(c, route, k, down)
           IN  Stays(c, d) /\ d.keys = c.keys /\ d.buttons = c.buttons
<1>1. route \in Machine => Remap[route][k] \in Key
  BY ControllerAssumption
<1>2. route \in Machine => KeyMsg(Remap[route][k], down) \in InputMsg
  BY <1>1, EnterMsgType
<1>3. Stays(c, c)
  BY DEF Stays
<1> QED
  BY <1>2, <1>3, SendStays DEF SendKey

LEMMA PressKeyStays ==
    ASSUME NEW c \in Working, NEW k \in Key
    PROVE  LET d == PressKey(c, k)
           IN  /\ Stays(c, d) /\ d.buttons = c.buttons
               /\ \A j \in Key \ {k} : d.keys[j] = c.keys[j]
               /\ IF c.keys[k] = "none" THEN d.keys[k] = CurrentRoute(c)
                  ELSE d.keys[k] = c.keys[k]
<1> DEFINE b == IF c.keys[k] = "none" THEN Resume(c) ELSE c
           w == [b EXCEPT !.keys[k] = CurrentRoute(b)]
           s == SendKey(w, CurrentRoute(b), k, TRUE)
<1>1. b \in Working /\ Stays(c, b) /\ b.keys = c.keys /\ b.buttons = c.buttons
  BY ResumeStays DEF Stays
<1>2. CurrentRoute(b) = CurrentRoute(c)
  BY <1>1 DEF CurrentRoute, IsLocal, Stays
<1> HIDE DEF b
<1> DEFINE ks == [c.keys EXCEPT ![k] = CurrentRoute(c)]
<1>3. ks \in [Key -> Route]
  BY RouteTypes
<1>4. w = [b EXCEPT !.keys = ks]
  BY <1>1, <1>2
<1> HIDE DEF ks, w
<1>5. w \in Working /\ Stays(c, w) /\ w.keys = ks /\ w.buttons = c.buttons
  BY <1>1, <1>3, <1>4 DEF Stays, Working, ControllerWith
<1>6. Stays(c, s) /\ s.keys = ks /\ s.buttons = c.buttons
  BY <1>2, <1>5, RouteTypes, SendKeyStays, StaysTrans
<1>7. PressKey(c, k) = IF c.keys[k] # "none" THEN b ELSE s
  BY <1>1 DEF PressKey, s, w, b
<1> HIDE DEF s
<1>8. \A j \in Key : ks[j] = IF j = k THEN CurrentRoute(c) ELSE c.keys[j]
  BY RouteTypes DEF ks
<1> QED
  BY <1>1, <1>6, <1>7, <1>8

LEMMA ReleaseKeyStays ==
    ASSUME NEW c \in Working, NEW k \in Key
    PROVE  LET d == ReleaseKey(c, k)
           IN  /\ Stays(c, d) /\ d.buttons = c.buttons
               /\ \A j \in Key : d.keys[j] = IF j = k THEN "none" ELSE c.keys[j]
<1> DEFINE ks == [c.keys EXCEPT ![k] = "none"]
           w == [c EXCEPT !.keys[k] = "none"]
<1>1. /\ ks \in [Key -> Route] /\ c.keys[k] \in Route
      /\ \A j \in Key : ks[j] = IF j = k THEN "none" ELSE c.keys[j]
  BY RouteTypes DEF Route
<1>2. w = [c EXCEPT !.keys = ks]
  OBVIOUS
<1> HIDE DEF ks, w
<1>3. w \in Working /\ Stays(c, w) /\ w.keys = ks /\ w.buttons = c.buttons
  BY <1>1, <1>2 DEF Stays, Working, ControllerWith
<1> QED
  BY <1>1, <1>3, SendKeyStays, StaysTrans DEF ReleaseKey, w

LEMMA SendButtonStays ==
    ASSUME NEW c \in Working, NEW route \in Route, NEW b \in Button, NEW down \in BOOLEAN
    PROVE  LET d == SendButton(c, route, b, down)
           IN  Stays(c, d) /\ d.keys = c.keys /\ d.buttons = c.buttons
<1>1. (IF c.peer = route THEN c.cursor ELSE 1) \in Place
  BY PlaceFacts DEF Working, ControllerWith
<1>2. ButtonMsg(b, down, IF c.peer = route THEN c.cursor ELSE 1) \in InputMsg
  BY <1>1, EnterMsgType
<1>3. Stays(c, c)
  BY DEF Stays
<1> QED
  BY <1>2, <1>3, SendStays DEF SendButton

LEMMA PressButtonStays ==
    ASSUME NEW c \in Working, NEW b \in Button
    PROVE  LET d == PressButton(c, b)
           IN  /\ Stays(c, d) /\ d.keys = c.keys
               /\ \A j \in Button : d.buttons[j] = IF j = b THEN CurrentRoute(c)
                                                   ELSE c.buttons[j]
<1> DEFINE r == Resume(c)
           w == [r EXCEPT !.buttons[b] = CurrentRoute(r)]
           bs == [c.buttons EXCEPT ![b] = CurrentRoute(c)]
<1>1. r \in Working /\ Stays(c, r) /\ r.keys = c.keys /\ r.buttons = c.buttons
  BY ResumeStays DEF Stays
<1>2. CurrentRoute(r) = CurrentRoute(c)
  BY <1>1 DEF CurrentRoute, IsLocal, Stays
<1> HIDE DEF r
<1>3. /\ bs \in [Button -> Route]
      /\ \A j \in Button : bs[j] = IF j = b THEN CurrentRoute(c) ELSE c.buttons[j]
  BY RouteTypes
<1>4. w = [r EXCEPT !.buttons = bs]
  BY <1>1, <1>2
<1> HIDE DEF bs, w
<1>5. w \in Working /\ Stays(c, w) /\ w.keys = c.keys /\ w.buttons = bs
  BY <1>1, <1>3, <1>4 DEF Stays, Working, ControllerWith
<1> DEFINE d == SendButton(w, CurrentRoute(c), b, TRUE)
<1>6. Stays(w, d) /\ d.keys = w.keys /\ d.buttons = w.buttons
  BY <1>5, RouteTypes, SendButtonStays
<1> HIDE DEF d
<1>7. Stays(c, d) /\ d.keys = c.keys /\ d.buttons = bs
  BY <1>5, <1>6, StaysTrans
<1>8. PressButton(c, b) = d
  BY <1>2 DEF PressButton, d, w, r
<1> QED
  BY <1>3, <1>7, <1>8

LEMMA ReleaseButtonStays ==
    ASSUME NEW c \in Working, NEW b \in Button
    PROVE  LET d == ReleaseButton(c, b)
           IN  /\ Stays(c, d) /\ d.keys = c.keys
               /\ \A j \in Button : d.buttons[j] = IF j = b THEN "none" ELSE c.buttons[j]
<1> DEFINE bs == [c.buttons EXCEPT ![b] = "none"]
           w == [c EXCEPT !.buttons[b] = "none"]
           to == IF c.buttons[b] = "none" THEN CurrentRoute(c) ELSE c.buttons[b]
<1>1. /\ bs \in [Button -> Route] /\ to \in Route
      /\ \A j \in Button : bs[j] = IF j = b THEN "none" ELSE c.buttons[j]
  BY RouteTypes DEF Route
<1>2. w = [c EXCEPT !.buttons = bs]
  OBVIOUS
<1> HIDE DEF bs, w, to
<1>3. w \in Working /\ Stays(c, w) /\ w.buttons = bs /\ w.keys = c.keys
  BY <1>1, <1>2 DEF Stays, Working, ControllerWith
<1> QED
  BY <1>1, <1>3, SendButtonStays, StaysTrans DEF ReleaseButton, w, to

-----------------------------------------------------------------------------

(***************************************************************************)
(* What peers do.                                                          *)
(***************************************************************************)
LEMMA YieldTurns ==
    ASSUME NEW c \in ControllerState, OnDesk(c), NEW p \in Machine
    PROVE  LET d == PeerYield(c, p) IN Turns(c, d) /\ d.layout = c.layout
<1> DEFINE w == IF c.peer = p THEN [c EXCEPT !.idle = TRUE, !.push = NoPush] ELSE c
<1>1. w \in Working /\ Stays(c, w) /\ w.keys = c.keys /\ w.buttons = c.buttons
  BY AtRest, NoPushType DEF Stays, Working, ControllerWith
<1> HIDE DEF w
<1>2. Stays(c, DropRoutes(w, p)) /\ RoutesKept(c, DropRoutes(w, p))
  BY <1>1, DropRoutesStays, DroppedKept, StaysTrans, SameRoutesKept, KeptTrans
<1> QED
  BY <1>2, StaysTurns DEF PeerYield, w, Stays

LEMMA ExitTurns ==
    ASSUME NEW c \in ControllerState, NEW b \in Working, b.me = c.me,
           b.out.os = "keep", b.keys = c.keys, b.buttons = c.buttons,
           b.peer = c.peer, ~IsLocal(c), NEW notify \in BOOLEAN
    PROVE  LET d == ExitToLocal(b, notify)
           IN  /\ d \in Working /\ d.me = c.me /\ d.layout = b.layout
               /\ d.peer = NoMachine /\ d.out.os = "release" /\ RoutesKept(c, d)
<1> DEFINE l == IF notify THEN LeavePeer(b, b.peer) ELSE b
           h == ToLocal(l)
           n == [h EXCEPT !.push = NoPush]
           d == ExitToLocal(b, notify)
<1>0. b.peer \in Machine /\ b.home \in Place /\ ~IsLocal(b)
  BY AtRest DEF Working, ControllerWith, IsLocal
<1>1. l \in Working /\ l.me = c.me /\ l.layout = b.layout /\ RoutesKept(c, l)
  BY <1>0, LeavePeerStays, SameRoutesKept, KeptTrans DEF Stays
<1> HIDE DEF l
<1>2. /\ h \in Working /\ h.me = c.me /\ h.layout = b.layout /\ h.peer = NoMachine
      /\ h.keys = l.keys /\ h.buttons = l.buttons
  BY <1>1, ToLocalMoves
<1> HIDE DEF h
<1>3. /\ n \in Working /\ n.me = c.me /\ n.layout = b.layout /\ n.peer = NoMachine
      /\ n.keys = l.keys /\ n.buttons = l.buttons
  BY <1>2, NoPushType DEF Working, ControllerWith
<1>4. d = Release(n, b.home)
  BY <1>0 DEF ExitToLocal, n, h, l
<1> HIDE DEF n, d
<1>5. /\ d \in Working /\ d.me = c.me /\ d.layout = b.layout /\ d.peer = NoMachine
      /\ d.out.os = "release" /\ d.keys = l.keys /\ d.buttons = l.buttons
  BY <1>0, <1>3, <1>4, PointerActions
<1>6. RoutesKept(c, d)
  BY <1>1, <1>5, SameRoutesKept, KeptTrans
<1> QED
  BY <1>5, <1>6 DEF d

LEMMA LostTurns ==
    ASSUME NEW c \in ControllerState, OnDesk(c), NEW p \in Machine
    PROVE  LET d == PeerLost(c, p) IN Turns(c, d) /\ d.layout = c.layout
<1> DEFINE e == IF c.peer = p THEN ExitToLocal(c, FALSE) ELSE c
<1>0. c \in Working /\ c.out.os = "keep" /\ p # NoMachine
  BY AtRest, ControllerAssumption
<1>1. Turns(c, e) /\ e.layout = c.layout
  <2>1. CASE c.peer = p
    <3>1. ~IsLocal(c)
      BY <1>0, <2>1 DEF IsLocal
    <3> QED
      BY <1>0, <2>1, <3>1, ExitTurns DEF Turns, PinRight, OnDesk, IsLocal
  <2>2. CASE c.peer # p
    BY <1>0, <2>2, SameRoutesKept DEF Turns, PinRight, OnDesk, IsLocal
  <2> QED
    BY <2>1, <2>2
<1> DEFINE g == DropRoutes(e, p)
<1>2. Turns(c, g) /\ g.layout = c.layout
  <2> HIDE DEF e
  <2>1. e \in Working
    BY <1>1 DEF Turns
  <2>2. Stays(e, g) /\ RoutesKept(e, g)
    BY <2>1, DropRoutesStays, DroppedKept
  <2>3. RoutesKept(c, g)
    BY <1>1, <2>2, KeptTrans DEF Turns
  <2> QED
    BY <1>1, <2>2, <2>3 DEF Turns, Stays, PinRight, OnDesk, IsLocal
<1>3. PeerLost(c, p) = [g EXCEPT !.watcher = IF @ = p THEN NoMachine ELSE @,
                                 !.pointer[p] = -1]
  BY DEF PeerLost, g, e
<1> HIDE DEF g
<1> DEFINE v == IF g.watcher = p THEN NoMachine ELSE g.watcher
           qs == [g.pointer EXCEPT ![p] = -1]
           d == [g EXCEPT !.watcher = v, !.pointer = qs]
<1>4. g \in Working /\ v \in Machine \union {NoMachine} /\ qs \in [Machine -> SeqNo \union {-1}]
  BY <1>2 DEF Turns, Working, ControllerWith
<1>5. PeerLost(c, p) = d
  BY <1>3
<1> HIDE DEF v, qs
<1>6. Stays(g, d) /\ d.keys = g.keys /\ d.buttons = g.buttons
  BY <1>4 DEF Stays, Working, ControllerWith
<1>7. RoutesKept(c, d)
  BY <1>2, <1>6, SameRoutesKept, KeptTrans DEF Turns
<1> HIDE DEF d
<1> QED
  BY <1>2, <1>5, <1>6, <1>7 DEF Turns, Stays, PinRight, OnDesk, IsLocal

LEMMA EnteredTurns ==
    ASSUME NEW c \in ControllerState, OnDesk(c), NEW p \in Machine, NEW seq \in SeqNo
    PROVE  LET d == PeerEntered(c, p, seq) IN Turns(c, d) /\ d.layout = c.layout
<1> DEFINE v == IF c.watcher = p THEN NoMachine ELSE c.watcher
           q == IF c.pointer[p] = -1 \/ Newer(seq, c.pointer[p]) THEN seq ELSE c.pointer[p]
           qs == [c.pointer EXCEPT ![p] = q]
           b == [c EXCEPT !.watcher = v, !.pointer = qs]
           h == ToLocal(b)
           n == [h EXCEPT !.push = NoPush]
           d == PeerEntered(c, p, seq)
<1>0. c \in Working /\ c.out.os = "keep"
  BY AtRest
<1>1. v \in Machine \union {NoMachine} /\ c.pointer \in [Machine -> SeqNo \union {-1}]
  BY <1>0 DEF Working, ControllerWith
<1>2. qs \in [Machine -> SeqNo \union {-1}]
  BY <1>1
<1>3. d = IF c.peer = p THEN Unpark(n) ELSE b
  BY <1>0 DEF PeerEntered, Working, ControllerWith
<1> HIDE DEF d, v, qs
<1>4. b \in Working /\ Stays(c, b) /\ b.keys = c.keys /\ b.buttons = c.buttons
  BY <1>0, <1>1, <1>2 DEF Stays, Working, ControllerWith
<1> HIDE DEF b
<1>5. /\ h \in Working /\ h.me = c.me /\ h.layout = c.layout /\ h.peer = NoMachine
      /\ h.keys = c.keys /\ h.buttons = c.buttons
  BY <1>4, ToLocalMoves DEF Stays
<1> HIDE DEF h
<1>6. /\ n \in Working /\ n.me = c.me /\ n.layout = c.layout /\ n.peer = NoMachine
      /\ n.keys = c.keys /\ n.buttons = c.buttons
  BY <1>5, NoPushType DEF Working, ControllerWith
<1> HIDE DEF n
<1> DEFINE u == Unpark(n)
<1>7. /\ u \in Working /\ u.me = c.me /\ u.layout = c.layout /\ u.peer = NoMachine
      /\ u.out.os = "unpark" /\ u.keys = c.keys /\ u.buttons = c.buttons
  BY <1>6, PlaceFacts, PointerActions
<1> HIDE DEF u
<1>8. Turns(c, u)
  BY <1>7, SameRoutesKept DEF Turns, PinRight, OnDesk, IsLocal
<1>9. Turns(c, b) /\ b.layout = c.layout
  BY <1>4, SameRoutesKept, StaysTurns DEF Stays
<1>10. Turns(c, d) /\ d.layout = c.layout
  BY <1>3, <1>7, <1>8, <1>9 DEF u
<1> QED
  BY <1>10 DEF d

LEMMA YieldedToTurns ==
    ASSUME NEW c \in ControllerState, OnDesk(c), NEW p \in Machine
    PROVE  LET d == YieldedTo(c, p) IN Turns(c, d) /\ d.layout = c.layout
<1> DEFINE d == [c EXCEPT !.watcher = p]
<1>1. Stays(c, d) /\ d.keys = c.keys /\ d.buttons = c.buttons
  BY AtRest DEF Stays, Working, ControllerWith
<1> HIDE DEF d
<1>2. Turns(c, d) /\ d.layout = c.layout
  BY <1>1, SameRoutesKept, StaysTurns DEF Stays
<1> QED
  BY <1>2 DEF YieldedTo, d

LEMMA PointerTurns ==
    ASSUME NEW c \in ControllerState, OnDesk(c), NEW p \in Machine, NEW seq \in SeqNo,
           NEW pos \in Place
    PROVE  LET d == PeerPointer(c, p, seq, pos) IN Turns(c, d) /\ d.layout = c.layout
<1> DEFINE b == [c EXCEPT !.pointer[p] = seq]
           i == [b EXCEPT !.cursor = pos]
           a == [b EXCEPT !.push = NoPush, !.peer = p, !.cursor = pos,
                          !.home = c.last, !.idle = TRUE]
           u == Capture(a)
           d == PeerPointer(c, p, seq, pos)
           qs == [c.pointer EXCEPT ![p] = seq]
<1>0. /\ c \in Working /\ c.out.os = "keep" /\ p # NoMachine
      /\ c.last \in Place /\ qs \in [Machine -> SeqNo \union {-1}]
  BY AtRest, ControllerAssumption DEF Working, ControllerWith
<1>1. d = IF c.pointer[p] # -1 /\ ~Newer(seq, c.pointer[p]) THEN c
          ELSE IF p \notin c.layout THEN b
          ELSE IF c.peer = p /\ c.idle THEN i
          ELSE IF IsLocal(c) THEN u
          ELSE b
  BY DEF PeerPointer
<1>2. b = [c EXCEPT !.pointer = qs]
  OBVIOUS
<1> HIDE DEF b, qs, d
<1>3. b \in Working /\ Stays(c, b) /\ b.keys = c.keys /\ b.buttons = c.buttons
  BY <1>0, <1>2 DEF Stays, Working, ControllerWith
<1>4. Stays(c, i) /\ i.keys = c.keys /\ i.buttons = c.buttons
  BY <1>3 DEF Stays, Working, ControllerWith
<1>5. /\ a \in Working /\ a.me = c.me /\ a.layout = c.layout /\ a.peer = p
      /\ a.keys = c.keys /\ a.buttons = c.buttons
  BY <1>0, <1>3, NoPushType DEF Stays, Working, ControllerWith
<1> HIDE DEF i, a
<1>6. /\ u \in Working /\ u.me = c.me /\ u.layout = c.layout /\ u.peer = p
      /\ u.keys = c.keys /\ u.buttons = c.buttons /\ u.out.os = "capture"
  BY <1>5, PlaceFacts, PointerActions
<1> HIDE DEF u
<1>7. p \in c.layout => Turns(c, u)
  BY <1>0, <1>6, SameRoutesKept DEF Turns, PinRight, OnDesk, IsLocal
<1>8. Stays(c, c)
  BY <1>0 DEF Stays
<1>9. \A x : Stays(c, x) /\ x.keys = c.keys /\ x.buttons = c.buttons
               => Turns(c, x) /\ x.layout = c.layout
  BY StaysTurns, SameRoutesKept DEF Stays
<1>10. Turns(c, d) /\ d.layout = c.layout
  BY <1>1, <1>3, <1>4, <1>6, <1>7, <1>8, <1>9
<1> QED
  BY <1>10 DEF d

LEMMA SetLayoutTurns ==
    ASSUME NEW c \in ControllerState, OnDesk(c), NEW peers \in SUBSET Machine
    PROVE  LET d == SetLayout(c, peers) IN Turns(c, d) /\ d.layout = peers
<1> DEFINE b == [c EXCEPT !.layout = peers, !.push = NoPush]
           e == ExitToLocal(b, TRUE)
           g == DropRoutes(e, c.peer)
           d == SetLayout(c, peers)
<1>0. c \in Working /\ c.out.os = "keep" /\ c.peer \in Machine \union {NoMachine}
      /\ NoMachine \notin Machine
  BY AtRest, ControllerAssumption DEF Working, ControllerWith
<1>1. d = IF c.peer \in Machine \ peers THEN g ELSE b
  BY DEF SetLayout
<1> HIDE DEF d
<1>2. /\ b \in Working /\ b.me = c.me /\ b.layout = peers /\ b.peer = c.peer
      /\ b.out.os = "keep" /\ b.keys = c.keys /\ b.buttons = c.buttons
  BY <1>0, NoPushType DEF Working, ControllerWith
<1> HIDE DEF b
<1>3. c.peer \notin Machine \ peers => Turns(c, b)
  BY <1>0, <1>2, SameRoutesKept DEF Turns, PinRight, OnDesk, IsLocal
<1>4. c.peer \in Machine \ peers =>
        /\ e \in Working /\ e.me = c.me /\ e.layout = peers
        /\ e.peer = NoMachine /\ e.out.os = "release" /\ RoutesKept(c, e)
  BY <1>0, <1>2, ExitTurns DEF IsLocal
<1> HIDE DEF e
<1>5. c.peer \in Machine \ peers => Stays(e, g) /\ RoutesKept(c, g)
  BY <1>4, DropRoutesStays, DroppedKept, KeptTrans
<1> HIDE DEF g
<1>6. c.peer \in Machine \ peers => Turns(c, g) /\ g.layout = peers
  BY <1>4, <1>5 DEF Turns, Stays, PinRight, OnDesk, IsLocal
<1>7. Turns(c, d) /\ d.layout = peers
  BY <1>1, <1>2, <1>3, <1>6
<1> QED
  BY <1>7 DEF d

-----------------------------------------------------------------------------

(***************************************************************************)
(* The receiver: its type, and whose input it injects.                     *)
(***************************************************************************)
LEMMA NewReceiverType ==
    ASSUME NEW ks \in SUBSET Key, NEW bs \in SUBSET Button, NEW x \in Place
    PROVE  R!NewReceiver(ks, bs, x) \in R!ReceiverState
           /\ R!NewReceiver(ks, bs, x).driver = NoMachine
BY PlaceFacts, SeqModAssumption
   DEF R!NewReceiver, R!ReceiverState, R!NoClick, R!SeqNo

LEMMA ReleaseAllType ==
    ASSUME NEW r \in R!ReceiverState
    PROVE  R!ReleaseAll(r) \in R!ReceiverState /\ R!ReleaseAll(r).driver = r.driver
BY DEF R!ReleaseAll, R!ReceiverState

LEMMA StopDrivingType ==
    ASSUME NEW r \in R!ReceiverState
    PROVE  R!StopDriving(r) \in R!ReceiverState /\ R!StopDriving(r).driver = r.driver
BY ReleaseAllType DEF R!StopDriving, R!ReceiverState

LEMMA EnterType ==
    ASSUME NEW r \in R!ReceiverState, NEW s \in SeqNo, NEW x \in Place
    PROVE  R!Enter(r, s, x) \in R!ReceiverState /\ R!Enter(r, s, x).driver = r.driver
BY ReleaseAllType DEF R!Enter, R!ReceiverState, R!NoClick, SeqNo, R!SeqNo

LEMMA KeysType ==
    ASSUME NEW r \in R!ReceiverState, NEW k \in Key
    PROVE  /\ R!KeyDown(r, k) \in R!ReceiverState /\ R!KeyDown(r, k).driver = r.driver
           /\ R!KeyUp(r, k) \in R!ReceiverState /\ R!KeyUp(r, k).driver = r.driver
<1>1. RepeatKey \subseteq Key /\ NoKey \notin Key
  BY HandoverAssumption
<1> QED
  BY <1>1 DEF R!KeyDown, R!KeyUp, R!ReceiverState

LEMMA ButtonDownType ==
    ASSUME NEW r \in R!ReceiverState, NEW b \in Button, NEW x \in Place
    PROVE  LET s == R!ButtonDown(r, b, x, FALSE)
           IN  s \in R!ReceiverState /\ s.driver = r.driver
<1>1. R!ClickCount(r, b, FALSE) = 1
  BY DEF R!ClickCount
<1> DEFINE cs == [r.clicks EXCEPT ![b] = 1]
           lc == [button |-> b, clicks |-> 1]
           s == [r EXCEPT !.buttons = @ \union {b}, !.clicks = cs,
                          !.lastClick = lc, !.cursor = x,
                          !.osButtons = @ \union {b}, !.osPos = x]
<1>2. cs \in [Button -> 1 .. 2] /\ lc \in [button : Button, clicks : 1 .. 2]
  BY DEF R!ReceiverState
<1>3. R!ButtonDown(r, b, x, FALSE) = IF ~r.entered \/ b \in r.buttons THEN r ELSE s
  BY <1>1 DEF R!ButtonDown
<1> HIDE DEF cs, lc
<1>4. s \in R!ReceiverState /\ s.driver = r.driver
  BY <1>2 DEF R!ReceiverState
<1> QED
  BY <1>3, <1>4

LEMMA ButtonUpType ==
    ASSUME NEW r \in R!ReceiverState, NEW b \in Button, NEW x \in Place
    PROVE  LET s == R!ButtonUp(r, b, x)
           IN  s \in R!ReceiverState /\ s.driver = r.driver
BY DEF R!ButtonUp, R!ReceiverState

LEMMA SelectMotionType ==
    ASSUME NEW r \in R!ReceiverState, NEW p, NEW s \in SeqNo, NEW x \in Place
    PROVE  LET d == R!SelectMotion(r, p, s, x)
           IN  d \in R!ReceiverState /\ d.driver = r.driver
BY DEF R!SelectMotion, R!Motion, R!ReceiverState, SeqNo, R!SeqNo

LEMMA SelectDisconnectedType ==
    ASSUME NEW r \in R!ReceiverState, NEW p
    PROVE  LET d == R!SelectDisconnected(r, p)
           IN  /\ d \in R!ReceiverState
               /\ d.driver = IF r.driver = p THEN NoMachine ELSE r.driver
BY StopDrivingType DEF R!SelectDisconnected, R!ReceiverState

(* Only an Enter makes its sender the driver. *)
LEMMA SelectControlType ==
    ASSUME NEW r \in R!ReceiverState, NEW p \in Machine, NEW msg \in Message
    PROVE  LET d == R!SelectControl(r, p, msg, FALSE)
           IN  /\ d \in R!ReceiverState
               /\ d.driver = IF msg.type = "Enter" THEN p ELSE r.driver
<1> DEFINE o == IF msg.type = "Enter" THEN [r EXCEPT !.driver = p] ELSE r
           h == R!Handle(o, msg, FALSE)
<1>1. /\ o \in R!ReceiverState
      /\ o.driver = IF msg.type = "Enter" THEN p ELSE r.driver
  BY DEF R!ReceiverState
<1> HIDE DEF o
<1>2. h \in R!ReceiverState /\ h.driver = o.driver
  <2>1. CASE msg \in [type : {"Enter"}, seq : SeqNo, pos : Place]
    <3>1. h = R!Enter(o, msg.seq, msg.pos)
      BY <2>1 DEF R!Handle
    <3>2. msg.seq \in SeqNo /\ msg.pos \in Place
      BY <2>1
    <3>3. LET s == R!Enter(o, msg.seq, msg.pos)
          IN  s \in R!ReceiverState /\ s.driver = o.driver
      BY <1>1, <3>2, EnterType
    <3> HIDE DEF h
    <3> QED
      BY <3>1, <3>3
  <2>2. CASE msg \in [type : {"Leave"}]
    <3>1. h = R!StopDriving(o)
      BY <2>2 DEF R!Handle
    <3> QED
      BY <1>1, <3>1, StopDrivingType
  <2>3. CASE msg \in [type : {"Key"}, key : Key, down : BOOLEAN]
    <3>1. h = IF msg.down THEN R!KeyDown(o, msg.key) ELSE R!KeyUp(o, msg.key)
      BY <2>3 DEF R!Handle
    <3> QED
      BY <1>1, <2>3, <3>1, KeysType
  <2>4. CASE msg \in [type : {"Button"}, button : Button, down : BOOLEAN, pos : Place]
    <3>1. h = IF msg.down THEN R!ButtonDown(o, msg.button, msg.pos, FALSE)
              ELSE R!ButtonUp(o, msg.button, msg.pos)
      BY <2>4 DEF R!Handle
    <3>2. msg.button \in Button /\ msg.pos \in Place
      BY <2>4
    <3>3. LET s == R!ButtonDown(o, msg.button, msg.pos, FALSE)
          IN  s \in R!ReceiverState /\ s.driver = o.driver
      BY <1>1, <3>2, ButtonDownType
    <3>4. LET s == R!ButtonUp(o, msg.button, msg.pos)
          IN  s \in R!ReceiverState /\ s.driver = o.driver
      BY <1>1, <3>2, ButtonUpType
    <3> HIDE DEF h
    <3> QED
      BY <3>1, <3>3, <3>4
  <2>5. CASE msg \in [type : {"Yield", "Connected", "Disconnected"}]
    <3>1. h = o
      BY <2>5 DEF R!Handle
    <3> QED
      BY <1>1, <3>1
  <2> QED
    BY <2>1, <2>2, <2>3, <2>4, <2>5 DEF Message, InputMsg
<1> QED
  BY <1>1, <1>2 DEF R!SelectControl, o

-----------------------------------------------------------------------------

(***************************************************************************)
(* The first invariant: types, a pointer only on machines of the desk, and *)
(* the OS pointer pinned while it is away.                                 *)
(***************************************************************************)
PointerInv ==
    /\ TypeOK
    /\ \A m \in Machine : OnDesk(ctl[m])
    /\ PinnedWhileAway

LEMMA PointerAfterType ==
    ASSUME NEW d \in Working, NEW x \in Place
    PROVE  PointerAfter(x, d.out) \in Place
<1>1. d.out.warp \in Place
  BY DEF Working, ControllerWith, Output
<1> QED
  BY <1>1, PlaceFacts DEF PointerAfter

LEMMA PutDown ==
    ASSUME NEW d \in Working
    PROVE  LET e == [d EXCEPT !.out = Nothing]
           IN  /\ e \in ControllerState
               /\ e.me = d.me /\ e.layout = d.layout /\ e.peer = d.peer
               /\ e.keys = d.keys /\ e.buttons = d.buttons
BY DEF Working, ControllerState, ControllerWith

LEMMA SpokenType ==
    ASSUME NEW d \in Working
    PROVE  /\ d.out.sent \in [Machine -> Seq(InputMsg)]
           /\ \A p \in Machine : d.out.sent[p] \in Seq(Message)
<1>1. d.out.sent \in [Machine -> Seq(InputMsg)]
  BY DEF Working, ControllerWith, Output
<1>2. \A s \in Seq(InputMsg) : s \in Seq(Message)
  BY DEF Message
<1> QED
  BY <1>1, <1>2

(* What the backend makes of a handler's actions. *)
LEMMA Performs ==
    ASSUME TypeOK, NEW m \in Machine, NEW d \in Working, Perform(m, d)
    PROVE  /\ ctl' \in [Machine -> ControllerState]
           /\ \A x \in Machine : x # m => ctl'[x] = ctl[x]
           /\ ctl'[m].me = d.me /\ ctl'[m].layout = d.layout
           /\ ctl'[m].peer = d.peer
           /\ ctl'[m].keys = d.keys /\ ctl'[m].buttons = d.buttons
           /\ pinned' \in [Machine -> BOOLEAN]
           /\ \A x \in Machine : x # m => pinned'[x] = pinned[x]
           /\ pinned'[m] = IsPinned(pinned[m], d.out)
           /\ net' \in [Pair -> Seq(Message)]
           /\ \A p \in Pair : net'[p] = IF p[1] = m /\ Reaches(m, p[2])
                                        THEN net[p] \o d.out.sent[p[2]] ELSE net[p]
           /\ dgrams' \in [Machine -> SUBSET DatagramType({"Pointer", "Motion"})]
<1> DEFINE e == [d EXCEPT !.out = Nothing]
<1>1. /\ e \in ControllerState
      /\ e.me = d.me /\ e.layout = d.layout /\ e.peer = d.peer
      /\ e.keys = d.keys /\ e.buttons = d.buttons
  BY PutDown
<1>2. ctl' = [ctl EXCEPT ![m] = e]
  BY DEF Perform
<1> HIDE DEF e
<1>3. /\ ctl' \in [Machine -> ControllerState]
      /\ \A x \in Machine : x # m => ctl'[x] = ctl[x]
      /\ ctl'[m] = e
  BY <1>1, <1>2 DEF TypeOK
<1>4. IsPinned(pinned[m], d.out) \in BOOLEAN
  BY DEF IsPinned, TypeOK
<1>5. /\ pinned' \in [Machine -> BOOLEAN]
      /\ \A x \in Machine : x # m => pinned'[x] = pinned[x]
      /\ pinned'[m] = IsPinned(pinned[m], d.out)
  BY <1>4 DEF Perform, TypeOK
<1>6. \A p \in Pair : net'[p] = IF p[1] = m /\ Reaches(m, p[2])
                                THEN net[p] \o d.out.sent[p[2]] ELSE net[p]
  BY DEF Perform
<1>7. net' \in [Pair -> Seq(Message)]
  <2>1. \A p \in Pair : net[p] \in Seq(Message) /\ p[2] \in Machine
    BY DEF TypeOK, Pair
  <2>2. \A p \in Pair : net[p] \o d.out.sent[p[2]] \in Seq(Message)
    BY <2>1, SpokenType
  <2> QED
    BY <2>1, <2>2 DEF Perform
<1>8. dgrams' \in [Machine -> SUBSET DatagramType({"Pointer", "Motion"})]
  <2>1. \A p \in Machine : DatagramsTo(d.out, m, p) \subseteq DatagramType({"Pointer", "Motion"})
    <3>1. d.out.datagrams \subseteq [to : Machine, type : {"Motion", "Pointer"},
                                     seq : SeqNo, pos : Place]
      BY DEF Working, ControllerWith, Output
    <3> QED
      BY <3>1 DEF DatagramsTo, DatagramType
  <2>2. \A p \in Machine : dgrams[p] \subseteq DatagramType({"Pointer", "Motion"})
    BY DEF TypeOK
  <2> QED
    BY <2>1, <2>2 DEF Perform
<1> QED
  BY <1>1, <1>3, <1>5, <1>6, <1>7, <1>8

(* What a handler did, but for the routes. *)
Acts(c, d) ==
    /\ d \in Working /\ d.me = c.me
    /\ PinRight(c, d)
    /\ OnDesk(d)

LEMMA PerformKeeps ==
    ASSUME PointerInv, NEW m \in Machine, NEW d, Acts(ctl[m], d), Perform(m, d)
    PROVE  /\ ctl' \in [Machine -> ControllerState]
           /\ pinned' \in [Machine -> BOOLEAN]
           /\ net' \in [Pair -> Seq(Message)]
           /\ dgrams' \in [Machine -> SUBSET DatagramType({"Pointer", "Motion"})]
           /\ \A x \in Machine : OnDesk(ctl'[x])
           /\ PinnedWhileAway'
<1>1. d \in Working /\ TypeOK /\ PinRight(ctl[m], d) /\ OnDesk(d)
  BY DEF PointerInv, Acts
<1>2. \A x \in Machine : OnDesk(ctl'[x])
  <2>1. OnDesk(ctl'[m])
    BY <1>1, Performs DEF OnDesk
  <2>2. \A x \in Machine : x # m => OnDesk(ctl'[x])
    BY <1>1, Performs DEF PointerInv
  <2> QED
    BY <2>1, <2>2
<1>3. \A x \in Machine : pinned'[x] = ~IsLocal(ctl'[x])
  <2>1. \A x \in Machine : x # m => pinned'[x] = ~IsLocal(ctl'[x])
    BY <1>1, Performs DEF PointerInv, PinnedWhileAway
  <2>2. (IsLocal(ctl'[m]) <=> IsLocal(d)) /\ pinned'[m] = IsPinned(pinned[m], d.out)
    BY <1>1, Performs DEF IsLocal
  <2>3. pinned[m] = ~IsLocal(ctl[m])
    BY DEF PointerInv, PinnedWhileAway
  <2>4. CASE d.out.os = "keep" /\ (IsLocal(d) <=> IsLocal(ctl[m]))
    <3>1. pinned'[m] = pinned[m]
      BY <2>2, <2>4 DEF IsPinned
    <3>2. pinned'[m] = ~IsLocal(ctl'[m])
      BY <2>2, <2>3, <2>4, <3>1
    <3> QED
      BY <2>1, <3>2
  <2>5. CASE d.out.os = "capture" /\ ~IsLocal(d)
    <3>1. pinned'[m] = TRUE
      BY <2>2, <2>5 DEF IsPinned
    <3> QED
      BY <2>1, <2>2, <2>5, <3>1
  <2>6. CASE d.out.os \in {"release", "unpark"} /\ IsLocal(d)
    <3>1. pinned'[m] = FALSE
      BY <2>2, <2>6 DEF IsPinned
    <3> QED
      BY <2>1, <2>2, <2>6, <3>1
  <2> QED
    BY <1>1, <2>4, <2>5, <2>6 DEF PinRight
<1> QED
  BY <1>1, <1>2, <1>3, Performs DEF PinnedWhileAway

LEMMA PerformAtType ==
    ASSUME TypeOK, NEW m \in Machine, NEW d \in Working, NEW x \in Place,
           PerformAt(m, d, x)
    PROVE  rcv' \in [Machine -> R!ReceiverState]
           /\ \A n \in Machine : rcv'[n].driver = rcv[n].driver
<1> DEFINE y == PointerAfter(x, d.out)
           r == [rcv[m] EXCEPT !.osPos = y]
<1>1. y \in Place
  BY PointerAfterType
<1>2. rcv' = [rcv EXCEPT ![m] = r]
  BY DEF PerformAt, TypeOK
<1> HIDE DEF y
<1>0. rcv[m] \in R!ReceiverState
  BY DEF TypeOK
<1>3. r \in R!ReceiverState /\ r.driver = rcv[m].driver
  BY <1>0, <1>1 DEF R!ReceiverState
<1> HIDE DEF r
<1> QED
  BY <1>2, <1>3 DEF TypeOK

LEMMA ActType == TypeOK /\ Act => inputs' \in 0 .. MaxInputs
BY HandoverAssumption DEF TypeOK, Act

LEMMA NoticeType ==
    ASSUME TypeOK, NEW m \in Machine, NEW deliberate, Notice(m, deliberate)
    PROVE  /\ injq' \in [Machine -> Seq(InjectEntry)]
           /\ \A x \in Machine : injq'[x] = injq[x]
                \/ injq'[x] = Append(injq[x], [type |-> "LocalActivity"])
<1>1. [type |-> "LocalActivity"] \in InjectEntry
  BY DEF InjectEntry
<1>2. Append(injq[m], [type |-> "LocalActivity"]) \in Seq(InjectEntry)
  BY <1>1 DEF TypeOK
<1> QED
  BY <1>2 DEF Notice, TypeOK

-----------------------------------------------------------------------------

(***************************************************************************)
(* The user's steps.                                                       *)
(***************************************************************************)
LEMMA OwnController ==
    ASSUME PointerInv, NEW m \in Machine
    PROVE  /\ ctl[m] \in ControllerState /\ OnDesk(ctl[m]) /\ ctl[m] \in Working
           /\ rcv[m] \in R!ReceiverState /\ rcv[m].osPos \in Place
           /\ TypeOK
BY StateIsWorking DEF PointerInv, TypeOK, R!ReceiverState

LEMMA StaysActs ==
    ASSUME NEW c \in ControllerState, OnDesk(c), NEW d, Stays(c, d)
    PROVE  Acts(c, d) /\ d.layout = c.layout
BY AtRest DEF Acts, Stays, PinRight, OnDesk, IsLocal

(* A step of the user is a handler of the controller and what it asks of   *)
(* the backend.                                                            *)
ActsAt(m) ==
    \E d \in Working, x \in Place :
        Acts(ctl[m], d) /\ d.layout = ctl[m].layout /\ PerformAt(m, d, x)

LEMMA UserMovesActs ==
    ASSUME PointerInv, NEW m \in Machine, NEW dir \in Dir, NEW paused, NEW expired,
           NEW recent, UserMoves(m, dir, paused, expired, recent)
    PROVE  ActsAt(m)
<1> DEFINE pos == Clamp(Step(rcv[m].osPos, dir))
           d == LocalMotion(ctl[m], pos, dir, expired, recent)
<1>1. pos \in Place
  BY OwnController, PlaceFacts DEF Step, Place
<1> HIDE DEF pos
<1>2. CASE IsLocal(ctl[m])
  <2>1. Turns(ctl[m], d) /\ d.layout = ctl[m].layout
    BY <1>1, <1>2, OwnController, LocalMotionTurns
  <2>2. PerformAt(m, d, pos)
    BY <1>2 DEF UserMoves, pos
  <2> HIDE DEF d
  <2> QED
    BY <1>1, <2>1, <2>2 DEF ActsAt, Acts, Turns
<1>3. CASE ~IsLocal(ctl[m])
  <2>1. PerformAt(m, ctl[m], rcv[m].osPos)
    BY <1>3 DEF UserMoves
  <2>2. Acts(ctl[m], ctl[m])
    BY OwnController, StaysActs DEF Stays
  <2> QED
    BY <2>1, <2>2, OwnController DEF ActsAt
<1> QED
  BY <1>2, <1>3

LEMMA PinnedMotionActs ==
    ASSUME PointerInv, NEW m \in Machine, NEW dir \in Dir, NEW expired,
           UserMovesPinned(m, dir, expired)
    PROVE  ActsAt(m)
<1> DEFINE d == CapturedMotion(ctl[m], dir, expired)
<1>1. Turns(ctl[m], d) /\ d.layout = ctl[m].layout
  BY OwnController, CapturedMotionTurns
<1>2. PerformAt(m, d, rcv[m].osPos)
  BY DEF UserMovesPinned
<1> HIDE DEF d
<1> QED
  BY <1>1, <1>2, OwnController DEF ActsAt, Acts, Turns

LEMMA PressActs ==
    ASSUME PointerInv, NEW m \in Machine, NEW i \in Item, UserPresses(m, i)
    PROVE  ActsAt(m)
<1> DEFINE d == IF i \in Key THEN PressKey(ctl[m], i) ELSE PressButton(ctl[m], i)
<1>1. Stays(ctl[m], d)
  BY OwnController, PressKeyStays, PressButtonStays DEF Item
<1>2. PerformAt(m, d, rcv[m].osPos)
  BY DEF UserPresses
<1> HIDE DEF d
<1> QED
  BY <1>1, <1>2, OwnController, StaysActs DEF ActsAt, Stays

LEMMA ReleaseActs ==
    ASSUME PointerInv, NEW m \in Machine, NEW i \in Item, UserReleases(m, i)
    PROVE  ActsAt(m)
<1> DEFINE d == IF i \in Key THEN ReleaseKey(ctl[m], i) ELSE ReleaseButton(ctl[m], i)
<1>1. Stays(ctl[m], d)
  BY OwnController, ReleaseKeyStays, ReleaseButtonStays DEF Item
<1>2. PerformAt(m, d, rcv[m].osPos)
  BY DEF UserReleases
<1> HIDE DEF d
<1> QED
  BY <1>1, <1>2, OwnController, StaysActs DEF ActsAt, Stays

LEMMA UserActs ==
    ASSUME PointerInv, NEW m \in Machine, UserStep(m)
    PROVE  ActsAt(m)
BY UserMovesActs, PinnedMotionActs, PressActs, ReleaseActs DEF UserStep

(* What else a step of the user changes. *)
LEMMA UserTypes ==
    ASSUME TypeOK, NEW m \in Machine, UserStep(m)
    PROVE  /\ held' \in [Machine -> SUBSET Item] /\ seen' \in [Machine -> SUBSET Item]
           /\ moved' \in [Machine -> 0 .. Deliberate - 1]
           /\ inputs' \in 0 .. MaxInputs
           /\ injq' \in [Machine -> Seq(InjectEntry)]
           /\ \A x \in Machine : injq'[x] = injq[x]
                \/ injq'[x] = Append(injq[x], [type |-> "LocalActivity"])
           /\ UNCHANGED <<links, capq, yielded>>
<1>0. Deliberate \in Nat \ {0} /\ moved[m] \in 0 .. Deliberate - 1
  BY HandoverAssumption DEF TypeOK
<1> DEFINE Goal == /\ held' \in [Machine -> SUBSET Item]
                   /\ seen' \in [Machine -> SUBSET Item]
                   /\ moved' \in [Machine -> 0 .. Deliberate - 1]
                   /\ inputs' \in 0 .. MaxInputs
                   /\ injq' \in [Machine -> Seq(InjectEntry)]
                   /\ \A x \in Machine : injq'[x] = injq[x]
                        \/ injq'[x] = Append(injq[x], [type |-> "LocalActivity"])
                   /\ UNCHANGED <<links, capq, yielded>>
<1>1. ASSUME NEW dir \in Dir, NEW paused, NEW expired, NEW recent,
             UserMoves(m, dir, paused, expired, recent)
      PROVE  Goal
  <2> DEFINE far == 1 + IF paused THEN 0 ELSE moved[m]
             to == IF far >= Deliberate THEN 0 ELSE far
  <2>1. to \in 0 .. Deliberate - 1
    BY <1>0
  <2>2. Act /\ Notice(m, far >= Deliberate) /\ moved' = [moved EXCEPT ![m] = to]
        /\ UNCHANGED <<held, seen, links, capq, yielded>>
    BY <1>1 DEF UserMoves
  <2> HIDE DEF to, far
  <2> QED
    BY <2>1, <2>2, ActType, NoticeType DEF TypeOK
<1>2. ASSUME NEW dir \in Dir, NEW expired, UserMovesPinned(m, dir, expired)
      PROVE  Goal
  BY <1>2, ActType DEF UserMovesPinned, TypeOK
<1>3. ASSUME NEW i \in Item, UserPresses(m, i)
      PROVE  Goal
  <2>1. /\ held[m] \union {i} \subseteq Item /\ seen[m] \union {i} \subseteq Item
        /\ seen[m] \subseteq Item
    BY DEF TypeOK
  <2>2. /\ held' \in [Machine -> SUBSET Item] /\ seen' \in [Machine -> SUBSET Item]
    BY <1>3, <2>1 DEF UserPresses, TypeOK
  <2>3. moved' \in [Machine -> 0 .. Deliberate - 1]
    BY <1>0, <1>3 DEF UserPresses, TypeOK
  <2>4. Act /\ Notice(m, TRUE) /\ UNCHANGED <<links, capq, yielded>>
    BY <1>3 DEF UserPresses
  <2> QED
    BY <2>2, <2>3, <2>4, ActType, NoticeType
<1>4. ASSUME NEW i \in Item, UserReleases(m, i)
      PROVE  Goal
  <2>1. held[m] \ {i} \subseteq Item /\ seen[m] \ {i} \subseteq Item /\ seen[m] \subseteq Item
    BY DEF TypeOK
  <2>2. /\ held' \in [Machine -> SUBSET Item] /\ seen' \in [Machine -> SUBSET Item]
    BY <1>4, <2>1 DEF UserReleases, TypeOK
  <2>3. moved' \in [Machine -> 0 .. Deliberate - 1]
    BY <1>0, <1>4 DEF UserReleases, TypeOK
  <2>4. Act /\ Notice(m, TRUE) /\ UNCHANGED <<links, capq, yielded>>
    BY <1>4 DEF UserReleases
  <2> QED
    BY <2>2, <2>3, <2>4, ActType, NoticeType
<1> HIDE DEF Goal
<1>5. Goal
  BY <1>1, <1>2, <1>3, <1>4 DEF UserStep
<1> QED
  BY <1>5 DEF Goal

LEMMA UserKeeps ==
    ASSUME PointerInv, NEW m \in Machine, UserStep(m)
    PROVE  PointerInv'
<1>1. PICK d \in Working, x \in Place : Acts(ctl[m], d) /\ PerformAt(m, d, x)
  BY UserActs DEF ActsAt
<1>2. TypeOK /\ Perform(m, d)
  BY <1>1 DEF PointerInv, PerformAt
<1>3. /\ ctl' \in [Machine -> ControllerState]
      /\ pinned' \in [Machine -> BOOLEAN]
      /\ net' \in [Pair -> Seq(Message)]
      /\ dgrams' \in [Machine -> SUBSET DatagramType({"Pointer", "Motion"})]
      /\ \A y \in Machine : OnDesk(ctl'[y])
      /\ PinnedWhileAway'
  BY <1>1, <1>2, PerformKeeps
<1>4. rcv' \in [Machine -> R!ReceiverState]
  BY <1>1, <1>2, PerformAtType
<1> QED
  BY <1>2, <1>3, <1>4, UserTypes DEF PointerInv, TypeOK, links

-----------------------------------------------------------------------------

(***************************************************************************)
(* The capture thread's own steps.                                         *)
(***************************************************************************)
LEMMA HandledTurns ==
    ASSUME NEW c \in ControllerState, OnDesk(c), NEW e \in CaptureEvent
    PROVE  LET d == Handled(c, e)
           IN  /\ Turns(c, d)
               /\ d.layout = IF e.type = "SetLayout" THEN e.peers ELSE c.layout
<1> DEFINE d == Handled(c, e)
           Goal == /\ Turns(c, d)
                   /\ d.layout = IF e.type = "SetLayout" THEN e.peers ELSE c.layout
<1> SUFFICES Goal
  OBVIOUS
<1>1. CASE e \in [type : {"PeerEntered"}, peer : Machine, seq : SeqNo]
  <2>1. d = PeerEntered(c, e.peer, e.seq)
    BY <1>1 DEF Handled
  <2> QED
    BY <1>1, <2>1, EnteredTurns
<1>2. CASE e \in [type : {"PeerYield", "PeerLost", "YieldedTo"}, peer : Machine]
            /\ e.type = "PeerYield"
  <2>1. d = PeerYield(c, e.peer)
    BY <1>2 DEF Handled
  <2> QED
    BY <1>2, <2>1, YieldTurns
<1>3. CASE e \in [type : {"PeerYield", "PeerLost", "YieldedTo"}, peer : Machine]
            /\ e.type = "PeerLost"
  <2>1. d = PeerLost(c, e.peer)
    BY <1>3 DEF Handled
  <2> QED
    BY <1>3, <2>1, LostTurns
<1>4. CASE e \in [type : {"PeerYield", "PeerLost", "YieldedTo"}, peer : Machine]
            /\ e.type = "YieldedTo"
  <2>1. d = YieldedTo(c, e.peer)
    BY <1>4 DEF Handled
  <2> QED
    BY <1>4, <2>1, YieldedToTurns
<1>5. CASE e \in [type : {"SetLayout"}, peers : SUBSET Machine]
  <2>1. d = SetLayout(c, e.peers)
    BY <1>5 DEF Handled
  <2> QED
    BY <1>5, <2>1, SetLayoutTurns
<1>6. CASE e \in DatagramType({"Pointer"})
  <2>1. d = PeerPointer(c, e.from, e.seq, e.pos)
    BY <1>6 DEF Handled, DatagramType
  <2> QED
    BY <1>6, <2>1, PointerTurns DEF DatagramType
<1> HIDE DEF d, Goal
<1>7. ASSUME e \in [type : {"PeerYield", "PeerLost", "YieldedTo"}, peer : Machine]
      PROVE  Goal
  <2>1. e.type \in {"PeerYield", "PeerLost", "YieldedTo"}
    BY <1>7
  <2> QED
    BY <1>2, <1>3, <1>4, <1>7, <2>1
<1> QED
  BY <1>1, <1>5, <1>6, <1>7 DEF CaptureEvent

LEMMA CaptureHead ==
    ASSUME TypeOK, NEW m \in Machine, capq[m] # <<>>
    PROVE  /\ Head(capq[m]) \in CaptureEvent
           /\ Tail(capq[m]) \in Seq(CaptureEvent)
BY DEF TypeOK

LEMMA CapturingKeeps ==
    ASSUME PointerInv, NEW m \in Machine, Capturing(m)
    PROVE  PointerInv'
<1> DEFINE d == Handled(ctl[m], Head(capq[m]))
<1>1. TypeOK /\ capq[m] # <<>>
  BY DEF PointerInv, Capturing
<1>2. Turns(ctl[m], d)
  BY <1>1, CaptureHead, HandledTurns, OwnController
<1>3. PerformAt(m, d, rcv[m].osPos) /\ capq' = [capq EXCEPT ![m] = Tail(@)]
      /\ UNCHANGED <<user, links, injq, yielded>>
  BY DEF Capturing
<1> HIDE DEF d
<1>4. /\ ctl' \in [Machine -> ControllerState]
      /\ pinned' \in [Machine -> BOOLEAN]
      /\ net' \in [Pair -> Seq(Message)]
      /\ dgrams' \in [Machine -> SUBSET DatagramType({"Pointer", "Motion"})]
      /\ \A y \in Machine : OnDesk(ctl'[y])
      /\ PinnedWhileAway'
  BY <1>2, <1>3, PerformKeeps DEF PerformAt, Turns, Acts
<1>5. rcv' \in [Machine -> R!ReceiverState]
  BY <1>1, <1>2, <1>3, PerformAtType, OwnController DEF Turns
<1>6. capq' \in [Machine -> Seq(CaptureEvent)]
  BY <1>1, <1>3, CaptureHead DEF TypeOK
<1> QED
  BY <1>1, <1>3, <1>4, <1>5, <1>6 DEF PointerInv, TypeOK, user, links

LEMMA ReportActs ==
    ASSUME PointerInv, NEW m \in Machine, ReportDue(m)
    PROVE  \E d \in Working : Stays(ctl[m], d) /\ RoutesKept(ctl[m], d) /\ Perform(m, d)
<1> DEFINE d == SendWaitingReport(ctl[m])
<1>1. Stays(ctl[m], d) /\ RoutesKept(ctl[m], d)
  BY OwnController, WaitingStays, SameRoutesKept
<1>2. Perform(m, d)
  BY DEF ReportDue
<1> HIDE DEF d
<1> QED
  BY <1>1, <1>2 DEF Stays

LEMMA ReportKeeps ==
    ASSUME PointerInv, NEW m \in Machine, ReportDue(m)
    PROVE  PointerInv'
<1>1. PICK d \in Working : Stays(ctl[m], d) /\ Perform(m, d)
  BY ReportActs
<1>2. Acts(ctl[m], d)
  BY <1>1, OwnController, StaysActs
<1>3. /\ ctl' \in [Machine -> ControllerState]
      /\ pinned' \in [Machine -> BOOLEAN]
      /\ net' \in [Pair -> Seq(Message)]
      /\ dgrams' \in [Machine -> SUBSET DatagramType({"Pointer", "Motion"})]
      /\ \A y \in Machine : OnDesk(ctl'[y])
      /\ PinnedWhileAway'
  BY <1>1, <1>2, PerformKeeps
<1> QED
  BY <1>3 DEF PointerInv, TypeOK, ReportDue, user, links

-----------------------------------------------------------------------------

(***************************************************************************)
(* The run loop, the injection thread and the connections touch no         *)
(* controller but that of a machine that starts again.                     *)
(***************************************************************************)
LEMMA SamePointer ==
    ASSUME PointerInv, TypeOK', UNCHANGED <<ctl, pinned>>
    PROVE  PointerInv'
BY DEF PointerInv, PinnedWhileAway

LEMMA PairType ==
    ASSUME NEW m \in Machine, NEW p \in Machine \ {m}
    PROVE  <<p, m>> \in Pair /\ <<m, p>> \in Pair
BY DEF Pair

LEMMA HeadOfNet ==
    ASSUME TypeOK, NEW m \in Machine, NEW p \in Machine \ {m}, NEW type,
           Hears(p, m, type)
    PROVE  /\ Head(net[<<p, m>>]) \in Message
           /\ Head(net[<<p, m>>]).type = type
           /\ net' \in [Pair -> Seq(Message)]
<1>1. <<p, m>> \in Pair
  BY PairType
<1>2. net[<<p, m>>] \in Seq(Message) /\ net[<<p, m>>] # <<>>
  BY <1>1 DEF TypeOK, Hears
<1>3. Head(net[<<p, m>>]) \in Message /\ Tail(net[<<p, m>>]) \in Seq(Message)
  BY <1>2
<1> QED
  BY <1>1, <1>3 DEF Hears, TypeOK

LEMMA QueueTypes ==
    ASSUME TypeOK, NEW m \in Machine
    PROVE  /\ \A s \in Seq(CaptureEvent) :
                Queue(capq, m, s) => capq' \in [Machine -> Seq(CaptureEvent)]
           /\ \A s \in Seq(InjectEntry) :
                Queue(injq, m, s) => injq' \in [Machine -> Seq(InjectEntry)]
<1>1. capq[m] \in Seq(CaptureEvent) /\ injq[m] \in Seq(InjectEntry)
  BY DEF TypeOK
<1>2. \A s \in Seq(CaptureEvent) : capq[m] \o s \in Seq(CaptureEvent)
  BY <1>1
<1>3. \A s \in Seq(InjectEntry) : injq[m] \o s \in Seq(InjectEntry)
  BY <1>1
<1>4. \A s \in Seq(CaptureEvent) :
        Queue(capq, m, s) => capq' \in [Machine -> Seq(CaptureEvent)]
  BY <1>2 DEF Queue, TypeOK
<1>5. \A s \in Seq(InjectEntry) :
        Queue(injq, m, s) => injq' \in [Machine -> Seq(InjectEntry)]
  BY <1>3 DEF Queue, TypeOK
<1> QED
  BY <1>4, <1>5

LEMMA HearingTypes ==
    ASSUME TypeOK, NEW m \in Machine, Hearing(m)
    PROVE  TypeOK'
<1>1. ASSUME NEW p \in Machine \ {m}, OnConnected(m, p)
      PROVE  TypeOK'
  <2>1. sessions' \in [Machine -> SUBSET Machine] /\ sessions'[m] \in SUBSET Machine
    BY <1>1 DEF OnConnected, TypeOK
  <2>2. <<Relayout(sessions'[m])>> \in Seq(CaptureEvent)
    BY <2>1 DEF Relayout, CaptureEvent
  <2>3. Hears(p, m, "Connected") /\ Queue(capq, m, <<Relayout(sessions'[m])>>)
        /\ UNCHANGED injq
    BY <1>1 DEF OnConnected
  <2> QED
    BY <2>1, <2>2, <2>3, HeadOfNet, QueueTypes DEF Hears, TypeOK, user
<1>2. ASSUME NEW p \in Machine \ {m}, OnDisconnected(m, p)
      PROVE  TypeOK'
  <2> DEFINE cs == << [type |-> "PeerLost", peer |-> p], Relayout(sessions'[m]) >>
             is == << [type |-> "Disconnected", peer |-> p] >>
  <2>1. sessions' \in [Machine -> SUBSET Machine] /\ sessions'[m] \in SUBSET Machine
    BY <1>2 DEF OnDisconnected, TypeOK
  <2>2. cs \in Seq(CaptureEvent) /\ is \in Seq(InjectEntry)
    BY <2>1 DEF Relayout, CaptureEvent, InjectEntry
  <2>3. Hears(p, m, "Disconnected") /\ Queue(capq, m, cs) /\ Queue(injq, m, is)
    BY <1>2 DEF OnDisconnected
  <2> HIDE DEF cs, is
  <2> QED
    BY <2>1, <2>2, <2>3, HeadOfNet, QueueTypes DEF Hears, TypeOK, user
<1>3. ASSUME NEW p \in Machine \ {m}, OnEnter(m, p)
      PROVE  TypeOK'
  <2> DEFINE msg == Head(net[<<p, m>>])
             cs == << [type |-> "PeerEntered", peer |-> p, seq |-> msg.seq] >>
             is == << From(p, msg) >>
  <2>1. Hears(p, m, "Enter") /\ Queue(capq, m, cs) /\ Queue(injq, m, is)
        /\ UNCHANGED sessions
    BY <1>3 DEF OnEnter
  <2>2. msg \in Message /\ msg.type = "Enter"
    BY <2>1, HeadOfNet
  <2> HIDE DEF msg
  <2>3. msg.seq \in SeqNo
    BY <2>2 DEF Message, InputMsg
  <2>4. cs \in Seq(CaptureEvent) /\ is \in Seq(InjectEntry)
    BY <2>2, <2>3 DEF From, CaptureEvent, InjectEntry
  <2> HIDE DEF cs, is
  <2> QED
    BY <2>1, <2>4, HeadOfNet, QueueTypes DEF Hears, TypeOK, user
<1>4. ASSUME NEW p \in Machine \ {m}, OnYield(m, p)
      PROVE  TypeOK'
  <2> DEFINE cs == << [type |-> "PeerYield", peer |-> p] >>
  <2>1. Hears(p, m, "Yield") /\ Queue(capq, m, cs) /\ UNCHANGED <<sessions, injq>>
    BY <1>4 DEF OnYield
  <2>2. cs \in Seq(CaptureEvent)
    BY DEF CaptureEvent
  <2> HIDE DEF cs
  <2> QED
    BY <2>1, <2>2, HeadOfNet, QueueTypes DEF Hears, TypeOK, user
<1>5. ASSUME NEW p \in Machine \ {m}, OnInput(m, p)
      PROVE  TypeOK'
  <2> DEFINE is == << From(p, Head(net[<<p, m>>])) >>
  <2>1. PICK type \in {"Leave", "Key", "Button"} : Hears(p, m, type)
    BY <1>5 DEF OnInput
  <2>2. Queue(injq, m, is) /\ UNCHANGED <<sessions, capq>>
    BY <1>5 DEF OnInput
  <2>3. Head(net[<<p, m>>]) \in Message
    BY <2>1, HeadOfNet
  <2>4. is \in Seq(InjectEntry)
    BY <2>3 DEF From, InjectEntry
  <2> HIDE DEF is
  <2> QED
    BY <2>1, <2>2, <2>4, HeadOfNet, QueueTypes DEF Hears, TypeOK, user
<1> QED
  BY <1>1, <1>2, <1>3, <1>4, <1>5 DEF Hearing

LEMMA OtherRunLoopTypes ==
    ASSUME TypeOK, NEW m \in Machine
    PROVE  /\ \A d \in dgrams[m] : OnDatagram(m, d) => TypeOK'
           /\ OnYielded(m) => TypeOK'
<1>1. ASSUME NEW d \in dgrams[m], OnDatagram(m, d)
      PROVE  TypeOK'
  <2>1. d \in DatagramType({"Pointer", "Motion"})
    BY DEF TypeOK
  <2>2. IF d.type = "Pointer" THEN <<d>> \in Seq(CaptureEvent) ELSE <<d>> \in Seq(InjectEntry)
    BY <2>1 DEF DatagramType, CaptureEvent, InjectEntry
  <2>3. dgrams' \in [Machine -> SUBSET DatagramType({"Pointer", "Motion"})]
    BY <1>1 DEF OnDatagram, TypeOK
  <2>4. IF d.type = "Pointer" THEN Queue(capq, m, <<d>>) /\ UNCHANGED injq
        ELSE Queue(injq, m, <<d>>) /\ UNCHANGED capq
    BY <1>1 DEF OnDatagram
  <2>5. capq' \in [Machine -> Seq(CaptureEvent)] /\ injq' \in [Machine -> Seq(InjectEntry)]
    BY <2>2, <2>4, QueueTypes DEF TypeOK
  <2> QED
    BY <1>1, <2>3, <2>5 DEF OnDatagram, TypeOK, user, links
<1>2. ASSUME OnYielded(m)
      PROVE  TypeOK'
  <2> DEFINE cs == << [type |-> "YieldedTo", peer |-> Head(yielded[m])] >>
  <2>1. Head(yielded[m]) \in Machine /\ Tail(yielded[m]) \in Seq(Machine)
    BY <1>2 DEF OnYielded, TypeOK
  <2>2. cs \in Seq(CaptureEvent)
    BY <2>1 DEF CaptureEvent
  <2>3. Queue(capq, m, cs)
    BY <1>2 DEF OnYielded
  <2> HIDE DEF cs
  <2>4. capq' \in [Machine -> Seq(CaptureEvent)]
    BY <2>2, <2>3, QueueTypes
  <2>5. yielded' \in [Machine -> Seq(Machine)]
    BY <1>2, <2>1 DEF OnYielded, TypeOK
  <2> QED
    BY <1>2, <2>4, <2>5 DEF OnYielded, TypeOK, user, links
<1> QED
  BY <1>1, <1>2

-----------------------------------------------------------------------------

(***************************************************************************)
(* The injection thread.                                                   *)
(***************************************************************************)
LEMMA InjectHead ==
    ASSUME TypeOK, NEW m \in Machine, NEW type, Injects(m, type)
    PROVE  /\ Head(injq[m]) \in InjectEntry /\ Head(injq[m]).type = type
           /\ rcv[m] \in R!ReceiverState
           /\ injq' \in [Machine -> Seq(InjectEntry)]
<1>1. injq[m] \in Seq(InjectEntry) /\ injq[m] # <<>>
  BY DEF TypeOK, Injects
<1>2. Head(injq[m]) \in InjectEntry /\ Tail(injq[m]) \in Seq(InjectEntry)
  BY <1>1
<1> QED
  BY <1>2 DEF Injects, TypeOK

LEMMA InjectingTypes ==
    ASSUME TypeOK, NEW m \in Machine, Injecting(m)
    PROVE  TypeOK'
<1> DEFINE e == Head(injq[m])
<1>1. ASSUME InjectControl(m)
      PROVE  TypeOK'
  <2> DEFINE r == R!SelectControl(rcv[m], e.from, e.msg, FALSE)
  <2>1. Injects(m, "Control") /\ UNCHANGED <<net, yielded>>
    BY <1>1 DEF InjectControl
  <2>2. e \in InjectEntry /\ e.type = "Control"
    BY <2>1, InjectHead
  <2>3. e.from \in Machine /\ e.msg \in Message
    BY <2>2 DEF InjectEntry, DatagramType
  <2>4. r \in R!ReceiverState
    BY <2>1, <2>3, InjectHead, SelectControlType
  <2>5. rcv' = [rcv EXCEPT ![m] = r]
    BY <1>1 DEF InjectControl, TypeOK
  <2> HIDE DEF r
  <2> QED
    BY <2>1, <2>4, <2>5, InjectHead DEF Injects, TypeOK, user, links
<1>2. ASSUME InjectMotion(m)
      PROVE  TypeOK'
  <2> DEFINE r == R!SelectMotion(rcv[m], e.from, e.seq, e.pos)
  <2>1. Injects(m, "Motion") /\ UNCHANGED <<net, yielded>>
    BY <1>2 DEF InjectMotion
  <2>2. e \in InjectEntry /\ e.type = "Motion"
    BY <2>1, InjectHead
  <2>3. e.seq \in SeqNo /\ e.pos \in Place
    BY <2>2 DEF InjectEntry, DatagramType
  <2>4. r \in R!ReceiverState
    BY <2>1, <2>3, InjectHead, SelectMotionType
  <2>5. rcv' = [rcv EXCEPT ![m] = r]
    BY <1>2 DEF InjectMotion, TypeOK
  <2> HIDE DEF r
  <2> QED
    BY <2>1, <2>4, <2>5, InjectHead DEF Injects, TypeOK, user, links
<1>3. ASSUME InjectDisconnected(m)
      PROVE  TypeOK'
  <2> DEFINE r == R!SelectDisconnected(rcv[m], e.peer)
  <2>1. Injects(m, "Disconnected") /\ UNCHANGED <<net, yielded>>
    BY <1>3 DEF InjectDisconnected
  <2>2. r \in R!ReceiverState
    BY <2>1, InjectHead, SelectDisconnectedType
  <2>3. rcv' = [rcv EXCEPT ![m] = r]
    BY <1>3 DEF InjectDisconnected, TypeOK
  <2> HIDE DEF r
  <2> QED
    BY <2>1, <2>2, <2>3, InjectHead DEF Injects, TypeOK, user, links
<1>4. ASSUME InjectLocalActivity(m)
      PROVE  TypeOK'
  <2> DEFINE d == rcv[m].driver
             r == R!StopDriving(rcv[m])
             yields == rcv[m].entered /\ d \in sessions[m]
  <2>1. Injects(m, "LocalActivity")
    BY <1>4 DEF InjectLocalActivity
  <2>2. r \in R!ReceiverState
    BY <2>1, InjectHead, StopDrivingType
  <2>3. rcv' = IF rcv[m].entered THEN [rcv EXCEPT ![m] = r] ELSE rcv
    BY <1>4 DEF InjectLocalActivity, TypeOK
  <2>4. /\ net' = IF yields /\ Reaches(m, d)
                  THEN [net EXCEPT ![<<m, d>>] = Append(@, YieldMsg)] ELSE net
        /\ yielded' = IF yields THEN [yielded EXCEPT ![m] = Append(@, d)] ELSE yielded
    BY <1>4 DEF InjectLocalActivity
  <2>5. yields => d \in Machine
    BY DEF TypeOK
  <2> HIDE DEF r, d, yields
  <2>6. rcv' \in [Machine -> R!ReceiverState]
    BY <2>2, <2>3 DEF TypeOK
  <2>7. yielded' \in [Machine -> Seq(Machine)]
    <3>1. yields => Append(yielded[m], d) \in Seq(Machine)
      BY <2>5 DEF TypeOK
    <3> QED
      BY <2>4, <3>1 DEF TypeOK
  <2>8. net' \in [Pair -> Seq(Message)]
    <3>1. YieldMsg \in Message
      BY DEF YieldMsg, Message
    <3>2. <<m, d>> \in Pair => Append(net[<<m, d>>], YieldMsg) \in Seq(Message)
      BY <3>1 DEF TypeOK
    <3>3. net' \in [Pair -> Seq(Message)] \/ <<m, d>> \notin Pair
      BY <2>4, <3>2 DEF TypeOK
    <3>4. <<m, d>> \notin Pair => [net EXCEPT ![<<m, d>>] = Append(@, YieldMsg)] = net
      BY DEF TypeOK
    <3> QED
      BY <2>4, <3>3, <3>4 DEF TypeOK
  <2> QED
    BY <2>1, <2>6, <2>7, <2>8, InjectHead DEF Injects, TypeOK, user, links
<1> QED
  BY <1>1, <1>2, <1>3, <1>4 DEF Injecting

-----------------------------------------------------------------------------

(***************************************************************************)
(* Connections that fail and come back.                                    *)
(***************************************************************************)
LEMMA PrefixType ==
    ASSUME NEW S, NEW s \in Seq(S), NEW i \in 0 .. Len(s)
    PROVE  SubSeq(s, 1, i) \in Seq(S)
OBVIOUS

LEMMA NewsType ==
    /\ [type |-> "Connected"] \in Message
    /\ [type |-> "Disconnected"] \in Message
BY DEF Message

LEMMA NewsMore ==
    ASSUME NEW s \in Seq(Message)
    PROVE  /\ s \o << [type |-> "Connected"] >> \in Seq(Message)
           /\ Append(s, [type |-> "Disconnected"]) \in Seq(Message)
BY NewsType

LEMMA CutType == ASSUME NEW q, NEW i \in Cuts(q) PROVE i \in 0 .. Len(q)
BY DEF Cuts

LEMMA LinkTypes ==
    ASSUME TypeOK, NEW a \in Machine, NEW b \in Machine \ {a}, Connecting(a, b)
    PROVE  TypeOK' /\ UNCHANGED <<ctl, pinned>>
<1>1. <<a, b>> \in Pair /\ <<b, a>> \in Pair /\ {a, b} \in Link
  BY DEF Pair, Link
<1>2. net[<<a, b>>] \in Seq(Message) /\ net[<<b, a>>] \in Seq(Message)
  BY <1>1 DEF TypeOK
<1>3. ASSUME LinkFails(a, b)
      PROVE  TypeOK' /\ UNCHANGED <<ctl, pinned>>
  <2>1. PICK i \in Cuts(net[<<a, b>>]), j \in Cuts(net[<<b, a>>]) :
          net' = [net EXCEPT ![<<a, b>>] = SubSeq(@, 1, i),
                             ![<<b, a>>] = SubSeq(@, 1, j)]
    BY <1>3 DEF LinkFails
  <2> DEFINE p == SubSeq(net[<<a, b>>], 1, i)
             q == SubSeq(net[<<b, a>>], 1, j)
  <2>2. p \in Seq(Message) /\ q \in Seq(Message)
    BY <1>2, CutType, PrefixType
  <2>3. net' = [net EXCEPT ![<<a, b>>] = p, ![<<b, a>>] = q]
    BY <2>1
  <2> HIDE DEF p, q
  <2>4. net' \in [Pair -> Seq(Message)]
    BY <2>2, <2>3 DEF TypeOK
  <2>5. dgrams' \in [Machine -> SUBSET DatagramType({"Pointer", "Motion"})]
    <3> DEFINE D == DatagramType({"Pointer", "Motion"})
               x == {d \in dgrams[a] : d.from # b}
               y == {d \in dgrams[b] : d.from # a}
    <3>1. dgrams[a] \in SUBSET D /\ dgrams[b] \in SUBSET D
      BY DEF TypeOK
    <3>2. x \in SUBSET D /\ y \in SUBSET D
      BY <3>1
    <3>3. dgrams' = [dgrams EXCEPT ![a] = x, ![b] = y]
      BY <1>3 DEF LinkFails, Without, TypeOK
    <3>4. dgrams \in [Machine -> SUBSET D]
      BY DEF TypeOK
    <3> HIDE DEF x, y, D
    <3>5. dgrams' \in [Machine -> SUBSET D]
      BY <3>2, <3>3, <3>4
    <3> QED
      BY <3>5 DEF D
  <2>6. faults' \in 0 .. MaxFaults /\ up' \subseteq Link
    <3>1. /\ faults \in 0 .. MaxFaults /\ faults < MaxFaults /\ faults' = faults + 1
          /\ up \subseteq Link /\ up' = up \ {{a, b}}
      BY <1>3 DEF LinkFails, TypeOK
    <3>2. MaxFaults \in Nat
      BY HandoverAssumption
    <3> QED
      BY <3>1, <3>2
  <2> QED
    BY <1>3, <2>4, <2>5, <2>6 DEF LinkFails, TypeOK, user
<1>4. ASSUME EndNoticed(a, b)
      PROVE  TypeOK' /\ UNCHANGED <<ctl, pinned>>
  <2> DEFINE p == Append(net[<<b, a>>], [type |-> "Disconnected"])
  <2>1. p \in Seq(Message)
    BY <1>2, NewsMore
  <2>2. net' = [net EXCEPT ![<<b, a>>] = p]
    BY <1>4 DEF EndNoticed
  <2> HIDE DEF p
  <2>3. net' \in [Pair -> Seq(Message)]
    BY <2>1, <2>2 DEF TypeOK
  <2>4. active' \in [Machine -> SUBSET Machine]
    BY <1>4 DEF EndNoticed, TypeOK
  <2> QED
    BY <1>4, <2>3, <2>4 DEF EndNoticed, TypeOK, user
<1>5. ASSUME Reconnect(a, b)
      PROVE  TypeOK' /\ UNCHANGED <<ctl, pinned>>
  <2> DEFINE started == << [type |-> "Connected"] >>
             p == net[<<a, b>>] \o started
             q == net[<<b, a>>] \o started
  <2>1. p \in Seq(Message) /\ q \in Seq(Message)
    BY <1>2, NewsMore
  <2>2. net' = [net EXCEPT ![<<a, b>>] = p, ![<<b, a>>] = q]
    BY <1>5 DEF Reconnect
  <2> HIDE DEF p, q
  <2>3. net' \in [Pair -> Seq(Message)]
    BY <2>1, <2>2 DEF TypeOK
  <2>4. up' \subseteq Link /\ active' \in [Machine -> SUBSET Machine]
    BY <1>1, <1>5 DEF Reconnect, TypeOK
  <2> QED
    BY <1>5, <2>3, <2>4 DEF Reconnect, TypeOK, user
<1> QED
  BY <1>3, <1>4, <1>5 DEF Connecting

LEMMA NewControllerType ==
    ASSUME NEW m \in Machine, NEW x \in Place
    PROVE  NewController(m, x) \in ControllerState
BY PlaceFacts, NoPushType, SeqModAssumption
   DEF NewController, ControllerState, ControllerWith, Route, NoReport, SeqNo

(* What a machine that starts again begins with. *)
LEMMA RestartChanges ==
    ASSUME TypeOK, NEW m \in Machine, Restart(m)
    PROVE  /\ TypeOK'
           /\ ctl' = [ctl EXCEPT ![m] = NewController(m, rcv[m].osPos)]
           /\ pinned' = [pinned EXCEPT ![m] = FALSE]
<1> DEFINE os == rcv[m]
           c == NewController(m, os.osPos)
           r == R!NewReceiver(os.osKeys, os.osButtons, os.osPos)
<1>1. /\ os \in R!ReceiverState
      /\ os.osKeys \in SUBSET Key /\ os.osButtons \in SUBSET Button /\ os.osPos \in Place
  BY DEF TypeOK, R!ReceiverState
<1>2. c \in ControllerState /\ r \in R!ReceiverState
  BY <1>1, NewControllerType, NewReceiverType
<1>3. ctl' = [ctl EXCEPT ![m] = c] /\ rcv' = [rcv EXCEPT ![m] = r]
  BY DEF Restart
<1>4. ctl' \in [Machine -> ControllerState] /\ rcv' \in [Machine -> R!ReceiverState]
  <2> HIDE DEF c, r, os
  <2> QED
    BY <1>2, <1>3 DEF TypeOK
<1>5. net' \in [Pair -> Seq(Message)]
  <2> DEFINE peers == {p \in Machine : {m, p} \in up}
             lengths == UNION {Cuts(net[<<m, p>>]) : p \in peers}
  <2>1. PICK kept \in [peers -> lengths] :
            /\ \A p \in peers : kept[p] \in Cuts(net[<<m, p>>])
            /\ net' = [p \in Pair |->
                  IF p[2] = m THEN <<>>
                  ELSE IF p[1] = m /\ p[2] \in peers
                  THEN SubSeq(net[p], 1, kept[p[2]])
                  ELSE net[p]]
    BY DEF Restart
  <2>2. ASSUME NEW p \in Pair
        PROVE  (IF p[2] = m THEN <<>>
                ELSE IF p[1] = m /\ p[2] \in peers
                THEN SubSeq(net[p], 1, kept[p[2]])
                ELSE net[p]) \in Seq(Message)
    <3>1. net[p] \in Seq(Message) /\ <<>> \in Seq(Message)
      BY DEF TypeOK
    <3>2. ASSUME p[1] = m, p[2] \in peers
          PROVE  SubSeq(net[p], 1, kept[p[2]]) \in Seq(Message)
      <4>1. p = <<m, p[2]>>
        BY <3>2 DEF Pair
      <4>2. kept[p[2]] \in Cuts(net[<<m, p[2]>>])
        BY <2>1, <3>2
      <4>3. kept[p[2]] \in 0 .. Len(net[p])
        BY <4>1, <4>2, CutType
      <4> QED
        BY <3>1, <4>3, PrefixType
    <3> HIDE DEF peers
    <3> QED
      BY <3>1, <3>2
  <2> HIDE DEF peers, lengths
  <2> QED
    BY <2>1, <2>2
<1>6. /\ faults' \in 0 .. MaxFaults
      /\ moved' \in [Machine -> 0 .. Deliberate - 1]
      /\ pinned' \in [Machine -> BOOLEAN]
      /\ sessions' \in [Machine -> SUBSET Machine]
      /\ active' \in [Machine -> SUBSET Machine] /\ up' \subseteq Link
  BY HandoverAssumption DEF Restart, TypeOK
<1>7. /\ capq' \in [Machine -> Seq(CaptureEvent)]
      /\ injq' \in [Machine -> Seq(InjectEntry)]
      /\ yielded' \in [Machine -> Seq(Machine)]
      /\ dgrams' \in [Machine -> SUBSET DatagramType({"Pointer", "Motion"})]
  BY DEF Restart, TypeOK
<1>8. pinned' = [pinned EXCEPT ![m] = FALSE] /\ UNCHANGED <<held, seen, inputs>>
  BY DEF Restart
<1> HIDE DEF c, r, os
<1>9. TypeOK'
  BY <1>4, <1>5, <1>6, <1>7, <1>8 DEF TypeOK
<1> QED
  BY <1>3, <1>8, <1>9 DEF c, os

LEMMA RestartKeeps ==
    ASSUME PointerInv, NEW m \in Machine, Restart(m)
    PROVE  PointerInv'
<1> DEFINE c == NewController(m, rcv[m].osPos)
<1>1. TypeOK' /\ ctl' = [ctl EXCEPT ![m] = c] /\ pinned' = [pinned EXCEPT ![m] = FALSE]
  BY RestartChanges DEF PointerInv
<1>2. OnDesk(c) /\ IsLocal(c)
  BY DEF NewController, OnDesk, IsLocal
<1> HIDE DEF c
<1> QED
  BY <1>1, <1>2 DEF PointerInv, PinnedWhileAway, TypeOK

-----------------------------------------------------------------------------

(***************************************************************************)
(* All together.                                                           *)
(***************************************************************************)
LEMMA PointerInit == Init => PointerInv
<1> SUFFICES ASSUME Init
             PROVE  PointerInv
  OBVIOUS
<1>1. ASSUME NEW m \in Machine
      PROVE  /\ NewController(m, 1) \in ControllerState
             /\ R!NewReceiver({}, {}, 1) \in R!ReceiverState
             /\ IsLocal(NewController(m, 1))
  BY NewControllerType, NewReceiverType, PlaceFacts DEF IsLocal, NewController
<1> DEFINE c(m) == [NewController(m, 1) EXCEPT !.layout = Machine \ {m}]
<1>2. ASSUME NEW m \in Machine
      PROVE  c(m) \in ControllerState /\ IsLocal(c(m))
  BY <1>1 DEF ControllerState, ControllerWith, IsLocal
<1>3. ctl = [m \in Machine |-> c(m)]
  BY DEF Init
<1> HIDE DEF c
<1>4. /\ ctl \in [Machine -> ControllerState]
      /\ \A m \in Machine : IsLocal(ctl[m])
  BY <1>2, <1>3
<1>5. rcv \in [Machine -> R!ReceiverState]
  BY <1>1 DEF Init
<1>6. TypeOK
  BY <1>4, <1>5, HandoverAssumption DEF Init, TypeOK
<1> QED
  BY <1>4, <1>6 DEF PointerInv, PinnedWhileAway, OnDesk, IsLocal, Init

LEMMA PointerNext == PointerInv /\ [Next]_vars => PointerInv'
<1> SUFFICES ASSUME PointerInv, [Next]_vars
             PROVE  PointerInv'
  OBVIOUS
<1>0. TypeOK
  BY DEF PointerInv
<1>1. ASSUME NEW m \in Machine, UserStep(m)
      PROVE  PointerInv'
  BY <1>1, UserKeeps
<1>2. ASSUME NEW m \in Machine, ReportDue(m)
      PROVE  PointerInv'
  BY <1>2, ReportKeeps
<1>3. ASSUME NEW m \in Machine, RunLoop(m)
      PROVE  PointerInv'
  <2>1. TypeOK'
    BY <1>0, <1>3, HearingTypes, OtherRunLoopTypes DEF RunLoop
  <2>2. UNCHANGED <<ctl, pinned>>
    BY <1>3 DEF RunLoop, Hearing, OnConnected, OnDisconnected, OnEnter, OnYield,
                OnInput, Hears, OnDatagram, OnYielded
  <2> QED
    BY <2>1, <2>2, SamePointer
<1>4. ASSUME NEW m \in Machine, Capturing(m)
      PROVE  PointerInv'
  BY <1>4, CapturingKeeps
<1>5. ASSUME NEW m \in Machine, Injecting(m)
      PROVE  PointerInv'
  <2>1. UNCHANGED <<ctl, pinned>>
    BY <1>5 DEF Injecting, InjectControl, InjectMotion, InjectDisconnected,
                InjectLocalActivity, Injects
  <2> QED
    BY <1>0, <1>5, <2>1, InjectingTypes, SamePointer
<1>6. ASSUME NEW p \in Pair, Connecting(p[1], p[2])
      PROVE  PointerInv'
  <2>1. p[1] \in Machine /\ p[2] \in Machine \ {p[1]}
    BY DEF Pair
  <2> QED
    BY <1>0, <1>6, <2>1, LinkTypes, SamePointer
<1>7. ASSUME NEW m \in Machine, Restart(m)
      PROVE  PointerInv'
  BY <1>7, RestartKeeps
<1>8. CASE Rest \/ UNCHANGED vars
  BY <1>8 DEF Rest, vars, user, links, PointerInv, PinnedWhileAway, TypeOK
<1> QED
  BY <1>1, <1>2, <1>3, <1>4, <1>5, <1>6, <1>7, <1>8 DEF Next

LEMMA PointerAlways == Spec => []PointerInv
BY PointerInit, PointerNext, PTL DEF Spec

(* Whatever the users do, whatever is lost, fails or is killed: every      *)
(* queue holds only what its thread understands, every datagram comes from *)
(* a machine, and every pointer stays on the screens (controller.rs,       *)
(* receiver.rs, run.rs).                                                   *)
THEOREM Types == Spec => []TypeOK
BY PointerAlways, PTL DEF PointerInv

(* On every machine, the OS pointer is pinned and hidden exactly while the *)
(* pointer is on a peer, whatever is lost, fails or is killed: each        *)
(* handler that moves it pushes the matching action (capture_pointer,      *)
(* release_pointer, unpark in controller.rs).                              *)
THEOREM PinnedRight == Spec => []PinnedWhileAway
BY PointerAlways, PTL DEF PointerInv

-----------------------------------------------------------------------------

(***************************************************************************)
(* What the user holds, and where it went.  A machine that is killed       *)
(* forgets where; without that, the routes are of what is held, and those  *)
(* to this machine of what its OS saw go down.                             *)
(***************************************************************************)
NotKilled == \A m \in Machine : ~Restart(m)

RouteOf(c, i) == IF i \in Key THEN c.keys[i] ELSE c.buttons[i]

HeldRoutes ==
    \A m \in Machine, i \in Item :
        /\ i \in held[m] <=> RouteOf(ctl[m], i) # "none"
        /\ i \in seen[m] <=> RouteOf(ctl[m], i) = "local"

HeldInv == PointerInv /\ HeldRoutes

LEMMA KeptRoutes ==
    ASSUME NEW c, NEW d, RoutesKept(c, d), NEW i \in Item
    PROVE  /\ RouteOf(c, i) = "none" <=> RouteOf(d, i) = "none"
           /\ RouteOf(c, i) = "local" <=> RouteOf(d, i) = "local"
BY ControllerAssumption DEF RoutesKept, RouteOf, Item

LEMMA RoutesAfter ==
    ASSUME TypeOK, NEW m \in Machine, NEW d \in Working, Perform(m, d), NEW i
    PROVE  /\ RouteOf(ctl'[m], i) = RouteOf(d, i)
           /\ \A x \in Machine \ {m} : RouteOf(ctl'[x], i) = RouteOf(ctl[x], i)
BY Performs DEF RouteOf

LEMMA HeldKept ==
    ASSUME HeldInv, NEW m \in Machine, NEW d \in Working, RoutesKept(ctl[m], d),
           Perform(m, d), UNCHANGED <<held, seen>>
    PROVE  HeldRoutes'
<1>1. TypeOK /\ HeldRoutes
  BY DEF HeldInv, PointerInv
<1>2. ASSUME NEW x \in Machine, NEW i \in Item
      PROVE  /\ i \in held'[x] <=> RouteOf(ctl'[x], i) # "none"
             /\ i \in seen'[x] <=> RouteOf(ctl'[x], i) = "local"
  <2>1. /\ i \in held[x] <=> RouteOf(ctl[x], i) # "none"
        /\ i \in seen[x] <=> RouteOf(ctl[x], i) = "local"
    BY <1>1 DEF HeldRoutes
  <2>2. CASE x = m
    BY <1>1, <2>1, <2>2, RoutesAfter, KeptRoutes
  <2>3. CASE x # m
    BY <1>1, <2>1, <2>3, RoutesAfter
  <2> QED
    BY <2>2, <2>3
<1> QED
  BY <1>2 DEF HeldRoutes

(* A button the user holds blocks a crossing if the setting says so. *)
Blocked(m) == BlockWhileHeld /\ held[m] \intersect Button # {}

LEMMA HeldBlocks ==
    ASSUME HeldInv, NEW m \in Machine, Blocked(m)
    PROVE  SwitchBlocked(ctl[m])
<1>1. PICK b \in Button : b \in held[m]
  BY DEF Blocked
<1>2. b \in Item /\ b \notin Key
  BY HandoverAssumption DEF Item
<1>3. ctl[m].buttons[b] # "none"
  BY <1>1, <1>2 DEF HeldInv, HeldRoutes, RouteOf
<1> QED
  BY <1>3 DEF SwitchBlocked, Blocked

LEMMA MovesHeld ==
    ASSUME HeldInv, NEW m \in Machine, NEW dir \in Dir, NEW paused, NEW expired,
           NEW recent, UserMoves(m, dir, paused, expired, recent)
    PROVE  HeldRoutes' /\ (Blocked(m) => ctl'[m].peer = ctl[m].peer)
<1> DEFINE pos == Clamp(Step(rcv[m].osPos, dir))
           d == LocalMotion(ctl[m], pos, dir, expired, recent)
<1>0. PointerInv /\ TypeOK /\ UNCHANGED <<held, seen>>
  BY DEF HeldInv, PointerInv, UserMoves
<1>1. pos \in Place
  BY <1>0, OwnController, PlaceFacts DEF Step, Place
<1> HIDE DEF pos
<1>2. CASE IsLocal(ctl[m])
  <2>1. Turns(ctl[m], d) /\ (SwitchBlocked(ctl[m]) => d.peer = ctl[m].peer)
    BY <1>0, <1>1, <1>2, OwnController, LocalMotionTurns
  <2>2. Perform(m, d)
    BY <1>2 DEF UserMoves, PerformAt, pos
  <2> HIDE DEF d
  <2>3. ctl'[m].peer = d.peer
    BY <1>0, <2>1, <2>2, Performs DEF Turns
  <2> QED
    BY <1>0, <2>1, <2>2, <2>3, HeldKept, HeldBlocks DEF Turns
<1>3. CASE ~IsLocal(ctl[m])
  <2>1. Perform(m, ctl[m]) /\ ctl[m] \in Working
    BY <1>0, <1>3, OwnController DEF UserMoves, PerformAt
  <2>2. ctl'[m].peer = ctl[m].peer
    BY <1>0, <2>1, Performs
  <2> QED
    BY <1>0, <2>1, <2>2, HeldKept, SameRoutesKept
<1> QED
  BY <1>2, <1>3

LEMMA PinnedMovesHeld ==
    ASSUME HeldInv, NEW m \in Machine, NEW dir \in Dir, NEW expired,
           UserMovesPinned(m, dir, expired)
    PROVE  HeldRoutes' /\ (Blocked(m) => ctl'[m].peer = ctl[m].peer)
<1> DEFINE d == CapturedMotion(ctl[m], dir, expired)
<1>0. PointerInv /\ TypeOK /\ UNCHANGED <<held, seen>>
  BY DEF HeldInv, PointerInv, UserMovesPinned
<1>1. Turns(ctl[m], d) /\ (SwitchBlocked(ctl[m]) => d.peer = ctl[m].peer)
  BY <1>0, OwnController, CapturedMotionTurns
<1>2. Perform(m, d)
  BY DEF UserMovesPinned, PerformAt
<1> HIDE DEF d
<1>3. ctl'[m].peer = d.peer
  BY <1>0, <1>1, <1>2, Performs DEF Turns
<1> QED
  BY <1>0, <1>1, <1>2, <1>3, HeldKept, HeldBlocks DEF Turns

LEMMA PressHeld ==
    ASSUME HeldInv, NEW m \in Machine, NEW i \in Item, UserPresses(m, i)
    PROVE  HeldRoutes' /\ ctl'[m].peer = ctl[m].peer
<1> DEFINE c == ctl[m]
           d == IF i \in Key THEN PressKey(c, i) ELSE PressButton(c, i)
<1>0. /\ PointerInv /\ TypeOK /\ HeldRoutes
      /\ c \in Working
      /\ held \in [Machine -> SUBSET Item] /\ seen \in [Machine -> SUBSET Item]
  BY OwnController DEF HeldInv, PointerInv, TypeOK
<1>1. i \notin held[m] /\ RouteOf(c, i) = "none"
  BY <1>0 DEF UserPresses, HeldRoutes
<1>2. /\ d \in Working /\ d.peer = c.peer
      /\ RouteOf(d, i) = CurrentRoute(c)
      /\ \A j \in Item \ {i} : RouteOf(d, j) = RouteOf(c, j)
  <2>1. CASE i \in Key
    <3>1. c.keys[i] = "none" /\ d = PressKey(c, i)
      BY <1>1, <2>1 DEF RouteOf
    <3>2. /\ Stays(c, d) /\ d.buttons = c.buttons
          /\ \A j \in Key \ {i} : d.keys[j] = c.keys[j]
          /\ d.keys[i] = CurrentRoute(c)
      BY <1>0, <2>1, <3>1, PressKeyStays
    <3> HIDE DEF c, d
    <3> QED
      BY <2>1, <3>2 DEF Stays, RouteOf
  <2>2. CASE i \notin Key
    <3>1. d = PressButton(c, i) /\ i \in Button
      BY <2>2 DEF Item
    <3>2. /\ Stays(c, d) /\ d.keys = c.keys
          /\ \A j \in Button : d.buttons[j] = IF j = i THEN CurrentRoute(c)
                                              ELSE c.buttons[j]
      BY <1>0, <3>1, PressButtonStays
    <3> HIDE DEF c, d
    <3> QED
      BY <2>2, <3>1, <3>2 DEF Stays, RouteOf, Item
  <2> QED
    BY <2>1, <2>2
<1>3. CurrentRoute(c) # "none"
  BY <1>0, RouteTypes
<1>4. /\ Perform(m, d)
      /\ held' = [held EXCEPT ![m] = @ \union {i}]
      /\ seen' = [seen EXCEPT ![m] = IF RouteOf(d, i) = "local" THEN @ \union {i} ELSE @]
  BY DEF UserPresses, PerformAt, RouteOf
<1> HIDE DEF d
<1>5. /\ \A j : RouteOf(ctl'[m], j) = RouteOf(d, j)
      /\ \A x \in Machine \ {m} : \A j : RouteOf(ctl'[x], j) = RouteOf(ctl[x], j)
      /\ ctl'[m].peer = d.peer
  BY <1>0, <1>2, <1>4, RoutesAfter, Performs
<1>6. ASSUME NEW x \in Machine, NEW j \in Item
      PROVE  /\ j \in held'[x] <=> RouteOf(ctl'[x], j) # "none"
             /\ j \in seen'[x] <=> RouteOf(ctl'[x], j) = "local"
  <2>1. /\ j \in held[x] <=> RouteOf(ctl[x], j) # "none"
        /\ j \in seen[x] <=> RouteOf(ctl[x], j) = "local"
    BY <1>0 DEF HeldRoutes
  <2> QED
    BY <1>0, <1>1, <1>2, <1>3, <1>4, <1>5, <2>1
<1> QED
  BY <1>2, <1>5, <1>6 DEF HeldRoutes

LEMMA ReleaseHeld ==
    ASSUME HeldInv, NEW m \in Machine, NEW i \in Item, UserReleases(m, i)
    PROVE  HeldRoutes' /\ ctl'[m].peer = ctl[m].peer
<1> DEFINE c == ctl[m]
           d == IF i \in Key THEN ReleaseKey(c, i) ELSE ReleaseButton(c, i)
<1>0. /\ PointerInv /\ TypeOK /\ HeldRoutes
      /\ c \in Working
      /\ held \in [Machine -> SUBSET Item] /\ seen \in [Machine -> SUBSET Item]
  BY OwnController DEF HeldInv, PointerInv, TypeOK
<1>1. i \in held[m] /\ RouteOf(c, i) # "none"
  BY <1>0 DEF UserReleases, HeldRoutes
<1>2. /\ d \in Working /\ d.peer = c.peer
      /\ RouteOf(d, i) = "none"
      /\ \A j \in Item \ {i} : RouteOf(d, j) = RouteOf(c, j)
  <2>1. CASE i \in Key
    <3>1. d = ReleaseKey(c, i)
      BY <2>1
    <3>2. /\ Stays(c, d) /\ d.buttons = c.buttons
          /\ \A j \in Key : d.keys[j] = IF j = i THEN "none" ELSE c.keys[j]
      BY <1>0, <2>1, <3>1, ReleaseKeyStays
    <3> HIDE DEF c, d
    <3> QED
      BY <2>1, <3>2 DEF Stays, RouteOf
  <2>2. CASE i \notin Key
    <3>1. d = ReleaseButton(c, i) /\ i \in Button
      BY <2>2 DEF Item
    <3>2. /\ Stays(c, d) /\ d.keys = c.keys
          /\ \A j \in Button : d.buttons[j] = IF j = i THEN "none" ELSE c.buttons[j]
      BY <1>0, <3>1, ReleaseButtonStays
    <3> HIDE DEF c, d
    <3> QED
      BY <2>2, <3>1, <3>2 DEF Stays, RouteOf, Item
  <2> QED
    BY <2>1, <2>2
<1>3. /\ Perform(m, d)
      /\ held' = [held EXCEPT ![m] = @ \ {i}]
      /\ seen' = [seen EXCEPT ![m] = IF RouteOf(c, i) = "local" THEN @ \ {i} ELSE @]
  BY <1>1 DEF UserReleases, PerformAt, RouteOf, Passes
<1> HIDE DEF d
<1>4. /\ \A j : RouteOf(ctl'[m], j) = RouteOf(d, j)
      /\ \A x \in Machine \ {m} : \A j : RouteOf(ctl'[x], j) = RouteOf(ctl[x], j)
      /\ ctl'[m].peer = d.peer
  BY <1>0, <1>2, <1>3, RoutesAfter, Performs
<1>5. ASSUME NEW x \in Machine, NEW j \in Item
      PROVE  /\ j \in held'[x] <=> RouteOf(ctl'[x], j) # "none"
             /\ j \in seen'[x] <=> RouteOf(ctl'[x], j) = "local"
  <2>1. /\ j \in held[x] <=> RouteOf(ctl[x], j) # "none"
        /\ j \in seen[x] <=> RouteOf(ctl[x], j) = "local"
    BY <1>0 DEF HeldRoutes
  <2> QED
    BY <1>0, <1>1, <1>2, <1>3, <1>4, <2>1
<1> QED
  BY <1>2, <1>4, <1>5 DEF HeldRoutes

LEMMA UserHeld ==
    ASSUME HeldInv, NEW m \in Machine, UserStep(m)
    PROVE  HeldRoutes' /\ (Blocked(m) => ctl'[m].peer = ctl[m].peer)
BY MovesHeld, PinnedMovesHeld, PressHeld, ReleaseHeld DEF UserStep

(* What touches neither controllers nor the users' input. *)
OtherStep(m) == RunLoop(m) \/ Injecting(m)

LEMMA OtherSteps ==
    /\ \A m \in Machine : OtherStep(m) => UNCHANGED <<ctl, pinned, user>>
    /\ \A p \in Pair : Connecting(p[1], p[2])
                         => UNCHANGED <<ctl, pinned, user>>
<1>1. \A m \in Machine : Hearing(m) => UNCHANGED <<ctl, pinned, user>>
  <2>1. \A m, p, t : Hears(p, m, t) => UNCHANGED <<ctl, pinned, user>>
    BY DEF Hears
  <2> QED
    BY <2>1 DEF Hearing, OnConnected, OnDisconnected, OnEnter, OnYield, OnInput
<1>4. \A m \in Machine : RunLoop(m) => UNCHANGED <<ctl, pinned, user>>
  BY <1>1 DEF RunLoop, OnDatagram, OnYielded
<1>2. \A m \in Machine : Injecting(m) => UNCHANGED <<ctl, pinned, user>>
  BY DEF Injecting, InjectControl, InjectMotion, InjectDisconnected,
         InjectLocalActivity, Injects
<1>3. \A p \in Pair : Connecting(p[1], p[2])
                        => UNCHANGED <<ctl, pinned, user>>
  BY DEF Connecting, LinkFails, EndNoticed, Reconnect
<1> QED
  BY <1>2, <1>3, <1>4 DEF OtherStep

LEMMA HeldNext == HeldInv /\ [Next]_vars /\ [NotKilled]_vars => HeldInv'
<1> SUFFICES ASSUME HeldInv, [Next]_vars, [NotKilled]_vars
             PROVE  HeldRoutes'
  BY PointerNext DEF HeldInv
<1>0. PointerInv /\ TypeOK /\ HeldRoutes
  BY DEF HeldInv, PointerInv
<1>1. ASSUME NEW m \in Machine, UserStep(m)
      PROVE  HeldRoutes'
  BY <1>1, UserHeld
<1>2. ASSUME NEW m \in Machine, ReportDue(m)
      PROVE  HeldRoutes'
  <2>1. PICK d \in Working : RoutesKept(ctl[m], d) /\ Perform(m, d)
    BY <1>0, <1>2, ReportActs
  <2>2. UNCHANGED <<held, seen>>
    BY <1>2 DEF ReportDue, user
  <2> QED
    BY <2>1, <2>2, HeldKept
<1>3. ASSUME NEW m \in Machine, Capturing(m)
      PROVE  HeldRoutes'
  <2> DEFINE d == Handled(ctl[m], Head(capq[m]))
  <2>1. capq[m] # <<>> /\ Perform(m, d) /\ UNCHANGED <<held, seen>>
    BY <1>3 DEF Capturing, PerformAt, user
  <2>2. Turns(ctl[m], d)
    BY <1>0, <2>1, CaptureHead, HandledTurns, OwnController
  <2> HIDE DEF d
  <2> QED
    BY <2>1, <2>2, HeldKept DEF Turns
<1>4. ASSUME UNCHANGED <<ctl, user>>
      PROVE  HeldRoutes'
  BY <1>0, <1>4 DEF HeldRoutes, user
<1>5. ASSUME NEW m \in Machine, Restart(m)
      PROVE  HeldRoutes'
  BY <1>4, <1>5 DEF NotKilled, vars
<1>6. CASE Rest \/ UNCHANGED vars
  BY <1>4, <1>6 DEF Rest, vars
<1> QED
  BY <1>1, <1>2, <1>3, <1>4, <1>5, <1>6, OtherSteps DEF Next, OtherStep

LEMMA HeldInit == Init => HeldInv
<1> SUFFICES ASSUME Init
             PROVE  HeldInv
  OBVIOUS
<1>1. ASSUME NEW m \in Machine, NEW i \in Item
      PROVE  RouteOf(ctl[m], i) = "none" /\ held[m] = {} /\ seen[m] = {}
  <2>1. ctl[m] = [NewController(m, 1) EXCEPT !.layout = Machine \ {m}]
        /\ held[m] = {} /\ seen[m] = {}
    BY DEF Init
  <2>2. ctl[m].keys = [k \in Key |-> "none"] /\ ctl[m].buttons = [b \in Button |-> "none"]
    BY <2>1 DEF NewController
  <2> QED
    BY <2>1, <2>2 DEF RouteOf, Item
<1> QED
  BY <1>1, PointerInit DEF HeldInv, HeldRoutes

(* Unless the program is killed, whose new controller knows of no keys,    *)
(* what this machine's OS saw go down is still held, or was seen going up, *)
(* wherever the pointer went meanwhile and whatever peers did to routes    *)
(* (key, button and drop_routes in controller.rs).                         *)
THEOREM SeenComesUp == Spec /\ [][NotKilled]_vars => []LocalReleasesSeen
<1>1. HeldInv => LocalReleasesSeen
  <2> SUFFICES ASSUME HeldInv, NEW m \in Machine
               PROVE  seen[m] \subseteq held[m]
    BY DEF LocalReleasesSeen
  <2>1. HeldRoutes /\ seen[m] \subseteq Item
    BY DEF HeldInv, PointerInv, TypeOK
  <2> QED
    BY <2>1 DEF HeldRoutes
<1> QED
  BY <1>1, HeldInit, HeldNext, PTL DEF Spec

(* Unless the program is killed, the user's own input takes the pointer    *)
(* nowhere while a button is held and block_switch_while_button_held is    *)
(* set, also after a peer's Yield or loss dropped the button's route       *)
(* (switch_blocked, drop_routes in controller.rs).                         *)
THEOREM ButtonKeepsPointer == Spec /\ [][NotKilled]_vars => HeldButtonKeepsPointer
<1> DEFINE A == \A m \in Machine :
                  BlockWhileHeld /\ held[m] \intersect Button # {} /\ inputs' # inputs
                    => ctl'[m].peer = ctl[m].peer
<1>1. HeldInv /\ [Next]_vars /\ [NotKilled]_vars => [A]_vars
  <2> SUFFICES ASSUME HeldInv, Next, NotKilled, NEW m \in Machine,
                      Blocked(m), inputs' # inputs
               PROVE  ctl'[m].peer = ctl[m].peer
    BY DEF Blocked, vars, user
  <2>0. PointerInv /\ TypeOK
    BY DEF HeldInv, PointerInv
  <2>1. PICK x \in Machine : UserStep(x)
    <3>1. \A x \in Machine : Capturing(x) \/ ReportDue(x) => inputs' = inputs
      BY DEF Capturing, ReportDue, user
    <3>2. UNCHANGED user => inputs' = inputs
      BY DEF user
    <3>3. Rest => inputs' = inputs
      BY DEF Rest, vars, user
    <3> QED
      BY <3>1, <3>2, <3>3, OtherSteps DEF Next, NotKilled, OtherStep
  <2>2. CASE x = m
    BY <2>1, <2>2, UserHeld
  <2>3. CASE x # m
    <3>1. PICK d \in Working, y \in Place : PerformAt(x, d, y)
      BY <2>0, <2>1, UserActs DEF ActsAt
    <3> QED
      BY <2>0, <2>3, <3>1, Performs DEF PerformAt
  <2> QED
    BY <2>2, <2>3
<1> QED
  BY <1>1, HeldInit, HeldNext, PTL DEF Spec, HeldButtonKeepsPointer

-----------------------------------------------------------------------------

(***************************************************************************)
(* What a run loop will know of a connection once it has heard n of what   *)
(* has arrived from p: the latest of Connected and Disconnected, or its    *)
(* session table if there is neither.                                      *)
(***************************************************************************)
UpAfter(q, n, peers, p) ==
    \E i \in 0 .. n :
        /\ i = 0 => p \in peers
        /\ i # 0 => q[i].type = "Connected"
        /\ \A j \in (i + 1) .. n : q[j].type # "Disconnected"


(* An Enter is heard only while its sender has a session. *)
EntersUp(q, peers, p) ==
    \A n \in 1 .. Len(q) : q[n].type = "Enter" => UpAfter(q, n, peers, p)

LEMMA UpSame ==
    ASSUME NEW q, NEW r, NEW n \in Nat, \A i \in 1 .. n : q[i] = r[i], NEW S, NEW p,
           UpAfter(q, n, S, p)
    PROVE  UpAfter(r, n, S, p)
BY DEF UpAfter

LEMMA UpQuiet ==
    ASSUME NEW q, NEW n \in Nat, NEW k \in Nat, n <= k, NEW S, NEW p,
           \A i \in (n + 1) .. k : q[i].type \notin News
    PROVE  UpAfter(q, k, S, p) <=> UpAfter(q, n, S, p)
<1>1. ASSUME UpAfter(q, k, S, p)
      PROVE  UpAfter(q, n, S, p)
  <2>1. PICK i \in 0 .. k :
            /\ i = 0 => p \in S
            /\ i # 0 => q[i].type = "Connected"
            /\ \A j \in (i + 1) .. k : q[j].type # "Disconnected"
    BY <1>1 DEF UpAfter
  <2>2. i \in 0 .. n
    BY <2>1 DEF News
  <2> QED
    BY <2>1, <2>2 DEF UpAfter
<1>2. ASSUME UpAfter(q, n, S, p)
      PROVE  UpAfter(q, k, S, p)
  <2>1. PICK i \in 0 .. n :
            /\ i = 0 => p \in S
            /\ i # 0 => q[i].type = "Connected"
            /\ \A j \in (i + 1) .. n : q[j].type # "Disconnected"
    BY <1>2 DEF UpAfter
  <2>2. \A j \in (i + 1) .. k : q[j].type # "Disconnected"
    BY <2>1 DEF News
  <2>3. i \in 0 .. k
    BY <2>1
  <2> QED
    BY <2>1, <2>2, <2>3 DEF UpAfter
<1> QED
  BY <1>1, <1>2

LEMMA UpByNews ==
    ASSUME NEW q, NEW n \in Nat \ {0}, NEW S, NEW p
    PROVE  /\ q[n].type = "Connected" => UpAfter(q, n, S, p)
           /\ q[n].type = "Disconnected" => ~UpAfter(q, n, S, p)
<1>1. ASSUME q[n].type = "Connected"
      PROVE  UpAfter(q, n, S, p)
  <2>1. n \in 0 .. n /\ n # 0 /\ \A j \in (n + 1) .. n : FALSE
    OBVIOUS
  <2> QED
    BY <1>1, <2>1 DEF UpAfter
<1>2. ASSUME q[n].type = "Disconnected", UpAfter(q, n, S, p)
      PROVE  FALSE
  <2>1. PICK i \in 0 .. n :
            /\ i # 0 => q[i].type = "Connected"
            /\ \A j \in (i + 1) .. n : q[j].type # "Disconnected"
    BY <1>2 DEF UpAfter
  <2>2. i = n
    BY <1>2, <2>1
  <2> QED
    BY <1>2, <2>1, <2>2
<1> QED
  BY <1>1, <1>2

(* S and T: the session table before and after the first is heard. *)
LEMMA UpShift ==
    ASSUME NEW q, NEW r, NEW n \in Nat \ {0}, NEW S, NEW T, NEW p,
           \A i \in 1 .. (n - 1) : r[i] = q[i + 1],
           p \in T <=> UpAfter(q, 1, S, p)
    PROVE  UpAfter(r, n - 1, T, p) <=> UpAfter(q, n, S, p)
<1>1. ASSUME UpAfter(r, n - 1, T, p)
      PROVE  UpAfter(q, n, S, p)
  <2>1. PICK i \in 0 .. (n - 1) :
            /\ i = 0 => p \in T
            /\ i # 0 => r[i].type = "Connected"
            /\ \A j \in (i + 1) .. (n - 1) : r[j].type # "Disconnected"
    BY <1>1 DEF UpAfter
  <2>2. \A j \in (i + 2) .. n : q[j].type # "Disconnected"
    <3> SUFFICES ASSUME NEW j \in (i + 2) .. n
                 PROVE  q[j].type # "Disconnected"
      OBVIOUS
    <3>1. (j - 1) \in (i + 1) .. (n - 1) /\ (j - 1) \in 1 .. (n - 1) /\ (j - 1) + 1 = j
      BY <2>1
    <3> QED
      BY <2>1, <3>1
  <2>3. CASE i = 0
    <3>1. PICK k \in 0 .. 1 :
            /\ k = 0 => p \in S
            /\ k # 0 => q[k].type = "Connected"
            /\ \A j \in (k + 1) .. 1 : q[j].type # "Disconnected"
      BY <2>1, <2>3 DEF UpAfter
    <3>2. \A j \in (k + 1) .. n : q[j].type # "Disconnected"
      BY <2>2, <2>3, <3>1
    <3>3. k \in 0 .. n
      OBVIOUS
    <3> QED
      BY <3>1, <3>2, <3>3 DEF UpAfter
  <2>4. CASE i # 0
    <3>1. i + 1 \in 0 .. n /\ i + 1 # 0 /\ q[i + 1].type = "Connected"
      BY <2>1, <2>4
    <3>2. \A j \in (i + 1 + 1) .. n : q[j].type # "Disconnected"
      BY <2>2
    <3> QED
      BY <3>1, <3>2 DEF UpAfter
  <2> QED
    BY <2>3, <2>4
<1>2. ASSUME UpAfter(q, n, S, p)
      PROVE  UpAfter(r, n - 1, T, p)
  <2>1. PICK k \in 0 .. n :
            /\ k = 0 => p \in S
            /\ k # 0 => q[k].type = "Connected"
            /\ \A j \in (k + 1) .. n : q[j].type # "Disconnected"
    BY <1>2 DEF UpAfter
  <2>2. \A j \in 1 .. (n - 1) : k <= j => r[j].type # "Disconnected"
    <3> SUFFICES ASSUME NEW j \in 1 .. (n - 1), k <= j
                 PROVE  r[j].type # "Disconnected"
      OBVIOUS
    <3>1. j + 1 \in (k + 1) .. n
      BY <2>1
    <3> QED
      BY <2>1, <3>1
  <2>3. CASE k \in 0 .. 1
    <3>1. \A j \in (k + 1) .. 1 : q[j].type # "Disconnected"
      BY <2>1
    <3>2. p \in T
      BY <2>1, <2>3, <3>1 DEF UpAfter
    <3>3. \A j \in (0 + 1) .. (n - 1) : r[j].type # "Disconnected"
      BY <2>2, <2>3
    <3>4. 0 \in 0 .. (n - 1)
      OBVIOUS
    <3> QED
      BY <3>2, <3>3, <3>4 DEF UpAfter
  <2>4. CASE k \notin 0 .. 1
    <3>1. k - 1 \in 1 .. (n - 1) /\ (k - 1) + 1 = k
      BY <2>1, <2>4
    <3>2. r[k - 1].type = "Connected"
      BY <2>1, <2>4, <3>1
    <3>3. \A j \in ((k - 1) + 1) .. (n - 1) : r[j].type # "Disconnected"
      BY <2>2, <3>1
    <3>4. k - 1 \in 0 .. (n - 1) /\ k - 1 # 0
      BY <3>1
    <3> QED
      BY <3>2, <3>3, <3>4 DEF UpAfter
  <2> QED
    BY <2>3, <2>4
<1> QED
  BY <1>1, <1>2

(***************************************************************************)
(* The same for queues: what is heard, sent, lost and told.                *)
(***************************************************************************)
LEMMA HeardOne ==
    ASSUME NEW q \in Seq(Message), q # <<>>, NEW S, NEW T, NEW p,
           p \in T <=> UpAfter(q, 1, S, p)
    PROVE  /\ UpAfter(Tail(q), Len(Tail(q)), T, p) <=> UpAfter(q, Len(q), S, p)
           /\ EntersUp(q, S, p) => EntersUp(Tail(q), T, p)
<1> DEFINE r == Tail(q)
<1>1. /\ Len(q) \in Nat \ {0} /\ Len(r) = Len(q) - 1
      /\ \A i \in 1 .. Len(r) : r[i] = q[i + 1]
  OBVIOUS
<1> HIDE DEF r
<1>2. \A n \in 1 .. Len(q) : UpAfter(r, n - 1, T, p) <=> UpAfter(q, n, S, p)
  <2> SUFFICES ASSUME NEW n \in 1 .. Len(q)
               PROVE  UpAfter(r, n - 1, T, p) <=> UpAfter(q, n, S, p)
    OBVIOUS
  <2>1. n \in Nat \ {0} /\ \A i \in 1 .. (n - 1) : r[i] = q[i + 1]
    BY <1>1
  <2> QED
    BY <2>1, UpShift
<1>3. UpAfter(r, Len(r), T, p) <=> UpAfter(q, Len(q), S, p)
  BY <1>1, <1>2
<1>4. ASSUME EntersUp(q, S, p)
      PROVE  EntersUp(r, T, p)
  <2> SUFFICES ASSUME NEW n \in 1 .. Len(r), r[n].type = "Enter"
               PROVE  UpAfter(r, n, T, p)
    BY DEF EntersUp
  <2>1. n + 1 \in 1 .. Len(q) /\ (n + 1) - 1 = n /\ q[n + 1].type = "Enter"
    BY <1>1
  <2>2. UpAfter(q, n + 1, S, p)
    BY <1>4, <2>1 DEF EntersUp
  <2> QED
    BY <1>2, <2>1, <2>2
<1> QED
  BY <1>3, <1>4 DEF r

LEMMA SentMore ==
    ASSUME NEW q \in Seq(Message), NEW s \in Seq(Message), NEW S, NEW p,
           \A i \in 1 .. Len(s) : s[i].type \notin News
    PROVE  /\ UpAfter(q \o s, Len(q \o s), S, p) <=> UpAfter(q, Len(q), S, p)
           /\ EntersUp(q, S, p) /\ UpAfter(q, Len(q), S, p) => EntersUp(q \o s, S, p)
<1> DEFINE r == q \o s
<1>1. /\ Len(q) \in Nat /\ Len(r) \in Nat /\ Len(q) <= Len(r)
      /\ \A i \in 1 .. Len(q) : r[i] = q[i]
      /\ \A i \in (Len(q) + 1) .. Len(r) : r[i] = s[i - Len(q)]
      /\ \A i \in (Len(q) + 1) .. Len(r) : i - Len(q) \in 1 .. Len(s)
  OBVIOUS
<1> HIDE DEF r
<1>2. \A i \in (Len(q) + 1) .. Len(r) : r[i].type \notin News
  BY <1>1
<1>3. \A n \in Len(q) .. Len(r) : UpAfter(r, n, S, p) <=> UpAfter(q, Len(q), S, p)
  <2> SUFFICES ASSUME NEW n \in Len(q) .. Len(r)
               PROVE  UpAfter(r, n, S, p) <=> UpAfter(q, Len(q), S, p)
    OBVIOUS
  <2>1. n \in Nat /\ Len(q) <= n /\ \A i \in (Len(q) + 1) .. n : r[i].type \notin News
    BY <1>1, <1>2
  <2>2. UpAfter(r, n, S, p) <=> UpAfter(r, Len(q), S, p)
    BY <1>1, <2>1, UpQuiet
  <2>3. UpAfter(r, Len(q), S, p) <=> UpAfter(q, Len(q), S, p)
    BY <1>1, UpSame
  <2> QED
    BY <2>2, <2>3
<1>4. UpAfter(r, Len(r), S, p) <=> UpAfter(q, Len(q), S, p)
  BY <1>1, <1>3
<1>5. ASSUME EntersUp(q, S, p), UpAfter(q, Len(q), S, p)
      PROVE  EntersUp(r, S, p)
  <2> SUFFICES ASSUME NEW n \in 1 .. Len(r), r[n].type = "Enter"
               PROVE  UpAfter(r, n, S, p)
    BY DEF EntersUp
  <2>1. CASE n <= Len(q)
    <3>1. n \in 1 .. Len(q) /\ q[n].type = "Enter" /\ \A i \in 1 .. n : q[i] = r[i]
      BY <1>1, <2>1
    <3> QED
      BY <1>5, <3>1, UpSame, SMTT(30) DEF EntersUp
  <2>2. CASE ~(n <= Len(q))
    BY <1>1, <1>3, <1>5, <2>2
  <2> QED
    BY <2>1, <2>2
<1> QED
  BY <1>4, <1>5 DEF r

LEMMA CutShort ==
    ASSUME NEW q \in Seq(Message), NEW k \in 0 .. Len(q), NEW S, NEW p, EntersUp(q, S, p)
    PROVE  EntersUp(SubSeq(q, 1, k), S, p)
<1> DEFINE r == SubSeq(q, 1, k)
<1>1. Len(r) = k /\ \A i \in 1 .. k : r[i] = q[i]
  OBVIOUS
<1> HIDE DEF r
<1>2. ASSUME NEW n \in 1 .. Len(r), r[n].type = "Enter"
      PROVE  UpAfter(r, n, S, p)
  <2>1. n \in 1 .. Len(q) /\ q[n].type = "Enter" /\ \A i \in 1 .. n : q[i] = r[i]
    BY <1>1, <1>2
  <2> QED
    BY <2>1, UpSame DEF EntersUp
<1> QED
  BY <1>2 DEF EntersUp, r

LEMMA Told ==
    ASSUME NEW q \in Seq(Message), NEW S, NEW p, EntersUp(q, S, p), NEW type \in News
    PROVE  LET r == q \o << [type |-> type] >>
           IN  /\ UpAfter(r, Len(r), S, p) <=> type = "Connected"
               /\ EntersUp(r, S, p)
<1> DEFINE r == q \o << [type |-> type] >>
<1>1. /\ Len(r) = Len(q) + 1 /\ Len(q) \in Nat
      /\ \A i \in 1 .. Len(q) : r[i] = q[i]
      /\ r[Len(q) + 1].type = type
  OBVIOUS
<1> HIDE DEF r
<1>2. UpAfter(r, Len(r), S, p) <=> type = "Connected"
  BY <1>1, UpByNews DEF News
<1>3. ASSUME NEW n \in 1 .. Len(r), r[n].type = "Enter"
      PROVE  UpAfter(r, n, S, p)
  <2>1. n \in 1 .. Len(q)
    BY <1>1, <1>3 DEF News
  <2>2. q[n].type = "Enter" /\ \A i \in 1 .. n : q[i] = r[i]
    BY <1>1, <1>3, <2>1
  <2> QED
    BY <2>1, <2>2, UpSame DEF EntersUp
<1>4. EntersUp(r, S, p)
  BY <1>3 DEF EntersUp
<1> QED
  BY <1>2, <1>4 DEF r

LEMMA NothingHeard ==
    ASSUME NEW S, NEW p
    PROVE  /\ UpAfter(<<>>, Len(<<>>), S, p) <=> p \in S
           /\ EntersUp(<<>>, S, p)
BY DEF UpAfter, EntersUp

-----------------------------------------------------------------------------

(***************************************************************************)
(* Session tables and what is on its way to them agree with the sessions   *)
(* of the network task; a machine that dials has noticed that the old      *)
(* session ended before a new one starts.                                  *)
(***************************************************************************)
ConnectsDown(q, peers, p) ==
    \A n \in 1 .. Len(q) : q[n].type = "Connected" => ~UpAfter(q, n - 1, peers, p)

NetOK(p) ==
    /\ UpAfter(net[p], Len(net[p]), sessions[p[2]], p[1]) <=> p[1] \in active[p[2]]
    /\ EntersUp(net[p], sessions[p[2]], p[1])

ComesDown(p) == ConnectsDown(net[p], sessions[p[2]], p[1])

NetInv ==
    \A p \in Pair :
        /\ NetOK(p)
        /\ {p[1], p[2]} \in up => p[1] \in active[p[2]]
        /\ Dials(p[2], p[1]) => ComesDown(p)

LinkInv ==
    /\ PointerInv
    /\ \A m \in Machine : m \notin sessions[m]
    /\ NetInv

LEMMA PairParts ==
    ASSUME NEW p \in Pair
    PROVE  /\ p = <<p[1], p[2]>> /\ p[1] \in Machine /\ p[2] \in Machine /\ p[1] # p[2]
           /\ \A a, b : {p[1], p[2]} = {a, b} => p = <<a, b>> \/ p = <<b, a>>
<1>1. p = <<p[1], p[2]>> /\ p[1] \in Machine /\ p[2] \in Machine /\ p[1] # p[2]
  BY DEF Pair
<1>2. ASSUME NEW a, NEW b, {p[1], p[2]} = {a, b}
      PROVE  p = <<a, b>> \/ p = <<b, a>>
  <2>1. (p[1] = a /\ p[2] = b) \/ (p[1] = b /\ p[2] = a)
    BY <1>1, <1>2
  <2> QED
    BY <1>1, <2>1
<1> QED
  BY <1>1, <1>2

(***************************************************************************)
(* What one step does to the queue of the pair p.                          *)
(***************************************************************************)
SameTable(p) == p[1] \in sessions'[p[2]] <=> p[1] \in sessions[p[2]]

SameSession(p) == p[1] \in active'[p[2]] <=> p[1] \in active[p[2]]

Unheard(p) == net'[p] = net[p] /\ SameTable(p) /\ SameSession(p)

Spoken(p) ==
    /\ SameTable(p) /\ SameSession(p) /\ p[1] \in active[p[2]]
    /\ \E s \in Seq(Message) : /\ net'[p] = net[p] \o s
                              /\ \A i \in 1 .. Len(s) : s[i].type \notin News

HeardNext(p) ==
    /\ net[p] # <<>> /\ net'[p] = Tail(net[p])
    /\ p[1] \in sessions'[p[2]] <=> UpAfter(net[p], 1, sessions[p[2]], p[1])
    /\ SameSession(p)

CutOffAt(p) ==
    /\ SameTable(p) /\ SameSession(p)
    /\ \E k \in Cuts(net[p]) : net'[p] = SubSeq(net[p], 1, k)

Ends(p) ==
    /\ SameTable(p) /\ p[1] \notin active'[p[2]]
    /\ net'[p] = net[p] \o << [type |-> "Disconnected"] >>

Begins(p) ==
    /\ SameTable(p) /\ p[1] \in active'[p[2]]
    /\ net'[p] = net[p] \o << [type |-> "Connected"] >>
    /\ p[1] \in active[p[2]] => Reconnect(p[1], p[2])

Forgets(p) ==
    /\ net'[p] = <<>> /\ p[1] \notin sessions'[p[2]] /\ p[1] \notin active'[p[2]]

QuietStep(p) == Unheard(p) \/ Spoken(p) \/ HeardNext(p)

NetStep(p) == QuietStep(p) \/ CutOffAt(p) \/ Ends(p) \/ Begins(p) \/ Forgets(p)

LEMMA UpTable ==
    ASSUME NEW S, NEW T, NEW p, p \in S <=> p \in T, NEW q
    PROVE  /\ \A n : UpAfter(q, n, S, p) <=> UpAfter(q, n, T, p)
           /\ EntersUp(q, S, p) <=> EntersUp(q, T, p)
<1>1. \A n : UpAfter(q, n, S, p) <=> UpAfter(q, n, T, p)
  BY DEF UpAfter
<1> QED
  BY <1>1 DEF EntersUp

LEMMA UpFirst ==
    ASSUME NEW q, NEW S, NEW p
    PROVE  UpAfter(q, 1, S, p) <=>
             \/ q[1].type = "Connected"
             \/ q[1].type # "Disconnected" /\ p \in S
BY DEF UpAfter

LEMMA UpPrefix ==
    ASSUME NEW q, NEW r, NEW S, NEW p, Len(q) \in Nat, Len(r) \in Nat,
           \A i \in 1 .. Len(q) : i <= Len(r) => r[i] = q[i]
    PROVE  \A n \in 0 .. Len(q) : n <= Len(r) => (UpAfter(r, n, S, p) <=> UpAfter(q, n, S, p))
<1> SUFFICES ASSUME NEW n \in 0 .. Len(q), n <= Len(r)
             PROVE  UpAfter(r, n, S, p) <=> UpAfter(q, n, S, p)
  OBVIOUS
<1>1. n \in Nat /\ (\A i \in 1 .. n : r[i] = q[i]) /\ \A i \in 1 .. n : q[i] = r[i]
  OBVIOUS
<1>2. UpAfter(r, n, S, p) => UpAfter(q, n, S, p)
  BY <1>1, UpSame
<1>3. UpAfter(q, n, S, p) => UpAfter(r, n, S, p)
  BY <1>1, UpSame
<1> QED
  BY <1>2, <1>3

LEMMA CutUp ==
    ASSUME NEW q \in Seq(Message), NEW k \in Cuts(q), NEW S, NEW p
    PROVE  LET r == SubSeq(q, 1, k)
           IN  UpAfter(r, Len(r), S, p) <=> UpAfter(q, Len(q), S, p)
<1> DEFINE r == SubSeq(q, 1, k)
<1>1. /\ k \in 0 .. Len(q) /\ Len(q) \in Nat
      /\ \A j \in (k + 1) .. Len(q) : q[j].type \notin News
  BY DEF Cuts
<1>2. Len(r) = k /\ \A i \in 1 .. k : r[i] = q[i]
  BY <1>1
<1> HIDE DEF r
<1>3. UpAfter(q, Len(q), S, p) <=> UpAfter(q, k, S, p)
  BY <1>1, UpQuiet
<1>4. \A n \in 0 .. Len(q) : n <= Len(r) => (UpAfter(r, n, S, p) <=> UpAfter(q, n, S, p))
  <2>1. Len(r) \in Nat /\ \A i \in 1 .. Len(q) : i <= Len(r) => r[i] = q[i]
    BY <1>1, <1>2
  <2> QED
    BY <1>1, <2>1, UpPrefix
<1> QED
  BY <1>1, <1>2, <1>3, <1>4 DEF r

LEMMA NetStepKeeps ==
    ASSUME TypeOK, NEW p \in Pair, NetOK(p), NetStep(p)
    PROVE  NetOK(p)'
<1> DEFINE q == net[p]
           S == sessions[p[2]]
           T == sessions'[p[2]]
           r == net'[p]
<1>0. /\ q \in Seq(Message)
      /\ UpAfter(q, Len(q), S, p[1]) <=> p[1] \in active[p[2]]
      /\ EntersUp(q, S, p[1])
  BY DEF NetOK, TypeOK
<1>g. SUFFICES /\ UpAfter(r, Len(r), T, p[1]) <=> p[1] \in active'[p[2]]
               /\ EntersUp(r, T, p[1])
  BY DEF NetOK
<1>1. ASSUME SameTable(p)
      PROVE  /\ UpAfter(r, Len(r), S, p[1]) <=> UpAfter(r, Len(r), T, p[1])
             /\ EntersUp(r, S, p[1]) <=> EntersUp(r, T, p[1])
  BY <1>1, UpTable DEF SameTable
<1>2. CASE Unheard(p)
  <2>1. r = q /\ SameTable(p) /\ SameSession(p)
    BY <1>2 DEF Unheard
  <2> HIDE DEF q, r, S, T
  <2> QED
    BY <1>0, <1>1, <2>1 DEF SameSession
<1>3. CASE Spoken(p)
  <2>1. PICK s \in Seq(Message) : /\ r = q \o s
                                /\ \A i \in 1 .. Len(s) : s[i].type \notin News
    BY <1>3 DEF Spoken
  <2>2. SameTable(p) /\ SameSession(p) /\ p[1] \in active[p[2]]
    BY <1>3 DEF Spoken
  <2> HIDE DEF q, r, S, T
  <2>3. UpAfter(q \o s, Len(q \o s), S, p[1]) /\ EntersUp(q \o s, S, p[1])
    BY <1>0, <2>1, <2>2, SentMore
  <2> QED
    BY <1>1, <2>1, <2>2, <2>3 DEF SameSession
<1>4. CASE HeardNext(p)
  <2>1. /\ q # <<>> /\ r = Tail(q) /\ SameSession(p)
        /\ p[1] \in T <=> UpAfter(q, 1, S, p[1])
    BY <1>4 DEF HeardNext
  <2> HIDE DEF q, r, S, T
  <2>2. /\ UpAfter(Tail(q), Len(Tail(q)), T, p[1]) <=> UpAfter(q, Len(q), S, p[1])
        /\ EntersUp(q, S, p[1]) => EntersUp(Tail(q), T, p[1])
    BY <1>0, <2>1, HeardOne
  <2> QED
    BY <1>0, <2>1, <2>2 DEF SameSession
<1>5. CASE CutOffAt(p)
  <2>1. PICK k \in Cuts(q) : r = SubSeq(q, 1, k)
    BY <1>5 DEF CutOffAt
  <2>2. SameTable(p) /\ SameSession(p) /\ k \in 0 .. Len(q)
    BY <1>5, CutType DEF CutOffAt
  <2> HIDE DEF q, r, S, T
  <2>3. EntersUp(r, S, p[1])
    BY <1>0, <2>1, <2>2, CutShort
  <2>4. UpAfter(r, Len(r), S, p[1]) <=> UpAfter(q, Len(q), S, p[1])
    BY <1>0, <2>1, CutUp
  <2> QED
    BY <1>0, <1>1, <2>2, <2>3, <2>4 DEF SameSession
<1>6. CASE Ends(p)
  <2>1. SameTable(p) /\ p[1] \notin active'[p[2]] /\ r = q \o << [type |-> "Disconnected"] >>
    BY <1>6 DEF Ends
  <2>2. "Disconnected" \in News /\ "Disconnected" # "Connected"
    BY DEF News
  <2> HIDE DEF q, r, S, T
  <2>3. ~UpAfter(r, Len(r), S, p[1]) /\ EntersUp(r, S, p[1])
    BY <1>0, <2>1, <2>2, Told
  <2> QED
    BY <1>1, <2>1, <2>3
<1>7. CASE Begins(p)
  <2>1. SameTable(p) /\ p[1] \in active'[p[2]] /\ r = q \o << [type |-> "Connected"] >>
    BY <1>7 DEF Begins
  <2>2. "Connected" \in News
    BY DEF News
  <2> HIDE DEF q, r, S, T
  <2>3. UpAfter(r, Len(r), S, p[1]) /\ EntersUp(r, S, p[1])
    BY <1>0, <2>1, <2>2, Told
  <2> QED
    BY <1>1, <2>1, <2>3
<1>8. CASE Forgets(p)
  BY <1>8, NothingHeard DEF Forgets
<1> QED
  BY <1>2, <1>3, <1>4, <1>5, <1>6, <1>7, <1>8 DEF NetStep, QuietStep

(* Where nobody replaces a session, Connected finds none. *)
LEMMA DownKept ==
    ASSUME TypeOK, NEW p \in Pair, NetOK(p), NetStep(p), ComesDown(p),
           ~(Reconnect(p[1], p[2]) /\ p[1] \in active[p[2]])
    PROVE  ComesDown(p)'
<1> DEFINE q == net[p]
           r == net'[p]
           S == sessions[p[2]]
           T == sessions'[p[2]]
<1>0. /\ q \in Seq(Message) /\ Len(q) \in Nat
      /\ UpAfter(q, Len(q), S, p[1]) <=> p[1] \in active[p[2]]
      /\ ConnectsDown(q, S, p[1])
  BY DEF NetOK, ComesDown, TypeOK
<1>g. SUFFICES ASSUME NEW n \in 1 .. Len(r), r[n].type = "Connected"
               PROVE  ~UpAfter(r, n - 1, T, p[1])
  BY DEF ComesDown, ConnectsDown
<1>1. ASSUME SameTable(p)
      PROVE  \A x, k : UpAfter(x, k, S, p[1]) <=> UpAfter(x, k, T, p[1])
  BY <1>1, UpTable DEF SameTable
<1>2. ASSUME SameTable(p), Len(r) \in Nat, n \in 1 .. Len(q),
             \A i \in 1 .. Len(q) : i <= Len(r) => r[i] = q[i]
      PROVE  ~UpAfter(r, n - 1, T, p[1])
  <2> HIDE DEF q, r, S, T
  <2>1. \A k \in 0 .. Len(q) : k <= Len(r) =>
            (UpAfter(r, k, S, p[1]) <=> UpAfter(q, k, S, p[1]))
    BY <1>0, <1>2, UpPrefix
  <2>2. n - 1 \in 0 .. Len(q) /\ n - 1 <= Len(r) /\ r[n] = q[n]
    BY <1>0, <1>2
  <2>3. ~UpAfter(q, n - 1, S, p[1])
    BY <1>0, <1>g, <1>2, <2>2 DEF ConnectsDown
  <2> QED
    BY <1>1, <1>2, <2>1, <2>2, <2>3
<1>3. CASE Unheard(p)
  <2>1. r = q /\ SameTable(p)
    BY <1>3 DEF Unheard
  <2> HIDE DEF q, r, S, T
  <2>2. Len(r) \in Nat /\ n \in 1 .. Len(q) /\ \A i \in 1 .. Len(q) : r[i] = q[i]
    BY <1>0, <2>1
  <2> QED
    BY <1>2, <2>1, <2>2
<1>4. CASE Spoken(p)
  <2>1. PICK s \in Seq(Message) : /\ r = q \o s
                                /\ \A i \in 1 .. Len(s) : s[i].type \notin News
    BY <1>4 DEF Spoken
  <2>2. SameTable(p)
    BY <1>4 DEF Spoken
  <2> HIDE DEF q, r, S, T
  <2>3. /\ Len(r) \in Nat /\ \A i \in 1 .. Len(q) : r[i] = q[i]
        /\ \A i \in (Len(q) + 1) .. Len(r) : r[i] = s[i - Len(q)]
        /\ \A i \in (Len(q) + 1) .. Len(r) : i - Len(q) \in 1 .. Len(s)
    BY <1>0, <2>1
  <2>4. n \in 1 .. Len(q)
    BY <1>g, <1>0, <2>1, <2>3 DEF News
  <2> QED
    BY <1>2, <2>2, <2>3, <2>4
<1>5. CASE HeardNext(p)
  <2>1. /\ q # <<>> /\ r = Tail(q)
        /\ p[1] \in T <=> UpAfter(q, 1, S, p[1])
    BY <1>5 DEF HeardNext
  <2> HIDE DEF q, r, S, T
  <2>2. /\ Len(q) \in Nat \ {0} /\ Len(r) = Len(q) - 1
        /\ \A i \in 1 .. Len(r) : r[i] = q[i + 1]
    BY <1>0, <2>1
  <2>3. /\ n \in Nat \ {0} /\ n + 1 \in 1 .. Len(q) /\ q[n + 1].type = "Connected"
        /\ \A i \in 1 .. (n - 1) : r[i] = q[i + 1]
    BY <1>g, <2>2
  <2>4. UpAfter(r, n - 1, T, p[1]) <=> UpAfter(q, n, S, p[1])
    BY <2>1, <2>3, UpShift
  <2>5. (n + 1) - 1 = n
    BY <2>3
  <2>6. ~UpAfter(q, n, S, p[1])
    BY <1>0, <2>3, <2>5 DEF ConnectsDown
  <2> QED
    BY <2>4, <2>6
<1>6. CASE CutOffAt(p)
  <2>1. PICK k \in Cuts(q) : r = SubSeq(q, 1, k)
    BY <1>6 DEF CutOffAt
  <2>2. SameTable(p) /\ k \in 0 .. Len(q)
    BY <1>6, CutType DEF CutOffAt
  <2> HIDE DEF q, r, S, T
  <2>3. Len(r) \in Nat /\ n \in 1 .. Len(q) /\ \A i \in 1 .. Len(q) : i <= Len(r) => r[i] = q[i]
    BY <1>0, <2>1, <2>2
  <2> QED
    BY <1>2, <2>2, <2>3
<1>7. CASE Ends(p)
  <2>1. SameTable(p) /\ r = q \o << [type |-> "Disconnected"] >>
    BY <1>7 DEF Ends
  <2> HIDE DEF q, r, S, T
  <2>2. /\ Len(r) = Len(q) + 1 /\ \A i \in 1 .. Len(q) : r[i] = q[i]
        /\ r[Len(q) + 1].type = "Disconnected"
    BY <1>0, <2>1
  <2>3. n \in 1 .. Len(q)
    BY <1>g, <1>0, <2>2
  <2> QED
    BY <1>0, <1>2, <2>1, <2>2, <2>3
<1>8. CASE Begins(p)
  <2>1. /\ SameTable(p) /\ r = q \o << [type |-> "Connected"] >>
        /\ p[1] \notin active[p[2]]
    BY <1>8 DEF Begins
  <2> HIDE DEF q, r, S, T
  <2>2. Len(r) = Len(q) + 1 /\ \A i \in 1 .. Len(q) : r[i] = q[i]
    BY <1>0, <2>1
  <2>3. CASE n \in 1 .. Len(q)
    BY <1>0, <1>2, <2>1, <2>2, <2>3
  <2>4. CASE n = Len(q) + 1
    <3>1. UpAfter(r, Len(q), S, p[1]) <=> UpAfter(q, Len(q), S, p[1])
      <4>1. Len(r) \in Nat /\ \A i \in 1 .. Len(q) : i <= Len(r) => r[i] = q[i]
        BY <1>0, <2>2
      <4>2. Len(q) \in 0 .. Len(q) /\ Len(q) <= Len(r)
        BY <1>0, <2>2
      <4> QED
        BY <1>0, <4>1, <4>2, UpPrefix
    <3>2. n - 1 = Len(q)
      BY <1>0, <2>4
    <3> QED
      BY <1>0, <1>1, <2>1, <3>1, <3>2
  <2> QED
    BY <1>0, <1>g, <2>2, <2>3, <2>4
<1>9. CASE Forgets(p)
  <2>1. Len(r) = 0
    BY <1>9 DEF Forgets
  <2> QED
    BY <2>1, <1>g
<1> QED
  BY <1>3, <1>4, <1>5, <1>6, <1>7, <1>8, <1>9 DEF NetStep, QuietStep

LEMMA SameUnheard ==
    ASSUME UNCHANGED <<net, sessions, active>>
    PROVE  \A p \in Pair : Unheard(p)
BY DEF Unheard, SameTable, SameSession

LEMMA InputQuiet ==
    ASSUME NEW s \in Seq(InputMsg)
    PROVE  s \in Seq(Message) /\ \A i \in 1 .. Len(s) : s[i].type \notin News
<1>1. \A x \in InputMsg : x \in Message /\ x.type \notin News
  BY DEF InputMsg, Message, News
<1> QED
  BY <1>1

LEMMA PerformNet ==
    ASSUME TypeOK, NetInv, NEW m \in Machine, NEW d \in Working, Perform(m, d),
           UNCHANGED links, NEW p \in Pair
    PROVE  QuietStep(p)
<1> DEFINE s == d.out.sent[p[2]]
<1>1. SameTable(p) /\ SameSession(p)
  BY DEF links, SameTable, SameSession
<1>2. net'[p] = IF p[1] = m /\ Reaches(m, p[2]) THEN net[p] \o s ELSE net[p]
  BY Performs
<1>3. s \in Seq(Message) /\ \A i \in 1 .. Len(s) : s[i].type \notin News
  BY PairParts, SpokenType, InputQuiet
<1> HIDE DEF s
<1>4. CASE p[1] = m /\ Reaches(m, p[2])
  <2>1. p[1] \in active[p[2]]
    BY <1>4 DEF Reaches, NetInv
  <2> QED
    BY <1>1, <1>2, <1>3, <1>4, <2>1 DEF Spoken, QuietStep
<1>5. CASE ~(p[1] = m /\ Reaches(m, p[2]))
  BY <1>1, <1>2, <1>5 DEF Unheard, QuietStep
<1> QED
  BY <1>4, <1>5

LEMMA HearNet ==
    ASSUME TypeOK, NEW m \in Machine, NEW p \in Machine \ {m}, NEW type,
           Hears(p, m, type),
           \A x \in Machine \ {m} : sessions'[x] = sessions[x],
           \A x \in Machine \ {p} : x \in sessions'[m] <=> x \in sessions[m],
           p \in sessions'[m] <=> \/ type = "Connected"
                                  \/ type # "Disconnected" /\ p \in sessions[m],
           \A x \in Machine : x \notin sessions[x]
    PROVE  (\A x \in Pair : QuietStep(x)) /\ \A x \in Machine : x \notin sessions'[x]
<1>0. <<p, m>> \in Pair
  BY PairType
<1>1. active' = active /\ net[<<p, m>>] # <<>>
      /\ net' = [net EXCEPT ![<<p, m>>] = Tail(@)]
      /\ Head(net[<<p, m>>]).type = type
  BY DEF Hears
<1>2. ASSUME NEW x \in Pair
      PROVE  QuietStep(x)
  <2>0. SameSession(x)
    BY <1>1 DEF SameSession
  <2>2. CASE x = <<p, m>>
    <3>1. net[x] \in Seq(Message) /\ net[x] # <<>> /\ net'[x] = Tail(net[x])
          /\ Head(net[x]).type = type
      BY <1>0, <1>1, <2>2 DEF TypeOK
    <3>2. x[1] = p /\ x[2] = m /\ net[x][1].type = type
      BY <2>2, <3>1
    <3>3. p \in sessions'[m] <=> UpAfter(net[x], 1, sessions[m], p)
      BY <3>2, UpFirst
    <3> QED
      BY <2>0, <3>1, <3>2, <3>3 DEF HeardNext, QuietStep
  <2>3. CASE x # <<p, m>>
    <3>1. net'[x] = net[x]
      BY <1>0, <1>1, <2>3 DEF TypeOK
    <3>2. x[1] \in sessions[x[2]] <=> x[1] \in sessions'[x[2]]
      <4>1. x[2] = m => x[1] # p
        BY <2>3, PairParts
      <4> QED
        BY <4>1, PairParts
    <3> QED
      BY <2>0, <3>1, <3>2 DEF Unheard, SameTable, QuietStep
  <2> QED
    BY <2>2, <2>3
<1> QED
  BY <1>2

LEMMA HearingNet ==
    ASSUME TypeOK, \A x \in Machine : x \notin sessions[x], NEW m \in Machine, Hearing(m)
    PROVE  (\A x \in Pair : QuietStep(x)) /\ \A x \in Machine : x \notin sessions'[x]
<1> DEFINE G == (\A x \in Pair : QuietStep(x)) /\ \A x \in Machine : x \notin sessions'[x]
<1>0. sessions \in [Machine -> SUBSET Machine]
  BY DEF TypeOK
<1> HIDE DEF G
<1>1. ASSUME NEW p \in Machine \ {m}, OnConnected(m, p)
      PROVE  G
  <2>1. Hears(p, m, "Connected") /\ sessions' = [sessions EXCEPT ![m] = @ \union {p}]
    BY <1>1 DEF OnConnected
  <2>2. /\ \A x \in Machine \ {m} : sessions'[x] = sessions[x]
        /\ \A x : x \in sessions'[m] <=> x \in sessions[m] \/ x = p
    BY <1>0, <2>1
  <2> QED
    BY <2>1, <2>2, HearNet DEF G
<1>2. ASSUME NEW p \in Machine \ {m}, OnDisconnected(m, p)
      PROVE  G
  <2>1. Hears(p, m, "Disconnected") /\ sessions' = [sessions EXCEPT ![m] = @ \ {p}]
    BY <1>2 DEF OnDisconnected
  <2>2. /\ \A x \in Machine \ {m} : sessions'[x] = sessions[x]
        /\ \A x : x \in sessions'[m] <=> x \in sessions[m] /\ x # p
    BY <1>0, <2>1
  <2> QED
    BY <2>1, <2>2, HearNet DEF G
<1>3. ASSUME NEW p \in Machine \ {m}, OnEnter(m, p) \/ OnYield(m, p) \/ OnInput(m, p)
      PROVE  G
  <2>1. PICK type \in {"Enter", "Yield", "Leave", "Key", "Button"} : Hears(p, m, type)
    BY <1>3 DEF OnEnter, OnYield, OnInput
  <2>2. sessions' = sessions
    BY <1>3 DEF OnEnter, OnYield, OnInput
  <2> QED
    BY <2>1, <2>2, HearNet DEF G
<1> QED
  BY <1>1, <1>2, <1>3 DEF Hearing, G

LEMMA InjectingNet ==
    ASSUME TypeOK, NetInv, \A x \in Machine : x \notin sessions[x],
           NEW m \in Machine, Injecting(m), NEW p \in Pair
    PROVE  QuietStep(p)
<1>1. UNCHANGED <<sessions, active>>
  BY DEF Injecting, InjectControl, InjectMotion, InjectDisconnected,
         InjectLocalActivity, Injects, links
<1>2. SameTable(p) /\ SameSession(p)
  BY <1>1 DEF SameTable, SameSession
<1>3. CASE InjectControl(m) \/ InjectMotion(m) \/ InjectDisconnected(m)
  BY <1>1, <1>3, SameUnheard DEF QuietStep, InjectControl, InjectMotion, InjectDisconnected
<1>4. CASE InjectLocalActivity(m)
  <2> DEFINE d == rcv[m].driver
             yields == rcv[m].entered /\ d \in sessions[m]
             e == <<m, d>>
             s == <<YieldMsg>>
  <2>1. net' = IF yields /\ Reaches(m, d)
               THEN [net EXCEPT ![e] = Append(@, YieldMsg)] ELSE net
    BY <1>4 DEF InjectLocalActivity
  <2>2. yields => e \in Pair
    BY PairType DEF TypeOK
  <2>3. e[1] = m /\ e[2] = d
    OBVIOUS
  <2>4. s \in Seq(Message) /\ \A i \in 1 .. Len(s) : s[i].type \notin News
    BY DEF YieldMsg, Message, News
  <2>5. \A q \in Seq(Message) : Append(q, YieldMsg) = q \o s
    OBVIOUS
  <2> HIDE DEF d, yields, e, s
  <2>6. CASE yields /\ Reaches(m, d) /\ p = e
    <3>1. net'[p] = net[p] \o s
      BY <2>1, <2>2, <2>5, <2>6 DEF TypeOK
    <3>2. p[1] \in active[p[2]]
      BY <2>3, <2>6 DEF Reaches, NetInv
    <3> QED
      BY <1>2, <2>4, <3>1, <3>2 DEF Spoken, QuietStep
  <2>7. CASE ~(yields /\ Reaches(m, d) /\ p = e)
    <3>1. net'[p] = net[p]
      BY <2>1, <2>2, <2>7 DEF TypeOK
    <3> QED
      BY <1>2, <3>1 DEF Unheard, QuietStep
  <2> QED
    BY <2>6, <2>7
<1> QED
  BY <1>3, <1>4 DEF Injecting

LEMMA LinkNet ==
    ASSUME TypeOK, NEW a \in Machine, NEW b \in Machine \ {a}, Connecting(a, b),
           NEW p \in Pair
    PROVE  /\ LinkFails(a, b) => IF p \in {<<a, b>>, <<b, a>>} THEN CutOffAt(p) ELSE Unheard(p)
           /\ EndNoticed(a, b) => IF p = <<b, a>> THEN Ends(p) ELSE Unheard(p)
           /\ Reconnect(a, b) => IF p \in {<<a, b>>, <<b, a>>} THEN Begins(p) ELSE Unheard(p)
           /\ sessions' = sessions
<1>0. <<a, b>> \in Pair /\ <<b, a>> \in Pair /\ <<a, b>> # <<b, a>>
  BY DEF Pair
<1>1. sessions' = sessions /\ SameTable(p)
  BY DEF Connecting, LinkFails, EndNoticed, Reconnect, SameTable
<1>2. ASSUME LinkFails(a, b)
      PROVE  IF p \in {<<a, b>>, <<b, a>>} THEN CutOffAt(p) ELSE Unheard(p)
  <2>1. PICK i \in Cuts(net[<<a, b>>]), j \in Cuts(net[<<b, a>>]) :
          net' = [net EXCEPT ![<<a, b>>] = SubSeq(@, 1, i),
                             ![<<b, a>>] = SubSeq(@, 1, j)]
    BY <1>2 DEF LinkFails
  <2>2. SameSession(p)
    BY <1>2 DEF LinkFails, SameSession
  <2>3. CASE p = <<a, b>>
    BY <1>0, <1>1, <2>1, <2>2, <2>3 DEF TypeOK, CutOffAt
  <2>4. CASE p = <<b, a>>
    BY <1>0, <1>1, <2>1, <2>2, <2>4 DEF TypeOK, CutOffAt
  <2>5. CASE p \notin {<<a, b>>, <<b, a>>}
    BY <1>0, <1>1, <2>1, <2>2, <2>5 DEF TypeOK, Unheard
  <2> QED
    BY <2>3, <2>4, <2>5
<1>3. ASSUME EndNoticed(a, b)
      PROVE  IF p = <<b, a>> THEN Ends(p) ELSE Unheard(p)
  <2>1. /\ net' = [net EXCEPT ![<<b, a>>] = Append(@, [type |-> "Disconnected"])]
        /\ active' = [active EXCEPT ![a] = @ \ {b}]
    BY <1>3 DEF EndNoticed
  <2>2. CASE p = <<b, a>>
    <3>1. p[1] = b /\ p[2] = a
      BY <2>2
    <3>2. b \notin active'[a]
      BY <2>1 DEF TypeOK
    <3>3. net'[p] = Append(net[p], [type |-> "Disconnected"]) /\ net[p] \in Seq(Message)
      BY <1>0, <2>1, <2>2 DEF TypeOK
    <3>4. net'[p] = net[p] \o << [type |-> "Disconnected"] >>
      BY <3>3
    <3> QED
      BY <1>1, <2>2, <3>1, <3>2, <3>4 DEF Ends
  <2>3. CASE p # <<b, a>>
    <3>1. net'[p] = net[p]
      BY <1>0, <2>1, <2>3 DEF TypeOK
    <3>2. p[2] = a => p[1] # b
      BY <2>3, PairParts
    <3>3. SameSession(p)
      BY <2>1, <3>2, PairParts DEF TypeOK, SameSession
    <3> QED
      BY <1>1, <2>3, <3>1, <3>3 DEF Unheard
  <2> QED
    BY <2>2, <2>3
<1>4. ASSUME Reconnect(a, b)
      PROVE  IF p \in {<<a, b>>, <<b, a>>} THEN Begins(p) ELSE Unheard(p)
  <2> DEFINE started == << [type |-> "Connected"] >>
  <2>1. /\ net' = [net EXCEPT ![<<a, b>>] = @ \o started, ![<<b, a>>] = @ \o started]
        /\ active' = [active EXCEPT ![a] = @ \union {b}, ![b] = @ \union {a}]
        /\ b \notin active[a]
    BY <1>4 DEF Reconnect
  <2> HIDE DEF started
  <2>2. CASE p = <<a, b>>
    <3>1. p[1] = a /\ p[2] = b
      BY <2>2
    <3>2. a \in active'[b]
      BY <2>1 DEF TypeOK
    <3>3. net'[p] = net[p] \o started
      BY <1>0, <2>1, <2>2 DEF TypeOK
    <3> QED
      BY <1>1, <1>4, <2>2, <3>1, <3>2, <3>3 DEF Begins, started
  <2>3. CASE p = <<b, a>>
    <3>1. p[1] = b /\ p[2] = a
      BY <2>3
    <3>2. b \in active'[a]
      BY <2>1 DEF TypeOK
    <3>3. net'[p] = net[p] \o started
      BY <1>0, <2>1, <2>3 DEF TypeOK
    <3> QED
      BY <1>1, <2>1, <2>3, <3>1, <3>2, <3>3 DEF Begins, started
  <2>4. CASE p \notin {<<a, b>>, <<b, a>>}
    <3>1. net'[p] = net[p]
      BY <1>0, <2>1, <2>4 DEF TypeOK
    <3>2. (p[2] = a => p[1] # b) /\ (p[2] = b => p[1] # a)
      BY <2>4, PairParts
    <3>3. SameSession(p)
      BY <2>1, <3>2, PairParts DEF TypeOK, SameSession
    <3> QED
      BY <1>1, <2>4, <3>1, <3>3 DEF Unheard
  <2> QED
    BY <2>2, <2>3, <2>4
<1> QED
  BY <1>1, <1>2, <1>3, <1>4

LEMMA RestartNet ==
    ASSUME TypeOK, NEW m \in Machine, Restart(m), NEW p \in Pair
    PROVE  IF p[2] = m THEN Forgets(p)
           ELSE IF p[1] = m /\ {m, p[2]} \in up THEN CutOffAt(p)
           ELSE Unheard(p)
<1> DEFINE peers == {x \in Machine : {m, x} \in up}
           lengths == UNION {Cuts(net[<<m, x>>]) : x \in peers}
<1>1. PICK kept \in [peers -> lengths] :
          /\ \A x \in peers : kept[x] \in Cuts(net[<<m, x>>])
          /\ net' = [x \in Pair |->
                IF x[2] = m THEN <<>>
                ELSE IF x[1] = m /\ x[2] \in peers
                THEN SubSeq(net[x], 1, kept[x[2]])
                ELSE net[x]]
  BY DEF Restart
<1>2. /\ sessions' = [sessions EXCEPT ![m] = {}]
      /\ active' = [active EXCEPT ![m] = {}]
  BY DEF Restart
<1>3. /\ p[1] \in Machine /\ p[2] \in Machine /\ p = <<p[1], p[2]>>
  BY PairParts
<1>4. CASE p[2] = m
  <2>1. net'[p] = <<>>
    BY <1>1, <1>4
  <2>2. sessions'[m] = {} /\ active'[m] = {}
    BY <1>2 DEF TypeOK
  <2> QED
    BY <1>4, <2>1, <2>2 DEF Forgets
<1>5. ASSUME p[2] # m
      PROVE  SameTable(p) /\ SameSession(p)
  BY <1>2, <1>3, <1>5 DEF TypeOK, SameTable, SameSession
<1>6. CASE p[2] # m /\ p[1] = m /\ p[2] \in peers
  <2>1. p = <<m, p[2]>>
    BY <1>3, <1>6
  <2>2. kept[p[2]] \in Cuts(net[<<m, p[2]>>])
    BY <1>1, <1>6
  <2>3. net'[p] = SubSeq(net[p], 1, kept[p[2]])
    BY <1>1, <1>6
  <2>4. kept[p[2]] \in Cuts(net[p])
    BY <2>1, <2>2
  <2>5. {m, p[2]} \in up
    BY <1>6
  <2>6. SameTable(p) /\ SameSession(p)
    BY <1>5, <1>6
  <2>7. \E k \in Cuts(net[p]) : net'[p] = SubSeq(net[p], 1, k)
    BY <2>3, <2>4
  <2>8. CutOffAt(p)
    BY <2>6, <2>7 DEF CutOffAt
  <2> QED
    BY <1>6, <2>5, <2>8
<1>7. CASE p[2] # m /\ ~(p[1] = m /\ p[2] \in peers)
  <2>1. net'[p] = net[p]
    BY <1>1, <1>7
  <2>2. ~(p[1] = m /\ {m, p[2]} \in up)
    BY <1>3, <1>7
  <2>3. Unheard(p)
    BY <1>5, <1>7, <2>1 DEF Unheard
  <2> QED
    BY <1>7, <2>2, <2>3
<1> QED
  BY <1>4, <1>6, <1>7

LEMMA LinkInit == Init => LinkInv
<1> SUFFICES ASSUME Init
             PROVE  LinkInv
  OBVIOUS
<1>1. ASSUME NEW p \in Pair
      PROVE  /\ NetOK(p) /\ ComesDown(p)
             /\ {p[1], p[2]} \in up => p[1] \in active[p[2]]
  <2>1. net[p] = <<>> /\ p[1] \in sessions[p[2]] /\ p[1] \in active[p[2]]
    BY PairParts DEF Init
  <2> QED
    BY <2>1, NothingHeard DEF NetOK, ComesDown, ConnectsDown
<1> QED
  BY <1>1, PointerInit DEF LinkInv, NetInv, Init

(* A step of the capture thread, the user's input included. *)
LEMMA ThreadActs ==
    ASSUME PointerInv, NEW m \in Machine, UserStep(m) \/ ReportDue(m) \/ Capturing(m)
    PROVE  /\ \E d \in Working : Perform(m, d) /\ (~Capturing(m) => d.layout = ctl[m].layout)
           /\ UNCHANGED links
<1>1. CASE UserStep(m)
  <2>1. PICK d \in Working, x \in Place :
            d.layout = ctl[m].layout /\ PerformAt(m, d, x)
    BY <1>1, UserActs DEF ActsAt
  <2>2. UNCHANGED links
    BY <1>1, UserTypes DEF PointerInv
  <2> QED
    BY <2>1, <2>2 DEF PerformAt
<1>2. CASE ReportDue(m)
  <2>1. PICK d \in Working : Stays(ctl[m], d) /\ Perform(m, d)
    BY <1>2, ReportActs
  <2> QED
    BY <1>2, <2>1 DEF ReportDue, Stays
<1>3. CASE Capturing(m)
  <2> DEFINE d == Handled(ctl[m], Head(capq[m]))
  <2>1. Perform(m, d) /\ capq[m] # <<>> /\ UNCHANGED links
    BY <1>3 DEF Capturing, PerformAt
  <2>2. d \in Working
    BY <2>1, CaptureHead, HandledTurns, OwnController DEF PointerInv, Turns
  <2> HIDE DEF d
  <2> QED
    BY <1>3, <2>1, <2>2
<1> QED
  BY <1>1, <1>2, <1>3

LEMMA QuietNet ==
    ASSUME LinkInv, [Next]_vars, ~\E x \in Pair : Connecting(x[1], x[2]),
           ~\E m \in Machine : Restart(m), NEW p \in Pair
    PROVE  QuietStep(p)
<1>0. /\ PointerInv /\ TypeOK /\ NetInv
      /\ \A x \in Machine : x \notin sessions[x]
  BY DEF LinkInv, PointerInv
<1>1. ASSUME NEW m \in Machine, UserStep(m) \/ ReportDue(m) \/ Capturing(m)
      PROVE  QuietStep(p)
  <2>1. PICK d \in Working : Perform(m, d)
    BY <1>0, <1>1, ThreadActs
  <2>2. UNCHANGED links
    BY <1>0, <1>1, ThreadActs
  <2> QED
    BY <1>0, <2>1, <2>2, PerformNet
<1>2. ASSUME NEW m \in Machine, RunLoop(m)
      PROVE  QuietStep(p)
  <2>1. CASE Hearing(m)
    BY <1>0, <2>1, HearingNet
  <2>2. CASE OnYielded(m) \/ \E d \in dgrams[m] : OnDatagram(m, d)
    <3>1. UNCHANGED <<net, sessions, active>>
      BY <2>2 DEF OnYielded, OnDatagram, links
    <3> QED
      BY <3>1, SameUnheard DEF QuietStep
  <2> QED
    BY <1>2, <2>1, <2>2 DEF RunLoop
<1>3. ASSUME NEW m \in Machine, Injecting(m)
      PROVE  QuietStep(p)
  BY <1>0, <1>3, InjectingNet
<1>4. CASE Rest \/ UNCHANGED vars
  <2>1. UNCHANGED <<net, sessions, active>>
    BY <1>4 DEF Rest, vars, links
  <2> QED
    BY <2>1, SameUnheard DEF QuietStep
<1> QED
  BY <1>1, <1>2, <1>3, <1>4 DEF Next

LEMMA NetSteps ==
    ASSUME LinkInv, [Next]_vars, NEW p \in Pair
    PROVE  NetStep(p)
<1>0. TypeOK
  BY DEF LinkInv, PointerInv
<1>1. ASSUME NEW x \in Pair, Connecting(x[1], x[2])
      PROVE  NetStep(p)
  <2>1. x[1] \in Machine /\ x[2] \in Machine \ {x[1]}
    BY PairParts
  <2>2. /\ LinkFails(x[1], x[2]) => CutOffAt(p) \/ Unheard(p)
        /\ EndNoticed(x[1], x[2]) => Ends(p) \/ Unheard(p)
        /\ Reconnect(x[1], x[2]) => Begins(p) \/ Unheard(p)
    BY <1>0, <1>1, <2>1, LinkNet
  <2> QED
    BY <1>1, <2>2 DEF Connecting, NetStep, QuietStep
<1>2. ASSUME NEW m \in Machine, Restart(m)
      PROVE  NetStep(p)
  BY <1>0, <1>2, RestartNet DEF NetStep, QuietStep
<1>3. CASE /\ ~\E x \in Pair : Connecting(x[1], x[2])
           /\ ~\E m \in Machine : Restart(m)
  BY <1>3, QuietNet DEF NetStep
<1> QED
  BY <1>1, <1>2, <1>3

LEMMA LinksMove ==
    ASSUME TypeOK, [Next]_vars
    PROVE  \/ UNCHANGED <<up, active>>
           \/ \E x \in Pair : Connecting(x[1], x[2])
           \/ \E m \in Machine : Restart(m)
<1>1. \A m \in Machine : UserStep(m) => UNCHANGED <<up, active>>
  BY UserTypes DEF links
<1>2. \A m \in Machine : ReportDue(m) \/ Capturing(m) \/ Injecting(m) => UNCHANGED <<up, active>>
  BY DEF ReportDue, Capturing, Injecting, InjectControl, InjectMotion,
         InjectDisconnected, InjectLocalActivity, Injects, links
<1>3. ASSUME NEW m \in Machine, RunLoop(m)
      PROVE  UNCHANGED <<up, active>>
  <2>1. \A p, type : Hears(p, m, type) => UNCHANGED <<up, active>>
    BY DEF Hears
  <2>2. Hearing(m) => UNCHANGED <<up, active>>
    BY <2>1 DEF Hearing, OnConnected, OnDisconnected, OnEnter, OnYield, OnInput
  <2> QED
    BY <1>3, <2>2 DEF RunLoop, OnYielded, OnDatagram, links
<1>4. Rest \/ UNCHANGED vars => UNCHANGED <<up, active>>
  BY DEF Rest, vars, links
<1> QED
  BY <1>1, <1>2, <1>3, <1>4 DEF Next

(* Both ends of a connection run a session with it. *)
LEMMA UpRuns ==
    ASSUME TypeOK, NetInv, [Next]_vars, NEW p \in Pair, {p[1], p[2]} \in up'
    PROVE  p[1] \in active'[p[2]]
<1>0. p[1] \in Machine /\ p[2] \in Machine /\ p[1] # p[2]
  BY PairParts
<1>1. {p[1], p[2]} \in up => p[1] \in active[p[2]]
  BY DEF NetInv
<1>2. CASE UNCHANGED <<up, active>>
  BY <1>1, <1>2
<1>4. CASE \E x \in Pair : Connecting(x[1], x[2])
  <2>1. PICK x \in Pair : Connecting(x[1], x[2])
    BY <1>4
  <2>2. x[1] \in Machine /\ x[2] \in Machine /\ x[1] # x[2]
    BY PairParts
  <2>3. CASE LinkFails(x[1], x[2])
    BY <1>1, <2>3 DEF LinkFails
  <2>4. CASE EndNoticed(x[1], x[2])
    <3>1. {x[1], x[2]} \notin up /\ up' = up
          /\ active' = [active EXCEPT ![x[1]] = @ \ {x[2]}]
      BY <2>4 DEF EndNoticed
    <3>2. {p[1], p[2]} # {x[1], x[2]}
      BY <3>1
    <3>3. ~(p[2] = x[1] /\ p[1] = x[2])
      BY <3>2
    <3> QED
      BY <1>0, <1>1, <2>2, <3>1, <3>3 DEF TypeOK
  <2>5. CASE Reconnect(x[1], x[2])
    <3>1. /\ up' = up \union {{x[1], x[2]}}
          /\ active' = [active EXCEPT ![x[1]] = @ \union {x[2]}, ![x[2]] = @ \union {x[1]}]
      BY <2>5 DEF Reconnect
    <3>2. CASE {p[1], p[2]} \in up
      BY <1>0, <1>1, <2>2, <3>1, <3>2 DEF TypeOK
    <3>3. CASE {p[1], p[2]} = {x[1], x[2]}
      <4>1. (p[1] = x[1] /\ p[2] = x[2]) \/ (p[1] = x[2] /\ p[2] = x[1])
        BY <1>0, <2>2, <3>3
      <4> QED
        BY <1>0, <2>2, <3>1, <4>1 DEF TypeOK
    <3> QED
      BY <3>1, <3>2, <3>3
  <2> QED
    BY <2>1, <2>3, <2>4, <2>5 DEF Connecting
<1>5. CASE \E m \in Machine : Restart(m)
  <2>1. PICK m \in Machine : Restart(m)
    BY <1>5
  <2>2. /\ up' = {l \in up : m \notin l}
        /\ active' = [active EXCEPT ![m] = {}]
    BY <2>1 DEF Restart
  <2>3. {p[1], p[2]} \in up /\ p[2] # m
    BY <2>2
  <2> QED
    BY <1>0, <1>1, <2>1, <2>2, <2>3 DEF TypeOK
<1> QED
  BY <1>2, <1>4, <1>5, LinksMove

LEMMA DialsOneWay ==
    ASSUME NEW a \in Machine, NEW b \in Machine, Dials(a, b)
    PROVE  ~Dials(b, a)
<1>1. Id[a] \in Nat /\ Id[b] \in Nat
  BY HandoverAssumption
<1> QED
  BY <1>1 DEF Dials

LEMMA DialsOther ==
    ASSUME NEW a \in Machine, NEW b \in Machine \ {a}, ~Dials(a, b)
    PROVE  Dials(b, a)
<1>1. Id[a] \in Nat /\ Id[b] \in Nat /\ Id[a] # Id[b]
  BY HandoverAssumption
<1> QED
  BY <1>1 DEF Dials

LEMMA LinkNext == LinkInv /\ [Next]_vars => LinkInv'
<1> SUFFICES ASSUME LinkInv, [Next]_vars
             PROVE  NetInv' /\ \A x \in Machine : x \notin sessions'[x]
  BY PointerNext DEF LinkInv
<1>0. /\ PointerInv /\ TypeOK /\ NetInv
      /\ \A x \in Machine : x \notin sessions[x]
  BY DEF LinkInv, PointerInv
<1>1. ASSUME NEW p \in Pair
      PROVE  /\ NetOK(p)'
             /\ {p[1], p[2]} \in up' => p[1] \in active'[p[2]]
             /\ Dials(p[2], p[1]) => ComesDown(p)'
  <2>1. NetOK(p) /\ NetStep(p) /\ (Dials(p[2], p[1]) => ComesDown(p))
    BY <1>0, NetSteps DEF NetInv
  <2>2. NetOK(p)'
    BY <1>0, <2>1, NetStepKeeps
  <2>3. ASSUME Dials(p[2], p[1])
        PROVE  ComesDown(p)'
    <3>1. ~Reconnect(p[1], p[2])
      BY <2>3, DialsOneWay, PairParts DEF Reconnect
    <3> QED
      BY <1>0, <2>1, <2>3, <3>1, DownKept
  <2> QED
    BY <1>0, <2>2, <2>3, UpRuns
<1>2. NetInv'
  BY <1>1 DEF NetInv
<1>3. CASE UNCHANGED sessions
  BY <1>0, <1>2, <1>3
<1>4. ASSUME NEW m \in Machine, Hearing(m)
      PROVE  \A x \in Machine : x \notin sessions'[x]
  BY <1>0, <1>4, HearingNet
<1>5. ASSUME NEW m \in Machine, Restart(m)
      PROVE  \A x \in Machine : x \notin sessions'[x]
  BY <1>0, <1>5 DEF Restart, TypeOK
<1>6. \/ UNCHANGED sessions
      \/ \E m \in Machine : Hearing(m) \/ Restart(m)
  <2>1. \A m \in Machine : UserStep(m) => UNCHANGED sessions
    BY <1>0, UserTypes DEF links
  <2>2. \A m \in Machine : ReportDue(m) \/ Capturing(m) \/ Injecting(m) => UNCHANGED sessions
    BY DEF ReportDue, Capturing, Injecting, InjectControl, InjectMotion,
           InjectDisconnected, InjectLocalActivity, Injects, links
  <2>3. \A m \in Machine : RunLoop(m) => Hearing(m) \/ UNCHANGED sessions
    BY DEF RunLoop, OnYielded, OnDatagram, links
  <2>4. Rest \/ UNCHANGED vars => UNCHANGED sessions
    BY DEF Rest, vars, links
  <2>5. \A x \in Pair : Connecting(x[1], x[2]) => UNCHANGED sessions
    BY DEF Connecting, LinkFails, EndNoticed, Reconnect
  <2> QED
    BY <2>1, <2>2, <2>3, <2>4, <2>5 DEF Next
<1> QED
  BY <1>2, <1>3, <1>4, <1>5, <1>6

-----------------------------------------------------------------------------

(***************************************************************************)
(* The desk: the last layout queued for the capture thread, or else the    *)
(* one its controller has, is the session table.                           *)
(***************************************************************************)
LayoutOK(q, layout, peers) ==
    /\ (\A i \in 1 .. Len(q) : q[i].type # "SetLayout") => layout = peers
    /\ \A i \in 1 .. Len(q) :
          q[i].type = "SetLayout" /\ (\A j \in (i + 1) .. Len(q) : q[j].type # "SetLayout")
            => q[i].peers = peers

LayoutInv == \A m \in Machine : LayoutOK(capq[m], ctl[m].layout, sessions[m])

LEMMA LayoutOther ==
    ASSUME NEW q \in Seq(CaptureEvent), NEW s \in Seq(CaptureEvent), NEW l, NEW S,
           LayoutOK(q, l, S), \A i \in 1 .. Len(s) : s[i].type # "SetLayout"
    PROVE  LayoutOK(q \o s, l, S)
<1> DEFINE r == q \o s
<1>1. /\ Len(q) \in Nat /\ Len(r) \in Nat /\ Len(q) <= Len(r)
      /\ \A i \in 1 .. Len(q) : r[i] = q[i]
      /\ \A i \in (Len(q) + 1) .. Len(r) : r[i] = s[i - Len(q)] /\ i - Len(q) \in 1 .. Len(s)
  OBVIOUS
<1> HIDE DEF r
<1>2. \A i \in (Len(q) + 1) .. Len(r) : r[i].type # "SetLayout"
  BY <1>1
<1>3. ASSUME \A i \in 1 .. Len(r) : r[i].type # "SetLayout"
      PROVE  l = S
  <2>1. \A i \in 1 .. Len(q) : q[i].type # "SetLayout"
    BY <1>1, <1>3
  <2> QED
    BY <2>1 DEF LayoutOK
<1>4. ASSUME NEW i \in 1 .. Len(r), r[i].type = "SetLayout",
             \A j \in (i + 1) .. Len(r) : r[j].type # "SetLayout"
      PROVE  r[i].peers = S
  <2>1. i \in 1 .. Len(q)
    BY <1>1, <1>2, <1>4
  <2>2. q[i].type = "SetLayout" /\ \A j \in (i + 1) .. Len(q) : q[j].type # "SetLayout"
    <3>1. r[i] = q[i] /\ i \in Nat
      BY <1>1, <2>1
    <3>2. ASSUME NEW j \in (i + 1) .. Len(q)
          PROVE  q[j].type # "SetLayout"
      <4>1. j \in (i + 1) .. Len(r) /\ j \in 1 .. Len(q)
        BY <1>1, <3>1
      <4> QED
        BY <1>1, <1>4, <4>1
    <3> QED
      BY <1>4, <3>1, <3>2
  <2> QED
    BY <1>1, <2>1, <2>2 DEF LayoutOK
<1>5. LayoutOK(r, l, S)
  BY <1>3, <1>4 DEF LayoutOK
<1> QED
  BY <1>5 DEF r

LEMMA LayoutNew ==
    ASSUME NEW q \in Seq(CaptureEvent), NEW s \in Seq(CaptureEvent), s # <<>>, NEW l, NEW S,
           s[Len(s)] = Relayout(S)
    PROVE  LayoutOK(q \o s, l, S)
<1> DEFINE r == q \o s
<1>1. Len(r) \in Nat \ {0} /\ r[Len(r)] = s[Len(s)]
  OBVIOUS
<1> HIDE DEF r
<1>2. r[Len(r)].type = "SetLayout" /\ r[Len(r)].peers = S
  BY <1>1 DEF Relayout
<1>3. Len(r) \in 1 .. Len(r)
  BY <1>1
<1>4. ASSUME NEW i \in 1 .. Len(r), \A j \in (i + 1) .. Len(r) : r[j].type # "SetLayout"
      PROVE  r[i].peers = S
  <2>1. i = Len(r)
    BY <1>1, <1>2, <1>4
  <2> QED
    BY <1>2, <2>1
<1>5. LayoutOK(r, l, S)
  BY <1>2, <1>3, <1>4 DEF LayoutOK
<1> QED
  BY <1>5 DEF r

LEMMA LayoutHandled ==
    ASSUME NEW q \in Seq(CaptureEvent), q # <<>>, NEW l, NEW k, NEW S, LayoutOK(q, l, S),
           k = IF q[1].type = "SetLayout" THEN q[1].peers ELSE l
    PROVE  LayoutOK(Tail(q), k, S)
<1> DEFINE r == Tail(q)
<1>1. /\ Len(q) \in Nat \ {0} /\ Len(r) = Len(q) - 1
      /\ \A i \in 1 .. Len(r) : r[i] = q[i + 1]
  OBVIOUS
<1> HIDE DEF r
<1>2. \A i \in 2 .. Len(q) : i - 1 \in 1 .. Len(r) /\ q[i] = r[i - 1]
  <2> SUFFICES ASSUME NEW i \in 2 .. Len(q)
               PROVE  i - 1 \in 1 .. Len(r) /\ q[i] = r[i - 1]
    OBVIOUS
  <2>1. i - 1 \in 1 .. Len(r) /\ (i - 1) + 1 = i
    BY <1>1
  <2> QED
    BY <1>1, <2>1
<1>3. ASSUME \A i \in 1 .. Len(r) : r[i].type # "SetLayout"
      PROVE  k = S
  <2>1. \A i \in (1 + 1) .. Len(q) : q[i].type # "SetLayout"
    BY <1>2, <1>3
  <2>2. CASE q[1].type = "SetLayout"
    <3>1. 1 \in 1 .. Len(q)
      BY <1>1
    <3>2. q[1].peers = S
      BY <2>1, <2>2, <3>1 DEF LayoutOK
    <3> QED
      BY <2>2, <3>2
  <2>3. CASE q[1].type # "SetLayout"
    <3>1. \A i \in 1 .. Len(q) : q[i].type # "SetLayout"
      BY <1>1, <2>1, <2>3
    <3> QED
      BY <2>3, <3>1 DEF LayoutOK
  <2> QED
    BY <2>2, <2>3
<1>4. ASSUME NEW i \in 1 .. Len(r), r[i].type = "SetLayout",
             \A j \in (i + 1) .. Len(r) : r[j].type # "SetLayout"
      PROVE  r[i].peers = S
  <2>1. i + 1 \in 1 .. Len(q) /\ q[i + 1].type = "SetLayout"
    BY <1>1, <1>4
  <2>2. \A j \in (i + 1 + 1) .. Len(q) : q[j].type # "SetLayout"
    <3> SUFFICES ASSUME NEW j \in (i + 1 + 1) .. Len(q)
                 PROVE  q[j].type # "SetLayout"
      OBVIOUS
    <3>1. j \in 2 .. Len(q) /\ j - 1 \in (i + 1) .. Len(r)
      BY <1>1
    <3> QED
      BY <1>2, <1>4, <3>1
  <2>3. q[i + 1].peers = S
    BY <2>1, <2>2 DEF LayoutOK
  <2> QED
    BY <1>1, <2>3
<1>5. LayoutOK(r, k, S)
  BY <1>3, <1>4 DEF LayoutOK
<1> QED
  BY <1>5 DEF r

LEMMA QueuedLayout ==
    ASSUME TypeOK, LayoutInv, NEW m \in Machine, NEW s \in Seq(CaptureEvent),
           Queue(capq, m, s), ctl' = ctl,
           \A x \in Machine \ {m} : sessions'[x] = sessions[x],
           \/ sessions'[m] = sessions[m] /\ \A i \in 1 .. Len(s) : s[i].type # "SetLayout"
           \/ s # <<>> /\ s[Len(s)] = Relayout(sessions'[m])
    PROVE  LayoutInv'
<1>1. capq'[m] = capq[m] \o s /\ \A x \in Machine \ {m} : capq'[x] = capq[x]
  BY DEF Queue, TypeOK
<1>2. ASSUME NEW x \in Machine
      PROVE  LayoutOK(capq'[x], ctl'[x].layout, sessions'[x])
  <2>1. LayoutOK(capq[x], ctl[x].layout, sessions[x]) /\ capq[x] \in Seq(CaptureEvent)
    BY DEF LayoutInv, TypeOK
  <2>2. CASE x # m
    BY <1>1, <2>1, <2>2
  <2>3. CASE x = m /\ sessions'[m] = sessions[m]
             /\ \A i \in 1 .. Len(s) : s[i].type # "SetLayout"
    <3>1. LayoutOK(capq[m] \o s, ctl[m].layout, sessions[m])
      BY <2>1, <2>3, LayoutOther
    <3> QED
      BY <1>1, <2>3, <3>1
  <2>4. CASE x = m /\ s # <<>> /\ s[Len(s)] = Relayout(sessions'[m])
    <3>1. LayoutOK(capq[m] \o s, ctl[m].layout, sessions'[m])
      BY <2>1, <2>4, LayoutNew
    <3> QED
      BY <1>1, <2>4, <3>1
  <2> QED
    BY <2>2, <2>3, <2>4
<1> QED
  BY <1>2 DEF LayoutInv

LEMMA RunLoopLayout ==
    ASSUME TypeOK, LayoutInv, NEW m \in Machine, RunLoop(m)
    PROVE  LayoutInv'
<1>1. ASSUME NEW p \in Machine \ {m}, OnConnected(m, p)
      PROVE  LayoutInv'
  <2> DEFINE cs == <<Relayout(sessions'[m])>>
  <2>1. /\ ctl' = ctl /\ Queue(capq, m, cs)
        /\ sessions' = [sessions EXCEPT ![m] = @ \union {p}]
    BY <1>1 DEF OnConnected, Hears
  <2>2. sessions'[m] \in SUBSET Machine
        /\ \A x \in Machine \ {m} : sessions'[x] = sessions[x]
    BY <2>1 DEF TypeOK
  <2>3. cs \in Seq(CaptureEvent) /\ cs # <<>> /\ cs[Len(cs)] = Relayout(sessions'[m])
    BY <2>2 DEF Relayout, CaptureEvent
  <2> HIDE DEF cs
  <2> QED
    BY <2>1, <2>2, <2>3, QueuedLayout
<1>2. ASSUME NEW p \in Machine \ {m}, OnDisconnected(m, p)
      PROVE  LayoutInv'
  <2> DEFINE cs == << [type |-> "PeerLost", peer |-> p], Relayout(sessions'[m]) >>
  <2>1. /\ ctl' = ctl /\ Queue(capq, m, cs)
        /\ sessions' = [sessions EXCEPT ![m] = @ \ {p}]
    BY <1>2 DEF OnDisconnected, Hears
  <2>2. sessions'[m] \in SUBSET Machine
        /\ \A x \in Machine \ {m} : sessions'[x] = sessions[x]
    BY <2>1 DEF TypeOK
  <2>3. cs \in Seq(CaptureEvent) /\ cs # <<>> /\ cs[Len(cs)] = Relayout(sessions'[m])
    BY <2>2 DEF Relayout, CaptureEvent
  <2> HIDE DEF cs
  <2> QED
    BY <2>1, <2>2, <2>3, QueuedLayout
<1>3. ASSUME NEW p \in Machine \ {m}, OnEnter(m, p)
      PROVE  LayoutInv'
  <2> DEFINE msg == Head(net[<<p, m>>])
             cs == << [type |-> "PeerEntered", peer |-> p, seq |-> msg.seq] >>
  <2>1. Hears(p, m, "Enter") /\ Queue(capq, m, cs) /\ sessions' = sessions
    BY <1>3 DEF OnEnter
  <2>2. msg \in Message /\ msg.type = "Enter"
    BY <2>1, HeadOfNet
  <2> HIDE DEF msg
  <2>3. msg.seq \in SeqNo
    BY <2>2 DEF Message, InputMsg
  <2>4. cs \in Seq(CaptureEvent) /\ \A i \in 1 .. Len(cs) : cs[i].type # "SetLayout"
    BY <2>3 DEF CaptureEvent
  <2>5. ctl' = ctl
    BY <2>1 DEF Hears
  <2> HIDE DEF cs
  <2> QED
    BY <2>1, <2>4, <2>5, QueuedLayout
<1>4. ASSUME NEW p \in Machine \ {m}, OnYield(m, p)
      PROVE  LayoutInv'
  <2> DEFINE cs == << [type |-> "PeerYield", peer |-> p] >>
  <2>1. ctl' = ctl /\ Queue(capq, m, cs) /\ sessions' = sessions
    BY <1>4 DEF OnYield, Hears
  <2>2. cs \in Seq(CaptureEvent) /\ \A i \in 1 .. Len(cs) : cs[i].type # "SetLayout"
    BY DEF CaptureEvent
  <2> HIDE DEF cs
  <2> QED
    BY <2>1, <2>2, QueuedLayout
<1>5. ASSUME NEW p \in Machine \ {m}, OnInput(m, p)
      PROVE  LayoutInv'
  <2>1. UNCHANGED <<ctl, capq, sessions>>
    BY <1>5 DEF OnInput, Hears
  <2> QED
    BY <2>1 DEF LayoutInv
<1>6. ASSUME NEW d \in dgrams[m], OnDatagram(m, d)
      PROVE  LayoutInv'
  <2>1. ctl' = ctl /\ sessions' = sessions
    BY <1>6 DEF OnDatagram, links
  <2>2. CASE d.type = "Pointer"
    <3> DEFINE cs == <<d>>
    <3>1. Queue(capq, m, cs)
      BY <1>6, <2>2 DEF OnDatagram
    <3>2. d \in DatagramType({"Pointer"})
      BY <2>2 DEF TypeOK, DatagramType
    <3>3. cs \in Seq(CaptureEvent) /\ \A i \in 1 .. Len(cs) : cs[i].type # "SetLayout"
      BY <2>2, <3>2 DEF CaptureEvent
    <3> HIDE DEF cs
    <3> QED
      BY <2>1, <3>1, <3>3, QueuedLayout
  <2>3. CASE d.type # "Pointer"
    <3>1. capq' = capq
      BY <1>6, <2>3 DEF OnDatagram
    <3> QED
      BY <2>1, <3>1 DEF LayoutInv
  <2> QED
    BY <2>2, <2>3
<1>7. ASSUME OnYielded(m)
      PROVE  LayoutInv'
  <2> DEFINE cs == << [type |-> "YieldedTo", peer |-> Head(yielded[m])] >>
  <2>1. ctl' = ctl /\ Queue(capq, m, cs) /\ sessions' = sessions
    BY <1>7 DEF OnYielded, links
  <2>2. Head(yielded[m]) \in Machine
    BY <1>7 DEF OnYielded, TypeOK
  <2>3. cs \in Seq(CaptureEvent) /\ \A i \in 1 .. Len(cs) : cs[i].type # "SetLayout"
    BY <2>2 DEF CaptureEvent
  <2> HIDE DEF cs
  <2> QED
    BY <2>1, <2>3, QueuedLayout
<1> QED
  BY <1>1, <1>2, <1>3, <1>4, <1>5, <1>6, <1>7 DEF RunLoop, Hearing

LEMMA CapturingLayout ==
    ASSUME PointerInv, LayoutInv, NEW m \in Machine, Capturing(m)
    PROVE  LayoutInv'
<1> DEFINE q == capq[m]
           d == Handled(ctl[m], Head(q))
<1>0. TypeOK
  BY DEF PointerInv
<1>1. /\ q # <<>> /\ capq' = [capq EXCEPT ![m] = Tail(q)] /\ sessions' = sessions
      /\ Perform(m, d)
  BY DEF Capturing, PerformAt, links
<1>2. q \in Seq(CaptureEvent) /\ Head(q) = q[1] /\ Head(q) \in CaptureEvent
  BY <1>0, <1>1 DEF TypeOK
<1>3. d.layout = IF q[1].type = "SetLayout" THEN q[1].peers ELSE ctl[m].layout
  BY <1>2, HandledTurns, OwnController
<1>4. d \in Working
  BY <1>2, HandledTurns, OwnController DEF Turns
<1> HIDE DEF d
<1>5. /\ ctl'[m].layout = d.layout
      /\ \A x \in Machine \ {m} : ctl'[x] = ctl[x]
  BY <1>0, <1>1, <1>4, Performs
<1> HIDE DEF q
<1>6. LayoutOK(q, ctl[m].layout, sessions[m])
  BY DEF LayoutInv, q
<1>7. LayoutOK(Tail(q), d.layout, sessions[m])
  BY <1>1, <1>2, <1>3, <1>6, LayoutHandled
<1>8. ASSUME NEW x \in Machine
      PROVE  LayoutOK(capq'[x], ctl'[x].layout, sessions'[x])
  <2>1. capq'[m] = Tail(q) /\ \A y \in Machine \ {m} : capq'[y] = capq[y]
    BY <1>0, <1>1 DEF TypeOK
  <2>2. CASE x = m
    BY <1>1, <1>5, <1>7, <2>1, <2>2
  <2>3. CASE x # m
    BY <1>1, <1>5, <2>1, <2>3 DEF LayoutInv
  <2> QED
    BY <2>2, <2>3
<1> QED
  BY <1>8 DEF LayoutInv

DeskInv == LinkInv /\ LayoutInv

LEMMA DeskInit == Init => DeskInv
<1> SUFFICES ASSUME Init
             PROVE  LayoutInv
  BY LinkInit DEF DeskInv
<1>1. ASSUME NEW m \in Machine
      PROVE  LayoutOK(capq[m], ctl[m].layout, sessions[m])
  <2>1. capq[m] = <<>> /\ ctl[m].layout = Machine \ {m} /\ sessions[m] = Machine \ {m}
    BY DEF Init, NewController
  <2> QED
    BY <2>1 DEF LayoutOK
<1> QED
  BY <1>1 DEF LayoutInv

LEMMA DeskNext == DeskInv /\ [Next]_vars => DeskInv'
<1> SUFFICES ASSUME DeskInv, [Next]_vars
             PROVE  LayoutInv'
  BY LinkNext DEF DeskInv
<1>0. PointerInv /\ TypeOK /\ LayoutInv
  BY DEF DeskInv, LinkInv, PointerInv
<1>1. ASSUME NEW m \in Machine, UserStep(m) \/ ReportDue(m)
      PROVE  LayoutInv'
  <2>1. CASE Capturing(m)
    BY <1>0, <2>1, CapturingLayout
  <2>2. CASE ~Capturing(m)
    <3>1. PICK d \in Working : Perform(m, d) /\ d.layout = ctl[m].layout
      BY <1>0, <1>1, <2>2, ThreadActs
    <3>2. \A x \in Machine : ctl'[x].layout = ctl[x].layout
      BY <1>0, <3>1, Performs
    <3>3. capq' = capq /\ sessions' = sessions
      BY <1>0, <1>1, UserTypes DEF ReportDue, links
    <3> QED
      BY <1>0, <3>2, <3>3 DEF LayoutInv
  <2> QED
    BY <2>1, <2>2
<1>2. ASSUME NEW m \in Machine, RunLoop(m)
      PROVE  LayoutInv'
  BY <1>0, <1>2, RunLoopLayout
<1>3. ASSUME NEW m \in Machine, Capturing(m)
      PROVE  LayoutInv'
  BY <1>0, <1>3, CapturingLayout
<1>4. ASSUME NEW m \in Machine, Injecting(m)
      PROVE  LayoutInv'
  <2>1. UNCHANGED <<ctl, capq, sessions>>
    BY <1>4 DEF Injecting, InjectControl, InjectMotion, InjectDisconnected,
                InjectLocalActivity, Injects, links
  <2> QED
    BY <1>0, <2>1 DEF LayoutInv
<1>5. ASSUME NEW p \in Pair, Connecting(p[1], p[2])
      PROVE  LayoutInv'
  <2>1. UNCHANGED <<ctl, capq, sessions>>
    BY <1>5 DEF Connecting, LinkFails, EndNoticed, Reconnect
  <2> QED
    BY <1>0, <2>1 DEF LayoutInv
<1>6. ASSUME NEW m \in Machine, Restart(m)
      PROVE  LayoutInv'
  <2> DEFINE c == NewController(m, rcv[m].osPos)
  <2>1. /\ ctl' = [ctl EXCEPT ![m] = c] /\ capq' = [capq EXCEPT ![m] = <<>>]
        /\ sessions' = [sessions EXCEPT ![m] = {}]
    BY <1>6 DEF Restart
  <2>2. c.layout = {}
    BY DEF NewController
  <2> HIDE DEF c
  <2>3. ASSUME NEW x \in Machine
        PROVE  LayoutOK(capq'[x], ctl'[x].layout, sessions'[x])
    <3>1. CASE x = m
      <4>1. capq'[x] = <<>> /\ ctl'[x].layout = {} /\ sessions'[x] = {}
        BY <1>0, <2>1, <2>2, <3>1 DEF TypeOK
      <4> QED
        BY <4>1 DEF LayoutOK
    <3>2. CASE x # m
      BY <1>0, <2>1, <3>2 DEF LayoutInv, TypeOK
    <3> QED
      BY <3>1, <3>2
  <2> QED
    BY <2>3 DEF LayoutInv
<1>7. CASE Rest \/ UNCHANGED vars
  <2>1. UNCHANGED <<ctl, capq, sessions>>
    BY <1>7 DEF Rest, vars, links
  <2> QED
    BY <1>0, <2>1 DEF LayoutInv
<1> QED
  BY <1>1, <1>2, <1>3, <1>4, <1>5, <1>6, <1>7 DEF Next

LEMMA DeskSettles ==
    ASSUME DeskInv, Settled, NEW m \in Machine
    PROVE  /\ \A p \in Machine \ {m} : p \in sessions[m] <=> {m, p} \in up
           /\ sessions[m] = {p \in Machine \ {m} : {m, p} \in up}
           /\ ctl[m].layout = sessions[m]
<1>0. LinkInv /\ LayoutInv /\ NetInv /\ sessions[m] \in SUBSET Machine /\ m \notin sessions[m]
  BY DEF DeskInv, LinkInv, PointerInv, TypeOK
<1>1. ASSUME NEW p \in Machine \ {m}
      PROVE  p \in sessions[m] <=> {m, p} \in up
  <2> DEFINE x == <<p, m>>
             q == net[x]
             S == sessions[x[2]]
  <2>1. x \in Pair /\ x[1] = p /\ x[2] = m /\ {p, m} = {m, p}
    BY PairType
  <2>2. q = <<>>
    BY <2>1 DEF Settled
  <2>3. UpAfter(q, Len(q), S, x[1]) <=> x[1] \in active[x[2]]
    BY <1>0, <2>1 DEF NetInv, NetOK
  <2>5. {x[1], x[2]} \in up <=> x[1] \in active[x[2]]
    BY <1>0, <2>1 DEF NetInv, Settled
  <2> HIDE DEF x, q, S
  <2>4. x[1] \in S <=> {x[1], x[2]} \in up
    BY <2>2, <2>3, <2>5, NothingHeard
  <2> QED
    BY <2>1, <2>4 DEF S
<1>2. sessions[m] = {p \in Machine \ {m} : {m, p} \in up}
  BY <1>0, <1>1
<1>3. ctl[m].layout = sessions[m]
  <2>1. capq[m] = <<>> /\ LayoutOK(capq[m], ctl[m].layout, sessions[m])
    BY <1>0 DEF Settled, LayoutInv
  <2> QED
    BY <2>1 DEF LayoutOK
<1> QED
  BY <1>1, <1>2, <1>3

LEMMA DeskAlways == Spec => []DeskInv
BY DeskInit, DeskNext, PTL DEF Spec

(* Once everything has been heard, each machine's session table and the    *)
(* layout its controller works with are exactly the machines connected to  *)
(* it, whatever connections failed, came back or were replaced by those of *)
(* a machine that started again (the Connected and Disconnected arms of    *)
(* run.rs, the SetLayout they end in, a session replaced in session.rs).   *)
THEOREM DeskRight == Spec => []DeskFollowsConnections
<1>1. DeskInv => DeskFollowsConnections
  BY DeskSettles DEF DeskFollowsConnections
<1> QED
  BY <1>1, DeskAlways, PTL

-----------------------------------------------------------------------------

(***************************************************************************)
(* The driver: what a machine without a session has been let do here, or   *)
(* asks for in the injection thread's queue, ends further back in it.      *)
(***************************************************************************)
Ended(q, i, p) == \E j \in i .. Len(q) : q[j].type = "Disconnected" /\ q[j].peer = p

EnterFrom(e, p) == e.type = "Control" /\ e.from = p /\ e.msg.type = "Enter"

DriverOK(q, driver, p) ==
    /\ driver = p => Ended(q, 1, p)
    /\ \A i \in 1 .. Len(q) : EnterFrom(q[i], p) => Ended(q, i + 1, p)

DriverInv ==
    \A m \in Machine : \A p \in Machine \ sessions[m] :
        DriverOK(injq[m], rcv[m].driver, p)

LEMMA DriverMore ==
    ASSUME NEW q \in Seq(InjectEntry), NEW e, NEW d, NEW p,
           DriverOK(q, d, p), ~EnterFrom(e, p)
    PROVE  DriverOK(q \o <<e>>, d, p) /\ DriverOK(Append(q, e), d, p)
<1> DEFINE r == Append(q, e)
<1>1. /\ Len(q) \in Nat /\ Len(r) = Len(q) + 1 /\ r[Len(q) + 1] = e
      /\ \A i \in 1 .. Len(q) : r[i] = q[i]
      /\ q \o <<e>> = r
  OBVIOUS
<1> HIDE DEF r
<1>2. ASSUME NEW i \in Nat \ {0}, Ended(q, i, p)
      PROVE  Ended(r, i, p)
  <2>1. PICK j \in i .. Len(q) : q[j].type = "Disconnected" /\ q[j].peer = p
    BY <1>2 DEF Ended
  <2>2. j \in i .. Len(r) /\ r[j] = q[j]
    BY <1>1, <2>1
  <2> QED
    BY <2>1, <2>2 DEF Ended
<1>3. d = p => Ended(r, 1, p)
  BY <1>2 DEF DriverOK
<1>4. ASSUME NEW i \in 1 .. Len(r), EnterFrom(r[i], p)
      PROVE  Ended(r, i + 1, p)
  <2>1. i \in 1 .. Len(q) /\ EnterFrom(q[i], p)
    <3>1. i \in 1 .. Len(q) \/ i = Len(q) + 1
      BY <1>1
    <3> QED
      BY <1>1, <1>4, <3>1
  <2>2. Ended(q, i + 1, p) /\ i + 1 \in Nat \ {0}
    BY <2>1 DEF DriverOK
  <2> QED
    BY <1>2, <2>2
<1> QED
  BY <1>1, <1>3, <1>4 DEF DriverOK, r

LEMMA DriverEnds ==
    ASSUME NEW q \in Seq(InjectEntry), NEW d, NEW p
    PROVE  DriverOK(q \o << [type |-> "Disconnected", peer |-> p] >>, d, p)
<1> DEFINE e == [type |-> "Disconnected", peer |-> p]
           r == q \o <<e>>
<1>1. Len(q) \in Nat /\ Len(r) = Len(q) + 1 /\ r[Len(q) + 1] = e
  OBVIOUS
<1>2. \A i \in 1 .. Len(q) : r[i] = q[i]
  OBVIOUS
<1> HIDE DEF r
<1>3. ASSUME NEW i \in 1 .. Len(r)
      PROVE  Ended(r, i, p)
  <2>1. Len(r) \in i .. Len(r) /\ r[Len(r)] = e
    BY <1>1
  <2> QED
    BY <2>1 DEF Ended
<1>4. ASSUME NEW i \in 1 .. Len(r), EnterFrom(r[i], p)
      PROVE  Ended(r, i + 1, p)
  <2>1. i # Len(r)
    BY <1>1, <1>4 DEF EnterFrom
  <2>2. i + 1 \in 1 .. Len(r)
    BY <1>1, <2>1
  <2> QED
    BY <1>3, <2>2
<1>5. 1 \in 1 .. Len(r)
  BY <1>1
<1>6. DriverOK(r, d, p)
  BY <1>3, <1>4, <1>5 DEF DriverOK
<1> QED
  BY <1>6 DEF r

LEMMA DriverPop ==
    ASSUME NEW q \in Seq(InjectEntry), q # <<>>, NEW d, NEW n, NEW p,
           DriverOK(q, d, p),
           n = p => d = p \/ EnterFrom(q[1], p),
           q[1].type = "Disconnected" /\ q[1].peer = p => n # p
    PROVE  DriverOK(Tail(q), n, p)
<1> DEFINE r == Tail(q)
<1>1. /\ Len(q) \in Nat \ {0} /\ Len(r) = Len(q) - 1
      /\ \A i \in 1 .. Len(r) : r[i] = q[i + 1]
  OBVIOUS
<1> HIDE DEF r
<1>2. ASSUME NEW i \in Nat \ {0}, Ended(q, i + 1, p)
      PROVE  Ended(r, i, p)
  <2>1. PICK j \in (i + 1) .. Len(q) : q[j].type = "Disconnected" /\ q[j].peer = p
    BY <1>2 DEF Ended
  <2>2. j - 1 \in i .. Len(r) /\ j - 1 \in 1 .. Len(r) /\ (j - 1) + 1 = j
    BY <1>1, <2>1
  <2>3. r[j - 1] = q[j]
    BY <1>1, <2>2
  <2> QED
    BY <2>1, <2>2, <2>3 DEF Ended
<1>3. ASSUME n = p
      PROVE  Ended(r, 1, p)
  <2>1. CASE EnterFrom(q[1], p)
    <3>1. 1 \in 1 .. Len(q)
      BY <1>1
    <3>2. Ended(q, 1 + 1, p)
      BY <2>1, <3>1 DEF DriverOK
    <3> QED
      BY <1>2, <3>2
  <2>2. CASE d = p
    <3>1. PICK j \in 1 .. Len(q) : q[j].type = "Disconnected" /\ q[j].peer = p
      BY <2>2 DEF DriverOK, Ended
    <3>2. j \in (1 + 1) .. Len(q)
      BY <1>3, <3>1
    <3>3. Ended(q, 1 + 1, p)
      BY <3>1, <3>2 DEF Ended
    <3> QED
      BY <1>2, <3>3
  <2> QED
    BY <1>3, <2>1, <2>2
<1>4. ASSUME NEW i \in 1 .. Len(r), EnterFrom(r[i], p)
      PROVE  Ended(r, i + 1, p)
  <2>1. i + 1 \in 1 .. Len(q) /\ EnterFrom(q[i + 1], p)
    BY <1>1, <1>4
  <2>2. Ended(q, (i + 1) + 1, p) /\ i + 1 \in Nat \ {0}
    BY <2>1 DEF DriverOK
  <2> QED
    BY <1>2, <2>2
<1>5. DriverOK(r, n, p)
  BY <1>3, <1>4 DEF DriverOK
<1> QED
  BY <1>5 DEF r

LEMMA HearingDriver ==
    ASSUME LinkInv, DriverInv, NEW m \in Machine, Hearing(m)
    PROVE  DriverInv'
<1>0. TypeOK /\ NetInv /\ rcv' = rcv
  BY DEF LinkInv, PointerInv, Hearing, OnConnected, OnDisconnected, OnEnter, OnYield,
         OnInput, Hears
<1>1. ASSUME NEW p \in Machine \ {m}, OnConnected(m, p)
      PROVE  DriverInv'
  <2>1. sessions' = [sessions EXCEPT ![m] = @ \union {p}] /\ injq' = injq
    BY <1>1 DEF OnConnected
  <2>2. \A x \in Machine : \A y : y \notin sessions'[x] => y \notin sessions[x]
    BY <1>0, <2>1 DEF TypeOK
  <2> QED
    BY <1>0, <2>1, <2>2 DEF DriverInv
<1>2. ASSUME NEW p \in Machine \ {m}, OnDisconnected(m, p)
      PROVE  DriverInv'
  <2> DEFINE e == [type |-> "Disconnected", peer |-> p]
  <2>1. /\ sessions' = [sessions EXCEPT ![m] = @ \ {p}]
        /\ Queue(injq, m, <<e>>)
    BY <1>2 DEF OnDisconnected
  <2>2. /\ injq'[m] = injq[m] \o <<e>> /\ \A x \in Machine \ {m} : injq'[x] = injq[x]
        /\ sessions'[m] = sessions[m] \ {p}
        /\ \A x \in Machine \ {m} : sessions'[x] = sessions[x]
        /\ injq[m] \in Seq(InjectEntry)
    BY <1>0, <2>1 DEF TypeOK, Queue
  <2>3. ASSUME NEW x \in Machine, NEW y \in Machine \ sessions'[x]
        PROVE  DriverOK(injq'[x], rcv[x].driver, y)
    <3>1. CASE x # m
      BY <2>2, <3>1 DEF DriverInv
    <3>2. CASE x = m /\ y = p
      <4>1. DriverOK(injq[m] \o <<e>>, rcv[m].driver, p)
        BY <2>2, DriverEnds
      <4> QED
        BY <2>2, <3>2, <4>1
    <3>3. CASE x = m /\ y # p
      <4>1. DriverOK(injq[m], rcv[m].driver, y)
        BY <2>2, <3>3 DEF DriverInv
      <4>2. ~EnterFrom(e, y)
        BY DEF EnterFrom
      <4> HIDE DEF e
      <4>3. DriverOK(injq[m] \o <<e>>, rcv[m].driver, y)
        BY <2>2, <4>1, <4>2, DriverMore
      <4> QED
        BY <2>2, <3>3, <4>3
    <3> QED
      BY <3>1, <3>2, <3>3
  <2> QED
    BY <1>0, <2>3 DEF DriverInv
<1>3. ASSUME NEW p \in Machine \ {m}, OnEnter(m, p) \/ OnInput(m, p)
      PROVE  DriverInv'
  <2> DEFINE msg == Head(net[<<p, m>>])
             e == From(p, msg)
  <2>1. PICK type \in {"Enter", "Leave", "Key", "Button"} : Hears(p, m, type)
    BY <1>3 DEF OnEnter, OnInput
  <2>2. msg.type = type
    BY <1>0, <2>1, HeadOfNet
  <2>3. type = "Enter" => p \in sessions[m]
    <3> DEFINE w == <<p, m>>
               q == net[w]
               S == sessions[m]
    <3>1. w \in Pair /\ w[1] = p /\ w[2] = m
      BY PairType
    <3>2. q \in Seq(Message) /\ q # <<>>
      BY <1>0, <2>1, <3>1 DEF TypeOK, Hears
    <3>3. 1 \in 1 .. Len(q) /\ q[1] = msg
      BY <3>2
    <3>4. EntersUp(q, S, p)
      BY <1>0, <3>1 DEF NetInv, NetOK
    <3> HIDE DEF w, q, S, msg
    <3>5. type = "Enter" => UpAfter(q, 1, S, p)
      BY <2>2, <3>3, <3>4 DEF EntersUp
    <3>6. type = "Enter" => p \in S
      BY <2>2, <3>3, <3>5, UpFirst
    <3> QED
      BY <3>6 DEF S
  <2>4. Queue(injq, m, <<e>>) /\ sessions' = sessions
    BY <1>3 DEF OnEnter, OnInput
  <2>5. ASSUME NEW y \in Machine \ sessions[m]
        PROVE  ~EnterFrom(e, y)
    BY <2>2, <2>3 DEF EnterFrom, From
  <2> HIDE DEF e
  <2>6. /\ injq'[m] = injq[m] \o <<e>> /\ \A x \in Machine \ {m} : injq'[x] = injq[x]
        /\ injq[m] \in Seq(InjectEntry)
    BY <1>0, <2>4 DEF TypeOK, Queue
  <2>7. ASSUME NEW x \in Machine, NEW y \in Machine \ sessions[x]
        PROVE  DriverOK(injq'[x], rcv[x].driver, y)
    <3>1. DriverOK(injq[x], rcv[x].driver, y)
      BY DEF DriverInv
    <3>2. CASE x = m
      <4>1. DriverOK(injq[m], rcv[m].driver, y) /\ ~EnterFrom(e, y)
        BY <2>5, <3>1, <3>2
      <4>2. DriverOK(injq[m] \o <<e>>, rcv[m].driver, y)
        BY <2>6, <4>1, DriverMore
      <4> QED
        BY <2>6, <3>2, <4>2
    <3>3. CASE x # m
      BY <2>6, <3>1, <3>3
    <3> QED
      BY <3>2, <3>3
  <2> QED
    BY <1>0, <2>4, <2>7 DEF DriverInv
<1>4. ASSUME NEW p \in Machine \ {m}, OnYield(m, p)
      PROVE  DriverInv'
  BY <1>0, <1>4 DEF OnYield, DriverInv
<1> QED
  BY <1>1, <1>2, <1>3, <1>4 DEF Hearing

(* The injection thread takes the first entry off its queue. *)
LEMMA DriverStep ==
    ASSUME TypeOK, DriverInv, NEW m \in Machine, NEW type, Injects(m, type),
           sessions' = sessions,
           \A x \in Machine \ {m} : rcv'[x] = rcv[x],
           \A p \in Machine :
              /\ rcv'[m].driver = p =>
                    rcv[m].driver = p \/ EnterFrom(Head(injq[m]), p)
              /\ type = "Disconnected" /\ Head(injq[m]).peer = p =>
                    rcv'[m].driver # p
    PROVE  DriverInv'
<1> DEFINE q == injq[m]
           n == rcv'[m].driver
<1>1. /\ q \in Seq(InjectEntry) /\ q # <<>> /\ Head(q) = q[1] /\ q[1].type = type
      /\ injq'[m] = Tail(q) /\ \A x \in Machine \ {m} : injq'[x] = injq[x]
  BY DEF Injects, TypeOK
<1>2. ASSUME NEW p \in Machine \ sessions[m]
      PROVE  DriverOK(Tail(q), n, p)
  <2>1. DriverOK(q, rcv[m].driver, p)
    BY DEF DriverInv
  <2>2. n = p => rcv[m].driver = p \/ EnterFrom(q[1], p)
    BY <1>1
  <2>3. q[1].type = "Disconnected" /\ q[1].peer = p => n # p
    BY <1>1
  <2> HIDE DEF q, n
  <2> QED
    BY <1>1, <2>1, <2>2, <2>3, DriverPop
<1>3. ASSUME NEW x \in Machine, NEW p \in Machine \ sessions[x]
      PROVE  DriverOK(injq'[x], rcv'[x].driver, p)
  BY <1>1, <1>2, <1>3 DEF DriverInv
<1> QED
  BY <1>3 DEF DriverInv

LEMMA InjectingDriver ==
    ASSUME LinkInv, DriverInv, NEW m \in Machine, Injecting(m)
    PROVE  DriverInv'
<1> DEFINE e == Head(injq[m])
<1>0. /\ TypeOK /\ sessions' = sessions /\ rcv[m] \in R!ReceiverState
      /\ \A x \in Machine \ {m} : rcv'[x] = rcv[x]
  BY DEF LinkInv, PointerInv, TypeOK, Injecting, InjectControl, InjectMotion,
         InjectDisconnected, InjectLocalActivity, Injects, links
<1>1. ASSUME InjectControl(m)
      PROVE  DriverInv'
  <2> DEFINE r == R!SelectControl(rcv[m], e.from, e.msg, FALSE)
  <2>1. Injects(m, "Control") /\ rcv'[m] = r
    BY <1>0, <1>1 DEF InjectControl, TypeOK
  <2>2. e \in InjectEntry /\ e.type = "Control"
    BY <1>0, <2>1, InjectHead
  <2>3. e.from \in Machine /\ e.msg \in Message
    BY <2>2 DEF InjectEntry, DatagramType
  <2>4. r.driver = IF e.msg.type = "Enter" THEN e.from ELSE rcv[m].driver
    BY <1>0, <2>3, SelectControlType
  <2> HIDE DEF r
  <2>5. \A p \in Machine : rcv'[m].driver = p => rcv[m].driver = p \/ EnterFrom(e, p)
    BY <2>1, <2>2, <2>4 DEF EnterFrom
  <2> HIDE DEF e
  <2> QED
    BY <1>0, <2>1, <2>5, DriverStep DEF e
<1>2. ASSUME InjectMotion(m)
      PROVE  DriverInv'
  <2> DEFINE r == R!SelectMotion(rcv[m], e.from, e.seq, e.pos)
  <2>1. Injects(m, "Motion") /\ rcv'[m] = r
    BY <1>0, <1>2 DEF InjectMotion, TypeOK
  <2>2. e \in InjectEntry /\ e.type = "Motion"
    BY <1>0, <2>1, InjectHead
  <2>3. e.seq \in SeqNo /\ e.pos \in Place
    BY <2>2 DEF InjectEntry, DatagramType
  <2>4. r.driver = rcv[m].driver
    BY <1>0, <2>3, SelectMotionType
  <2> HIDE DEF r
  <2> QED
    BY <1>0, <2>1, <2>4, DriverStep
<1>3. ASSUME InjectDisconnected(m)
      PROVE  DriverInv'
  <2> DEFINE r == R!SelectDisconnected(rcv[m], e.peer)
  <2>1. Injects(m, "Disconnected") /\ rcv'[m] = r
    BY <1>0, <1>3 DEF InjectDisconnected, TypeOK
  <2>2. r.driver = IF rcv[m].driver = e.peer THEN NoMachine ELSE rcv[m].driver
    BY <1>0, SelectDisconnectedType
  <2>3. NoMachine \notin Machine
    BY ControllerAssumption
  <2> HIDE DEF r
  <2>4. \A p \in Machine :
            /\ rcv'[m].driver = p => rcv[m].driver = p
            /\ e.peer = p => rcv'[m].driver # p
    BY <2>1, <2>2, <2>3
  <2> QED
    BY <1>0, <2>1, <2>4, DriverStep
<1>4. ASSUME InjectLocalActivity(m)
      PROVE  DriverInv'
  <2>1. Injects(m, "LocalActivity")
        /\ rcv' = IF rcv[m].entered THEN [rcv EXCEPT ![m] = R!StopDriving(@)] ELSE rcv
    BY <1>4 DEF InjectLocalActivity
  <2>2. rcv'[m].driver = rcv[m].driver
    <3> DEFINE s == R!StopDriving(rcv[m])
    <3>1. s.driver = rcv[m].driver
      BY <1>0, StopDrivingType
    <3>2. rcv'[m] = IF rcv[m].entered THEN s ELSE rcv[m]
      BY <1>0, <2>1 DEF TypeOK
    <3> QED
      BY <3>1, <3>2
  <2> QED
    BY <1>0, <2>1, <2>2, DriverStep
<1> QED
  BY <1>1, <1>2, <1>3, <1>4 DEF Injecting

LEMMA UserDriver ==
    ASSUME PointerInv, DriverInv, NEW m \in Machine, UserStep(m) \/ Capturing(m)
    PROVE  DriverInv'
<1>0. TypeOK
  BY DEF PointerInv
<1>1. sessions' = sessions /\ \A n \in Machine : rcv'[n].driver = rcv[n].driver
  <2>1. CASE UserStep(m)
    <3>1. PICK d \in Working, x \in Place : PerformAt(m, d, x)
      BY <2>1, UserActs DEF ActsAt
    <3> QED
      BY <1>0, <2>1, <3>1, PerformAtType, UserTypes DEF links
  <2>2. CASE Capturing(m)
    <3> DEFINE d == Handled(ctl[m], Head(capq[m]))
               x == rcv[m].osPos
    <3>1. PerformAt(m, d, x) /\ capq[m] # <<>> /\ sessions' = sessions
      BY <2>2 DEF Capturing, links
    <3>2. d \in Working /\ x \in Place
      BY <1>0, <3>1, CaptureHead, HandledTurns, OwnController DEF Turns
    <3> HIDE DEF d, x
    <3> QED
      BY <1>0, <3>1, <3>2, PerformAtType
  <2> QED
    BY <2>1, <2>2
<1>2. \A x \in Machine : injq'[x] = injq[x]
          \/ injq'[x] = Append(injq[x], [type |-> "LocalActivity"])
  <2>1. CASE UserStep(m)
    BY <1>0, <2>1, UserTypes
  <2>2. CASE Capturing(m)
    BY <2>2 DEF Capturing
  <2> QED
    BY <2>1, <2>2
<1>3. ASSUME NEW x \in Machine, NEW p \in Machine \ sessions[x]
      PROVE  DriverOK(injq'[x], rcv'[x].driver, p)
  <2> DEFINE e == [type |-> "LocalActivity"]
             q == injq[x]
             d == rcv[x].driver
  <2>1. DriverOK(q, d, p) /\ q \in Seq(InjectEntry)
    BY <1>0 DEF DriverInv, TypeOK
  <2>2. ~EnterFrom(e, p)
    BY DEF EnterFrom
  <2>3. injq'[x] = q \/ injq'[x] = Append(q, e)
    BY <1>2
  <2> HIDE DEF e, q
  <2>4. DriverOK(Append(q, e), d, p)
    BY <2>1, <2>2, DriverMore
  <2> QED
    BY <1>1, <2>1, <2>3, <2>4
<1> QED
  BY <1>1, <1>3 DEF DriverInv

LEMMA DatagramDriver ==
    ASSUME TypeOK, DriverInv, NEW m \in Machine, NEW d \in dgrams[m], OnDatagram(m, d)
    PROVE  DriverInv'
<1>1. rcv' = rcv /\ sessions' = sessions
  BY DEF OnDatagram, links
<1>2. d \in DatagramType({"Pointer", "Motion"})
  BY DEF TypeOK
<1>3. CASE d.type = "Pointer"
  BY <1>1, <1>3 DEF OnDatagram, DriverInv
<1>4. CASE d.type # "Pointer"
  <2>1. Queue(injq, m, <<d>>)
    BY <1>4 DEF OnDatagram
  <2>2. /\ injq'[m] = injq[m] \o <<d>> /\ \A x \in Machine \ {m} : injq'[x] = injq[x]
        /\ injq[m] \in Seq(InjectEntry)
    BY <2>1 DEF TypeOK, Queue
  <2>3. ASSUME NEW p \in Machine \ sessions[m]
        PROVE  DriverOK(injq[m] \o <<d>>, rcv[m].driver, p)
    <3>1. DriverOK(injq[m], rcv[m].driver, p)
      BY DEF DriverInv
    <3>2. ~EnterFrom(d, p)
      BY <1>2 DEF EnterFrom, DatagramType
    <3> QED
      BY <2>2, <3>1, <3>2, DriverMore
  <2>4. ASSUME NEW x \in Machine, NEW p \in Machine \ sessions[x]
        PROVE  DriverOK(injq'[x], rcv[x].driver, p)
    BY <2>2, <2>3, <2>4 DEF DriverInv
  <2> QED
    BY <1>1, <2>4 DEF DriverInv
<1> QED
  BY <1>3, <1>4

LetGoInv == DeskInv /\ DriverInv

LEMMA LetGoInit == Init => LetGoInv
<1> SUFFICES ASSUME Init
             PROVE  DriverInv
  BY DeskInit DEF LetGoInv
<1>1. ASSUME NEW m \in Machine, NEW p \in Machine
      PROVE  DriverOK(injq[m], rcv[m].driver, p)
  <2>1. injq[m] = <<>> /\ rcv[m].driver = NoMachine
    BY DEF Init, R!NewReceiver
  <2> QED
    BY <2>1, ControllerAssumption DEF DriverOK
<1> QED
  BY <1>1 DEF DriverInv

LEMMA LetGoNext == LetGoInv /\ [Next]_vars => LetGoInv'
<1> SUFFICES ASSUME LetGoInv, [Next]_vars
             PROVE  DriverInv'
  BY DeskNext DEF LetGoInv
<1>0. LinkInv /\ PointerInv /\ TypeOK /\ DriverInv
  BY DEF LetGoInv, DeskInv, LinkInv, PointerInv
<1>1. ASSUME NEW m \in Machine, UserStep(m) \/ Capturing(m)
      PROVE  DriverInv'
  BY <1>0, <1>1, UserDriver
<1>2. ASSUME NEW m \in Machine, Hearing(m)
      PROVE  DriverInv'
  BY <1>0, <1>2, HearingDriver
<1>3. ASSUME NEW m \in Machine, NEW d \in dgrams[m], OnDatagram(m, d)
      PROVE  DriverInv'
  BY <1>0, <1>3, DatagramDriver
<1>4. ASSUME NEW m \in Machine, Injecting(m)
      PROVE  DriverInv'
  BY <1>0, <1>4, InjectingDriver
<1>5. ASSUME NEW m \in Machine, Restart(m)
      PROVE  DriverInv'
  <2> DEFINE r == R!NewReceiver(rcv[m].osKeys, rcv[m].osButtons, rcv[m].osPos)
  <2>1. /\ rcv' = [rcv EXCEPT ![m] = r] /\ injq' = [injq EXCEPT ![m] = <<>>]
        /\ sessions' = [sessions EXCEPT ![m] = {}]
    BY <1>5 DEF Restart
  <2>2. r.driver = NoMachine
    BY DEF R!NewReceiver
  <2> HIDE DEF r
  <2>3. ASSUME NEW x \in Machine, NEW p \in Machine \ sessions'[x]
        PROVE  DriverOK(injq'[x], rcv'[x].driver, p)
    <3>1. CASE x = m
      <4>1. injq'[x] = <<>> /\ rcv'[x].driver = NoMachine
        BY <1>0, <2>1, <2>2, <3>1 DEF TypeOK
      <4> QED
        BY <4>1, ControllerAssumption DEF DriverOK
    <3>2. CASE x # m
      BY <1>0, <2>1, <3>2 DEF DriverInv, TypeOK
    <3> QED
      BY <3>1, <3>2
  <2> QED
    BY <2>3 DEF DriverInv
<1>6. ASSUME UNCHANGED <<rcv, injq, sessions>>
      PROVE  DriverInv'
  BY <1>0, <1>6 DEF DriverInv
<1>7. ASSUME NEW m \in Machine, ReportDue(m) \/ OnYielded(m)
      PROVE  DriverInv'
  BY <1>6, <1>7 DEF ReportDue, OnYielded, links
<1>8. ASSUME NEW p \in Pair, Connecting(p[1], p[2])
      PROVE  DriverInv'
  BY <1>6, <1>8 DEF Connecting, LinkFails, EndNoticed, Reconnect
<1>9. CASE Rest \/ UNCHANGED vars
  BY <1>6, <1>9 DEF Rest, vars, links
<1> QED
  BY <1>1, <1>2, <1>3, <1>4, <1>5, <1>7, <1>8, <1>9 DEF Next, RunLoop

LEMMA LetGoAlways == Spec => []LetGoInv
BY LetGoInit, LetGoNext, PTL DEF Spec

(* Once everything has been heard, no machine has its pointer on, or takes *)
(* input from, a machine it has no connection with: a lost peer reaches    *)
(* the controller (PeerLost and the SetLayout behind it) and, behind every *)
(* Enter the peer had sent, the injection thread (disconnected, input.rs). *)
THEOREM LostLetsGo == Spec => []LostPeerLetsGo
<1>1. ASSUME LetGoInv, Settled, NEW p \in Pair, {p[1], p[2]} \notin up
      PROVE  ctl[p[1]].peer # p[2] /\ ~DrivenBy(p[1], p[2])
  <2> DEFINE m == p[1]
             x == p[2]
  <2>1. m \in Machine /\ x \in Machine \ {m} /\ {m, x} \notin up
    BY <1>1, PairParts
  <2>2. DeskInv /\ DriverInv /\ OnDesk(ctl[m]) /\ NoMachine \notin Machine
    BY <1>1, <2>1, ControllerAssumption DEF LetGoInv, DeskInv, LinkInv, PointerInv
  <2> HIDE DEF m, x
  <2>3. x \notin sessions[m] /\ ctl[m].layout = sessions[m]
    BY <1>1, <2>1, <2>2, DeskSettles
  <2>4. ctl[m].peer # x
    BY <2>1, <2>2, <2>3 DEF OnDesk
  <2>5. injq[m] = <<>> /\ DriverOK(injq[m], rcv[m].driver, x)
    BY <1>1, <2>1, <2>2, <2>3 DEF Settled, DriverInv
  <2>6. rcv[m].driver # x
    BY <2>5 DEF DriverOK, Ended
  <2> QED
    BY <2>4, <2>6 DEF DrivenBy, m, x
<1>2. LetGoInv => LostPeerLetsGo
  BY <1>1 DEF LostPeerLetsGo
<1> QED
  BY <1>2, LetGoAlways, PTL

-----------------------------------------------------------------------------

(***************************************************************************)
(* A controller that drives a peer has told it so.  Silent: nothing sent,  *)
(* the same peer driven as before.                                         *)
(***************************************************************************)
LastEnter(q) ==
    \E i \in 1 .. Len(q) :
        q[i].type = "Enter" /\ \A j \in (i + 1) .. Len(q) : q[j].type # "Leave"

NoLeave(q) == \A i \in 1 .. Len(q) : q[i].type # "Leave"

Silent(c, d) == d.peer = c.peer /\ d.idle = c.idle /\ d.out.sent = c.out.sent

(* After a handler took c to d. *)
Visits(c, d) ==
    d.peer \in Machine /\ ~d.idle =>
        \/ LastEnter(d.out.sent[d.peer])
        \/ c.peer = d.peer /\ ~c.idle /\ NoLeave(d.out.sent[d.peer])

LEMMA SilentTrans ==
    ASSUME NEW c, NEW d, NEW e, Silent(c, d), Silent(d, e)
    PROVE  Silent(c, e)
BY DEF Silent

LEMMA VisitsSilent ==
    ASSUME NEW c, NEW d, NEW e, Visits(c, d), Silent(d, e)
    PROVE  Visits(c, e)
BY DEF Silent, Visits

LEMMA NoneSent ==
    ASSUME NEW c \in ControllerState
    PROVE  \A p \in Machine : c.out.sent[p] = <<>> /\ NoLeave(c.out.sent[p])
<1>1. \A p \in Machine : c.out.sent[p] = <<>>
  BY AtRest DEF Nothing
<1> QED
  BY <1>1 DEF NoLeave

LEMMA SilentVisits ==
    ASSUME NEW c \in ControllerState, NEW d, Silent(c, d)
    PROVE  Visits(c, d)
BY NoneSent DEF Silent, Visits

LEMMA QueueMore ==
    ASSUME NEW q \in Seq(InputMsg), NEW msg \in InputMsg, msg.type # "Leave"
    PROVE  LET r == Append(q, msg)
           IN  /\ r \in Seq(InputMsg)
               /\ LastEnter(q) => LastEnter(r)
               /\ NoLeave(q) => NoLeave(r)
               /\ msg.type = "Enter" => LastEnter(r)
<1> DEFINE r == Append(q, msg)
           n == Len(q)
<1>1. /\ n \in Nat /\ Len(r) = n + 1 /\ r[n + 1] = msg /\ r \in Seq(InputMsg)
      /\ \A i \in 1 .. n : r[i] = q[i]
  OBVIOUS
<1> HIDE DEF r, n
<1>2. ASSUME LastEnter(q)
      PROVE  LastEnter(r)
  <2>1. PICK i \in 1 .. n : q[i].type = "Enter"
                            /\ \A j \in (i + 1) .. n : q[j].type # "Leave"
    BY <1>2 DEF LastEnter, n
  <2>2. r[i].type = "Enter" /\ i \in 1 .. Len(r)
    BY <1>1, <2>1
  <2>3. ASSUME NEW j \in (i + 1) .. Len(r)
        PROVE  r[j].type # "Leave"
    <3>1. j \in (i + 1) .. n \/ j = n + 1
      BY <1>1
    <3> QED
      BY <1>1, <2>1, <3>1
  <2> QED
    BY <2>2, <2>3 DEF LastEnter
<1>3. ASSUME NoLeave(q)
      PROVE  NoLeave(r)
  <2>1. ASSUME NEW j \in 1 .. Len(r)
        PROVE  r[j].type # "Leave"
    <3>1. j \in 1 .. n \/ j = n + 1
      BY <1>1
    <3>2. \A i \in 1 .. n : q[i].type # "Leave"
      BY <1>3 DEF NoLeave, n
    <3> QED
      BY <1>1, <3>1, <3>2
  <2> QED
    BY <2>1 DEF NoLeave
<1>4. ASSUME msg.type = "Enter"
      PROVE  LastEnter(r)
  <2>1. n + 1 \in 1 .. Len(r) /\ \A j \in ((n + 1) + 1) .. Len(r) : FALSE
    BY <1>1
  <2> QED
    BY <1>1, <1>4, <2>1 DEF LastEnter
<1> QED
  BY <1>1, <1>2, <1>3, <1>4 DEF r

LEMMA SendSends ==
    ASSUME NEW c \in Working, NEW to \in Machine, NEW msg \in InputMsg
    PROVE  LET d == Send(c, to, msg)
           IN  /\ d.peer = c.peer /\ d.idle = c.idle
               /\ c.out.sent \in [Machine -> Seq(InputMsg)]
               /\ \A p \in Machine : d.out.sent[p] =
                      IF p = to THEN Append(c.out.sent[to], msg) ELSE c.out.sent[p]
<1> DEFINE q == Append(c.out.sent[to], msg)
           s == [c.out.sent EXCEPT ![to] = q]
           o == [c.out EXCEPT !.sent = s]
<1>1. c.out \in Output /\ c.out.sent \in [Machine -> Seq(InputMsg)]
  BY DEF Working, ControllerWith, Output
<1>2. Send(c, to, msg) = [c EXCEPT !.out = o]
  BY <1>1 DEF Send, Working, ControllerWith, Output
<1> HIDE DEF q
<1>3. \A p \in Machine : s[p] = IF p = to THEN q ELSE c.out.sent[p]
  BY <1>1
<1> HIDE DEF s
<1>4. o.sent = s
  BY <1>1 DEF Output
<1> HIDE DEF o
<1>5. [c EXCEPT !.out = o].out = o /\ [c EXCEPT !.out = o].peer = c.peer
      /\ [c EXCEPT !.out = o].idle = c.idle
  BY DEF Working, ControllerWith
<1> QED
  BY <1>1, <1>2, <1>3, <1>4, <1>5 DEF q

LEMMA VisitsMore ==
    ASSUME NEW c, NEW d \in Working, Visits(c, d), NEW to \in Machine,
           NEW msg \in InputMsg, msg.type # "Leave"
    PROVE  Visits(c, Send(d, to, msg))
<1> DEFINE e == Send(d, to, msg)
<1>1. /\ e.peer = d.peer /\ e.idle = d.idle
      /\ d.out.sent \in [Machine -> Seq(InputMsg)]
      /\ \A p \in Machine : e.out.sent[p] =
            IF p = to THEN Append(d.out.sent[to], msg) ELSE d.out.sent[p]
  BY SendSends
<1> HIDE DEF e
<1>2. \A p \in Machine :
        /\ LastEnter(d.out.sent[p]) => LastEnter(e.out.sent[p])
        /\ NoLeave(d.out.sent[p]) => NoLeave(e.out.sent[p])
  BY <1>1, QueueMore
<1>3. Visits(c, e)
  BY <1>1, <1>2 DEF Visits
<1> QED
  BY <1>3 DEF e

LEMMA SilentSteps ==
    ASSUME NEW c \in Working
    PROVE  /\ \A to \in Machine, type \in {"Motion", "Pointer"}, pos \in Place :
                 Silent(c, Datagram(c, to, type, pos))
           /\ \A to, dir, expired : Silent(c, AccumulatePush(c, to, dir, expired))
           /\ \A p : Silent(c, DropRoutes(c, p))
           /\ Silent(c, Capture(c))
<1>1. c.out \in Output
  BY DEF Working, ControllerWith
<1>2. ASSUME NEW to \in Machine, NEW type \in {"Motion", "Pointer"}, NEW pos \in Place
      PROVE  Silent(c, Datagram(c, to, type, pos))
  <2> DEFINE s == NextSeq(c.seq)
             o == [c.out EXCEPT !.datagrams = @ \union
                    {[to |-> to, type |-> type, seq |-> s, pos |-> pos]}]
  <2>1. Datagram(c, to, type, pos) = [c EXCEPT !.seq = s, !.out = o]
    BY <1>1 DEF Datagram, Working, ControllerWith, Output
  <2> HIDE DEF s
  <2>2. o.sent = c.out.sent
    BY <1>1 DEF Output
  <2> HIDE DEF o
  <2> QED
    BY <2>1, <2>2 DEF Silent, Working, ControllerWith
<1>3. \A to, dir, expired : Silent(c, AccumulatePush(c, to, dir, expired))
  BY DEF Silent, AccumulatePush, Working, ControllerWith
<1>4. \A p : Silent(c, DropRoutes(c, p))
  BY DEF Silent, DropRoutes, Working, ControllerWith
<1>5. Silent(c, Capture(c))
  BY <1>1 DEF Silent, Capture, Working, ControllerWith, Output
<1> QED
  BY <1>2, <1>3, <1>4, <1>5

LEMMA ReportSilent ==
    ASSUME NEW c \in Working, NEW pos \in Place, NEW recent
    PROVE  Silent(c, ReportMotion(c, pos, recent))
<1> DEFINE e == Datagram(c, c.watcher, "Pointer", pos)
<1>1. c.watcher \in Machine \union {NoMachine}
  BY DEF Working, ControllerWith
<1>2. c.watcher # NoMachine => Silent(c, e) /\ e \in Working
  BY <1>1, SilentSteps, DatagramStays DEF Stays
<1> HIDE DEF e
<1>3. Silent(c, [c EXCEPT !.waiting = NoReport])
      /\ Silent(c, [c EXCEPT !.waiting = [to |-> c.watcher, pos |-> pos]])
  BY DEF Silent, Working, ControllerWith
<1>4. c.watcher # NoMachine =>
        Silent(c, [e EXCEPT !.paced = TRUE, !.waiting = NoReport])
  BY <1>2 DEF Silent, Working, ControllerWith
<1> QED
  BY <1>3, <1>4 DEF ReportMotion, e

LEMMA WaitingSilent ==
    ASSUME NEW c \in Working
    PROVE  Silent(c, SendWaitingReport(c))
<1>1. /\ c.waiting.to \in Machine \union {NoMachine} /\ c.waiting.pos \in Place
      /\ NoReport \in [to : Machine \union {NoMachine}, pos : Place]
  BY PlaceFacts DEF Working, ControllerWith, NoReport
<1> DEFINE e == [c EXCEPT !.waiting = NoReport, !.paced = TRUE]
<1>2. e \in Working /\ Silent(c, e)
  BY <1>1 DEF Silent, Working, ControllerWith
<1>3. Silent(c, [c EXCEPT !.waiting = NoReport])
  BY DEF Silent, Working, ControllerWith
<1> HIDE DEF e
<1>4. c.waiting.to # NoMachine =>
        Silent(c, Datagram(e, c.waiting.to, "Pointer", c.waiting.pos))
  BY <1>1, <1>2, SilentSteps, SilentTrans
<1> QED
  BY <1>3, <1>4 DEF SendWaitingReport, e

LEMMA EnterPeerVisits ==
    ASSUME NEW c \in Working, NEW p \in Machine, NEW entry \in Place, NEW home \in Place
    PROVE  LET d == EnterPeer(c, p, entry, home)
           IN  d.peer = p /\ ~d.idle /\ LastEnter(d.out.sent[p])
<1> DEFINE s == NextSeq(c.seq)
           msg == EnterMsg(s, entry)
           e == Send(c, p, msg)
<1>1. msg \in InputMsg /\ msg.type = "Enter"
  BY NextSeqType, EnterMsgType DEF EnterMsg, Working, ControllerWith
<1> HIDE DEF msg
<1>2. e \in Working /\ e.out.sent[p] = Append(c.out.sent[p], msg)
      /\ c.out.sent[p] \in Seq(InputMsg)
  BY <1>1, SendSends, SendStays DEF Stays
<1>3. LastEnter(e.out.sent[p])
  BY <1>1, <1>2, QueueMore
<1> HIDE DEF e, s
<1>4. EnterPeer(c, p, entry, home) =
        [e EXCEPT !.seq = s, !.peer = p, !.cursor = entry, !.home = home,
                  !.idle = FALSE, !.watcher = NoMachine]
  BY DEF EnterPeer, e, s, msg
<1> QED
  BY <1>2, <1>3, <1>4 DEF Working, ControllerWith

LEMMA ResumeVisits ==
    ASSUME NEW c \in ControllerState
    PROVE  Visits(c, Resume(c))
<1> DEFINE s == NextSeq(c.seq)
           msg == EnterMsg(s, c.cursor)
           e == Send(c, c.peer, msg)
           d == [e EXCEPT !.seq = s, !.idle = FALSE]
<1>0. c \in Working /\ Silent(c, c)
  BY AtRest DEF Silent
<1>1. /\ msg \in InputMsg /\ msg.type = "Enter"
      /\ c.peer \in Machine \union {NoMachine}
  BY <1>0, NextSeqType, EnterMsgType DEF EnterMsg, Working, ControllerWith
<1> HIDE DEF msg
<1>2. c.peer # NoMachine =>
        e \in Working /\ e.out.sent[c.peer] = Append(c.out.sent[c.peer], msg)
        /\ c.out.sent[c.peer] \in Seq(InputMsg) /\ e.peer = c.peer
  BY <1>0, <1>1, SendSends, SendStays DEF Stays
<1>3. c.peer # NoMachine => LastEnter(e.out.sent[c.peer])
  BY <1>1, <1>2, QueueMore
<1> HIDE DEF e, s
<1>4. c.peer # NoMachine => LastEnter(d.out.sent[d.peer])
  BY <1>2, <1>3 DEF Working, ControllerWith
<1> HIDE DEF d
<1>5. c.peer # NoMachine => Visits(c, d)
  BY <1>4 DEF Visits
<1>6. Visits(c, c)
  BY <1>0, SilentVisits
<1> QED
  BY <1>5, <1>6 DEF Resume, IsLocal, d, e, s, msg

LEMMA LocalMotionVisits ==
    ASSUME NEW c \in ControllerState, IsLocal(c), NEW pos \in Place,
           NEW dir \in Dir, NEW expired, NEW recent
    PROVE  Visits(c, LocalMotion(c, pos, dir, expired, recent))
<1> DEFINE c1 == [c EXCEPT !.last = pos]
           r  == ReportMotion(c1, pos, recent)
           to == IF AtEdge(pos, dir) THEN Neighbour(c, c.me, dir) ELSE NoMachine
           a  == AccumulatePush(r, to, dir, expired)
           e  == EnterPeer(a, to, Entry(dir), pos)
           n  == [r EXCEPT !.push = NoPush]
           d  == LocalMotion(c, pos, dir, expired, recent)
<1>0. c \in Working /\ c.me \in Machine
  BY AtRest DEF Working, ControllerWith
<1>1. c1 \in Working /\ Silent(c, c1)
  BY <1>0 DEF Silent, Working, ControllerWith
<1> HIDE DEF c1
<1>2. r \in Working /\ Silent(c, r)
  BY <1>1, ReportStays, ReportSilent, SilentTrans DEF Stays
<1> HIDE DEF r
<1>3. to \in Machine \union {NoMachine}
  BY <1>0, NeighbourType
<1> HIDE DEF to
<1>4. d = IF to = NoMachine THEN n
          ELSE IF ~Crosses(c, to, dir, expired) \/ SwitchBlocked(c) THEN a
          ELSE Capture(e)
  BY DEF LocalMotion, d, to, r, c1
<1>5. Silent(c, n)
  BY <1>2 DEF Silent, Working, ControllerWith
<1>6. Silent(c, a) /\ (to # NoMachine => a \in Working)
  BY <1>2, <1>3, AccumulateStays, SilentSteps, SilentTrans DEF Stays
<1> HIDE DEF a, n
<1>7. to # NoMachine =>
        e \in Working /\ e.peer = to /\ ~e.idle /\ LastEnter(e.out.sent[to])
  <2>1. Entry(dir) \in Place
    BY PlaceFacts
  <2>2. CASE to # NoMachine
    <3>1. to \in Machine /\ a \in Working
      BY <1>3, <1>6, <2>2
    <3>2. e \in Working
      BY <2>1, <3>1, EnterPeerMoves
    <3>3. e.peer = to /\ ~e.idle /\ LastEnter(e.out.sent[to])
      BY <2>1, <3>1, EnterPeerVisits
    <3> QED
      BY <3>2, <3>3
  <2> QED
    BY <2>2
<1> HIDE DEF e
<1>8. to # NoMachine => Silent(e, Capture(e))
  BY <1>7, SilentSteps
<1>9. to # NoMachine => Visits(c, Capture(e))
  BY <1>7, <1>8 DEF Visits, Silent
<1> HIDE DEF d
<1>10. Visits(c, d)
  BY <1>4, <1>5, <1>6, <1>9, SilentVisits
<1> QED
  BY <1>10 DEF d

LEMMA MoveOnVisits ==
    ASSUME NEW c, NEW b \in Working, b.peer \in Machine, NEW to \in Machine,
           NEW entry \in Place
    PROVE  Visits(c, MoveOn(b, to, entry))
<1> DEFINE l == LeavePeer(b, b.peer)
           h == ToLocal(l)
           r == Release(h, entry)
           g == CameHome(r, b.peer, entry)
           e == EnterPeer(l, to, entry, b.home)
           d == MoveOn(b, to, entry)
<1>0. b.home \in Place /\ NoMachine \notin Machine
  BY ControllerAssumption DEF Working, ControllerWith
<1>1. l \in Working
  BY LeavePeerStays DEF Stays
<1> HIDE DEF l
<1>2. h \in Working /\ h.peer = NoMachine
  BY <1>1, ToLocalMoves
<1> HIDE DEF h
<1>3. r \in Working /\ r.peer = NoMachine
  BY <1>2, PointerActions
<1> HIDE DEF r
<1>4. g.peer = NoMachine
  BY <1>3, CameHomeStays DEF Stays
<1> HIDE DEF g
<1>5. e.peer = to /\ LastEnter(e.out.sent[to])
  BY <1>0, <1>1, EnterPeerVisits
<1> HIDE DEF e
<1>6. d = IF to = b.me THEN g ELSE e
  BY DEF MoveOn, g, r, h, e, l
<1> HIDE DEF d
<1>7. Visits(c, d)
  BY <1>0, <1>4, <1>5, <1>6 DEF Visits
<1> QED
  BY <1>7 DEF d

LEMMA CapturedMotionVisits ==
    ASSUME NEW c \in ControllerState, NEW dir \in Dir, NEW expired
    PROVE  Visits(c, CapturedMotion(c, dir, expired))
<1> DEFINE b == Resume(c)
           wanted == Step(b.cursor, dir)
           to == Neighbour(b, b.peer, dir)
           n  == [b EXCEPT !.push = NoPush]
           w  == [b EXCEPT !.push = NoPush, !.cursor = wanted]
           t  == Datagram(w, b.peer, "Motion", wanted)
           a  == AccumulatePush(b, to, dir, expired)
           e  == MoveOn(a, to, Entry(dir))
           d  == CapturedMotion(c, dir, expired)
<1>0. c \in Working
  BY AtRest
<1>1. b \in Working /\ Visits(c, b) /\ b.peer \in Machine \union {NoMachine}
  BY <1>0, ResumeStays, ResumeVisits DEF Stays, Working, ControllerWith
<1> HIDE DEF b
<1>3. ~IsLocal(b) => b.peer \in Machine /\ to \in Machine \union {NoMachine}
  BY <1>1, NeighbourType DEF IsLocal
<1> HIDE DEF to, wanted
<1>4. d = IF IsLocal(b) THEN b
          ELSE IF wanted \in Place THEN t
          ELSE IF to = NoMachine THEN n
          ELSE IF ~Crosses(b, to, dir, expired) \/ SwitchBlocked(b) THEN a
          ELSE e
  BY DEF CapturedMotion, b, to, wanted
<1>5. Silent(b, n)
  BY <1>1 DEF Silent, Working, ControllerWith
<1>6. wanted \in Place /\ ~IsLocal(b) => Silent(b, t)
  <2>1. wanted \in Place => w \in Working /\ Silent(b, w)
    BY <1>1, NoPushType DEF Silent, Working, ControllerWith
  <2> HIDE DEF w
  <2> QED
    BY <1>3, <2>1, SilentSteps, SilentTrans
<1>7. Silent(b, a)
  BY <1>1, SilentSteps
<1>8. ~IsLocal(b) /\ to # NoMachine => Visits(c, e)
  <2>1. ~IsLocal(b) /\ to # NoMachine => a \in Working /\ a.peer \in Machine
    BY <1>1, <1>3, AccumulateStays DEF Stays
  <2> HIDE DEF a
  <2> QED
    BY <1>3, <2>1, MoveOnVisits, PlaceFacts
<1> HIDE DEF e, d, a, n, t
<1>9. Visits(c, d)
  BY <1>1, <1>4, <1>5, <1>6, <1>7, <1>8, VisitsSilent
<1> QED
  BY <1>9 DEF d

LEMMA SendKeyVisits ==
    ASSUME NEW c, NEW d \in Working, Visits(c, d), NEW route, NEW k \in Key,
           NEW down \in BOOLEAN
    PROVE  Visits(c, SendKey(d, route, k, down))
<1>1. route \in Machine => Remap[route][k] \in Key
  BY ControllerAssumption
<1> DEFINE msg == KeyMsg(Remap[route][k], down)
<1>2. route \in Machine => msg \in InputMsg /\ msg.type # "Leave"
  BY <1>1, EnterMsgType DEF KeyMsg
<1> HIDE DEF msg
<1>3. route \in Machine => Visits(c, Send(d, route, msg))
  BY <1>2, VisitsMore
<1> QED
  BY <1>3 DEF SendKey, msg

LEMMA SendButtonVisits ==
    ASSUME NEW c, NEW d \in Working, Visits(c, d), NEW route, NEW b \in Button,
           NEW down \in BOOLEAN
    PROVE  Visits(c, SendButton(d, route, b, down))
<1> DEFINE pos == IF d.peer = route THEN d.cursor ELSE 1
           msg == ButtonMsg(b, down, pos)
<1>1. pos \in Place
  BY PlaceFacts DEF Working, ControllerWith
<1> HIDE DEF pos
<1>2. msg \in InputMsg /\ msg.type # "Leave"
  BY <1>1, EnterMsgType DEF ButtonMsg
<1> HIDE DEF msg
<1>3. route \in Machine => Visits(c, Send(d, route, msg))
  BY <1>2, VisitsMore
<1> QED
  BY <1>3 DEF SendButton, msg, pos

LEMMA KeyVisits ==
    ASSUME NEW c \in ControllerState, NEW k \in Key
    PROVE  Visits(c, PressKey(c, k)) /\ Visits(c, ReleaseKey(c, k))
<1> DEFINE b == IF c.keys[k] = "none" THEN Resume(c) ELSE c
           ks == [b.keys EXCEPT ![k] = CurrentRoute(b)]
           w == [b EXCEPT !.keys[k] = CurrentRoute(b)]
           us == [c.keys EXCEPT ![k] = "none"]
           u == [c EXCEPT !.keys[k] = "none"]
<1>0. c \in Working /\ Visits(c, c)
  BY AtRest, SilentVisits DEF Silent
<1>1. b \in Working /\ Visits(c, b)
  BY <1>0, ResumeStays, ResumeVisits DEF Stays
<1> HIDE DEF b
<1>2. ks \in [Key -> Route]
  BY <1>1, RouteTypes
<1>3. w = [b EXCEPT !.keys = ks]
  OBVIOUS
<1> HIDE DEF ks, w
<1>4. w \in Working /\ Silent(b, w)
  BY <1>1, <1>2, <1>3 DEF Silent, Working, ControllerWith
<1>5. Visits(c, SendKey(w, CurrentRoute(b), k, TRUE))
  BY <1>1, <1>4, VisitsSilent, SendKeyVisits
<1>6. Visits(c, PressKey(c, k))
  BY <1>1, <1>5 DEF PressKey, w, b
<1>7. us \in [Key -> Route]
  BY <1>0, RouteTypes DEF Route
<1>8. u = [c EXCEPT !.keys = us]
  OBVIOUS
<1> HIDE DEF us, u
<1>9. u \in Working /\ Silent(c, u)
  BY <1>0, <1>7, <1>8 DEF Silent, Working, ControllerWith
<1>10. Visits(c, ReleaseKey(c, k))
  BY <1>9, SilentVisits, SendKeyVisits DEF ReleaseKey, u
<1> QED
  BY <1>6, <1>10

LEMMA ButtonVisits ==
    ASSUME NEW c \in ControllerState, NEW i \in Button
    PROVE  Visits(c, PressButton(c, i)) /\ Visits(c, ReleaseButton(c, i))
<1> DEFINE b == Resume(c)
           bs == [b.buttons EXCEPT ![i] = CurrentRoute(b)]
           w == [b EXCEPT !.buttons[i] = CurrentRoute(b)]
           us == [c.buttons EXCEPT ![i] = "none"]
           u == [c EXCEPT !.buttons[i] = "none"]
<1>0. c \in Working
  BY AtRest
<1>1. b \in Working /\ Visits(c, b)
  BY <1>0, ResumeStays, ResumeVisits DEF Stays
<1> HIDE DEF b
<1>2. bs \in [Button -> Route]
  BY <1>1, RouteTypes
<1>3. w = [b EXCEPT !.buttons = bs]
  OBVIOUS
<1> HIDE DEF bs, w
<1>4. w \in Working /\ Silent(b, w)
  BY <1>1, <1>2, <1>3 DEF Silent, Working, ControllerWith
<1>5. Visits(c, SendButton(w, CurrentRoute(b), i, TRUE))
  BY <1>1, <1>4, VisitsSilent, SendButtonVisits
<1>6. Visits(c, PressButton(c, i))
  BY <1>1, <1>5 DEF PressButton, w, b
<1>7. us \in [Button -> Route]
  BY <1>0, RouteTypes DEF Route
<1>8. u = [c EXCEPT !.buttons = us]
  OBVIOUS
<1> HIDE DEF us, u
<1>9. u \in Working /\ Silent(c, u)
  BY <1>0, <1>7, <1>8 DEF Silent, Working, ControllerWith
<1>10. Visits(c, ReleaseButton(c, i))
  BY <1>9, SilentVisits, SendButtonVisits DEF ReleaseButton, u
<1> QED
  BY <1>6, <1>10

(* What a machine's controller does, and what it tells the peers of it. *)
TellsAt(m) ==
    \E d \in Working, x \in Place :
        /\ Acts(ctl[m], d) /\ d.layout = ctl[m].layout
        /\ Visits(ctl[m], d) /\ PerformAt(m, d, x)

LEMMA UserTells ==
    ASSUME PointerInv, NEW m \in Machine, UserStep(m)
    PROVE  TellsAt(m)
<1>0. ctl[m] \in ControllerState /\ OnDesk(ctl[m]) /\ ctl[m] \in Working
      /\ rcv[m].osPos \in Place
  BY OwnController
<1>1. ASSUME NEW dir \in Dir, NEW paused, NEW expired, NEW recent,
             UserMoves(m, dir, paused, expired, recent)
      PROVE  TellsAt(m)
  <2> DEFINE pos == Clamp(Step(rcv[m].osPos, dir))
             d == LocalMotion(ctl[m], pos, dir, expired, recent)
  <2>1. pos \in Place
    BY <1>0, PlaceFacts DEF Step, Place
  <2> HIDE DEF pos
  <2>2. CASE IsLocal(ctl[m])
    <3>1. Turns(ctl[m], d) /\ d.layout = ctl[m].layout /\ Visits(ctl[m], d)
      BY <1>0, <2>1, <2>2, LocalMotionTurns, LocalMotionVisits
    <3>2. PerformAt(m, d, pos)
      BY <1>1, <2>2 DEF UserMoves, pos
    <3> HIDE DEF d
    <3> QED
      BY <2>1, <3>1, <3>2 DEF TellsAt, Acts, Turns
  <2>3. CASE ~IsLocal(ctl[m])
    <3>1. PerformAt(m, ctl[m], rcv[m].osPos)
      BY <1>1, <2>3 DEF UserMoves
    <3>2. Acts(ctl[m], ctl[m]) /\ Visits(ctl[m], ctl[m])
      BY <1>0, StaysActs, SilentVisits DEF Stays, Silent
    <3> QED
      BY <1>0, <3>1, <3>2 DEF TellsAt
  <2> QED
    BY <2>2, <2>3
<1>2. ASSUME NEW dir \in Dir, NEW expired, UserMovesPinned(m, dir, expired)
      PROVE  TellsAt(m)
  <2> DEFINE d == CapturedMotion(ctl[m], dir, expired)
  <2>1. Turns(ctl[m], d) /\ d.layout = ctl[m].layout /\ Visits(ctl[m], d)
    BY <1>0, CapturedMotionTurns, CapturedMotionVisits
  <2>2. PerformAt(m, d, rcv[m].osPos)
    BY <1>2 DEF UserMovesPinned
  <2> HIDE DEF d
  <2> QED
    BY <1>0, <2>1, <2>2 DEF TellsAt, Acts, Turns
<1>3. ASSUME NEW i \in Item, UserPresses(m, i)
      PROVE  TellsAt(m)
  <2> DEFINE d == IF i \in Key THEN PressKey(ctl[m], i) ELSE PressButton(ctl[m], i)
  <2>1. Stays(ctl[m], d) /\ Visits(ctl[m], d)
    BY <1>0, PressKeyStays, PressButtonStays, KeyVisits, ButtonVisits DEF Item
  <2>2. PerformAt(m, d, rcv[m].osPos)
    BY <1>3 DEF UserPresses
  <2> HIDE DEF d
  <2> QED
    BY <1>0, <2>1, <2>2, StaysActs DEF TellsAt, Stays
<1>4. ASSUME NEW i \in Item, UserReleases(m, i)
      PROVE  TellsAt(m)
  <2> DEFINE d == IF i \in Key THEN ReleaseKey(ctl[m], i) ELSE ReleaseButton(ctl[m], i)
  <2>1. Stays(ctl[m], d) /\ Visits(ctl[m], d)
    BY <1>0, ReleaseKeyStays, ReleaseButtonStays, KeyVisits, ButtonVisits DEF Item
  <2>2. PerformAt(m, d, rcv[m].osPos)
    BY <1>4 DEF UserReleases
  <2> HIDE DEF d
  <2> QED
    BY <1>0, <2>1, <2>2, StaysActs DEF TellsAt, Stays
<1> QED
  BY <1>1, <1>2, <1>3, <1>4 DEF UserStep

-----------------------------------------------------------------------------

(***************************************************************************)
(* What ends m's driving of p: p yields, enters m itself, or is lost.      *)
(***************************************************************************)
EndsDrive(e, p) ==
    \/ e.type \in {"PeerEntered", "PeerYield", "PeerLost"} /\ e.peer = p
    \/ e.type = "SetLayout" /\ p \notin e.peers

Recall == {"Enter", "Yield", "Disconnected"}

(* s: what is on its way from p; q: the capture thread's queue. *)
Recalls(s, q, p) ==
    \/ \E i \in 1 .. Len(s) : s[i].type \in Recall
    \/ \E i \in 1 .. Len(q) : EndsDrive(q[i], p)

Called(p, m) == Recalls(net[<<p, m>>], capq[m], p)

(* The network task has yet to notice that the connection ended. *)
Stale(m, p) == p \in active[m] /\ {m, p} \notin up

Recalled(p, m) == Called(p, m) \/ Stale(m, p)

LEMMA Least ==
    ASSUME NEW T \in SUBSET Nat, T # {}
    PROVE  \E n \in T : \A k \in T : n <= k
<1> DEFINE B == {s \in Nat \X Nat : s[1] < s[2]}
<1>1. IsWellFoundedOn(B, Nat)
  BY NatLessThanWellFounded DEF OpToRel
<1>2. \A k, n \in Nat : k < n => <<k, n>> \in B
  OBVIOUS
<1> HIDE DEF B
<1>3. \E n \in T : \A k \in T : ~(<<k, n>> \in B)
  BY <1>1, WFMin
<1>4. \A k, n \in Nat : k < n \/ n <= k
  OBVIOUS
<1> QED
  BY <1>2, <1>3, <1>4

LEMMA Greatest ==
    ASSUME NEW n \in Nat, NEW T \in SUBSET (1 .. n), T # {}
    PROVE  \E i \in T : \A j \in T : j <= i
<1> DEFINE U == {n - i : i \in T}
<1>1. U \in SUBSET Nat /\ U # {}
  <2>1. \A i \in T : n - i \in Nat
    OBVIOUS
  <2> QED
    BY <2>1
<1>2. PICK u \in U : \A k \in U : u <= k
  <2> HIDE DEF U
  <2> QED
    BY <1>1, Least
<1>3. PICK i \in T : u = n - i
  OBVIOUS
<1>4. \A j \in T : n - i <= n - j
  BY <1>2, <1>3
<1>5. \A j \in T : j <= i
  BY <1>4
<1> QED
  BY <1>5

(* A peer on the desk without a connection is about to be lost. *)
LEMMA CutOff ==
    ASSUME NEW s \in Seq(Message), NEW q \in Seq(CaptureEvent), NEW l, NEW S, NEW p \in l,
           LayoutOK(q, l, S), p \notin S \/ ~UpAfter(s, Len(s), S, p)
    PROVE  Recalls(s, q, p)
<1>1. CASE p \notin S
  <2> DEFINE T == {i \in 1 .. Len(q) : q[i].type = "SetLayout"}
  <2>1. T \in SUBSET (1 .. Len(q)) /\ Len(q) \in Nat
    OBVIOUS
  <2>2. T # {}
    BY <1>1 DEF LayoutOK
  <2>3. PICK i \in T : \A j \in T : j <= i
    <3> HIDE DEF T
    <3> QED
      BY <2>1, <2>2, Greatest
  <2>4. \A j \in (i + 1) .. Len(q) : q[j].type # "SetLayout"
    BY <2>1, <2>3
  <2>5. i \in 1 .. Len(q) /\ q[i].type = "SetLayout"
    BY <2>3
  <2>6. q[i].peers = S
    BY <2>4, <2>5 DEF LayoutOK
  <2>7. EndsDrive(q[i], p)
    BY <1>1, <2>5, <2>6 DEF EndsDrive
  <2> QED
    BY <2>5, <2>7 DEF Recalls
<1>2. CASE p \in S /\ ~UpAfter(s, Len(s), S, p)
  <2>1. Len(s) \in Nat
    OBVIOUS
  <2>2. 0 \in 0 .. Len(s)
    BY <2>1
  <2>3. \E j \in (0 + 1) .. Len(s) : s[j].type = "Disconnected"
    BY <1>2, <2>2 DEF UpAfter
  <2>4. \E j \in 1 .. Len(s) : s[j].type = "Disconnected"
    BY <2>3
  <2> QED
    BY <2>4 DEF Recalls, Recall
<1> QED
  BY <1>1, <1>2

(* p is driven after a handler only if it was before. *)
StillDrives(c, d, e) ==
    d.peer \in Machine /\ ~d.idle =>
        /\ c.peer = d.peer /\ ~c.idle
        /\ NoLeave(d.out.sent[d.peer]) /\ ~EndsDrive(e, d.peer)

LEMMA SilentDrives ==
    ASSUME NEW c \in ControllerState, NEW d, Silent(c, d), NEW e, ~EndsDrive(e, c.peer)
    PROVE  StillDrives(c, d, e)
BY NoneSent DEF Silent, StillDrives

LEMMA HomeDrives ==
    ASSUME NEW c, NEW d, NEW e, d.peer = NoMachine \/ d.idle = TRUE
    PROVE  StillDrives(c, d, e)
BY ControllerAssumption DEF StillDrives

LEMMA ExitGoesHome ==
    ASSUME NEW c \in Working, c.peer \in Machine, NEW notify \in BOOLEAN
    PROVE  LET d == ExitToLocal(c, notify)
           IN  d \in Working /\ d.peer = NoMachine
<1> DEFINE l == IF notify THEN LeavePeer(c, c.peer) ELSE c
           h == ToLocal(l)
           n == [h EXCEPT !.push = NoPush]
           d == ExitToLocal(c, notify)
<1>0. c.home \in Place /\ ~IsLocal(c)
  BY ControllerAssumption DEF Working, ControllerWith, IsLocal
<1>1. l \in Working
  BY LeavePeerStays DEF Stays
<1> HIDE DEF l
<1>2. h \in Working /\ h.peer = NoMachine
  BY <1>1, ToLocalMoves
<1> HIDE DEF h
<1>3. n \in Working /\ n.peer = NoMachine
  BY <1>2, NoPushType DEF Working, ControllerWith
<1>4. d = Release(n, c.home)
  BY <1>0 DEF ExitToLocal, n, h, l
<1> HIDE DEF n, d
<1>5. d \in Working /\ d.peer = NoMachine
  BY <1>0, <1>3, <1>4, PointerActions
<1> QED
  BY <1>5 DEF d

LEMMA EnteredDrives ==
    ASSUME NEW c \in ControllerState, NEW e, e.type = "PeerEntered", e.peer \in Machine,
           e.seq \in SeqNo
    PROVE  StillDrives(c, PeerEntered(c, e.peer, e.seq), e)
<1> DEFINE v == IF c.watcher = e.peer THEN NoMachine ELSE c.watcher
           q == IF c.pointer[e.peer] = -1 \/ Newer(e.seq, c.pointer[e.peer])
                THEN e.seq ELSE c.pointer[e.peer]
           qs == [c.pointer EXCEPT ![e.peer] = q]
           b == [c EXCEPT !.watcher = v, !.pointer = qs]
           n == [ToLocal(b) EXCEPT !.push = NoPush]
           d == PeerEntered(c, e.peer, e.seq)
<1>0. c \in Working
  BY AtRest
<1>1. v \in Machine \union {NoMachine} /\ qs \in [Machine -> SeqNo \union {-1}]
  BY <1>0 DEF Working, ControllerWith
<1>2. d = IF c.peer = e.peer THEN Unpark(n) ELSE b
  BY <1>0 DEF PeerEntered, Working, ControllerWith
<1> HIDE DEF d, v, qs
<1>3. b \in Working /\ Silent(c, b)
  BY <1>0, <1>1 DEF Silent, Working, ControllerWith
<1> HIDE DEF b
<1>4. n \in Working /\ n.peer = NoMachine
  <2>1. ToLocal(b) \in Working /\ ToLocal(b).peer = NoMachine
    BY <1>3, ToLocalMoves
  <2> QED
    BY <2>1, NoPushType DEF Working, ControllerWith
<1> HIDE DEF n
<1>5. Unpark(n).peer = NoMachine
  BY <1>4, PlaceFacts, PointerActions
<1>6. c.peer # e.peer => ~EndsDrive(e, c.peer)
  BY DEF EndsDrive
<1>7. StillDrives(c, d, e)
  BY <1>2, <1>3, <1>5, <1>6, SilentDrives, HomeDrives
<1> QED
  BY <1>7 DEF d

LEMMA YieldDrives ==
    ASSUME NEW c \in ControllerState, NEW e, e.type = "PeerYield", e.peer \in Machine
    PROVE  StillDrives(c, PeerYield(c, e.peer), e)
<1> DEFINE w == IF c.peer = e.peer THEN [c EXCEPT !.idle = TRUE, !.push = NoPush] ELSE c
           d == DropRoutes(w, e.peer)
<1>0. c \in Working /\ Silent(c, c)
  BY AtRest DEF Silent
<1>1. w \in Working
  BY <1>0, NoPushType DEF Working, ControllerWith
<1>2. IF c.peer = e.peer THEN w.idle = TRUE ELSE Silent(c, w)
  BY <1>0 DEF Working, ControllerWith
<1> HIDE DEF w
<1>3. Silent(w, d)
  BY <1>1, SilentSteps
<1> HIDE DEF d
<1>4. c.peer # e.peer => ~EndsDrive(e, c.peer)
  BY DEF EndsDrive
<1>5. StillDrives(c, d, e)
  <2>1. CASE c.peer = e.peer
    <3>1. d.idle = TRUE
      BY <1>2, <1>3, <2>1 DEF Silent
    <3> QED
      BY <3>1, HomeDrives
  <2>2. CASE c.peer # e.peer
    BY <1>2, <1>3, <1>4, <2>2, SilentTrans, SilentDrives
  <2> QED
    BY <2>1, <2>2
<1> QED
  BY <1>5 DEF PeerYield, d, w

LEMMA LostDrives ==
    ASSUME NEW c \in ControllerState, NEW e, e.type = "PeerLost", e.peer \in Machine
    PROVE  StillDrives(c, PeerLost(c, e.peer), e)
<1> DEFINE x == IF c.peer = e.peer THEN ExitToLocal(c, FALSE) ELSE c
           g == DropRoutes(x, e.peer)
           v == IF g.watcher = e.peer THEN NoMachine ELSE g.watcher
           qs == [g.pointer EXCEPT ![e.peer] = -1]
           d == [g EXCEPT !.watcher = v, !.pointer = qs]
<1>0. c \in Working /\ Silent(c, c)
  BY AtRest DEF Silent
<1>1. x \in Working /\ IF c.peer = e.peer THEN x.peer = NoMachine ELSE Silent(c, x)
  BY <1>0, ExitGoesHome
<1> HIDE DEF x
<1>2. g \in Working /\ Silent(x, g)
  BY <1>1, SilentSteps, DropRoutesStays DEF Stays
<1>3. PeerLost(c, e.peer) = d
  BY DEF PeerLost, d, g, x, v, qs
<1> HIDE DEF g, v, qs
<1>4. Silent(g, d)
  BY <1>2 DEF Silent, Working, ControllerWith
<1> HIDE DEF d
<1>5. Silent(x, d)
  BY <1>2, <1>4, SilentTrans
<1>6. c.peer # e.peer => ~EndsDrive(e, c.peer)
  BY DEF EndsDrive
<1>7. StillDrives(c, d, e)
  <2>1. CASE c.peer = e.peer
    <3>1. d.peer = NoMachine
      BY <1>1, <1>5, <2>1 DEF Silent
    <3> QED
      BY <3>1, HomeDrives
  <2>2. CASE c.peer # e.peer
    BY <1>1, <1>5, <1>6, <2>2, SilentTrans, SilentDrives
  <2> QED
    BY <2>1, <2>2
<1> QED
  BY <1>3, <1>7

LEMMA SetLayoutDrives ==
    ASSUME NEW c \in ControllerState, NEW e, e.type = "SetLayout", e.peers \in SUBSET Machine
    PROVE  StillDrives(c, SetLayout(c, e.peers), e)
<1> DEFINE b == [c EXCEPT !.layout = e.peers, !.push = NoPush]
           x == ExitToLocal(b, TRUE)
           d == SetLayout(c, e.peers)
<1>0. c \in Working
  BY AtRest
<1>1. b \in Working /\ Silent(c, b)
  BY <1>0, NoPushType DEF Silent, Working, ControllerWith
<1>2. d = IF c.peer \in Machine \ e.peers THEN DropRoutes(x, c.peer) ELSE b
  BY DEF SetLayout
<1> HIDE DEF b, d
<1>3. CASE c.peer \in Machine \ e.peers
  <2>1. x \in Working /\ x.peer = NoMachine
    BY <1>1, <1>3, ExitGoesHome DEF Silent
  <2> HIDE DEF x
  <2>2. Silent(x, DropRoutes(x, c.peer))
    BY <2>1, SilentSteps
  <2>3. d.peer = NoMachine
    BY <1>2, <1>3, <2>1, <2>2 DEF Silent
  <2>4. StillDrives(c, d, e)
    BY <2>3, HomeDrives
  <2> QED
    BY <2>4 DEF d
<1>4. CASE c.peer \in e.peers
  <2>1. ~EndsDrive(e, c.peer)
    BY <1>4 DEF EndsDrive
  <2>2. StillDrives(c, d, e)
    BY <1>1, <1>2, <1>4, <2>1, SilentDrives
  <2> QED
    BY <2>2 DEF d
<1>5. CASE c.peer \notin Machine
  <2>1. d.peer \notin Machine
    BY <1>1, <1>2, <1>5 DEF Silent
  <2>2. StillDrives(c, d, e)
    BY <2>1 DEF StillDrives
  <2> QED
    BY <2>2 DEF d
<1> QED
  BY <1>3, <1>4, <1>5

LEMMA PointerDrives ==
    ASSUME NEW c \in ControllerState, NEW e, e.type = "Pointer", NEW p \in Machine,
           NEW seq \in SeqNo, NEW pos \in Place
    PROVE  StillDrives(c, PeerPointer(c, p, seq, pos), e)
<1> DEFINE b == [c EXCEPT !.pointer[p] = seq]
           i == [b EXCEPT !.cursor = pos]
           a == [b EXCEPT !.push = NoPush, !.peer = p, !.cursor = pos,
                          !.home = c.last, !.idle = TRUE]
           u == Capture(a)
           d == PeerPointer(c, p, seq, pos)
           qs == [c.pointer EXCEPT ![p] = seq]
<1>0. c \in Working /\ c.last \in Place /\ qs \in [Machine -> SeqNo \union {-1}]
  BY AtRest DEF Working, ControllerWith
<1>1. d = IF c.pointer[p] # -1 /\ ~Newer(seq, c.pointer[p]) THEN c
          ELSE IF p \notin c.layout THEN b
          ELSE IF c.peer = p /\ c.idle THEN i
          ELSE IF IsLocal(c) THEN u
          ELSE b
  BY DEF PeerPointer
<1>2. b = [c EXCEPT !.pointer = qs]
  OBVIOUS
<1> HIDE DEF b, qs, d
<1>3. b \in Working /\ Silent(c, b)
  BY <1>0, <1>2 DEF Silent, Working, ControllerWith
<1>4. Silent(c, i) /\ Silent(c, c)
  BY <1>3 DEF Silent, Working, ControllerWith
<1>5. a \in Working /\ a.idle = TRUE
  BY <1>0, <1>3, NoPushType DEF Working, ControllerWith
<1> HIDE DEF i, a
<1>6. u.idle = TRUE
  BY <1>5, SilentSteps DEF Silent
<1> HIDE DEF u
<1>7. ~EndsDrive(e, c.peer)
  BY DEF EndsDrive
<1>8. StillDrives(c, d, e)
  BY <1>1, <1>3, <1>4, <1>6, <1>7, SilentDrives, HomeDrives
<1> QED
  BY <1>8 DEF d

LEMMA HandledDrives ==
    ASSUME NEW c \in ControllerState, NEW e \in CaptureEvent
    PROVE  StillDrives(c, Handled(c, e), e)
<1> DEFINE d == Handled(c, e)
<1>1. CASE e \in [type : {"PeerEntered"}, peer : Machine, seq : SeqNo]
  <2>1. d = PeerEntered(c, e.peer, e.seq)
    BY <1>1 DEF Handled
  <2> QED
    BY <1>1, <2>1, EnteredDrives
<1>2. CASE e \in [type : {"PeerYield", "PeerLost", "YieldedTo"}, peer : Machine]
            /\ e.type = "PeerYield"
  <2>1. d = PeerYield(c, e.peer)
    BY <1>2 DEF Handled
  <2> QED
    BY <1>2, <2>1, YieldDrives
<1>3. CASE e \in [type : {"PeerYield", "PeerLost", "YieldedTo"}, peer : Machine]
            /\ e.type = "PeerLost"
  <2>1. d = PeerLost(c, e.peer)
    BY <1>3 DEF Handled
  <2> QED
    BY <1>3, <2>1, LostDrives
<1>4. CASE e \in [type : {"PeerYield", "PeerLost", "YieldedTo"}, peer : Machine]
            /\ e.type = "YieldedTo"
  <2>1. d = [c EXCEPT !.watcher = e.peer]
    BY <1>4 DEF Handled, YieldedTo
  <2>2. Silent(c, [c EXCEPT !.watcher = e.peer])
    BY AtRest DEF Silent, Working, ControllerWith
  <2>3. ~EndsDrive(e, c.peer)
    BY <1>4 DEF EndsDrive
  <2> QED
    BY <2>1, <2>2, <2>3, SilentDrives
<1>5. CASE e \in [type : {"SetLayout"}, peers : SUBSET Machine]
  <2>1. d = SetLayout(c, e.peers)
    BY <1>5 DEF Handled
  <2> QED
    BY <1>5, <2>1, SetLayoutDrives
<1>6. CASE e \in DatagramType({"Pointer"})
  <2>1. d = PeerPointer(c, e.from, e.seq, e.pos)
    BY <1>6 DEF Handled, DatagramType
  <2> QED
    BY <1>6, <2>1, PointerDrives DEF DatagramType
<1> HIDE DEF d
<1>7. ASSUME e \in [type : {"PeerYield", "PeerLost", "YieldedTo"}, peer : Machine]
      PROVE  StillDrives(c, d, e)
  <2>1. e.type \in {"PeerYield", "PeerLost", "YieldedTo"}
    BY <1>7
  <2> QED
    BY <1>2, <1>3, <1>4, <1>7, <2>1 DEF d
<1> QED
  BY <1>1, <1>5, <1>6, <1>7 DEF CaptureEvent, d

LEMMA RecallsMore ==
    ASSUME NEW s \in Seq(Message), NEW q \in Seq(CaptureEvent), NEW p, Recalls(s, q, p),
           NEW t \in Seq(Message), NEW r \in Seq(CaptureEvent)
    PROVE  Recalls(s \o t, q, p) /\ Recalls(s, q \o r, p)
<1> DEFINE st == s \o t
           qr == q \o r
<1>1. /\ \A i \in 1 .. Len(s) : st[i] = s[i] /\ i \in 1 .. Len(st)
      /\ \A i \in 1 .. Len(q) : qr[i] = q[i] /\ i \in 1 .. Len(qr)
  OBVIOUS
<1> HIDE DEF st, qr
<1>2. Recalls(st, q, p)
  BY <1>1 DEF Recalls
<1>3. Recalls(s, qr, p)
  BY <1>1 DEF Recalls
<1> QED
  BY <1>2, <1>3 DEF st, qr

LEMMA RecallsPop ==
    ASSUME NEW s \in Seq(Message), NEW q \in Seq(CaptureEvent), NEW p, Recalls(s, q, p)
    PROVE  /\ q # <<>> /\ ~EndsDrive(q[1], p) => Recalls(s, Tail(q), p)
           /\ s # <<>> /\ s[1].type \notin Recall => Recalls(Tail(s), q, p)
<1>1. ASSUME q # <<>>, ~EndsDrive(q[1], p)
      PROVE  Recalls(s, Tail(q), p)
  <2> DEFINE r == Tail(q)
  <2>1. \A i \in 2 .. Len(q) : r[i - 1] = q[i] /\ i - 1 \in 1 .. Len(r)
    BY <1>1
  <2> HIDE DEF r
  <2>2. \A i \in 1 .. Len(q) : i = 1 \/ i \in 2 .. Len(q)
    OBVIOUS
  <2>3. (\E i \in 1 .. Len(q) : EndsDrive(q[i], p)) => \E i \in 1 .. Len(r) : EndsDrive(r[i], p)
    BY <1>1, <2>1, <2>2
  <2>4. Recalls(s, r, p)
    BY <2>3 DEF Recalls
  <2> QED
    BY <2>4 DEF r
<1>2. ASSUME s # <<>>, s[1].type \notin Recall
      PROVE  Recalls(Tail(s), q, p)
  <2> DEFINE r == Tail(s)
  <2>1. \A i \in 2 .. Len(s) : r[i - 1] = s[i] /\ i - 1 \in 1 .. Len(r)
    BY <1>2
  <2> HIDE DEF r
  <2>2. \A i \in 1 .. Len(s) : i = 1 \/ i \in 2 .. Len(s)
    OBVIOUS
  <2>3. (\E i \in 1 .. Len(s) : s[i].type \in Recall) =>
            \E i \in 1 .. Len(r) : r[i].type \in Recall
    BY <1>2, <2>1, <2>2
  <2>4. Recalls(r, q, p)
    BY <2>3 DEF Recalls
  <2> QED
    BY <2>4 DEF r
<1> QED
  BY <1>1, <1>2

LEMMA RecallsLast ==
    ASSUME NEW s, NEW q \in Seq(CaptureEvent), NEW p, NEW e \in CaptureEvent,
           EndsDrive(e, p), NEW r \in Seq(CaptureEvent), r # <<>>, r[1] = e
    PROVE  Recalls(s, q \o r, p)
<1> DEFINE z == q \o r
<1>1. Len(q) + 1 \in 1 .. Len(z) /\ z[Len(q) + 1] = e
  OBVIOUS
<1> HIDE DEF z
<1>2. Recalls(s, z, p)
  BY <1>1 DEF Recalls
<1> QED
  BY <1>2 DEF z

(* What is on its way from p to m only grows. *)
LEMMA CalledMore ==
    ASSUME TypeOK, NEW m \in Machine, NEW p \in Machine \ {m}, Called(p, m),
           net'[<<p, m>>] = net[<<p, m>>]
             \/ \E t \in Seq(Message) : net'[<<p, m>>] = net[<<p, m>>] \o t,
           capq'[m] = capq[m]
             \/ \E r \in Seq(CaptureEvent) : capq'[m] = capq[m] \o r
    PROVE  Called(p, m)'
<1> DEFINE x == <<p, m>>
           s == net[x]
           q == capq[m]
           s2 == net'[x]
           q2 == capq'[m]
<1>1. s \in Seq(Message) /\ q \in Seq(CaptureEvent)
  BY PairType DEF TypeOK
<1>2. Recalls(s, q, p)
  BY DEF Called
<1>3. s2 = s \/ \E t \in Seq(Message) : s2 = s \o t
  OBVIOUS
<1>4. q2 = q \/ \E r \in Seq(CaptureEvent) : q2 = q \o r
  OBVIOUS
<1>5. Called(p, m)' <=> Recalls(s2, q2, p)
  BY DEF Called
<1> HIDE DEF x, s, q, s2, q2
<1>6. s2 \in Seq(Message)
  <2>1. \A t \in Seq(Message) : s \o t \in Seq(Message)
    BY <1>1
  <2> QED
    BY <1>1, <1>3, <2>1
<1>7. Recalls(s2, q, p)
  BY <1>1, <1>2, <1>3, RecallsMore
<1>8. Recalls(s2, q2, p)
  BY <1>1, <1>4, <1>6, <1>7, RecallsMore
<1> QED
  BY <1>5, <1>8

LEMMA NetAfterPerform ==
    ASSUME TypeOK, NEW x \in Machine, NEW d \in Working, Perform(x, d), NEW y \in Pair
    PROVE  /\ net'[y] = net[y] \/ \E t \in Seq(Message) : net'[y] = net[y] \o t
           /\ y[1] # x => net'[y] = net[y]
<1>1. y[2] \in Machine
  BY PairParts
<1>2. d.out.sent[y[2]] \in Seq(Message)
  BY <1>1, SpokenType
<1> QED
  BY <1>2, Performs

LEMMA CalledByCapturing ==
    ASSUME PointerInv, NEW m \in Machine, NEW p \in Machine \ {m}, Called(p, m),
           Driving(m, p)', NEW x \in Machine, Capturing(x)
    PROVE  Called(p, m)'
<1> DEFINE e == Head(capq[x])
           d == Handled(ctl[x], e)
<1>0. TypeOK /\ <<p, m>> \in Pair /\ ctl[x] \in ControllerState /\ OnDesk(ctl[x])
  BY PairType, OwnController
<1>1. capq[x] # <<>> /\ Perform(x, d) /\ capq' = [capq EXCEPT ![x] = Tail(@)]
  BY DEF Capturing, PerformAt
<1>2. e \in CaptureEvent
  BY <1>0, <1>1, CaptureHead
<1>3. d \in Working /\ StillDrives(ctl[x], d, e)
  BY <1>0, <1>2, HandledTurns, HandledDrives DEF Turns
<1>4. net'[<<p, m>>] = net[<<p, m>>] \/ \E t \in Seq(Message) : net'[<<p, m>>] = net[<<p, m>>] \o t
  <2> HIDE DEF d
  <2> QED
    BY <1>0, <1>1, <1>3, NetAfterPerform
<1>5. CASE x # m
  <2>1. capq'[m] = capq[m]
    BY <1>0, <1>1, <1>5 DEF TypeOK
  <2> QED
    BY <1>0, <1>4, <2>1, CalledMore
<1>6. CASE x = m
  <2> DEFINE y == <<p, m>>
             s == net[y]
             q == capq[m]
  <2>1. net'[y] = s
    <3> HIDE DEF d
    <3>1. y[1] # x /\ y \in Pair
      BY <1>0, <1>6
    <3> HIDE DEF y
    <3> QED
      BY <1>0, <1>1, <1>3, <3>1, NetAfterPerform
  <2>2. capq'[m] = Tail(q) /\ q \in Seq(CaptureEvent) /\ q # <<>> /\ e = q[1]
        /\ s \in Seq(Message)
    BY <1>0, <1>1, <1>6 DEF TypeOK
  <2>3. ctl'[m].peer = d.peer /\ ctl'[m].idle = d.idle
    <3> DEFINE f == [d EXCEPT !.out = Nothing]
    <3> HIDE DEF d
    <3>1. f.peer = d.peer /\ f.idle = d.idle
      BY <1>3 DEF Working, ControllerWith
    <3>2. ctl'[m] = f
      BY <1>0, <1>1, <1>6 DEF Perform, TypeOK
    <3> QED
      BY <3>1, <3>2
  <2>4. d.peer = p /\ ~d.idle
    BY <2>3 DEF Driving
  <2> HIDE DEF d, e
  <2>5. ~EndsDrive(q[1], p)
    BY <1>3, <2>2, <2>4 DEF StillDrives
  <2> HIDE DEF y, s, q
  <2>6. Recalls(s, q, p)
    BY DEF Called, y, s, q
  <2>7. Recalls(s, Tail(q), p)
    BY <2>2, <2>5, <2>6, RecallsPop
  <2> QED
    BY <2>1, <2>2, <2>7 DEF Called, y
<1> QED
  BY <1>5, <1>6

LEMMA CalledByHearing ==
    ASSUME PointerInv, NEW m \in Machine, NEW p \in Machine \ {m}, Called(p, m),
           NEW x \in Machine, Hearing(x)
    PROVE  Called(p, m)'
<1>0. TypeOK /\ <<p, m>> \in Pair /\ net[<<p, m>>] \in Seq(Message)
      /\ capq[m] \in Seq(CaptureEvent)
  BY PairType DEF PointerInv, TypeOK
<1>1. PICK y \in Machine \ {x} : \/ OnConnected(x, y) \/ OnDisconnected(x, y)
                                 \/ OnEnter(x, y) \/ OnYield(x, y) \/ OnInput(x, y)
  BY DEF Hearing
<1>2. PICK type : /\ Hears(y, x, type)
                  /\ \/ type = "Connected" /\ OnConnected(x, y)
                     \/ type = "Disconnected" /\ OnDisconnected(x, y)
                     \/ type = "Enter" /\ OnEnter(x, y)
                     \/ type = "Yield" /\ OnYield(x, y)
                     \/ type \in {"Leave", "Key", "Button"} /\ OnInput(x, y)
  BY <1>1 DEF OnConnected, OnDisconnected, OnEnter, OnYield, OnInput
<1> DEFINE msg == Head(net[<<y, x>>])
<1>3. /\ msg \in Message /\ msg.type = type
      /\ net[<<y, x>>] # <<>> /\ <<y, x>> \in Pair
      /\ net' = [net EXCEPT ![<<y, x>>] = Tail(@)]
  BY <1>0, <1>2, HeadOfNet, PairType DEF Hears
<1>4. type = "Enter" => msg.seq \in SeqNo
  BY <1>3 DEF Message, InputMsg
(* What is queued for the capture thread. *)
<1>5. \/ capq' = capq /\ type \notin Recall
      \/ \E r \in Seq(CaptureEvent) :
            /\ Queue(capq, x, r)
            /\ type \in Recall => r # <<>> /\ EndsDrive(r[1], y)
  <2>1. CASE type = "Connected"
    <3> DEFINE r == << Relayout(sessions'[x]) >>
    <3>1. sessions'[x] \in SUBSET Machine
      BY <1>0, <1>2, <2>1 DEF OnConnected, TypeOK
    <3>2. r \in Seq(CaptureEvent)
      BY <3>1 DEF CaptureEvent, Relayout
    <3>3. Queue(capq, x, r) /\ type \notin Recall
      BY <1>2, <2>1 DEF OnConnected, Recall
    <3> QED
      BY <3>2, <3>3
  <2>2. CASE type = "Disconnected"
    <3> DEFINE l == [type |-> "PeerLost", peer |-> y]
               r == << l, Relayout(sessions'[x]) >>
    <3>1. sessions'[x] \in SUBSET Machine
      BY <1>0, <1>2, <2>2 DEF OnDisconnected, TypeOK
    <3>2. l \in CaptureEvent /\ Relayout(sessions'[x]) \in CaptureEvent
      BY <3>1 DEF CaptureEvent, Relayout
    <3>3. Queue(capq, x, r)
      BY <1>2, <2>2 DEF OnDisconnected
    <3>4. EndsDrive(l, y)
      BY DEF EndsDrive
    <3>5. r \in Seq(CaptureEvent) /\ r # <<>> /\ r[1] = l
      BY <3>2
    <3> QED
      BY <3>3, <3>4, <3>5
  <2>3. CASE type = "Enter"
    <3> DEFINE l == [type |-> "PeerEntered", peer |-> y, seq |-> msg.seq]
               r == << l >>
    <3>1. l \in CaptureEvent
      BY <1>4, <2>3 DEF CaptureEvent
    <3>2. Queue(capq, x, r)
      BY <1>2, <2>3 DEF OnEnter
    <3>3. EndsDrive(l, y)
      BY DEF EndsDrive
    <3>4. r \in Seq(CaptureEvent) /\ r # <<>> /\ r[1] = l
      BY <3>1
    <3> QED
      BY <3>2, <3>3, <3>4
  <2>4. CASE type = "Yield"
    <3> DEFINE l == [type |-> "PeerYield", peer |-> y]
               r == << l >>
    <3>1. l \in CaptureEvent
      BY DEF CaptureEvent
    <3>2. Queue(capq, x, r)
      BY <1>2, <2>4 DEF OnYield
    <3>3. EndsDrive(l, y)
      BY DEF EndsDrive
    <3>4. r \in Seq(CaptureEvent) /\ r # <<>> /\ r[1] = l
      BY <3>1
    <3> QED
      BY <3>2, <3>3, <3>4
  <2>5. CASE type \in {"Leave", "Key", "Button"}
    BY <1>2, <2>5 DEF OnInput, Recall
  <2> QED
    BY <1>2, <2>1, <2>2, <2>3, <2>4, <2>5
<1>6. capq'[m] = capq[m] \/ \E r \in Seq(CaptureEvent) : capq'[m] = capq[m] \o r
  BY <1>0, <1>5 DEF Queue, TypeOK
<1>7. CASE <<y, x>> # <<p, m>>
  <2>1. net'[<<p, m>>] = net[<<p, m>>]
    BY <1>0, <1>3, <1>7 DEF TypeOK
  <2> QED
    BY <1>0, <1>6, <2>1, CalledMore
<1>8. CASE <<y, x>> = <<p, m>>
  <2> DEFINE w == <<p, m>>
             s == net[w]
             q == capq[m]
  <2>0. y = p /\ x = m
    BY <1>8
  <2>1. s \in Seq(Message) /\ s # <<>> /\ s[1].type = type /\ net'[w] = Tail(s)
        /\ q \in Seq(CaptureEvent) /\ Tail(s) \in Seq(Message)
    BY <1>0, <1>3, <2>0 DEF TypeOK
  <2>2. Recalls(s, q, p)
    BY DEF Called
  <2>3. \/ capq'[m] = q /\ type \notin Recall
        \/ \E r \in Seq(CaptureEvent) :
              /\ capq'[m] = q \o r
              /\ type \in Recall => r # <<>> /\ EndsDrive(r[1], p)
    BY <1>0, <1>5, <2>0 DEF Queue, TypeOK
  <2>4. Called(p, m)' <=> Recalls(net'[w], capq'[m], p)
    BY DEF Called
  <2> HIDE DEF w, s, q
  <2>5. CASE type \notin Recall
    <3>1. Recalls(Tail(s), q, p)
      BY <2>1, <2>2, <2>5, RecallsPop
    <3>2. \A r \in Seq(CaptureEvent) : Recalls(Tail(s), q \o r, p)
      BY <2>1, <3>1, RecallsMore
    <3> QED
      BY <2>1, <2>3, <2>4, <3>1, <3>2
  <2>6. CASE type \in Recall
    <3>1. PICK r \in Seq(CaptureEvent) :
              capq'[m] = q \o r /\ r # <<>> /\ EndsDrive(r[1], p)
      BY <2>3, <2>6
    <3>2. r[1] \in CaptureEvent
      BY <3>1
    <3>3. Recalls(Tail(s), q \o r, p)
      BY <2>1, <3>1, <3>2, RecallsLast
    <3> QED
      BY <2>1, <2>4, <3>1, <3>3
  <2> QED
    BY <2>5, <2>6
<1> QED
  BY <1>7, <1>8

LEMMA InjectingSends ==
    ASSUME TypeOK, NEW x \in Machine, Injecting(x), NEW y \in Pair
    PROVE  net'[y] = net[y]
             \/ (y[1] = x /\ net'[y] = net[y] \o << YieldMsg >>)
<1>1. CASE InjectControl(x) \/ InjectMotion(x) \/ InjectDisconnected(x)
  <2>1. net' = net
    BY <1>1 DEF InjectControl, InjectMotion, InjectDisconnected
  <2> QED
    BY <2>1
<1>2. CASE InjectLocalActivity(x)
  <2> DEFINE d == rcv[x].driver
             w == <<x, d>>
  <2>1. net' = net \/ net' = [net EXCEPT ![w] = Append(@, YieldMsg)]
    BY <1>2 DEF InjectLocalActivity
  <2>2. net[y] \in Seq(Message)
    BY DEF TypeOK
  <2>3. Append(net[y], YieldMsg) = net[y] \o << YieldMsg >>
    BY <2>2
  <2>4. w[1] = x
    OBVIOUS
  <2> HIDE DEF w
  <2>5. y = w => net' = net \/ net'[y] = Append(net[y], YieldMsg)
    BY <2>1 DEF TypeOK
  <2>6. y # w => net'[y] = net[y]
    BY <2>1 DEF TypeOK
  <2> QED
    BY <2>3, <2>4, <2>5, <2>6
<1> QED
  BY <1>1, <1>2 DEF Injecting

LEMMA CalledStays ==
    ASSUME PointerInv, NEW m \in Machine, NEW p \in Machine \ {m}, Called(p, m),
           Driving(m, p)', [Next]_vars, ~\E x \in Machine : Restart(x),
           ~\E w \in Pair : Connecting(w[1], w[2])
    PROVE  Called(p, m)'
<1>0. TypeOK /\ <<p, m>> \in Pair
  BY PairType DEF PointerInv
<1>1. ASSUME NEW x \in Machine, UserStep(x) \/ ReportDue(x)
      PROVE  Called(p, m)'
  <2>1. PICK d \in Working : Perform(x, d)
    BY <1>1, ThreadActs
  <2>2. capq' = capq
    BY <1>0, <1>1, UserTypes DEF ReportDue
  <2> DEFINE y == <<p, m>>
  <2>3. y \in Pair
    BY <1>0
  <2> HIDE DEF y
  <2>4. net'[y] = net[y] \/ \E t \in Seq(Message) : net'[y] = net[y] \o t
    BY <1>0, <2>1, <2>3, NetAfterPerform
  <2> QED
    BY <1>0, <2>2, <2>4, CalledMore DEF y
<1>2. ASSUME NEW x \in Machine, NEW d \in dgrams[x], OnDatagram(x, d)
      PROVE  Called(p, m)'
  <2>1. d \in DatagramType({"Pointer", "Motion"})
    BY <1>0 DEF TypeOK
  <2>2. d.type = "Pointer" => <<d>> \in Seq(CaptureEvent)
    BY <2>1 DEF DatagramType, CaptureEvent
  <2>3. capq' = capq \/ (d.type = "Pointer" /\ Queue(capq, x, <<d>>))
    BY <1>2 DEF OnDatagram
  <2> DEFINE r == <<d>>
  <2> HIDE DEF r
  <2>4. capq'[m] = capq[m] \/ (d.type = "Pointer" /\ capq'[m] = capq[m] \o r)
    BY <1>0, <2>3 DEF Queue, TypeOK, r
  <2>5. capq'[m] = capq[m] \/ \E t \in Seq(CaptureEvent) : capq'[m] = capq[m] \o t
    BY <2>2, <2>4 DEF r
  <2>6. net'[<<p, m>>] = net[<<p, m>>]
    BY <1>2 DEF OnDatagram
  <2> HIDE DEF r
  <2>7. TypeOK /\ Called(p, m)
    BY <1>0
  <2> QED
    BY <2>5, <2>6, <2>7, CalledMore
<1>3. ASSUME NEW x \in Machine, OnYielded(x)
      PROVE  Called(p, m)'
  <2> DEFINE r == << [type |-> "YieldedTo", peer |-> Head(yielded[x])] >>
  <2>1. Head(yielded[x]) \in Machine
    <3>1. yielded[x] \in Seq(Machine)
      BY <1>0 DEF TypeOK
    <3>2. yielded[x] # <<>>
      BY <1>3 DEF OnYielded
    <3> QED
      BY <3>1, <3>2
  <2>2. r \in Seq(CaptureEvent)
    BY <2>1 DEF CaptureEvent
  <2>3. Queue(capq, x, r) /\ net' = net
    BY <1>3 DEF OnYielded
  <2> HIDE DEF r
  <2>4. capq'[m] = capq[m] \/ capq'[m] = capq[m] \o r
    BY <1>0, <2>3 DEF Queue, TypeOK
  <2> QED
    BY <1>0, <2>2, <2>3, <2>4, CalledMore
<1>4. ASSUME NEW x \in Machine, Injecting(x)
      PROVE  Called(p, m)'
  <2>1. << YieldMsg >> \in Seq(Message)
    BY DEF YieldMsg, Message
  <2>2. net'[<<p, m>>] = net[<<p, m>>] \/ net'[<<p, m>>] = net[<<p, m>>] \o << YieldMsg >>
    BY <1>0, <1>4, InjectingSends
  <2>3. capq' = capq
    BY <1>4 DEF Injecting, InjectControl, InjectMotion, InjectDisconnected,
                InjectLocalActivity, Injects
  <2> QED
    BY <1>0, <2>1, <2>2, <2>3, CalledMore
<1>6. CASE Rest \/ UNCHANGED vars
  <2>1. UNCHANGED <<net, capq>>
    BY <1>6 DEF Rest, vars
  <2> QED
    BY <1>0, <2>1, CalledMore
<1>8. ASSUME NEW x \in Machine, RunLoop(x)
      PROVE  Called(p, m)'
  BY <1>2, <1>3, <1>8, CalledByHearing DEF RunLoop
<1> QED
  BY <1>1, <1>4, <1>6, <1>8, CalledByCapturing DEF Next

(***************************************************************************)
(* What recalls the driver stays on its way until the driver has let go,   *)
(* but for a session replaced before its end was noticed.                  *)
(***************************************************************************)
LEMMA RecalledByLink ==
    ASSUME PointerInv, NetInv, NEW m \in Machine, NEW p \in Machine \ {m}, Recalled(p, m),
           ~(Reconnect(p, m) /\ p \in active[m]),
           NEW a \in Machine, NEW b \in Machine \ {a}, Connecting(a, b)
    PROVE  Recalled(p, m)'
<1> DEFINE x == <<p, m>>
<1>0. /\ TypeOK /\ x \in Pair /\ x[1] = p /\ x[2] = m
      /\ net[x] \in Seq(Message) /\ capq' = capq
      /\ {x[1], x[2]} = {m, p}
  BY PairType DEF PointerInv, TypeOK, Connecting, LinkFails, EndNoticed, Reconnect
<1>1. /\ Called(p, m) <=> Recalls(net[x], capq[m], p)
      /\ Called(p, m)' <=> Recalls(net'[x], capq'[m], p)
  BY DEF Called
<1>2. /\ EndNoticed(a, b) => Ends(x) \/ Unheard(x)
      /\ LinkFails(a, b) =>
            IF x \in {<<a, b>>, <<b, a>>} THEN CutOffAt(x) ELSE Unheard(x)
      /\ Reconnect(a, b) =>
            IF x \in {<<a, b>>, <<b, a>>} THEN Begins(x) ELSE Unheard(x)
  BY <1>0, LinkNet
<1>3. {m, p} \in up => p \in active[m]
  BY <1>0 DEF NetInv
<1>4. {m, p} = {a, b} => x \in {<<a, b>>, <<b, a>>}
  <2>1. {m, p} = {a, b} => x = <<a, b>> \/ x = <<b, a>>
    BY <1>0, PairParts
  <2> QED
    BY <2>1
<1>5. LinkFails(a, b) /\ {m, p} # {a, b} => Unheard(x)
  <2>1. {m, p} # {a, b} => x # <<a, b>> /\ x # <<b, a>>
    BY <1>0
  <2> QED
    BY <1>2, <2>1
<1> HIDE DEF x
<1>6. CASE LinkFails(a, b)
  <2>1. up' = up \ {{a, b}} /\ active' = active
    BY <1>6 DEF LinkFails
  <2>2. CASE {m, p} = {a, b}
    <3>1. {m, p} \in up
      BY <1>6, <2>2 DEF LinkFails
    <3> QED
      BY <1>3, <2>1, <2>2, <3>1 DEF Recalled, Stale
  <2>3. CASE {m, p} # {a, b}
    BY <1>0, <1>1, <1>5, <1>6, <2>1, <2>3 DEF Unheard, Recalled, Stale
  <2> QED
    BY <2>2, <2>3
<1>7. CASE EndNoticed(a, b)
  <2>1. up' = up
    BY <1>7 DEF EndNoticed
  <2>2. CASE Ends(x)
    <3> DEFINE d == [type |-> "Disconnected"]
               s == net[x]
               r == s \o << d >>
    <3>1. s \in Seq(Message) /\ d.type \in Recall /\ net'[x] = r
      BY <1>0, <2>2 DEF Ends, Recall
    <3> HIDE DEF s, d
    <3>2. Len(r) \in 1 .. Len(r) /\ r[Len(r)] = d
      BY <3>1
    <3> HIDE DEF r
    <3>3. \E k \in 1 .. Len(r) : r[k].type \in Recall
      BY <3>1, <3>2
    <3> QED
      BY <1>1, <3>1, <3>3 DEF Recalls, Recalled
  <2>3. CASE Unheard(x)
    BY <1>0, <1>1, <2>1, <2>3 DEF Unheard, SameSession, Recalled, Stale
  <2> QED
    BY <1>2, <1>7, <2>2, <2>3
<1>8. CASE Reconnect(a, b)
  <2>1. up' = up \union {{a, b}}
    BY <1>8 DEF Reconnect
  <2>2. CASE Begins(x)
    <3> DEFINE d == << [type |-> "Connected"] >>
    <3>1. p \notin active[m] /\ net'[x] = net[x] \o d
      BY <1>0, <2>2 DEF Begins
    <3>2. Recalls(net[x], capq[m], p)
      BY <1>1, <3>1 DEF Recalled, Stale
    <3>3. d \in Seq(Message) /\ capq[m] \in Seq(CaptureEvent)
      BY <1>0 DEF Message, TypeOK
    <3> HIDE DEF d
    <3>4. Recalls(net[x] \o d, capq[m], p)
      BY <1>0, <3>2, <3>3, RecallsMore
    <3> QED
      BY <1>0, <1>1, <3>1, <3>4 DEF Recalled
  <2>3. CASE Unheard(x) /\ {m, p} # {a, b}
    BY <1>0, <1>1, <2>1, <2>3 DEF Unheard, SameSession, Recalled, Stale
  <2> QED
    BY <1>2, <1>4, <1>8, <2>2, <2>3
<1> QED
  BY <1>6, <1>7, <1>8 DEF Connecting

LEMMA RecalledByRestart ==
    ASSUME PointerInv, NetInv, NEW m \in Machine, NEW p \in Machine \ {m}, Recalled(p, m),
           NEW x \in Machine \ {m}, Restart(x)
    PROVE  Recalled(p, m)'
<1> DEFINE y == <<p, m>>
<1>0. TypeOK /\ y \in Pair /\ y[1] = p /\ y[2] = m
  BY PairType DEF PointerInv
<1>1. /\ Called(p, m) <=> Recalls(net[y], capq[m], p)
      /\ Called(p, m)' <=> Recalls(net'[y], capq'[m], p)
  BY DEF Called
<1>2. {m, p} \in up => p \in active[m]
  <2>1. {y[1], y[2]} = {m, p}
    BY <1>0
  <2> QED
    BY <1>0, <2>1 DEF NetInv
<1> HIDE DEF y
<1>3. /\ up' = {l \in up : x \notin l}
      /\ active'[m] = active[m] /\ capq'[m] = capq[m]
  BY <1>0 DEF Restart, TypeOK
<1>4. CASE x = p /\ {m, p} \in up
  BY <1>2, <1>3, <1>4 DEF Recalled, Stale
<1>5. CASE ~(x = p /\ {m, p} \in up)
  <2>1. ~(y[1] = x /\ {x, y[2]} \in up)
    <3>1. {p, m} = {m, p}
      OBVIOUS
    <3> QED
      BY <1>0, <1>5, <3>1
  <2>2. net'[y] = net[y]
    BY <1>0, <2>1, RestartNet DEF Unheard
  <2>3. Stale(m, p) => Stale(m, p)'
    BY <1>3 DEF Stale
  <2> QED
    BY <1>1, <1>3, <2>2, <2>3 DEF Recalled
<1> QED
  BY <1>4, <1>5

LEMMA RestartDrivesNone ==
    ASSUME TypeOK, NEW m \in Machine, NEW p \in Machine, Driving(m, p)'
    PROVE  ~Restart(m)
<1>1. Restart(m) => ctl'[m].peer = NoMachine
  BY DEF Restart, NewController, TypeOK
<1> QED
  BY <1>1, ControllerAssumption DEF Driving

LEMMA RecalledStays ==
    ASSUME PointerInv, NetInv, NEW m \in Machine, NEW p \in Machine \ {m}, Recalled(p, m),
           Driving(m, p)', [Next]_vars, ~(Reconnect(p, m) /\ p \in active[m])
    PROVE  Recalled(p, m)'
<1>0. TypeOK
  BY DEF PointerInv
<1>1. CASE \E w \in Pair : Connecting(w[1], w[2])
  <2>1. PICK w \in Pair : Connecting(w[1], w[2])
    BY <1>1
  <2>2. w[1] \in Machine /\ w[2] \in Machine \ {w[1]}
    BY PairParts
  <2> QED
    BY <2>1, <2>2, RecalledByLink
<1>2. CASE \E x \in Machine : Restart(x)
  <2>1. PICK x \in Machine : Restart(x)
    BY <1>2
  <2>2. x # m
    BY <1>0, <2>1, RestartDrivesNone
  <2> QED
    BY <2>1, <2>2, RecalledByRestart
<1>3. CASE /\ ~\E w \in Pair : Connecting(w[1], w[2])
           /\ ~\E x \in Machine : Restart(x)
  <2>1. UNCHANGED <<up, active>>
    BY <1>0, <1>3, LinksMove
  <2>2. Stale(m, p) => Stale(m, p)'
    BY <2>1 DEF Stale
  <2>3. Called(p, m) => Called(p, m)'
    BY <1>3, CalledStays
  <2> QED
    BY <2>2, <2>3 DEF Recalled
<1> QED
  BY <1>1, <1>2, <1>3

(* m has on its desk a peer it has no session with, or a new one. *)
LEMMA CutOffCalls ==
    ASSUME DeskInv, NEW m \in Machine, NEW p \in Machine \ {m}, p \in ctl[m].layout,
           \/ p \notin sessions[m] \/ p \notin active[m]
           \/ ComesDown(<<p, m>>) /\ ~NoneComing(m, p)
    PROVE  Called(p, m)
<1> DEFINE x == <<p, m>>
           s == net[x]
           q == capq[m]
           S == sessions[m]
<1>0. /\ TypeOK /\ NetInv /\ LayoutOK(q, ctl[m].layout, S)
      /\ x \in Pair /\ x[1] = p /\ x[2] = m
  BY PairType DEF DeskInv, LinkInv, LayoutInv, PointerInv
<1>1. s \in Seq(Message) /\ q \in Seq(CaptureEvent) /\ Len(s) \in Nat
  BY <1>0 DEF TypeOK
<1>2. UpAfter(s, Len(s), S, p) <=> p \in active[m]
  BY <1>0 DEF NetInv, NetOK
<1>3. Called(p, m) <=> Recalls(s, q, p)
  BY DEF Called
<1>4. ComesDown(x) <=> ConnectsDown(s, S, p)
  BY <1>0 DEF ComesDown
<1>5. NoneComing(m, p) <=> \A i \in DOMAIN s : s[i].type # "Connected"
  BY DEF NoneComing
<1>6. \/ p \notin S \/ ~UpAfter(s, Len(s), S, p)
      \/ ConnectsDown(s, S, p) /\ \E i \in DOMAIN s : s[i].type = "Connected"
  BY <1>2, <1>4, <1>5
<1>7. DOMAIN s = 1 .. Len(s)
  BY <1>1
<1> HIDE DEF x, s, q, S
<1>8. CASE p \notin S \/ ~UpAfter(s, Len(s), S, p)
  BY <1>0, <1>1, <1>3, <1>8, CutOff
<1>9. CASE p \in S /\ ConnectsDown(s, S, p) /\ \E i \in DOMAIN s : s[i].type = "Connected"
  <2>1. PICK i \in 1 .. Len(s) : s[i].type = "Connected"
    BY <1>7, <1>9
  <2>2. ~UpAfter(s, i - 1, S, p)
    BY <1>9, <2>1 DEF ConnectsDown
  <2>3. 0 \in 0 .. (i - 1)
    BY <1>1, <2>1
  <2>4. \E j \in (0 + 1) .. (i - 1) : s[j].type = "Disconnected"
    BY <1>9, <2>2, <2>3 DEF UpAfter
  <2>5. \E j \in 1 .. Len(s) : s[j].type = "Disconnected"
    BY <1>1, <2>1, <2>4
  <2> QED
    BY <1>3, <2>5 DEF Recalls, Recall
<1> QED
  BY <1>6, <1>8, <1>9

(***************************************************************************)
(* How a machine comes to drive another: its user moves there or takes the *)
(* pointer back, and the Enter is on its way, or the other is lost.        *)
(***************************************************************************)
LEMMA DriveTold ==
    ASSUME DeskInv, NEW m \in Machine, NEW p \in Machine \ {m}, UserStep(m),
           Driving(m, p)'
    PROVE  \/ Recalled(p, m)'
           \/ \E s \in Seq(InputMsg) :
                 /\ net'[<<m, p>>] = net[<<m, p>>] \o s
                 /\ LastEnter(s) \/ (Driving(m, p) /\ NoLeave(s))
           \/ ~ComesDown(<<p, m>>)
<1>0. /\ PointerInv /\ TypeOK /\ NetInv
      /\ LayoutOK(capq[m], ctl[m].layout, sessions[m])
      /\ <<p, m>> \in Pair /\ <<m, p>> \in Pair
  BY PairType DEF DeskInv, LinkInv, LayoutInv, PointerInv
<1>1. PICK d \in Working, x \in Place :
          /\ Acts(ctl[m], d) /\ d.layout = ctl[m].layout
          /\ Visits(ctl[m], d) /\ PerformAt(m, d, x)
  BY <1>0, UserTells DEF TellsAt
<1>2. Perform(m, d) /\ capq' = capq
  BY <1>0, <1>1, UserTypes DEF PerformAt
<1>3. ctl'[m].peer = d.peer /\ ctl'[m].idle = d.idle
  <2> DEFINE f == [d EXCEPT !.out = Nothing]
  <2>1. f.peer = d.peer /\ f.idle = d.idle
    BY DEF Working, ControllerWith
  <2>2. ctl'[m] = f
    BY <1>0, <1>2 DEF Perform, TypeOK
  <2> QED
    BY <2>1, <2>2
<1>4. d.peer = p /\ ~d.idle
  BY <1>3 DEF Driving
<1>5. LastEnter(d.out.sent[p]) \/ (Driving(m, p) /\ NoLeave(d.out.sent[p]))
  <2>1. \/ LastEnter(d.out.sent[d.peer])
        \/ ctl[m].peer = d.peer /\ ~ctl[m].idle /\ NoLeave(d.out.sent[d.peer])
    BY <1>1, <1>4 DEF Visits
  <2>2. \/ LastEnter(d.out.sent[p])
        \/ ctl[m].peer = p /\ ~ctl[m].idle /\ NoLeave(d.out.sent[p])
    BY <1>4, <2>1
  <2> QED
    BY <2>2 DEF Driving
<1>6. d.out.sent[p] \in Seq(InputMsg)
  BY SpokenType
<1>7. net'[<<m, p>>] = IF Reaches(m, p) THEN net[<<m, p>>] \o d.out.sent[p]
                       ELSE net[<<m, p>>]
  <2> DEFINE y == <<m, p>>
  <2>1. y \in Pair /\ y[1] = m /\ y[2] = p
    BY <1>0
  <2> HIDE DEF y
  <2>2. net'[y] = IF Reaches(m, p) THEN net[y] \o d.out.sent[p] ELSE net[y]
    BY <1>0, <1>2, <2>1, Performs
  <2> QED
    BY <2>2 DEF y
<1>8. CASE Reaches(m, p)
  BY <1>5, <1>6, <1>7, <1>8
<1>9. CASE ~Reaches(m, p) /\ ComesDown(<<p, m>>)
  <2> DEFINE y == <<p, m>>
  <2>1. y \in Pair /\ y[1] = p
    BY <1>0
  <2>2. p \in ctl[m].layout
    BY <1>1, <1>4, ControllerAssumption DEF Acts, OnDesk
  <2>3. net'[y] = net[y]
    <3> HIDE DEF y
    <3> QED
      BY <1>0, <1>2, <2>1, NetAfterPerform
  <2>4. UNCHANGED <<up, active>>
    BY UserTypes, <1>0 DEF links
  <2>5. CASE p \in sessions[m] /\ p \in active[m] /\ {m, p} \notin up
    BY <2>4, <2>5 DEF Recalled, Stale
  <2>6. CASE ~(p \in sessions[m] /\ p \in active[m] /\ {m, p} \notin up)
    <3>1. Called(p, m)
      BY <1>9, <2>2, <2>6, CutOffCalls DEF Reaches
    <3>2. Called(p, m)'
      BY <1>2, <2>3, <3>1 DEF Called
    <3> QED
      BY <3>2 DEF Recalled
  <2> QED
    BY <2>5, <2>6
<1> QED
  BY <1>8, <1>9

(* No other step starts it. *)
LEMMA DriveKept ==
    ASSUME PointerInv, NEW m \in Machine, NEW p \in Machine, Driving(m, p)',
           [Next]_vars, ~UserStep(m)
    PROVE  Driving(m, p) /\ ~Restart(m)
<1>0. TypeOK /\ ctl[m] \in ControllerState /\ OnDesk(ctl[m]) /\ ctl[m] \in Working
  BY OwnController DEF PointerInv
<1>1. ASSUME NEW d \in Working, Perform(m, d)
      PROVE  d.peer = p /\ ~d.idle
  <2> DEFINE f == [d EXCEPT !.out = Nothing]
  <2>1. f.peer = d.peer /\ f.idle = d.idle
    BY DEF Working, ControllerWith
  <2>2. ctl'[m] = f
    BY <1>0, <1>1 DEF Perform, TypeOK
  <2> QED
    BY <2>1, <2>2 DEF Driving
<1>2. ~Restart(m)
  <2>1. Restart(m) => ctl'[m].peer = NoMachine
    BY <1>0 DEF Restart, NewController, TypeOK
  <2> QED
    BY <2>1, ControllerAssumption DEF Driving
<1>3. CASE ReportDue(m)
  <2> DEFINE d == SendWaitingReport(ctl[m])
  <2>1. d \in Working /\ Silent(ctl[m], d) /\ Perform(m, d)
    BY <1>0, <1>3, WaitingStays, WaitingSilent DEF ReportDue, Stays
  <2> HIDE DEF d
  <2> QED
    BY <1>1, <1>2, <2>1 DEF Silent, Driving
<1>4. CASE Capturing(m)
  <2> DEFINE e == Head(capq[m])
             d == Handled(ctl[m], e)
  <2>1. capq[m] # <<>> /\ Perform(m, d)
    BY <1>4 DEF Capturing, PerformAt
  <2>2. e \in CaptureEvent
    BY <1>0, <2>1, CaptureHead
  <2>3. d \in Working /\ StillDrives(ctl[m], d, e)
    BY <1>0, <2>2, HandledTurns, HandledDrives DEF Turns
  <2> HIDE DEF d
  <2> QED
    BY <1>1, <1>2, <2>1, <2>3 DEF StillDrives, Driving
<1>5. ASSUME NEW x \in Machine \ {m}, UserStep(x) \/ ReportDue(x) \/ Capturing(x)
      PROVE  ctl'[m] = ctl[m]
  <2>1. PICK d \in Working : Perform(x, d)
    BY <1>5, ThreadActs
  <2> QED
    BY <1>0, <2>1, Performs
<1>6. ASSUME NEW x \in Machine \ {m}, Restart(x)
      PROVE  ctl'[m] = ctl[m]
  BY <1>0, <1>6 DEF Restart, TypeOK
<1>7. ASSUME NEW x \in Machine, RunLoop(x) \/ Injecting(x)
      PROVE  ctl' = ctl
  BY <1>7, OtherSteps DEF OtherStep
<1>8. ASSUME NEW w \in Pair, Connecting(w[1], w[2])
      PROVE  ctl' = ctl
  BY <1>8 DEF Connecting, LinkFails, EndNoticed, Reconnect
<1>9. CASE Rest \/ UNCHANGED vars
  BY <1>2, <1>9 DEF Rest, vars, Driving
<1>10. ctl'[m] = ctl[m] => Driving(m, p)
  BY DEF Driving
<1> QED
  BY <1>2, <1>3, <1>4, <1>5, <1>6, <1>7, <1>8, <1>9, <1>10 DEF Next

-----------------------------------------------------------------------------

(***************************************************************************)
(* Of two machines that drive each other, one is about to be called back.  *)
(*                                                                         *)
(* Unaware: the session m's run loop works with was replaced by the p that *)
(* dials, which m has yet to hear.  What m says is lost; and a p that      *)
(* drives m is called back itself, or has said so by the new connection.   *)
(***************************************************************************)
Clash ==
    \A m \in Machine : \A p \in Machine \ {m} :
        Driving(m, p) /\ Driving(p, m) => Recalled(p, m) \/ Recalled(m, p)

EnterNow(q) ==
    \E i \in 1 .. Len(q) :
        q[i].type = "Enter" /\ \A j \in (i + 1) .. Len(q) : q[j].type # "Connected"

UnawareTold(m, p) ==
    Driving(p, m) /\ ~ComesDown(<<p, m>>) =>
        Recalled(m, p) \/ EnterNow(net[<<p, m>>])

Unaware == \A m \in Machine : \A p \in Machine \ {m} : UnawareTold(m, p)

ClashInv == DeskInv /\ Clash /\ Unaware

(* An Enter behind what is on its way to a machine calls that one back. *)
LEMMA EnterSent ==
    ASSUME TypeOK, NEW m \in Machine, NEW p \in Machine \ {m}, NEW s \in Seq(InputMsg),
           net'[<<m, p>>] = net[<<m, p>>] \o s, LastEnter(s)
    PROVE  EnterNow(net'[<<m, p>>])
<1> DEFINE q == net[<<m, p>>]
           r == q \o s
<1>1. q \in Seq(Message)
  BY PairType DEF TypeOK
<1>2. PICK i \in 1 .. Len(s) : s[i].type = "Enter"
  BY DEF LastEnter
<1>3. s \in Seq(Message) /\ \A j \in 1 .. Len(s) : s[j].type # "Connected"
  BY InputQuiet DEF News
<1> HIDE DEF q
<1>4. /\ Len(q) + i \in 1 .. Len(r) /\ r[Len(q) + i] = s[i]
      /\ \A j \in (Len(q) + 1) .. Len(r) : r[j] = s[j - Len(q)] /\ j - Len(q) \in 1 .. Len(s)
  BY <1>1, <1>3
<1>5. net'[<<m, p>>] = r
  BY DEF q
<1> DEFINE k == Len(q) + i
<1>6. \A j \in (k + 1) .. Len(r) : j \in (Len(q) + 1) .. Len(r)
  BY <1>1, <1>3
<1> HIDE DEF r, k
<1>7. k \in 1 .. Len(r) /\ r[k].type = "Enter"
  BY <1>2, <1>4 DEF k
<1>8. \A j \in (k + 1) .. Len(r) : r[j].type # "Connected"
  BY <1>3, <1>4, <1>6
<1> QED
  BY <1>5, <1>7, <1>8 DEF EnterNow

LEMMA EnterCalls ==
    ASSUME NEW m, NEW p, EnterNow(net[<<m, p>>])
    PROVE  Called(m, p)
BY DEF EnterNow, Called, Recalls, Recall

LEMMA EnterCallsNext ==
    ASSUME NEW m, NEW p, EnterNow(net'[<<m, p>>])
    PROVE  Recalled(m, p)'
BY DEF EnterNow, Called, Recalled, Recalls, Recall

(* p, which has noticed that the old session ended, replaces that of m. *)
LEMMA ReplacedCalls ==
    ASSUME DeskInv, [Next]_vars, NEW m \in Machine, NEW p \in Machine \ {m},
           Reconnect(p, m), Driving(p, m)'
    PROVE  Recalled(m, p)'
<1>0. PointerInv /\ NetInv /\ TypeOK
  BY DEF DeskInv, LinkInv, PointerInv
<1>1. ctl' = ctl /\ m \notin active[p] /\ ~Reconnect(m, p)
  BY DialsOneWay DEF Reconnect
<1>2. Driving(p, m) /\ m \in ctl[p].layout
  <2>1. Driving(p, m)
    BY <1>1 DEF Driving
  <2> QED
    BY <1>0, <2>1, ControllerAssumption, OwnController DEF Driving, OnDesk
<1>3. Called(m, p)
  BY <1>1, <1>2, CutOffCalls
<1> QED
  BY <1>0, <1>1, <1>3, RecalledStays DEF Recalled

LEMMA ClashHolds ==
    ASSUME ClashInv, [Next]_vars, NEW m \in Machine, NEW p \in Machine \ {m},
           Driving(m, p)', Driving(p, m)'
    PROVE  Recalled(p, m)' \/ Recalled(m, p)'
<1>0. DeskInv /\ PointerInv /\ NetInv /\ TypeOK
  BY DEF ClashInv, DeskInv, LinkInv, PointerInv
<1>1. CASE Reconnect(p, m) \/ Reconnect(m, p)
  BY <1>0, <1>1, ReplacedCalls
<1>2. CASE ~Reconnect(p, m) /\ ~Reconnect(m, p)
  <2>1. Recalled(p, m) => Recalled(p, m)'
    BY <1>0, <1>2, RecalledStays
  <2>2. Recalled(m, p) => Recalled(m, p)'
    BY <1>0, <1>2, RecalledStays
  <2>3. Driving(m, p) /\ Driving(p, m) => Recalled(p, m)' \/ Recalled(m, p)'
    BY <2>1, <2>2 DEF ClashInv, Clash
  <2>4. ASSUME NEW x \in Machine, NEW y \in Machine \ {x}, UserStep(x),
               Driving(x, y)', Driving(y, x)',
               Recalled(x, y) => Recalled(x, y)', Recalled(y, x) => Recalled(y, x)'
        PROVE  Recalled(y, x)' \/ Recalled(x, y)' \/ (Driving(x, y) /\ Driving(y, x))
    <3>1. ctl'[y] = ctl[y]
      <4>1. PICK d \in Working : Perform(x, d)
        BY <1>0, <2>4, ThreadActs
      <4> QED
        BY <1>0, <4>1, Performs
    <3>2. Driving(y, x)
      BY <2>4, <3>1 DEF Driving
    <3>3. \/ Recalled(y, x)'
          \/ \E s \in Seq(InputMsg) :
                /\ net'[<<x, y>>] = net[<<x, y>>] \o s
                /\ LastEnter(s) \/ (Driving(x, y) /\ NoLeave(s))
          \/ ~ComesDown(<<y, x>>)
      BY <1>0, <2>4, DriveTold
    <3>4. ASSUME NEW s \in Seq(InputMsg), net'[<<x, y>>] = net[<<x, y>>] \o s, LastEnter(s)
          PROVE  Recalled(x, y)'
      BY <1>0, <3>4, EnterSent, EnterCallsNext
    <3>5. ASSUME ~ComesDown(<<y, x>>)
          PROVE  Recalled(x, y) \/ Recalled(y, x)
      <4>1. Recalled(x, y) \/ EnterNow(net[<<y, x>>])
        BY <3>2, <3>5 DEF ClashInv, Unaware, UnawareTold
      <4> QED
        BY <4>1, EnterCalls DEF Recalled
    <3> QED
      BY <2>4, <3>2, <3>3, <3>4, <3>5
  <2>5. CASE UserStep(m)
    BY <2>1, <2>2, <2>3, <2>4, <2>5
  <2>6. CASE UserStep(p)
    BY <2>1, <2>2, <2>3, <2>4, <2>6
  <2>7. CASE ~UserStep(m) /\ ~UserStep(p)
    <3>1. Driving(m, p) /\ Driving(p, m)
      BY <1>0, <2>7, DriveKept
    <3> QED
      BY <2>3, <3>1
  <2> QED
    BY <2>5, <2>6, <2>7
<1> QED
  BY <1>1, <1>2

(* The Enter said by the new connection is the last thing heard of it. *)
LEMMA EnterNowKept ==
    ASSUME TypeOK, NEW x \in Pair, EnterNow(net[x]),
           QuietStep(x) \/ Ends(x)
    PROVE  EnterNow(net'[x]) \/ ComesDown(x)'
<1> DEFINE q == net[x]
           r == net'[x]
<1>0. q \in Seq(Message) /\ Len(q) \in Nat
  BY DEF TypeOK
<1>1. PICK i \in 1 .. Len(q) :
          q[i].type = "Enter" /\ \A j \in (i + 1) .. Len(q) : q[j].type # "Connected"
  BY DEF EnterNow
<1>2. CASE Unheard(x)
  BY <1>2 DEF Unheard
<1>3. ASSUME NEW s \in Seq(Message), r = q \o s,
             \A j \in 1 .. Len(s) : s[j].type # "Connected"
      PROVE  EnterNow(r)
  <2> HIDE DEF q, r
  <2>1. /\ Len(r) = Len(q) + Len(s) /\ Len(s) \in Nat
        /\ \A j \in 1 .. Len(q) : r[j] = q[j]
        /\ \A j \in (Len(q) + 1) .. Len(r) : r[j] = s[j - Len(q)] /\ j - Len(q) \in 1 .. Len(s)
    BY <1>0, <1>3
  <2>2. i \in 1 .. Len(r) /\ r[i].type = "Enter"
    BY <1>0, <1>1, <2>1
  <2>3. \A j \in (i + 1) .. Len(r) : j \in (i + 1) .. Len(q) \/ j \in (Len(q) + 1) .. Len(r)
    BY <1>0, <1>1, <2>1
  <2>4. \A j \in (i + 1) .. Len(q) : j \in 1 .. Len(q)
    BY <1>0, <1>1
  <2>5. \A j \in (i + 1) .. Len(r) : r[j].type # "Connected"
    BY <1>1, <1>3, <2>1, <2>3, <2>4
  <2> QED
    BY <2>2, <2>5 DEF EnterNow
<1>4. CASE Spoken(x)
  BY <1>3, <1>4 DEF Spoken, News
<1>5. CASE Ends(x)
  <2> DEFINE s == << [type |-> "Disconnected"] >>
  <2>1. s \in Seq(Message) /\ \A j \in 1 .. Len(s) : s[j].type # "Connected"
    BY DEF Message
  <2>2. r = q \o s
    BY <1>5 DEF Ends
  <2> HIDE DEF s, q, r
  <2>3. EnterNow(r)
    BY <1>3, <2>1, <2>2
  <2> QED
    BY <2>3 DEF r
<1>6. CASE HeardNext(x)
  <2>1. r = Tail(q) /\ q # <<>>
    BY <1>6 DEF HeardNext
  <2>2. Len(r) = Len(q) - 1 /\ \A j \in 1 .. Len(r) : r[j] = q[j + 1]
    BY <1>0, <2>1
  <2>3. ComesDown(x)' <=> ConnectsDown(r, sessions'[x[2]], x[1])
    BY DEF ComesDown
  <2> HIDE DEF q, r
  <2>4. CASE i = 1
    <3>1. \A n \in 1 .. Len(r) : n + 1 \in (i + 1) .. Len(q)
      BY <1>0, <2>2, <2>4
    <3>2. \A n \in 1 .. Len(r) : r[n].type # "Connected"
      BY <1>1, <2>2, <3>1
    <3> QED
      BY <2>3, <3>2 DEF ConnectsDown
  <2>5. CASE i # 1
    <3>1. i - 1 \in 1 .. Len(r) /\ (i - 1) + 1 = i
      BY <1>0, <1>1, <2>2, <2>5
    <3>2. r[i - 1].type = "Enter"
      BY <1>1, <2>2, <3>1
    <3>3. \A j \in ((i - 1) + 1) .. Len(r) : j + 1 \in (i + 1) .. Len(q) /\ j \in 1 .. Len(r)
      BY <1>0, <1>1, <2>2
    <3>4. \A j \in ((i - 1) + 1) .. Len(r) : r[j].type # "Connected"
      BY <1>1, <2>2, <3>3
    <3>5. EnterNow(r)
      BY <3>1, <3>2, <3>4 DEF EnterNow
    <3> QED
      BY <3>5 DEF r
  <2> QED
    BY <2>4, <2>5
<1> QED
  BY <1>2, <1>4, <1>5, <1>6 DEF QuietStep

LEMMA UnawareHolds ==
    ASSUME ClashInv, [Next]_vars, NEW m \in Machine, NEW p \in Machine \ {m}
    PROVE  UnawareTold(m, p)'
<1> DEFINE x == <<p, m>>
<1>g. SUFFICES ASSUME Driving(p, m)', ~ComesDown(x)'
               PROVE  Recalled(m, p)' \/ EnterNow(net'[x])
  BY DEF UnawareTold
<1>0. /\ DeskInv /\ LinkInv /\ PointerInv /\ NetInv /\ TypeOK /\ UnawareTold(m, p)
      /\ x \in Pair /\ x[1] = p /\ x[2] = m
      /\ <<m, p>> \in Pair
  BY PairType DEF ClashInv, Unaware, DeskInv, LinkInv, PointerInv
<1>1. NetOK(x) /\ NetStep(x)
  BY <1>0, NetSteps DEF NetInv
<1>2. Dials(m, p) => ComesDown(x)'
  <2>1. Dials(m, p) => ComesDown(x)
    BY <1>0 DEF NetInv
  <2>2. Dials(m, p) => ~Reconnect(p, m)
    BY DialsOneWay DEF Reconnect
  <2> HIDE DEF x
  <2> QED
    BY <1>0, <1>1, <2>1, <2>2, DownKept
<1>3. ~Dials(m, p) /\ ~Reconnect(m, p)
  BY <1>g, <1>2 DEF Reconnect
<1>4. CASE Reconnect(p, m)
  BY <1>0, <1>g, <1>4, ReplacedCalls
<1>5. ASSUME QuietStep(x) \/ Ends(x), EnterNow(net[x])
      PROVE  EnterNow(net'[x])
  <2> HIDE DEF x
  <2> QED
    BY <1>0, <1>g, <1>5, EnterNowKept
<1>6. CASE ~Reconnect(p, m)
  <2>1. ~ComesDown(x)
    <3> HIDE DEF x
    <3> QED
      BY <1>0, <1>1, <1>6, <1>g, DownKept
  <2>2. Recalled(m, p) => Recalled(m, p)'
    BY <1>0, <1>3, <1>g, RecalledStays
  <2>3. ASSUME Driving(p, m), QuietStep(x) \/ Ends(x) \/ Stale(p, m)'
        PROVE  Recalled(m, p)' \/ EnterNow(net'[x])
    <3>1. Recalled(m, p) \/ EnterNow(net[x])
      BY <1>0, <2>1, <2>3 DEF UnawareTold
    <3> HIDE DEF x
    <3> QED
      BY <1>5, <2>2, <2>3, <3>1 DEF Recalled
  <2>4. CASE \E w \in Pair : Connecting(w[1], w[2])
    <3>1. PICK a \in Machine, b \in Machine : a # b /\ Connecting(a, b)
      BY <2>4, PairParts
    <3>2. /\ EndNoticed(a, b) => Ends(x) \/ Unheard(x)
          /\ LinkFails(a, b) => x \in {<<a, b>>, <<b, a>>} \/ Unheard(x)
          /\ Reconnect(a, b) => x \in {<<a, b>>, <<b, a>>} \/ Unheard(x)
      <4> HIDE DEF x
      <4> QED
        BY <1>0, <3>1, LinkNet
    <3>3. x \in {<<a, b>>, <<b, a>>} => (a = p /\ b = m) \/ (a = m /\ b = p)
      OBVIOUS
    <3>4. Driving(p, m)
      BY <1>g, <3>1 DEF Driving, Connecting, LinkFails, EndNoticed, Reconnect
    <3>5. LinkFails(a, b) /\ {a, b} = {p, m} => Stale(p, m)'
      <4>1. {m, p} \in up => m \in active[p]
        <5> DEFINE y == <<m, p>>
        <5>1. y \in Pair /\ y[1] = m /\ y[2] = p
          BY <1>0
        <5> HIDE DEF y
        <5> QED
          BY <1>0, <5>1 DEF NetInv
      <4> QED
        BY <4>1 DEF LinkFails, Stale
    <3>6. QuietStep(x) \/ Ends(x) \/ Stale(p, m)'
      <4>1. (a = p /\ b = m) \/ (a = m /\ b = p) => {a, b} = {p, m}
        OBVIOUS
      <4> HIDE DEF x
      <4> QED
        BY <1>3, <1>6, <3>1, <3>2, <3>3, <3>5, <4>1 DEF Connecting, QuietStep
    <3> QED
      BY <2>3, <3>4, <3>6
  <2>5. CASE \E y \in Machine : Restart(y)
    <3>1. PICK y \in Machine : Restart(y)
      BY <2>5
    <3>2. y # p
      BY <1>0, <1>g, <3>1, RestartDrivesNone
    <3>3. Driving(p, m)
      BY <1>0, <1>g, <3>1, <3>2 DEF Driving, Restart, TypeOK
    <3> HIDE DEF x
    <3>4. Forgets(x) \/ Unheard(x)
      BY <1>0, <3>1, <3>2, RestartNet
    <3>5. Forgets(x) => ComesDown(x)'
      BY DEF Forgets, ComesDown, ConnectsDown
    <3> QED
      BY <1>g, <2>3, <3>3, <3>4, <3>5 DEF QuietStep
  <2>6. CASE /\ ~\E w \in Pair : Connecting(w[1], w[2])
             /\ ~\E y \in Machine : Restart(y)
    <3>1. QuietStep(x)
      <4> HIDE DEF x
      <4> QED
        BY <1>0, <2>6, QuietNet
    <3>2. Driving(p, m) => Recalled(m, p)' \/ EnterNow(net'[x])
      BY <2>3, <3>1
    <3>3. CASE UserStep(p)
      <4>1. ComesDown(<<m, p>>)
        <5> DEFINE y == <<m, p>>
        <5>1. y \in Pair /\ y[1] = m /\ y[2] = p
          BY <1>0
        <5>2. Dials(p, m)
          BY <1>3, DialsOther
        <5> HIDE DEF y
        <5> QED
          BY <1>0, <5>1, <5>2 DEF NetInv, y
      <4>2. \/ Recalled(m, p)'
            \/ \E s \in Seq(InputMsg) :
                  /\ net'[<<p, m>>] = net[<<p, m>>] \o s
                  /\ LastEnter(s) \/ (Driving(p, m) /\ NoLeave(s))
        BY <1>0, <1>g, <3>3, <4>1, DriveTold
      <4>3. ASSUME NEW s \in Seq(InputMsg), net'[<<p, m>>] = net[<<p, m>>] \o s,
                   LastEnter(s)
            PROVE  EnterNow(net'[x])
        BY <1>0, <4>3, EnterSent
      <4> QED
        BY <3>2, <4>2, <4>3
    <3>4. CASE ~UserStep(p)
      BY <1>0, <1>g, <3>2, <3>4, DriveKept
    <3> QED
      BY <3>3, <3>4
  <2> QED
    BY <2>4, <2>5, <2>6
<1> QED
  BY <1>4, <1>6

LEMMA ClashInit == Init => ClashInv
<1> SUFFICES ASSUME Init
             PROVE  Clash /\ Unaware
  BY DeskInit DEF ClashInv
<1>1. \A m \in Machine : ctl[m].peer = NoMachine
  BY DEF Init, NewController
<1> QED
  BY <1>1, ControllerAssumption DEF Clash, Unaware, UnawareTold, Driving

LEMMA ClashNext == ClashInv /\ [Next]_vars => ClashInv'
<1>1. ClashInv /\ [Next]_vars => DeskInv'
  BY DeskNext DEF ClashInv
<1>2. ASSUME ClashInv, [Next]_vars, NEW m \in Machine, NEW p \in Machine \ {m}
      PROVE  Driving(m, p)' /\ Driving(p, m)' => Recalled(p, m)' \/ Recalled(m, p)'
  BY <1>2, ClashHolds
<1>3. ClashInv /\ [Next]_vars => Clash'
  BY <1>2 DEF Clash
<1>4. ClashInv /\ [Next]_vars => Unaware'
  BY UnawareHolds DEF Unaware
<1> QED
  BY <1>1, <1>3, <1>4 DEF ClashInv

(* Two users may cross the edge at the same moment, and each machine then  *)
(* drives the other; but the Enter each sent is on its way, and hearing it *)
(* takes the pointer home (peer_entered, controller.rs), as a Yield or a   *)
(* lost peer does.  So once everything sent has been heard, no two         *)
(* machines drive each other, restarts and lost connections included.      *)
THEOREM NoTwoDrive == Spec => []NoMutualDriving
<1>1. ASSUME ClashInv, Settled, NEW m \in Machine, NEW p \in Machine,
             Driving(m, p), Driving(p, m)
      PROVE  FALSE
  <2>1. DeskInv /\ OnDesk(ctl[m]) /\ NoMachine \notin Machine
    BY <1>1, ControllerAssumption DEF ClashInv, DeskInv, LinkInv, PointerInv
  <2>2. p \in ctl[m].layout /\ ctl[m].layout = {x \in Machine \ {m} : {m, x} \in up}
    BY <1>1, <2>1, DeskSettles DEF OnDesk, Driving
  <2>3. p # m
    BY <2>2
  <2>4. net[<<p, m>>] = <<>> /\ net[<<m, p>>] = <<>> /\ capq[m] = <<>> /\ capq[p] = <<>>
    BY <1>1, <2>3, PairType DEF Settled
  <2>5. ~Recalled(p, m) /\ ~Recalled(m, p)
    <3>1. ~Stale(m, p) /\ ~Stale(p, m)
      BY <1>1 DEF Stale, Settled
    <3> QED
      BY <2>4, <3>1 DEF Recalled, Called, Recalls
  <2> QED
    BY <1>1, <2>3, <2>5 DEF ClashInv, Clash
<1>2. ClashInv => NoMutualDriving
  BY <1>1 DEF NoMutualDriving
<1>3. Spec => []ClashInv
  BY ClashInit, ClashNext, PTL DEF Spec
<1> QED
  BY <1>2, <1>3, PTL

-----------------------------------------------------------------------------

(***************************************************************************)
(* From a machine that drives p to p's receiver: q is what is on its way   *)
(* to p's run loop, j the injection thread's queue there, and h says that  *)
(* the receiver has m for the driver it lets in.                           *)
(***************************************************************************)
Stops == {"Leave", "Connected", "Disconnected"}

Quiet(q) == \A i \in 1 .. Len(q) : q[i].type \notin Stops

EnterComing(q) ==
    \E i \in 1 .. Len(q) :
        q[i].type = "Enter" /\ \A k \in (i + 1) .. Len(q) : q[k].type \notin Stops

Comes(e, m) == e.type = "Control" /\ e.from = m /\ e.msg.type = "Enter"

Goes(e, m) ==
    \/ e.type = "LocalActivity"
    \/ e.type = "Disconnected" /\ e.peer = m
    \/ e.type = "Control" /\ (IF e.from = m THEN e.msg.type = "Leave"
                                            ELSE e.msg.type = "Enter")

(* With the first n of its queue handled, the receiver is driven by m. *)
InAfter(j, n, h, m) ==
    \/ h /\ \A k \in 1 .. n : ~Goes(j[k], m)
    \/ \E i \in 1 .. n :
          Comes(j[i], m) /\ \A k \in (i + 1) .. n : ~Goes(j[k], m)

(* ... or local input ends the visit, which m will be told. *)
InOrTold(j, h, m) ==
    \/ InAfter(j, Len(j), h, m)
    \/ \E n \in 0 .. Len(j) - 1 :
          j[n + 1].type = "LocalActivity" /\ InAfter(j, n, h, m)

Awaited(q, j, h, m) == EnterComing(q) \/ (Quiet(q) /\ InOrTold(j, h, m))

LEMMA ComingMore ==
    ASSUME NEW q \in Seq(Message), NEW t \in Seq(Message)
    PROVE  /\ Quiet(t) /\ EnterComing(q) => EnterComing(q \o t)
           /\ Quiet(t) /\ Quiet(q) => Quiet(q \o t)
           /\ EnterComing(t) => EnterComing(q \o t)
<1> DEFINE r == q \o t
           n == Len(q)
<1>1. /\ n \in Nat /\ Len(r) = n + Len(t) /\ Len(t) \in Nat
      /\ \A i \in 1 .. n : r[i] = q[i]
      /\ \A i \in (n + 1) .. Len(r) : r[i] = t[i - n] /\ i - n \in 1 .. Len(t)
      /\ \A i \in 1 .. Len(t) : r[n + i] = t[i] /\ n + i \in 1 .. Len(r)
  OBVIOUS
<1> HIDE DEF r, n
<1>2. ASSUME Quiet(t)
      PROVE  \A k \in (n + 1) .. Len(r) : r[k].type \notin Stops
  BY <1>1, <1>2 DEF Quiet
<1>3. ASSUME Quiet(t), EnterComing(q)
      PROVE  EnterComing(r)
  <2>1. PICK i \in 1 .. n : q[i].type = "Enter"
                            /\ \A k \in (i + 1) .. n : q[k].type \notin Stops
    BY <1>3 DEF EnterComing, n
  <2>2. r[i].type = "Enter" /\ i \in 1 .. Len(r)
    BY <1>1, <2>1
  <2>3. ASSUME NEW k \in (i + 1) .. Len(r)
        PROVE  r[k].type \notin Stops
    <3>1. k \in (i + 1) .. n \/ k \in (n + 1) .. Len(r)
      BY <1>1
    <3>2. k \in (i + 1) .. n => k \in 1 .. n
      BY <1>1
    <3> QED
      BY <1>1, <1>2, <1>3, <2>1, <3>1, <3>2
  <2> QED
    BY <2>2, <2>3 DEF EnterComing
<1>4. ASSUME Quiet(t), Quiet(q)
      PROVE  Quiet(r)
  <2>1. ASSUME NEW k \in 1 .. Len(r)
        PROVE  r[k].type \notin Stops
    <3>1. k \in 1 .. n \/ k \in (n + 1) .. Len(r)
      BY <1>1
    <3>2. k \in 1 .. n => q[k].type \notin Stops
      BY <1>4 DEF Quiet, n
    <3> QED
      BY <1>1, <1>2, <1>4, <3>1, <3>2
  <2> QED
    BY <2>1 DEF Quiet
<1>5. ASSUME EnterComing(t)
      PROVE  EnterComing(r)
  <2>1. PICK i \in 1 .. Len(t) : t[i].type = "Enter"
                            /\ \A k \in (i + 1) .. Len(t) : t[k].type \notin Stops
    BY <1>5 DEF EnterComing
  <2>2. r[n + i].type = "Enter" /\ n + i \in 1 .. Len(r)
    BY <1>1, <2>1
  <2>3. ASSUME NEW k \in ((n + i) + 1) .. Len(r)
        PROVE  r[k].type \notin Stops
    <3>1. k \in (n + 1) .. Len(r) /\ k - n \in (i + 1) .. Len(t)
      BY <1>1
    <3> QED
      BY <1>1, <2>1, <3>1
  <2> QED
    BY <2>2, <2>3 DEF EnterComing
<1> QED
  BY <1>3, <1>4, <1>5 DEF r

LEMMA InputComes ==
    ASSUME NEW t \in Seq(InputMsg)
    PROVE  /\ t \in Seq(Message)
           /\ NoLeave(t) => Quiet(t)
           /\ LastEnter(t) => EnterComing(t)
<1>1. \A i \in 1 .. Len(t) : t[i] \in InputMsg
  OBVIOUS
<1>2. \A x \in InputMsg : x \in Message /\ (x.type # "Leave" => x.type \notin Stops)
  BY DEF InputMsg, Message, Stops
<1>3. t \in Seq(Message)
  BY <1>2
<1>4. NoLeave(t) => Quiet(t)
  BY <1>1, <1>2 DEF NoLeave, Quiet
<1>5. ASSUME LastEnter(t)
      PROVE  EnterComing(t)
  <2>1. PICK i \in 1 .. Len(t) : t[i].type = "Enter"
                                 /\ \A k \in (i + 1) .. Len(t) : t[k].type # "Leave"
    BY <1>5 DEF LastEnter
  <2>2. \A k \in (i + 1) .. Len(t) : k \in 1 .. Len(t)
    OBVIOUS
  <2>3. \A k \in (i + 1) .. Len(t) : t[k].type \notin Stops
    BY <1>1, <1>2, <2>1, <2>2
  <2> QED
    BY <2>1, <2>3 DEF EnterComing
<1> QED
  BY <1>3, <1>4, <1>5

LEMMA ComingHeard ==
    ASSUME NEW q \in Seq(Message), q # <<>>
    PROVE  /\ EnterComing(q) => \/ EnterComing(Tail(q))
                                \/ q[1].type = "Enter" /\ Quiet(Tail(q))
           /\ Quiet(q) => Quiet(Tail(q)) /\ q[1].type \notin Stops
<1> DEFINE r == Tail(q)
<1>1. /\ Len(r) = Len(q) - 1 /\ Len(q) \in Nat \ {0}
      /\ \A i \in 1 .. Len(r) : r[i] = q[i + 1] /\ i + 1 \in 2 .. Len(q)
      /\ \A i \in 2 .. Len(q) : i - 1 \in 1 .. Len(r) /\ q[i] = r[i - 1]
  OBVIOUS
<1> HIDE DEF r
<1>2. ASSUME EnterComing(q)
      PROVE  EnterComing(r) \/ (q[1].type = "Enter" /\ Quiet(r))
  <2>1. PICK i \in 1 .. Len(q) : q[i].type = "Enter"
                                 /\ \A k \in (i + 1) .. Len(q) : q[k].type \notin Stops
    BY <1>2 DEF EnterComing
  <2>2. CASE i = 1
    <3>1. \A k \in 1 .. Len(r) : k + 1 \in (i + 1) .. Len(q)
      BY <1>1, <2>2
    <3> QED
      BY <1>1, <2>1, <2>2, <3>1 DEF Quiet
  <2>3. CASE i # 1
    <3>1. i \in 2 .. Len(q)
      BY <1>1, <2>3
    <3>2. i - 1 \in 1 .. Len(r) /\ r[i - 1].type = "Enter"
      BY <1>1, <2>1, <3>1
    <3>3. ASSUME NEW k \in ((i - 1) + 1) .. Len(r)
          PROVE  r[k].type \notin Stops
      <4>1. k \in 1 .. Len(r) /\ k + 1 \in (i + 1) .. Len(q)
        BY <1>1, <3>1
      <4> QED
        BY <1>1, <2>1, <4>1
    <3> QED
      BY <3>2, <3>3 DEF EnterComing
  <2> QED
    BY <2>2, <2>3
<1>3. ASSUME Quiet(q)
      PROVE  Quiet(r) /\ q[1].type \notin Stops
  <2>1. \A k \in 1 .. Len(r) : k + 1 \in 1 .. Len(q)
    BY <1>1
  <2>2. 1 \in 1 .. Len(q)
    BY <1>1
  <2> QED
    BY <1>1, <1>3, <2>1, <2>2 DEF Quiet
<1> QED
  BY <1>2, <1>3 DEF r

LEMMA InMore ==
    ASSUME NEW j \in Seq(InjectEntry), NEW e, NEW h \in BOOLEAN, NEW m
    PROVE  LET r == j \o <<e>>
           IN  /\ \A n \in 0 .. Len(j) : InAfter(j, n, h, m) => InAfter(r, n, h, m)
               /\ InAfter(j, Len(j), h, m) /\ ~Goes(e, m) => InAfter(r, Len(r), h, m)
               /\ Comes(e, m) => InAfter(r, Len(r), h, m)
<1> DEFINE r == j \o <<e>>
           l == Len(j)
<1>1. /\ l \in Nat /\ Len(r) = l + 1 /\ r[l + 1] = e
      /\ \A k \in 1 .. l : r[k] = j[k]
  OBVIOUS
<1> HIDE DEF r, l
<1>2. ASSUME NEW n \in 0 .. l, InAfter(j, n, h, m)
      PROVE  InAfter(r, n, h, m)
  <2>1. \A k \in 1 .. n : r[k] = j[k]
    BY <1>1
  <2>2. CASE h /\ \A k \in 1 .. n : ~Goes(j[k], m)
    BY <2>1, <2>2 DEF InAfter
  <2>3. CASE \E i \in 1 .. n : Comes(j[i], m) /\ \A k \in (i + 1) .. n : ~Goes(j[k], m)
    <3>1. PICK i \in 1 .. n : Comes(j[i], m) /\ \A k \in (i + 1) .. n : ~Goes(j[k], m)
      BY <2>3
    <3>2. \A k \in (i + 1) .. n : k \in 1 .. n
      BY <1>1
    <3>3. Comes(r[i], m) /\ \A k \in (i + 1) .. n : ~Goes(r[k], m)
      BY <2>1, <3>1, <3>2
    <3> QED
      BY <3>3 DEF InAfter
  <2> QED
    BY <1>2, <2>2, <2>3 DEF InAfter
<1>3. ASSUME InAfter(j, l, h, m), ~Goes(e, m)
      PROVE  InAfter(r, l + 1, h, m)
  <2>1. InAfter(r, l, h, m)
    BY <1>1, <1>2, <1>3
  <2>2. ~Goes(r[l + 1], m)
    BY <1>1, <1>3
  <2>3. CASE h /\ \A k \in 1 .. l : ~Goes(r[k], m)
    <3>1. \A k \in 1 .. l + 1 : k \in 1 .. l \/ k = l + 1
      BY <1>1
    <3>2. \A k \in 1 .. l + 1 : ~Goes(r[k], m)
      BY <2>2, <2>3, <3>1
    <3> QED
      BY <2>3, <3>2 DEF InAfter
  <2>4. CASE \E i \in 1 .. l : Comes(r[i], m) /\ \A k \in (i + 1) .. l : ~Goes(r[k], m)
    <3>1. PICK i \in 1 .. l : Comes(r[i], m) /\ \A k \in (i + 1) .. l : ~Goes(r[k], m)
      BY <2>4
    <3>2. i \in 1 .. l + 1 /\ \A k \in (i + 1) .. l + 1 : k \in (i + 1) .. l \/ k = l + 1
      BY <1>1
    <3>3. \A k \in (i + 1) .. l + 1 : ~Goes(r[k], m)
      BY <2>2, <3>1, <3>2
    <3> QED
      BY <3>1, <3>2, <3>3 DEF InAfter
  <2> QED
    BY <2>1, <2>3, <2>4 DEF InAfter
<1>4. ASSUME Comes(e, m)
      PROVE  InAfter(r, l + 1, h, m)
  <2>1. Comes(r[l + 1], m) /\ l + 1 \in 1 .. l + 1 /\ ((l + 1) + 1) .. l + 1 = {}
    BY <1>1, <1>4
  <2> QED
    BY <2>1 DEF InAfter
<1> QED
  BY <1>1, <1>2, <1>3, <1>4 DEF r, l

LEMMA InOrToldMore ==
    ASSUME NEW j \in Seq(InjectEntry), NEW e, NEW h \in BOOLEAN, NEW m
    PROVE  LET r == j \o <<e>>
           IN  /\ InOrTold(j, h, m) /\ (~Goes(e, m) \/ e.type = "LocalActivity")
                    => InOrTold(r, h, m)
               /\ Comes(e, m) => InOrTold(r, h, m)
<1> DEFINE r == j \o <<e>>
           l == Len(j)
<1>1. /\ l \in Nat /\ Len(r) = l + 1 /\ r[l + 1] = e
      /\ \A k \in 1 .. l : r[k] = j[k]
  OBVIOUS
<1>2. /\ \A n \in 0 .. l : InAfter(j, n, h, m) => InAfter(r, n, h, m)
      /\ InAfter(j, l, h, m) /\ ~Goes(e, m) => InAfter(r, Len(r), h, m)
      /\ Comes(e, m) => InAfter(r, Len(r), h, m)
  BY InMore
<1> HIDE DEF r
<1>3. Comes(e, m) => InOrTold(r, h, m)
  BY <1>2 DEF InOrTold
<1>4. ASSUME InAfter(j, l, h, m), ~Goes(e, m) \/ e.type = "LocalActivity"
      PROVE  InOrTold(r, h, m)
  <2>1. CASE ~Goes(e, m)
    BY <1>2, <1>4, <2>1 DEF InOrTold
  <2>2. CASE e.type = "LocalActivity"
    <3>1. l \in 0 .. l /\ l \in 0 .. Len(r) - 1
      BY <1>1
    <3>2. r[l + 1].type = "LocalActivity" /\ InAfter(r, l, h, m)
      BY <1>1, <1>2, <1>4, <2>2, <3>1
    <3> QED
      BY <3>1, <3>2 DEF InOrTold
  <2> QED
    BY <1>4, <2>1, <2>2
<1>5. ASSUME NEW n \in 0 .. l - 1, j[n + 1].type = "LocalActivity", InAfter(j, n, h, m)
      PROVE  InOrTold(r, h, m)
  <2>1. n \in 0 .. l /\ n + 1 \in 1 .. l /\ n \in 0 .. Len(r) - 1
    BY <1>1
  <2>2. r[n + 1].type = "LocalActivity" /\ InAfter(r, n, h, m)
    BY <1>1, <1>2, <1>5, <2>1
  <2> QED
    BY <2>1, <2>2 DEF InOrTold
<1>6. InOrTold(j, h, m) /\ (~Goes(e, m) \/ e.type = "LocalActivity") => InOrTold(r, h, m)
  BY <1>4, <1>5 DEF InOrTold, l
<1> QED
  BY <1>3, <1>6 DEF r

(* The first of the queue handled: g is what h was before. *)
LEMMA InPop ==
    ASSUME NEW j \in Seq(InjectEntry), j # <<>>, NEW g \in BOOLEAN, NEW h \in BOOLEAN, NEW m,
           Comes(j[1], m) => h, g /\ ~Goes(j[1], m) => h,
           NEW n \in 1 .. Len(j), InAfter(j, n, g, m)
    PROVE  InAfter(Tail(j), n - 1, h, m)
<1> DEFINE r == Tail(j)
<1>1. /\ Len(r) = Len(j) - 1 /\ Len(j) \in Nat \ {0} /\ n \in Nat
      /\ \A i \in 1 .. Len(r) : r[i] = j[i + 1]
  OBVIOUS
<1> HIDE DEF r
<1>2. \A k \in 1 .. n - 1 : k + 1 \in 2 .. n /\ r[k] = j[k + 1]
  BY <1>1
<1>3. CASE g /\ \A k \in 1 .. n : ~Goes(j[k], m)
  <2>1. 1 \in 1 .. n /\ \A k \in 2 .. n : k \in 1 .. n
    BY <1>1
  <2>2. h
    BY <1>3, <2>1
  <2>3. \A k \in 1 .. n - 1 : ~Goes(r[k], m)
    BY <1>2, <1>3, <2>1
  <2> QED
    BY <2>2, <2>3 DEF InAfter, r
<1>4. ASSUME NEW i \in 1 .. n, Comes(j[i], m), \A k \in (i + 1) .. n : ~Goes(j[k], m)
      PROVE  InAfter(r, n - 1, h, m)
  <2>1. CASE i = 1
    <3>1. \A k \in 1 .. n - 1 : k + 1 \in (i + 1) .. n
      BY <1>1, <2>1
    <3>2. \A k \in 1 .. n - 1 : ~Goes(r[k], m)
      BY <1>2, <1>4, <3>1
    <3> QED
      BY <1>4, <2>1, <3>2 DEF InAfter
  <2>2. CASE i # 1
    <3>1. i - 1 \in 1 .. n - 1 /\ (i - 1) + 1 = i
      BY <1>1, <2>2
    <3>2. Comes(r[i - 1], m)
      BY <1>2, <1>4, <3>1
    <3>3. ASSUME NEW k \in ((i - 1) + 1) .. n - 1
          PROVE  ~Goes(r[k], m)
      <4>1. k \in 1 .. n - 1 /\ k + 1 \in (i + 1) .. n
        BY <1>1, <3>1
      <4> QED
        BY <1>2, <1>4, <4>1
    <3> QED
      BY <3>1, <3>2, <3>3 DEF InAfter
  <2> QED
    BY <2>1, <2>2
<1> QED
  BY <1>3, <1>4 DEF InAfter, r

LEMMA InOrToldPop ==
    ASSUME NEW j \in Seq(InjectEntry), j # <<>>, NEW g \in BOOLEAN, NEW h \in BOOLEAN, NEW m,
           Comes(j[1], m) => h, g /\ ~Goes(j[1], m) => h,
           InOrTold(j, g, m), ~(g /\ j[1].type = "LocalActivity")
    PROVE  InOrTold(Tail(j), h, m)
<1> DEFINE r == Tail(j)
<1>1. /\ Len(r) = Len(j) - 1 /\ Len(j) \in Nat \ {0}
      /\ \A i \in 1 .. Len(r) : r[i] = j[i + 1]
  OBVIOUS
<1> HIDE DEF r
<1>2. \A n \in 1 .. Len(j) : InAfter(j, n, g, m) => InAfter(r, n - 1, h, m)
  BY InPop DEF r
<1>3. ASSUME InAfter(j, Len(j), g, m)
      PROVE  InOrTold(r, h, m)
  <2>1. Len(j) \in 1 .. Len(j)
    BY <1>1
  <2>2. InAfter(r, Len(r), h, m)
    BY <1>1, <1>2, <1>3, <2>1
  <2> QED
    BY <2>2 DEF InOrTold
<1>4. ASSUME NEW n \in 0 .. Len(j) - 1, j[n + 1].type = "LocalActivity", InAfter(j, n, g, m)
      PROVE  InOrTold(r, h, m)
  <2>1. n # 0
    <3>1. ASSUME n = 0
          PROVE  g
      <4>1. 1 .. n = {}
        BY <3>1
      <4> QED
        BY <1>4, <4>1 DEF InAfter
    <3> QED
      BY <1>4, <3>1
  <2>2. n \in 1 .. Len(j) /\ n - 1 \in 0 .. Len(r) - 1 /\ n \in 1 .. Len(r) /\ (n - 1) + 1 = n
    BY <1>1, <2>1
  <2>3. r[(n - 1) + 1].type = "LocalActivity" /\ InAfter(r, n - 1, h, m)
    BY <1>1, <1>2, <1>4, <2>2
  <2> QED
    BY <2>2, <2>3 DEF InOrTold
<1> QED
  BY <1>3, <1>4 DEF InOrTold, r

(***************************************************************************)
(* m drives p only while p has m for its driver, will have once it has     *)
(* handled what is on its way, or m is about to be called back.            *)
(***************************************************************************)
Visited(m, p) == Awaited(net[<<m, p>>], injq[p], DrivenBy(p, m), m)

VisitsKept ==
    \A m \in Machine : \A p \in Machine \ {m} :
        Driving(m, p) => Recalled(p, m) \/ Visited(m, p)

(* No session table has a peer whose new connection is yet to be heard. *)
EachDown == \A p \in Pair : ComesDown(p)

VisitInv == DeskInv /\ EachDown /\ VisitsKept

(* No machine comes back before its peer has noticed that it was gone. *)
NotReplaced == \A p \in Pair : Reconnect(p[1], p[2]) => p[1] \notin active[p[2]]

(* No machine hears an Enter while a third machine drives it. *)
Uncontested ==
    \A p \in Machine : \A x \in Machine \ {p} :
        OnEnter(p, x) => \A m \in Machine \ {p, x} : ~Driving(m, p)

LEMMA DrivenType ==
    ASSUME TypeOK, NEW m \in Machine, NEW p \in Machine
    PROVE  DrivenBy(p, m) \in BOOLEAN
<1>1. rcv[p] \in R!ReceiverState
  BY DEF TypeOK
<1> QED
  BY <1>1 DEF DrivenBy, R!ReceiverState

LEMMA VisitedMore ==
    ASSUME TypeOK, NEW m \in Machine, NEW p \in Machine \ {m}, Visited(m, p),
           net'[<<m, p>>] = net[<<m, p>>]
             \/ \E t \in Seq(Message) : Quiet(t) /\ net'[<<m, p>>] = net[<<m, p>>] \o t,
           injq'[p] = injq[p]
             \/ \E e \in InjectEntry : /\ ~Goes(e, m) \/ e.type = "LocalActivity"
                                       /\ injq'[p] = injq[p] \o <<e>>,
           DrivenBy(p, m)' = DrivenBy(p, m)
    PROVE  Visited(m, p)'
<1> DEFINE q == net[<<m, p>>]
           j == injq[p]
           r == net'[<<m, p>>]
           l == injq'[p]
           h == DrivenBy(p, m)
<1>0. q \in Seq(Message) /\ j \in Seq(InjectEntry) /\ h \in BOOLEAN
  BY PairType, DrivenType DEF TypeOK
<1>1. Awaited(q, j, h, m)
  BY DEF Visited
<1>2. r = q \/ \E t \in Seq(Message) : Quiet(t) /\ r = q \o t
  OBVIOUS
<1>3. l = j \/ \E e \in InjectEntry : /\ ~Goes(e, m) \/ e.type = "LocalActivity"
                                      /\ l = j \o <<e>>
  OBVIOUS
<1>4. Visited(m, p)' <=> Awaited(r, l, h, m)
  BY DEF Visited
<1> HIDE DEF q, j, r, l, h
<1>5. (EnterComing(q) => EnterComing(r)) /\ (Quiet(q) => Quiet(r))
  BY <1>0, <1>2, ComingMore
<1>6. InOrTold(j, h, m) => InOrTold(l, h, m)
  BY <1>0, <1>3, InOrToldMore
<1> QED
  BY <1>1, <1>4, <1>5, <1>6 DEF Awaited

LEMMA SameDriven ==
    ASSUME TypeOK, NEW x \in Machine, NEW d, NEW pos, PerformAt(x, d, pos)
    PROVE  \A p \in Machine : \A m : DrivenBy(p, m)' = DrivenBy(p, m)
<1> DEFINE y == PointerAfter(pos, d.out)
           r == [rcv[x] EXCEPT !.osPos = y]
<1>1. rcv' = [rcv EXCEPT ![x] = r]
  BY DEF PerformAt
<1> HIDE DEF y
<1>2. rcv[x] \in R!ReceiverState
  BY DEF TypeOK
<1>3. r.driver = rcv[x].driver /\ r.entered = rcv[x].entered
  BY <1>2 DEF R!ReceiverState
<1> HIDE DEF r
<1>4. \A p \in Machine : rcv'[p].driver = rcv[p].driver /\ rcv'[p].entered = rcv[p].entered
  BY <1>1, <1>3 DEF TypeOK
<1> QED
  BY <1>4 DEF DrivenBy

(* The user of some machine acts. *)
LEMMA VisitedByUser ==
    ASSUME VisitInv, NEW m \in Machine, NEW p \in Machine \ {m}, Driving(m, p)',
           NEW x \in Machine, UserStep(x), [Next]_vars,
           ~(Reconnect(p, m) /\ p \in active[m])
    PROVE  Recalled(p, m)' \/ Visited(m, p)'
<1>0. /\ DeskInv /\ PointerInv /\ NetInv /\ TypeOK /\ <<m, p>> \in Pair
      /\ ComesDown(<<p, m>>)
  BY PairType DEF VisitInv, EachDown, DeskInv, LinkInv, PointerInv
<1>1. injq'[p] = injq[p]
        \/ \E e \in InjectEntry : /\ ~Goes(e, m) \/ e.type = "LocalActivity"
                                  /\ injq'[p] = injq[p] \o <<e>>
  <2> DEFINE e == [type |-> "LocalActivity"]
  <2>1. injq'[p] = injq[p] \/ injq'[p] = Append(injq[p], e)
    BY <1>0, UserTypes
  <2>2. injq[p] \in Seq(InjectEntry) /\ e \in InjectEntry /\ e.type = "LocalActivity"
    BY <1>0 DEF TypeOK, InjectEntry
  <2> HIDE DEF e
  <2>3. Append(injq[p], e) = injq[p] \o <<e>>
    BY <2>2
  <2> QED
    BY <2>1, <2>2, <2>3
<1>2. PICK d \in Working, y \in Place : PerformAt(x, d, y)
  BY <1>0, UserActs DEF ActsAt
<1>3. DrivenBy(p, m)' = DrivenBy(p, m)
  BY <1>0, <1>2, SameDriven
<1>4. ASSUME Driving(m, p),
             net'[<<m, p>>] = net[<<m, p>>]
               \/ \E t \in Seq(Message) : Quiet(t) /\ net'[<<m, p>>] = net[<<m, p>>] \o t
      PROVE  Recalled(p, m)' \/ Visited(m, p)'
  <2>1. Recalled(p, m) \/ Visited(m, p)
    BY <1>4 DEF VisitInv, VisitsKept
  <2>2. Recalled(p, m) => Recalled(p, m)'
    BY <1>0, RecalledStays
  <2>3. Visited(m, p) => Visited(m, p)'
    BY <1>0, <1>1, <1>3, <1>4, VisitedMore
  <2> QED
    BY <2>1, <2>2, <2>3
<1>5. CASE x = m
  <2>1. \/ Recalled(p, m)'
        \/ \E s \in Seq(InputMsg) :
              /\ net'[<<m, p>>] = net[<<m, p>>] \o s
              /\ LastEnter(s) \/ (Driving(m, p) /\ NoLeave(s))
    BY <1>0, <1>5, DriveTold
  <2>2. ASSUME NEW s \in Seq(InputMsg), net'[<<m, p>>] = net[<<m, p>>] \o s, LastEnter(s)
        PROVE  Visited(m, p)'
    <3>1. s \in Seq(Message) /\ EnterComing(s) /\ net[<<m, p>>] \in Seq(Message)
      BY <1>0, <2>2, InputComes DEF TypeOK
    <3>2. EnterComing(net[<<m, p>>] \o s)
      BY <3>1, ComingMore
    <3>3. EnterComing(net'[<<m, p>>])
      BY <2>2, <3>2
    <3> QED
      BY <3>3 DEF Visited, Awaited
  <2>3. ASSUME NEW s \in Seq(InputMsg), net'[<<m, p>>] = net[<<m, p>>] \o s,
               Driving(m, p), NoLeave(s)
        PROVE  Recalled(p, m)' \/ Visited(m, p)'
    <3>1. s \in Seq(Message) /\ Quiet(s)
      BY <2>3, InputComes
    <3> QED
      BY <1>4, <2>3, <3>1
  <2> QED
    BY <1>4, <2>1, <2>2, <2>3
<1>6. CASE x # m
  <2>1. ctl'[m] = ctl[m] /\ net'[<<m, p>>] = net[<<m, p>>]
    BY <1>0, <1>2, <1>6, Performs, NetAfterPerform DEF PerformAt
  <2>2. Driving(m, p)
    BY <2>1 DEF Driving
  <2> QED
    BY <1>4, <2>1, <2>2
<1> QED
  BY <1>5, <1>6

(* Some machine's capture thread handles an event, or sends a report. *)
LEMMA VisitedByThread ==
    ASSUME DeskInv, NEW m \in Machine, NEW p \in Machine \ {m}, Driving(m, p)',
           Visited(m, p), NEW x \in Machine, Capturing(x) \/ ReportDue(x)
    PROVE  Visited(m, p)'
<1>0. PointerInv /\ TypeOK /\ <<m, p>> \in Pair /\ injq' = injq
  BY PairType DEF DeskInv, LinkInv, PointerInv, Capturing, ReportDue
<1>1. DrivenBy(p, m)' = DrivenBy(p, m)
  <2>1. CASE Capturing(x)
    BY <1>0, <2>1, SameDriven DEF Capturing
  <2>2. CASE ReportDue(x)
    BY <2>2 DEF ReportDue, DrivenBy
  <2> QED
    BY <2>1, <2>2
<1>2. CASE x # m
  <2>1. PICK d \in Working : Perform(x, d)
    BY <1>0, ThreadActs
  <2>2. net'[<<m, p>>] = net[<<m, p>>]
    BY <1>0, <1>2, <2>1, NetAfterPerform
  <2> QED
    BY <1>0, <1>1, <2>2, VisitedMore
<1>3. CASE x = m
  <2>1. ctl[m] \in ControllerState /\ OnDesk(ctl[m])
    BY <1>0, OwnController
  <2>2. PICK d \in Working : /\ Perform(m, d)
                             /\ d.peer \in Machine /\ ~d.idle => NoLeave(d.out.sent[d.peer])
    <3>1. CASE Capturing(m)
      <4> DEFINE e == Head(capq[m])
                 d == Handled(ctl[m], e)
      <4>1. capq[m] # <<>> /\ Perform(m, d)
        BY <3>1 DEF Capturing, PerformAt
      <4>2. e \in CaptureEvent
        BY <1>0, <4>1, CaptureHead
      <4>3. d \in Working /\ StillDrives(ctl[m], d, e)
        BY <2>1, <4>2, HandledTurns, HandledDrives DEF Turns
      <4> HIDE DEF d
      <4> QED
        BY <4>1, <4>3 DEF StillDrives
    <3>2. CASE ReportDue(m)
      <4> DEFINE d == SendWaitingReport(ctl[m])
      <4>1. d \in Working /\ Silent(ctl[m], d) /\ Perform(m, d)
        BY <1>0, <3>2, OwnController, WaitingStays, WaitingSilent DEF ReportDue, Stays
      <4> HIDE DEF d
      <4>2. \A y \in Machine : NoLeave(d.out.sent[y])
        BY <2>1, <4>1, NoneSent DEF Silent
      <4> QED
        BY <4>1, <4>2
    <3> QED
      BY <1>3, <3>1, <3>2
  <2>3. d.peer = p /\ ~d.idle
    <3> DEFINE f == [d EXCEPT !.out = Nothing]
    <3>1. f.peer = d.peer /\ f.idle = d.idle
      BY DEF Working, ControllerWith
    <3>2. ctl'[m] = f
      BY <1>0, <2>2 DEF Perform, TypeOK
    <3> QED
      BY <3>1, <3>2 DEF Driving
  <2>4. NoLeave(d.out.sent[p]) /\ d.out.sent[p] \in Seq(InputMsg)
    BY <2>2, <2>3 DEF Working, ControllerWith, Output
  <2>5. d.out.sent[p] \in Seq(Message) /\ Quiet(d.out.sent[p])
    BY <2>4, InputComes
  <2>6. net'[<<m, p>>] = net[<<m, p>>] \/ net'[<<m, p>>] = net[<<m, p>>] \o d.out.sent[p]
    BY <1>0, <2>2 DEF Perform
  <2> QED
    BY <1>0, <1>1, <2>5, <2>6, VisitedMore
<1> QED
  BY <1>2, <1>3

(* p hears from m: an Enter reaches the injection thread, and before the   *)
(* next one nothing that would end the visit is heard.                     *)
LEMMA VisitedByHearing ==
    ASSUME TypeOK, NEW m \in Machine, NEW p \in Machine \ {m}, Visited(m, p),
           NEW x \in Machine, Hearing(x), Uncontested, Driving(m, p)
    PROVE  Visited(m, p)'
<1>1. PICK y \in Machine \ {x} : \/ OnConnected(x, y) \/ OnDisconnected(x, y)
                                 \/ OnEnter(x, y) \/ OnYield(x, y) \/ OnInput(x, y)
  BY DEF Hearing
<1>2. PICK type : /\ Hears(y, x, type)
                  /\ \/ type = "Connected" /\ OnConnected(x, y)
                     \/ type = "Disconnected" /\ OnDisconnected(x, y)
                     \/ type = "Enter" /\ OnEnter(x, y)
                     \/ type = "Yield" /\ OnYield(x, y)
                     \/ type \in {"Leave", "Key", "Button"} /\ OnInput(x, y)
  BY <1>1 DEF OnConnected, OnDisconnected, OnEnter, OnYield, OnInput
<1> DEFINE msg == Head(net[<<y, x>>])
<1>3. /\ msg \in Message /\ msg.type = type
      /\ net[<<y, x>>] # <<>> /\ <<y, x>> \in Pair /\ <<m, p>> \in Pair
      /\ net' = [net EXCEPT ![<<y, x>>] = Tail(@)]
      /\ rcv' = rcv
  BY <1>2, HeadOfNet, PairType DEF Hears
<1>4. DrivenBy(p, m)' = DrivenBy(p, m)
  BY <1>3 DEF DrivenBy
(* What is queued for the injection thread. *)
<1>5. \/ injq' = injq /\ type \in {"Connected", "Yield"}
      \/ Queue(injq, x, << [type |-> "Disconnected", peer |-> y] >>) /\ type = "Disconnected"
      \/ Queue(injq, x, << From(y, msg) >>) /\ type \in {"Enter", "Leave", "Key", "Button"}
  BY <1>2 DEF OnConnected, OnDisconnected, OnEnter, OnYield, OnInput
<1>6. From(y, msg) \in InjectEntry /\ [type |-> "Disconnected", peer |-> y] \in InjectEntry
      /\ From(y, msg).type = "Control" /\ From(y, msg).from = y /\ From(y, msg).msg = msg
  BY <1>3 DEF From, InjectEntry
<1>7. CASE x # p
  <2>1. injq'[p] = injq[p]
    BY <1>5, <1>7 DEF Queue, TypeOK
  <2>2. net'[<<m, p>>] = net[<<m, p>>]
    BY <1>3, <1>7 DEF TypeOK
  <2> QED
    BY <1>4, <2>1, <2>2, VisitedMore
<1>8. CASE x = p /\ y # m
  <2>1. net'[<<m, p>>] = net[<<m, p>>]
    BY <1>3, <1>8 DEF TypeOK
  <2>2. type # "Enter"
    BY <1>1, <1>2, <1>8 DEF Uncontested
  <2>3. ~Goes(From(y, msg), m) /\ ~Goes([type |-> "Disconnected", peer |-> y], m)
    BY <1>3, <1>6, <1>8, <2>2 DEF Goes
  <2>4. \/ injq'[p] = injq[p]
        \/ injq'[p] = injq[p] \o << [type |-> "Disconnected", peer |-> y] >>
        \/ injq'[p] = injq[p] \o << From(y, msg) >>
    BY <1>5, <1>8 DEF Queue, TypeOK
  <2> QED
    BY <1>4, <1>6, <2>1, <2>3, <2>4, VisitedMore
<1>9. CASE x = p /\ y = m
  <2> DEFINE q == net[<<m, p>>]
             j == injq[p]
             r == net'[<<m, p>>]
             l == injq'[p]
             h == DrivenBy(p, m)
  <2>1. q \in Seq(Message) /\ j \in Seq(InjectEntry) /\ h \in BOOLEAN
    BY <1>3, DrivenType DEF TypeOK
  <2>2. q # <<>> /\ r = Tail(q) /\ q[1] = msg
    BY <1>3, <1>9 DEF TypeOK
  <2>3. \/ l = j /\ type \in {"Connected", "Yield"}
        \/ type = "Disconnected"
        \/ l = j \o << From(m, msg) >> /\ type \in {"Enter", "Leave", "Key", "Button"}
    BY <1>5, <1>9 DEF Queue, TypeOK
  <2>4. Awaited(q, j, h, m)
    BY DEF Visited
  <2>5. Visited(m, p)' <=> Awaited(r, l, h, m)
    BY <1>4 DEF Visited
  <2>6. q[1].type = type
    BY <1>3, <2>2
  <2>7. Comes(From(m, msg), m) <=> type = "Enter"
    BY <1>3, <1>6, <1>9 DEF Comes
  <2>8. Goes(From(m, msg), m) <=> type = "Leave"
    BY <1>3, <1>6, <1>9 DEF Goes
  <2> HIDE DEF q, j, r, l, h
  <2> HIDE DEF msg
  <2>9. /\ EnterComing(q) => EnterComing(r) \/ (type = "Enter" /\ Quiet(r))
        /\ Quiet(q) => Quiet(r) /\ type \notin Stops
    BY <2>1, <2>2, <2>6, ComingHeard
  <2>10. /\ type = "Enter" => InOrTold(l, h, m)
         /\ InOrTold(j, h, m) /\ type \notin Stops => InOrTold(l, h, m)
    BY <2>1, <2>3, <2>7, <2>8, InOrToldMore DEF Stops
  <2>11. Awaited(r, l, h, m)
    BY <2>4, <2>9, <2>10 DEF Awaited
  <2> QED
    BY <2>5, <2>11
<1> QED
  BY <1>7, <1>8, <1>9

(* The rest of what a run loop does. *)
LEMMA VisitedByRunLoop ==
    ASSUME TypeOK, NEW m \in Machine, NEW p \in Machine \ {m}, Visited(m, p),
           NEW x \in Machine, OnYielded(x) \/ \E d \in dgrams[x] : OnDatagram(x, d)
    PROVE  Visited(m, p)'
<1>1. net' = net /\ rcv' = rcv
  BY DEF OnYielded, OnDatagram
<1>2. DrivenBy(p, m)' = DrivenBy(p, m)
  BY <1>1 DEF DrivenBy
<1>3. CASE OnYielded(x)
  <2>1. injq' = injq
    BY <1>3 DEF OnYielded
  <2> QED
    BY <1>1, <1>2, <2>1, VisitedMore
<1>4. ASSUME NEW d \in dgrams[x], OnDatagram(x, d)
      PROVE  Visited(m, p)'
  <2>1. d \in DatagramType({"Pointer", "Motion"})
    BY DEF TypeOK
  <2>2. injq' = injq \/ (Queue(injq, x, <<d>>) /\ d.type # "Pointer")
    BY <1>4 DEF OnDatagram
  <2>3. d.type # "Pointer" => d \in InjectEntry /\ ~Goes(d, m)
    BY <2>1 DEF DatagramType, InjectEntry, Goes
  <2>4. injq'[p] = injq[p] \/ (d.type # "Pointer" /\ injq'[p] = injq[p] \o <<d>>)
    BY <2>2 DEF Queue, TypeOK
  <2> QED
    BY <1>1, <1>2, <2>3, <2>4, VisitedMore
<1> QED
  BY <1>3, <1>4

LEMMA SelectDriven ==
    ASSUME NEW r \in R!ReceiverState, NEW p \in Machine, NEW msg \in Message
    PROVE  LET d == R!SelectControl(r, p, msg, FALSE)
           IN  /\ msg.type = "Enter" => d.entered /\ d.driver = p
               /\ msg.type # "Enter" => d.driver = r.driver
               /\ msg.type \notin {"Enter", "Leave"} => d.entered = r.entered
               /\ msg.type # "Enter" /\ r.driver # p => d.entered = r.entered
<1> DEFINE o == IF msg.type = "Enter" THEN [r EXCEPT !.driver = p] ELSE r
           d == R!SelectControl(r, p, msg, FALSE)
<1>1. /\ o.driver = IF msg.type = "Enter" THEN p ELSE r.driver
      /\ o.entered = r.entered /\ o \in R!ReceiverState
  BY DEF R!ReceiverState
<1>2. d = IF o.driver = p THEN R!Handle(o, msg, FALSE) ELSE o
  BY DEF R!SelectControl
<1> HIDE DEF o
<1>3. /\ R!StopDriving(o).driver = o.driver /\ R!StopDriving(o).entered = FALSE
      /\ R!Enter(o, msg.seq, msg.pos).driver = o.driver
      /\ R!Enter(o, msg.seq, msg.pos).entered = TRUE
  BY <1>1 DEF R!StopDriving, R!Enter, R!ReleaseAll, R!ReceiverState
<1>4. /\ R!KeyDown(o, msg.key).driver = o.driver
      /\ R!KeyDown(o, msg.key).entered = o.entered
      /\ R!KeyUp(o, msg.key).driver = o.driver
      /\ R!KeyUp(o, msg.key).entered = o.entered
  BY <1>1 DEF R!KeyDown, R!KeyUp, R!ReceiverState
<1>5. /\ R!ButtonDown(o, msg.button, msg.pos, FALSE).driver = o.driver
      /\ R!ButtonDown(o, msg.button, msg.pos, FALSE).entered = o.entered
      /\ R!ButtonUp(o, msg.button, msg.pos).driver = o.driver
      /\ R!ButtonUp(o, msg.button, msg.pos).entered = o.entered
  BY <1>1 DEF R!ButtonDown, R!ButtonUp, R!ReceiverState
<1>6. CASE msg.type = "Enter"
  <2>1. d = R!Enter(o, msg.seq, msg.pos)
    BY <1>1, <1>2, <1>6 DEF R!Handle
  <2> QED
    BY <1>1, <1>3, <1>6, <2>1
<1>7. CASE msg.type = "Leave"
  <2>1. d = IF o.driver = p THEN R!StopDriving(o) ELSE o
    BY <1>2, <1>7 DEF R!Handle
  <2> QED
    BY <1>1, <1>3, <1>7, <2>1
<1>8. CASE msg.type \notin {"Enter", "Leave"}
  <2>1. \/ d = o
        \/ d = R!KeyDown(o, msg.key) \/ d = R!KeyUp(o, msg.key)
        \/ d = R!ButtonDown(o, msg.button, msg.pos, FALSE)
        \/ d = R!ButtonUp(o, msg.button, msg.pos)
    BY <1>2, <1>8 DEF R!Handle
  <2> HIDE DEF d
  <2>2. d.driver = o.driver /\ d.entered = o.entered
    BY <1>4, <1>5, <2>1
  <2> QED
    BY <1>1, <1>8, <2>2 DEF d
<1> QED
  BY <1>6, <1>7, <1>8

(* The injection thread handles an entry that does not end the visit of a  *)
(* machine that drives it now.                                             *)
LEMMA InjectedDriven ==
    ASSUME TypeOK, NEW m \in Machine, NEW p \in Machine, Injecting(p)
    PROVE  /\ injq[p] # <<>> /\ injq'[p] = Tail(injq[p])
           /\ Comes(injq[p][1], m) => DrivenBy(p, m)'
           /\ DrivenBy(p, m) /\ ~Goes(injq[p][1], m) => DrivenBy(p, m)'
<1> DEFINE e == Head(injq[p])
<1>1. injq[p] # <<>> /\ injq' = [injq EXCEPT ![p] = Tail(@)]
  BY DEF Injecting, InjectControl, InjectMotion, InjectDisconnected,
         InjectLocalActivity, Injects
<1>2. injq[p] \in Seq(InjectEntry) /\ rcv[p] \in R!ReceiverState
  BY DEF TypeOK
<1>3. injq[p][1] = e /\ e \in InjectEntry /\ injq'[p] = Tail(injq[p])
  BY <1>1, <1>2 DEF TypeOK
<1>4. CASE InjectControl(p)
  <2> DEFINE r == R!SelectControl(rcv[p], e.from, e.msg, FALSE)
  <2>1. e.type = "Control" /\ rcv' = [rcv EXCEPT ![p] = r]
    BY <1>4 DEF InjectControl, Injects
  <2>2. e.from \in Machine /\ e.msg \in Message
    BY <1>3, <2>1 DEF InjectEntry, DatagramType
  <2>3. /\ e.msg.type = "Enter" => r.entered /\ r.driver = e.from
        /\ e.msg.type # "Enter" => r.driver = rcv[p].driver
        /\ e.msg.type \notin {"Enter", "Leave"} => r.entered = rcv[p].entered
        /\ e.msg.type # "Enter" /\ rcv[p].driver # e.from => r.entered = rcv[p].entered
    BY <1>2, <2>2, SelectDriven
  <2> HIDE DEF r
  <2>4. rcv'[p] = r
    BY <2>1 DEF TypeOK
  <2> HIDE DEF e
  <2>5. Comes(e, m) => r.entered /\ r.driver = m
    BY <2>3 DEF Comes
  <2>6. DrivenBy(p, m) /\ ~Goes(e, m) => r.entered /\ r.driver = m
    BY <2>1, <2>3 DEF Goes, DrivenBy
  <2> QED
    BY <1>1, <1>3, <2>4, <2>5, <2>6 DEF DrivenBy
<1>5. CASE InjectMotion(p)
  <2> DEFINE r == R!SelectMotion(rcv[p], e.from, e.seq, e.pos)
  <2>1. e.type = "Motion" /\ rcv' = [rcv EXCEPT ![p] = r]
    BY <1>5 DEF InjectMotion, Injects
  <2>2. r.driver = rcv[p].driver /\ r.entered = rcv[p].entered
    BY <1>2 DEF R!SelectMotion, R!Motion, R!ReceiverState
  <2> HIDE DEF r
  <2>3. rcv'[p] = r
    BY <2>1 DEF TypeOK
  <2> QED
    BY <1>1, <1>3, <2>1, <2>2, <2>3 DEF DrivenBy, Comes
<1>6. CASE InjectDisconnected(p)
  <2> DEFINE r == R!SelectDisconnected(rcv[p], e.peer)
  <2>1. e.type = "Disconnected" /\ rcv' = [rcv EXCEPT ![p] = r]
    BY <1>6 DEF InjectDisconnected, Injects
  <2>2. rcv[p].driver # e.peer => r = rcv[p]
    BY DEF R!SelectDisconnected
  <2> HIDE DEF r
  <2>3. rcv'[p] = r
    BY <2>1 DEF TypeOK
  <2> QED
    BY <1>1, <1>3, <2>1, <2>2, <2>3 DEF DrivenBy, Comes, Goes
<1>7. CASE InjectLocalActivity(p)
  <2>1. e.type = "LocalActivity"
    BY <1>7 DEF InjectLocalActivity, Injects
  <2> QED
    BY <1>1, <1>3, <2>1 DEF Comes, Goes
<1> QED
  BY <1>4, <1>5, <1>6, <1>7 DEF Injecting

(* While nothing calls a driver back, it and the driven machine are        *)
(* connected and have each other in their session tables.                  *)
LEMMA DrivesConnected ==
    ASSUME DeskInv, NEW m \in Machine, NEW p \in Machine \ {m}, ctl[m].peer = p,
           ~Recalled(p, m)
    PROVE  p \in active[m] /\ {m, p} \in up /\ m \in active[p]
<1> DEFINE x == <<m, p>>
<1>0. PointerInv /\ NetInv /\ OnDesk(ctl[m]) /\ x \in Pair /\ x[1] = m /\ x[2] = p
  BY PairType DEF DeskInv, LinkInv, PointerInv
<1>1. p \in ctl[m].layout
  BY <1>0, ControllerAssumption DEF OnDesk
<1>2. p \in active[m]
  BY <1>1, CutOffCalls DEF Recalled
<1>3. {m, p} \in up
  BY <1>2 DEF Recalled, Stale
<1> HIDE DEF x
<1> QED
  BY <1>0, <1>2, <1>3 DEF NetInv

LEMMA BothConnected ==
    ASSUME DeskInv, NEW m \in Machine, NEW p \in Machine \ {m}, ctl[m].peer = p,
           ~Recalled(p, m), Quiet(net[<<m, p>>])
    PROVE  Reaches(p, m)
<1> DEFINE x == <<m, p>>
           q == net[x]
           T == sessions[p]
<1>0. PointerInv /\ NetInv /\ x \in Pair /\ x[1] = m /\ x[2] = p
  BY PairType DEF DeskInv, LinkInv, PointerInv
<1>1. q \in Seq(Message) /\ Len(q) \in Nat
  BY <1>0 DEF PointerInv, TypeOK
<1>2. {m, p} \in up /\ m \in active[p]
  BY DrivesConnected
<1>3. {p, m} = {m, p}
  OBVIOUS
<1>4. UpAfter(q, Len(q), T, m)
  <2> HIDE DEF x
  <2> QED
    BY <1>0, <1>2 DEF NetInv, NetOK
<1>5. NoneComing(p, m) <=> \A i \in DOMAIN q : q[i].type # "Connected"
  BY DEF NoneComing
<1> HIDE DEF x, q, T
<1>6. \A i \in 1 .. Len(q) : q[i].type # "Connected"
  BY DEF Quiet, Stops, q, x
<1>7. \A i \in 0 .. Len(q) : i = 0 \/ i \in 1 .. Len(q)
  BY <1>1
<1>8. m \in T
  BY <1>4, <1>6, <1>7 DEF UpAfter
<1>9. DOMAIN q = 1 .. Len(q)
  BY <1>1
<1> QED
  BY <1>2, <1>3, <1>5, <1>6, <1>8, <1>9 DEF Reaches, T

(* Some machine's injection thread handles an entry: if local input ends   *)
(* the visit, the driver is told.                                          *)
LEMMA VisitedByInjecting ==
    ASSUME DeskInv, NEW m \in Machine, NEW p \in Machine \ {m}, Driving(m, p),
           Visited(m, p), ~Recalled(p, m), NEW x \in Machine, Injecting(x)
    PROVE  Recalled(p, m)' \/ Visited(m, p)'
<1>0. PointerInv /\ TypeOK /\ <<m, p>> \in Pair /\ <<p, m>> \in Pair
      /\ net[<<m, p>>] \in Seq(Message) /\ net[<<p, m>>] \in Seq(Message)
  BY PairType DEF DeskInv, LinkInv, PointerInv, TypeOK
<1>1. CASE x # p
  <2>1. injq'[p] = injq[p]
    BY <1>0, <1>1 DEF Injecting, InjectControl, InjectMotion, InjectDisconnected,
                      InjectLocalActivity, Injects, TypeOK
  <2>2. rcv'[p] = rcv[p]
    BY <1>0, <1>1 DEF Injecting, InjectControl, InjectMotion, InjectDisconnected,
                      InjectLocalActivity, Injects, TypeOK
  <2>3. DrivenBy(p, m)' = DrivenBy(p, m)
    BY <2>2 DEF DrivenBy
  <2>4. net'[<<m, p>>] = net[<<m, p>>] \/ net'[<<m, p>>] = net[<<m, p>>] \o << YieldMsg >>
    BY <1>0, InjectingSends
  <2> DEFINE t == << YieldMsg >>
  <2>5. t \in Seq(Message) /\ Quiet(t)
    <3>1. YieldMsg \in Message /\ YieldMsg.type = "Yield"
      BY DEF YieldMsg, Message
    <3>2. t \in Seq(Message) /\ Len(t) = 1 /\ t[1] = YieldMsg
      BY <3>1
    <3> QED
      BY <3>1, <3>2 DEF Quiet, Stops
  <2> HIDE DEF t
  <2>6. net'[<<m, p>>] = net[<<m, p>>]
          \/ \E w \in Seq(Message) : Quiet(w) /\ net'[<<m, p>>] = net[<<m, p>>] \o w
    BY <2>4, <2>5 DEF t
  <2> QED
    BY <1>0, <2>1, <2>3, <2>6, VisitedMore
<1>2. CASE x = p
  <2> DEFINE q == net[<<m, p>>]
             j == injq[p]
             g == DrivenBy(p, m)
             h == DrivenBy(p, m)'
  <2>1. /\ j # <<>> /\ injq'[p] = Tail(j)
        /\ Comes(j[1], m) => h
        /\ g /\ ~Goes(j[1], m) => h
    BY <1>0, <1>2, InjectedDriven
  <2>2. net'[<<m, p>>] = q
    <3>1. <<m, p>>[1] # x
      BY <1>2
    <3> QED
      BY <1>0, <3>1, InjectingSends
  <2>3. j \in Seq(InjectEntry) /\ g \in BOOLEAN
    BY <1>0, DrivenType DEF TypeOK
  <2>4. h \in BOOLEAN
    BY DEF DrivenBy
  <2>5. Awaited(q, j, g, m)
    BY DEF Visited
  <2>6. Visited(m, p)' <=> Awaited(q, Tail(j), h, m)
    BY <2>1, <2>2 DEF Visited
  <2>7. CASE g /\ j[1].type = "LocalActivity" /\ Quiet(q)
    <3>1. Reaches(p, m) /\ m \in sessions[p]
      BY <2>7, BothConnected DEF Driving, Reaches
    <3>2. rcv[p].entered /\ rcv[p].driver = m
      BY <2>7 DEF DrivenBy
    <3>3. InjectLocalActivity(p)
      <4>1. Head(injq[p]).type = "LocalActivity"
        BY <2>1, <2>3, <2>7
      <4> QED
        BY <1>2, <4>1 DEF Injecting, InjectControl, InjectMotion, InjectDisconnected, Injects
    <3>4. net' = [net EXCEPT ![<<p, m>>] = Append(@, YieldMsg)]
      BY <3>1, <3>2, <3>3 DEF InjectLocalActivity
    <3> DEFINE s == net[<<p, m>>]
               r == net'[<<p, m>>]
    <3>5. r = Append(s, YieldMsg)
      BY <1>0, <3>4 DEF TypeOK
    <3>6. s \in Seq(Message)
      BY <1>0
    <3> HIDE DEF s
    <3>7. Len(s) + 1 \in 1 .. Len(r) /\ r[Len(s) + 1] = YieldMsg
      BY <3>5, <3>6
    <3>8. YieldMsg.type \in Recall
      BY DEF YieldMsg, Recall
    <3> QED
      BY <3>7, <3>8 DEF Recalled, Called, Recalls
  <2> HIDE DEF q, j, g, h
  <2>8. CASE EnterComing(q)
    BY <2>6, <2>8 DEF Awaited
  <2>9. CASE Quiet(q) /\ InOrTold(j, g, m) /\ ~(g /\ j[1].type = "LocalActivity")
    <3>1. InOrTold(Tail(j), h, m)
      BY <2>1, <2>3, <2>4, <2>9, InOrToldPop
    <3> QED
      BY <2>6, <2>9, <3>1 DEF Awaited
  <2> QED
    BY <2>5, <2>7, <2>8, <2>9 DEF Awaited
<1> QED
  BY <1>1, <1>2

(* Connections fail and come back: a driver that loses what it drives is   *)
(* called back, and only one that is called back loses it.                 *)
LEMMA VisitedByLink ==
    ASSUME DeskInv, NEW m \in Machine, NEW p \in Machine \ {m}, Driving(m, p),
           Visited(m, p), ~Recalled(p, m), NEW a \in Machine, NEW b \in Machine \ {a},
           Connecting(a, b)
    PROVE  Recalled(p, m)' \/ Visited(m, p)'
<1> DEFINE z == <<m, p>>
<1>0. PointerInv /\ TypeOK /\ z \in Pair
  BY PairType DEF DeskInv, LinkInv, PointerInv
<1>1. injq' = injq /\ rcv' = rcv
  BY DEF Connecting, LinkFails, EndNoticed, Reconnect
<1>2. DrivenBy(p, m)' = DrivenBy(p, m)
  BY <1>1 DEF DrivenBy
<1>3. p \in active[m] /\ {m, p} \in up
  BY DrivesConnected DEF Driving
<1>4. /\ LinkFails(a, b) => z \in {<<a, b>>, <<b, a>>} \/ Unheard(z)
      /\ EndNoticed(a, b) => z = <<b, a>> \/ Unheard(z)
      /\ Reconnect(a, b) => z \in {<<a, b>>, <<b, a>>} \/ Unheard(z)
  <2> HIDE DEF z
  <2> QED
    BY <1>0, LinkNet
<1>5. z \in {<<a, b>>, <<b, a>>} => {a, b} = {m, p}
  OBVIOUS
<1>6. EndNoticed(a, b) \/ Reconnect(a, b) => {a, b} \notin up
  BY DEF EndNoticed, Reconnect
<1>7. LinkFails(a, b) /\ {a, b} = {m, p} => Stale(m, p)'
  BY <1>3 DEF LinkFails, Stale
<1>8. Unheard(z) => Visited(m, p)'
  <2>1. Unheard(z) => net'[<<m, p>>] = net[<<m, p>>]
    BY DEF Unheard
  <2> QED
    BY <1>0, <1>1, <1>2, <2>1, VisitedMore
<1> HIDE DEF z
<1>9. Unheard(z) \/ Stale(m, p)'
  BY <1>3, <1>4, <1>5, <1>6, <1>7 DEF Connecting
<1> QED
  BY <1>8, <1>9 DEF Recalled

(* Killed, the driver drives no more, and the driven leaves it cut off. *)
LEMMA VisitedByRestart ==
    ASSUME DeskInv, NEW m \in Machine, NEW p \in Machine \ {m}, Driving(m, p),
           Visited(m, p), ~Recalled(p, m), NEW x \in Machine \ {m}, Restart(x)
    PROVE  Recalled(p, m)' \/ Visited(m, p)'
<1> DEFINE z == <<m, p>>
<1>0. PointerInv /\ TypeOK /\ z \in Pair /\ z[1] = m /\ z[2] = p
  BY PairType DEF DeskInv, LinkInv, PointerInv
<1>1. p \in active[m] /\ {m, p} \in up
  BY DrivesConnected DEF Driving
<1>2. CASE x = p
  <2>1. active'[m] = active[m] /\ up' = {l \in up : x \notin l}
    BY <1>0 DEF Restart, TypeOK
  <2> QED
    BY <1>1, <1>2, <2>1 DEF Recalled, Stale
<1>3. CASE x # p
  <2>1. injq'[p] = injq[p] /\ rcv'[p] = rcv[p]
    BY <1>0, <1>3 DEF Restart, TypeOK
  <2>2. DrivenBy(p, m)' = DrivenBy(p, m)
    BY <2>1 DEF DrivenBy
  <2>3. Unheard(z)
    <3> HIDE DEF z
    <3> QED
      BY <1>0, <1>3, RestartNet
  <2>4. net'[<<m, p>>] = net[<<m, p>>]
    BY <2>3 DEF Unheard
  <2> QED
    BY <1>0, <2>1, <2>2, <2>4, VisitedMore
<1> QED
  BY <1>2, <1>3

LEMMA VisitedAfter ==
    ASSUME VisitInv, NEW m \in Machine, NEW p \in Machine \ {m}, Driving(m, p)',
           [Next]_vars, [NotReplaced /\ Uncontested]_vars
    PROVE  Recalled(p, m)' \/ Visited(m, p)'
<1>0. DeskInv /\ PointerInv /\ NetInv /\ TypeOK
  BY DEF VisitInv, DeskInv, LinkInv, PointerInv
<1>1. CASE UNCHANGED vars
  <2>1. UNCHANGED <<ctl, net, capq, injq, rcv, up, active>>
    BY <1>1 DEF vars, links
  <2>2. Driving(m, p)' = Driving(m, p) /\ Recalled(p, m)' = Recalled(p, m)
    BY <2>1 DEF Driving, Recalled, Called, Stale
  <2>3. DrivenBy(p, m)' = DrivenBy(p, m)
    BY <2>1 DEF DrivenBy
  <2>4. Visited(m, p) => Visited(m, p)'
    BY <2>1, <2>3 DEF Visited
  <2> QED
    BY <2>2, <2>4 DEF VisitInv, VisitsKept
<1>2. CASE Next /\ NotReplaced /\ Uncontested
  <2>1. Uncontested /\ ~(Reconnect(p, m) /\ p \in active[m])
    <3> DEFINE x == <<p, m>>
    <3>1. x \in Pair /\ x[1] = p /\ x[2] = m
      BY PairType
    <3> HIDE DEF x
    <3> QED
      BY <1>2, <3>1 DEF NotReplaced
  <2>2. ASSUME NEW x \in Machine, UserStep(x)
        PROVE  Recalled(p, m)' \/ Visited(m, p)'
    BY <2>1, <2>2, VisitedByUser
  <2>3. CASE \A x \in Machine : ~UserStep(x)
    <3>1. Driving(m, p) /\ ~Restart(m)
      BY <1>0, <2>3, DriveKept
    <3>2. Recalled(p, m) \/ Visited(m, p)
      BY <3>1 DEF VisitInv, VisitsKept
    <3>3. Recalled(p, m) => Recalled(p, m)'
      BY <1>0, <2>1, RecalledStays
    <3>4. CASE Visited(m, p) /\ ~Recalled(p, m)
      <4>1. ASSUME NEW x \in Machine, Capturing(x) \/ ReportDue(x)
            PROVE  Visited(m, p)'
        BY <1>0, <3>4, <4>1, VisitedByThread
      <4>2. ASSUME NEW x \in Machine, RunLoop(x)
            PROVE  Visited(m, p)'
        <5>1. Hearing(x) => Visited(m, p)'
          BY <1>0, <2>1, <3>1, <3>4, VisitedByHearing
        <5>2. OnYielded(x) \/ (\E d \in dgrams[x] : OnDatagram(x, d)) => Visited(m, p)'
          BY <1>0, <3>4, VisitedByRunLoop
        <5> QED
          BY <4>2, <5>1, <5>2 DEF RunLoop
      <4>3. ASSUME NEW x \in Machine, Injecting(x)
            PROVE  Recalled(p, m)' \/ Visited(m, p)'
        BY <1>0, <3>1, <3>4, <4>3, VisitedByInjecting
      <4>4. ASSUME NEW w \in Pair, Connecting(w[1], w[2])
            PROVE  Recalled(p, m)' \/ Visited(m, p)'
        <5>1. w[1] \in Machine /\ w[2] \in Machine \ {w[1]}
          BY PairParts
        <5> QED
          BY <1>0, <3>1, <3>4, <4>4, <5>1, VisitedByLink
      <4>5. ASSUME NEW x \in Machine, Restart(x)
            PROVE  Recalled(p, m)' \/ Visited(m, p)'
        <5>1. x # m
          BY <3>1, <4>5
        <5> QED
          BY <1>0, <3>1, <3>4, <4>5, <5>1, VisitedByRestart
      <4>6. Rest => UNCHANGED vars
        BY DEF Rest
      <4> QED
        BY <1>1, <1>2, <2>3, <4>1, <4>2, <4>3, <4>4, <4>5, <4>6 DEF Next
    <3> QED
      BY <3>2, <3>3, <3>4
  <2> QED
    BY <2>2, <2>3
<1> QED
  BY <1>1, <1>2

LEMMA VisitInit == Init => VisitInv
<1> SUFFICES ASSUME Init
             PROVE  EachDown /\ VisitsKept
  BY DeskInit DEF VisitInv
<1>1. \A m \in Machine : ctl[m].peer = NoMachine
  BY DEF Init, NewController
<1>2. EachDown
  BY DEF Init, EachDown, ComesDown, ConnectsDown
<1> QED
  BY <1>1, <1>2, ControllerAssumption DEF VisitsKept, Driving

LEMMA EachDownNext ==
    ASSUME VisitInv, [Next]_vars, [NotReplaced]_vars, NEW p \in Pair
    PROVE  ComesDown(p)'
<1>0. LinkInv /\ TypeOK /\ NetOK(p) /\ ComesDown(p)
  BY DEF VisitInv, EachDown, DeskInv, LinkInv, PointerInv, NetInv
<1>1. NetStep(p)
  BY <1>0, NetSteps
<1>2. CASE UNCHANGED vars
  <2>1. net' = net /\ sessions' = sessions
    BY <1>2 DEF vars, links
  <2> QED
    BY <1>0, <2>1 DEF ComesDown
<1>3. CASE NotReplaced
  BY <1>0, <1>1, <1>3, DownKept DEF NotReplaced
<1> QED
  BY <1>2, <1>3

LEMMA VisitNext ==
    VisitInv /\ [Next]_vars /\ [NotReplaced /\ Uncontested]_vars => VisitInv'
<1>1. VisitInv /\ [Next]_vars => DeskInv'
  BY DeskNext DEF VisitInv
<1>2. ASSUME VisitInv, [Next]_vars, [NotReplaced /\ Uncontested]_vars,
             NEW m \in Machine, NEW p \in Machine \ {m}
      PROVE  Driving(m, p)' => Recalled(p, m)' \/ Visited(m, p)'
  BY <1>2, VisitedAfter
<1>3. VisitInv /\ [Next]_vars /\ [NotReplaced /\ Uncontested]_vars => VisitsKept'
  BY <1>2 DEF VisitsKept
<1>4. VisitInv /\ [Next]_vars /\ [NotReplaced /\ Uncontested]_vars => EachDown'
  BY EachDownNext DEF EachDown
<1> QED
  BY <1>1, <1>3, <1>4 DEF VisitInv

LEMMA VisitSettles ==
    ASSUME VisitInv, Settled, NEW m \in Machine, NEW p \in Machine, Driving(m, p)
    PROVE  DrivenBy(p, m)
<1>1. DeskInv /\ OnDesk(ctl[m]) /\ NoMachine \notin Machine
  BY ControllerAssumption DEF VisitInv, DeskInv, LinkInv, PointerInv
<1>2. p \in ctl[m].layout /\ ctl[m].layout = {x \in Machine \ {m} : {m, x} \in up}
  BY <1>1, DeskSettles DEF OnDesk, Driving
<1>3. p \in Machine \ {m}
  BY <1>2
<1>4. net[<<p, m>>] = <<>> /\ net[<<m, p>>] = <<>> /\ capq[m] = <<>> /\ injq[p] = <<>>
  BY <1>3, PairType DEF Settled
<1>5. ~Recalled(p, m)
  <2>1. ~Stale(m, p)
    BY DEF Stale, Settled
  <2> QED
    BY <1>4, <2>1 DEF Recalled, Called, Recalls
<1>6. Awaited(<<>>, <<>>, DrivenBy(p, m), m)
  BY <1>3, <1>4, <1>5 DEF VisitInv, VisitsKept, Visited
<1> DEFINE h == DrivenBy(p, m)
<1>7. h \in BOOLEAN
  BY DEF DrivenBy
<1>8. Awaited(<<>>, <<>>, h, m)
  BY <1>6
<1> HIDE DEF h
<1>9. h
  BY <1>7, <1>8 DEF Awaited, EnterComing, InOrTold, InAfter
<1> QED
  BY <1>9 DEF h

(***************************************************************************)
(* A machine that drives another has its Enter on its way there until that *)
(* one lets it in; what ends the visit (local input on the driven machine, *)
(* a lost connection) calls the driver back (Yield in input.rs, PeerLost   *)
(* and SetLayout in run.rs).  So once everything sent has been heard each  *)
(* driver has the machine it drives, whatever machines are killed and      *)
(* connections lost, on two conditions.  No third machine enters one that  *)
(* another drives.  And none comes back so soon that its peer has not      *)
(* noticed it was gone: the run loop of the peer is then told of no loss   *)
(* (runs_session, session.rs), and it may go on driving a machine that has *)
(* forgotten it.                                                           *)
(***************************************************************************)
THEOREM DriverHasIt ==
    Spec /\ [][NotReplaced /\ Uncontested]_vars => []DriverDrives
<1>1. VisitInv => DriverDrives
  BY VisitSettles DEF DriverDrives
<1>2. Spec /\ [][NotReplaced /\ Uncontested]_vars => []VisitInv
  BY VisitInit, VisitNext, PTL DEF Spec
<1> QED
  BY <1>1, <1>2, PTL

(* Of two machines none is a third.                                        *)
LEMMA TwoUncontested ==
    ASSUME NEW a, NEW b, Machine = {a, b}
    PROVE  Uncontested
BY DEF Uncontested

(* Between two machines there is no third to take one over.  Each driver   *)
(* has the machine it drives, whoever crosses, presses or moves meanwhile, *)
(* and whatever is killed and lost, but for a session that is replaced     *)
(* before the other end noticed.                                           *)
THEOREM DriverHasItOfTwo ==
    ASSUME NEW a, NEW b, Machine = {a, b}
    PROVE  Spec /\ [][NotReplaced]_vars => []DriverDrives
<1>1. Uncontested
  BY TwoUncontested
<1>2. VisitInv /\ [Next]_vars /\ [NotReplaced]_vars => VisitInv'
  BY <1>1, VisitNext
<1>3. VisitInv => DriverDrives
  BY VisitSettles DEF DriverDrives
<1> QED
  BY <1>2, <1>3, VisitInit, PTL DEF Spec
=============================================================================
