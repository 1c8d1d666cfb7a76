-------------------------- MODULE InjectLoopProofs --------------------------
(***************************************************************************)
(* Proofs about the injection thread, for any peers, keys, buttons and     *)
(* positions and any modulus of the sequence numbers.                      *)
(***************************************************************************)
EXTENDS InjectLoop, TLAPS

(***************************************************************************)
(* What every call of the receiver keeps: the OS has down exactly what the *)
(* receiver tracks, only a tracked key repeats, nothing is tracked while   *)
(* nobody drives, and whoever drives is known.                             *)
(***************************************************************************)
Tracked(r) ==
    /\ r.osKeys = r.keys
    /\ r.osButtons = r.buttons
    /\ r.repeat # NoKey => r.repeat \in r.keys
    /\ ~r.entered => r.keys = {} /\ r.buttons = {}
    /\ r.entered => r.driver # NoPeer

Good(r) == r \in ReceiverState /\ Tracked(r)

USE DEF Good

-----------------------------------------------------------------------------

(* A new receiver is good if nothing is down in the OS. *)
LEMMA NewGood ==
    ASSUME NEW x \in Pos
    PROVE  Good(NewReceiver({}, {}, x))
BY ReceiverAssumption, SeqModAssumption
   DEF NewReceiver, ReceiverState, Tracked, NoClick, SeqNo

LEMMA ReleaseAllGood ==
    ASSUME NEW r, Good(r)
    PROVE  /\ Good(ReleaseAll(r))
           /\ ReleaseAll(r).osKeys = {} /\ ReleaseAll(r).osButtons = {}
           /\ ReleaseAll(r).keys = {} /\ ReleaseAll(r).buttons = {}
           /\ ReleaseAll(r).repeat = NoKey
           /\ ReleaseAll(r).driver = r.driver
           /\ ReleaseAll(r).entered = r.entered
           /\ ReleaseAll(r).last = r.last
           /\ ReleaseAll(r).clicks = r.clicks
           /\ ReleaseAll(r).lastClick = r.lastClick
BY DEF ReleaseAll, ReceiverState, Tracked

LEMMA StopDrivingGood ==
    ASSUME NEW r, Good(r)
    PROVE  /\ Good(StopDriving(r))
           /\ ~StopDriving(r).entered
           /\ StopDriving(r).driver = r.driver
           /\ Injected(StopDriving(r)) = {}
           /\ StopDriving(r).lastClick = r.lastClick
           /\ StopDriving(r).last = r.last
BY ReleaseAllGood DEF StopDriving, Injected, ReceiverState, Tracked

(* Enter leaves nothing down, makes its sender the driver and starts clicks afresh. *)
LEMMA EnterGood ==
    ASSUME NEW r, Good(r), NEW p \in Peer, NEW seq \in SeqNo, NEW x \in Pos
    PROVE  LET e == Enter([r EXCEPT !.driver = p], seq, x)
           IN  Good(e) /\ e.entered /\ e.driver = p /\ Injected(e) = {}
               /\ e.buttons = {} /\ e.lastClick = NoClick
<1> DEFINE d == [r EXCEPT !.driver = p]
<1>1. d \in ReceiverState /\ d.keys = r.keys /\ d.buttons = r.buttons
      /\ d.osKeys = r.osKeys /\ d.osButtons = r.osButtons /\ d.driver = p
      /\ d.repeat = r.repeat /\ d.entered = r.entered
  BY DEF ReceiverState
<1>2. p # NoPeer
  BY ReceiverAssumption
<1>3. Good(d)
  BY <1>1, <1>2 DEF Tracked
<1>4. /\ Good(ReleaseAll(d))
      /\ ReleaseAll(d).osKeys = {} /\ ReleaseAll(d).osButtons = {}
      /\ ReleaseAll(d).driver = p
      /\ ReleaseAll(d).buttons = {}
  BY <1>1, <1>3, ReleaseAllGood
<1> HIDE DEF d
<1>5. LET e == Enter(d, seq, x)
      IN  Good(e) /\ e.entered /\ e.driver = p /\ Injected(e) = {}
          /\ e.buttons = {} /\ e.lastClick = NoClick
  BY <1>2, <1>4 DEF Enter, Injected, ReceiverState, Tracked, NoClick
<1> QED
  BY <1>5 DEF d

(***************************************************************************)
(* The calls that press or release one thing: nothing is pressed unless a  *)
(* driver has the machine, and only the call's own key or button changes.  *)
(***************************************************************************)
Kept(r, s, i) ==
    /\ Good(s)
    /\ s.entered = r.entered /\ s.driver = r.driver
    /\ Injected(s) \subseteq Injected(r) \union {i}
    /\ ~r.entered => Injected(s) = {}
    /\ \/ Injected(s) = Injected(r) \/ Injected(s) = Injected(r) \union {i}
       \/ Injected(s) = Injected(r) \ {i}

LEMMA KeyDownGood ==
    ASSUME NEW r, Good(r), NEW k \in Key
    PROVE  Kept(r, KeyDown(r, k), k) /\ KeyDown(r, k).buttons = r.buttons
           /\ KeyDown(r, k).clicks = r.clicks
           /\ KeyDown(r, k).lastClick = r.lastClick
BY ReceiverAssumption DEF KeyDown, Kept, Injected, ReceiverState, Tracked

LEMMA KeyUpGood ==
    ASSUME NEW r, Good(r), NEW k \in Key
    PROVE  Kept(r, KeyUp(r, k), k) /\ KeyUp(r, k).buttons = r.buttons
           /\ KeyUp(r, k).clicks = r.clicks
           /\ KeyUp(r, k).lastClick = r.lastClick
<1>1. ASSUME k \in r.keys
      PROVE  LET s == KeyUp(r, k)
             IN  /\ s \in ReceiverState
                 /\ s.keys = r.keys \ {k} /\ s.osKeys = r.osKeys \ {k}
                 /\ s.buttons = r.buttons /\ s.osButtons = r.osButtons
                 /\ s.repeat = IF r.repeat = k THEN NoKey ELSE r.repeat
                 /\ s.entered = r.entered /\ s.driver = r.driver
                 /\ s.clicks = r.clicks /\ s.lastClick = r.lastClick
  BY <1>1 DEF KeyUp, ReceiverState
<1>2. ASSUME k \in r.keys
      PROVE  Good(KeyUp(r, k))
  BY <1>1, <1>2 DEF Tracked
<1>3. ASSUME k \in r.keys
      PROVE  Injected(KeyUp(r, k)) = Injected(r) \ {k}
  BY <1>1, <1>3, ItemAssumption DEF Injected, ReceiverState
<1>4. CASE k \in r.keys
  BY <1>1, <1>2, <1>3, <1>4 DEF Kept, Tracked, Injected
<1>5. CASE k \notin r.keys
  BY <1>5 DEF KeyUp, Kept, Tracked, Injected
<1> QED
  BY <1>4, <1>5

LEMMA ClickCountType ==
    ASSUME NEW r \in ReceiverState, NEW b \in Button, NEW again \in BOOLEAN
    PROVE  ClickCount(r, b, again) \in 1 .. MaxClicks
BY ReceiverAssumption DEF ClickCount, ReceiverState, NoClick

LEMMA ButtonDownGood ==
    ASSUME NEW r, Good(r), NEW b \in Button, NEW x \in Pos, NEW again \in BOOLEAN
    PROVE  Kept(r, ButtonDown(r, b, x, again), b)
<1> DEFINE c == ClickCount(r, b, again)
<1>1. c \in 1 .. MaxClicks
  BY ClickCountType
<1> HIDE DEF c
<1>2. ASSUME r.entered, b \notin r.buttons
      PROVE  Kept(r, [r EXCEPT !.buttons = @ \union {b}, !.clicks[b] = c,
                       !.lastClick = [button |-> b, clicks |-> c], !.cursor = x,
                       !.osButtons = @ \union {b}, !.osPos = x], b)
  BY <1>1, <1>2 DEF Kept, Injected, ReceiverState, Tracked
<1>3. Kept(r, r, b)
  BY DEF Kept, Injected, Tracked
<1> QED
  BY <1>2, <1>3 DEF ButtonDown, c

LEMMA ButtonUpGood ==
    ASSUME NEW r, Good(r), NEW b \in Button, NEW x \in Pos
    PROVE  Kept(r, ButtonUp(r, b, x), b)
           /\ ButtonUp(r, b, x).buttons \subseteq r.buttons
           /\ ButtonUp(r, b, x).clicks = r.clicks
           /\ ButtonUp(r, b, x).lastClick = r.lastClick
BY ItemAssumption DEF ButtonUp, Kept, Injected, ReceiverState, Tracked

LEMMA MotionGood ==
    ASSUME NEW r, Good(r), NEW seq \in SeqNo, NEW x \in Pos
    PROVE  LET m == Motion(r, seq, x)
           IN  Good(m) /\ m.entered = r.entered /\ m.driver = r.driver
               /\ Injected(m) = Injected(r)
               /\ m.buttons = r.buttons /\ m.clicks = r.clicks
               /\ m.lastClick = r.lastClick
BY DEF Motion, Injected, ReceiverState, Tracked

(* A due repeat presses a key that is down already: it changes nothing. *)
LEMMA TickGood ==
    ASSUME NEW r, Good(r)
    PROVE  Tick(r) = r
<1>1. ASSUME r.repeat # NoKey
      PROVE  [r EXCEPT !.osKeys = @ \union {r.repeat}] = r
  <2>1. r.osKeys \union {r.repeat} = r.osKeys
    BY <1>1 DEF Tracked
  <2> QED
    BY <2>1 DEF ReceiverState
<1> QED
  BY <1>1 DEF Tick

-----------------------------------------------------------------------------

(***************************************************************************)
(* What the selector makes of each message.                                *)
(***************************************************************************)

LEMMA SelectEnter ==
    ASSUME NEW r \in ReceiverState, NEW p \in Peer, NEW seq \in SeqNo, NEW x \in Pos
    PROVE  SelectControl(r, p, EnterMsg(seq, x), FALSE)
             = Enter([r EXCEPT !.driver = p], seq, x)
<1>1. [r EXCEPT !.driver = p].driver = p
  BY DEF ReceiverState
<1> QED
  BY <1>1 DEF SelectControl, Handle, EnterMsg

LEMMA SelectLeave ==
    ASSUME NEW r, NEW p
    PROVE  SelectControl(r, p, LeaveMsg, FALSE)
             = IF r.driver = p THEN StopDriving(r) ELSE r
BY DEF SelectControl, Handle, LeaveMsg

LEMMA SelectKey ==
    ASSUME NEW r, NEW p, NEW k, NEW down \in BOOLEAN
    PROVE  SelectControl(r, p, KeyMsg(k, down), FALSE)
             = IF r.driver = p THEN IF down THEN KeyDown(r, k) ELSE KeyUp(r, k)
               ELSE r
BY DEF SelectControl, Handle, KeyMsg

LEMMA SelectButton ==
    ASSUME NEW r, NEW p, NEW b, NEW down \in BOOLEAN, NEW x, NEW again
    PROVE  SelectControl(r, p, ButtonMsg(b, down, x), again)
             = IF r.driver = p THEN IF down THEN ButtonDown(r, b, x, again)
                                    ELSE ButtonUp(r, b, x)
               ELSE r
BY DEF SelectControl, Handle, ButtonMsg

-----------------------------------------------------------------------------

(***************************************************************************)
(* The inductive invariant.  Beyond the properties it has to say that a    *)
(* stopped thread drives nothing, and that the click a next press may      *)
(* continue was made since the latest Enter.                               *)
(***************************************************************************)
IInv ==
    /\ TypeOK
    /\ Tracked(rcv)
    /\ HeldForDriver
    /\ DriverIsConnected
    /\ ~running => ~rcv.entered
    /\ rcv.lastClick.clicks <= presses
    /\ ClicksWithinVisit

(* The invariant for the receiver r and the histories v (presses) and w. *)
Held(r, w) == \A i \in Injected(r) : r.entered /\ w[i] = r.driver

Clicked(r, v) ==
    /\ r.lastClick.clicks <= v
    /\ \A b \in r.buttons : r.clicks[b] <= v

(* One pass of the loop ends in the receiver the message led to. *)
LEMMA LoopStep ==
    ASSUME NEW r, Good(r), Loop(r)
    PROVE  rcv' = r
BY TickGood DEF Loop

LEMMA RecordStep ==
    ASSUME TypeOK, NEW p \in Peer \union {NoPeer}, NEW r, Record(p, r)
    PROVE  /\ pressedBy' \in [Item -> Peer \union {NoPeer}]
           /\ \A i \in Item : i \in Injected(r) =>
                 pressedBy'[i] = IF i \in Injected(rcv) THEN pressedBy[i] ELSE p
BY DEF Record, TypeOK

LEMMA InjectedItems ==
    ASSUME NEW r \in ReceiverState
    PROVE  Injected(r) \subseteq Item
BY DEF Injected, Item, ReceiverState

(* A call that keeps what is held, or changes one thing for the driver p. *)
LEMMA KeptHeld ==
    ASSUME TypeOK, Held(rcv, pressedBy), NEW p \in Peer, rcv.driver = p,
           NEW r, NEW i, Kept(rcv, r, i), Record(p, r)
    PROVE  Held(r, pressedBy')
<1>1. Injected(r) \subseteq Item
  BY InjectedItems DEF Kept
<1>2. ASSUME NEW j \in Injected(r)
      PROVE  r.entered /\ pressedBy'[j] = r.driver
  <2>1. pressedBy'[j] = IF j \in Injected(rcv) THEN pressedBy[j] ELSE p
    BY <1>1, <1>2, RecordStep
  <2>2. r.entered
    BY <1>2 DEF Kept
  <2> QED
    BY <2>1, <2>2 DEF Held, Kept
<1> QED
  BY <1>2 DEF Held

(* A call that leaves what is held as it was. *)
LEMMA SameHeld ==
    ASSUME TypeOK, Held(rcv, pressedBy), NEW p \in Peer \union {NoPeer},
           NEW r \in ReceiverState, Record(p, r), Injected(r) = Injected(rcv),
           r.entered = rcv.entered, r.driver = rcv.driver
    PROVE  Held(r, pressedBy')
<1>1. \A j \in Injected(r) : pressedBy'[j] = pressedBy[j]
  BY RecordStep, InjectedItems
<1> QED
  BY <1>1 DEF Held

THEOREM InitIInv == Init => IInv
<1> SUFFICES ASSUME Init PROVE IInv
  OBVIOUS
<1>1. Good(rcv)
  BY NewGood, ReceiverAssumption DEF Init
<1>2. Injected(rcv) = {} /\ rcv.driver = NoPeer /\ rcv.lastClick.clicks = 0
      /\ rcv.buttons = {}
  BY DEF Init, NewReceiver, Injected, NoClick
<1>3. TypeOK
  BY <1>1, ReceiverAssumption DEF Init, TypeOK
<1> QED
  BY <1>1, <1>2, <1>3
     DEF Init, IInv, HeldForDriver, DriverIsConnected, ClicksWithinVisit

(***************************************************************************)
(* Every step keeps the invariant.  A step that leads to the receiver r    *)
(* needs four things of it, the rest is the same for all.                  *)
(***************************************************************************)
LEMMA StepTo ==
    ASSUME IInv, NEW r, Good(r), rcv' = r, Held(r, pressedBy'),
           Clicked(r, presses'),
           pressedBy' \in [Item -> Peer \union {NoPeer}],
           presses' \in 0 .. MaxClicks, visit' \in {0, 1},
           running' \in BOOLEAN, sessions' \subseteq Peer, lost' \subseteq Peer,
           ~running' => ~r.entered,
           running' => r.driver \in sessions' \union lost' \union {NoPeer}
    PROVE  IInv'
BY DEF IInv, TypeOK, Held, Clicked, HeldForDriver, DriverIsConnected,
       ClicksWithinVisit, Tracked, Injected

LEMMA IInvParts ==
    ASSUME IInv
    PROVE  /\ Good(rcv) /\ TypeOK
           /\ Held(rcv, pressedBy) /\ Clicked(rcv, presses)
           /\ rcv.lastClick.clicks \in Nat
BY DEF IInv, TypeOK, Held, Clicked, HeldForDriver, ClicksWithinVisit,
       ReceiverState, NoClick

LEMMA EnterStep ==
    ASSUME IInv, NEW p \in Sender, NEW s \in SeqNo, NEW x \in Pos, OnEnter(p, s, x)
    PROVE  IInv'
<1> DEFINE r == Enter([rcv EXCEPT !.driver = p], s, x)
<1>1. p \in Peer /\ Good(rcv) /\ TypeOK
  BY IInvParts DEF Sender, TypeOK
<1>2. SelectControl(rcv, p, EnterMsg(s, x), FALSE) = r
  BY <1>1, SelectEnter
<1>3. Good(r) /\ r.entered /\ r.driver = p /\ Injected(r) = {}
      /\ r.buttons = {} /\ r.lastClick = NoClick
  BY <1>1, EnterGood
<1> HIDE DEF r
<1>4. rcv' = r /\ Record(p, r) /\ presses' = 0 /\ visit' = 1 - visit
      /\ running /\ UNCHANGED <<running, sessions, lost>>
  BY <1>2, <1>3, LoopStep DEF OnEnter
<1>5. Held(r, pressedBy') /\ Clicked(r, presses')
  BY <1>3, <1>4 DEF Held, Clicked, NoClick
<1>6. pressedBy' \in [Item -> Peer \union {NoPeer}]
  BY <1>1, <1>4, RecordStep
<1>7. /\ presses' \in 0 .. MaxClicks /\ visit' \in {0, 1} /\ running' \in BOOLEAN
      /\ sessions' \subseteq Peer /\ lost' \subseteq Peer
  BY <1>1, <1>4, ReceiverAssumption DEF TypeOK
<1> QED
  BY <1>3, <1>4, <1>5, <1>6, <1>7, StepTo DEF Sender

(***************************************************************************)
(* The steps that keep the driver and what was pressed before, but for one *)
(* key or button.                                                          *)
(***************************************************************************)
LEMMA QuietStep ==
    ASSUME IInv, running, NEW p \in Peer \union {NoPeer}, NEW r, Good(r),
           Loop(r), Record(p, r), Held(r, pressedBy'), Clicked(r, presses'),
           r.driver = rcv.driver, presses' \in 0 .. MaxClicks,
           UNCHANGED <<running, sessions, lost, visit>>
    PROVE  IInv'
<1>1. rcv' = r
  BY LoopStep
<1>2. pressedBy' \in [Item -> Peer \union {NoPeer}]
  BY RecordStep, IInvParts
<1>3. /\ visit' \in {0, 1} /\ running' \in BOOLEAN /\ running'
      /\ sessions' \subseteq Peer /\ lost' \subseteq Peer
      /\ rcv.driver \in sessions \union lost \union {NoPeer}
  BY DEF IInv, TypeOK, DriverIsConnected
<1> QED
  BY <1>1, <1>2, <1>3, StepTo

LEMMA StopDrivingKeeps ==
    ASSUME IInv
    PROVE  LET r == StopDriving(rcv)
           IN  Good(r) /\ r.driver = rcv.driver /\ Clicked(r, presses)
               /\ Injected(r) = {} /\ ~r.entered
<1>1. Good(rcv) /\ Clicked(rcv, presses)
  BY IInvParts
<1>2. LET r == StopDriving(rcv)
      IN  Good(r) /\ r.driver = rcv.driver /\ Injected(r) = {} /\ ~r.entered
          /\ r.lastClick = rcv.lastClick
  BY <1>1, StopDrivingGood
<1>3. StopDriving(rcv).buttons = {}
  BY <1>2 DEF Tracked
<1> QED
  BY <1>1, <1>2, <1>3 DEF Clicked

LEMMA LeaveStep ==
    ASSUME IInv, NEW p \in Sender, OnLeave(p)
    PROVE  IInv'
<1> DEFINE r == IF rcv.driver = p THEN StopDriving(rcv) ELSE rcv
<1>1. p \in Peer /\ Good(rcv) /\ TypeOK /\ Held(rcv, pressedBy) /\ Clicked(rcv, presses)
  BY IInvParts DEF Sender, TypeOK
<1>2. Good(r) /\ r.driver = rcv.driver /\ Clicked(r, presses)
      /\ (Injected(r) = {} \/ r = rcv)
  BY <1>1, StopDrivingKeeps
<1>3. SelectControl(rcv, p, LeaveMsg, FALSE) = r
  BY SelectLeave
<1> HIDE DEF r
<1>4. Loop(r) /\ Record(p, r) /\ running
      /\ UNCHANGED <<running, sessions, lost, visit, presses>>
  BY <1>3 DEF OnLeave
<1>5. Held(r, pressedBy')
  BY <1>1, <1>2, <1>4, SameHeld DEF Held
<1> QED
  BY <1>1, <1>2, <1>4, <1>5, QuietStep DEF TypeOK

LEMMA KeyStep ==
    ASSUME IInv, NEW p \in Sender, NEW k \in Key, NEW d \in BOOLEAN, OnKey(p, k, d)
    PROVE  IInv'
<1> DEFINE s == IF d THEN KeyDown(rcv, k) ELSE KeyUp(rcv, k)
           r == IF rcv.driver = p THEN s ELSE rcv
<1>1. p \in Peer /\ Good(rcv) /\ TypeOK /\ Held(rcv, pressedBy) /\ Clicked(rcv, presses)
  BY IInvParts DEF Sender, TypeOK
<1>2. Kept(rcv, s, k) /\ s.buttons = rcv.buttons /\ s.clicks = rcv.clicks
      /\ s.lastClick = rcv.lastClick
  BY <1>1, KeyDownGood, KeyUpGood
<1>3. SelectControl(rcv, p, KeyMsg(k, d), FALSE) = r
  BY SelectKey, ZenonT(60)
<1> HIDE DEF s
<1>4. Good(r) /\ r.driver = rcv.driver /\ r.entered = rcv.entered
      /\ Clicked(r, presses)
  BY <1>1, <1>2 DEF Kept, Clicked
<1>5. Loop(r) /\ Record(p, r) /\ running
      /\ UNCHANGED <<running, sessions, lost, visit, presses>>
  BY <1>3 DEF OnKey
<1>6. Held(r, pressedBy')
  <2>1. CASE rcv.driver = p
    BY <1>1, <1>2, <1>5, <2>1, KeptHeld
  <2>2. CASE rcv.driver # p
    BY <1>1, <1>5, <2>2, SameHeld
  <2> QED
    BY <2>1, <2>2
<1> HIDE DEF r
<1> QED
  BY <1>1, <1>4, <1>5, <1>6, QuietStep DEF TypeOK

(* A press counts at most one more click than the presses so far. *)
LEMMA ButtonClicks ==
    ASSUME IInv, NEW b \in Button, NEW x \in Pos, NEW again \in BOOLEAN,
           NEW v \in 0 .. MaxClicks,
           LET d == ButtonDown(rcv, b, x, again)
           IN  v = IF b \in d.buttons \ rcv.buttons /\ presses < MaxClicks
                   THEN presses + 1 ELSE presses
    PROVE  Clicked(ButtonDown(rcv, b, x, again), v)
<1> DEFINE c == ClickCount(rcv, b, again)
           d == ButtonDown(rcv, b, x, again)
<1>1. /\ Good(rcv) /\ Clicked(rcv, presses) /\ presses \in 0 .. MaxClicks
      /\ rcv.lastClick.clicks \in Nat
  BY IInvParts DEF TypeOK
<1>2. c \in 1 .. MaxClicks
  BY <1>1, ClickCountType
<1>3. c <= presses + 1
  BY <1>1, ReceiverAssumption DEF ClickCount, Clicked
<1>4. CASE rcv.entered /\ b \notin rcv.buttons
  <2>1. /\ d.buttons = rcv.buttons \union {b}
        /\ d.lastClick.clicks = c
        /\ d.clicks = [rcv.clicks EXCEPT ![b] = c]
    BY <1>1, <1>4 DEF ButtonDown, ReceiverState
  <2>2. v = IF presses < MaxClicks THEN presses + 1 ELSE presses
    BY <1>4, <2>1
  <2>3. c <= v /\ presses <= v
    BY <1>1, <1>2, <1>3, <2>2, ReceiverAssumption
  <2>4. \A a \in d.buttons : d.clicks[a] <= v
    <3> SUFFICES ASSUME NEW a \in d.buttons PROVE d.clicks[a] <= v
      OBVIOUS
    <3>1. CASE a = b
      BY <1>1, <2>1, <2>3, <3>1 DEF ReceiverState
    <3>2. CASE a # b
      <4>1. a \in rcv.buttons /\ d.clicks[a] = rcv.clicks[a]
        BY <1>1, <2>1, <3>2 DEF ReceiverState
      <4>2. rcv.clicks[a] <= presses /\ rcv.clicks[a] \in Nat
        BY <1>1, <4>1 DEF Clicked, ReceiverState
      <4> QED
        BY <1>1, <2>3, <4>1, <4>2
    <3> QED
      BY <3>1, <3>2
  <2> QED
    BY <2>1, <2>3, <2>4 DEF Clicked
<1>5. CASE ~(rcv.entered /\ b \notin rcv.buttons)
  <2>1. d = rcv
    BY <1>5 DEF ButtonDown
  <2> QED
    BY <1>1, <2>1
<1> QED
  BY <1>4, <1>5

LEMMA ButtonStep ==
    ASSUME IInv, NEW p \in Sender, NEW b \in Button, NEW d \in BOOLEAN,
           NEW x \in Pos, NEW again \in BOOLEAN, OnButton(p, b, d, x, again)
    PROVE  IInv'
<1> DEFINE s == IF d THEN ButtonDown(rcv, b, x, again) ELSE ButtonUp(rcv, b, x)
           r == IF rcv.driver = p THEN s ELSE rcv
<1>1. /\ p \in Peer /\ Good(rcv) /\ TypeOK
      /\ Held(rcv, pressedBy) /\ Clicked(rcv, presses)
      /\ presses \in 0 .. MaxClicks
  BY IInvParts DEF Sender, TypeOK
<1>2. Kept(rcv, s, b)
  BY <1>1, ButtonDownGood, ButtonUpGood
<1>3. SelectControl(rcv, p, ButtonMsg(b, d, x), again) = r
  BY SelectButton, SMT
<1>4. Loop(r) /\ Record(p, r) /\ running
      /\ UNCHANGED <<running, sessions, lost, visit>>
      /\ presses' = IF b \in r.buttons \ rcv.buttons /\ presses < MaxClicks
                    THEN presses + 1 ELSE presses
  BY <1>3 DEF OnButton
<1>5. presses' \in 0 .. MaxClicks
  BY <1>1, <1>4, ReceiverAssumption
<1>6. Clicked(r, presses')
  <2>1. CASE rcv.driver = p /\ d
    BY <1>4, <1>5, <2>1, ButtonClicks
  <2>2. CASE rcv.driver = p /\ ~d
    <3>1. /\ r.buttons \subseteq rcv.buttons /\ r.clicks = rcv.clicks
          /\ r.lastClick = rcv.lastClick
      BY <1>1, <2>2, ButtonUpGood
    <3>2. presses' = presses
      BY <1>4, <3>1
    <3> QED
      BY <1>1, <3>1, <3>2 DEF Clicked
  <2>3. CASE rcv.driver # p
    <3>1. r = rcv /\ presses' = presses
      BY <1>4, <2>3
    <3> QED
      BY <1>1, <3>1
  <2> QED
    BY <2>1, <2>2, <2>3
<1> HIDE DEF s
<1>7. Good(r) /\ r.driver = rcv.driver /\ r.entered = rcv.entered
  BY <1>1, <1>2 DEF Kept
<1>8. Held(r, pressedBy')
  <2>1. CASE rcv.driver = p
    BY <1>1, <1>2, <1>4, <2>1, KeptHeld
  <2>2. CASE rcv.driver # p
    BY <1>1, <1>4, <2>2, SameHeld
  <2> QED
    BY <2>1, <2>2
<1> HIDE DEF r
<1> QED
  BY <1>1, <1>4, <1>5, <1>6, <1>7, <1>8, QuietStep

LEMMA MotionStep ==
    ASSUME IInv, NEW p \in Sender, NEW s \in SeqNo, NEW x \in Pos, OnMotion(p, s, x)
    PROVE  IInv'
<1> DEFINE r == SelectMotion(rcv, p, s, x)
<1>1. p \in Peer /\ Good(rcv) /\ TypeOK /\ Held(rcv, pressedBy) /\ Clicked(rcv, presses)
  BY IInvParts DEF Sender, TypeOK
<1>2. /\ Good(r) /\ r.driver = rcv.driver /\ r.entered = rcv.entered
      /\ Injected(r) = Injected(rcv)
      /\ r.buttons = rcv.buttons /\ r.clicks = rcv.clicks
      /\ r.lastClick = rcv.lastClick
  BY <1>1, MotionGood DEF SelectMotion
<1>3. Loop(r) /\ Record(p, r) /\ running
      /\ UNCHANGED <<running, sessions, lost, visit, presses>>
  BY DEF OnMotion
<1> HIDE DEF r
<1>4. Held(r, pressedBy') /\ Clicked(r, presses)
  BY <1>1, <1>2, <1>3, SameHeld DEF Clicked
<1> QED
  BY <1>1, <1>2, <1>3, <1>4, QuietStep DEF TypeOK

LEMMA LocalActivityStep ==
    ASSUME IInv, OnLocalActivity
    PROVE  IInv'
<1> DEFINE r == StopDriving(rcv)
<1>1. Good(r) /\ r.driver = rcv.driver /\ Clicked(r, presses) /\ Injected(r) = {}
  BY StopDrivingKeeps
<1>2. Loop(r) /\ Record(NoPeer, r) /\ running
      /\ UNCHANGED <<running, sessions, lost, visit, presses>>
  BY DEF OnLocalActivity
<1> HIDE DEF r
<1> QED
  BY <1>1, <1>2, QuietStep DEF IInv, TypeOK, Held

LEMMA DisconnectedStep ==
    ASSUME IInv, NEW p \in Peer, OnDisconnected(p)
    PROVE  IInv'
<1> DEFINE s == StopDriving(rcv)
           r == IF rcv.driver = p THEN [s EXCEPT !.driver = NoPeer] ELSE rcv
<1>1. /\ Good(rcv) /\ TypeOK /\ Held(rcv, pressedBy) /\ Clicked(rcv, presses)
      /\ rcv.driver \in sessions \union lost \union {NoPeer}
  BY IInvParts DEF IInv, DriverIsConnected, OnDisconnected
<1>2. Good(s) /\ s.driver = rcv.driver /\ Clicked(s, presses) /\ Injected(s) = {}
      /\ ~s.entered
  BY StopDrivingKeeps
<1>3. Loop(r) /\ Record(NoPeer, r) /\ running
      /\ lost' = lost \ {p} /\ UNCHANGED <<running, sessions, visit, presses>>
  BY DEF OnDisconnected, SelectDisconnected
<1> HIDE DEF s
<1>4. Good(r) /\ Clicked(r, presses) /\ (r = rcv \/ Injected(r) = {})
      /\ r.driver = IF rcv.driver = p THEN NoPeer ELSE rcv.driver
  BY <1>1, <1>2 DEF ReceiverState, Tracked, Clicked, Injected
<1> HIDE DEF r
<1>5. rcv' = r
  BY <1>3, <1>4, LoopStep
<1>6. Held(r, pressedBy') /\ pressedBy' \in [Item -> Peer \union {NoPeer}]
  BY <1>1, <1>3, <1>4, SameHeld, RecordStep DEF Held
<1>7. running' => r.driver \in sessions' \union lost' \union {NoPeer}
  BY <1>1, <1>3, <1>4
<1> QED
  BY <1>1, <1>3, <1>4, <1>5, <1>6, <1>7, StepTo DEF TypeOK

LEMMA StopStep ==
    ASSUME IInv, OnStop
    PROVE  IInv'
<1> DEFINE r == StopDriving(rcv)
<1>1. Good(r) /\ ~r.entered /\ Clicked(r, presses) /\ Injected(r) = {}
  BY StopDrivingKeeps
<1>2. Loop(r) /\ Record(NoPeer, r) /\ running' = FALSE
      /\ sessions' = {} /\ lost' = {} /\ UNCHANGED <<visit, presses>>
  BY DEF OnStop
<1> HIDE DEF r
<1>3. rcv' = r /\ pressedBy' \in [Item -> Peer \union {NoPeer}] /\ Held(r, pressedBy')
  BY <1>1, <1>2, LoopStep, RecordStep, IInvParts DEF Held
<1> QED
  BY <1>1, <1>2, <1>3, StepTo DEF IInv, TypeOK

LEMMA StartStep ==
    ASSUME IInv, Start
    PROVE  IInv'
<1> DEFINE r == NewReceiver({}, {}, rcv.osPos)
<1>1. Good(rcv) /\ TypeOK /\ ~rcv.entered
  BY IInvParts DEF IInv, Start
<1>2. rcv.osKeys = {} /\ rcv.osButtons = {} /\ rcv.osPos \in Pos
  BY <1>1 DEF Tracked, ReceiverState
<1>3. rcv' = r
  BY <1>2 DEF Start
<1>4. Good(r) /\ ~r.entered /\ Injected(r) = {} /\ r.driver = NoPeer
  BY <1>2, NewGood DEF NewReceiver, Injected
<1>5. Clicked(r, presses)
  BY <1>1 DEF Clicked, NewReceiver, NoClick, TypeOK
<1> HIDE DEF r
<1> QED
  BY <1>1, <1>3, <1>4, <1>5, StepTo DEF Start, TypeOK, Held

(***************************************************************************)
(* The invariant holds of every behaviour of the injection thread.         *)
(***************************************************************************)
THEOREM NextIInv == IInv /\ [Next]_vars => IInv'
<1> SUFFICES ASSUME IInv, [Next]_vars PROVE IInv'
  OBVIOUS
<1>1. ASSUME NEW p \in Sender, NEW s \in SeqNo, NEW x \in Pos, OnEnter(p, s, x)
      PROVE  IInv'
  BY <1>1, EnterStep
<1>2. ASSUME NEW p \in Sender, NEW s \in SeqNo, NEW x \in Pos, OnMotion(p, s, x)
      PROVE  IInv'
  BY <1>2, MotionStep
<1>3. ASSUME NEW p \in Sender, OnLeave(p)
      PROVE  IInv'
  BY <1>3, LeaveStep
<1>4. ASSUME NEW p \in Sender, NEW k \in Key, NEW d \in BOOLEAN, OnKey(p, k, d)
      PROVE  IInv'
  BY <1>4, KeyStep
<1>5. ASSUME NEW p \in Sender, NEW b \in Button, NEW d \in BOOLEAN,
             NEW again \in BOOLEAN, NEW x \in Pos, OnButton(p, b, d, x, again)
      PROVE  IInv'
  BY <1>5, ButtonStep
<1>6. ASSUME NEW p \in Peer, OnDisconnected(p)
      PROVE  IInv'
  BY <1>6, DisconnectedStep
<1>7. ASSUME NEW p \in Peer, Connect(p) \/ Drop(p)
      PROVE  IInv'
  BY <1>7 DEF Connect, Drop, IInv, TypeOK, Tracked, HeldForDriver,
              DriverIsConnected, ClicksWithinVisit, Injected
<1>8. CASE OnLocalActivity
  BY <1>8, LocalActivityStep
<1>9. CASE OnTimeout
  <2>1. rcv' = rcv
    BY <1>9, IInvParts, TickGood DEF OnTimeout
  <2> QED
    BY <1>9, <2>1 DEF OnTimeout, IInv, TypeOK, Tracked, HeldForDriver,
                      DriverIsConnected, ClicksWithinVisit, Injected
<1>10. CASE OnStop
  BY <1>10, StopStep
<1>11. CASE Start
  BY <1>11, StartStep
<1>12. CASE UNCHANGED vars
  BY <1>12 DEF vars, IInv, TypeOK, Tracked, HeldForDriver,
               DriverIsConnected, ClicksWithinVisit, Injected
<1> QED
  BY <1>1, <1>2, <1>3, <1>4, <1>5, <1>6, <1>7, <1>8, <1>9, <1>10, <1>11, <1>12
     DEF Next

THEOREM Invariance == Spec => []IInv
BY InitIInv, NextIInv, PTL DEF Spec

-----------------------------------------------------------------------------

(***************************************************************************)
(* The results: the safety properties InjectLoop's run checks.             *)
(***************************************************************************)

(* The types of the injection thread's state, for any constants. *)
THEOREM TypeCorrect == Spec => []TypeOK
BY Invariance, PTL DEF IInv

(* Nothing injected is down, and nothing repeats, while nobody drives. *)
THEOREM NothingStuck == Spec => []NothingHeldUnlessDriven
<1>1. IInv => NothingHeldUnlessDriven
  BY DEF IInv, TypeOK, Tracked, NothingHeldUnlessDriven, Injected
<1> QED
  BY <1>1, Invariance, PTL

(* Everything injected down was pressed by the machine driving now. *)
THEOREM OnlyTheDriversInput == Spec => []HeldForDriver
BY Invariance, PTL DEF IInv

(* Only a key that is down repeats. *)
THEOREM OnlyHeldKeysRepeat == Spec => []RepeatIsHeld
<1>1. IInv => RepeatIsHeld
  BY DEF IInv, TypeOK, Tracked, RepeatIsHeld
<1> QED
  BY <1>1, Invariance, PTL

(* The driver is always a peer whose connection the thread still counts on. *)
THEOREM DriverConnected == Spec => []DriverIsConnected
BY Invariance, PTL DEF IInv

(* No click continues one made before the driver's latest Enter. *)
THEOREM ClicksStartAfresh == Spec => []ClicksWithinVisit
BY Invariance, PTL DEF IInv

-----------------------------------------------------------------------------

(***************************************************************************)
(* The injection thread implements DrivenMachine.                          *)
(***************************************************************************)

LEMMA InitImplements == Init => Promise!Init
BY DEF Init, Promise!Init, Owner, NewReceiver, Injected

(* A call that changes at most one held thing is a press, a lift or nothing. *)
LEMMA KeptImplements ==
    ASSUME Good(rcv), NEW i \in Item, Kept(rcv, rcv', i)
    PROVE  [Promise!Next]_(Promise!vars)
<1>1. Owner' = Owner
  BY DEF Owner, Kept
<1>2. CASE Injected(rcv') = Injected(rcv)
  BY <1>1, <1>2 DEF Promise!vars
<1>3. CASE ~rcv.entered
  <2>1. Injected(rcv) = {} /\ Injected(rcv') = {}
    BY <1>3 DEF Kept, Tracked, Injected
  <2> QED
    BY <1>1, <2>1 DEF Promise!vars
<1>4. CASE rcv.entered /\ Injected(rcv') = Injected(rcv) \union {i}
  <2>1. Owner # NoPeer
    BY <1>4 DEF Owner, Tracked
  <2> QED
    BY <1>1, <1>4, <2>1 DEF Promise!Next, Promise!Press
<1>5. CASE rcv.entered /\ Injected(rcv') = Injected(rcv) \ {i}
  <2>1. Owner # NoPeer
    BY <1>5 DEF Owner, Tracked
  <2> QED
    BY <1>1, <1>5, <2>1 DEF Promise!Next, Promise!Lift
<1> QED
  BY <1>2, <1>3, <1>4, <1>5 DEF Kept

(* A step that ends a visit hands the machine back. *)
LEMMA EndImplements ==
    ASSUME ~rcv'.entered, Injected(rcv') = {}
    PROVE  [Promise!Next]_(Promise!vars)
BY DEF Owner, Promise!Next, Promise!HandBack

(* A step that leaves the receiver alone is a stutter. *)
LEMMA SameImplements ==
    ASSUME rcv' = rcv
    PROVE  [Promise!Next]_(Promise!vars)
BY DEF Owner, Injected, Promise!vars

LEMMA NextImplements ==
    ASSUME IInv, [Next]_vars
    PROVE  [Promise!Next]_(Promise!vars)
<1> USE IInvParts
<1>1. ASSUME NEW p \in Sender, NEW s \in SeqNo, NEW x \in Pos, OnEnter(p, s, x)
      PROVE  [Promise!Next]_(Promise!vars)
  <2> DEFINE r == Enter([rcv EXCEPT !.driver = p], s, x)
  <2>1. p \in Peer
    BY DEF Sender, TypeOK
  <2>2. SelectControl(rcv, p, EnterMsg(s, x), FALSE) = r
    BY <2>1, SelectEnter
  <2>3. Good(r) /\ r.entered /\ r.driver = p /\ Injected(r) = {}
    BY <2>1, EnterGood
  <2> HIDE DEF r
  <2>4. rcv' = r
    BY <1>1, <2>2, <2>3, LoopStep DEF OnEnter
  <2>5. Promise!TakeOver(p)
    BY <2>3, <2>4 DEF Promise!TakeOver, Owner
  <2> QED
    BY <2>1, <2>5 DEF Promise!Next
<1>2. ASSUME NEW p \in Sender, NEW s \in SeqNo, NEW x \in Pos, OnMotion(p, s, x)
      PROVE  [Promise!Next]_(Promise!vars)
  <2> DEFINE r == SelectMotion(rcv, p, s, x)
  <2>1. Good(r) /\ r.driver = rcv.driver /\ r.entered = rcv.entered
        /\ Injected(r) = Injected(rcv)
    BY MotionGood DEF SelectMotion
  <2> HIDE DEF r
  <2>2. rcv' = r
    BY <1>2, <2>1, LoopStep DEF OnMotion, r
  <2> QED
    BY <2>1, <2>2 DEF Owner, Promise!vars
<1>3. ASSUME NEW p \in Sender, OnLeave(p)
      PROVE  [Promise!Next]_(Promise!vars)
  <2> DEFINE r == IF rcv.driver = p THEN StopDriving(rcv) ELSE rcv
  <2>1. Good(r) /\ (r = rcv \/ (~r.entered /\ Injected(r) = {}))
    BY StopDrivingKeeps
  <2>2. SelectControl(rcv, p, LeaveMsg, FALSE) = r
    BY SelectLeave
  <2> HIDE DEF r
  <2>3. rcv' = r
    BY <1>3, <2>1, <2>2, LoopStep DEF OnLeave
  <2> QED
    BY <2>1, <2>3, EndImplements, SameImplements
<1>4. ASSUME NEW p \in Sender, NEW k \in Key, NEW d \in BOOLEAN, OnKey(p, k, d)
      PROVE  [Promise!Next]_(Promise!vars)
  <2> DEFINE s == IF d THEN KeyDown(rcv, k) ELSE KeyUp(rcv, k)
             r == IF rcv.driver = p THEN s ELSE rcv
  <2>1. Kept(rcv, s, k)
    BY KeyDownGood, KeyUpGood
  <2>2. SelectControl(rcv, p, KeyMsg(k, d), FALSE) = r
    BY SelectKey, ZenonT(60)
  <2> HIDE DEF s
  <2>3. Good(r)
    BY <2>1 DEF Kept
  <2>4. rcv' = r
    BY <1>4, <2>2, <2>3, LoopStep DEF OnKey
  <2> QED
    BY <2>1, <2>4, KeptImplements, SameImplements DEF Item
<1>5. ASSUME NEW p \in Sender, NEW b \in Button, NEW d \in BOOLEAN,
             NEW again \in BOOLEAN, NEW x \in Pos, OnButton(p, b, d, x, again)
      PROVE  [Promise!Next]_(Promise!vars)
  <2> DEFINE s == IF d THEN ButtonDown(rcv, b, x, again) ELSE ButtonUp(rcv, b, x)
             r == IF rcv.driver = p THEN s ELSE rcv
  <2>1. Kept(rcv, s, b)
    BY ButtonDownGood, ButtonUpGood
  <2>2. SelectControl(rcv, p, ButtonMsg(b, d, x), again) = r
    BY SelectButton, SMT
  <2> HIDE DEF s
  <2>3. Good(r)
    BY <2>1 DEF Kept
  <2>4. rcv' = r
    BY <1>5, <2>2, <2>3, LoopStep DEF OnButton
  <2> QED
    BY <2>1, <2>4, KeptImplements, SameImplements DEF Item
<1>6. ASSUME NEW p \in Peer, OnDisconnected(p)
      PROVE  [Promise!Next]_(Promise!vars)
  <2> DEFINE s == StopDriving(rcv)
             r == IF rcv.driver = p THEN [s EXCEPT !.driver = NoPeer] ELSE rcv
  <2>1. Good(s) /\ Injected(s) = {} /\ ~s.entered
    BY StopDrivingKeeps
  <2> HIDE DEF s
  <2>2. Good(r) /\ (r = rcv \/ (~r.entered /\ Injected(r) = {}))
    BY <2>1 DEF ReceiverState, Tracked, Injected
  <2>3. Loop(r)
    BY <1>6 DEF OnDisconnected, SelectDisconnected, s
  <2> HIDE DEF r
  <2>4. rcv' = r
    BY <2>2, <2>3, LoopStep
  <2> QED
    BY <2>2, <2>4, EndImplements, SameImplements
<1>7. ASSUME NEW p \in Peer, Connect(p) \/ Drop(p)
      PROVE  [Promise!Next]_(Promise!vars)
  BY <1>7, SameImplements DEF Connect, Drop
<1>8. CASE OnLocalActivity \/ OnStop
  <2>1. Good(StopDriving(rcv)) /\ Injected(StopDriving(rcv)) = {}
        /\ ~StopDriving(rcv).entered
    BY StopDrivingKeeps
  <2>2. rcv' = StopDriving(rcv)
    BY <1>8, <2>1, LoopStep DEF OnLocalActivity, OnStop
  <2> QED
    BY <2>1, <2>2, EndImplements
<1>9. CASE OnTimeout
  BY <1>9, TickGood, SameImplements DEF OnTimeout
<1>10. CASE Start
  <2>1. ~rcv.entered /\ Injected(rcv) = {}
    BY <1>10 DEF IInv, Start, Tracked, Injected
  <2>2. ~rcv'.entered /\ Injected(rcv') = Injected(rcv)
    BY <1>10 DEF Start, NewReceiver, Injected
  <2> QED
    BY <2>1, <2>2, EndImplements
<1>11. CASE UNCHANGED vars
  BY <1>11, SameImplements DEF vars
<1> QED
  BY <1>1, <1>2, <1>3, <1>4, <1>5, <1>6, <1>7, <1>8, <1>9, <1>10, <1>11 DEF Next

(***************************************************************************)
(* Seen from the OS, the injection thread is a DrivenMachine: one owner at *)
(* a time, nothing held across a change of owner, nothing held by nobody.  *)
(***************************************************************************)
THEOREM Implementation == Spec => ImplementsDrivenMachine
<1>1. IInv /\ [Next]_vars => [Promise!Next]_(Promise!vars)
  BY NextImplements
<1> QED
  BY InitImplements, <1>1, Invariance, PTL
     DEF Spec, ImplementsDrivenMachine, Promise!Spec

-----------------------------------------------------------------------------

(***************************************************************************)
(* Where the pointer goes.  A call of the receiver that moves the OS       *)
(* pointer used a newer datagram, or pressed or released a button.         *)
(***************************************************************************)
MovedRightly(r, s) ==
    s.osPos # r.osPos => Newer(s.last, r.last) \/ s.buttons # r.buttons

(* StopDriving moves the pointer only by releasing the buttons that are down. *)
LEMMA StopDrivingMoves ==
    ASSUME NEW r, Good(r)
    PROVE  MovedRightly(r, StopDriving(r))
<1>1. StopDriving(r).buttons = {}
  BY ReleaseAllGood, StopDrivingGood DEF Tracked
<1>2. r.buttons = {} => StopDriving(r).osPos = r.osPos
  BY DEF StopDriving, ReleaseAll, ReceiverState
<1> QED
  BY <1>1, <1>2 DEF MovedRightly

(* KeyDown and KeyUp move nothing. *)
LEMMA KeyMoves ==
    ASSUME NEW r, Good(r), NEW k
    PROVE  MovedRightly(r, KeyDown(r, k)) /\ MovedRightly(r, KeyUp(r, k))
<1>1. KeyDown(r, k).osPos = r.osPos
  BY DEF KeyDown, ReceiverState
<1>2. KeyUp(r, k).osPos = r.osPos
  BY DEF KeyUp, ReceiverState
<1> QED
  BY <1>1, <1>2 DEF MovedRightly

(* ButtonDown and ButtonUp move the pointer only if they press or release. *)
LEMMA ButtonMoves ==
    ASSUME NEW r, Good(r), NEW b, NEW x, NEW again
    PROVE  MovedRightly(r, ButtonDown(r, b, x, again))
           /\ MovedRightly(r, ButtonUp(r, b, x))
<1>1. r.entered /\ b \notin r.buttons => b \in ButtonDown(r, b, x, again).buttons
  BY DEF ButtonDown, ReceiverState
<1>2. ~(r.entered /\ b \notin r.buttons) => ButtonDown(r, b, x, again) = r
  BY DEF ButtonDown
<1>3. b \in r.buttons => b \notin ButtonUp(r, b, x).buttons
  BY DEF ButtonUp, ReceiverState
<1>4. b \notin r.buttons => ButtonUp(r, b, x) = r
  BY DEF ButtonUp
<1> QED
  BY <1>1, <1>2, <1>3, <1>4 DEF MovedRightly

(* Motion moves the pointer only for a newer datagram, and remembers it. *)
LEMMA MotionMoves ==
    ASSUME NEW r, Good(r), NEW s, NEW x
    PROVE  MovedRightly(r, Motion(r, s, x))
<1>1. r.entered /\ Newer(s, r.last) => Motion(r, s, x).last = s
  BY DEF Motion, ReceiverState
<1>2. ~(r.entered /\ Newer(s, r.last)) => Motion(r, s, x) = r
  BY DEF Motion
<1> QED
  BY <1>1, <1>2 DEF MovedRightly

(* A pass of the loop moves the pointer as its message did. *)
LEMMA LoopMoves ==
    ASSUME NEW r, Good(r), Loop(r), MovedRightly(rcv, r)
    PROVE  MovedRightly(rcv, rcv')
BY LoopStep

LEMMA NextMoves ==
    ASSUME IInv, [Next]_vars
    PROVE  visit' = visit => MovedRightly(rcv, rcv')
<1>0. Good(rcv) /\ TypeOK /\ MovedRightly(rcv, rcv)
  BY IInvParts DEF MovedRightly
<1>1. ASSUME NEW p \in Sender, NEW s \in SeqNo, NEW x \in Pos, OnEnter(p, s, x)
      PROVE  visit' # visit
  BY <1>0, <1>1 DEF OnEnter, TypeOK
<1>2. ASSUME NEW p \in Sender, NEW s \in SeqNo, NEW x \in Pos, OnMotion(p, s, x)
      PROVE  MovedRightly(rcv, rcv')
  <2> DEFINE r == SelectMotion(rcv, p, s, x)
  <2>1. Good(r) /\ MovedRightly(rcv, r)
    BY <1>0, MotionGood, MotionMoves DEF SelectMotion
  <2> QED
    BY <1>2, <2>1, LoopMoves DEF OnMotion
<1>3. ASSUME NEW p \in Sender, OnLeave(p)
      PROVE  MovedRightly(rcv, rcv')
  <2> DEFINE r == IF rcv.driver = p THEN StopDriving(rcv) ELSE rcv
  <2>1. Good(r) /\ MovedRightly(rcv, r)
    BY <1>0, StopDrivingGood, StopDrivingMoves
  <2>2. SelectControl(rcv, p, LeaveMsg, FALSE) = r
    BY SelectLeave
  <2> QED
    BY <1>3, <2>1, <2>2, LoopMoves DEF OnLeave
<1>4. ASSUME NEW p \in Sender, NEW k \in Key, NEW d \in BOOLEAN, OnKey(p, k, d)
      PROVE  MovedRightly(rcv, rcv')
  <2> DEFINE s == IF d THEN KeyDown(rcv, k) ELSE KeyUp(rcv, k)
             r == IF rcv.driver = p THEN s ELSE rcv
  <2>1. Good(s) /\ MovedRightly(rcv, s)
    BY <1>0, KeyDownGood, KeyUpGood, KeyMoves DEF Kept
  <2>2. SelectControl(rcv, p, KeyMsg(k, d), FALSE) = r
    BY SelectKey, ZenonT(60)
  <2> HIDE DEF s
  <2> QED
    BY <1>0, <1>4, <2>1, <2>2, LoopMoves DEF OnKey
<1>5. ASSUME NEW p \in Sender, NEW b \in Button, NEW d \in BOOLEAN,
             NEW again \in BOOLEAN, NEW x \in Pos, OnButton(p, b, d, x, again)
      PROVE  MovedRightly(rcv, rcv')
  <2> DEFINE s == IF d THEN ButtonDown(rcv, b, x, again) ELSE ButtonUp(rcv, b, x)
             r == IF rcv.driver = p THEN s ELSE rcv
  <2>1. Good(s) /\ MovedRightly(rcv, s)
    BY <1>0, ButtonDownGood, ButtonUpGood, ButtonMoves DEF Kept
  <2>2. SelectControl(rcv, p, ButtonMsg(b, d, x), again) = r
    BY SelectButton, SMT
  <2> HIDE DEF s
  <2> QED
    BY <1>0, <1>5, <2>1, <2>2, LoopMoves DEF OnButton
<1>6. ASSUME NEW p \in Peer, OnDisconnected(p)
      PROVE  MovedRightly(rcv, rcv')
  <2> DEFINE s == StopDriving(rcv)
             r == IF rcv.driver = p THEN [s EXCEPT !.driver = NoPeer] ELSE rcv
  <2>1. Good(s) /\ ~s.entered /\ MovedRightly(rcv, s)
    BY <1>0, StopDrivingGood, StopDrivingMoves
  <2> HIDE DEF s
  <2>2. Good(r) /\ MovedRightly(rcv, r)
    BY <1>0, <2>1 DEF ReceiverState, Tracked, MovedRightly
  <2>3. Loop(r)
    BY <1>6 DEF OnDisconnected, SelectDisconnected, s
  <2> QED
    BY <2>2, <2>3, LoopMoves
<1>7. CASE OnLocalActivity \/ OnStop
  BY <1>0, <1>7, StopDrivingGood, StopDrivingMoves, LoopMoves
     DEF OnLocalActivity, OnStop
<1>8. CASE OnTimeout
  BY <1>0, <1>8, TickGood DEF OnTimeout
<1>9. CASE Start
  BY <1>9 DEF Start, NewReceiver, MovedRightly
<1>10. ASSUME NEW p \in Peer, Connect(p) \/ Drop(p)
       PROVE  MovedRightly(rcv, rcv')
  BY <1>0, <1>10 DEF Connect, Drop
<1>11. CASE UNCHANGED vars
  BY <1>0, <1>11 DEF vars
<1> QED
  BY <1>1, <1>2, <1>3, <1>4, <1>5, <1>6, <1>7, <1>8, <1>9, <1>10, <1>11 DEF Next

(***************************************************************************)
(* Within a visit a late or repeated datagram never moves the pointer:     *)
(* whatever moves it is newer than all used before, or a click             *)
(* (Receiver::motion and release_all).                                     *)
(***************************************************************************)
THEOREM OnlyNewMotionMoves == Spec => MotionNeverGoesBack
<1>1. IInv /\ [Next]_vars =>
         [ visit' = visit /\ rcv'.osPos # rcv.osPos =>
             \/ Newer(rcv'.last, rcv.last)
             \/ rcv'.buttons # rcv.buttons ]_vars
  BY NextMoves DEF MovedRightly
<1> QED
  BY <1>1, Invariance, PTL DEF Spec, MotionNeverGoesBack
=============================================================================
