------------------------------ MODULE Receiver ------------------------------
(***************************************************************************)
(* The controlled side of a machine: the receiver that turns a driver's    *)
(* messages into injected input (legato-core/src/receiver.rs), behind the  *)
(* selector that lets only one peer's input through                        *)
(* (legato-engine/src/run/input.rs).                                       *)
(*                                                                         *)
(* A receiver is a record.  Next to the code's fields it carries what the  *)
(* injections did to this machine's OS: the keys and buttons injected down *)
(* and not yet up, and where the OS pointer was last put.  Every operator  *)
(* is the effect of one call: its new state, with its injections applied.  *)
(* Times are abstracted: whether a press is near and soon enough to        *)
(* continue a double-click is the parameter again.  A press that the       *)
(* receiver forwards as a Scroll changes no state and is left out.         *)
(***************************************************************************)
EXTENDS Wire, FiniteSets

CONSTANTS
    Peer,       \* machines that may drive this one
    NoPeer,     \* None, as a driver
    Key,        \* HID usages
    RepeatKey,  \* those that auto-repeat (not modifiers, not Caps Lock)
    NoKey,      \* None, as the repeating key
    Button,     \* mouse buttons
    Pos,        \* positions on this machine's screens
    Origin,     \* Point::default()
    MaxClicks   \* where the click count saturates, 255 in the code

ASSUME ReceiverAssumption ==
    /\ NoPeer \notin Peer
    /\ NoKey \notin Key
    /\ RepeatKey \subseteq Key
    /\ Origin \in Pos
    /\ MaxClicks \in Nat \ {0}

NoClick == [button |-> "none", clicks |-> 0]

ReceiverState ==
    [ driver    : Peer \union {NoPeer},   \* whose input is injected
      entered   : BOOLEAN,                \* between Enter and Leave or Yield
      last      : SeqNo,                  \* newest seq used
      cursor    : Pos,
      keys      : SUBSET Key,             \* pressed for the driver
      buttons   : SUBSET Button,
      clicks    : [Button -> 1 .. MaxClicks],
      repeat    : Key \union {NoKey},
      lastClick : [button : Button, clicks : 1 .. MaxClicks] \union {NoClick},
      osKeys    : SUBSET Key,             \* injected down in the OS
      osButtons : SUBSET Button,
      osPos     : Pos ]

(* Receiver::new; the OS side is what earlier injections left there. *)
NewReceiver(osKeys, osButtons, osPos) ==
    [ driver |-> NoPeer, entered |-> FALSE, last |-> 0, cursor |-> Origin,
      keys |-> {}, buttons |-> {}, clicks |-> [b \in Button |-> 1],
      repeat |-> NoKey, lastClick |-> NoClick,
      osKeys |-> osKeys, osButtons |-> osButtons, osPos |-> osPos ]

-----------------------------------------------------------------------------

(***************************************************************************)
(* The receiver's own calls.                                               *)
(***************************************************************************)

(* A button's release carries the cursor, so it moves the OS pointer too. *)
ReleaseAll(r) ==
    [r EXCEPT !.repeat = NoKey, !.keys = {}, !.buttons = {},
              !.osKeys = @ \ r.keys,
              !.osButtons = @ \ r.buttons,
              !.osPos = IF r.buttons = {} THEN @ ELSE r.cursor]

Enter(r, seq, pos) ==
    [ReleaseAll(r) EXCEPT !.entered = TRUE, !.last = seq, !.cursor = pos,
                          !.lastClick = NoClick, !.osPos = pos]

(* Mutant: Leave that forgets what it must release. *)
StopDrivingOnly(r) == [r EXCEPT !.entered = FALSE]

(* Leave, a lost connection and local input all end the visit this way. *)
StopDriving(r) == [ReleaseAll(r) EXCEPT !.entered = FALSE]

KeyDown(r, k) ==
    IF ~r.entered \/ k \in r.keys THEN r
    ELSE [r EXCEPT !.keys = @ \union {k},
                   !.osKeys = @ \union {k},
                   !.repeat = IF k \in RepeatKey THEN k ELSE @]

KeyUp(r, k) ==
    IF k \notin r.keys THEN r
    ELSE [r EXCEPT !.keys = @ \ {k},
                   !.osKeys = @ \ {k},
                   !.repeat = IF @ = k THEN NoKey ELSE @]

ClickCount(r, b, again) ==
    IF ~(r.lastClick.button = b /\ again) THEN 1
    ELSE IF r.lastClick.clicks < MaxClicks THEN r.lastClick.clicks + 1
    ELSE MaxClicks

ButtonDown(r, b, pos, again) ==
    LET count == ClickCount(r, b, again)
    IN IF ~r.entered \/ b \in r.buttons THEN r
       ELSE [r EXCEPT !.buttons = @ \union {b},
                      !.clicks[b] = count,
                      !.lastClick = [button |-> b, clicks |-> count],
                      !.cursor = pos,
                      !.osButtons = @ \union {b},
                      !.osPos = pos]

ButtonUp(r, b, pos) ==
    IF b \notin r.buttons THEN r
    ELSE [r EXCEPT !.buttons = @ \ {b}, !.cursor = pos,
                   !.osButtons = @ \ {b}, !.osPos = pos]

(* Mutant: motion is used whatever its sequence number. *)
MotionAnyOrder(r, seq, pos) ==
    IF ~r.entered THEN r
    ELSE [r EXCEPT !.last = seq, !.cursor = pos,
                   !.osPos = IF pos = r.cursor THEN @ ELSE pos]

Motion(r, seq, pos) ==
    IF ~r.entered \/ ~Newer(seq, r.last) THEN r
    ELSE [r EXCEPT !.last = seq, !.cursor = pos,
                   !.osPos = IF pos = r.cursor THEN @ ELSE pos]

(* The auto-repeat timer injects the repeating key down again. *)
Tick(r) ==
    IF r.repeat = NoKey THEN r
    ELSE [r EXCEPT !.osKeys = @ \union {r.repeat}]

(* Receiver::control *)
Handle(r, msg, again) ==
    CASE msg.type = "Enter" -> Enter(r, msg.seq, msg.pos)
      [] msg.type = "Leave" -> StopDriving(r)
      [] msg.type = "Key" /\ msg.down -> KeyDown(r, msg.key)
      [] msg.type = "Key" /\ ~msg.down -> KeyUp(r, msg.key)
      [] msg.type = "Button" /\ msg.down ->
            ButtonDown(r, msg.button, msg.pos, again)
      [] msg.type = "Button" /\ ~msg.down -> ButtonUp(r, msg.button, msg.pos)
      [] OTHER -> r

-----------------------------------------------------------------------------

(***************************************************************************)
(* The selector: only the driver's input reaches the receiver, and an      *)
(* Enter makes its sender the driver.                                      *)
(***************************************************************************)

(* Mutant: a selector that lets any peer's input through. *)
SelectAnyPeer(r, p, msg, again) ==
    Handle(IF msg.type = "Enter" THEN [r EXCEPT !.driver = p] ELSE r, msg, again)

SelectControl(r, p, msg, again) ==
    LET owned == IF msg.type = "Enter" THEN [r EXCEPT !.driver = p] ELSE r
    IN IF owned.driver = p THEN Handle(owned, msg, again) ELSE owned

SelectMotion(r, p, seq, pos) ==
    IF r.driver = p THEN Motion(r, seq, pos) ELSE r

SelectDisconnected(r, p) ==
    IF r.driver = p THEN [StopDriving(r) EXCEPT !.driver = NoPeer] ELSE r
=============================================================================
