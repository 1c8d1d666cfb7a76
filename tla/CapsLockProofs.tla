--------------------------- MODULE CapsLockProofs ---------------------------
(***************************************************************************)
(* Proofs about the shared Caps Lock: a press is one change among any      *)
(* machines, and two machines that have settled agree.                     *)
(***************************************************************************)
EXTENDS CapsLock, SequenceTheorems, TLAPS

(* What the engine keeps of a machine's Caps Lock. *)
Caps == [on : BOOLEAN, clock : Nat, settling : 0 .. SettleReads]

(* The changes m told p and p has not yet heard. *)
Way(m, p) == net[<<m, p>>]

Last(s) == s[Len(s)]

(***************************************************************************)
(* What a machine will have once it has heard all that is on its way to it *)
(* from a peer.  Clocks grow along the way, so the last change decides.    *)
(***************************************************************************)
OnAfter(c, s, peerFirst) ==
    IF s # <<>> /\ Wins(c, Last(s), peerFirst) THEN Last(s).on ELSE c.on

ClockAfter(c, s) == IF s = <<>> THEN c.clock ELSE Larger(c.clock, Last(s).clock)

(* What c has and its peer d has not is on its way, as what it said last. *)
OnItsWay(c, d, s) ==
    \/ c.clock <= d.clock
    \/ s # <<>> /\ Last(s).on = c.on /\ Last(s).clock = c.clock

Growing(s, clock) ==
    /\ \A i \in 1..Len(s) : s[i].clock <= clock
    /\ \A i, j \in 1..Len(s) : i < j => s[i].clock < s[j].clock

(* Two machines at c and d, with s on its way from the first to the other, *)
(* and r to it: both will come to the same.                                *)
Meet(c, d, s, r, peerFirst) ==
    /\ OnItsWay(c, d, s) /\ OnItsWay(d, c, r)
    /\ Growing(s, c.clock) /\ Growing(r, d.clock)
    /\ OnAfter(c, r, peerFirst) = OnAfter(d, s, ~peerFirst)
    /\ ClockAfter(c, r) = ClockAfter(d, s)

Both(m, p) == Meet(caps[m], caps[p], Way(m, p), Way(p, m), p < m)

(***************************************************************************)
(* From a settled state with all clocks at k to the last press: who has    *)
(* not heard of it is at k, and the machine where it was made, once it has *)
(* read it, has told those at k that it is connected to.                   *)
(***************************************************************************)
Has(m, on, k) == caps[m].on = on /\ caps[m].clock = k

Old(m, on, k)     == Has(m, on, k) /\ lock[m] = on /\ pressing[m] = 0
Pressed(m, on, k) == Has(m, on, k) /\ lock[m] = ~on /\ pressing[m] = 0
New(m, on, k)     == /\ Has(m, ~on, k + 1)
                     /\ \/ lock[m] = ~on /\ pressing[m] = 0
                        \/ lock[m] = on /\ pressing[m] = 1

IsOld(change, on, k) == change.on = on /\ change.clock = k
IsNew(change, on, k) == change.on = ~on /\ change.clock = k + 1

AllOld(on, k) == \A q \in Pair : \A i \in 1..Len(net[q]) : IsOld(net[q][i], on, k)

Quietly(on, k) == AllOld(on, k) /\ \A m \in Machine : Old(m, on, k)

Unread(o, on, k) ==
    /\ AllOld(on, k)
    /\ Pressed(o, on, k)
    /\ \A m \in Machine \ {o} : Old(m, on, k)

Spread(o, on, k) ==
    /\ \A q \in Pair : \A i \in 1..Len(net[q]) :
          IsOld(net[q][i], on, k) \/ IsNew(net[q][i], on, k)
    /\ New(o, on, k)
    /\ \A m \in Machine : Old(m, on, k) \/ New(m, on, k)
    /\ \A m \in Machine \ {o} : {o, m} \in up /\ Old(m, on, k) =>
          \E i \in 1..Len(Way(o, m)) : IsNew(Way(o, m)[i], on, k)

LastPress(on, k) ==
    /\ TypeOK /\ presses >= MaxPresses - 1
    /\ presses < MaxPresses => Quietly(on, k)
    /\ presses = MaxPresses =>
          \E o \in Machine : Unread(o, on, k) \/ Spread(o, on, k)
-----------------------------------------------------------------------------
LEMMA PairIs ==
    \A q \in Pair : /\ q = <<q[1], q[2]>> /\ q[1] \in Machine /\ q[2] \in Machine
                    /\ q[1] # q[2] /\ <<q[2], q[1]>> \in Pair
BY DEF Pair

LEMMA LocalIs ==
    ASSUME NEW c \in Caps, NEW on \in BOOLEAN
    PROVE  /\ Local(c, on) \in Caps
           /\ Local(c, on).clock = c.clock => Local(c, on).on = c.on
           /\ Local(c, on).clock # c.clock =>
                /\ c.settling = 0 /\ on # c.on
                /\ Local(c, on).clock = c.clock + 1 /\ Local(c, on).on = on
           /\ on # c.on /\ c.settling = 0 => Local(c, on).clock # c.clock
<1>1. CASE on = c.on
  <2>1. Local(c, on) = [c EXCEPT !.settling = 0]
    BY <1>1 DEF Local
  <2>2. 0 \in 0 .. SettleReads
    BY CapsLockAssumption
  <2> QED
    BY <1>1, <2>1, <2>2 DEF Caps
<1>2. CASE on # c.on /\ c.settling > 0
  <2>1. Local(c, on) = [c EXCEPT !.settling = c.settling - 1]
    BY <1>2 DEF Local
  <2>2. c.settling - 1 \in 0 .. SettleReads
    BY <1>2, CapsLockAssumption DEF Caps
  <2> QED
    BY <1>2, <2>1, <2>2 DEF Caps
<1>3. CASE on # c.on /\ ~(c.settling > 0)
  <2>1. Local(c, on) = [c EXCEPT !.on = on, !.clock = c.clock + 1]
    BY <1>3 DEF Local
  <2>2. c.settling = 0 /\ c.clock + 1 \in Nat /\ c.clock + 1 # c.clock
    BY <1>3, CapsLockAssumption DEF Caps
  <2>3. /\ Local(c, on) \in Caps
        /\ Local(c, on).on = on /\ Local(c, on).clock = c.clock + 1
    BY <2>1, <2>2 DEF Caps
  <2> QED
    BY <1>3, <2>2, <2>3
<1> QED
  BY <1>1, <1>2, <1>3

LEMMA RemoteIs ==
    ASSUME NEW c \in Caps, NEW change \in Change, NEW first \in BOOLEAN
    PROVE  /\ Remote(c, change, first) \in Caps
           /\ Remote(c, change, first).on = IF Wins(c, change, first) THEN change.on ELSE c.on
           /\ Remote(c, change, first).clock = Larger(c.clock, change.clock)
<1> DEFINE clock == Larger(c.clock, change.clock)
           heard == [c EXCEPT !.clock = clock]
<1>1. clock \in Nat
  BY DEF Larger, Caps, Change
<1>2. Remote(c, change, first) =
        IF Adopts(c, change, first)
        THEN [heard EXCEPT !.on = change.on, !.settling = SettleReads] ELSE heard
  BY DEF Remote
<1>3. SettleReads \in 0 .. SettleReads /\ change.on \in BOOLEAN
  BY CapsLockAssumption DEF Change
<1> HIDE DEF clock
<1>4. heard \in Caps /\ heard.on = c.on /\ heard.clock = clock
  BY <1>1 DEF Caps
<1> HIDE DEF heard
<1>5. CASE Adopts(c, change, first)
  BY <1>2, <1>3, <1>4, <1>5 DEF Caps, Adopts, clock
<1>6. CASE ~Adopts(c, change, first)
  <2>1. Wins(c, change, first) => change.on = c.on
    BY <1>6 DEF Adopts
  <2> QED
    BY <1>2, <1>4, <1>6, <2>1 DEF clock
<1> QED
  BY <1>5, <1>6

LEMMA AnnounceIs ==
    \A c \in Caps : /\ Announce(c) \in Change
                    /\ Announce(c).on = c.on /\ Announce(c).clock = c.clock
BY DEF Caps, Change, Announce

LEMMA TypeInit == Init => TypeOK
<1> USE CapsLockAssumption DEF Caps
<1>1. <<>> \in Seq(Change)
  OBVIOUS
<1>2. 0 \in 0 .. SettleReads /\ 0 \in 0 .. MaxPresses /\ 0 \in 0 .. MaxDrops
  OBVIOUS
<1> QED
  BY <1>1, <1>2 DEF Init, TypeOK

(* What each action does to the variables it changes. *)
LEMMA CheckIs ==
    ASSUME TypeOK, NEW m \in Machine, Check(m)
    PROVE  /\ caps' = [caps EXCEPT ![m] = Local(caps[m], lock[m])]
           /\ Local(caps[m], lock[m]) \in Caps
           /\ \A q \in Pair : net'[q] =
                IF q[1] = m /\ {m, q[2]} \in up /\ caps'[m].clock # caps[m].clock
                THEN Append(net[q], Announce(caps'[m])) ELSE net[q]
           /\ \A q \in Pair : net'[q] \in Seq(Change)
           /\ net' = [q \in Pair |-> net'[q]]
           /\ UNCHANGED <<lock, pressing, up, presses, drops>>
<1>1. caps[m] \in Caps /\ lock[m] \in BOOLEAN
  BY DEF TypeOK, Caps
<1> DEFINE c == Local(caps[m], lock[m])
<1>2. c \in Caps
  BY <1>1, LocalIs
<1>3. /\ caps' = [caps EXCEPT ![m] = c]
      /\ net' = [q \in Pair |-> IF q[1] = m /\ {m, q[2]} \in up /\ c.clock # caps[m].clock
                                THEN Append(net[q], Announce(c)) ELSE net[q]]
      /\ UNCHANGED <<lock, pressing, up, presses, drops>>
  BY DEF Check
<1>4. caps'[m] = c
  BY <1>3 DEF TypeOK
<1>5. Announce(c) \in Change
  BY <1>2, AnnounceIs
<1>6. \A q \in Pair : net[q] \in Seq(Change)
  BY DEF TypeOK
<1> HIDE DEF c
<1>7. \A q \in Pair : net'[q] \in Seq(Change)
  BY <1>3, <1>5, <1>6
<1> QED
  BY <1>2, <1>3, <1>4, <1>7 DEF c

LEMMA HearIs ==
    ASSUME TypeOK, NEW m \in Machine, NEW p \in Machine, m # p, Hear(m, p)
    PROVE  LET change == Head(Way(p, m)) IN
           /\ Way(p, m) # <<>> /\ change \in Change /\ Way(p, m) \in Seq(Change)
           /\ caps' = [caps EXCEPT ![m] = Remote(caps[m], change, p < m)]
           /\ Remote(caps[m], change, p < m) \in Caps
           /\ net' = [net EXCEPT ![<<p, m>>] = Tail(Way(p, m))]
           /\ Tail(Way(p, m)) \in Seq(Change)
           /\ IF Adopts(caps[m], change, p < m) THEN SetLock(m, change.on)
              ELSE UNCHANGED <<lock, pressing>>
           /\ UNCHANGED <<up, presses, drops>>
<1> DEFINE s == net[<<p, m>>]
<1>1. <<p, m>> \in Pair
  BY DEF Pair
<1>2. s \in Seq(Change) /\ s # <<>>
  BY <1>1 DEF TypeOK, Hear
<1>3. Head(s) \in Change /\ Tail(s) \in Seq(Change)
  BY <1>2
<1>4. caps[m] \in Caps /\ (p < m) \in BOOLEAN
  BY CapsLockAssumption DEF TypeOK, Caps
<1>5. Remote(caps[m], Head(s), p < m) \in Caps
  BY <1>3, <1>4, RemoteIs
<1>6. /\ caps' = [caps EXCEPT ![m] = Remote(caps[m], Head(s), p < m)]
      /\ net' = [net EXCEPT ![<<p, m>>] = Tail(s)]
      /\ IF Adopts(caps[m], Head(s), p < m) THEN SetLock(m, Head(s).on)
         ELSE UNCHANGED <<lock, pressing>>
      /\ UNCHANGED <<up, presses, drops>>
  BY DEF Hear
<1> QED
  BY <1>2, <1>3, <1>5, <1>6 DEF Way

LEMMA TypeNext == TypeOK /\ [Next]_vars => TypeOK'
<1> SUFFICES ASSUME TypeOK, [Next]_vars PROVE TypeOK'
  OBVIOUS
<1> USE CapsLockAssumption
<1>1. ASSUME NEW m \in Machine, Press(m) PROVE TypeOK'
  BY <1>1 DEF Press, TypeOK
<1>2. ASSUME NEW m \in Machine, Show(m) PROVE TypeOK'
  BY <1>2 DEF Show, TypeOK
<1>3. ASSUME NEW m \in Machine, Check(m) PROVE TypeOK'
  <2>1. net' \in [Pair -> Seq(Change)]
    BY <1>3, CheckIs
  <2> QED
    BY <1>3, CheckIs, <2>1 DEF TypeOK, Caps
<1>4. ASSUME NEW m \in Machine, NEW p \in Machine, m # p, Hear(m, p) PROVE TypeOK'
  <2>1. caps' \in [Machine -> Caps]
    BY <1>4, HearIs DEF TypeOK, Caps
  <2>2. net' \in [Pair -> Seq(Change)]
    BY <1>4, HearIs DEF TypeOK
  <2>3. lock' \in [Machine -> BOOLEAN] /\ pressing' \in [Machine -> Nat]
    <3>1. Head(Way(p, m)).on \in BOOLEAN
      BY <1>4, HearIs DEF Change
    <3>2. \/ SetLock(m, Head(Way(p, m)).on)
          \/ UNCHANGED <<lock, pressing>>
      BY <1>4, HearIs
    <3> QED
      BY <3>1, <3>2 DEF SetLock, TypeOK
  <2> QED
    BY <1>4, HearIs, <2>1, <2>2, <2>3 DEF TypeOK, Caps
<1>5. ASSUME NEW q \in Pair, Connect(q[1], q[2]) PROVE TypeOK'
  <2>1. /\ Announce(caps[q[1]]) \in Change /\ Announce(caps[q[2]]) \in Change
    BY <1>5, PairIs, AnnounceIs DEF TypeOK, Caps
  <2>2. /\ <<Announce(caps[q[1]])>> \in Seq(Change)
        /\ <<Announce(caps[q[2]])>> \in Seq(Change)
    BY <2>1
  <2>4. net' \in [Pair -> Seq(Change)]
    BY <1>5, <2>2, Zenon DEF Connect, TypeOK
  <2>3. up' \subseteq {{x[1], x[2]} : x \in Pair}
    BY <1>5 DEF Connect, TypeOK
  <2> QED
    BY <1>5, <2>4, <2>3 DEF Connect, TypeOK
<1>6. ASSUME NEW q \in Pair, Drop(q[1], q[2]) PROVE TypeOK'
  <2>1. <<>> \in Seq(Change)
    OBVIOUS
  <2>2. net' \in [Pair -> Seq(Change)]
    BY <1>6, <2>1, Zenon DEF Drop, TypeOK
  <2>3. up' \subseteq up /\ drops' \in 0 .. MaxDrops
    BY <1>6 DEF Drop, TypeOK
  <2>4. up' \subseteq {{x[1], x[2]} : x \in Pair}
    BY <2>3 DEF TypeOK
  <2> QED
    BY <1>6, <2>2, <2>3, <2>4 DEF Drop, TypeOK
<1>7. CASE UNCHANGED vars
  BY <1>7 DEF vars, TypeOK
<1> QED
  BY <1>1, <1>2, <1>3, <1>4, <1>5, <1>6, <1>7, PairIs DEF Next

(***************************************************************************)
(* Locks, clocks and messages keep their types, and an engine never waits  *)
(* longer than SETTLE_READS for a press to show (CapsLock, run).           *)
(***************************************************************************)
THEOREM Types == Spec => []TypeOK
BY TypeInit, TypeNext, PTL DEF Spec
-----------------------------------------------------------------------------
(***************************************************************************)
(* The last press.                                                         *)
(***************************************************************************)
LEMMA Apart ==
    ASSUME TypeOK, NEW on \in BOOLEAN, NEW k \in Nat, NEW m \in Machine
    PROVE  /\ ~(Old(m, on, k) /\ New(m, on, k))
           /\ ~(Old(m, on, k) /\ Pressed(m, on, k))
           /\ ~(New(m, on, k) /\ Pressed(m, on, k))
BY DEF Old, New, Pressed, Has

(* A machine that nothing happened to. *)
LEMMA StaysAs ==
    ASSUME NEW on, NEW k, NEW m,
           caps'[m].on = caps[m].on, caps'[m].clock = caps[m].clock,
           lock'[m] = lock[m], pressing'[m] = pressing[m]
    PROVE  /\ Old(m, on, k)' <=> Old(m, on, k)
           /\ New(m, on, k)' <=> New(m, on, k)
           /\ Pressed(m, on, k)' <=> Pressed(m, on, k)
BY DEF Old, New, Pressed, Has

LEMMA PressStarts ==
    ASSUME TypeOK, NEW on \in BOOLEAN, NEW k \in Nat, Quietly(on, k),
           NEW m \in Machine, Press(m)
    PROVE  Unread(m, on, k)'
<1>1. \A x \in Machine \ {m} : Old(x, on, k)'
  BY DEF Press, TypeOK, Quietly, Old, Has
<1>2. Old(m, on, k) /\ lock[m] \in BOOLEAN
  BY DEF Quietly, TypeOK
<1>3. lock'[m] = ~lock[m] /\ UNCHANGED <<caps, pressing, net>>
  BY DEF Press, TypeOK
<1>4. Pressed(m, on, k)'
  BY <1>2, <1>3 DEF Old, Pressed, Has
<1>5. AllOld(on, k)'
  BY <1>3 DEF Quietly, AllOld
<1> QED
  BY <1>1, <1>4, <1>5 DEF Unread

(* Injected presses are shown where the change was heard. *)
LEMMA ShowKeeps ==
    ASSUME TypeOK, NEW on \in BOOLEAN, NEW k \in Nat, NEW m \in Machine, Show(m)
    PROVE  /\ ~Old(m, on, k) /\ ~Pressed(m, on, k)
           /\ New(m, on, k) => New(m, on, k)'
           /\ \A x \in Machine \ {m} : lock'[x] = lock[x] /\ pressing'[x] = pressing[x]
           /\ UNCHANGED <<caps, up, net, presses>>
<1>1. /\ pressing[m] > 0
      /\ pressing'[m] = pressing[m] - 1 /\ lock'[m] = ~lock[m]
      /\ UNCHANGED <<caps, up, net, presses>>
  BY DEF Show, TypeOK
<1>2. \A x \in Machine \ {m} : lock'[x] = lock[x] /\ pressing'[x] = pressing[x]
  BY DEF Show, TypeOK
<1>3. ~Old(m, on, k) /\ ~Pressed(m, on, k)
  BY <1>1 DEF Old, Pressed
<1>4. ASSUME New(m, on, k) PROVE New(m, on, k)'
  <2>1. lock[m] = on /\ pressing[m] = 1 /\ Has(m, ~on, k + 1)
    BY <1>1, <1>4 DEF New
  <2>2. pressing'[m] = 0 /\ lock'[m] = ~on
    BY <1>1, <2>1
  <2> QED
    BY <1>1, <2>1, <2>2 DEF New, Has
<1> QED
  BY <1>1, <1>2, <1>3, <1>4

(* A reading that is no change, and one that is. *)
LEMMA CheckKeeps ==
    ASSUME TypeOK, NEW m \in Machine, Check(m), caps'[m].clock = caps[m].clock
    PROVE  /\ \A x \in Machine : caps'[x].on = caps[x].on /\ caps'[x].clock = caps[x].clock
           /\ UNCHANGED <<lock, pressing, up, net, presses>>
<1>1. caps'[m] = Local(caps[m], lock[m]) /\ caps[m] \in Caps /\ lock[m] \in BOOLEAN
  BY CheckIs DEF TypeOK, Caps
<1>2. caps'[m].on = caps[m].on
  BY <1>1, LocalIs
<1>3. \A x \in Machine \ {m} : caps'[x] = caps[x]
  BY CheckIs DEF TypeOK
<1>4. \A q \in Pair : net'[q] = net[q]
  BY CheckIs
<1>5. net' = net
  BY <1>4, CheckIs DEF TypeOK
<1> QED
  BY <1>2, <1>3, <1>5, CheckIs

LEMMA NoNews ==
    ASSUME TypeOK, NEW on \in BOOLEAN, NEW k \in Nat, NEW m \in Machine, Check(m),
           Old(m, on, k) \/ New(m, on, k)
    PROVE  caps'[m].clock = caps[m].clock
<1>1. caps'[m] = Local(caps[m], lock[m]) /\ caps[m] \in Caps /\ lock[m] \in BOOLEAN
  BY CheckIs DEF TypeOK, Caps
<1>2. pressing[m] > 0 => caps[m].settling > 0 \/ lock[m] = caps[m].on
  BY DEF Check
<1>3. lock[m] = caps[m].on \/ caps[m].settling > 0
  BY <1>2 DEF Old, New, Has
<1>4. caps[m].settling > 0 => caps[m].settling # 0
  OBVIOUS
<1> QED
  BY <1>1, <1>3, <1>4, LocalIs

LEMMA CheckSpreads ==
    ASSUME TypeOK, NEW on \in BOOLEAN, NEW k \in Nat, NEW o \in Machine, Unread(o, on, k),
           Check(o), caps'[o].clock # caps[o].clock
    PROVE  Spread(o, on, k)'
<1>1. caps'[o] = Local(caps[o], lock[o]) /\ caps[o] \in Caps /\ lock[o] \in BOOLEAN
  BY CheckIs DEF TypeOK, Caps
<1>2. Pressed(o, on, k) /\ UNCHANGED <<lock, pressing, up>>
  BY CheckIs DEF Unread
<1>3. caps'[o].on = lock[o] /\ caps'[o].clock = caps[o].clock + 1 /\ caps'[o] \in Caps
  BY <1>1, LocalIs
<1>4. New(o, on, k)'
  BY <1>2, <1>3 DEF Pressed, New, Has
<1>5. \A x \in Machine \ {o} : caps'[x] = caps[x]
  BY CheckIs DEF TypeOK
<1>6. \A x \in Machine \ {o} : Old(x, on, k)'
  BY <1>2, <1>5 DEF Unread, Old, Has
<1> DEFINE new == Announce(caps'[o])
<1>7. IsNew(new, on, k) /\ new \in Change
  BY <1>3, <1>4, AnnounceIs DEF New, Has, IsNew
<1>8. \A q \in Pair : net[q] \in Seq(Change)
  BY DEF TypeOK
<1>9. \A q \in Pair : net'[q] = IF q[1] = o /\ {o, q[2]} \in up THEN Append(net[q], new) ELSE net[q]
  BY CheckIs
<1> HIDE DEF new
<1>10. \A q \in Pair : \A i \in 1..Len(net'[q]) :
          IsOld(net'[q][i], on, k) \/ IsNew(net'[q][i], on, k)
  <2> SUFFICES ASSUME NEW q \in Pair, NEW i \in 1..Len(net'[q])
               PROVE  IsOld(net'[q][i], on, k) \/ IsNew(net'[q][i], on, k)
    OBVIOUS
  <2>1. \A j \in 1..Len(net[q]) : IsOld(net[q][j], on, k)
    BY DEF Unread, AllOld
  <2>2. net[q] \in Seq(Change)
    BY <1>8
  <2> HIDE DEF IsOld, IsNew
  <2>3. CASE net'[q] = net[q]
    BY <2>1, <2>3
  <2>4. CASE net'[q] = Append(net[q], new)
    BY <1>7, <2>1, <2>2, <2>4
  <2> QED
    BY <1>9, <2>3, <2>4
<1>11. ASSUME NEW m \in Machine \ {o}, {o, m} \in up'
       PROVE  \E i \in 1..Len(Way(o, m)') : IsNew(Way(o, m)'[i], on, k)
  <2>1. <<o, m>> \in Pair
    BY DEF Pair
  <2>2. net'[<<o, m>>] = Append(net[<<o, m>>], new)
    BY <1>2, <1>9, <1>11, <2>1
  <2>3. /\ Len(net'[<<o, m>>]) \in 1..Len(net'[<<o, m>>])
        /\ net'[<<o, m>>][Len(net'[<<o, m>>])] = new
    BY <1>7, <1>8, <2>1, <2>2
  <2> QED
    BY <1>7, <2>3 DEF Way
<1> QED
  BY <1>4, <1>6, <1>10, <1>11 DEF Spread

(* Hearing a change told before the press, or the press. *)
LEMMA HearEffect ==
    ASSUME TypeOK, NEW on \in BOOLEAN, NEW k \in Nat,
           NEW m \in Machine, NEW p \in Machine, m # p, Hear(m, p),
           NEW change, change = Head(Way(p, m))
    PROVE  /\ IsOld(change, on, k) => (Old(m, on, k) => Old(m, on, k)')
           /\ IsNew(change, on, k) => (Old(m, on, k) => New(m, on, k)')
           /\ IsOld(change, on, k) \/ IsNew(change, on, k) => (New(m, on, k) => New(m, on, k)')
           /\ IsOld(change, on, k) => (Pressed(m, on, k) => Pressed(m, on, k)')
<1> DEFINE first == p < m
<1>0. caps[m] \in Caps /\ first \in BOOLEAN
  BY CapsLockAssumption DEF TypeOK, Caps
<1>1. /\ caps[m] \in Caps /\ change \in Change /\ first \in BOOLEAN
      /\ caps'[m] = Remote(caps[m], change, first)
  <2>1. change \in Change /\ caps' = [caps EXCEPT ![m] = Remote(caps[m], change, first)]
    BY HearIs
  <2> QED
    BY <1>0, <2>1 DEF TypeOK
<1>2. lock[m] \in BOOLEAN /\ pressing[m] \in Nat
  BY DEF TypeOK
<1>3. IF Adopts(caps[m], change, first) THEN SetLock(m, change.on)
      ELSE UNCHANGED <<lock, pressing>>
  BY HearIs
<1> HIDE DEF first
<1>4. /\ caps'[m].on = IF Wins(caps[m], change, first) THEN change.on ELSE caps[m].on
      /\ caps'[m].clock = Larger(caps[m].clock, change.clock)
  BY <1>1, RemoteIs
<1>5. ASSUME change.on = caps[m].on, change.clock = caps[m].clock
      PROVE  /\ caps'[m].on = caps[m].on /\ caps'[m].clock = caps[m].clock
             /\ lock'[m] = lock[m] /\ pressing'[m] = pressing[m]
  BY <1>3, <1>4, <1>5 DEF Adopts, Larger
<1>6. ASSUME IsOld(change, on, k), Old(m, on, k) PROVE Old(m, on, k)'
  BY <1>5, <1>6 DEF IsOld, Old, Has
<1>7. ASSUME IsOld(change, on, k), Pressed(m, on, k) PROVE Pressed(m, on, k)'
  BY <1>5, <1>7 DEF IsOld, Pressed, Has
<1>8. ASSUME IsNew(change, on, k), New(m, on, k) PROVE New(m, on, k)'
  BY <1>5, <1>8 DEF IsNew, New, Has
<1>9. ASSUME IsOld(change, on, k), New(m, on, k) PROVE New(m, on, k)'
  <2>1. ~Wins(caps[m], change, first)
    BY <1>9 DEF IsOld, New, Has, Wins
  <2>2. Larger(caps[m].clock, change.clock) = caps[m].clock
    BY <1>9 DEF IsOld, New, Has, Larger
  <2>3. /\ caps'[m].on = caps[m].on /\ caps'[m].clock = caps[m].clock
        /\ lock'[m] = lock[m] /\ pressing'[m] = pressing[m]
    BY <1>3, <1>4, <2>1, <2>2 DEF Adopts
  <2> QED
    BY <1>9, <2>3 DEF New, Has
<1>10. ASSUME IsNew(change, on, k), Old(m, on, k) PROVE New(m, on, k)'
  <2>1. Wins(caps[m], change, first)
    BY <1>10 DEF IsNew, Old, Has, Wins
  <2>2. change.on # caps[m].on
    BY <1>10 DEF IsNew, Old, Has
  <2>3. Larger(caps[m].clock, change.clock) = k + 1
    BY <1>10 DEF IsNew, Old, Has, Larger
  <2>4. caps'[m].on = ~on /\ caps'[m].clock = k + 1
    BY <1>4, <1>10, <2>1, <2>3 DEF IsNew
  <2>5. SetLock(m, ~on)
    BY <1>3, <1>10, <2>1, <2>2 DEF Adopts, IsNew
  <2>6. lock[m] = on /\ pressing[m] = 0 /\ lock[m] # (~on)
    BY <1>10 DEF Old
  <2>7. CASE m \in Presses
    <3>1. lock'[m] = on /\ pressing'[m] = 1
      BY <2>5, <2>6, <2>7 DEF SetLock, TypeOK
    <3> QED
      BY <2>4, <3>1 DEF New, Has
  <2>8. CASE m \notin Presses
    <3>1. lock'[m] = ~on /\ pressing'[m] = 0
      BY <2>5, <2>6, <2>8 DEF SetLock, TypeOK
    <3> QED
      BY <2>4, <3>1 DEF New, Has
  <2> QED
    BY <2>7, <2>8
<1> QED
  BY <1>6, <1>7, <1>8, <1>9, <1>10

LEMMA HearElsewhere ==
    ASSUME TypeOK, NEW m \in Machine, NEW p \in Machine, m # p, Hear(m, p)
    PROVE  /\ \A x \in Machine \ {m} :
                caps'[x] = caps[x] /\ lock'[x] = lock[x] /\ pressing'[x] = pressing[x]
           /\ <<p, m>> \in Pair
           /\ Len(Way(p, m)) \in Nat \ {0}
           /\ Way(p, m)[1] = Head(Way(p, m))
           /\ Len(Way(p, m)') = Len(Way(p, m)) - 1
           /\ \A i \in 1..Len(Way(p, m)') : Way(p, m)'[i] = Way(p, m)[i + 1]
           /\ \A q \in Pair : q # <<p, m>> => net'[q] = net[q]
           /\ UNCHANGED <<up, presses>>
<1>1. /\ Way(p, m) # <<>> /\ Way(p, m) \in Seq(Change)
      /\ net' = [net EXCEPT ![<<p, m>>] = Tail(Way(p, m))]
      /\ caps' = [caps EXCEPT ![m] = Remote(caps[m], Head(Way(p, m)), p < m)]
      /\ UNCHANGED <<up, presses>>
  BY HearIs
<1>2. \A x \in Machine \ {m} : caps'[x] = caps[x]
  BY <1>1 DEF TypeOK
<1>3. SetLock(m, Head(Way(p, m)).on) \/ UNCHANGED <<lock, pressing>>
  BY HearIs
<1>4. \A x \in Machine \ {m} : lock'[x] = lock[x] /\ pressing'[x] = pressing[x]
  BY <1>3 DEF SetLock, TypeOK
<1>5. <<p, m>> \in Pair
  BY DEF Pair
<1>6. Way(p, m)' = Tail(Way(p, m)) /\ \A q \in Pair : q # <<p, m>> => net'[q] = net[q]
  BY <1>1, <1>5 DEF Way, TypeOK
<1> DEFINE s == Way(p, m)
<1>7. s # <<>> /\ s \in Seq(Change)
  BY <1>1
<1> HIDE DEF s
<1>8. /\ Len(s) \in Nat \ {0} /\ s[1] = Head(s) /\ Len(Tail(s)) = Len(s) - 1
      /\ \A i \in 1..Len(Tail(s)) : Tail(s)[i] = s[i + 1]
  BY <1>7
<1> QED
  BY <1>1, <1>2, <1>4, <1>5, <1>6, <1>8 DEF s

(* What is still on its way was on its way. *)
LEMMA HearTakes ==
    ASSUME TypeOK, NEW m \in Machine, NEW p \in Machine, m # p, Hear(m, p),
           NEW q \in Pair, NEW i \in 1..Len(net'[q])
    PROVE  \E j \in 1..Len(net[q]) : net'[q][i] = net[q][j]
<1>1. CASE q # <<p, m>>
  <2>1. net'[q] = net[q]
    BY <1>1, HearElsewhere
  <2> QED
    BY <2>1
<1>2. CASE q = <<p, m>>
  <2>1. /\ Len(net[q]) \in Nat \ {0} /\ Len(net'[q]) = Len(net[q]) - 1
        /\ \A j \in 1..Len(net'[q]) : net'[q][j] = net[q][j + 1]
    BY <1>2, HearElsewhere DEF Way
  <2>2. i + 1 \in 1..Len(net[q])
    BY <2>1
  <2> QED
    BY <2>1, <2>2
<1> QED
  BY <1>1, <1>2

LEMMA HearKeeps ==
    ASSUME TypeOK, NEW on \in BOOLEAN, NEW k \in Nat,
           NEW m \in Machine, NEW p \in Machine, m # p, Hear(m, p)
    PROVE  /\ Quietly(on, k) => Quietly(on, k)'
           /\ \A o \in Machine : Unread(o, on, k) => Unread(o, on, k)'
           /\ \A o \in Machine : Spread(o, on, k) => Spread(o, on, k)'
<1> DEFINE change == Head(Way(p, m))
<1>1. /\ <<p, m>> \in Pair /\ change = net[<<p, m>>][1] /\ 1 \in 1..Len(net[<<p, m>>])
      /\ UNCHANGED up
  BY HearElsewhere DEF Way
<1>2. \A x \in Machine \ {m} : /\ Old(x, on, k)' <=> Old(x, on, k)
                               /\ New(x, on, k)' <=> New(x, on, k)
                               /\ Pressed(x, on, k)' <=> Pressed(x, on, k)
  BY HearElsewhere, StaysAs
<1>3. /\ IsOld(change, on, k) => (Old(m, on, k) => Old(m, on, k)')
      /\ IsNew(change, on, k) => (Old(m, on, k) => New(m, on, k)')
      /\ IsOld(change, on, k) \/ IsNew(change, on, k) => (New(m, on, k) => New(m, on, k)')
      /\ IsOld(change, on, k) => (Pressed(m, on, k) => Pressed(m, on, k)')
  BY HearEffect
<1> HIDE DEF change
<1>4. ASSUME AllOld(on, k) PROVE AllOld(on, k)' /\ IsOld(change, on, k)
  <2>1. IsOld(change, on, k)
    BY <1>1, <1>4 DEF AllOld
  <2>2. \A q \in Pair : \A i \in 1..Len(net'[q]) : IsOld(net'[q][i], on, k)
    BY <1>4, HearTakes DEF AllOld
  <2> QED
    BY <2>1, <2>2 DEF AllOld
<1>5. ASSUME Quietly(on, k) PROVE Quietly(on, k)'
  BY <1>2, <1>3, <1>4, <1>5, Zenon DEF Quietly
<1>6. ASSUME NEW o \in Machine, Unread(o, on, k) PROVE Unread(o, on, k)'
  <2>1. AllOld(on, k)' /\ IsOld(change, on, k)
    BY <1>4, <1>6 DEF Unread
  <2>2. Pressed(o, on, k)'
    BY <1>2, <1>3, <1>6, <2>1, Zenon DEF Unread
  <2>3. ASSUME NEW x \in Machine \ {o} PROVE Old(x, on, k)'
    BY <1>2, <1>3, <1>6, <2>1, Zenon DEF Unread
  <2> QED
    BY <2>1, <2>2, <2>3 DEF Unread
<1>7. ASSUME NEW o \in Machine, Spread(o, on, k) PROVE Spread(o, on, k)'
  <2>1. IsOld(change, on, k) \/ IsNew(change, on, k)
    BY <1>1, <1>7 DEF Spread
  <2>2. \A q \in Pair : \A i \in 1..Len(net'[q]) :
            IsOld(net'[q][i], on, k) \/ IsNew(net'[q][i], on, k)
    BY <1>7, HearTakes DEF Spread
  <2>3. New(o, on, k)'
    BY <1>2, <1>3, <1>7, <2>1, Zenon DEF Spread
  <2>4. ASSUME NEW x \in Machine PROVE Old(x, on, k)' \/ New(x, on, k)'
    BY <1>2, <1>3, <1>7, <2>1, Zenon DEF Spread
  <2>5. ASSUME NEW x \in Machine \ {o}, {o, x} \in up', Old(x, on, k)'
        PROVE  \E i \in 1..Len(Way(o, x)') : IsNew(Way(o, x)'[i], on, k)
    <3>1. <<o, x>> \in Pair
      BY DEF Pair
    <3>2. ~New(x, on, k)'
      BY <2>5 DEF Old, New, Has
    <3>3. Old(x, on, k)
      BY <1>2, <1>3, <1>7, <2>1, <3>2, Zenon DEF Spread
    <3>4. PICK i \in 1..Len(Way(o, x)) : IsNew(Way(o, x)[i], on, k)
      BY <1>1, <1>7, <2>5, <3>3 DEF Spread
    <3>5. CASE <<o, x>> # <<p, m>>
      <4>1. Way(o, x)' = Way(o, x)
        BY <3>1, <3>5, HearElsewhere DEF Way
      <4> QED
        BY <3>4, <4>1
    <3>6. CASE o = p /\ x = m
      <4>1. ~IsNew(change, on, k)
        BY <1>3, <3>2, <3>3, <3>6
      <4>2. i # 1
        BY <1>1, <3>4, <3>6, <4>1 DEF Way
      <4>3. /\ Len(Way(o, x)) \in Nat \ {0} /\ Len(Way(o, x)') = Len(Way(o, x)) - 1
            /\ \A j \in 1..Len(Way(o, x)') : Way(o, x)'[j] = Way(o, x)[j + 1]
        BY <3>6, HearElsewhere
      <4>4. i - 1 \in 1..Len(Way(o, x)') /\ (i - 1) + 1 = i
        BY <3>4, <4>2, <4>3
      <4>5. Way(o, x)'[i - 1] = Way(o, x)[i]
        BY <4>3, <4>4
      <4> QED
        BY <3>4, <4>4, <4>5
    <3> QED
      BY <3>5, <3>6
  <2> QED
    BY <2>2, <2>3, <2>4, <2>5 DEF Spread
<1> QED
  BY <1>5, <1>6, <1>7

(* A machine told on connecting hears what the other has. *)
LEMMA ConnectIs ==
    ASSUME TypeOK, NEW q \in Pair, Connect(q[1], q[2]), NEW r \in Pair
    PROVE  /\ UNCHANGED <<caps, lock, pressing, presses>>
           /\ IF {r[1], r[2]} = {q[1], q[2]}
              THEN net'[r] = <<Announce(caps[r[1]])>>
              ELSE net'[r] = net[r] /\ ({r[1], r[2]} \in up' => {r[1], r[2]} \in up)
<1>1. /\ q[1] \in Machine /\ q[2] \in Machine /\ q[1] # q[2] /\ r = <<r[1], r[2]>>
      /\ q = <<q[1], q[2]>> /\ <<q[2], q[1]>> \in Pair
  BY PairIs
<1>2. /\ up' = up \cup {{q[1], q[2]}}
      /\ net' = [net EXCEPT ![<<q[1], q[2]>>] = <<Announce(caps[q[1]])>>,
                            ![<<q[2], q[1]>>] = <<Announce(caps[q[2]])>>]
      /\ UNCHANGED <<caps, lock, pressing, presses>>
  BY DEF Connect
<1>3. {r[1], r[2]} = {q[1], q[2]} <=>
        \/ r[1] = q[1] /\ r[2] = q[2]
        \/ r[1] = q[2] /\ r[2] = q[1]
  BY <1>1, PairIs
<1>4. net \in [Pair -> Seq(Change)]
  BY DEF TypeOK
<1> DEFINE a == <<Announce(caps[q[1]])>>
           b == <<Announce(caps[q[2]])>>
           x == q[1]
           y == q[2]
<1>5. /\ <<x, y>> \in Pair /\ <<y, x>> \in Pair /\ <<x, y>> # <<y, x>>
      /\ net' = [net EXCEPT ![<<x, y>>] = a, ![<<y, x>>] = b]
  BY <1>1, <1>2
<1> HIDE DEF a, b, x, y
<1>6. /\ net'[<<x, y>>] = a /\ net'[<<y, x>>] = b
      /\ r # <<x, y>> /\ r # <<y, x>> => net'[r] = net[r]
  BY <1>4, <1>5
<1>7. CASE r = <<x, y>>
  <2>1. r[1] = x /\ r[2] = y /\ net'[r] = a
    BY <1>6, <1>7
  <2> QED
    BY <1>2, <1>3, <2>1 DEF a, x, y
<1>8. CASE r = <<y, x>>
  <2>1. r[1] = y /\ r[2] = x /\ net'[r] = b
    BY <1>6, <1>8
  <2> QED
    BY <1>2, <1>3, <2>1 DEF b, x, y
<1>9. CASE r # <<x, y>> /\ r # <<y, x>>
  <2>1. net'[r] = net[r] /\ {r[1], r[2]} # {q[1], q[2]}
    BY <1>1, <1>3, <1>6, <1>9 DEF x, y
  <2> QED
    BY <1>2, <2>1
<1> QED
  BY <1>7, <1>8, <1>9

LEMMA DropIs ==
    ASSUME TypeOK, NEW q \in Pair, Drop(q[1], q[2]), NEW r \in Pair
    PROVE  /\ UNCHANGED <<caps, lock, pressing, presses>>
           /\ net'[r] = IF {r[1], r[2]} = {q[1], q[2]} THEN <<>> ELSE net[r]
           /\ {r[1], r[2]} \in up' => {r[1], r[2]} \in up /\ {r[1], r[2]} # {q[1], q[2]}
<1>1. /\ q[1] \in Machine /\ q[2] \in Machine /\ q[1] # q[2] /\ r = <<r[1], r[2]>>
      /\ q = <<q[1], q[2]>> /\ <<q[2], q[1]>> \in Pair
  BY PairIs
<1>2. /\ up' = up \ {{q[1], q[2]}}
      /\ net' = [net EXCEPT ![<<q[1], q[2]>>] = <<>>, ![<<q[2], q[1]>>] = <<>>]
      /\ UNCHANGED <<caps, lock, pressing, presses>>
  BY DEF Drop
<1>3. {r[1], r[2]} = {q[1], q[2]} <=>
        \/ r[1] = q[1] /\ r[2] = q[2]
        \/ r[1] = q[2] /\ r[2] = q[1]
  BY <1>1, PairIs
<1>4. net \in [Pair -> Seq(Change)]
  BY DEF TypeOK
<1> DEFINE x == q[1]
           y == q[2]
<1>5. /\ <<x, y>> \in Pair /\ <<y, x>> \in Pair
      /\ net' = [net EXCEPT ![<<x, y>>] = <<>>, ![<<y, x>>] = <<>>]
  BY <1>1, <1>2
<1> HIDE DEF x, y
<1>6. /\ net'[<<x, y>>] = <<>> /\ net'[<<y, x>>] = <<>>
      /\ r # <<x, y>> /\ r # <<y, x>> => net'[r] = net[r]
  BY <1>4, <1>5
<1>7. CASE r = <<x, y>> \/ r = <<y, x>>
  <2>1. net'[r] = <<>> /\ {r[1], r[2]} = {q[1], q[2]}
    BY <1>6, <1>7 DEF x, y
  <2> QED
    BY <1>2, <2>1
<1>8. CASE r # <<x, y>> /\ r # <<y, x>>
  <2>1. net'[r] = net[r] /\ {r[1], r[2]} # {q[1], q[2]}
    BY <1>1, <1>3, <1>6, <1>8 DEF x, y
  <2> QED
    BY <1>2, <2>1
<1> QED
  BY <1>7, <1>8

LEMMA ConnectKeeps ==
    ASSUME TypeOK, NEW on \in BOOLEAN, NEW k \in Nat, NEW q \in Pair, Connect(q[1], q[2])
    PROVE  /\ Quietly(on, k) => Quietly(on, k)'
           /\ \A o \in Machine : Unread(o, on, k) => Unread(o, on, k)'
           /\ \A o \in Machine : Spread(o, on, k) => Spread(o, on, k)'
<1>1. \A x : /\ Old(x, on, k)' <=> Old(x, on, k)
             /\ New(x, on, k)' <=> New(x, on, k)
             /\ Pressed(x, on, k)' <=> Pressed(x, on, k)
  BY ConnectIs DEF Old, New, Pressed, Has
<1>2. \A x \in Machine :
        /\ Old(x, on, k) \/ Pressed(x, on, k) => IsOld(Announce(caps[x]), on, k)
        /\ New(x, on, k) => IsNew(Announce(caps[x]), on, k)
  <2>1. \A x \in Machine : caps[x] \in Caps
    BY DEF TypeOK, Caps
  <2> QED
    BY <2>1, AnnounceIs DEF Old, New, Pressed, Has, IsOld, IsNew
<1>3. \A s : Len(<<s>>) = 1 /\ <<s>>[1] = s
  OBVIOUS
<1>4. ASSUME AllOld(on, k), \A x \in Machine : Old(x, on, k) \/ Pressed(x, on, k)
      PROVE  AllOld(on, k)'
  <2> SUFFICES ASSUME NEW r \in Pair PROVE \A i \in 1..Len(net'[r]) : IsOld(net'[r][i], on, k)
    BY DEF AllOld
  <2>1. CASE {r[1], r[2]} = {q[1], q[2]}
    <3>1. net'[r] = <<Announce(caps[r[1]])>> /\ IsOld(Announce(caps[r[1]]), on, k)
      BY <1>2, <1>4, <2>1, ConnectIs, PairIs
    <3> QED
      BY <1>3, <3>1
  <2>2. CASE {r[1], r[2]} # {q[1], q[2]}
    BY <1>4, <2>2, ConnectIs DEF AllOld
  <2> QED
    BY <2>1, <2>2
<1>5. ASSUME Quietly(on, k) PROVE Quietly(on, k)'
  BY <1>1, <1>4, <1>5 DEF Quietly
<1>6. ASSUME NEW o \in Machine, Unread(o, on, k) PROVE Unread(o, on, k)'
  BY <1>1, <1>4, <1>6 DEF Unread
<1>7. ASSUME NEW o \in Machine, Spread(o, on, k) PROVE Spread(o, on, k)'
  <2>1. ASSUME NEW r \in Pair
        PROVE  \A i \in 1..Len(net'[r]) : IsOld(net'[r][i], on, k) \/ IsNew(net'[r][i], on, k)
    <3>1. CASE {r[1], r[2]} = {q[1], q[2]}
      <4>1. /\ net'[r] = <<Announce(caps[r[1]])>>
            /\ IsOld(Announce(caps[r[1]]), on, k) \/ IsNew(Announce(caps[r[1]]), on, k)
        BY <1>2, <1>7, <3>1, ConnectIs, PairIs DEF Spread
      <4> QED
        BY <1>3, <4>1
    <3>2. CASE {r[1], r[2]} # {q[1], q[2]}
      BY <1>7, <3>2, ConnectIs DEF Spread
    <3> QED
      BY <3>1, <3>2
  <2>2. ASSUME NEW x \in Machine \ {o}, {o, x} \in up', Old(x, on, k)'
        PROVE  \E i \in 1..Len(Way(o, x)') : IsNew(Way(o, x)'[i], on, k)
    <3>1. <<o, x>> \in Pair
      BY DEF Pair
    <3>2. CASE {o, x} = {q[1], q[2]}
      <4>1. net'[<<o, x>>] = <<Announce(caps[o])>> /\ IsNew(Announce(caps[o]), on, k)
        BY <1>2, <1>7, <3>1, <3>2, ConnectIs DEF Spread
      <4> QED
        BY <1>3, <4>1 DEF Way
    <3>3. CASE {o, x} # {q[1], q[2]}
      <4>1. net'[<<o, x>>] = net[<<o, x>>] /\ {o, x} \in up
        BY <2>2, <3>1, <3>3, ConnectIs
      <4> QED
        BY <1>1, <1>7, <2>2, <4>1 DEF Spread, Way
    <3> QED
      BY <3>2, <3>3
  <2> QED
    BY <1>1, <1>7, <2>1, <2>2 DEF Spread
<1> QED
  BY <1>5, <1>6, <1>7

LEMMA DropKeeps ==
    ASSUME TypeOK, NEW on \in BOOLEAN, NEW k \in Nat, NEW q \in Pair, Drop(q[1], q[2])
    PROVE  /\ Quietly(on, k) => Quietly(on, k)'
           /\ \A o \in Machine : Unread(o, on, k) => Unread(o, on, k)'
           /\ \A o \in Machine : Spread(o, on, k) => Spread(o, on, k)'
<1>1. \A x : /\ Old(x, on, k)' <=> Old(x, on, k)
             /\ New(x, on, k)' <=> New(x, on, k)
             /\ Pressed(x, on, k)' <=> Pressed(x, on, k)
  BY DropIs DEF Old, New, Pressed, Has
<1>2. \A r \in Pair : \A i \in 1..Len(net'[r]) : i \in 1..Len(net[r]) /\ net'[r][i] = net[r][i]
  <2>1. 1..Len(<<>>) = {}
    OBVIOUS
  <2> QED
    BY <2>1, DropIs
<1>3. ASSUME AllOld(on, k) PROVE AllOld(on, k)'
  BY <1>2, <1>3 DEF AllOld
<1>4. ASSUME Quietly(on, k) PROVE Quietly(on, k)'
  BY <1>1, <1>3, <1>4 DEF Quietly
<1>5. ASSUME NEW o \in Machine, Unread(o, on, k) PROVE Unread(o, on, k)'
  BY <1>1, <1>3, <1>5 DEF Unread
<1>6. ASSUME NEW o \in Machine, Spread(o, on, k) PROVE Spread(o, on, k)'
  <2>1. \A r \in Pair : \A i \in 1..Len(net'[r]) :
          IsOld(net'[r][i], on, k) \/ IsNew(net'[r][i], on, k)
    BY <1>2, <1>6 DEF Spread
  <2>2. ASSUME NEW x \in Machine \ {o}, {o, x} \in up', Old(x, on, k)'
        PROVE  \E i \in 1..Len(Way(o, x)') : IsNew(Way(o, x)'[i], on, k)
    <3>1. <<o, x>> \in Pair
      BY DEF Pair
    <3>2. net'[<<o, x>>] = net[<<o, x>>] /\ {o, x} \in up
      BY <2>2, <3>1, DropIs
    <3> QED
      BY <1>1, <1>6, <2>2, <3>2 DEF Spread, Way
  <2> QED
    BY <1>1, <1>6, <2>1, <2>2 DEF Spread
<1> QED
  BY <1>4, <1>5, <1>6

LEMMA CheckAll ==
    ASSUME TypeOK, NEW on \in BOOLEAN, NEW k \in Nat, NEW m \in Machine, Check(m)
    PROVE  /\ Quietly(on, k) => Quietly(on, k)'
           /\ \A o \in Machine : Unread(o, on, k) => Unread(o, on, k)' \/ Spread(o, on, k)'
           /\ \A o \in Machine : Spread(o, on, k) => Spread(o, on, k)'
<1>1. ASSUME caps'[m].clock = caps[m].clock
      PROVE  /\ Quietly(on, k) => Quietly(on, k)'
             /\ \A o \in Machine : Unread(o, on, k) => Unread(o, on, k)'
             /\ \A o \in Machine : Spread(o, on, k) => Spread(o, on, k)'
  <2>1. UNCHANGED <<lock, pressing, up, net>>
    BY <1>1, CheckKeeps
  <2>2. \A x \in Machine : /\ Old(x, on, k)' <=> Old(x, on, k)
                           /\ New(x, on, k)' <=> New(x, on, k)
                           /\ Pressed(x, on, k)' <=> Pressed(x, on, k)
    BY <1>1, CheckKeeps, StaysAs
  <2> QED
    BY <2>1, <2>2 DEF Quietly, Unread, Spread, AllOld, Way
<1>2. ASSUME NEW o \in Machine, Unread(o, on, k), caps'[m].clock # caps[m].clock
      PROVE  Spread(o, on, k)'
  <2>1. m = o
    BY <1>2, NoNews DEF Unread
  <2> QED
    BY <1>2, <2>1, CheckSpreads
<1>3. (Quietly(on, k) \/ \E o \in Machine : Spread(o, on, k)) => caps'[m].clock = caps[m].clock
  BY NoNews DEF Quietly, Spread
<1> QED
  BY <1>1, <1>2, <1>3

LEMMA ShowAll ==
    ASSUME TypeOK, NEW on \in BOOLEAN, NEW k \in Nat, NEW m \in Machine, Show(m)
    PROVE  /\ ~Quietly(on, k)
           /\ \A o \in Machine : ~Unread(o, on, k)
           /\ \A o \in Machine : Spread(o, on, k) => Spread(o, on, k)'
<1>1. ~Old(m, on, k) /\ ~Pressed(m, on, k) /\ UNCHANGED <<caps, up, net>>
  BY ShowKeeps
<1>2. ~Quietly(on, k) /\ \A o \in Machine : ~Unread(o, on, k)
  BY <1>1 DEF Quietly, Unread
<1>3. \A x \in Machine \ {m} : /\ Old(x, on, k)' <=> Old(x, on, k)
                               /\ New(x, on, k)' <=> New(x, on, k)
  BY <1>1, ShowKeeps, StaysAs
<1>4. New(m, on, k) => New(m, on, k)'
  BY ShowKeeps
<1>5. ASSUME NEW o \in Machine, Spread(o, on, k) PROVE Spread(o, on, k)'
  <2>1. New(o, on, k)' /\ \A x \in Machine : Old(x, on, k)' \/ New(x, on, k)'
    BY <1>1, <1>3, <1>4, <1>5 DEF Spread
  <2>2. New(m, on, k)
    BY <1>1, <1>5 DEF Spread
  <2>3. ~Old(m, on, k)'
    BY <1>4, <2>2 DEF Old, New, Has
  <2>4. \A x \in Machine : Old(x, on, k)' => Old(x, on, k)
    BY <1>3, <2>3
  <2> QED
    BY <1>1, <1>5, <2>1, <2>4 DEF Spread, Way
<1> QED
  BY <1>2, <1>5

LEMMA LastPressNext ==
    ASSUME NEW on \in BOOLEAN, NEW k \in Nat
    PROVE  LastPress(on, k) /\ [Next]_vars => LastPress(on, k)'
<1> SUFFICES ASSUME LastPress(on, k), [Next]_vars PROVE LastPress(on, k)'
  OBVIOUS
<1>1. TypeOK /\ TypeOK'
  BY TypeNext DEF LastPress
<1>2. /\ presses < MaxPresses => Quietly(on, k)
      /\ presses = MaxPresses => \E o \in Machine : Unread(o, on, k) \/ Spread(o, on, k)
      /\ presses \in Int /\ MaxPresses \in Nat /\ presses >= MaxPresses - 1
  BY CapsLockAssumption DEF LastPress, TypeOK
<1>3. ASSUME NEW m \in Machine, Press(m) PROVE LastPress(on, k)'
  <2>1. presses < MaxPresses /\ presses' = presses + 1
    BY <1>3 DEF Press
  <2>2. Unread(m, on, k)'
    BY <1>1, <1>2, <1>3, <2>1, PressStarts
  <2>3. presses' = MaxPresses
    BY <1>2, <2>1
  <2> QED
    BY <1>1, <1>2, <2>2, <2>3 DEF LastPress
<1>4. ASSUME presses' = presses,
             Quietly(on, k) => Quietly(on, k)',
             \A o \in Machine : Unread(o, on, k) => Unread(o, on, k)' \/ Spread(o, on, k)',
             \A o \in Machine : Spread(o, on, k) => Spread(o, on, k)'
      PROVE  LastPress(on, k)'
  BY <1>1, <1>2, <1>4 DEF LastPress
<1>5. ASSUME NEW m \in Machine, Show(m) PROVE LastPress(on, k)'
  BY <1>1, <1>4, <1>5, ShowAll, ShowKeeps
<1>6. ASSUME NEW m \in Machine, Check(m) PROVE LastPress(on, k)'
  BY <1>1, <1>4, <1>6, CheckAll, CheckIs
<1>7. ASSUME NEW q \in Pair, Hear(q[1], q[2]) PROVE LastPress(on, k)'
  BY <1>1, <1>4, <1>7, HearKeeps, HearElsewhere, PairIs
<1>8. ASSUME NEW q \in Pair, Connect(q[1], q[2]) PROVE LastPress(on, k)'
  BY <1>1, <1>4, <1>8, ConnectKeeps, ConnectIs
<1>9. ASSUME NEW q \in Pair, Drop(q[1], q[2]) PROVE LastPress(on, k)'
  BY <1>1, <1>4, <1>9, DropKeeps, DropIs
<1>10. CASE UNCHANGED vars
  <2>1. /\ Quietly(on, k) => Quietly(on, k)'
        /\ \A o \in Machine : Unread(o, on, k) => Unread(o, on, k)'
        /\ \A o \in Machine : Spread(o, on, k) => Spread(o, on, k)'
    BY <1>10 DEF vars, Quietly, Unread, Spread, AllOld, Old, New, Pressed, Has, Way
  <2> QED
    BY <1>4, <1>10, <2>1 DEF vars
<1> QED
  BY <1>3, <1>5, <1>6, <1>7, <1>8, <1>9, <1>10 DEF Next

LEMMA LastPressStarts ==
    ASSUME TypeOK, NEW on \in BOOLEAN, NEW k \in Nat,
           Settled, AllLocks(on), presses = MaxPresses - 1,
           \A m \in Machine : caps[m].clock = k
    PROVE  LastPress(on, k)
<1>1. \A m \in Machine : Old(m, on, k)
  BY DEF Settled, Quiet, AllLocks, Old, Has
<1>2. AllOld(on, k)
  <2>1. 1..Len(<<>>) = {}
    OBVIOUS
  <2> QED
    BY <2>1 DEF AllOld, Settled, Quiet
<1>3. presses < MaxPresses /\ presses # MaxPresses /\ presses >= MaxPresses - 1
  BY CapsLockAssumption
<1> QED
  BY <1>1, <1>2, <1>3 DEF LastPress, Quietly

LEMMA LastPressEnds ==
    ASSUME NEW on \in BOOLEAN, NEW k \in Nat, LastPress(on, k)
    PROVE  /\ \A m \in Machine : caps[m].clock <= k + 1
           /\ Settled /\ presses = MaxPresses => AllLocks(~on)
<1>1. presses < MaxPresses \/ presses = MaxPresses
  BY CapsLockAssumption DEF LastPress, TypeOK
<1>2. \A m \in Machine : /\ Old(m, on, k) \/ Pressed(m, on, k) => caps[m].clock <= k + 1
                         /\ New(m, on, k) => caps[m].clock <= k + 1
  BY DEF Old, Pressed, New, Has
<1>3. \A m \in Machine : caps[m].clock <= k + 1
  BY <1>1, <1>2 DEF LastPress, Quietly, Unread, Spread
<1>4. ASSUME Settled, presses = MaxPresses PROVE AllLocks(~on)
  <2>1. PICK o \in Machine : Unread(o, on, k) \/ Spread(o, on, k)
    BY <1>4 DEF LastPress
  <2>2. ~Pressed(o, on, k)
    BY <1>4 DEF Settled, Quiet, Pressed, Has
  <2>3. Spread(o, on, k)
    BY <2>1, <2>2 DEF Unread
  <2>4. ASSUME NEW m \in Machine \ {o}, Old(m, on, k) PROVE FALSE
    <3>1. <<o, m>> \in Pair /\ {o, m} \in up /\ Way(o, m) = <<>>
      <4>1. <<o, m>> \in Pair
        BY DEF Pair
      <4> QED
        BY <1>4, <4>1 DEF Settled, Quiet, Way
    <3>2. \E i \in 1..Len(Way(o, m)) : IsNew(Way(o, m)[i], on, k)
      BY <2>3, <2>4, <3>1 DEF Spread
    <3>3. 1..Len(<<>>) = {}
      OBVIOUS
    <3> QED
      BY <3>1, <3>2, <3>3
  <2>5. \A m \in Machine : New(m, on, k)
    BY <2>3, <2>4 DEF Spread
  <2> QED
    BY <1>4, <2>5 DEF AllLocks, Settled, Quiet, New, Has
<1> QED
  BY <1>3, <1>4

(***************************************************************************)
(* Among any number of machines, some of which show a set Caps Lock late,  *)
(* the last press made when all is settled is one change and the one they  *)
(* all come to (CapsLock::local, CapsLock::remote, SETTLE_READS).          *)
(***************************************************************************)
THEOREM OnePressOneChange == Spec => PressIsOneChange
<1> SUFFICES ASSUME NEW on \in BOOLEAN, NEW k \in 0 .. 2 * MaxPresses
             PROVE  Spec => []( /\ Settled /\ AllLocks(on) /\ presses = MaxPresses - 1
                                /\ \A m \in Machine : caps[m].clock = k
                                => []( /\ \A m \in Machine : caps[m].clock <= k + 1
                                       /\ Settled /\ presses = MaxPresses => AllLocks(~on)))
  BY DEF PressIsOneChange
<1>1. k \in Nat
  BY CapsLockAssumption
<1>2. TypeOK /\ Settled /\ AllLocks(on) /\ presses = MaxPresses - 1
        /\ (\A m \in Machine : caps[m].clock = k) => LastPress(on, k)
  BY <1>1, LastPressStarts
<1>3. LastPress(on, k) /\ [Next]_vars => LastPress(on, k)'
  BY <1>1, LastPressNext
<1>4. LastPress(on, k) => (\A m \in Machine : caps[m].clock <= k + 1)
                       /\ (Settled /\ presses = MaxPresses => AllLocks(~on))
  BY <1>1, LastPressEnds
<1>5. Spec => []TypeOK
  BY Types
<1> QED
  BY <1>2, <1>3, <1>4, <1>5, PTL DEF Spec

-----------------------------------------------------------------------------
(***************************************************************************)
(* Two machines.                                                           *)
(***************************************************************************)
LEMMA ClocksAre ==
    ASSUME NEW s \in Seq(Change)
    PROVE  /\ Len(s) \in Nat /\ \A i \in 1..Len(s) : s[i].clock \in Nat
           /\ s = <<>> <=> Len(s) = 0
           /\ s # <<>> => Len(s) \in 1..Len(s)
<1>1. \A i \in 1..Len(s) : s[i] \in Change
  OBVIOUS
<1>2. \A x \in Change : x.clock \in Nat
  BY DEF Change
<1>3. Len(s) \in Nat /\ (s = <<>> <=> Len(s) = 0)
  OBVIOUS
<1> QED
  BY <1>1, <1>2, <1>3

LEMMA MeetBack ==
    ASSUME NEW c, NEW d, NEW s, NEW r, NEW first \in BOOLEAN, Meet(c, d, s, r, first)
    PROVE  Meet(d, c, r, s, ~first)
BY DEF Meet

(* Only the lock and the clock matter. *)
LEMMA MeetSame ==
    ASSUME NEW c, NEW d, NEW s, NEW r, NEW first \in BOOLEAN, Meet(c, d, s, r, first),
           NEW e, e.on = c.on, e.clock = c.clock
    PROVE  Meet(e, d, s, r, first)
BY DEF Meet, OnItsWay, Growing, OnAfter, ClockAfter, Wins

LEMMA MeetConnected ==
    ASSUME NEW c \in Caps, NEW d \in Caps, NEW first \in BOOLEAN
    PROVE  Meet(c, d, <<Announce(c)>>, <<Announce(d)>>, first)
<1> DEFINE a == Announce(c)
           b == Announce(d)
<1>1. /\ a.on = c.on /\ a.clock = c.clock /\ b.on = d.on /\ b.clock = d.clock
      /\ c.clock \in Nat /\ d.clock \in Nat
  BY AnnounceIs DEF Caps
<1> HIDE DEF a, b
<1>2. \A x : <<x>> # <<>> /\ Last(<<x>>) = x /\ Len(<<x>>) = 1 /\ <<x>>[1] = x
  BY DEF Last
<1>3. Growing(<<a>>, c.clock) /\ Growing(<<b>>, d.clock)
  <2>1. \A x : \A i \in 1..Len(<<x>>) : i = 1 /\ <<x>>[i] = x
    BY <1>2
  <2>2. \A x : \A i, j \in 1..Len(<<x>>) : ~(i < j)
    BY <2>1
  <2>3. a.clock <= c.clock /\ b.clock <= d.clock
    BY <1>1
  <2>4. /\ \A i \in 1..Len(<<a>>) : <<a>>[i].clock <= c.clock
        /\ \A i \in 1..Len(<<b>>) : <<b>>[i].clock <= d.clock
    BY <2>1, <2>3
  <2> QED
    BY <2>2, <2>4, Zenon DEF Growing
<1>4. OnItsWay(c, d, <<a>>) /\ OnItsWay(d, c, <<b>>)
  BY <1>1, <1>2 DEF OnItsWay
<1>5. OnAfter(c, <<b>>, first) = OnAfter(d, <<a>>, ~first)
  BY <1>1, <1>2 DEF OnAfter, Wins
<1>6. ClockAfter(c, <<b>>) = ClockAfter(d, <<a>>)
  BY <1>1, <1>2 DEF ClockAfter, Larger
<1> QED
  BY <1>3, <1>4, <1>5, <1>6 DEF Meet, a, b

(* The first machine takes a change of its own, and tells it. *)
LEMMA MeetChanged ==
    ASSUME NEW c \in Caps, NEW d \in Caps, NEW s \in Seq(Change), NEW r \in Seq(Change),
           NEW first \in BOOLEAN, Meet(c, d, s, r, first),
           NEW e \in Caps, e.clock = c.clock + 1
    PROVE  Meet(e, d, Append(s, Announce(e)), r, first)
<1> DEFINE a == Announce(e)
           t == Append(s, a)
<1>1. /\ a \in Change /\ a.on = e.on /\ a.clock = e.clock
      /\ c.clock \in Nat /\ d.clock \in Nat /\ e.clock \in Nat
  BY AnnounceIs DEF Caps
<1> HIDE DEF a
<1>2. /\ t \in Seq(Change) /\ t # <<>> /\ Last(t) = a /\ Len(t) = Len(s) + 1
      /\ t[Len(s) + 1] = a /\ \A i \in 1..Len(s) : t[i] = s[i]
  BY <1>1 DEF Last
<1>3. Len(s) \in Nat /\ \A i \in 1..Len(s) : s[i].clock \in Nat
  BY ClocksAre
<1> HIDE DEF t
<1>4. Growing(t, e.clock)
  <2>1. \A i \in 1..Len(s) : s[i].clock <= c.clock
    BY DEF Meet, Growing
  <2>2. \A i \in 1..Len(t) : i \in 1..Len(s) \/ i = Len(s) + 1
    BY <1>2, <1>3
  <2>3. \A i \in 1..Len(s) : t[i].clock <= c.clock /\ t[i].clock \in Nat
    BY <1>2, <1>3, <2>1
  <2>4. t[Len(s) + 1].clock = e.clock
    BY <1>1, <1>2
  <2>5. \A i \in 1..Len(t) : t[i].clock <= e.clock
    BY <1>1, <2>2, <2>3, <2>4
  <2>6. ASSUME NEW i \in 1..Len(t), NEW j \in 1..Len(t), i < j PROVE t[i].clock < t[j].clock
    <3>1. i \in 1..Len(s)
      BY <1>3, <2>2, <2>6
    <3>2. CASE j = Len(s) + 1
      BY <1>1, <2>3, <2>4, <3>1, <3>2
    <3>3. CASE j \in 1..Len(s)
      <4>1. s[i].clock < s[j].clock
        BY <2>6, <3>1, <3>3 DEF Meet, Growing
      <4> QED
        BY <1>2, <3>1, <3>3, <4>1
    <3> QED
      BY <2>2, <3>2, <3>3
  <2> QED
    BY <2>5, <2>6 DEF Growing
<1>5. OnItsWay(e, d, t)
  BY <1>1, <1>2 DEF OnItsWay
<1>6. OnItsWay(d, e, r)
  BY <1>1 DEF Meet, OnItsWay
<1>7. r # <<>> => Last(r).clock \in Nat /\ Last(r).clock <= d.clock
  BY ClocksAre DEF Meet, Growing, Last
<1>8. /\ OnAfter(e, r, first) = OnAfter(d, t, ~first)
      /\ ClockAfter(e, r) = ClockAfter(d, t)
  <2>1. OnAfter(d, t, ~first) = IF Wins(d, a, ~first) THEN e.on ELSE d.on
    BY <1>1, <1>2 DEF OnAfter
  <2>2. ClockAfter(d, t) = Larger(d.clock, e.clock)
    BY <1>1, <1>2 DEF ClockAfter
  <2>3. CASE d.clock <= c.clock
    <3>1. Wins(d, a, ~first) /\ Larger(d.clock, e.clock) = e.clock
      BY <1>1, <2>3 DEF Wins, Larger
    <3>2. r # <<>> => ~Wins(e, Last(r), first) /\ Larger(e.clock, Last(r).clock) = e.clock
      BY <1>1, <1>7, <2>3 DEF Wins, Larger
    <3> QED
      BY <2>1, <2>2, <3>1, <3>2 DEF OnAfter, ClockAfter
  <2>4. CASE ~(d.clock <= c.clock)
    <3>1. r # <<>> /\ Last(r).on = d.on /\ Last(r).clock = d.clock
      BY <2>4 DEF Meet, OnItsWay
    <3>2. ClockAfter(e, r) = Larger(e.clock, d.clock)
      BY <3>1 DEF ClockAfter
    <3>3. OnAfter(e, r, first) = IF Wins(e, Last(r), first) THEN d.on ELSE e.on
      BY <3>1 DEF OnAfter
    <3>4. Wins(e, Last(r), first) <=> ~Wins(d, a, ~first)
      BY <1>1, <3>1 DEF Wins
    <3>5. Larger(e.clock, d.clock) = Larger(d.clock, e.clock)
      BY <1>1 DEF Larger
    <3> QED
      BY <2>1, <2>2, <3>2, <3>3, <3>4, <3>5
  <2> QED
    BY <2>3, <2>4
<1> QED
  BY <1>4, <1>5, <1>6, <1>8 DEF Meet, t, a

(* The first machine hears what the other told it. *)
LEMMA MeetHeard ==
    ASSUME NEW c \in Caps, NEW d \in Caps, NEW s \in Seq(Change), NEW r \in Seq(Change),
           NEW first \in BOOLEAN, Meet(c, d, s, r, first), r # <<>>
    PROVE  Meet(Remote(c, Head(r), first), d, s, Tail(r), first)
<1> DEFINE h == Head(r)
           e == Remote(c, h, first)
           l == Last(r)
           t == Tail(r)
<1>1. /\ h \in Change /\ h = r[1] /\ Len(r) \in Nat \ {0} /\ l = r[Len(r)] /\ l \in Change
      /\ t \in Seq(Change) /\ Len(t) = Len(r) - 1
      /\ \A i \in 1..Len(t) : t[i] = r[i + 1]
  BY DEF Last
<1>2. h.clock \in Nat /\ c.clock \in Nat /\ d.clock \in Nat /\ l.clock \in Nat
  BY <1>1 DEF Change, Caps
<1>3. /\ e \in Caps
      /\ e.on = IF Wins(c, h, first) THEN h.on ELSE c.on
      /\ e.clock = Larger(c.clock, h.clock)
  BY <1>1, RemoteIs
<1>4. e.clock \in Nat
  BY <1>3 DEF Caps
<1>5. t = <<>> <=> Len(r) = 1
  <2>1. t = <<>> <=> Len(t) = 0
    BY <1>1, ClocksAre
  <2> QED
    BY <1>1, <2>1
<1>6. t # <<>> => Last(t) = l
  <2> SUFFICES ASSUME t # <<>> PROVE Last(t) = l
    OBVIOUS
  <2>1. Len(t) \in 1..Len(t) /\ Len(t) + 1 = Len(r)
    BY <1>1, <1>5
  <2> QED
    BY <1>1, <2>1 DEF Last
<1> HIDE DEF e, t, h, l
<1>7. \A i \in 1..Len(r) : r[i].clock <= d.clock
  BY DEF Meet, Growing
<1>8. h.clock <= d.clock /\ l.clock <= d.clock
  BY <1>1, <1>7
<1>9. t # <<>> => h.clock < l.clock
  <2> SUFFICES ASSUME t # <<>> PROVE h.clock < l.clock
    OBVIOUS
  <2>1. 1 \in 1..Len(r) /\ Len(r) \in 1..Len(r) /\ 1 < Len(r)
    BY <1>1, <1>5
  <2> QED
    BY <1>1, <2>1 DEF Meet, Growing
<1>10. t = <<>> => l = h
  BY <1>1, <1>5
<1>11. Growing(t, d.clock)
  <2>1. \A i \in 1..Len(t) : i + 1 \in 1..Len(r)
    BY <1>1
  <2>2. \A i \in 1..Len(t) : t[i].clock <= d.clock
    BY <1>1, <1>7, <2>1
  <2>3. ASSUME NEW i \in 1..Len(t), NEW j \in 1..Len(t), i < j PROVE t[i].clock < t[j].clock
    <3>1. i + 1 < j + 1
      BY <1>1, <2>3
    <3>2. r[i + 1].clock < r[j + 1].clock
      BY <2>1, <3>1 DEF Meet, Growing
    <3> QED
      BY <1>1, <3>2
  <2> QED
    BY <2>2, <2>3 DEF Growing
<1>12. Growing(s, e.clock)
  <2>1. c.clock <= e.clock
    BY <1>2, <1>3 DEF Larger
  <2>2. \A i \in 1..Len(s) : s[i].clock <= c.clock /\ s[i].clock \in Nat
    BY ClocksAre DEF Meet, Growing
  <2> QED
    BY <1>2, <1>4, <2>1, <2>2 DEF Meet, Growing
<1>13. OnItsWay(e, d, s)
  <2>1. CASE h.clock < c.clock
    <3>1. e.on = c.on /\ e.clock = c.clock
      BY <1>2, <1>3, <2>1 DEF Wins, Larger
    <3> QED
      BY <3>1 DEF Meet, OnItsWay
  <2>2. CASE h.clock >= c.clock
    BY <1>2, <1>3, <1>8, <2>2 DEF OnItsWay, Larger
  <2> QED
    BY <1>2, <2>1, <2>2
<1>14. OnItsWay(d, e, t)
  <2>1. d.clock <= c.clock \/ (l.on = d.on /\ l.clock = d.clock)
    BY DEF Meet, OnItsWay, l
  <2>2. d.clock <= c.clock => d.clock <= e.clock
    BY <1>2, <1>3, <1>4 DEF Larger
  <2>3. l.clock = d.clock /\ t = <<>> => d.clock <= e.clock
    BY <1>2, <1>3, <1>4, <1>10 DEF Larger
  <2> QED
    BY <1>6, <2>1, <2>2, <2>3 DEF OnItsWay
<1>15. /\ OnAfter(c, r, first) = IF Wins(c, l, first) THEN l.on ELSE c.on
       /\ ClockAfter(c, r) = Larger(c.clock, l.clock)
  BY DEF OnAfter, ClockAfter, l
<1>16. OnAfter(e, t, first) = OnAfter(c, r, first) /\ ClockAfter(e, t) = ClockAfter(c, r)
  <2>1. CASE t = <<>>
    BY <1>3, <1>10, <1>15, <2>1 DEF OnAfter, ClockAfter
  <2>2. CASE t # <<>>
    <3>1. /\ OnAfter(e, t, first) = IF Wins(e, l, first) THEN l.on ELSE e.on
          /\ ClockAfter(e, t) = Larger(e.clock, l.clock)
      BY <1>6, <2>2 DEF OnAfter, ClockAfter
    <3>2. Larger(e.clock, l.clock) = Larger(c.clock, l.clock)
      BY <1>2, <1>3, <1>9, <2>2 DEF Larger
    <3>3. CASE Wins(c, l, first)
      <4>1. Wins(e, l, first)
        BY <1>2, <1>3, <1>9, <2>2, <3>3 DEF Larger, Wins
      <4> QED
        BY <1>15, <3>1, <3>2, <3>3, <4>1
    <3>4. CASE ~Wins(c, l, first)
      <4>1. ~Wins(c, h, first) /\ ~Wins(e, l, first)
        BY <1>2, <1>3, <1>9, <2>2, <3>4 DEF Larger, Wins
      <4> QED
        BY <1>3, <1>15, <3>1, <3>2, <3>4, <4>1
    <3> QED
      BY <3>3, <3>4
  <2> QED
    BY <2>1, <2>2
<1> QED
  BY <1>11, <1>12, <1>13, <1>14, <1>16 DEF Meet, e, h, t

LEMMA BothBack ==
    ASSUME NEW m \in Machine, NEW p \in Machine, m # p, Both(m, p)
    PROVE  Both(p, m)
<1>1. (m < p) <=> ~(p < m)
  BY CapsLockAssumption
<1>2. (p < m) \in BOOLEAN /\ (m < p) = ~(p < m)
  BY <1>1
<1> QED
  BY <1>2, MeetBack DEF Both

LEMMA BothBackNext ==
    ASSUME NEW m \in Machine, NEW p \in Machine, m # p, Both(m, p)'
    PROVE  Both(p, m)'
<1>1. (m < p) <=> ~(p < m)
  BY CapsLockAssumption
<1>2. (p < m) \in BOOLEAN /\ (m < p) = ~(p < m)
  BY <1>1
<1> QED
  BY <1>2, MeetBack DEF Both

LEMMA TypesOf ==
    ASSUME TypeOK, NEW m \in Machine, NEW p \in Machine, m # p
    PROVE  /\ caps[m] \in Caps /\ caps[p] \in Caps
           /\ Way(m, p) \in Seq(Change) /\ Way(p, m) \in Seq(Change)
           /\ <<m, p>> \in Pair /\ <<p, m>> \in Pair /\ <<m, p>> # <<p, m>>
           /\ (p < m) \in BOOLEAN
<1>1. <<m, p>> \in Pair /\ <<p, m>> \in Pair /\ <<m, p>> # <<p, m>>
  BY DEF Pair
<1>2. (p < m) \in BOOLEAN
  BY CapsLockAssumption
<1> QED
  BY <1>1, <1>2 DEF TypeOK, Caps, Way

LEMMA CheckMeets ==
    ASSUME TypeOK, NEW m \in Machine, NEW p \in Machine, m # p, {m, p} \in up,
           Both(m, p), Check(m)
    PROVE  Both(m, p)'
<1>1. /\ caps' = [caps EXCEPT ![m] = Local(caps[m], lock[m])]
      /\ Local(caps[m], lock[m]) \in Caps
  BY CheckIs
<1>2. caps'[m] = Local(caps[m], lock[m]) /\ caps'[p] = caps[p] /\ lock[m] \in BOOLEAN
  BY <1>1 DEF TypeOK
<1>3. Way(p, m)' = Way(p, m)
  BY CheckIs, TypesOf DEF Way
<1>4. Way(m, p)' = IF caps'[m].clock # caps[m].clock
                   THEN Append(Way(m, p), Announce(caps'[m])) ELSE Way(m, p)
  BY CheckIs, TypesOf DEF Way
<1>5. CASE caps'[m].clock # caps[m].clock
  <2>1. caps'[m].clock = caps[m].clock + 1 /\ caps'[m] \in Caps
    <3>1. caps[m] \in Caps
      BY TypesOf
    <3> QED
      BY <1>1, <1>2, <1>5, <3>1, LocalIs
  <2>2. Meet(caps'[m], caps[p], Append(Way(m, p), Announce(caps'[m])), Way(p, m), p < m)
    BY <2>1, TypesOf, MeetChanged DEF Both
  <2> QED
    BY <1>2, <1>3, <1>4, <1>5, <2>2 DEF Both
<1>6. CASE caps'[m].clock = caps[m].clock
  <2>1. caps'[m].on = caps[m].on
    BY <1>6, CheckKeeps
  <2>2. Meet(caps'[m], caps[p], Way(m, p), Way(p, m), p < m)
    BY <1>6, <2>1, TypesOf, MeetSame DEF Both
  <2> QED
    BY <1>2, <1>3, <1>4, <1>6, <2>2 DEF Both
<1> QED
  BY <1>5, <1>6

LEMMA HearMeets ==
    ASSUME TypeOK, NEW m \in Machine, NEW p \in Machine, m # p, Both(m, p), Hear(m, p)
    PROVE  Both(m, p)'
<1> DEFINE r == Way(p, m)
<1>1. /\ r # <<>>
      /\ caps' = [caps EXCEPT ![m] = Remote(caps[m], Head(r), p < m)]
      /\ net' = [net EXCEPT ![<<p, m>>] = Tail(r)]
  BY HearIs
<1>2. Meet(Remote(caps[m], Head(r), p < m), caps[p], Way(m, p), Tail(r), p < m)
  BY <1>1, TypesOf, MeetHeard DEF Both
<1>3. caps'[m] = Remote(caps[m], Head(r), p < m) /\ caps'[p] = caps[p]
  BY <1>1 DEF TypeOK
<1>4. Way(p, m)' = Tail(r) /\ Way(m, p)' = Way(m, p)
  BY <1>1, TypesOf DEF Way, TypeOK
<1> QED
  BY <1>2, <1>3, <1>4 DEF Both

LEMMA ConnectMeets ==
    ASSUME TypeOK, NEW m \in Machine, NEW p \in Machine, m # p,
           NEW q \in Pair, Connect(q[1], q[2]), {q[1], q[2]} = {m, p}
    PROVE  Both(m, p)'
<1>0. /\ <<m, p>> \in Pair /\ <<p, m>> \in Pair
      /\ {m, p} = {q[1], q[2]} /\ {p, m} = {q[1], q[2]}
  BY TypesOf
<1>1. /\ caps' = caps
      /\ net'[<<m, p>>] = <<Announce(caps[m])>>
      /\ net'[<<p, m>>] = <<Announce(caps[p])>>
  <2>1. \A x \in Machine, y \in Machine : <<x, y>> \in Pair /\ {x, y} = {q[1], q[2]} =>
           caps' = caps /\ net'[<<x, y>>] = <<Announce(caps[x])>>
    BY ConnectIs
  <2>2. /\ caps' = caps /\ net'[<<m, p>>] = <<Announce(caps[m])>>
    BY <1>0, <2>1, Zenon
  <2>3. net'[<<p, m>>] = <<Announce(caps[p])>>
    BY <1>0, <2>1, Zenon
  <2> QED
    BY <2>2, <2>3
<1>2. Meet(caps[m], caps[p], <<Announce(caps[m])>>, <<Announce(caps[p])>>, p < m)
  <2>1. caps[m] \in Caps /\ caps[p] \in Caps /\ (p < m) \in BOOLEAN
    BY TypesOf
  <2> QED
    BY <2>1, MeetConnected, Zenon
<1> QED
  BY <1>1, <1>2 DEF Both, Way

(***************************************************************************)
(* Two machines that have settled have the same Caps Lock, however many    *)
(* changes crossed and however often the connection broke: a tie is        *)
(* settled the same way on both (CapsLock::remote).  Not so for three.     *)
(***************************************************************************)
THEOREM TwoAgree ==
    ASSUME NEW a \in Nat, NEW b \in Nat, a # b, Machine = {a, b}
    PROVE  Spec => []Agreement
<1> DEFINE Inv == TypeOK /\ ({a, b} \in up => Both(a, b))
<1>1. Init => Inv
  <2>1. Init => up = {}
    BY DEF Init
  <2> QED
    BY <2>1, TypeInit
<1>2. Inv /\ [Next]_vars => Inv'
  <2> SUFFICES ASSUME Inv, [Next]_vars PROVE {a, b} \in up' => Both(a, b)'
    BY TypeNext
  <2>1. TypeOK /\ a \in Machine /\ b \in Machine /\ a # b /\ {b, a} = {a, b}
    OBVIOUS
  <2>2. {a, b} \in up => Both(a, b) /\ Both(b, a)
    BY <2>1, BothBack
  <2>3. Both(b, a)' => Both(a, b)'
    BY <2>1, BothBackNext
  <2>4. ASSUME NEW m \in Machine, Press(m) \/ Show(m) PROVE {a, b} \in up' => Both(a, b)'
    <3>1. UNCHANGED <<caps, net, up>>
      BY <2>4 DEF Press, Show
    <3> QED
      BY <2>2, <3>1 DEF Both, Way
  <2>5. ASSUME NEW m \in Machine, Check(m) PROVE {a, b} \in up' => Both(a, b)'
    <3>1. up' = up
      BY <2>5 DEF Check
    <3>2. m = a \/ m = b
      OBVIOUS
    <3> QED
      BY <2>1, <2>2, <2>3, <2>5, <3>1, <3>2, CheckMeets
  <2>6. ASSUME NEW q \in Pair PROVE (q[1] = a /\ q[2] = b) \/ (q[1] = b /\ q[2] = a)
    BY PairIs
  <2>7. ASSUME NEW q \in Pair, Hear(q[1], q[2]) PROVE {a, b} \in up' => Both(a, b)'
    <3>1. up' = up
      BY <2>7 DEF Hear
    <3> QED
      BY <2>1, <2>2, <2>3, <2>6, <2>7, <3>1, HearMeets
  <2>8. ASSUME NEW q \in Pair, Connect(q[1], q[2]) PROVE {a, b} \in up' => Both(a, b)'
    BY <2>1, <2>6, <2>8, ConnectMeets
  <2>9. ASSUME NEW q \in Pair, Drop(q[1], q[2]) PROVE {a, b} \in up' => Both(a, b)'
    BY <2>1, <2>6, <2>9 DEF Drop
  <2>10. CASE UNCHANGED vars
    BY <2>2, <2>10 DEF vars, Both, Way
  <2> QED
    BY <2>4, <2>5, <2>7, <2>8, <2>9, <2>10 DEF Next
<1>3. Inv => Agreement
  <2> SUFFICES ASSUME Inv, Settled PROVE \E on \in BOOLEAN : AllLocks(on)
    BY DEF Agreement
  <2>1. a \in Machine /\ b \in Machine /\ <<a, b>> \in Pair /\ <<b, a>> \in Pair
    BY DEF Pair
  <2>2. /\ {a, b} \in up /\ Way(a, b) = <<>> /\ Way(b, a) = <<>>
        /\ lock[a] = caps[a].on /\ lock[b] = caps[b].on
    BY <2>1 DEF Settled, Quiet, Way
  <2>3. Both(a, b)
    BY <2>2
  <2>4. caps[a].on = caps[b].on
    BY <2>2, <2>3 DEF Both, Meet, OnAfter
  <2>5. AllLocks(lock[a]) /\ lock[a] \in BOOLEAN
    BY <2>1, <2>2, <2>4 DEF AllLocks, TypeOK
  <2> QED
    BY <2>5
<1> QED
  BY <1>1, <1>2, <1>3, PTL DEF Spec
=============================================================================
