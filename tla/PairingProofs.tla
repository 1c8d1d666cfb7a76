---------------------------- MODULE PairingProofs ----------------------------
(***************************************************************************)
(* Proofs about pairing, for any machines and any number of attempts.      *)
(***************************************************************************)
EXTENDS Pairing, SequenceTheorems, TLAPS

Answers == {"nothing", "yes", "no"}

Conn == [machine : [Ends -> Machines], step : [Ends -> Steps],
         said : [Ends -> Answers], heard : [Ends -> Answers],
         greeted : BOOLEAN, open : BOOLEAN]

Attempt == 0 .. MaxAttempts

Dialog == [attempt : Attempt, open : BOOLEAN,
           stage : {"connecting", "confirm", "waiting"}, code : Attempt]

Message == [kind : {"offered", "failed", "finished"}, conn : Attempt]

Conns == 1 .. Len(conns)

Typed ==
    /\ conns \in Seq(Conn) /\ Len(conns) <= MaxAttempts
    /\ app \in [Machines -> Dialog]
    /\ messages \in [Machines -> SUBSET Message]
    /\ busy \in [Machines -> BOOLEAN]
    /\ paired \in [Machines -> SUBSET Machines]
    /\ allowed \in [Machines -> SUBSET Machines]

(***************************************************************************)
(* What an end has said and heard goes with the step it is at: it has said *)
(* nothing before the app answers, hears only what the other said, saves   *)
(* only after both said yes, and has closed the connection by then.        *)
(***************************************************************************)
Fits(k, e, s) ==
    /\ s \in {"calling", "ringing", "greeting", "held"} => k.said[e] = "nothing"
    /\ s \in {"waiting", "closing", "saving", "allowing"} => k.said[e] = "yes"
    /\ s \in {"declining", "refusing"} => k.said[e] = "no"
    /\ s \in {"closing", "saving", "allowing"} => k.heard[e] # "nothing"
    /\ s \in {"saving", "allowing"} => k.heard[e] = "yes"

Last == {"saving", "allowing", "over"}

Honest(k) ==
    /\ k.machine["caller"] # k.machine["callee"]
    /\ \A e \in Ends : Fits(k, e, k.step[e])
    /\ \A e \in Ends : k.heard[e] \in {"nothing", k.said[Other(e)]}
    /\ \A e \in Ends : k.step[e] \in Last => ~k.open

HonestConns == \A c \in Conns : Honest(conns[c])

(***************************************************************************)
(* An attempt the app holds, or is offered, waits for its answer at one    *)
(* end, and is not both held and offered.                                  *)
(***************************************************************************)
HeldAt(c, m) ==
    c \in Conns /\ \E e \in Ends : At(c, e) = m /\ Step(c, e) = "held"

Offers ==
    \A m \in Machines :
        /\ app[m].attempt # 0 => HeldAt(app[m].attempt, m)
        /\ \A msg \in messages[m] : msg.kind = "offered" =>
              HeldAt(msg.conn, m) /\ app[m].attempt # msg.conn

Allowing(m, p) ==
    \E c \in Conns, e \in Ends :
        At(c, e) = m /\ At(c, Other(e)) = p /\ Step(c, e) = "allowing"

(* The peers allowed are the saved ones, but for those just being allowed. *)
AllowedButAllowing ==
    "unpaired while pairing" \notin troubles =>
        \A m, p \in Machines :
            /\ Allowing(m, p) => p \in paired[m]
            /\ p \in allowed[m] => p \in paired[m]
            /\ p \in paired[m] => p \in allowed[m] \/ Allowing(m, p)

(***************************************************************************)
(* Without trouble, a connection on which both said yes is closed only     *)
(* once both heard it, and an end of it is over only once it has saved.    *)
(***************************************************************************)
BothYes(c) == \A e \in Ends : conns[c].said[e] = "yes"

BothHeard(c) == \A e \in Ends : conns[c].heard[e] # "nothing"

BothGoOn ==
    troubles = {} =>
        \A c \in Conns : BothYes(c) =>
            /\ ~conns[c].open => BothHeard(c)
            /\ \A e \in Ends : Step(c, e) = "over" => At(c, Other(e)) \in paired[At(c, e)]

IInv == Typed /\ HonestConns /\ Offers /\ PairedByBoth /\ AllowedButAllowing /\ BothGoOn

-----------------------------------------------------------------------------
(* How a connection changes: records with one field or one end changed. *)

Stepped(k, e, s) == [k EXCEPT !.step[e] = s]
Shut(k) == [k EXCEPT !.open = FALSE]
Saying(k, e, a) == [k EXCEPT !.said[e] = a]
Hearing(k, e, a) == [k EXCEPT !.heard[e] = a]
Greeted(k) == [k EXCEPT !.greeted = TRUE]

Became(c, r) == conns' = [conns EXCEPT ![c] = r]

LEMMA SteppedConn ==
    ASSUME NEW k \in Conn, NEW e \in Ends, NEW s \in Steps
    PROVE  LET r == Stepped(k, e, s) IN
           /\ r \in Conn /\ r.machine = k.machine /\ r.said = k.said
           /\ r.heard = k.heard /\ r.open = k.open
           /\ \A x \in Ends : r.step[x] = IF x = e THEN s ELSE k.step[x]
<1>1. [k.step EXCEPT ![e] = s] \in [Ends -> Steps]
  BY DEF Conn
<1> QED
  BY <1>1 DEF Conn, Stepped

LEMMA ShutConn ==
    ASSUME NEW k \in Conn
    PROVE  LET r == Shut(k) IN
           /\ r \in Conn /\ r.machine = k.machine /\ r.said = k.said
           /\ r.heard = k.heard /\ r.step = k.step /\ r.open = FALSE
BY DEF Conn, Shut

LEMMA GreetedConn ==
    ASSUME NEW k \in Conn
    PROVE  LET r == Greeted(k) IN
           /\ r \in Conn /\ r.machine = k.machine /\ r.said = k.said
           /\ r.heard = k.heard /\ r.step = k.step /\ r.open = k.open
BY DEF Conn, Greeted

LEMMA SayingConn ==
    ASSUME NEW k \in Conn, NEW e \in Ends, NEW a \in Answers
    PROVE  LET r == Saying(k, e, a) IN
           /\ r \in Conn /\ r.machine = k.machine /\ r.heard = k.heard
           /\ r.step = k.step /\ r.open = k.open
           /\ \A x \in Ends : r.said[x] = IF x = e THEN a ELSE k.said[x]
<1>1. [k.said EXCEPT ![e] = a] \in [Ends -> Answers]
  BY DEF Conn
<1> QED
  BY <1>1 DEF Conn, Saying

LEMMA HearingConn ==
    ASSUME NEW k \in Conn, NEW e \in Ends, NEW a \in Answers
    PROVE  LET r == Hearing(k, e, a) IN
           /\ r \in Conn /\ r.machine = k.machine /\ r.said = k.said
           /\ r.step = k.step /\ r.open = k.open
           /\ \A x \in Ends : r.heard[x] = IF x = e THEN a ELSE k.heard[x]
<1>1. [k.heard EXCEPT ![e] = a] \in [Ends -> Answers]
  BY DEF Conn
<1> QED
  BY <1>1 DEF Conn, Hearing

LEMMA SeqUpdate ==
    ASSUME NEW S, NEW q \in Seq(S), NEW c \in 1 .. Len(q), NEW r \in S
    PROVE  /\ [q EXCEPT ![c] = r] \in Seq(S)
           /\ Len([q EXCEPT ![c] = r]) = Len(q)
           /\ \A d \in 1 .. Len(q) : [q EXCEPT ![c] = r][d] = IF d = c THEN r ELSE q[d]
OBVIOUS

LEMMA BecameConns ==
    ASSUME Typed, NEW c \in Conns, NEW r \in Conn, Became(c, r)
    PROVE  /\ conns' \in Seq(Conn) /\ Len(conns') = Len(conns) /\ Conns' = Conns
           /\ \A d \in Conns : conns'[d] = IF d = c THEN r ELSE conns[d]
BY SeqUpdate DEF Conns, Typed, Became

(* End e of connection c goes to step s, and the connection may close. *)
Moved(c, e, s) ==
    /\ conns' \in Seq(Conn) /\ Len(conns') = Len(conns) /\ Conns' = Conns
    /\ \A d \in Conns :
         /\ conns'[d].machine = conns[d].machine
         /\ conns'[d].said = conns[d].said
         /\ conns'[d].heard = conns[d].heard
         /\ d # c => conns'[d].open = conns[d].open
         /\ conns'[d].open => conns[d].open
         /\ \A x \in Ends :
              conns'[d].step[x] = IF d = c /\ x = e THEN s ELSE conns[d].step[x]

LEMMA StepMoves ==
    ASSUME Typed, NEW c \in Conns, NEW e \in Ends, NEW s \in Steps,
           Became(c, Stepped(conns[c], e, s))
    PROVE  Moved(c, e, s) /\ conns'[c].open = conns[c].open
<1> DEFINE r == Stepped(conns[c], e, s)
<1>1. conns[c] \in Conn
  BY DEF Typed, Conns
<1>2. /\ r \in Conn /\ r.machine = conns[c].machine /\ r.said = conns[c].said
      /\ r.heard = conns[c].heard /\ r.open = conns[c].open
      /\ \A x \in Ends : r.step[x] = IF x = e THEN s ELSE conns[c].step[x]
  BY <1>1, SteppedConn
<1> HIDE DEF r
<1>3. Became(c, r)
  BY DEF r
<1>4. /\ conns' \in Seq(Conn) /\ Len(conns') = Len(conns) /\ Conns' = Conns
      /\ \A d \in Conns : conns'[d] = IF d = c THEN r ELSE conns[d]
  BY <1>2, <1>3, BecameConns
<1> QED
  BY <1>2, <1>4 DEF Moved

LEMMA GreetMoves ==
    ASSUME Typed, NEW c \in Conns, NEW e \in Ends, NEW s \in Steps,
           Became(c, Greeted(Stepped(conns[c], e, s)))
    PROVE  Moved(c, e, s) /\ conns'[c].open = conns[c].open
<1> DEFINE q == Stepped(conns[c], e, s)
           r == Greeted(q)
<1>1. conns[c] \in Conn
  BY DEF Typed, Conns
<1>2. /\ q \in Conn /\ q.machine = conns[c].machine /\ q.said = conns[c].said
      /\ q.heard = conns[c].heard /\ q.open = conns[c].open
      /\ \A x \in Ends : q.step[x] = IF x = e THEN s ELSE conns[c].step[x]
  BY <1>1, SteppedConn
<1> HIDE DEF q
<1>3. /\ r \in Conn /\ r.machine = q.machine /\ r.said = q.said
      /\ r.heard = q.heard /\ r.open = q.open /\ r.step = q.step
  BY <1>2, GreetedConn
<1> HIDE DEF r
<1>4. Became(c, r)
  BY DEF r, q
<1>5. /\ conns' \in Seq(Conn) /\ Len(conns') = Len(conns) /\ Conns' = Conns
      /\ \A d \in Conns : conns'[d] = IF d = c THEN r ELSE conns[d]
  BY <1>3, <1>4, BecameConns
<1> QED
  BY <1>2, <1>3, <1>5 DEF Moved

LEMMA ShutMoves ==
    ASSUME Typed, NEW c \in Conns, NEW e \in Ends, NEW s \in Steps,
           Became(c, Shut(Stepped(conns[c], e, s)))
    PROVE  Moved(c, e, s) /\ ~conns'[c].open
<1> DEFINE q == Stepped(conns[c], e, s)
           r == Shut(q)
<1>1. conns[c] \in Conn
  BY DEF Typed, Conns
<1>2. /\ q \in Conn /\ q.machine = conns[c].machine /\ q.said = conns[c].said
      /\ q.heard = conns[c].heard
      /\ \A x \in Ends : q.step[x] = IF x = e THEN s ELSE conns[c].step[x]
  BY <1>1, SteppedConn
<1> HIDE DEF q
<1>3. /\ r \in Conn /\ r.machine = q.machine /\ r.said = q.said
      /\ r.heard = q.heard /\ r.open = FALSE /\ r.step = q.step
  BY <1>2, ShutConn
<1> HIDE DEF r
<1>4. Became(c, r)
  BY DEF r, q
<1>5. /\ conns' \in Seq(Conn) /\ Len(conns') = Len(conns) /\ Conns' = Conns
      /\ \A d \in Conns : conns'[d] = IF d = c THEN r ELSE conns[d]
  BY <1>3, <1>4, BecameConns
<1> QED
  BY <1>2, <1>3, <1>5 DEF Moved

-----------------------------------------------------------------------------
(* What every connection keeps, so that what both said stays said. *)
Lasting ==
    /\ Conns \subseteq Conns'
    /\ \A d \in Conns :
         /\ conns'[d].machine = conns[d].machine
         /\ \A x \in Ends : conns[d].said[x] = "yes" => conns'[d].said[x] = "yes"

LEMMA MachinesLast ==
    ASSUME Lasting, NEW d \in Conns
    PROVE  /\ \A e \in Ends : At(d, e)' = At(d, e)
           /\ \A m, p : Between(d, m, p)' = Between(d, m, p)
BY DEF Lasting, At, Between

LEMMA PairedLasts ==
    ASSUME PairedByBoth, Lasting, \A m \in Machines : paired'[m] \subseteq paired[m]
    PROVE  PairedByBoth'
<1> SUFFICES ASSUME NEW m \in Machines, NEW p \in Machines, p \in paired'[m]
             PROVE  \E c \in Conns' : Between(c, m, p)' /\ BothYes(c)'
  BY DEF PairedByBoth, BothYes, Conns
<1>1. PICK c \in Conns : Between(c, m, p) /\ BothYes(c)
  BY DEF PairedByBoth, BothYes, Conns
<1>2. c \in Conns' /\ BothYes(c)'
  BY <1>1 DEF Lasting, BothYes
<1> QED
  BY <1>1, <1>2, MachinesLast

LEMMA AllowedLasts ==
    ASSUME AllowedButAllowing, Lasting, Conns' = Conns,
           \A d \in Conns, x \in Ends : (Step(d, x) = "allowing")' = (Step(d, x) = "allowing"),
           UNCHANGED <<paired, allowed>>, troubles \subseteq troubles'
    PROVE  AllowedButAllowing'
<1>1. \A x \in Ends : Other(x) \in Ends
  BY DEF Ends, Other
<1>2. \A m, p : Allowing(m, p)' = Allowing(m, p)
  BY <1>1, MachinesLast DEF Allowing
<1> QED
  BY <1>2 DEF AllowedButAllowing

(* A step that fits keeps everything but what the app holds. *)
LEMMA MovedKeeps ==
    ASSUME IInv, NEW c \in Conns, NEW e \in Ends, NEW s \in Steps, Moved(c, e, s),
           Fits(conns[c], e, s), s # "allowing", Step(c, e) # "allowing",
           s \in Last => ~conns'[c].open,
           UNCHANGED <<paired, allowed>>, troubles \subseteq troubles',
           BothYes(c) /\ troubles' = {} =>
               s # "over" /\ (conns[c].open /\ ~conns'[c].open => BothHeard(c))
    PROVE  HonestConns' /\ PairedByBoth' /\ AllowedButAllowing' /\ BothGoOn'
<1>1. Lasting
  BY DEF Moved, Lasting
<1>2. \A x \in Ends : Other(x) \in Ends
  BY DEF Ends, Other
<1>3. \A d \in Conns, x \in Ends : Step(d, x)' = IF d = c /\ x = e THEN s ELSE Step(d, x)
  BY DEF Moved, Step
<1>4. HonestConns'
  <2> SUFFICES ASSUME NEW d \in Conns
               PROVE  Honest(conns'[d])
    BY DEF HonestConns, Moved
  <2>1. Honest(conns[d])
    BY DEF IInv, HonestConns
  <2>2. /\ conns'[d].machine = conns[d].machine /\ conns'[d].said = conns[d].said
        /\ conns'[d].heard = conns[d].heard
    BY DEF Moved
  <2>3. ASSUME NEW x \in Ends
        PROVE  Fits(conns'[d], x, conns'[d].step[x])
    BY <2>1, <2>2 DEF Moved, Honest, Fits
  <2>4. ASSUME NEW x \in Ends, conns'[d].step[x] \in Last
        PROVE  ~conns'[d].open
    BY <2>1, <2>4 DEF Moved, Honest
  <2> QED
    BY <2>1, <2>2, <2>3, <2>4 DEF Honest
<1>5. PairedByBoth'
  BY <1>1, PairedLasts DEF IInv
<1>6. AllowedButAllowing'
  BY <1>1, <1>3, AllowedLasts DEF IInv, Moved
<1>7. BothGoOn'
  <2> SUFFICES ASSUME troubles' = {}, NEW d \in Conns, BothYes(d)'
               PROVE  /\ ~conns'[d].open => BothHeard(d)'
                      /\ \A x \in Ends : Step(d, x)' = "over"
                             => At(d, Other(x)) \in paired[At(d, x)]
    BY <1>1, <1>2, MachinesLast DEF BothGoOn, Moved
  <2>1. BothYes(d) /\ BothHeard(d)' = BothHeard(d)
    BY DEF Moved, BothYes, BothHeard
  <2>2. troubles = {}
    OBVIOUS
  <2> QED
    BY <1>3, <2>1, <2>2 DEF Moved, IInv, BothGoOn
<1> QED
  BY <1>4, <1>5, <1>6, <1>7

(* Nobody is offered an attempt, and the end that moves is not one that is held. *)
LEMMA OffersLast ==
    ASSUME IInv, NEW c \in Conns, NEW e \in Ends, NEW s \in Steps, Moved(c, e, s),
           Step(c, e) # "held",
           \A m \in Machines : app'[m].attempt = app[m].attempt,
           \A m \in Machines : \A msg \in messages'[m] :
               msg \in messages[m] \/ msg.kind # "offered"
    PROVE  Offers'
<1>1. ASSUME NEW d, NEW m, HeldAt(d, m)
      PROVE  HeldAt(d, m)'
  BY <1>1 DEF HeldAt, At, Step, Moved
<1> QED
  BY <1>1 DEF IInv, Offers

-----------------------------------------------------------------------------
LEMMA ConnFacts ==
    ASSUME IInv, NEW c \in Conns, NEW e \in Ends
    PROVE  /\ conns[c] \in Conn /\ c \in Attempt /\ c # 0
           /\ Honest(conns[c])
           /\ At(c, e) \in Machines /\ Step(c, e) \in Steps
           /\ Fits(conns[c], e, Step(c, e))
           /\ Other(e) \in Ends /\ Other(e) # e
           /\ conns[c].heard[e] \in {"nothing", conns[c].said[Other(e)]}
<1>1. conns[c] \in Conn /\ c \in Attempt /\ c # 0
  BY PairingAssumption DEF IInv, Typed, Conns, Attempt
<1>2. Honest(conns[c])
  BY DEF IInv, HonestConns
<1> QED
  BY <1>1, <1>2 DEF Honest, Conn, At, Step, Ends, Other

LEMMA TellTyped ==
    ASSUME Typed, NEW m \in Machines, NEW msg \in Message, Tell(m, msg)
    PROVE  /\ messages' \in [Machines -> SUBSET Message]
           /\ \A n \in Machines : \A x \in messages'[n] :
                x \in messages[n] \/ (x = msg /\ n = m)
BY DEF Typed, Tell

LEMMA NewMessages ==
    ASSUME NEW c \in Attempt
    PROVE  /\ Finished(c) \in Message /\ Finished(c).kind # "offered"
           /\ [kind |-> "failed", conn |-> c] \in Message
           /\ [kind |-> "offered", conn |-> c] \in Message
BY DEF Finished, Message

LEMMA ReleaseTyped ==
    ASSUME IInv, NEW c \in Conns, NEW e \in Ends, Release(c, e)
    PROVE  busy' \in [Machines -> BOOLEAN]
BY ConnFacts DEF IInv, Typed, Release

LEMMA TroubleGrows ==
    ASSUME NEW kind, Trouble(kind)
    PROVE  troubles \subseteq troubles' /\ troubles' # {}
BY DEF Trouble

(* A step at one end that hands the app no attempt. *)
LEMMA MovedStep ==
    ASSUME IInv, NEW c \in Conns, NEW e \in Ends, NEW s \in Steps, Moved(c, e, s),
           Fits(conns[c], e, s), s # "allowing", Step(c, e) \notin {"held", "allowing"},
           s \in Last => ~conns'[c].open,
           UNCHANGED <<app, paired, allowed>>, troubles \subseteq troubles',
           busy' \in [Machines -> BOOLEAN],
           messages' \in [Machines -> SUBSET Message],
           \A m \in Machines : \A msg \in messages'[m] :
               msg \in messages[m] \/ msg.kind # "offered",
           BothYes(c) /\ troubles' = {} =>
               s # "over" /\ (conns[c].open /\ ~conns'[c].open => BothHeard(c))
    PROVE  IInv'
<1>1. Typed'
  BY DEF Moved, IInv, Typed
<1>2. Offers'
  BY OffersLast
<1> QED
  BY <1>1, <1>2, MovedKeeps DEF IInv

LEMMA AcceptStep ==
    ASSUME IInv, NEW c \in Conns, Accept(c)
    PROVE  IInv'
<1> DEFINE taken == conns[c].open /\ ~busy[At(c, "callee")]
           s == IF taken THEN "greeting" ELSE "over"
<1>1. /\ conns[c] \in Conn /\ conns \in Seq(Conn)
      /\ Step(c, "callee") = "ringing" /\ conns[c].said["callee"] = "nothing"
      /\ "callee" \in Ends /\ s \in Steps
  BY ConnFacts DEF IInv, Typed, Accept, Fits, Ends, Steps
<1>2. Moved(c, "callee", s) /\ (s \in Last => ~conns'[c].open)
  <2>1. CASE taken
    <3>1. conns' = [conns EXCEPT ![c].step["callee"] = "greeting", ![c].open = TRUE]
      BY <2>1 DEF Accept
    <3>2. Became(c, [Stepped(conns[c], "callee", "greeting") EXCEPT !.open = TRUE])
      BY <1>1, <3>1, Zenon DEF Conns, Became, Stepped
    <3>3. Stepped(conns[c], "callee", "greeting") \in Conn
          /\ Stepped(conns[c], "callee", "greeting").open = TRUE
      BY <1>1, <2>1, SteppedConn
    <3>4. [Stepped(conns[c], "callee", "greeting") EXCEPT !.open = TRUE]
             = Stepped(conns[c], "callee", "greeting")
      BY <3>3 DEF Conn
    <3> QED
      BY <1>1, <2>1, <3>2, <3>4, StepMoves DEF IInv, Last
  <2>2. CASE ~taken
    <3>1. conns' = [conns EXCEPT ![c].step["callee"] = "over", ![c].open = FALSE]
      BY <2>2 DEF Accept
    <3>2. Became(c, Shut(Stepped(conns[c], "callee", "over")))
      BY <1>1, <3>1, Zenon DEF Conns, Became, Stepped, Shut
    <3> QED
      BY <1>1, <2>2, <3>2, ShutMoves DEF IInv
  <2> QED
    BY <2>1, <2>2
<1>3. busy' \in [Machines -> BOOLEAN]
  BY DEF Accept, IInv, Typed
<1>4. UNCHANGED <<app, messages, paired, allowed, troubles>>
  BY DEF Accept
<1>5. Fits(conns[c], "callee", s) /\ ~BothYes(c) /\ s # "allowing"
  BY <1>1 DEF Fits, BothYes
<1> HIDE DEF s
<1> QED
  BY <1>1, <1>2, <1>3, <1>4, <1>5, MovedStep DEF IInv, Typed

(* An attempt is handed to the app. *)
LEMMA HandStep ==
    ASSUME IInv, NEW c \in Conns, NEW e \in Ends, Moved(c, e, "held"),
           Step(c, e) \in {"greeting", "calling"},
           conns'[c].open = conns[c].open,
           Tell(At(c, e), [kind |-> "offered", conn |-> c]),
           UNCHANGED <<app, busy, paired, allowed, troubles>>
    PROVE  IInv'
<1> DEFINE msg == [kind |-> "offered", conn |-> c]
<1>1. /\ Fits(conns[c], e, "held") /\ ~BothYes(c) /\ "held" \in Steps
      /\ At(c, e) \in Machines /\ msg \in Message
  BY ConnFacts, NewMessages DEF Fits, BothYes, Steps
<1>2. /\ messages' \in [Machines -> SUBSET Message]
      /\ \A n \in Machines : \A x \in messages'[n] :
            x \in messages[n] \/ (x = msg /\ n = At(c, e))
  BY <1>1, TellTyped DEF IInv
<1>3. msg.conn = c
  OBVIOUS
<1> HIDE DEF msg
<1>4. Typed'
  BY <1>2 DEF Moved, IInv, Typed
<1>5. Offers'
  <2>1. ASSUME NEW d, NEW m, HeldAt(d, m)
        PROVE  HeldAt(d, m)'
    BY <2>1 DEF HeldAt, At, Step, Moved
  <2>2. \A m : m = At(c, e) => HeldAt(c, m)'
    BY DEF HeldAt, At, Step, Moved
  <2>3. ~HeldAt(c, At(c, e))
    BY ConnFacts DEF HeldAt, Honest, At, Ends
  <2>4. app[At(c, e)].attempt # c
    BY <1>1, <2>3, ConnFacts DEF IInv, Offers
  <2>5. ASSUME NEW m \in Machines
        PROVE  (app[m].attempt # 0 => HeldAt(app[m].attempt, m))'
    BY <2>1 DEF IInv, Offers
  <2>6. ASSUME NEW m \in Machines, NEW x \in messages'[m], x.kind = "offered"
        PROVE  (HeldAt(x.conn, m) /\ app[m].attempt # x.conn)'
    <3>1. CASE x \in messages[m]
      BY <2>1, <2>6, <3>1 DEF IInv, Offers
    <3>2. CASE x = msg /\ m = At(c, e)
      BY <1>3, <2>2, <2>4, <3>2
    <3> QED
      BY <1>2, <3>1, <3>2
  <2> QED
    BY <2>5, <2>6 DEF Offers
<1> QED
  BY <1>1, <1>4, <1>5, MovedKeeps DEF IInv, Last

LEMMA GreetStep ==
    ASSUME IInv, NEW c \in Conns, Greet(c)
    PROVE  IInv'
<1>1. "callee" \in Ends /\ "held" \in Steps
  BY DEF Ends, Steps
<1>2. Became(c, Greeted(Stepped(conns[c], "callee", "held")))
  BY Zenon DEF IInv, Typed, Conns, Greet, Became, Greeted, Stepped
<1>3. Moved(c, "callee", "held") /\ conns'[c].open = conns[c].open
  BY <1>1, <1>2, GreetMoves DEF IInv
<1> QED
  BY <1>1, <1>3, HandStep DEF Greet

LEMMA AnsweredStep ==
    ASSUME IInv, NEW c \in Conns, Answered(c)
    PROVE  IInv'
<1>1. "caller" \in Ends /\ "held" \in Steps
  BY DEF Ends, Steps
<1>2. Became(c, Stepped(conns[c], "caller", "held"))
  BY Zenon DEF IInv, Typed, Conns, Answered, Became, Stepped
<1>3. Moved(c, "caller", "held") /\ conns'[c].open = conns[c].open
  BY <1>1, <1>2, StepMoves DEF IInv
<1> QED
  BY <1>1, <1>3, HandStep DEF Answered

(* The end e of a connection is over, and the connection with it. *)
LEMMA OverMoves ==
    ASSUME IInv, NEW c \in Conns, NEW e \in Ends,
           conns' = [conns EXCEPT ![c].step[e] = "over", ![c].open = FALSE]
    PROVE  Moved(c, e, "over") /\ ~conns'[c].open /\ "over" \in Steps
           /\ Fits(conns[c], e, "over")
<1>1. "over" \in Steps
  BY DEF Steps
<1>2. Became(c, Shut(Stepped(conns[c], e, "over")))
  BY Zenon DEF IInv, Typed, Conns, Became, Shut, Stepped
<1>3. Fits(conns[c], e, "over")
  BY DEF Fits
<1> QED
  BY <1>1, <1>2, <1>3, ShutMoves DEF IInv

LEMMA GreetFailsStep ==
    ASSUME IInv, NEW c \in Conns, GreetFails(c)
    PROVE  IInv'
<1>1. "callee" \in Ends
  BY DEF Ends
<1>2. Moved(c, "callee", "over") /\ "over" \in Steps /\ Fits(conns[c], "callee", "over")
      /\ ~conns'[c].open
  BY <1>1, OverMoves DEF GreetFails
<1>3. busy' \in [Machines -> BOOLEAN]
  BY <1>1, ReleaseTyped DEF GreetFails
<1>4. Step(c, "callee") = "greeting" /\ ~BothYes(c)
  BY <1>1, ConnFacts DEF GreetFails, Fits, BothYes
<1>5. troubles \subseteq troubles'
  BY TroubleGrows DEF GreetFails
<1>6. UNCHANGED <<app, messages, paired, allowed>>
  BY DEF GreetFails
<1> QED
  BY <1>1, <1>2, <1>3, <1>4, <1>5, <1>6, MovedStep DEF IInv, Typed

LEMMA NotAnsweredStep ==
    ASSUME IInv, NEW c \in Conns, NotAnswered(c)
    PROVE  IInv'
<1>1. "caller" \in Ends /\ At(c, "caller") \in Machines /\ c \in Attempt
  BY ConnFacts DEF Ends
<1>2. Moved(c, "caller", "over") /\ "over" \in Steps /\ Fits(conns[c], "caller", "over")
      /\ ~conns'[c].open
  BY <1>1, OverMoves DEF NotAnswered
<1>3. Step(c, "caller") = "calling" /\ ~BothYes(c)
  BY <1>1, ConnFacts DEF NotAnswered, Fits, BothYes
<1>4. troubles \subseteq troubles'
  BY TroubleGrows DEF NotAnswered
<1>5. UNCHANGED <<app, busy, paired, allowed>>
  BY DEF NotAnswered
<1>6. /\ messages' \in [Machines -> SUBSET Message]
      /\ \A m \in Machines : \A msg \in messages'[m] :
            msg \in messages[m] \/ msg.kind # "offered"
  <2> DEFINE msg == [kind |-> "failed", conn |-> c]
  <2>1. Tell(At(c, "caller"), msg) /\ msg \in Message /\ msg.kind # "offered"
    BY <1>1, NewMessages DEF NotAnswered
  <2> HIDE DEF msg
  <2> QED
    BY <1>1, <2>1, TellTyped DEF IInv
<1> QED
  BY <1>1, <1>2, <1>3, <1>4, <1>5, <1>6, MovedStep DEF IInv, Typed

(* End, for whatever end did not just agree. *)
LEMMA EndEffects ==
    ASSUME IInv, NEW c \in Conns, NEW e \in Ends, End(c, e)
    PROVE  /\ Moved(c, e, "over") /\ "over" \in Steps /\ Fits(conns[c], e, "over")
           /\ ~conns'[c].open
           /\ busy' \in [Machines -> BOOLEAN]
           /\ messages' \in [Machines -> SUBSET Message]
           /\ \A m \in Machines : \A msg \in messages'[m] :
                msg \in messages[m] \/ msg.kind # "offered"
<1>1. Moved(c, e, "over") /\ "over" \in Steps /\ Fits(conns[c], e, "over")
      /\ ~conns'[c].open
  BY OverMoves DEF End
<1>2. busy' \in [Machines -> BOOLEAN]
  BY ReleaseTyped DEF End
<1>3. messages' = messages \/ Tell(At(c, e), Finished(c))
  BY DEF End
<1> QED
  BY <1>1, <1>2, <1>3, ConnFacts, NewMessages, TellTyped DEF IInv, Typed

LEMMA EndStep ==
    ASSUME IInv, NEW c \in Conns, NEW e \in Ends, End(c, e),
           Step(c, e) \notin {"held", "allowing"},
           UNCHANGED <<app, paired, allowed>>, troubles \subseteq troubles',
           BothYes(c) => troubles' # {}
    PROVE  IInv'
BY EndEffects, MovedStep

LEMMA ReadStep ==
    ASSUME IInv, NEW c \in Conns, NEW e \in Ends, Read(c, e)
    PROVE  IInv'
<1>1. "closing" \in Steps
  BY DEF Steps
<1>2. Became(c, Stepped(conns[c], e, "closing"))
  BY Zenon DEF IInv, Typed, Conns, Read, Became, Stepped
<1>3. Moved(c, e, "closing") /\ conns'[c].open = conns[c].open
  BY <1>1, <1>2, StepMoves DEF IInv
<1>4. Fits(conns[c], e, "closing") /\ Step(c, e) = "waiting"
  BY ConnFacts DEF Read, Fits
<1>5. UNCHANGED <<app, messages, busy, paired, allowed, troubles>>
  BY DEF Read
<1> QED
  BY <1>1, <1>3, <1>4, <1>5, MovedStep DEF IInv, Typed, Last

LEMMA GiveUpStep ==
    ASSUME IInv, NEW c \in Conns, NEW e \in Ends, GiveUp(c, e)
    PROVE  IInv'
<1>1. Step(c, e) = "waiting" /\ conns[c].heard[e] = "nothing" /\ End(c, e)
      /\ UNCHANGED <<app, paired, allowed>>
  BY DEF GiveUp
<1>2. troubles \subseteq troubles'
  BY TroubleGrows DEF GiveUp
<1>3. BothYes(c) => troubles' # {}
  <2>1. CASE conns[c].open
    BY <2>1, TroubleGrows DEF GiveUp
  <2>2. CASE ~conns[c].open
    BY <1>1, <1>2, <2>2 DEF IInv, BothGoOn, BothHeard
  <2> QED
    BY <2>1, <2>2
<1> QED
  BY <1>1, <1>2, <1>3, EndStep

LEMMA CloseStep ==
    ASSUME IInv, NEW c \in Conns, NEW e \in Ends, Close(c, e)
    PROVE  IInv'
<1>1. /\ Step(c, e) \in {"closing", "declining", "refusing"}
      /\ UNCHANGED <<app, paired, allowed>>
      /\ troubles \subseteq troubles'
      /\ conns[c].open /\ troubles' = {} => conns[c].heard[Other(e)] # "nothing"
  BY TroubleGrows DEF Close, ReachedThem
<1>2. CASE Agreed(c, e)
  <2>1. "saving" \in Steps /\ Fits(conns[c], e, "saving") /\ conns[c].heard[e] # "nothing"
    BY <1>2, ConnFacts DEF Agreed, Fits, Steps
  <2>2. Became(c, Shut(Stepped(conns[c], e, "saving")))
    BY <1>2, Zenon DEF IInv, Typed, Conns, Close, Became, Shut, Stepped
  <2>3. Moved(c, e, "saving") /\ ~conns'[c].open
    BY <2>1, <2>2, ShutMoves DEF IInv
  <2>4. UNCHANGED <<busy, messages>>
    BY <1>2 DEF Close
  <2>5. conns[c].open /\ troubles' = {} => BothHeard(c)
    BY <1>1, <2>1 DEF BothHeard, Ends, Other
  <2> QED
    BY <1>1, <2>1, <2>3, <2>4, <2>5, MovedStep DEF IInv, Typed
<1>3. CASE ~Agreed(c, e)
  <2>1. End(c, e)
    BY <1>3 DEF Close
  <2>2. ~BothYes(c)
    BY <1>1, <1>3, ConnFacts DEF Agreed, BothYes, Fits
  <2> QED
    BY <1>1, <2>1, <2>2, EndStep
<1> QED
  BY <1>2, <1>3

LEMMA SaveFailsStep ==
    ASSUME IInv, NEW c \in Conns, NEW e \in Ends, SaveFails(c, e)
    PROVE  IInv'
BY EndStep, TroubleGrows DEF SaveFails

-----------------------------------------------------------------------------
LEMMA SaveStep ==
    ASSUME IInv, NEW c \in Conns, NEW e \in Ends, Save(c, e)
    PROVE  IInv'
<1> DEFINE m == At(c, e)
           p == At(c, Other(e))
<1>1. /\ "allowing" \in Steps /\ Step(c, e) = "saving"
      /\ m \in Machines /\ p \in Machines /\ Other(e) \in Ends
      /\ ~conns[c].open /\ BothYes(c)
  <2>1. Other(e) \in Ends /\ Other(Other(e)) = e /\ Ends = {e, Other(e)}
    BY DEF Ends, Other
  <2> QED
    BY <2>1, ConnFacts DEF Save, Steps, Fits, BothYes, Honest, Last, Step
<1>2. Became(c, Stepped(conns[c], e, "allowing"))
  BY Zenon DEF IInv, Typed, Conns, Save, Became, Stepped
<1>3. Moved(c, e, "allowing") /\ conns'[c].open = conns[c].open
  BY <1>1, <1>2, StepMoves DEF IInv
<1>4. /\ paired' = [paired EXCEPT ![m] = @ \cup {p}]
      /\ UNCHANGED <<app, messages, busy, allowed, troubles>>
  BY DEF Save
<1>5. Lasting
  BY <1>3 DEF Moved, Lasting
<1>6. /\ paired' \in [Machines -> SUBSET Machines]
      /\ \A n, q \in Machines : q \in paired'[n] <=> q \in paired[n] \/ (n = m /\ q = p)
  BY <1>1, <1>4 DEF IInv, Typed
<1>7. \A d \in Conns, x \in Ends : Step(d, x)' = IF d = c /\ x = e THEN "allowing" ELSE Step(d, x)
  BY <1>3 DEF Moved, Step
<1>8. \A d \in Conns, x \in Ends : At(d, x)' = At(d, x) /\ Other(x) \in Ends
  BY <1>5, MachinesLast DEF Ends, Other
<1>16. \A n, q : Allowing(n, q)' <=> Allowing(n, q) \/ (n = m /\ q = p)
  BY <1>1, <1>3, <1>7, <1>8 DEF Allowing, Moved
<1>9. Between(c, m, p)
  BY DEF Between, Ends, Other
<1> HIDE DEF m, p
<1>10. Typed'
  BY <1>3, <1>4, <1>6 DEF Moved, IInv, Typed
<1>11. Offers'
  BY <1>1, <1>3, <1>4, OffersLast DEF IInv, Typed
<1>12. HonestConns'
  <2> SUFFICES ASSUME NEW d \in Conns
               PROVE  Honest(conns'[d])
    BY <1>3 DEF HonestConns, Moved
  <2>1. Honest(conns[d])
    BY DEF IInv, HonestConns
  <2>2. /\ conns'[d].machine = conns[d].machine /\ conns'[d].said = conns[d].said
        /\ conns'[d].heard = conns[d].heard /\ conns'[d].open = conns[d].open
    BY <1>3 DEF Moved
  <2>3. ASSUME NEW x \in Ends
        PROVE  /\ Fits(conns'[d], x, conns'[d].step[x])
               /\ conns'[d].step[x] \in Last => ~conns'[d].open
    BY <1>1, <1>3, <2>1, <2>2 DEF Moved, Honest, Fits, Step, Last
  <2> QED
    BY <2>1, <2>2, <2>3 DEF Honest
<1>13. PairedByBoth'
  <2> SUFFICES ASSUME NEW n \in Machines, NEW q \in Machines, q \in paired'[n]
               PROVE  \E d \in Conns' : Between(d, n, q)' /\ BothYes(d)'
    BY DEF PairedByBoth, BothYes, Conns
  <2>1. PICK d \in Conns : Between(d, n, q) /\ BothYes(d)
    BY <1>1, <1>6, <1>9 DEF PairedByBoth, BothYes, Conns, IInv
  <2>2. d \in Conns' /\ BothYes(d)'
    BY <1>5, <2>1 DEF Lasting, BothYes
  <2> QED
    BY <1>5, <2>1, <2>2, MachinesLast
<1>14. AllowedButAllowing'
  <2> SUFFICES ASSUME "unpaired while pairing" \notin troubles,
                      NEW n \in Machines, NEW q \in Machines
               PROVE  /\ Allowing(n, q)' => q \in paired'[n]
                      /\ q \in allowed[n] => q \in paired'[n]
                      /\ q \in paired'[n] => q \in allowed[n] \/ Allowing(n, q)'
    BY <1>4 DEF AllowedButAllowing
  <2> QED
    BY <1>6, <1>16 DEF IInv, AllowedButAllowing
<1>15. BothGoOn'
  <2> SUFFICES ASSUME troubles = {}, NEW d \in Conns, BothYes(d)
               PROVE  /\ ~conns'[d].open => BothHeard(d)'
                      /\ \A x \in Ends : Step(d, x)' = "over"
                             => At(d, Other(x)) \in paired'[At(d, x)]
    BY <1>3, <1>4, <1>8 DEF BothGoOn, Moved, BothYes
  <2>1. BothHeard(d)' = BothHeard(d) /\ conns'[d].open = conns[d].open
    BY <1>3 DEF Moved, BothHeard
  <2>2. \A x \in Ends : At(d, x) \in Machines
    BY ConnFacts
  <2> QED
    BY <1>6, <1>7, <1>8, <2>1, <2>2 DEF IInv, BothGoOn
<1> QED
  BY <1>10, <1>11, <1>12, <1>13, <1>14, <1>15 DEF IInv

LEMMA AllowStep ==
    ASSUME IInv, NEW c \in Conns, NEW e \in Ends, Allow(c, e)
    PROVE  IInv'
<1> DEFINE m == At(c, e)
           p == At(c, Other(e))
<1>1. /\ Step(c, e) = "allowing" /\ m \in Machines /\ p \in Machines
      /\ ~conns[c].open /\ End(c, e)
      /\ UNCHANGED <<app, paired, troubles>>
  BY ConnFacts DEF Allow, Honest, Last, Step
<1>2. /\ Moved(c, e, "over") /\ "over" \in Steps
      /\ busy' \in [Machines -> BOOLEAN]
      /\ messages' \in [Machines -> SUBSET Message]
      /\ \A n \in Machines : \A msg \in messages'[n] :
           msg \in messages[n] \/ msg.kind # "offered"
  BY <1>1, EndEffects
<1>3. allowed' = [allowed EXCEPT ![m] = @ \cup {p}]
  BY DEF Allow, AllowPeer
<1>4. /\ allowed' \in [Machines -> SUBSET Machines]
      /\ \A n, q \in Machines : q \in allowed'[n] <=> q \in allowed[n] \/ (n = m /\ q = p)
  BY <1>1, <1>3 DEF IInv, Typed
<1>5. Lasting
  BY <1>2 DEF Moved, Lasting
<1>6. \A d \in Conns, x \in Ends : Step(d, x)' = IF d = c /\ x = e THEN "over" ELSE Step(d, x)
  BY <1>2 DEF Moved, Step
<1>7. \A d \in Conns, x \in Ends : At(d, x)' = At(d, x) /\ Other(x) \in Ends
  BY <1>5, MachinesLast DEF Ends, Other
<1>8. /\ \A n, q : Allowing(n, q)' => Allowing(n, q)
      /\ \A n, q : Allowing(n, q) => Allowing(n, q)' \/ (n = m /\ q = p)
      /\ Allowing(m, p)
  BY <1>1, <1>2, <1>6, <1>7 DEF Allowing, Moved
<1> HIDE DEF m, p
<1>9. Typed'
  BY <1>1, <1>2, <1>4 DEF Moved, IInv, Typed
<1>10. Offers'
  BY <1>1, <1>2, OffersLast
<1>11. HonestConns'
  <2> SUFFICES ASSUME NEW d \in Conns
               PROVE  Honest(conns'[d])
    BY <1>2 DEF HonestConns, Moved
  <2>1. Honest(conns[d])
    BY DEF IInv, HonestConns
  <2>2. /\ conns'[d].machine = conns[d].machine /\ conns'[d].said = conns[d].said
        /\ conns'[d].heard = conns[d].heard /\ (conns'[d].open => conns[d].open)
    BY <1>2 DEF Moved
  <2>3. ASSUME NEW x \in Ends
        PROVE  /\ Fits(conns'[d], x, conns'[d].step[x])
               /\ conns'[d].step[x] \in Last => ~conns'[d].open
    BY <1>1, <1>2, <2>1, <2>2 DEF Moved, Honest, Fits, Step, Last
  <2> QED
    BY <2>1, <2>2, <2>3 DEF Honest
<1>12. PairedByBoth'
  BY <1>1, <1>5, PairedLasts DEF IInv
<1>13. AllowedButAllowing'
  BY <1>1, <1>4, <1>8 DEF IInv, AllowedButAllowing
<1>14. BothGoOn'
  <2> SUFFICES ASSUME troubles = {}, NEW d \in Conns, BothYes(d)
               PROVE  /\ ~conns'[d].open => BothHeard(d)'
                      /\ \A x \in Ends : Step(d, x)' = "over"
                             => At(d, Other(x)) \in paired[At(d, x)]
    BY <1>1, <1>2, <1>7 DEF BothGoOn, Moved, BothYes
  <2>1. BothHeard(d)' = BothHeard(d) /\ (d # c => conns'[d].open = conns[d].open)
    BY <1>2 DEF Moved, BothHeard
  <2>2. p \in paired[m]
    BY <1>1, <1>8 DEF IInv, AllowedButAllowing
  <2> QED
    BY <1>1, <1>6, <2>1, <2>2 DEF IInv, BothGoOn, m, p
<1> QED
  BY <1>9, <1>10, <1>11, <1>12, <1>13, <1>14 DEF IInv

-----------------------------------------------------------------------------
(* Steps that say something, hear something or close a connection. *)

(* An answer arrives. *)
LEMMA ArriveStep ==
    ASSUME IInv, NEW c \in Conns, NEW e \in Ends, Arrive(c, e)
    PROVE  IInv'
<1> DEFINE r == Hearing(conns[c], Other(e), conns[c].said[e])
<1>1. /\ conns[c] \in Conn /\ Other(e) \in Ends /\ conns[c].said[e] \in Answers
      /\ conns[c].heard[Other(e)] = "nothing" /\ conns[c].said[e] # "nothing"
      /\ Other(Other(e)) = e /\ Honest(conns[c])
  BY ConnFacts DEF Arrive, Conn, Ends, Other
<1>2. /\ r \in Conn /\ r.machine = conns[c].machine /\ r.said = conns[c].said
      /\ r.step = conns[c].step /\ r.open = conns[c].open
      /\ \A x \in Ends : r.heard[x] = IF x = Other(e) THEN conns[c].said[e]
                                      ELSE conns[c].heard[x]
  BY <1>1, HearingConn
<1>3. Became(c, r)
  BY Zenon DEF IInv, Typed, Conns, Arrive, Became, Hearing
<1> HIDE DEF r
<1>4. /\ conns' \in Seq(Conn) /\ Len(conns') = Len(conns) /\ Conns' = Conns
      /\ \A d \in Conns : conns'[d] = IF d = c THEN r ELSE conns[d]
  BY <1>2, <1>3, BecameConns DEF IInv
<1>5. UNCHANGED <<app, messages, busy, paired, allowed, troubles>>
  BY DEF Arrive
<1>6. /\ Lasting
      /\ \A d \in Conns : conns'[d].step = conns[d].step /\ conns'[d].said = conns[d].said
                          /\ conns'[d].machine = conns[d].machine
                          /\ conns'[d].open = conns[d].open
  BY <1>2, <1>4 DEF Lasting
<1>7. Typed'
  BY <1>4, <1>5 DEF IInv, Typed
<1>8. HonestConns'
  <2>1. Honest(r)
    BY <1>1, <1>2 DEF Honest, Fits
  <2> QED
    BY <1>4, <2>1 DEF IInv, HonestConns
<1>9. Offers'
  <2>1. \A d, m : HeldAt(d, m)' <=> HeldAt(d, m)
    BY <1>4, <1>6 DEF HeldAt, At, Step
  <2> QED
    BY <1>5, <2>1 DEF IInv, Offers
<1>10. PairedByBoth'
  BY <1>5, <1>6, PairedLasts DEF IInv
<1>11. AllowedButAllowing'
  BY <1>4, <1>5, <1>6, AllowedLasts DEF IInv, Step
<1>12. BothGoOn'
  <2>1. \A d \in Conns : BothHeard(d) => BothHeard(d)'
    BY <1>1, <1>2, <1>4 DEF BothHeard
  <2> QED
    BY <1>4, <1>5, <1>6, <2>1 DEF IInv, BothGoOn, BothYes, Step, At
<1> QED
  BY <1>7, <1>8, <1>9, <1>10, <1>11, <1>12 DEF IInv

(* An end that holds an attempt answers it; nobody else moves. *)
DecidedSteps == {"waiting", "declining", "refusing"}

LEMMA DecideKeeps ==
    ASSUME IInv, NEW c \in Conns, NEW e \in Ends, NEW next \in DecidedSteps,
           Step(c, e) = "held", Decide(c, e, next),
           UNCHANGED <<paired, allowed, troubles>>
    PROVE  /\ conns' \in Seq(Conn) /\ Len(conns') = Len(conns)
           /\ busy' \in [Machines -> BOOLEAN]
           /\ HonestConns' /\ PairedByBoth' /\ AllowedButAllowing' /\ BothGoOn'
           /\ \A d, n : HeldAt(d, n) /\ (d # c \/ n # At(c, e)) => HeldAt(d, n)'
<1>1. /\ conns[c] \in Conn /\ conns[c].said[e] = "nothing" /\ ~BothYes(c)
      /\ Honest(conns[c]) /\ next \in Steps /\ Decision(next) \in Answers
  BY ConnFacts DEF Fits, BothYes, DecidedSteps, Decision, Answers, Steps
<1>2. CASE ~conns[c].open
  <2>1. /\ conns' = [conns EXCEPT ![c].step[e] = "over"] /\ Release(c, e) /\ "over" \in Steps
    BY <1>2 DEF Decide, Steps
  <2>2. Became(c, Stepped(conns[c], e, "over"))
    BY <2>1, Zenon DEF IInv, Typed, Conns, Became, Stepped
  <2>3. Moved(c, e, "over") /\ conns'[c].open = conns[c].open
    BY <2>1, <2>2, StepMoves DEF IInv
  <2>4. Fits(conns[c], e, "over")
    BY DEF Fits
  <2>5. HonestConns' /\ PairedByBoth' /\ AllowedButAllowing' /\ BothGoOn'
    BY <1>1, <1>2, <2>1, <2>3, <2>4, MovedKeeps
  <2>6. busy' \in [Machines -> BOOLEAN]
    BY <2>1, ReleaseTyped
  <2>7. \A d, n : HeldAt(d, n) /\ (d # c \/ n # At(c, e)) => HeldAt(d, n)'
    BY <2>3 DEF HeldAt, At, Step, Moved
  <2> QED
    BY <2>3, <2>5, <2>6, <2>7 DEF Moved
<1>3. CASE conns[c].open
  <2> DEFINE q == Saying(conns[c], e, Decision(next))
             r == Stepped(q, e, next)
  <2>1. conns' = [conns EXCEPT ![c].said[e] = Decision(next), ![c].step[e] = next]
        /\ UNCHANGED busy
    BY <1>3 DEF Decide
  <2>2. Became(c, r)
    BY <2>1, Zenon DEF IInv, Typed, Conns, Became, Stepped, Saying
  <2>3. /\ q \in Conn /\ q.machine = conns[c].machine /\ q.heard = conns[c].heard
        /\ q.step = conns[c].step /\ q.open = conns[c].open
        /\ \A x \in Ends : q.said[x] = IF x = e THEN Decision(next) ELSE conns[c].said[x]
    BY <1>1, SayingConn
  <2> HIDE DEF q
  <2>4. /\ r \in Conn /\ r.machine = q.machine /\ r.said = q.said
        /\ r.heard = q.heard /\ r.open = q.open
        /\ \A x \in Ends : r.step[x] = IF x = e THEN next ELSE q.step[x]
    BY <1>1, <2>3, SteppedConn
  <2> HIDE DEF r
  <2>5. /\ conns' \in Seq(Conn) /\ Len(conns') = Len(conns) /\ Conns' = Conns
        /\ \A d \in Conns : conns'[d] = IF d = c THEN r ELSE conns[d]
    BY <2>2, <2>4, BecameConns DEF IInv
  <2>6. Lasting
    BY <1>1, <2>3, <2>4, <2>5 DEF Lasting
  <2>7. \A d \in Conns, x \in Ends : Step(d, x)' = IF d = c /\ x = e THEN next ELSE Step(d, x)
    BY <2>3, <2>4, <2>5 DEF Step
  <2>8. HonestConns'
    <3>1. Honest(r)
      <4>1. \A x \in Ends : Fits(r, x, r.step[x])
        BY <1>1, <2>3, <2>4 DEF Honest, Fits, DecidedSteps, Decision
      <4>2. \A x \in Ends : r.heard[x] \in {"nothing", r.said[Other(x)]}
        BY <1>1, <2>3, <2>4 DEF Honest, Ends, Other
      <4>3. \A x \in Ends : r.step[x] \in Last => ~r.open
        BY <1>1, <2>3, <2>4 DEF Honest, Last, DecidedSteps
      <4> QED
        BY <1>1, <2>3, <2>4, <4>1, <4>2, <4>3 DEF Honest
    <3> QED
      BY <2>5, <3>1 DEF IInv, HonestConns
  <2>9. PairedByBoth'
    BY <2>6, PairedLasts DEF IInv
  <2>10. AllowedButAllowing'
    <3>1. \A d \in Conns, x \in Ends : (Step(d, x) = "allowing")' = (Step(d, x) = "allowing")
      BY <2>7 DEF DecidedSteps
    <3> QED
      BY <2>5, <2>6, <3>1, AllowedLasts DEF IInv
  <2>11. BothGoOn'
    <3> SUFFICES ASSUME troubles = {}, NEW d \in Conns, BothYes(d)'
                 PROVE  /\ ~conns'[d].open => BothHeard(d)'
                        /\ \A x \in Ends : Step(d, x)' = "over"
                               => At(d, Other(x))' \in paired[At(d, x)']
      BY <2>5 DEF BothGoOn
    <3>1. CASE d = c
      BY <1>1, <1>3, <2>3, <2>4, <2>5, <2>7, <3>1 DEF Honest, Last, DecidedSteps, Step
    <3>2. CASE d # c
      BY <2>5, <3>2 DEF IInv, BothGoOn, BothYes, BothHeard, Step, At
    <3> QED
      BY <3>1, <3>2
  <2>12. \A d, n : HeldAt(d, n) /\ (d # c \/ n # At(c, e)) => HeldAt(d, n)'
    BY <2>3, <2>4, <2>5, <2>7 DEF HeldAt, At
  <2> QED
    BY <2>1, <2>5, <2>8, <2>9, <2>10, <2>11, <2>12 DEF IInv, Typed
<1> QED
  BY <1>2, <1>3

(* The end an attempt is held at is the one EndAt names. *)
LEMMA EndAtHeld ==
    ASSUME IInv, NEW c, NEW m, HeldAt(c, m)
    PROVE  /\ c \in Conns /\ EndAt(c, m) \in Ends
           /\ At(c, EndAt(c, m)) = m /\ Step(c, EndAt(c, m)) = "held"
<1>1. PICK x \in Ends : c \in Conns /\ At(c, x) = m /\ Step(c, x) = "held"
  BY DEF HeldAt
<1>2. EndAt(c, m) \in Ends /\ At(c, EndAt(c, m)) = m
  BY <1>1 DEF EndAt
<1>3. \A y \in Ends : At(c, y) = m => y = x
  BY <1>1, ConnFacts DEF Honest, At, Ends
<1> QED
  BY <1>1, <1>2, <1>3



(* What the app holds and hears changes none of this. *)
LEMMA SameKeeps ==
    ASSUME IInv, UNCHANGED <<conns, paired, allowed, troubles>>
    PROVE  HonestConns' /\ PairedByBoth' /\ AllowedButAllowing' /\ BothGoOn'
<1>1. Lasting /\ Conns' = Conns
  BY DEF Lasting, Conns
<1>2. HonestConns'
  BY <1>1 DEF IInv, HonestConns
<1>3. PairedByBoth'
  BY <1>1, PairedLasts DEF IInv
<1>4. AllowedButAllowing'
  BY <1>1, AllowedLasts DEF IInv, Step
<1>5. BothGoOn'
  BY <1>1 DEF IInv, BothGoOn, BothYes, BothHeard, At, Step
<1> QED
  BY <1>2, <1>3, <1>4, <1>5

LEMMA ShownDialog ==
    ASSUME NEW m \in Machines, app[m] \in Dialog, NEW accept \in BOOLEAN
    PROVE  Shown(m, accept) \in Dialog /\ Shown(m, accept).attempt = 0
<1>1. 0 \in Attempt
  BY PairingAssumption DEF Attempt
<1>2. CASE accept
  BY <1>1, <1>2 DEF Shown, Dialog
<1>3. CASE ~accept
  BY <1>1, <1>3 DEF Shown, Dialog
<1> QED
  BY <1>2, <1>3

LEMMA HearStep ==
    ASSUME IInv, NEW m \in Machines, Hear(m)
    PROVE  IInv'
<1>1. PICK msg \in messages[m] :
         /\ messages' = [messages EXCEPT ![m] = @ \ {msg}]
         /\ \/ msg.kind = "offered" /\ OnOffered(m, msg.conn)
            \/ msg.kind \in {"failed", "finished"} /\ OnOver(m)
  BY DEF Hear
<1>2. UNCHANGED <<paired, allowed, troubles>>
  BY DEF Hear
<1>3. /\ messages' \in [Machines -> SUBSET Message]
      /\ \A n \in Machines : messages'[n] \subseteq messages[n]
      /\ msg \notin messages'[m]
  BY <1>1 DEF IInv, Typed
<1>4. app[m] \in Dialog
  BY DEF IInv, Typed
<1> DEFINE c == msg.conn
<1>5. CASE msg.kind = "offered" /\ app[m].attempt # 0
  <2> DEFINE e == EndAt(c, m)
  <2>1. HeldAt(c, m) /\ app[m].attempt # c
    BY <1>5 DEF IInv, Offers
  <2>2. c \in Conns /\ e \in Ends /\ At(c, e) = m /\ Step(c, e) = "held"
    BY <2>1, EndAtHeld
  <2>3. Decide(c, e, "refusing") /\ UNCHANGED app
    BY <1>1, <1>5 DEF OnOffered
  <2> HIDE DEF e
  <2>4. /\ conns' \in Seq(Conn) /\ Len(conns') = Len(conns)
        /\ busy' \in [Machines -> BOOLEAN]
        /\ HonestConns' /\ PairedByBoth' /\ AllowedButAllowing' /\ BothGoOn'
        /\ \A d, n : HeldAt(d, n) /\ (d # c \/ n # m) => HeldAt(d, n)'
    BY <1>2, <2>2, <2>3, DecideKeeps DEF DecidedSteps
  <2>5. \A x \in messages'[m] : x.kind = "offered" => x.conn # c
    BY <1>3, <1>5 DEF IInv, Typed, Message
  <2>6. Offers'
    BY <1>3, <2>1, <2>3, <2>4, <2>5 DEF IInv, Offers
  <2>7. Typed'
    BY <1>2, <1>3, <2>3, <2>4 DEF IInv, Typed
  <2> QED
    BY <2>4, <2>6, <2>7 DEF IInv
<1>6. CASE msg.kind = "offered" /\ app[m].attempt = 0
  <2>1. HeldAt(c, m) /\ c \in Attempt /\ c # 0
    BY <1>6, EndAtHeld, ConnFacts DEF IInv, Offers, HeldAt
  <2>2. app' = [app EXCEPT ![m] = Hold(m, c)] /\ UNCHANGED <<conns, busy>>
    BY <1>1, <1>6 DEF OnOffered
  <2>3. Hold(m, c) \in Dialog /\ Hold(m, c).attempt = c
    BY <1>4, <2>1 DEF Hold, Dialog
  <2>4. Typed'
    BY <1>2, <1>3, <2>2, <2>3 DEF IInv, Typed
  <2>5. \A x \in messages'[m] : x.kind = "offered" => x.conn # c
    BY <1>3, <1>6 DEF IInv, Typed, Message
  <2>6. \A d, n : HeldAt(d, n)' <=> HeldAt(d, n)
    BY <2>2 DEF HeldAt, At, Step, Conns
  <2>7. \A n \in Machines : app'[n].attempt = IF n = m THEN c ELSE app[n].attempt
    BY <2>2, <2>3 DEF IInv, Typed
  <2>8. Offers'
    BY <1>3, <2>1, <2>5, <2>6, <2>7 DEF IInv, Offers
  <2> QED
    BY <1>2, <2>2, <2>4, <2>8, SameKeeps DEF IInv
<1>7. CASE msg.kind \in {"failed", "finished"}
  <2>1. app' = [app EXCEPT ![m].open = FALSE] /\ UNCHANGED <<conns, busy>>
    BY <1>1, <1>7 DEF OnOver
  <2>2. /\ app' \in [Machines -> Dialog]
        /\ \A n \in Machines : app'[n].attempt = app[n].attempt
    BY <1>4, <2>1 DEF IInv, Typed, Dialog
  <2>3. Typed'
    BY <1>2, <1>3, <2>1, <2>2 DEF IInv, Typed
  <2>4. \A d, n : HeldAt(d, n)' <=> HeldAt(d, n)
    BY <2>1 DEF HeldAt, At, Step, Conns
  <2>5. Offers'
    BY <1>3, <2>2, <2>4 DEF IInv, Offers
  <2> QED
    BY <1>2, <2>1, <2>3, <2>5, SameKeeps DEF IInv
<1> QED
  BY <1>1, <1>5, <1>6, <1>7

LEMMA ConfirmStep ==
    ASSUME IInv, NEW m \in Machines, NEW accept \in BOOLEAN, Confirm(m, accept)
    PROVE  IInv'
<1> DEFINE c == app[m].attempt
           next == IF accept THEN "waiting" ELSE "declining"
           e == EndAt(c, m)
<1>1. UNCHANGED <<paired, allowed, troubles>>
  BY DEF Confirm
<1>2. app[m] \in Dialog
  BY DEF IInv, Typed
<1>3. CASE c = 0
  <2>1. app' = [app EXCEPT ![m].open = FALSE] /\ UNCHANGED <<conns, busy, messages>>
    BY <1>3 DEF Confirm
  <2>2. /\ app' \in [Machines -> Dialog]
        /\ \A n \in Machines : app'[n].attempt = app[n].attempt
    BY <1>2, <2>1 DEF IInv, Typed, Dialog
  <2>3. Typed'
    BY <1>1, <2>1, <2>2 DEF IInv, Typed
  <2>4. \A d, n : HeldAt(d, n)' <=> HeldAt(d, n)
    BY <2>1 DEF HeldAt, At, Step, Conns
  <2>5. Offers'
    BY <2>1, <2>2, <2>4 DEF IInv, Offers
  <2> QED
    BY <1>1, <2>1, <2>3, <2>5, SameKeeps DEF IInv
<1>4. CASE c # 0
  <2>1. HeldAt(c, m)
    BY <1>4 DEF IInv, Offers
  <2>2. /\ c \in Conns /\ e \in Ends /\ At(c, e) = m /\ Step(c, e) = "held"
        /\ c \in Attempt
    BY <2>1, EndAtHeld, ConnFacts
  <2>3. /\ Decide(c, e, next)
        /\ app' = [app EXCEPT ![m] = Shown(m, accept)]
        /\ messages' = [messages EXCEPT ![m] = @ \cup Report(m, c, next)]
    BY <1>4 DEF Confirm
  <2>4. next \in DecidedSteps
    BY DEF DecidedSteps
  <2>5. /\ app' \in [Machines -> Dialog]
        /\ \A n \in Machines : app'[n].attempt = IF n = m THEN 0 ELSE app[n].attempt
    <3>1. Shown(m, accept) \in Dialog /\ Shown(m, accept).attempt = 0
      BY <1>2, ShownDialog
    <3> QED
      BY <2>3, <3>1 DEF IInv, Typed
  <2> HIDE DEF c, next, e
  <2>6. /\ messages' \in [Machines -> SUBSET Message]
        /\ \A n \in Machines : \A x \in messages'[n] :
             x \in messages[n] \/ x.kind # "offered"
    BY <2>2, <2>3, NewMessages DEF IInv, Typed, Report
  <2>7. /\ conns' \in Seq(Conn) /\ Len(conns') = Len(conns)
        /\ busy' \in [Machines -> BOOLEAN]
        /\ HonestConns' /\ PairedByBoth' /\ AllowedButAllowing' /\ BothGoOn'
        /\ \A d, n : HeldAt(d, n) /\ (d # c \/ n # m) => HeldAt(d, n)'
    BY <1>1, <2>2, <2>3, <2>4, DecideKeeps
  <2>8. Typed'
    BY <1>1, <2>5, <2>6, <2>7 DEF IInv, Typed
  <2>9. \A x \in messages[m] : x.kind = "offered" => x.conn # c
    BY DEF IInv, Offers, c
  <2>10. Offers'
    <3> SUFFICES ASSUME NEW n \in Machines
                 PROVE  /\ app'[n].attempt # 0 => (HeldAt(app[n].attempt, n))'
                        /\ \A x \in messages'[n] : x.kind = "offered" =>
                              (HeldAt(x.conn, n))' /\ app'[n].attempt # x.conn
      BY DEF Offers
    <3>1. app'[n].attempt # 0 => n # m /\ app'[n].attempt = app[n].attempt
                                 /\ HeldAt(app[n].attempt, n)
      BY <2>5 DEF IInv, Offers
    <3>2. ASSUME NEW x \in messages'[n], x.kind = "offered"
          PROVE  HeldAt(x.conn, n) /\ app'[n].attempt # x.conn /\ (x.conn # c \/ n # m)
      <4>1. x \in messages[n] /\ HeldAt(x.conn, n) /\ x.conn # app[n].attempt
        BY <2>6, <3>2 DEF IInv, Offers
      <4>2. x.conn # 0
        BY <4>1 DEF HeldAt, Conns
      <4> QED
        BY <2>5, <2>9, <3>2, <4>1, <4>2
    <3>3. app'[n].attempt # 0 => (HeldAt(app[n].attempt, n))'
      BY <2>5, <2>7, <3>1
    <3> QED
      BY <2>7, <3>2, <3>3
  <2> QED
    BY <2>7, <2>8, <2>10 DEF IInv
<1> QED
  BY <1>3, <1>4


-----------------------------------------------------------------------------
Dialled(m, p) ==
    [machine |-> [e \in Ends |-> IF e = "caller" THEN m ELSE p],
     step |-> [e \in Ends |-> IF e = "caller" THEN "calling" ELSE "ringing"],
     said |-> [e \in Ends |-> "nothing"], heard |-> [e \in Ends |-> "nothing"],
     greeted |-> FALSE, open |-> TRUE]

LEMMA DialledConn ==
    ASSUME NEW m \in Machines, NEW p \in Machines, m # p
    PROVE  LET r == Dialled(m, p) IN
           /\ r \in Conn /\ Honest(r)
           /\ \A e \in Ends : r.said[e] # "yes" /\ r.step[e] # "allowing"
<1>1. /\ [e \in Ends |-> IF e = "caller" THEN m ELSE p] \in [Ends -> Machines]
      /\ [e \in Ends |-> IF e = "caller" THEN "calling" ELSE "ringing"] \in [Ends -> Steps]
      /\ [e \in Ends |-> "nothing"] \in [Ends -> Answers]
  BY DEF Steps, Answers
<1>2. Dialled(m, p) \in Conn
  BY <1>1 DEF Dialled, Conn
<1>3. /\ Dialled(m, p).machine["caller"] = m /\ Dialled(m, p).machine["callee"] = p
      /\ \A e \in Ends : /\ Dialled(m, p).step[e] \in {"calling", "ringing"}
                         /\ Dialled(m, p).said[e] = "nothing"
                         /\ Dialled(m, p).heard[e] = "nothing"
  BY DEF Dialled, Ends
<1> HIDE DEF Dialled
<1> QED
  BY <1>2, <1>3 DEF Honest, Fits, Last

LEMMA SeqAppend ==
    ASSUME NEW S, NEW q \in Seq(S), NEW r \in S
    PROVE  /\ Append(q, r) \in Seq(S)
           /\ Len(Append(q, r)) = Len(q) + 1
           /\ \A d \in 1 .. Len(q) : Append(q, r)[d] = q[d]
           /\ Append(q, r)[Len(q) + 1] = r
OBVIOUS

Connecting(d) == [d EXCEPT !.open = TRUE, !.stage = "connecting", !.code = 0]

LEMMA ConnectingDialog ==
    ASSUME NEW d \in Dialog
    PROVE  Connecting(d) \in Dialog /\ Connecting(d).attempt = d.attempt
<1>1. 0 \in Attempt
  BY PairingAssumption DEF Attempt
<1> QED
  BY <1>1 DEF Connecting, Dialog

LEMMA PairStep ==
    ASSUME IInv, NEW m \in Machines, NEW p \in Machines, Pair(m, p)
    PROVE  IInv'
<1> DEFINE r == Dialled(m, p)
           n == Len(conns) + 1
<1>1. /\ conns' = Append(conns, r) /\ m # p /\ Len(conns) < MaxAttempts
      /\ UNCHANGED <<messages, busy, paired, allowed, troubles>>
  BY DEF Pair, Dialled
<1>2. /\ r \in Conn /\ Honest(r)
      /\ \A e \in Ends : r.said[e] # "yes" /\ r.step[e] # "allowing"
  BY <1>1, DialledConn
<1>3. app' = [app EXCEPT ![m] = Connecting(app[m])]
  BY Zenon DEF Pair, Connecting
<1>4. app' \in [Machines -> Dialog] /\ \A x \in Machines : app'[x].attempt = app[x].attempt
  BY <1>3, ConnectingDialog DEF IInv, Typed
<1> HIDE DEF r
<1>5. /\ conns' \in Seq(Conn) /\ Len(conns') = n /\ n \in Nat /\ Len(conns') <= MaxAttempts
      /\ \A d \in Conns : conns'[d] = conns[d]
      /\ conns'[n] = r
  BY <1>1, <1>2, SeqAppend, PairingAssumption DEF IInv, Typed, Conns
<1>6. Conns' = Conns \cup {n} /\ n \notin Conns
  BY <1>5 DEF Conns
<1> HIDE DEF n
<1>7. Lasting
  BY <1>5, <1>6 DEF Lasting
<1>8. Typed'
  BY <1>1, <1>4, <1>5 DEF IInv, Typed
<1>9. HonestConns'
  BY <1>2, <1>5, <1>6 DEF IInv, HonestConns
<1>10. Offers'
  <2>1. ASSUME NEW d, NEW x, HeldAt(d, x)
        PROVE  HeldAt(d, x)'
    BY <1>5, <1>6, <2>1 DEF HeldAt, At, Step
  <2> QED
    BY <1>1, <1>4, <2>1 DEF IInv, Offers
<1>11. PairedByBoth'
  BY <1>1, <1>7, PairedLasts DEF IInv
<1>12. AllowedButAllowing'
  <2>1. \A x, y : Allowing(x, y)' <=> Allowing(x, y)
    BY <1>2, <1>5, <1>6 DEF Allowing, At, Step
  <2> QED
    BY <1>1, <2>1 DEF IInv, AllowedButAllowing
<1>13. BothGoOn'
  <2>1. \A d : d = n => ~BothYes(d)'
    BY <1>2, <1>5 DEF Ends, BothYes
  <2>2. \A d \in Conns : /\ BothYes(d)' = BothYes(d) /\ BothHeard(d)' = BothHeard(d)
                         /\ \A e : At(d, e)' = At(d, e) /\ Step(d, e)' = Step(d, e)
    BY <1>5 DEF BothYes, BothHeard, At, Step
  <2> SUFFICES ASSUME troubles' = {}, NEW d \in Conns', BothYes(d)'
               PROVE  /\ ~conns'[d].open => BothHeard(d)'
                      /\ \A e \in Ends : Step(d, e)' = "over" =>
                            At(d, Other(e))' \in paired'[At(d, e)']
    BY DEF BothGoOn
  <2>3. d \in Conns /\ BothYes(d)
    BY <1>6, <2>1, <2>2
  <2> QED
    BY <1>1, <1>5, <2>2, <2>3 DEF IInv, BothGoOn
<1> QED
  BY <1>8, <1>9, <1>10, <1>11, <1>12, <1>13 DEF IInv

LEMMA UnpairStep ==
    ASSUME IInv, NEW m \in Machines, NEW p \in Machines, Unpair(m, p)
    PROVE  IInv'
<1>1. /\ paired' = [paired EXCEPT ![m] = @ \ {p}]
      /\ allowed' = [allowed EXCEPT ![m] = @ \ {p}]
      /\ UNCHANGED <<app, messages, busy, conns>>
  BY DEF Unpair, RemovePeer
<1>2. /\ troubles \subseteq troubles' /\ troubles' # {}
      /\ Allowing(m, p) => "unpaired while pairing" \in troubles'
  BY DEF Unpair, Trouble, Allowing, Conns
<1>3. /\ paired' \in [Machines -> SUBSET Machines] /\ allowed' \in [Machines -> SUBSET Machines]
      /\ \A x, y \in Machines :
           /\ y \in paired'[x] <=> y \in paired[x] /\ ~(x = m /\ y = p)
           /\ y \in allowed'[x] <=> y \in allowed[x] /\ ~(x = m /\ y = p)
  BY <1>1 DEF IInv, Typed
<1>4. Lasting /\ Conns' = Conns
  BY <1>1 DEF Lasting, Conns
<1>5. Typed'
  BY <1>1, <1>3 DEF IInv, Typed
<1>6. HonestConns'
  BY <1>1, <1>4 DEF IInv, HonestConns
<1>7. Offers'
  BY <1>1 DEF IInv, Offers, HeldAt, At, Step, Conns
<1>8. PairedByBoth'
  <2>1. \A x \in Machines : paired'[x] \subseteq paired[x]
    BY <1>3 DEF IInv, Typed
  <2> QED
    BY <1>4, <2>1, PairedLasts DEF IInv
<1>9. AllowedButAllowing'
  <2>1. \A x, y : Allowing(x, y)' <=> Allowing(x, y)
    BY <1>1 DEF Allowing, At, Step, Conns
  <2> QED
    BY <1>2, <1>3, <2>1 DEF IInv, AllowedButAllowing
<1>10. BothGoOn'
  BY <1>2 DEF BothGoOn
<1> QED
  BY <1>5, <1>6, <1>7, <1>8, <1>9, <1>10 DEF IInv

(* What a restart of m leaves of a connection. *)
Left(k, m) ==
    IF m \in {k.machine[e] : e \in Ends}
    THEN [k EXCEPT !.open = FALSE,
             !.step = [e \in Ends |-> IF k.machine[e] = m THEN "over" ELSE @[e]]]
    ELSE k

LEMMA LeftConn ==
    ASSUME NEW k \in Conn, NEW m \in Machines
    PROVE  LET r == Left(k, m) IN
           /\ r \in Conn /\ r.machine = k.machine /\ r.said = k.said /\ r.heard = k.heard
           /\ r.open => k.open
           /\ \A e \in Ends : r.step[e] = IF k.machine[e] = m THEN "over" ELSE k.step[e]
<1>1. CASE m \in {k.machine[e] : e \in Ends}
  <2> DEFINE s == [e \in Ends |-> IF k.machine[e] = m THEN "over" ELSE k.step[e]]
  <2>1. s \in [Ends -> Steps]
    BY DEF Conn, Steps
  <2>2. Left(k, m) = [k EXCEPT !.open = FALSE, !.step = s]
    BY <1>1 DEF Left
  <2>3. \A e \in Ends : s[e] = IF k.machine[e] = m THEN "over" ELSE k.step[e]
    OBVIOUS
  <2> HIDE DEF s
  <2> QED
    BY <2>1, <2>2, <2>3 DEF Conn
<1>2. CASE m \notin {k.machine[e] : e \in Ends}
  BY <1>2 DEF Left
<1> QED
  BY <1>1, <1>2

LEMMA RestartStep ==
    ASSUME IInv, NEW m \in Machines, Restart(m)
    PROVE  IInv'
<1>1. /\ app' = [app EXCEPT ![m] = NoDialog]
      /\ messages' = [messages EXCEPT ![m] = {}]
      /\ busy' = [busy EXCEPT ![m] = FALSE]
      /\ allowed' = [allowed EXCEPT ![m] = paired[m]]
      /\ paired' = paired
  BY DEF Restart
<1>2. troubles \subseteq troubles' /\ troubles' # {}
  BY TroubleGrows DEF Restart
<1>3. conns' = [c \in Conns |-> Left(conns[c], m)]
  BY DEF Restart, Left, At, Conns
<1>4. \A d \in Conns : conns[d] \in Conn /\ Left(conns[d], m) \in Conn
  BY LeftConn DEF IInv, Typed, Conns
<1>5. conns' \in Seq(Conn) /\ Len(conns') = Len(conns) /\ Conns' = Conns
  BY <1>3, <1>4 DEF IInv, Typed, Conns
<1>6. ASSUME NEW d \in Conns
      PROVE  /\ conns'[d].machine = conns[d].machine /\ conns'[d].said = conns[d].said
             /\ conns'[d].heard = conns[d].heard
             /\ conns'[d].open => conns[d].open
             /\ \A e \in Ends :
                  conns'[d].step[e] = IF conns[d].machine[e] = m THEN "over" ELSE conns[d].step[e]
             /\ m \in {conns[d].machine[e] : e \in Ends} => ~conns'[d].open
  <2>1. conns'[d] = Left(conns[d], m)
    BY <1>3
  <2>2. m \in {conns[d].machine[e] : e \in Ends} => ~Left(conns[d], m).open
    BY <1>4 DEF Left, Conn
  <2> QED
    BY <1>4, <2>1, <2>2, LeftConn
<1>7. Lasting
  BY <1>5, <1>6 DEF Lasting
<1>8. NoDialog \in Dialog /\ NoDialog.attempt = 0
  BY PairingAssumption DEF NoDialog, Dialog, Attempt
<1>9. Typed'
  BY <1>1, <1>5, <1>8 DEF IInv, Typed
<1>10. HonestConns'
  <2> SUFFICES ASSUME NEW d \in Conns
               PROVE  Honest(conns'[d])
    BY <1>5 DEF HonestConns
  <2>1. Honest(conns[d])
    BY DEF IInv, HonestConns
  <2>2. ASSUME NEW e \in Ends
        PROVE  Fits(conns'[d], e, conns'[d].step[e])
    BY <1>6, <2>1 DEF Honest, Fits
  <2>3. ASSUME NEW e \in Ends, conns'[d].step[e] \in Last
        PROVE  ~conns'[d].open
    BY <1>6, <2>1, <2>3 DEF Honest
  <2> QED
    BY <1>6, <2>1, <2>2, <2>3 DEF Honest
<1>11. Offers'
  <2>1. ASSUME NEW d, NEW n, n # m, HeldAt(d, n)
        PROVE  HeldAt(d, n)'
    BY <1>5, <1>6, <2>1 DEF HeldAt, At, Step
  <2>2. \A n \in Machines : n # m => app'[n] = app[n] /\ messages'[n] = messages[n]
    BY <1>1 DEF IInv, Typed
  <2>3. app'[m].attempt = 0 /\ messages'[m] = {}
    BY <1>1, <1>8 DEF IInv, Typed
  <2> QED
    BY <2>1, <2>2, <2>3 DEF IInv, Offers
<1>12. PairedByBoth'
  BY <1>1, <1>7, PairedLasts DEF IInv
<1>13. AllowedButAllowing'
  <2>1. ASSUME NEW x, NEW y
        PROVE  Allowing(x, y)' <=> x # m /\ Allowing(x, y)
    <3>1. \A d \in Conns, e \in Ends :
             /\ At(d, e)' = At(d, e) /\ At(d, Other(e))' = At(d, Other(e))
             /\ Step(d, e)' = "allowing" <=> At(d, e) # m /\ Step(d, e) = "allowing"
      BY <1>6 DEF At, Step
    <3> QED
      BY <1>5, <3>1 DEF Allowing
  <2>2. \A x \in Machines : allowed'[x] = IF x = m THEN paired[x] ELSE allowed[x]
    BY <1>1 DEF IInv, Typed
  <2> QED
    BY <1>1, <1>2, <2>1, <2>2 DEF IInv, AllowedButAllowing
<1>14. BothGoOn'
  BY <1>2 DEF BothGoOn
<1> QED
  BY <1>9, <1>10, <1>11, <1>12, <1>13, <1>14 DEF IInv

LEMMA BreakStep ==
    ASSUME IInv, NEW c \in Conns, Break(c)
    PROVE  IInv'
<1> DEFINE r == Shut(conns[c])
<1>1. UNCHANGED <<app, messages, busy, paired, allowed>>
  BY DEF Break
<1>2. troubles \subseteq troubles' /\ troubles' # {}
  BY TroubleGrows DEF Break
<1>3. Became(c, r)
  BY Zenon DEF IInv, Typed, Conns, Break, Became, Shut
<1>4. conns[c] \in Conn
  BY DEF IInv, Typed, Conns
<1>5. /\ r \in Conn /\ r.machine = conns[c].machine /\ r.said = conns[c].said
      /\ r.heard = conns[c].heard /\ r.step = conns[c].step /\ r.open = FALSE
  BY <1>4, ShutConn
<1> HIDE DEF r
<1>6. /\ conns' \in Seq(Conn) /\ Len(conns') = Len(conns) /\ Conns' = Conns
      /\ \A d \in Conns : conns'[d] = IF d = c THEN r ELSE conns[d]
  BY <1>3, <1>5, BecameConns DEF IInv
<1>7. /\ \A d \in Conns : /\ conns'[d].machine = conns[d].machine
                          /\ conns'[d].said = conns[d].said
                          /\ conns'[d].heard = conns[d].heard
                          /\ conns'[d].step = conns[d].step
                          /\ conns'[d].open => conns[d].open
  BY <1>5, <1>6
<1>8. Lasting
  BY <1>6, <1>7 DEF Lasting
<1>9. Typed'
  BY <1>1, <1>6 DEF IInv, Typed
<1>10. HonestConns'
  BY <1>6, <1>7 DEF IInv, HonestConns, Honest, Fits
<1>11. Offers'
  BY <1>1, <1>6, <1>7 DEF IInv, Offers, HeldAt, At, Step
<1>12. PairedByBoth'
  BY <1>1, <1>8, PairedLasts DEF IInv
<1>13. AllowedButAllowing'
  BY <1>1, <1>2, <1>6, <1>7, <1>8, AllowedLasts DEF IInv, Step
<1>14. BothGoOn'
  BY <1>2 DEF BothGoOn
<1> QED
  BY <1>9, <1>10, <1>11, <1>12, <1>13, <1>14 DEF IInv

-----------------------------------------------------------------------------
(* Every step of the specification, and a step that changes nothing. *)
LEMMA TaskStep ==
    ASSUME IInv, NEW c \in Conns, Task(c)
    PROVE  IInv'
BY AcceptStep, GreetStep, GreetFailsStep, AnsweredStep, NotAnsweredStep, ArriveStep,
   ReadStep, GiveUpStep, CloseStep, SaveStep, SaveFailsStep, AllowStep DEF Task

LEMMA StutterStep ==
    ASSUME IInv, UNCHANGED vars
    PROVE  IInv'
<1>1. UNCHANGED <<app, messages, busy, conns, paired, allowed, troubles>>
  BY DEF vars
<1>2. Typed'
  BY <1>1 DEF IInv, Typed
<1>3. Offers'
  BY <1>1 DEF IInv, Offers, HeldAt, At, Step, Conns
<1> QED
  BY <1>1, <1>2, <1>3, SameKeeps DEF IInv

LEMMA NextIInv ==
    ASSUME IInv, [Next]_vars
    PROVE  IInv'
<1>1. ASSUME NEW c \in Conns, Task(c) \/ Break(c)
      PROVE  IInv'
  BY <1>1, TaskStep, BreakStep
<1>2. ASSUME NEW m \in Machines, Hear(m) \/ Restart(m)
      PROVE  IInv'
  BY <1>2, HearStep, RestartStep
<1>3. ASSUME NEW m \in Machines, NEW accept \in BOOLEAN, Confirm(m, accept)
      PROVE  IInv'
  BY <1>3, ConfirmStep
<1>4. ASSUME NEW m \in Machines, NEW p \in Machines, Pair(m, p) \/ Unpair(m, p)
      PROVE  IInv'
  BY <1>4, PairStep, UnpairStep
<1> QED
  BY <1>1, <1>2, <1>3, <1>4, StutterStep, Zenon DEF Next, Conns

LEMMA InitIInv ==
    ASSUME Init
    PROVE  IInv
<1>1. conns = <<>> /\ Len(conns) = 0 /\ Conns = {} /\ conns \in Seq(Conn)
  BY DEF Init, Conns
<1>2. NoDialog \in Dialog /\ NoDialog.attempt = 0
  BY PairingAssumption DEF NoDialog, Dialog, Attempt
<1>3. Typed
  BY <1>1, <1>2, PairingAssumption DEF Init, Typed
<1>4. HonestConns /\ BothGoOn
  BY <1>1 DEF HonestConns, BothGoOn
<1>5. Offers
  BY <1>2 DEF Init, Offers
<1>6. PairedByBoth /\ AllowedButAllowing
  BY <1>1 DEF Init, PairedByBoth, AllowedButAllowing, Allowing
<1> QED
  BY <1>3, <1>4, <1>5, <1>6 DEF IInv

THEOREM Invariance == Spec => []IInv
<1>1. Init => IInv
  BY InitIInv
<1>2. IInv /\ [Next]_vars => IInv'
  BY NextIInv
<1> QED
  BY <1>1, <1>2, PTL DEF Spec

(***************************************************************************)
(* Every variable has its type: the app holds an attempt of the bounded    *)
(* many, every end is at a step of initiate, the handler or decide.        *)
(***************************************************************************)
THEOREM Types == Spec => []TypeOK
<1>1. IInv => TypeOK
  <2> SUFFICES ASSUME IInv
               PROVE  TypeOK
    OBVIOUS
  <2>1. \A c \in Conns, e \in Ends : Step(c, e) \in Steps
    BY ConnFacts
  <2> QED
    BY <2>1 DEF IInv, Typed, Conns, Dialog, Attempt, TypeOK
<1> QED
  BY <1>1, Invariance, PTL

(***************************************************************************)
(* A machine has saved a peer only if both users accepted, on the same     *)
(* connection and so with the same code (PairAttempt::decide), however the *)
(* attempts of any number of machines overlap, fail and are restarted.     *)
(***************************************************************************)
THEOREM SavedByBoth == Spec => []PairedByBoth
<1>1. IInv => PairedByBoth
  BY DEF IInv
<1> QED
  BY <1>1, Invariance, PTL

(***************************************************************************)
(* Once no attempt between two machines is under way, the one may open     *)
(* sessions to the other exactly if it is saved there (Store::add_peer and *)
(* Shared::add_paired are two steps), unless the peer was unpaired between *)
(* the two.                                                                *)
(***************************************************************************)
THEOREM AllowedAreSaved == Spec => []AllowedIsPaired
<1>1. IInv => AllowedIsPaired
  <2> SUFFICES ASSUME IInv, NEW m \in Machines, NEW p \in Machines, Settled(m, p),
                      "unpaired while pairing" \notin troubles
               PROVE  p \in allowed[m] <=> p \in paired[m]
    BY DEF AllowedIsPaired
  <2>1. ~Allowing(m, p)
    BY DEF Allowing, Settled, Between, Conns, Ends, Other
  <2> QED
    BY <2>1 DEF IInv, AllowedButAllowing
<1> QED
  BY <1>1, Invariance, PTL

(***************************************************************************)
(* As long as nothing failed or took too long, two machines with no        *)
(* attempt under way have saved each other or neither has: who closes the  *)
(* connection in PairAttempt::decide waits until its answer is there.      *)
(***************************************************************************)
THEOREM BothSaveOrNeither == Spec => []BothOrNeither
<1>1. IInv => BothOrNeither
  <2>1. ASSUME IInv, troubles = {}, NEW m \in Machines, NEW p \in Machines, Settled(m, p),
               p \in paired[m]
        PROVE  m \in paired[p]
    <3>1. PICK c \in Conns : Between(c, m, p) /\ BothYes(c)
      BY <2>1 DEF IInv, PairedByBoth, BothYes, Conns
    <3>2. \A e \in Ends : Step(c, e) = "over"
      BY <2>1, <3>1 DEF Settled, Conns
    <3>3. \A e \in Ends : At(c, Other(e)) \in paired[At(c, e)]
      BY <2>1, <3>1, <3>2 DEF IInv, BothGoOn
    <3>4. At(c, "caller") # At(c, "callee") /\ Ends = {"caller", "callee"}
      BY <2>1 DEF IInv, HonestConns, Honest, At, Ends
    <3>5. /\ At(c, "callee") \in paired[At(c, "caller")]
          /\ At(c, "caller") \in paired[At(c, "callee")]
      BY <3>3 DEF Ends, Other
    <3>6. {At(c, "caller"), At(c, "callee")} = {m, p}
      BY <3>1 DEF Between, Ends
    <3> QED
      BY <3>4, <3>5, <3>6
  <2>2. \A m, p : Settled(m, p) => Settled(p, m)
    BY DEF Settled, Between
  <2> QED
    BY <2>1, <2>2 DEF BothOrNeither
<1> QED
  BY <1>1, Invariance, PTL

=============================================================================
