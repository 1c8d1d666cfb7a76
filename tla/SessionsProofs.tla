--------------------------- MODULE SessionsProofs ----------------------------
(***************************************************************************)
(* Proofs about sessions, for any number of connections, dial loops and    *)
(* screens, and however often machines pair, start, stop and lose them.    *)
(***************************************************************************)
EXTENDS Sessions, FiniteSetTheorems, SequenceTheorems, TLAPS

(* Dial loops run only while sharing does, and an end that has taken its   *)
(* hello, or sent it, has screens in it.                                   *)
Typed ==
    /\ TypeOK
    /\ \A l \in Loops : loop[l].pc # "off" => hub[Dialer].on
    /\ \A m \in Machines, c \in Conns :
          end[m][c].pc \notin {"free", "accepted"} => end[m][c].announced \in Screens

(***************************************************************************)
(* What m will know of the other's screens once it has read all that is on *)
(* its way: what the other last announced on this connection.              *)
(***************************************************************************)
Known(m, c) ==
    IF wire[m][c] = <<>> THEN end[m][c].remote ELSE wire[m][c][Len(wire[m][c])]

(* The end of m has sent its hello, and is not in the hub yet. *)
Introduced(m, c) ==
    end[m][c].pc = "ready" \/ (m = Dialer /\ end[m][c].pc = "hello")

Announced ==
    \A m \in Machines, c \in Conns : Busy(m, c) =>
        /\ hub[Other(m)].active = c => Known(m, c) = hub[Other(m)].screens
        /\ Introduced(Other(m), c) => Known(m, c) = end[Other(m)][c].announced

Shared == Typed /\ TableIsWhatRuns /\ Announced

-----------------------------------------------------------------------------
(***************************************************************************)
(* The pairing is not saved again while a dial loop runs for it.           *)
(***************************************************************************)
NotWhileDialling == AddPaired(Dialer) => \A l \in Loops : loop[l].pc = "off"

(* One dial loop runs at most, and what the machine that dials is at is    *)
(* what its loop is at.                                                    *)
OneLoop ==
    /\ \A l, k \in Loops : loop[l].pc # "off" /\ loop[k].pc # "off" => l = k
    /\ \A c \in Conns : Busy(Dialer, c) => \E l \in Loops : loop[l].pc = "dial" /\ loop[l].conn = c

(* The run loop of the machine that dials hears of each session in turn.   *)
Told ==
    /\ told[Dialer] # None => end[Dialer][told[Dialer]].pc \in {"run", "removed"}
    /\ \A c \in Conns :
         LET pc == end[Dialer][c].pc IN
         /\ pc \in {"added", "run"} => hub[Dialer].active = c
         /\ pc = "run" => told[Dialer] = c
         /\ pc \in {"added", "run", "removed"} => end[Dialer][c].heard

Alone == Shared /\ OneLoop /\ Told

-----------------------------------------------------------------------------
LEMMA Others ==
    /\ Dialer \in Machines /\ Acceptor \in Machines /\ Dialer # Acceptor
    /\ \A m \in Machines : Other(m) \in Machines /\ Other(m) # m /\ Other(Other(m)) = m
BY SessionsAssumption DEF Machines, Other

LEMMA NoTaskIsTask ==
    NoTask \in Task /\ NoTask.pc = "free" /\ NoLoop \in LoopType /\ NoLoop.pc = "off"
      /\ NoLoop.conn = None
BY DEF NoTask, Task, Stages, NoLoop, LoopType

(* What the end of a task, and the start of a loop, do to the loops. *)
LoopsOK ==
    /\ loop \in [Loops -> LoopType]
    /\ \A l \in Loops : loop[l].pc = "dial" <=> loop[l].conn # None
    /\ \A l \in Loops : loop[l].pc # "off" => hub[Dialer].on

HubsOK ==
    /\ hub \in [Machines -> HubType]
    /\ \A m \in Machines : IF hub[m].on THEN hub[m].screens \in Screens
                                         ELSE hub[m].active = None

EndsOK ==
    /\ end \in [Machines -> [Conns -> Task]]
    /\ \A m \in Machines, c \in Conns :
          end[m][c].pc \notin {"free", "accepted"} => end[m][c].announced \in Screens

RestOK ==
    /\ paired \in [Machines -> BOOLEAN] /\ up \subseteq Conns
    /\ wire \in [Machines -> [Conns -> Seq(Screens)]]
    /\ told \in [Machines -> Conns \cup {None}]

LEMMA TypedParts == Typed <=> HubsOK /\ LoopsOK /\ EndsOK /\ RestOK
BY DEF Typed, TypeOK, HubsOK, LoopsOK, EndsOK, RestOK

LEMMA TypedParts2 == Typed' <=> HubsOK' /\ LoopsOK' /\ EndsOK' /\ RestOK'
BY DEF Typed, TypeOK, HubsOK, LoopsOK, EndsOK, RestOK

LEMMA SleptLoops ==
    ASSUME Typed, NEW c
    PROVE  /\ Slept(loop, c) \in [Loops -> LoopType]
           /\ \A l \in Loops :
                Slept(loop, c)[l] = IF loop[l].conn = c /\ loop[l].pc = "dial"
                                    THEN [pc |-> "sleep", conn |-> None] ELSE loop[l]
           /\ \A l \in Loops : Slept(loop, c)[l].pc = "dial" <=> Slept(loop, c)[l].conn # None
           /\ \A l \in Loops : Slept(loop, c)[l].pc # "off" => loop[l].pc # "off"
<1> DEFINE r == [pc |-> "sleep", conn |-> None]
<1>1. r \in LoopType /\ r.pc = "sleep" /\ r.conn = None
  BY DEF LoopType
<1>2. \A l \in Loops :
         Slept(loop, c)[l] = IF loop[l].conn = c /\ loop[l].pc = "dial" THEN r ELSE loop[l]
  BY DEF Slept
<1> HIDE DEF r
<1>3. Slept(loop, c) \in [Loops -> LoopType]
  BY <1>1 DEF Typed, TypeOK, Slept, r
<1> QED
  BY <1>1, <1>2, <1>3 DEF Typed, TypeOK, r

LEMMA SpawnLoops ==
    ASSUME Typed, NEW m \in Machines, hub'[m].on, Spawn(m),
           hub'[Dialer].on = hub[Dialer].on \/ m = Dialer
    PROVE  LoopsOK'
<1>1. CASE m # Dialer
  BY <1>1 DEF Spawn, LoopsOK, Typed, TypeOK
<1>2. CASE m = Dialer
  <2> DEFINE Free == {l \in Loops : loop[l] = NoLoop}
             k == CHOOSE l \in Free : TRUE
  <2>1. k \in Free /\ loop' = [loop EXCEPT ![k].pc = "check"]
    BY <1>2 DEF Spawn
  <2>2. k \in Loops /\ loop[k] = NoLoop
    BY <2>1
  <2> HIDE DEF k
  <2> QED
    BY <1>2, <2>1, <2>2, NoTaskIsTask DEF LoopsOK, Typed, TypeOK, LoopType
<1> QED
  BY <1>1, <1>2

LEMMA OverTyped ==
    ASSUME Typed, NEW m \in Machines, NEW c \in Conns, Over(m, c)
    PROVE  /\ end' \in [Machines -> [Conns -> Task]]
           /\ \A x \in Machines, d \in Conns :
                end'[x][d] = IF x = m /\ d = c THEN NoTask ELSE end[x][d]
           /\ wire' \in [Machines -> [Conns -> Seq(Screens)]]
           /\ \A x \in Machines, d \in Conns :
                wire'[x][d] = IF x = m /\ d = c THEN <<>> ELSE wire[x][d]
           /\ loop' \in [Loops -> LoopType]
           /\ \A l \in Loops : loop'[l].pc = "dial" <=> loop'[l].conn # None
           /\ \A l \in Loops : loop'[l].pc # "off" => loop[l].pc # "off"
<1>1. end' = [end EXCEPT ![m][c] = NoTask] /\ wire' = [wire EXCEPT ![m][c] = <<>>]
  BY DEF Over
<1>2. /\ end' \in [Machines -> [Conns -> Task]]
      /\ \A x \in Machines, d \in Conns :
            end'[x][d] = IF x = m /\ d = c THEN NoTask ELSE end[x][d]
  BY <1>1, NoTaskIsTask DEF Typed, TypeOK
<1>3. /\ wire' \in [Machines -> [Conns -> Seq(Screens)]]
      /\ \A x \in Machines, d \in Conns :
            wire'[x][d] = IF x = m /\ d = c THEN <<>> ELSE wire[x][d]
  BY <1>1 DEF Typed, TypeOK
<1>4. loop' = Slept(loop, c) \/ loop' = loop
  BY DEF Over
<1>5. /\ loop' \in [Loops -> LoopType]
      /\ \A l \in Loops : loop'[l].pc = "dial" <=> loop'[l].conn # None
      /\ \A l \in Loops : loop'[l].pc # "off" => loop[l].pc # "off"
  BY <1>4, SleptLoops DEF Typed, TypeOK
<1> QED
  BY <1>2, <1>3, <1>5

LEMMA UnusedFree ==
    ASSUME NEW c \in Unused
    PROVE  /\ c \in Conns
           /\ \A m \in Machines : end[m][c].pc = "free" /\ hub[m].active # c /\ told[m] # c
BY NoTaskIsTask DEF Unused

(* What a loop that connects does. *)
Connected(l, c) ==
    /\ loop' = [loop EXCEPT ![l] = [pc |-> "dial", conn |-> c]]
    /\ up' = up \cup {c}
    /\ end' \in [Machines -> [Conns -> Task]]
    /\ wire' \in [Machines -> [Conns -> Seq(Screens)]]
    /\ \A x \in Machines, d \in Conns \ {c} :
          end'[x][d] = end[x][d] /\ wire'[x][d] = wire[x][d]
    /\ end'[Dialer][c].pc = "hello" /\ end'[Acceptor][c].pc = "accepted"
    /\ end'[Dialer][c].announced = hub[Dialer].screens
    /\ hub[Dialer].on /\ hub[Dialer].screens \in Screens
    /\ wire'[Dialer][c] = <<>> /\ wire'[Acceptor][c] = <<hub[Dialer].screens>>
    /\ UNCHANGED <<paired, hub, told, left>>

LEMMA Connecting ==
    ASSUME Typed, NEW l \in Loops, Connect(l)
    PROVE  loop[l].pc = "check" /\ \E c \in Unused : Connected(l, c)
<1> DEFINE c == CHOOSE x \in Unused : TRUE
           s == hub[Dialer].screens
           h == [NoTask EXCEPT !.pc = "hello", !.announced = s]
           a == [NoTask EXCEPT !.pc = "accepted"]
<1>1. c \in Unused /\ c \in Conns
  BY UnusedFree DEF Connect
<1>2. /\ loop' = [loop EXCEPT ![l] = [pc |-> "dial", conn |-> c]]
      /\ up' = up \cup {c}
      /\ end' = [end EXCEPT ![Dialer][c] = h, ![Acceptor][c] = a]
      /\ wire' = [m \in Machines |-> [wire[m] EXCEPT ![c] =
                    IF m = Acceptor THEN <<s>> ELSE <<>>]]
      /\ UNCHANGED <<paired, hub, told, left>>
  BY DEF Connect
<1>3. hub[Dialer].on /\ s \in Screens
  BY Others DEF Connect, Typed, TypeOK
<1>4. /\ h \in Task /\ h.pc = "hello" /\ h.announced = s
      /\ a \in Task /\ a.pc = "accepted"
  BY <1>3, NoTaskIsTask DEF NoTask, Task, Stages
<1>5. <<s>> \in Seq(Screens) /\ <<>> \in Seq(Screens)
  BY <1>3
<1> HIDE DEF c, s, h, a
<1>6. /\ end' \in [Machines -> [Conns -> Task]]
      /\ \A x \in Machines, d \in Conns :
            end'[x][d] = IF d = c THEN IF x = Acceptor THEN a ELSE h ELSE end[x][d]
  BY <1>1, <1>2, <1>4, Others DEF Typed, TypeOK, Machines
<1>7. /\ wire' \in [Machines -> [Conns -> Seq(Screens)]]
      /\ \A x \in Machines, d \in Conns :
            wire'[x][d] = IF d = c THEN IF x = Acceptor THEN <<s>> ELSE <<>> ELSE wire[x][d]
  BY <1>1, <1>2, <1>5 DEF Typed, TypeOK
<1>8. \A x \in Machines, d \in Conns \ {c} : end'[x][d] = end[x][d] /\ wire'[x][d] = wire[x][d]
  BY <1>6, <1>7
<1>9. /\ end'[Dialer][c] = h /\ end'[Acceptor][c] = a
      /\ wire'[Dialer][c] = <<>> /\ wire'[Acceptor][c] = <<s>>
  BY <1>1, <1>6, <1>7, Others
<1>10. loop[l].pc = "check"
  BY DEF Connect
<1>11. Connected(l, c)
  BY <1>2, <1>3, <1>4, <1>6, <1>7, <1>8, <1>9 DEF s, Connected
<1> QED
  BY <1>1, <1>10, <1>11

-----------------------------------------------------------------------------
(* How one end changes, the other ends staying as they are. *)
Only(m, c) ==
    /\ end' \in [Machines -> [Conns -> Task]]
    /\ \A x \in Machines, d \in Conns : x # m \/ d # c => end'[x][d] = end[x][d]

Became(m, c, r) == end' = [end EXCEPT ![m][c] = r]

Staged(k, pc) == [k EXCEPT !.pc = pc]
Saying(k, s) == [k EXCEPT !.announced = s]
Hearing(k, s) == [k EXCEPT !.remote = s]
Listened(k) == [k EXCEPT !.heard = TRUE]
Ignored(k) == [k EXCEPT !.heard = FALSE]

LEMMA StagedTask ==
    ASSUME NEW k \in Task, NEW pc \in Stages
    PROVE  LET r == Staged(k, pc) IN
           /\ r \in Task /\ r.pc = pc /\ r.announced = k.announced
           /\ r.remote = k.remote /\ r.heard = k.heard
BY DEF Task, Staged

LEMMA SayingTask ==
    ASSUME NEW k \in Task, NEW s \in Screens
    PROVE  LET r == Saying(k, s) IN
           /\ r \in Task /\ r.pc = k.pc /\ r.announced = s
           /\ r.remote = k.remote /\ r.heard = k.heard
BY DEF Task, Saying

LEMMA HearingTask ==
    ASSUME NEW k \in Task, NEW s \in Screens
    PROVE  LET r == Hearing(k, s) IN
           /\ r \in Task /\ r.pc = k.pc /\ r.announced = k.announced
           /\ r.remote = s /\ r.heard = k.heard
BY DEF Task, Hearing

LEMMA ListenedTask ==
    ASSUME NEW k \in Task
    PROVE  LET r == Listened(k) IN
           /\ r \in Task /\ r.pc = k.pc /\ r.announced = k.announced
           /\ r.remote = k.remote /\ r.heard
BY DEF Task, Listened

LEMMA IgnoredTask ==
    ASSUME NEW k \in Task
    PROVE  LET r == Ignored(k) IN
           /\ r \in Task /\ r.pc = k.pc /\ r.announced = k.announced
           /\ r.remote = k.remote
BY DEF Task, Ignored

LEMMA OnlyOne ==
    ASSUME Typed, NEW m \in Machines, NEW c \in Conns, NEW r \in Task, Became(m, c, r)
    PROVE  Only(m, c) /\ end'[m][c] = r
BY DEF Typed, TypeOK, Only, Became

LEMMA OnlyEnds ==
    ASSUME EndsOK, NEW m \in Machines, NEW c \in Conns, Only(m, c),
           end'[m][c].pc \notin {"free", "accepted"} => end'[m][c].announced \in Screens
    PROVE  EndsOK'
BY DEF EndsOK, Only

LEMMA SameLoops ==
    ASSUME LoopsOK, UNCHANGED loop, hub'[Dialer].on = hub[Dialer].on
    PROVE  LoopsOK'
BY DEF LoopsOK

LEMMA OverParts ==
    ASSUME Typed, NEW m \in Machines, NEW c \in Conns, Over(m, c),
           hub'[Dialer].on = hub[Dialer].on
    PROVE  /\ LoopsOK' /\ EndsOK'
           /\ wire' \in [Machines -> [Conns -> Seq(Screens)]]
<1>1. EndsOK /\ LoopsOK
  BY TypedParts
<1>2. LoopsOK'
  BY <1>1, OverTyped DEF LoopsOK
<1>3. EndsOK'
  BY <1>1, OverTyped, NoTaskIsTask DEF EndsOK
<1> QED
  BY <1>2, <1>3, OverTyped

LEMMA OverOnly ==
    ASSUME Typed, NEW m \in Machines, NEW c \in Conns, Over(m, c)
    PROVE  Only(m, c) /\ end'[m][c].pc = "free"
BY OverTyped, NoTaskIsTask DEF Only

LEMMA StageOnly ==
    ASSUME Typed, NEW m \in Machines, NEW c \in Conns, NEW pc \in Stages,
           end' = [end EXCEPT ![m][c].pc = pc]
    PROVE  /\ Only(m, c) /\ end'[m][c].pc = pc
           /\ end'[m][c].announced = end[m][c].announced
           /\ end'[m][c].remote = end[m][c].remote /\ end'[m][c].heard = end[m][c].heard
<1> DEFINE r == Staged(end[m][c], pc)
<1>1. end[m][c] \in Task
  BY DEF Typed, TypeOK
<1>2. /\ r \in Task /\ r.pc = pc /\ r.announced = end[m][c].announced
      /\ r.remote = end[m][c].remote /\ r.heard = end[m][c].heard
  BY <1>1, StagedTask
<1>3. Became(m, c, r)
  BY Zenon DEF Typed, TypeOK, Became, Staged
<1> HIDE DEF r
<1> QED
  BY <1>2, <1>3, OnlyOne

LEMMA AcceptOnly ==
    ASSUME Typed, NEW c \in Conns, Accept(c), hub[Acceptor].on
    PROVE  /\ Only(Acceptor, c) /\ end'[Acceptor][c].pc = "hello"
           /\ end'[Acceptor][c].announced = hub[Acceptor].screens
           /\ end'[Acceptor][c].remote = end[Acceptor][c].remote
           /\ hub[Acceptor].screens \in Screens
<1> DEFINE q == Staged(end[Acceptor][c], "hello")
           r == Saying(q, hub[Acceptor].screens)
<1>1. end[Acceptor][c] \in Task /\ hub[Acceptor].screens \in Screens /\ "hello" \in Stages
  BY Others DEF Typed, TypeOK, Stages
<1>2. q \in Task /\ q.pc = "hello" /\ q.remote = end[Acceptor][c].remote
  BY <1>1, StagedTask
<1> HIDE DEF q
<1>3. /\ r \in Task /\ r.pc = "hello" /\ r.announced = hub[Acceptor].screens
      /\ r.remote = end[Acceptor][c].remote
  BY <1>1, <1>2, SayingTask
<1>4. Became(Acceptor, c, r)
  <2>1. end' = [end EXCEPT ![Acceptor][c].pc = "hello",
                           ![Acceptor][c].announced = hub[Acceptor].screens]
    BY DEF Accept
  <2> QED
    BY <2>1, Others, Zenon DEF Typed, TypeOK, Became, Staged, Saying, q
<1> HIDE DEF r
<1> QED
  BY <1>1, <1>3, <1>4, OnlyOne, Others

Both(m, o, c, h, t) == wire' = [wire EXCEPT ![m][c] = h, ![o][c] = t]

LEMMA BothWires ==
    ASSUME wire \in [Machines -> [Conns -> Seq(Screens)]],
           NEW m \in Machines, NEW o \in Machines, o # m, NEW c \in Conns,
           NEW h \in Seq(Screens), NEW t \in Seq(Screens), Both(m, o, c, h, t)
    PROVE  /\ wire' \in [Machines -> [Conns -> Seq(Screens)]]
           /\ \A x \in Machines, d \in Conns :
                wire'[x][d] = IF d = c /\ x = o THEN t
                              ELSE IF d = c /\ x = m THEN h ELSE wire[x][d]
<1> DEFINE k == [wire EXCEPT ![m][c] = h]
           n == [k EXCEPT ![o][c] = t]
<1>1. /\ k \in [Machines -> [Conns -> Seq(Screens)]]
      /\ \A x \in Machines, d \in Conns :
            k[x][d] = IF d = c /\ x = m THEN h ELSE wire[x][d]
  OBVIOUS
<1> HIDE DEF k
<1>2. /\ n \in [Machines -> [Conns -> Seq(Screens)]]
      /\ \A x \in Machines, d \in Conns :
            n[x][d] = IF d = c /\ x = o THEN t ELSE k[x][d]
  BY <1>1
<1> HIDE DEF n
<1>3. wire' = n
  BY Zenon DEF Both, n, k
<1> QED
  BY <1>1, <1>2, <1>3

LEMMA HubActive ==
    ASSUME HubsOK, NEW m \in Machines, NEW a \in Conns \cup {None},
           hub' = [hub EXCEPT ![m].active = a], hub[m].on \/ a = None
    PROVE  /\ HubsOK' /\ hub'[m].active = a
           /\ \A x \in Machines : x # m => hub'[x] = hub[x]
           /\ \A x \in Machines : hub'[x].on = hub[x].on /\ hub'[x].screens = hub[x].screens
<1> DEFINE r == [hub[m] EXCEPT !.active = a]
<1>1. r \in HubType /\ r.active = a /\ r.on = hub[m].on /\ r.screens = hub[m].screens
  BY DEF HubsOK, HubType
<1>2. hub' = [hub EXCEPT ![m] = r]
  BY Zenon DEF HubsOK
<1> HIDE DEF r
<1> QED
  BY <1>1, <1>2 DEF HubsOK

LEMMA AcceptFx ==
    ASSUME Typed, NEW c \in Conns, Accept(c)
    PROVE  /\ Only(Acceptor, c) /\ end[Acceptor][c].pc = "accepted"
           /\ end'[Acceptor][c].pc \in {"hello", "free"}
           /\ end'[Acceptor][c].remote \in {end[Acceptor][c].remote, None}
           /\ up' \subseteq up /\ UNCHANGED <<paired, hub, loop, wire, told, left>>
<1>1. CASE hub[Acceptor].on
  BY <1>1, AcceptOnly DEF Accept
<1>2. CASE ~hub[Acceptor].on
  <2>1. Became(Acceptor, c, NoTask)
    BY <1>2 DEF Accept, Became
  <2> QED
    BY <1>2, <2>1, OnlyOne, NoTaskIsTask, Others DEF Accept, NoTask
<1> QED
  BY <1>1, <1>2

LEMMA ReadHelloOnly ==
    ASSUME Typed, NEW m \in Machines, NEW c \in Conns, ReadHello(m, c)
    PROVE  /\ Only(m, c) /\ end'[m][c].pc = "ready" /\ end[m][c].pc = "hello"
           /\ end'[m][c].announced = end[m][c].announced
           /\ end'[m][c].remote = Head(wire[m][c]) /\ wire[m][c] # <<>>
           /\ wire' \in [Machines -> [Conns -> Seq(Screens)]]
           /\ \A x \in Machines, d \in Conns :
                wire'[x][d] = IF d = c
                              THEN IF x = m THEN Tail(wire[m][c])
                                   ELSE IF m = Acceptor
                                   THEN Append(wire[x][d], end[m][c].announced) ELSE wire[x][d]
                              ELSE wire[x][d]
           /\ UNCHANGED <<paired, hub, loop, up, told, left>>
<1> DEFINE s == Head(wire[m][c])
           q == Staged(end[m][c], "ready")
           r == Hearing(q, s)
<1>1. /\ end[m][c] \in Task /\ wire[m][c] \in Seq(Screens) /\ wire[m][c] # <<>>
      /\ end[m][c].pc = "hello" /\ "ready" \in Stages
      /\ UNCHANGED <<paired, hub, loop, up, told, left>>
  BY DEF Typed, TypeOK, ReadHello, Stages
<1>2. s \in Screens /\ end[m][c].announced \in Screens
  BY <1>1 DEF Typed
<1>3. /\ q \in Task /\ q.pc = "ready" /\ q.announced = end[m][c].announced
  BY <1>1, StagedTask
<1> HIDE DEF q
<1>4. /\ r \in Task /\ r.pc = "ready" /\ r.announced = end[m][c].announced /\ r.remote = s
  BY <1>2, <1>3, HearingTask
<1>5. Became(m, c, r)
  BY Zenon DEF Typed, TypeOK, ReadHello, Became, Staged, Hearing, q
<1> HIDE DEF r
<1>6. Only(m, c) /\ end'[m][c] = r
  BY <1>4, <1>5, OnlyOne
<1>7. wire' = [wire EXCEPT ![m][c] = Tail(@),
                           ![Other(m)][c] = IF m = Acceptor
                                            THEN Append(@, end[m][c].announced) ELSE @]
  BY DEF ReadHello
<1>8. /\ wire' \in [Machines -> [Conns -> Seq(Screens)]]
      /\ \A x \in Machines, d \in Conns :
            wire'[x][d] = IF d = c
                          THEN IF x = m THEN Tail(wire[m][c])
                               ELSE IF m = Acceptor
                               THEN Append(wire[x][d], end[m][c].announced) ELSE wire[x][d]
                          ELSE wire[x][d]
  <2>1. \A x \in Machines : x # m <=> x = Other(m)
    BY Others DEF Machines, Other
  <2> DEFINE o == Other(m)
             t == IF m = Acceptor THEN Append(wire[o][c], end[m][c].announced) ELSE wire[o][c]
             h == Tail(wire[m][c])
  <2>2. o \in Machines /\ o # m /\ wire \in [Machines -> [Conns -> Seq(Screens)]]
    BY Others DEF Typed, TypeOK
  <2>3. t \in Seq(Screens) /\ h \in Seq(Screens)
    BY <1>1, <1>2, <2>2
  <2>4. Both(m, o, c, h, t)
    <3>1. CASE m = Acceptor
      BY <1>7, <2>2, <3>1 DEF Both
    <3>2. CASE m # Acceptor
      BY <1>7, <2>2, <3>2 DEF Both
    <3> QED
      BY <3>1, <3>2
  <2>5. \A x \in Machines : x # m => x = o
    BY <2>1
  <2>6. \A x \in Machines : x # m => t = IF m = Acceptor THEN Append(wire[x][c], end[m][c].announced)
                                        ELSE wire[x][c]
    BY <2>5
  <2> HIDE DEF o, t, h
  <2>7. /\ wire' \in [Machines -> [Conns -> Seq(Screens)]]
        /\ \A x \in Machines, d \in Conns :
             wire'[x][d] = IF d = c THEN IF x = m THEN h ELSE t ELSE wire[x][d]
    <3>1. /\ wire' \in [Machines -> [Conns -> Seq(Screens)]]
          /\ \A x \in Machines, d \in Conns :
               wire'[x][d] = IF d = c /\ x = o THEN t
                             ELSE IF d = c /\ x = m THEN h ELSE wire[x][d]
      BY <2>2, <2>3, <2>4, BothWires
    <3> QED
      BY <2>2, <2>5, <3>1
  <2> QED
    BY <2>6, <2>7 DEF h
<1> QED
  BY <1>1, <1>4, <1>6, <1>8

LEMMA RegisterOnly ==
    ASSUME Typed, NEW m \in Machines, NEW c \in Conns, Register(m, c)
    PROVE  /\ Only(m, c) /\ end'[m][c].pc = "added" /\ end[m][c].pc = "ready"
           /\ end'[m][c].announced = end[m][c].announced
           /\ end'[m][c].remote = end[m][c].remote /\ end'[m][c].heard
           /\ hub[m].on /\ hub[m].screens \in Screens
           /\ HubsOK' /\ hub'[m].active = c
           /\ \A x \in Machines : x # m => hub'[x] = hub[x]
           /\ \A x \in Machines : hub'[x].on = hub[x].on /\ hub'[x].screens = hub[x].screens
           /\ up' = up \ ({hub[m].active} \ {c})
           /\ wire' \in [Machines -> [Conns -> Seq(Screens)]]
           /\ \A x \in Machines, d \in Conns :
                wire'[x][d] = IF x # m /\ d = c /\ hub[m].screens # end[m][c].announced
                              THEN Append(wire[x][d], hub[m].screens) ELSE wire[x][d]
           /\ UNCHANGED <<paired, loop, told, left>>
<1> DEFINE q == Staged(end[m][c], "added")
           r == Listened(q)
<1>1. /\ end[m][c] \in Task /\ "added" \in Stages /\ end[m][c].pc = "ready" /\ hub[m].on
      /\ hub[m].screens \in Screens /\ up' = up \ ({hub[m].active} \ {c})
      /\ UNCHANGED <<paired, loop, told, left>>
  BY DEF Typed, TypeOK, Register, Stages
<1>2. /\ q \in Task /\ q.pc = "added" /\ q.announced = end[m][c].announced
      /\ q.remote = end[m][c].remote
  BY <1>1, StagedTask
<1> HIDE DEF q
<1>3. /\ r \in Task /\ r.pc = "added" /\ r.announced = end[m][c].announced
      /\ r.remote = end[m][c].remote /\ r.heard
  BY <1>2, ListenedTask
<1>4. Became(m, c, r)
  BY Zenon DEF Typed, TypeOK, Register, Became, Staged, Listened, q
<1> HIDE DEF r
<1>5. Only(m, c) /\ end'[m][c] = r
  BY <1>3, <1>4, OnlyOne
<1>6. /\ HubsOK' /\ hub'[m].active = c
      /\ \A x \in Machines : x # m => hub'[x] = hub[x]
      /\ \A x \in Machines : hub'[x].on = hub[x].on /\ hub'[x].screens = hub[x].screens
  <2>1. hub' = [hub EXCEPT ![m].active = c]
    BY DEF Register
  <2> QED
    BY <1>1, <2>1, HubActive, TypedParts
<1>7. /\ wire' \in [Machines -> [Conns -> Seq(Screens)]]
      /\ \A x \in Machines, d \in Conns :
            wire'[x][d] = IF x # m /\ d = c /\ hub[m].screens # end[m][c].announced
                          THEN Append(wire[x][d], hub[m].screens) ELSE wire[x][d]
  <2>1. \A x \in Machines : x # m <=> x = Other(m)
    BY Others DEF Machines, Other
  <2>2. wire' = [wire EXCEPT ![Other(m)][c] =
                   IF hub[m].screens = end[m][c].announced THEN @
                   ELSE Append(@, hub[m].screens)]
    BY DEF Register
  <2> QED
    BY <1>1, <2>1, <2>2, Others DEF Typed, TypeOK
<1> QED
  BY <1>1, <1>3, <1>5, <1>6, <1>7

LEMMA ReadOnly ==
    ASSUME Typed, NEW m \in Machines, NEW c \in Conns, Read(m, c)
    PROVE  /\ Only(m, c) /\ end'[m][c].pc = "run" /\ end[m][c].pc = "run"
           /\ end'[m][c].announced = end[m][c].announced /\ end'[m][c].heard = end[m][c].heard
           /\ end'[m][c].remote = Head(wire[m][c]) /\ wire[m][c] # <<>>
           /\ wire' \in [Machines -> [Conns -> Seq(Screens)]]
           /\ \A x \in Machines, d \in Conns :
                wire'[x][d] = IF d = c /\ x = m THEN Tail(wire[m][c]) ELSE wire[x][d]
           /\ UNCHANGED <<paired, hub, loop, up, told, left>>
<1> DEFINE s == Head(wire[m][c])
           r == Hearing(end[m][c], s)
<1>1. /\ end[m][c] \in Task /\ wire[m][c] \in Seq(Screens) /\ wire[m][c] # <<>>
      /\ end[m][c].pc = "run"
      /\ UNCHANGED <<paired, hub, loop, up, told, left>>
  BY DEF Typed, TypeOK, Read
<1>2. s \in Screens
  BY <1>1
<1>3. /\ r \in Task /\ r.pc = "run" /\ r.announced = end[m][c].announced
      /\ r.heard = end[m][c].heard /\ r.remote = s
  BY <1>1, <1>2, HearingTask
<1>4. Became(m, c, r)
  BY Zenon DEF Typed, TypeOK, Read, Became, Hearing
<1> HIDE DEF r
<1>5. Only(m, c) /\ end'[m][c] = r
  BY <1>3, <1>4, OnlyOne
<1>6. /\ wire' \in [Machines -> [Conns -> Seq(Screens)]]
      /\ \A x \in Machines, d \in Conns :
            wire'[x][d] = IF d = c /\ x = m THEN Tail(wire[m][c]) ELSE wire[x][d]
  <2>1. wire' = [wire EXCEPT ![m][c] = Tail(@)]
    BY DEF Read
  <2> QED
    BY <1>1, <2>1 DEF Typed, TypeOK
<1> QED
  BY <1>1, <1>3, <1>5, <1>6

-----------------------------------------------------------------------------
(* What starting and stopping to share, and changing displays, do. *)
LEMMA StartOnly ==
    ASSUME Typed, NEW m \in Machines, NEW s \in Screens, Start(m, s)
    PROVE  /\ hub' \in [Machines -> HubType]
           /\ \A x \in Machines : x # m => hub'[x] = hub[x]
           /\ \A x \in Machines : hub'[x].active = hub[x].active
           /\ hub'[m].on /\ hub'[m].active = None /\ hub'[m].screens = s /\ ~hub[m].on
           /\ UNCHANGED <<paired, end, up, wire, told, left>>
<1> DEFINE r == [on |-> TRUE, screens |-> s, active |-> None]
<1>1. r \in HubType /\ r.on /\ r.active = None /\ r.screens = s
  BY DEF HubType
<1>2. hub' = [hub EXCEPT ![m] = r] /\ ~hub[m].on
  BY DEF Start
<1>3. hub[m].active = None
  BY <1>2 DEF Typed, TypeOK
<1> HIDE DEF r
<1> QED
  BY <1>1, <1>2, <1>3 DEF Start, Typed, TypeOK

LEMMA UpdateOnly ==
    ASSUME Typed, NEW m \in Machines, NEW s \in Screens, Update(m, s)
    PROVE  /\ hub' \in [Machines -> HubType]
           /\ \A x \in Machines : x # m => hub'[x] = hub[x]
           /\ \A x \in Machines : hub'[x].active = hub[x].active /\ hub'[x].on = hub[x].on
           /\ hub[m].on /\ hub'[m].screens = s
           /\ wire' \in [Machines -> [Conns -> Seq(Screens)]]
           /\ \A x \in Machines, c \in Conns :
                wire'[x][c] = IF x # m /\ c = hub[m].active THEN Append(wire[x][c], s)
                              ELSE wire[x][c]
           /\ UNCHANGED <<paired, loop, end, up, told>>
<1> DEFINE r == [hub[m] EXCEPT !.screens = s]
<1>1. hub[m] \in HubType /\ hub[m].on
  BY DEF Typed, TypeOK, Update
<1>2. r \in HubType /\ r.on = hub[m].on /\ r.active = hub[m].active /\ r.screens = s
  BY <1>1 DEF HubType
<1>3. hub' = [hub EXCEPT ![m] = r]
  BY Zenon DEF Typed, TypeOK, Update
<1> HIDE DEF r
<1>4. /\ hub' \in [Machines -> HubType]
      /\ \A x \in Machines : hub'[x] = IF x = m THEN r ELSE hub[x]
  BY <1>2, <1>3 DEF Typed, TypeOK
<1>5. \A x \in Machines : x # m <=> x = Other(m)
  BY Others DEF Machines, Other
<1>6. /\ wire' \in [Machines -> [Conns -> Seq(Screens)]]
      /\ \A x \in Machines, c \in Conns :
            wire'[x][c] = IF x # m /\ c = hub[m].active THEN Append(wire[x][c], s)
                          ELSE wire[x][c]
  <2>1. CASE hub[m].active = None
    <3>1. wire' = wire
      BY <2>1 DEF Update
    <3> QED
      BY <2>1, <3>1, SessionsAssumption DEF Typed, TypeOK
  <2>2. CASE hub[m].active # None
    <3> DEFINE a == hub[m].active
               o == Other(m)
    <3>1. wire' = [wire EXCEPT ![o][a] = Append(@, s)]
      BY <2>2 DEF Update
    <3>2. a \in Conns /\ o \in Machines
      BY <1>1, <2>2, Others DEF HubType
    <3> HIDE DEF a, o
    <3>3. /\ wire' \in [Machines -> [Conns -> Seq(Screens)]]
          /\ \A x \in Machines, c \in Conns :
                wire'[x][c] = IF x = o /\ c = a THEN Append(wire[x][c], s) ELSE wire[x][c]
      BY <3>1, <3>2 DEF Typed, TypeOK
    <3> QED
      BY <1>5, <3>3 DEF a, o
  <2> QED
    BY <2>1, <2>2
<1> QED
  BY <1>1, <1>2, <1>4, <1>6 DEF Update

LEMMA StopOnly ==
    ASSUME Typed, NEW m \in Machines, Stop(m)
    PROVE  /\ UNCHANGED <<paired, wire>>
           /\ up' \subseteq up /\ hub[m].active \notin up'
           /\ told' \in [Machines -> Conns \cup {None}]
           /\ \A x \in Machines : told'[x] = IF x = m THEN None ELSE told[x]
           /\ hub' \in [Machines -> HubType]
           /\ \A x \in Machines : x # m => hub'[x] = hub[x]
           /\ ~hub'[m].on /\ hub'[m].active = None
           /\ end' \in [Machines -> [Conns -> Task]]
           /\ \A x \in Machines, c \in Conns : x # m => end'[x][c] = end[x][c]
           /\ \A c \in Conns : IF m = Dialer THEN end'[m][c].pc = "free"
                               ELSE /\ end'[m][c].pc = end[m][c].pc
                                    /\ end'[m][c].announced = end[m][c].announced
                                    /\ end'[m][c].remote = end[m][c].remote
<1>1. UNCHANGED <<paired, wire>> /\ up' \subseteq up /\ hub[m].active \notin up'
  BY DEF Stop
<1>2. /\ hub' \in [Machines -> HubType]
      /\ \A x \in Machines : x # m => hub'[x] = hub[x]
      /\ ~hub'[m].on /\ hub'[m].active = None
  <2> DEFINE r == [hub[m] EXCEPT !.on = FALSE, !.active = None]
  <2>1. hub[m] \in HubType
    BY DEF Typed, TypeOK
  <2>2. r \in HubType /\ r.on = FALSE /\ r.active = None
    BY <2>1 DEF HubType
  <2>3. hub' = [hub EXCEPT ![m] = r]
    BY DEF Stop
  <2> HIDE DEF r
  <2> QED
    BY <2>2, <2>3 DEF Typed, TypeOK
<1>3. /\ told' \in [Machines -> Conns \cup {None}]
      /\ \A x \in Machines : told'[x] = IF x = m THEN None ELSE told[x]
  BY DEF Stop, Typed, TypeOK
<1>4. \A c \in Conns : Unheard(m)[c] = IF c \in Aborted(m) THEN NoTask ELSE Ignored(end[m][c])
  BY DEF Unheard, Ignored
<1>5. \A c \in Conns :
         LET t == Ignored(end[m][c]) IN
         /\ t \in Task /\ t.pc = end[m][c].pc /\ t.announced = end[m][c].announced
         /\ t.remote = end[m][c].remote
  BY IgnoredTask DEF Typed, TypeOK
<1>6. Unheard(m) \in [Conns -> Task]
  BY <1>4, <1>5, NoTaskIsTask DEF Unheard, Ignored
<1>7. end' = [end EXCEPT ![m] = Unheard(m)]
  BY DEF Stop
<1>8. /\ end' \in [Machines -> [Conns -> Task]]
      /\ \A x \in Machines, c \in Conns :
            end'[x][c] = IF x = m THEN Unheard(m)[c] ELSE end[x][c]
  BY <1>6, <1>7 DEF Typed, TypeOK
<1>9. \A c \in Conns : c \in Aborted(m) <=> m = Dialer /\ end[m][c].pc # "free"
  BY DEF Aborted
<1>10. \A c \in Conns : IF m = Dialer THEN end'[m][c].pc = "free"
                        ELSE /\ end'[m][c].pc = end[m][c].pc
                             /\ end'[m][c].announced = end[m][c].announced
                             /\ end'[m][c].remote = end[m][c].remote
  BY <1>4, <1>5, <1>8, <1>9, NoTaskIsTask
<1> QED
  BY <1>1, <1>2, <1>3, <1>8, <1>10

(* Types, action by action. *)
LEMMA UserTyped ==
    ASSUME Typed, NEW m \in Machines, UserStep(m)
    PROVE  Typed'
<1>1. CASE AddPaired(m)
  <2>1. LoopsOK'
    <3>1. CASE hub[m].on
      BY <1>1, <3>1, SpawnLoops DEF AddPaired
    <3>2. CASE ~hub[m].on
      BY <1>1, <3>2 DEF AddPaired, LoopsOK, Typed, TypeOK
    <3> QED
      BY <3>1, <3>2
  <2>2. paired' \in [Machines -> BOOLEAN] /\ UNCHANGED <<hub, end, up, wire, told>>
    BY <1>1 DEF AddPaired, Typed, TypeOK
  <2> QED
    BY <2>1, <2>2 DEF LoopsOK, Typed, TypeOK
<1>2. CASE Unpair(m)
  BY <1>2 DEF Unpair, Typed, TypeOK
<1>3. CASE Stop(m)
  <2>1. HubsOK' /\ RestOK'
    BY <1>3, StopOnly, TypedParts DEF HubsOK, RestOK
  <2>2. EndsOK'
    <3>1. EndsOK
      BY TypedParts
    <3>2. \A x \in Machines, c \in Conns :
             \/ end'[x][c].pc = "free"
             \/ end'[x][c].pc = end[x][c].pc /\ end'[x][c].announced = end[x][c].announced
      BY <1>3, StopOnly
    <3> QED
      BY <1>3, <3>1, <3>2, StopOnly DEF EndsOK
  <2>3. LoopsOK'
    <3>1. CASE m = Dialer
      BY <1>3, <3>1, NoTaskIsTask DEF Stop, LoopsOK
    <3>2. CASE m # Dialer
      <4>1. UNCHANGED loop
        BY <1>3, <3>2 DEF Stop
      <4>2. hub'[Dialer] = hub[Dialer]
        BY <1>3, <3>2, StopOnly, Others
      <4> QED
        BY <4>1, <4>2, SameLoops, TypedParts
    <3> QED
      BY <3>1, <3>2
  <2> QED
    BY <2>1, <2>2, <2>3, TypedParts2
<1>4. CASE \E s \in Screens : Start(m, s)
  <2> PICK s \in Screens : Start(m, s)
    BY <1>4
  <2>1. /\ hub' \in [Machines -> HubType]
        /\ \A x \in Machines : x # m => hub'[x] = hub[x]
        /\ hub'[m].on /\ hub'[m].active = None /\ hub'[m].screens = s
    BY DEF Start, Typed, TypeOK, HubType
  <2>2. LoopsOK'
    <3>1. CASE paired[m]
      BY <2>1, <3>1, SpawnLoops, Others DEF Start
    <3>2. CASE ~paired[m]
      BY <2>1, <3>2, Others DEF Start, LoopsOK, Typed, TypeOK
    <3> QED
      BY <3>1, <3>2
  <2> QED
    BY <2>1, <2>2 DEF Start, LoopsOK, Typed, TypeOK
<1>5. CASE \E s \in Screens : Update(m, s)
  <2> PICK s \in Screens : Update(m, s)
    BY <1>5
  <2>1. /\ hub' \in [Machines -> HubType]
        /\ \A x \in Machines : x # m => hub'[x] = hub[x]
        /\ hub'[m].on /\ hub'[m].screens = s /\ hub'[m].active = hub[m].active
    BY DEF Update, Typed, TypeOK, HubType
  <2>2. wire' \in [Machines -> [Conns -> Seq(Screens)]]
    <3>1. CASE hub[m].active = None
      BY <3>1 DEF Update, Typed, TypeOK
    <3>2. CASE hub[m].active # None
      BY <3>2, Others DEF Update, Typed, TypeOK, HubType
    <3> QED
      BY <3>1, <3>2
  <2> QED
    BY <2>1, <2>2, Others DEF Update, Typed, TypeOK
<1> QED
  BY <1>1, <1>2, <1>3, <1>4, <1>5 DEF UserStep

LEMMA LoopTyped ==
    ASSUME Typed, NEW l \in Loops, LoopStep(l)
    PROVE  Typed'
<1>1. CASE Check(l)
  BY <1>1, NoTaskIsTask DEF Check, Typed, TypeOK
<1>2. CASE Refused(l)
  BY <1>2 DEF Refused, Typed, TypeOK, LoopType
<1>3. CASE Wake(l)
  BY <1>3 DEF Wake, Typed, TypeOK, LoopType
<1>4. CASE Connect(l)
  <2>0. PICK c \in Unused : Connected(l, c)
    BY <1>4, Connecting
  <2>1. /\ loop' = [loop EXCEPT ![l] = [pc |-> "dial", conn |-> c]]
        /\ up' = up \cup {c}
        /\ end' \in [Machines -> [Conns -> Task]]
        /\ wire' \in [Machines -> [Conns -> Seq(Screens)]]
        /\ \A x \in Machines, d \in Conns \ {c} : end'[x][d] = end[x][d]
        /\ end'[Dialer][c].pc = "hello" /\ end'[Acceptor][c].pc = "accepted"
        /\ end'[Dialer][c].announced = hub[Dialer].screens
        /\ hub[Dialer].on /\ hub[Dialer].screens \in Screens
        /\ UNCHANGED <<paired, hub, told, left>>
    BY <2>0 DEF Connected
  <2>2. c \in Conns /\ c # None
    BY UnusedFree, SessionsAssumption
  <2>3. LoopsOK'
    <3> DEFINE r == [pc |-> "dial", conn |-> c]
    <3>1. r \in LoopType /\ r.pc = "dial" /\ r.conn = c
      BY <2>2 DEF LoopType
    <3>2. loop' = [loop EXCEPT ![l] = r]
      BY <2>1
    <3> HIDE DEF r
    <3> QED
      BY <2>1, <2>2, <3>1, <3>2 DEF LoopsOK, Typed, TypeOK
  <2>4. EndsOK'
    <3>1. \A x \in Machines : end'[x][c].pc \notin {"free", "accepted"} => x = Dialer
      BY <2>1, Others DEF Machines
    <3>2. \A x \in Machines, d \in Conns : d # c => end'[x][d] = end[x][d]
      BY <2>1
    <3>3. EndsOK
      BY TypedParts
    <3> QED
      BY <2>1, <3>1, <3>2, <3>3 DEF EndsOK
  <2>5. HubsOK' /\ RestOK'
    BY <2>1, <2>2 DEF HubsOK, RestOK, Typed, TypeOK
  <2> QED
    BY <2>3, <2>4, <2>5, TypedParts2
<1> QED
  BY <1>1, <1>2, <1>3, <1>4 DEF LoopStep

LEMMA TaskTyped ==
    ASSUME Typed, NEW m \in Machines, NEW c \in Conns, TaskStep(m, c)
    PROVE  Typed'
<1> USE Others, TypedParts, TypedParts2
<1>0. HubsOK /\ LoopsOK /\ EndsOK /\ RestOK
  OBVIOUS
<1>1. CASE m = Acceptor /\ Accept(c)
  <2>1. UNCHANGED <<paired, hub, loop, wire, told, left>> /\ up' \subseteq up
    BY <1>1 DEF Accept
  <2>2. HubsOK' /\ LoopsOK' /\ RestOK'
    BY <1>0, <2>1 DEF HubsOK, LoopsOK, RestOK
  <2>3. CASE hub[Acceptor].on
    BY <1>0, <1>1, <2>2, <2>3, AcceptOnly, OnlyEnds
  <2>4. CASE ~hub[Acceptor].on
    <3>1. Became(Acceptor, c, NoTask)
      BY <1>1, <2>4 DEF Accept, Became
    <3> QED
      BY <1>0, <2>2, <3>1, OnlyOne, OnlyEnds, NoTaskIsTask
  <2> QED
    BY <2>3, <2>4
<1>2. CASE ReadHello(m, c)
  <2>1. EndsOK'
    <3>1. end[m][c].announced \in Screens
      BY <1>0, <1>2, ReadHelloOnly DEF EndsOK
    <3> QED
      BY <1>0, <1>2, <3>1, ReadHelloOnly, OnlyEnds
  <2>2. HubsOK' /\ LoopsOK' /\ RestOK'
    BY <1>0, <1>2, ReadHelloOnly DEF HubsOK, LoopsOK, RestOK
  <2> QED
    BY <2>1, <2>2
<1>3. CASE NoHello(m, c)
  <2>1. Over(m, c) /\ UNCHANGED <<paired, hub, up, told, left>>
    BY <1>3 DEF NoHello
  <2> QED
    BY <1>0, <2>1, OverParts DEF HubsOK, RestOK
<1>4. CASE Register(m, c)
  <2>1. EndsOK'
    <3>1. end[m][c].announced \in Screens
      BY <1>0, <1>4, RegisterOnly DEF EndsOK
    <3> QED
      BY <1>0, <1>4, <3>1, RegisterOnly, OnlyEnds
  <2>2. HubsOK' /\ hub'[Dialer].on = hub[Dialer].on
    BY <1>4, RegisterOnly
  <2>3. LoopsOK' /\ RestOK'
    BY <1>0, <1>4, <2>2, RegisterOnly, SameLoops DEF RestOK
  <2> QED
    BY <2>1, <2>2, <2>3
<1>5. CASE TooLate(m, c)
  <2>1. Over(m, c) /\ up' = up \ {c} /\ UNCHANGED <<paired, hub, told, left>>
    BY <1>5 DEF TooLate
  <2> QED
    BY <1>0, <2>1, OverParts DEF HubsOK, RestOK
<1>6. CASE TellConnected(m, c)
  <2>1. end' = [end EXCEPT ![m][c].pc = "run"] /\ end[m][c].pc = "added" /\ "run" \in Stages
    BY <1>6 DEF TellConnected, Stages
  <2>2. EndsOK'
    <3>1. end[m][c].announced \in Screens
      BY <1>0, <2>1 DEF EndsOK
    <3> QED
      BY <1>0, <2>1, <3>1, StageOnly, OnlyEnds
  <2>3. RestOK' /\ UNCHANGED <<hub, loop>>
    BY <1>0, <1>6 DEF TellConnected, RestOK
  <2> QED
    BY <1>0, <2>2, <2>3, SameLoops DEF HubsOK
<1>7. CASE Read(m, c)
  <2>1. EndsOK'
    <3>1. end[m][c].pc = "run" /\ Only(m, c) /\ end'[m][c].announced = end[m][c].announced
      BY <1>7, ReadOnly
    <3>2. end[m][c].announced \in Screens
      BY <1>0, <3>1 DEF EndsOK
    <3> QED
      BY <1>0, <3>1, <3>2, OnlyEnds
  <2>2. HubsOK' /\ LoopsOK' /\ RestOK'
    BY <1>0, <1>7, ReadOnly DEF HubsOK, LoopsOK, RestOK
  <2> QED
    BY <2>1, <2>2
<1>8. CASE Finish(m, c)
  <2>1. CASE hub[m].active = c
    <3>1. end' = [end EXCEPT ![m][c].pc = "removed"] /\ end[m][c].pc = "run"
          /\ "removed" \in Stages /\ UNCHANGED <<paired, loop, up, wire, told, left>>
      BY <1>8, <2>1 DEF Finish, Stages
    <3>2. hub' = [hub EXCEPT ![m].active = None]
      BY <1>8, <2>1 DEF Finish
    <3>3. HubsOK' /\ hub'[Dialer].on = hub[Dialer].on
      BY <1>0, <3>2, HubActive
    <3>4. EndsOK'
      <4>1. end[m][c].announced \in Screens
        BY <1>0, <3>1 DEF EndsOK
      <4> QED
        BY <1>0, <3>1, <4>1, StageOnly, OnlyEnds
    <3> QED
      BY <1>0, <3>1, <3>3, <3>4, SameLoops DEF RestOK
  <2>2. CASE hub[m].active # c
    <3>1. Over(m, c) /\ UNCHANGED <<paired, hub, up, told, left>>
      BY <1>8, <2>2 DEF Finish
    <3> QED
      BY <1>0, <3>1, OverParts DEF HubsOK, RestOK
  <2> QED
    BY <2>1, <2>2
<1>9. CASE TellDisconnected(m, c)
  <2>1. Over(m, c) /\ UNCHANGED <<paired, hub, up, left>>
    BY <1>9 DEF TellDisconnected
  <2>2. told' \in [Machines -> Conns \cup {None}]
    BY <1>0, <1>9 DEF TellDisconnected, RestOK
  <2> QED
    BY <1>0, <2>1, <2>2, OverParts DEF HubsOK, RestOK
<1> QED
  BY <1>1, <1>2, <1>3, <1>4, <1>5, <1>6, <1>7, <1>8, <1>9 DEF TaskStep

LEMMA TypedNext ==
    ASSUME Typed, [Next]_vars
    PROVE  Typed'
<1>1. ASSUME NEW c \in Conns, Break(c)
      PROVE  Typed'
  BY <1>1 DEF Break, Typed, TypeOK
<1>2. CASE UNCHANGED vars
  BY <1>2 DEF vars, Typed, TypeOK
<1> QED
  BY <1>1, <1>2, LoopTyped, TaskTyped, UserTyped DEF Next

LEMMA TypedInit ==
    ASSUME Init
    PROVE  Typed
<1>1. HubsOK
  BY DEF Init, HubsOK, HubType
<1>2. LoopsOK /\ EndsOK
  BY NoTaskIsTask DEF Init, LoopsOK, EndsOK
<1>3. RestOK
  BY DEF Init, RestOK
<1> QED
  BY <1>1, <1>2, <1>3, TypedParts

-----------------------------------------------------------------------------
(* The hub's table, action by action.  Loops only matter as they connect. *)
Live == {"added", "run", "removed"}

LEMMA TableAt ==
    ASSUME TableIsWhatRuns, NEW m \in Machines, NEW c \in Conns
    PROVE  /\ hub[m].active = c => end[m][c].pc \in {"added", "run"}
           /\ hub[m].active # c /\ end[m][c].pc \in Live => c \notin up
BY SessionsAssumption DEF TableIsWhatRuns, Live

LEMMA TableHolds ==
    ASSUME HubsOK,
           \A m \in Machines, c \in Conns :
              /\ hub[m].active = c => end[m][c].pc \in {"added", "run"}
              /\ hub[m].active # c /\ end[m][c].pc \in Live => c \notin up
    PROVE  TableIsWhatRuns
BY DEF TableIsWhatRuns, Live, HubsOK, HubType

LEMMA TableHoldsNext ==
    ASSUME HubsOK',
           \A m \in Machines, c \in Conns :
              /\ hub'[m].active = c => end'[m][c].pc \in {"added", "run"}
              /\ hub'[m].active # c /\ end'[m][c].pc \in Live => c \notin up'
    PROVE  TableIsWhatRuns'
BY DEF TableIsWhatRuns, Live, HubsOK, HubType

(* One task moves on, and the hub stays as it is. *)
LEMMA TableKeeps ==
    ASSUME Typed', TableIsWhatRuns, NEW m \in Machines, NEW c \in Conns, Only(m, c),
           UNCHANGED hub, up' \subseteq up,
           hub[m].active = c => end'[m][c].pc \in {"added", "run"},
           hub[m].active # c /\ end'[m][c].pc \in Live => end[m][c].pc \in Live
    PROVE  TableIsWhatRuns'
<1>1. ASSUME NEW x \in Machines, NEW d \in Conns
      PROVE  /\ hub'[x].active = d => end'[x][d].pc \in {"added", "run"}
             /\ hub'[x].active # d /\ end'[x][d].pc \in Live => d \notin up'
  <2>1. CASE x = m /\ d = c
    BY <2>1, TableAt
  <2>2. CASE x # m \/ d # c
    BY <2>2, TableAt DEF Only
  <2> QED
    BY <2>1, <2>2
<1> QED
  BY <1>1, TableHoldsNext, TypedParts2

LEMMA TaskTable ==
    ASSUME Typed, Typed', TableIsWhatRuns, NEW m \in Machines, NEW c \in Conns, TaskStep(m, c)
    PROVE  TableIsWhatRuns'
<1>1. CASE m = Acceptor /\ Accept(c)
  <2>1. /\ Only(m, c) /\ end[m][c].pc = "accepted" /\ end'[m][c].pc \in {"hello", "free"}
        /\ UNCHANGED hub /\ up' \subseteq up
    BY <1>1, AcceptFx
  <2> QED
    BY <2>1, TableAt, TableKeeps DEF Live
<1>2. CASE ReadHello(m, c)
  <2>1. /\ Only(m, c) /\ end[m][c].pc = "hello" /\ end'[m][c].pc = "ready"
        /\ UNCHANGED <<hub, up>>
    BY <1>2, ReadHelloOnly
  <2> QED
    BY <2>1, TableAt, TableKeeps DEF Live
<1>3. CASE NoHello(m, c) \/ TooLate(m, c) \/ TellDisconnected(m, c)
  <2>1. /\ Over(m, c) /\ end[m][c].pc \notin {"added", "run"}
        /\ UNCHANGED hub /\ up' \subseteq up
    BY <1>3 DEF NoHello, TooLate, TellDisconnected
  <2>2. Only(m, c) /\ end'[m][c].pc = "free"
    BY <2>1, OverOnly
  <2> QED
    BY <2>1, <2>2, TableAt, TableKeeps DEF Live
<1>4. CASE Register(m, c)
  <2>1. /\ Only(m, c) /\ end[m][c].pc = "ready" /\ end'[m][c].pc = "added"
        /\ up' = up \ ({hub[m].active} \ {c}) /\ hub'[m].active = c
        /\ \A x \in Machines : x # m => hub'[x] = hub[x]
    BY <1>4, RegisterOnly
  <2>2. ASSUME NEW x \in Machines, NEW d \in Conns
        PROVE  /\ hub'[x].active = d => end'[x][d].pc \in {"added", "run"}
               /\ hub'[x].active # d /\ end'[x][d].pc \in Live => d \notin up'
    <3>1. CASE x # m
      BY <2>1, <3>1, TableAt DEF Only
    <3>2. CASE x = m /\ d # c
      BY <2>1, <3>2, TableAt DEF Only
    <3>3. CASE x = m /\ d = c
      BY <2>1, <3>3
    <3> QED
      BY <3>1, <3>2, <3>3
  <2> QED
    BY <2>2, TableHoldsNext, TypedParts2
<1>6. CASE TellConnected(m, c)
  <2>1. /\ end' = [end EXCEPT ![m][c].pc = "run"] /\ end[m][c].pc = "added"
        /\ "run" \in Stages /\ UNCHANGED <<hub, up>>
    BY <1>6 DEF TellConnected, Stages
  <2>2. Only(m, c) /\ end'[m][c].pc = "run"
    BY <2>1, StageOnly
  <2> QED
    BY <2>1, <2>2, TableKeeps DEF Live
<1>7. CASE Read(m, c)
  <2>1. /\ Only(m, c) /\ end[m][c].pc = "run" /\ end'[m][c].pc = "run"
        /\ UNCHANGED <<hub, up>>
    BY <1>7, ReadOnly
  <2> QED
    BY <2>1, TableKeeps DEF Live
<1>8. CASE Finish(m, c)
  <2>1. CASE hub[m].active = c
    <3>1. /\ end' = [end EXCEPT ![m][c].pc = "removed"] /\ c \notin up
          /\ "removed" \in Stages /\ UNCHANGED up /\ hub' = [hub EXCEPT ![m].active = None]
      BY <1>8, <2>1 DEF Finish, Stages
    <3>2. Only(m, c) /\ end'[m][c].pc = "removed"
      BY <3>1, StageOnly
    <3>3. /\ hub'[m].active = None /\ \A x \in Machines : x # m => hub'[x] = hub[x]
          /\ None \notin Conns
      BY <3>1, HubActive, TypedParts, SessionsAssumption
    <3>4. ASSUME NEW x \in Machines, NEW d \in Conns
          PROVE  /\ hub'[x].active = d => end'[x][d].pc \in {"added", "run"}
                 /\ hub'[x].active # d /\ end'[x][d].pc \in Live => d \notin up'
      <4>1. CASE x # m
        BY <3>1, <3>2, <3>3, <4>1, TableAt DEF Only
      <4>2. CASE x = m /\ d # c
        BY <2>1, <3>1, <3>2, <3>3, <4>2, TableAt DEF Only
      <4>3. CASE x = m /\ d = c
        BY <3>1, <3>2, <3>3, <4>3
      <4> QED
        BY <4>1, <4>2, <4>3
    <3> QED
      BY <3>4, TableHoldsNext, TypedParts2
  <2>2. CASE hub[m].active # c
    <3>1. Over(m, c) /\ UNCHANGED <<hub, up>>
      BY <1>8, <2>2 DEF Finish
    <3>2. Only(m, c) /\ end'[m][c].pc = "free"
      BY <3>1, OverOnly
    <3> QED
      BY <2>2, <3>1, <3>2, TableKeeps DEF Live
  <2> QED
    BY <2>1, <2>2
<1> QED
  BY <1>1, <1>2, <1>3, <1>4, <1>6, <1>7, <1>8 DEF TaskStep

LEMMA LoopTable ==
    ASSUME Typed, Typed', TableIsWhatRuns, NEW l \in Loops, LoopStep(l)
    PROVE  TableIsWhatRuns'
<1>1. CASE Connect(l)
  <2>0. PICK c \in Unused : Connected(l, c)
    BY <1>1, Connecting
  <2>1. /\ up' = up \cup {c} /\ UNCHANGED hub
        /\ \A x \in Machines, d \in Conns \ {c} : end'[x][d] = end[x][d]
        /\ end'[Dialer][c].pc = "hello" /\ end'[Acceptor][c].pc = "accepted"
    BY <2>0 DEF Connected
  <2>2. \A m \in Machines : end'[m][c].pc \in {"hello", "accepted"} /\ hub[m].active # c
    BY <2>1, UnusedFree DEF Machines
  <2>3. ASSUME NEW x \in Machines, NEW d \in Conns
        PROVE  /\ hub'[x].active = d => end'[x][d].pc \in {"added", "run"}
               /\ hub'[x].active # d /\ end'[x][d].pc \in Live => d \notin up'
    <3>1. CASE d = c
      BY <2>1, <2>2, <3>1 DEF Live
    <3>2. CASE d # c
      BY <2>1, <3>2, TableAt
    <3> QED
      BY <3>1, <3>2
  <2> QED
    BY <2>3, TableHoldsNext, TypedParts2
<1>2. CASE Check(l) \/ Refused(l) \/ Wake(l)
  BY <1>2 DEF Check, Refused, Wake, TableIsWhatRuns
<1> QED
  BY <1>1, <1>2 DEF LoopStep

LEMMA UserTable ==
    ASSUME Typed, Typed', TableIsWhatRuns, NEW m \in Machines, UserStep(m)
    PROVE  TableIsWhatRuns'
<1>1. CASE AddPaired(m) \/ Unpair(m)
  <2>1. UNCHANGED <<hub, end>> /\ up' \subseteq up
    BY <1>1 DEF AddPaired, Unpair
  <2> QED
    BY <2>1 DEF TableIsWhatRuns
<1>2. CASE Stop(m)
  <2>1. /\ hub'[m].active = None /\ \A x \in Machines : x # m => hub'[x] = hub[x]
        /\ up' \subseteq up /\ hub[m].active \notin up' /\ None \notin Conns
    BY <1>2, StopOnly, SessionsAssumption
  <2>2. ASSUME NEW x \in Machines, NEW d \in Conns
        PROVE  /\ hub'[x].active = d => end'[x][d].pc \in {"added", "run"}
               /\ hub'[x].active # d /\ end'[x][d].pc \in Live => d \notin up'
    <3>1. CASE x # m
      <4>1. end'[x][d] = end[x][d]
        BY <1>2, <3>1, StopOnly
      <4> QED
        BY <2>1, <3>1, <4>1, TableAt
    <3>2. CASE x = m
      <4>1. end'[m][d].pc = "free" \/ end'[m][d].pc = end[m][d].pc
        BY <1>2, StopOnly
      <4> QED
        BY <2>1, <3>2, <4>1, TableAt DEF Live
    <3> QED
      BY <3>1, <3>2
  <2> QED
    BY <2>2, TableHoldsNext, TypedParts2
<1>3. CASE \E s \in Screens : Start(m, s) \/ Update(m, s)
  <2>1. UNCHANGED end /\ up' = up
    BY <1>3 DEF Start, Update
  <2>2. \A x \in Machines : hub'[x].active = hub[x].active
    BY <1>3, StartOnly, UpdateOnly
  <2> QED
    BY <2>1, <2>2 DEF TableIsWhatRuns
<1> QED
  BY <1>1, <1>2, <1>3 DEF UserStep

LEMMA TableNext ==
    ASSUME Typed, Typed', TableIsWhatRuns, [Next]_vars
    PROVE  TableIsWhatRuns'
<1>1. ASSUME NEW c \in Conns, Break(c)
      PROVE  TableIsWhatRuns'
  BY <1>1 DEF Break, TableIsWhatRuns
<1>2. CASE UNCHANGED vars
  BY <1>2 DEF vars, TableIsWhatRuns
<1> QED
  BY <1>1, <1>2, TaskTable, LoopTable, UserTable DEF Next

-----------------------------------------------------------------------------
(* What is announced is what will be known, action by action. *)
Claim(m, c) ==
    Busy(m, c) =>
        /\ hub[Other(m)].active = c => Known(m, c) = hub[Other(m)].screens
        /\ Introduced(Other(m), c) => Known(m, c) = end[Other(m)][c].announced

LEMMA AnnouncedClaims == Announced <=> \A m \in Machines, c \in Conns : Claim(m, c)
BY DEF Announced, Claim

LEMMA AnnouncedClaims2 == Announced' <=> \A m \in Machines, c \in Conns : Claim(m, c)'
BY DEF Announced, Claim

LEMMA KnownAppend ==
    ASSUME NEW m \in Machines, NEW c \in Conns, NEW s \in Screens,
           wire[m][c] \in Seq(Screens), wire'[m][c] = Append(wire[m][c], s)
    PROVE  Known(m, c)' = s
<1>1. /\ Append(wire[m][c], s) # <<>>
      /\ Append(wire[m][c], s)[Len(Append(wire[m][c], s))] = s
  OBVIOUS
<1> QED
  BY <1>1 DEF Known

LEMMA NoneLong == Len(<<>>) = 0
BY EmptySeq

LEMMA LastOfTail ==
    ASSUME NEW w \in Seq(Screens), w # <<>>
    PROVE  IF Tail(w) = <<>> THEN Head(w) = w[Len(w)] ELSE Tail(w)[Len(Tail(w))] = w[Len(w)]
<1>1. /\ Len(w) \in Nat \ {0} /\ Tail(w) \in Seq(Screens)
      /\ Len(Tail(w)) = Len(w) - 1 /\ Head(w) = w[1]
      /\ \A i \in 1 .. Len(Tail(w)) : Tail(w)[i] = w[i + 1]
  BY EmptySeq, HeadTailProperties
<1>2. CASE Tail(w) = <<>>
  <2> DEFINE t == Tail(w)
  <2>1. t = <<>>
    BY <1>2
  <2>2. Len(t) = Len(w) - 1
    BY <1>1
  <2> HIDE DEF t
  <2>3. Len(t) = 0
    BY <2>1, NoneLong
  <2>4. Len(w) \in Nat /\ Head(w) = w[1]
    BY <1>1
  <2>5. Len(w) = 1
    BY <2>2, <2>3, <2>4
  <2>6. Head(w) = w[Len(w)]
    BY <2>4, <2>5, Zenon
  <2> QED
    BY <1>2, <2>6, Zenon
<1>3. CASE Tail(w) # <<>>
  <2>1. Len(Tail(w)) \in Nat \ {0}
    BY <1>1, <1>3, EmptySeq
  <2> QED
    BY <1>1, <1>3, <2>1
<1> QED
  BY <1>2, <1>3

LEMMA KnownTail ==
    ASSUME NEW m \in Machines, NEW c \in Conns,
           wire[m][c] \in Seq(Screens), wire[m][c] # <<>>,
           wire'[m][c] = Tail(wire[m][c]), end'[m][c].remote = Head(wire[m][c])
    PROVE  Known(m, c)' = Known(m, c)
BY LastOfTail DEF Known

LEMMA KnownSame ==
    ASSUME NEW m \in Machines, NEW c \in Conns,
           wire'[m][c] = wire[m][c], end'[m][c].remote = end[m][c].remote
    PROVE  Known(m, c)' = Known(m, c)
BY DEF Known

LEMMA ClaimElsewhere ==
    ASSUME Announced, NEW x \in Machines, NEW d \in Conns,
           \A y \in Machines : end'[y][d] = end[y][d], wire'[x][d] = wire[x][d],
           \A y \in Machines : hub'[y].active = d =>
               hub[y].active = d /\ hub'[y].screens = hub[y].screens
    PROVE  Claim(x, d)'
<1>1. Known(x, d)' = Known(x, d)
  BY KnownSame
<1>2. Other(x) \in Machines
  BY Others
<1> QED
  BY <1>1, <1>2 DEF Announced, Claim, Busy, Introduced

(* The end of m reads, and its writer stays as it is. *)
LEMMA ClaimReader ==
    ASSUME Announced, NEW m \in Machines, NEW c \in Conns, Only(m, c),
           hub'[Other(m)] = hub[Other(m)],
           Busy(m, c)' => Busy(m, c) /\ Known(m, c)' = Known(m, c)
    PROVE  Claim(m, c)'
<1>1. Other(m) \in Machines /\ Other(m) # m
  BY Others
<1> QED
  BY <1>1 DEF Announced, Claim, Introduced, Only

LEMMA TwoClaims ==
    ASSUME Announced, NEW m \in Machines, NEW c \in Conns, Only(m, c),
           Claim(m, c)', Claim(Other(m), c)',
           \A x \in Machines, d \in Conns : d # c => wire'[x][d] = wire[x][d],
           \A x \in Machines, d \in Conns : d # c /\ hub'[x].active = d =>
               hub[x].active = d /\ hub'[x].screens = hub[x].screens
    PROVE  Announced'
<1>1. ASSUME NEW x \in Machines, NEW d \in Conns, d # c
      PROVE  Claim(x, d)'
  BY <1>1, ClaimElsewhere DEF Only
<1>2. \A x \in Machines : x = m \/ x = Other(m)
  BY Others DEF Machines, Other
<1>3. \A x \in Machines : Claim(x, c)'
  BY <1>2
<1> QED
  BY <1>1, <1>3, AnnouncedClaims2

(* An end of m that is not in the hub is over. *)
LEMMA OverAnnounced ==
    ASSUME Typed, Announced, NEW m \in Machines, NEW c \in Conns, Over(m, c),
           hub[m].active # c, UNCHANGED hub
    PROVE  Announced'
<1>1. Only(m, c) /\ end'[m][c].pc = "free"
  BY OverOnly
<1>2. \A x \in Machines, d \in Conns : x # m \/ d # c => wire'[x][d] = wire[x][d]
  BY OverTyped
<1>3. Other(m) \in Machines /\ Other(m) # m /\ Other(Other(m)) = m
  BY Others
<1>4. Claim(m, c)'
  BY <1>1 DEF Claim, Busy
<1>5. Claim(Other(m), c)'
  BY <1>1, <1>3 DEF Claim, Introduced
<1> QED
  BY <1>1, <1>2, <1>4, <1>5, TwoClaims

(* The end of m moves on and announces nothing. *)
LEMMA QuietAnnounced ==
    ASSUME Announced, NEW m \in Machines, NEW c \in Conns, Only(m, c),
           UNCHANGED wire, end'[m][c].remote = end[m][c].remote,
           Busy(m, c)' => Busy(m, c), ~Introduced(m, c)',
           \A x \in Machines : hub'[x] = hub[x] \/ (x = m /\ hub'[x].active \notin Conns)
    PROVE  Announced'
<1>1. Other(m) \in Machines /\ Other(m) # m /\ Other(Other(m)) = m
  BY Others
<1>2. Claim(m, c)'
  BY <1>1, KnownSame, ClaimReader
<1>3. Claim(Other(m), c)'
  <2>1. Known(Other(m), c)' = Known(Other(m), c) /\ Busy(Other(m), c)' = Busy(Other(m), c)
    BY <1>1, KnownSame DEF Only, Busy
  <2>2. hub'[m].active = c => hub[m].active = c /\ hub'[m].screens = hub[m].screens
    OBVIOUS
  <2> QED
    BY <1>1, <2>1, <2>2 DEF Claim, Announced
<1> QED
  BY <1>2, <1>3, TwoClaims

LEMMA TaskAnnounced ==
    ASSUME Typed, TableIsWhatRuns, Announced, NEW m \in Machines, NEW c \in Conns,
           TaskStep(m, c)
    PROVE  Announced'
<1>0. /\ Other(m) \in Machines /\ Other(m) # m /\ Other(Other(m)) = m
      /\ Acceptor # Dialer /\ Acceptor \in Machines
      /\ wire \in [Machines -> [Conns -> Seq(Screens)]]
  BY Others DEF Typed, TypeOK
<1>1. CASE m = Acceptor /\ Accept(c)
  <2>1. /\ Only(m, c) /\ end[m][c].pc = "accepted" /\ end'[m][c].pc \in {"hello", "free"}
        /\ UNCHANGED <<hub, wire>>
    BY <1>1, AcceptFx
  <2>2. end'[m][c].pc = "hello" => end'[m][c].remote = end[m][c].remote
    <3>1. CASE hub[Acceptor].on
      BY <1>1, <3>1, AcceptOnly
    <3>2. CASE ~hub[Acceptor].on
      <4>1. Became(Acceptor, c, NoTask)
        BY <1>1, <3>2 DEF Accept, Became
      <4> QED
        BY <1>1, <4>1, OnlyOne, NoTaskIsTask
    <3> QED
      BY <3>1, <3>2
  <2>3. Busy(m, c)' => Busy(m, c) /\ Known(m, c)' = Known(m, c)
    BY <2>1, <2>2, KnownSame DEF Busy
  <2>4. Claim(m, c)'
    BY <2>1, <2>3, ClaimReader
  <2>5. Claim(Other(m), c)'
    <3>1. ~Introduced(m, c)' /\ hub[m].active # c
      BY <1>0, <1>1, <2>1, TableAt DEF Introduced
    <3> QED
      BY <1>0, <2>1, <3>1 DEF Claim
  <2> QED
    BY <2>1, <2>4, <2>5, TwoClaims
<1>2. CASE ReadHello(m, c)
  <2>1. /\ Only(m, c) /\ end'[m][c].pc = "ready" /\ end[m][c].pc = "hello"
        /\ end'[m][c].announced = end[m][c].announced
        /\ end'[m][c].remote = Head(wire[m][c]) /\ wire[m][c] # <<>>
        /\ UNCHANGED hub
    BY <1>2, ReadHelloOnly
  <2>2. \A x \in Machines, d \in Conns :
          wire'[x][d] = IF d = c
                        THEN IF x = m THEN Tail(wire[m][c])
                             ELSE IF m = Acceptor
                             THEN Append(wire[x][d], end[m][c].announced) ELSE wire[x][d]
                        ELSE wire[x][d]
    BY <1>2, ReadHelloOnly
  <2>3. hub[m].active # c /\ end[m][c].announced \in Screens
    BY <2>1, TableAt DEF Typed
  <2>4. Known(m, c)' = Known(m, c)
    BY <1>0, <2>1, <2>2, KnownTail
  <2>5. Claim(m, c)'
    BY <2>1, <2>4, ClaimReader DEF Busy
  <2>6. Claim(Other(m), c)'
    <3>1. Busy(Other(m), c)' => Known(Other(m), c)' = end[m][c].announced
      <4>1. CASE m = Acceptor
        BY <1>0, <2>2, <2>3, <4>1, KnownAppend
      <4>2. CASE m # Acceptor
        <5>1. Introduced(m, c) /\ m = Dialer
          BY <2>1, <4>2 DEF Introduced, Machines
        <5>2. Known(Other(m), c)' = Known(Other(m), c) /\ Busy(Other(m), c)' = Busy(Other(m), c)
          BY <1>0, <2>1, <2>2, <4>2, KnownSame DEF Only, Busy
        <5> QED
          BY <1>0, <5>1, <5>2 DEF Announced
      <4> QED
        BY <4>1, <4>2
    <3> QED
      BY <1>0, <2>1, <2>3, <3>1 DEF Claim
  <2>7. \A x \in Machines, d \in Conns : d # c => wire'[x][d] = wire[x][d]
    BY <2>2
  <2> QED
    BY <2>1, <2>5, <2>6, <2>7, TwoClaims
<1>3. CASE NoHello(m, c) \/ TooLate(m, c) \/ TellDisconnected(m, c)
  <2>1. Over(m, c) /\ end[m][c].pc \notin {"added", "run"} /\ UNCHANGED hub
    BY <1>3 DEF NoHello, TooLate, TellDisconnected
  <2> QED
    BY <2>1, TableAt, OverAnnounced
<1>4. CASE Register(m, c)
  <2>1. /\ Only(m, c) /\ end[m][c].pc = "ready" /\ end'[m][c].pc = "added"
        /\ end'[m][c].remote = end[m][c].remote /\ hub[m].screens \in Screens
        /\ hub'[m].active = c /\ hub'[m].screens = hub[m].screens
        /\ \A x \in Machines : x # m => hub'[x] = hub[x]
    BY <1>4, RegisterOnly
  <2>2. \A x \in Machines, d \in Conns :
          wire'[x][d] = IF x # m /\ d = c /\ hub[m].screens # end[m][c].announced
                        THEN Append(wire[x][d], hub[m].screens) ELSE wire[x][d]
    BY <1>4, RegisterOnly
  <2>3. Known(m, c)' = Known(m, c)
    BY <2>1, <2>2, KnownSame
  <2>4. Claim(m, c)'
    BY <1>0, <2>1, <2>3, ClaimReader DEF Busy
  <2>5. Claim(Other(m), c)'
    <3>1. ~Introduced(m, c)'
      BY <2>1 DEF Introduced
    <3>2. Busy(Other(m), c) => Known(Other(m), c)' = hub[m].screens
      <4>1. CASE hub[m].screens # end[m][c].announced
        <5>1. wire'[Other(m)][c] = Append(wire[Other(m)][c], hub[m].screens)
          BY <1>0, <2>2, <4>1
        <5> QED
          BY <1>0, <2>1, <5>1, KnownAppend
      <4>2. CASE hub[m].screens = end[m][c].announced
        <5>1. Introduced(m, c)
          BY <2>1 DEF Introduced
        <5>2. Known(Other(m), c)' = Known(Other(m), c)
          BY <1>0, <2>1, <2>2, <4>2, KnownSame DEF Only
        <5> QED
          BY <1>0, <4>2, <5>1, <5>2 DEF Announced
      <4> QED
        BY <4>1, <4>2
    <3>3. Busy(Other(m), c)' = Busy(Other(m), c)
      BY <1>0, <2>1 DEF Only, Busy
    <3> QED
      BY <1>0, <2>1, <3>1, <3>2, <3>3 DEF Claim
  <2>6. \A x \in Machines, d \in Conns : d # c => wire'[x][d] = wire[x][d]
    BY <2>2
  <2>7. \A x \in Machines, d \in Conns : d # c /\ hub'[x].active = d =>
           hub[x].active = d /\ hub'[x].screens = hub[x].screens
    BY <2>1
  <2> QED
    BY <2>1, <2>4, <2>5, <2>6, <2>7, TwoClaims
<1>6. CASE TellConnected(m, c)
  <2>1. /\ end' = [end EXCEPT ![m][c].pc = "run"] /\ end[m][c].pc = "added"
        /\ "run" \in Stages /\ UNCHANGED <<hub, wire>>
    BY <1>6 DEF TellConnected, Stages
  <2>2. Only(m, c) /\ end'[m][c].pc = "run" /\ end'[m][c].remote = end[m][c].remote
    BY <2>1, StageOnly
  <2> QED
    BY <2>1, <2>2, QuietAnnounced DEF Busy, Introduced
<1>7. CASE Read(m, c)
  <2>1. /\ Only(m, c) /\ end'[m][c].pc = "run" /\ end[m][c].pc = "run"
        /\ end'[m][c].remote = Head(wire[m][c]) /\ wire[m][c] # <<>>
        /\ UNCHANGED hub
    BY <1>7, ReadOnly
  <2>2. \A x \in Machines, d \in Conns :
          wire'[x][d] = IF d = c /\ x = m THEN Tail(wire[m][c]) ELSE wire[x][d]
    BY <1>7, ReadOnly
  <2>3. Known(m, c)' = Known(m, c)
    BY <1>0, <2>1, <2>2, KnownTail
  <2>4. Claim(m, c)'
    BY <2>1, <2>3, ClaimReader DEF Busy
  <2>5. Claim(Other(m), c)'
    <3>1. ~Introduced(m, c)'
      BY <2>1 DEF Introduced
    <3>2. Known(Other(m), c)' = Known(Other(m), c) /\ Busy(Other(m), c)' = Busy(Other(m), c)
      BY <1>0, <2>1, <2>2, KnownSame DEF Only, Busy
    <3> QED
      BY <1>0, <2>1, <3>1, <3>2 DEF Claim, Announced
  <2>6. \A x \in Machines, d \in Conns : d # c => wire'[x][d] = wire[x][d]
    BY <2>2
  <2> QED
    BY <2>1, <2>4, <2>5, <2>6, TwoClaims
<1>8. CASE Finish(m, c)
  <2>1. CASE hub[m].active = c
    <3>1. /\ end' = [end EXCEPT ![m][c].pc = "removed"] /\ end[m][c].pc = "run"
          /\ "removed" \in Stages /\ UNCHANGED wire /\ hub' = [hub EXCEPT ![m].active = None]
      BY <1>8, <2>1 DEF Finish, Stages
    <3>2. Only(m, c) /\ end'[m][c].pc = "removed" /\ end'[m][c].remote = end[m][c].remote
      BY <3>1, StageOnly
    <3>3. /\ hub'[m].active = None /\ \A x \in Machines : x # m => hub'[x] = hub[x]
          /\ None \notin Conns
      BY <3>1, HubActive, TypedParts, SessionsAssumption
    <3> QED
      BY <3>1, <3>2, <3>3, QuietAnnounced DEF Busy, Introduced
  <2>2. CASE hub[m].active # c
    <3>1. Over(m, c) /\ UNCHANGED hub
      BY <1>8, <2>2 DEF Finish
    <3> QED
      BY <2>2, <3>1, OverAnnounced
  <2> QED
    BY <2>1, <2>2
<1> QED
  BY <1>1, <1>2, <1>3, <1>4, <1>6, <1>7, <1>8 DEF TaskStep

LEMMA NothingAnnounced ==
    ASSUME Announced, UNCHANGED <<hub, end, wire>>
    PROVE  Announced'
<1>1. ASSUME NEW x \in Machines, NEW d \in Conns
      PROVE  Claim(x, d)'
  BY ClaimElsewhere
<1> QED
  BY <1>1, AnnouncedClaims2

LEMMA LoopAnnounced ==
    ASSUME Typed, Announced, NEW l \in Loops, LoopStep(l)
    PROVE  Announced'
<1>1. CASE Connect(l)
  <2>1. PICK c \in Unused : Connected(l, c)
    BY <1>1, Connecting
  <2> DEFINE s == hub[Dialer].screens
  <2>2. /\ c \in Conns /\ \A m \in Machines : hub[m].active # c
        /\ Dialer # Acceptor /\ s \in Screens
    BY <2>1, UnusedFree, Others DEF Connected
  <2>3. /\ UNCHANGED hub
        /\ \A x \in Machines, d \in Conns \ {c} :
              end'[x][d] = end[x][d] /\ wire'[x][d] = wire[x][d]
    BY <2>1 DEF Connected
  <2>4. /\ end'[Dialer][c].announced = s /\ wire'[Acceptor][c] = <<s>>
        /\ end'[Acceptor][c].pc = "accepted"
    BY <2>1 DEF Connected
  <2>5. ASSUME NEW x \in Machines, NEW d \in Conns, d # c
        PROVE  Claim(x, d)'
    BY <2>3, <2>5, ClaimElsewhere
  <2>6. Claim(Dialer, c)'
    <3>1. Other(Dialer) = Acceptor /\ hub'[Acceptor].active # c
      BY <2>2, <2>3 DEF Other, Machines
    <3>2. ~Introduced(Acceptor, c)'
      BY <2>2, <2>4 DEF Introduced
    <3> QED
      BY <3>1, <3>2 DEF Claim
  <2>7. Claim(Acceptor, c)'
    <3>1. <<s>> # <<>> /\ <<s>>[Len(<<s>>)] = s
      OBVIOUS
    <3> HIDE DEF s
    <3>2. Known(Acceptor, c)' = s
      BY <2>4, <3>1 DEF Known
    <3>3. Other(Acceptor) = Dialer /\ hub'[Dialer].active # c
      BY <2>2, <2>3 DEF Other, Machines
    <3> QED
      BY <2>4, <3>2, <3>3 DEF Claim
  <2>8. \A x \in Machines, d \in Conns : Claim(x, d)'
    BY <2>5, <2>6, <2>7 DEF Machines
  <2> QED
    BY <2>8, AnnouncedClaims2
<1>2. CASE Check(l) \/ Refused(l) \/ Wake(l)
  BY <1>2, NothingAnnounced DEF Check, Refused, Wake
<1> QED
  BY <1>1, <1>2 DEF LoopStep

LEMMA UserAnnounced ==
    ASSUME Typed, TableIsWhatRuns, Announced, NEW m \in Machines, UserStep(m)
    PROVE  Announced'
<1>0. /\ Other(m) \in Machines /\ Other(m) # m /\ Other(Other(m)) = m
      /\ \A x \in Machines : x = m \/ x = Other(m)
      /\ None \notin Conns
  BY Others, SessionsAssumption DEF Machines, Other
<1>1. CASE AddPaired(m) \/ Unpair(m)
  BY <1>1, NothingAnnounced DEF AddPaired, Unpair
<1>2. CASE Stop(m)
  <2>1. /\ UNCHANGED wire /\ \A x \in Machines : x # m => hub'[x] = hub[x]
        /\ hub'[m].active = None
        /\ \A x \in Machines, c \in Conns : x # m => end'[x][c] = end[x][c]
        /\ \A c \in Conns : \/ end'[m][c].pc = "free"
                            \/ /\ end'[m][c].pc = end[m][c].pc
                               /\ end'[m][c].announced = end[m][c].announced
                               /\ end'[m][c].remote = end[m][c].remote
    BY <1>2, StopOnly
  <2>2. ASSUME NEW d \in Conns
        PROVE  Claim(m, d)'
    <3>1. CASE end'[m][d].pc = "free"
      BY <3>1 DEF Claim, Busy
    <3>2. CASE end'[m][d].pc = end[m][d].pc /\ end'[m][d].remote = end[m][d].remote
      <4>1. Known(m, d)' = Known(m, d)
        BY <2>1, <3>2, KnownSame
      <4> QED
        BY <1>0, <2>1, <3>2, <4>1 DEF Claim, Announced, Busy, Introduced
    <3> QED
      BY <2>1, <3>1, <3>2
  <2>3. ASSUME NEW d \in Conns
        PROVE  Claim(Other(m), d)'
    <3>1. Known(Other(m), d)' = Known(Other(m), d)
      BY <1>0, <2>1, KnownSame
    <3>2. Introduced(m, d)' =>
             Introduced(m, d) /\ end'[m][d].announced = end[m][d].announced
      BY <2>1 DEF Introduced
    <3>3. Busy(Other(m), d)' = Busy(Other(m), d)
      BY <1>0, <2>1 DEF Busy
    <3> QED
      <4>1. hub'[m].active # d
        BY <1>0, <2>1
      <4>2. Busy(Other(m), d) /\ Introduced(m, d) =>
               Known(Other(m), d) = end[m][d].announced
        BY <1>0 DEF Announced
      <4> QED
        BY <1>0, <3>1, <3>2, <3>3, <4>1, <4>2 DEF Claim
  <2>4. \A x \in Machines, d \in Conns : Claim(x, d)'
    BY <1>0, <2>2, <2>3
  <2> QED
    BY <2>4, AnnouncedClaims2
<1>3. CASE \E s \in Screens : Start(m, s)
  <2>1. /\ UNCHANGED <<end, wire>> /\ hub'[m].active = None
        /\ \A x \in Machines : x # m => hub'[x] = hub[x]
    BY <1>3, StartOnly
  <2>2. ASSUME NEW x \in Machines, NEW d \in Conns
        PROVE  Claim(x, d)'
    BY <1>0, <2>1, ClaimElsewhere
  <2> QED
    BY <2>2, AnnouncedClaims2
<1>4. CASE \E s \in Screens : Update(m, s)
  <2>1. PICK s \in Screens : Update(m, s)
    BY <1>4
  <2>2. /\ UNCHANGED end /\ hub'[m].screens = s /\ hub'[m].active = hub[m].active
        /\ \A x \in Machines : x # m => hub'[x] = hub[x]
        /\ \A x \in Machines, c \in Conns :
             wire'[x][c] = IF x # m /\ c = hub[m].active THEN Append(wire[x][c], s)
                           ELSE wire[x][c]
    BY <2>1, UpdateOnly
  <2>3. ASSUME NEW d \in Conns
        PROVE  Claim(m, d)'
    <3>1. Known(m, d)' = Known(m, d)
      BY <2>2, KnownSame
    <3> QED
      BY <1>0, <2>2, <3>1 DEF Claim, Announced, Busy, Introduced
  <2>4. ASSUME NEW d \in Conns, d = hub[m].active
        PROVE  Claim(Other(m), d)'
    <3>1. wire'[Other(m)][d] = Append(wire[Other(m)][d], s) /\ wire[Other(m)][d] \in Seq(Screens)
      <4>1. wire[Other(m)][d] \in Seq(Screens)
        BY <1>0 DEF Typed, TypeOK
      <4> QED
        BY <1>0, <2>2, <2>4, <4>1
    <3>2. Known(Other(m), d)' = s
      BY <1>0, <3>1, KnownAppend
    <3>3. ~Introduced(m, d)'
      BY <2>2, <2>4, TableAt DEF Introduced
    <3> QED
      BY <1>0, <2>2, <3>2, <3>3 DEF Claim
  <2>5. ASSUME NEW d \in Conns, d # hub[m].active
        PROVE  Claim(Other(m), d)'
    <3>1. Known(Other(m), d)' = Known(Other(m), d)
      BY <1>0, <2>2, <2>5, KnownSame
    <3> QED
      BY <1>0, <2>2, <2>5, <3>1 DEF Claim, Announced, Busy, Introduced
  <2>6. \A x \in Machines, d \in Conns : Claim(x, d)'
    BY <1>0, <2>3, <2>4, <2>5
  <2> QED
    BY <2>6, AnnouncedClaims2
<1> QED
  BY <1>1, <1>2, <1>3, <1>4 DEF UserStep

-----------------------------------------------------------------------------
LEMMA SharedNext ==
    ASSUME Shared, [Next]_vars
    PROVE  Shared'
<1>1. Typed /\ Typed' /\ TableIsWhatRuns /\ Announced
  BY TypedNext DEF Shared
<1>2. TableIsWhatRuns'
  BY <1>1, TableNext
<1>3. Announced'
  <2>1. CASE \E c \in Conns : Break(c)
    BY <1>1, <2>1, NothingAnnounced DEF Break
  <2>2. CASE UNCHANGED vars
    BY <1>1, <2>2, NothingAnnounced DEF vars
  <2>3. CASE \E l \in Loops : LoopStep(l)
    BY <1>1, <2>3, LoopAnnounced
  <2>4. CASE \E m \in Machines, c \in Conns : TaskStep(m, c)
    BY <1>1, <2>4, TaskAnnounced
  <2>5. CASE \E m \in Machines : UserStep(m)
    BY <1>1, <2>5, UserAnnounced
  <2> QED
    BY <2>1, <2>2, <2>3, <2>4, <2>5 DEF Next
<1> QED
  BY <1>1, <1>2, <1>3 DEF Shared

LEMMA SharedInit ==
    ASSUME Init
    PROVE  Shared
<1>1. Typed
  BY TypedInit
<1>2. /\ None \notin Conns
      /\ \A m \in Machines : hub[m].active = None
      /\ \A m \in Machines, c \in Conns : end[m][c].pc = "free"
  BY SessionsAssumption DEF Init, NoTask
<1>3. TableIsWhatRuns
  BY <1>2 DEF TableIsWhatRuns
<1>4. Announced
  BY <1>2 DEF Announced, Busy
<1> QED
  BY <1>1, <1>3, <1>4 DEF Shared

(***************************************************************************)
(* The types of the session state, however many connections are open: what *)
(* session.rs relies on where it takes a peer's hub entry or a task.       *)
(***************************************************************************)
THEOREM Types == Spec => []TypeOK
<1>1. Spec => []Shared
  <2> QED
    BY SharedInit, SharedNext, PTL DEF Spec
<1>2. Shared => TypeOK
  BY DEF Shared, Typed
<1> QED
  BY <1>1, <1>2, PTL

(***************************************************************************)
(* The active table of session.rs (Hub) is what runs: a session in it has  *)
(* a task, and a task that left it has lost its connection.                *)
(***************************************************************************)
THEOREM TableRight == Spec => []TableIsWhatRuns
<1>1. Spec => []Shared
  BY SharedInit, SharedNext, PTL DEF Spec
<1>2. Shared => TableIsWhatRuns
  BY DEF Shared
<1> QED
  BY <1>1, <1>2, PTL

(***************************************************************************)
(* Displays that change while a session is set up or runs reach the other  *)
(* machine (session.rs: run compares the screens with those of the hello   *)
(* as it enters the hub, update_screens tells the session it finds there). *)
(***************************************************************************)
THEOREM ScreensKnown == Spec => []ScreensArrive
<1>1. Spec => []Shared
  BY SharedInit, SharedNext, PTL DEF Spec
<1>2. ASSUME Shared
      PROVE  ScreensArrive
  <2> SUFFICES ASSUME NEW c \in Conns, \A m \in Machines : hub[m].active = c,
                      NEW m \in Machines, wire[m][c] = <<>>
               PROVE  end[m][c].remote = hub[Other(m)].screens
    BY DEF ScreensArrive
  <2>1. end[m][c].pc \in {"added", "run"} /\ hub[Other(m)].active = c
    BY <1>2, TableAt, Others DEF Shared
  <2>2. Known(m, c) = hub[Other(m)].screens
    BY <1>2, <2>1 DEF Shared, Announced, Busy
  <2> QED
    BY <2>2 DEF Known
<1> QED
  BY <1>1, <1>2, PTL

-----------------------------------------------------------------------------
(* One loop and one connection, action by action. *)
LEMMA OneBusy ==
    ASSUME OneLoop, NEW c \in Conns, NEW d \in Conns, Busy(Dialer, c), Busy(Dialer, d)
    PROVE  c = d
BY DEF OneLoop

LEMMA OneLoopKeeps ==
    ASSUME OneLoop, UNCHANGED loop, \A c \in Conns : Busy(Dialer, c)' => Busy(Dialer, c)
    PROVE  OneLoop'
BY DEF OneLoop

(* A loop starts where none runs, or moves on and does not dial. *)
LEMMA SpawnOne ==
    ASSUME Typed, OneLoop, \A l \in Loops : loop[l].pc = "off", Spawn(Dialer),
           UNCHANGED end
    PROVE  OneLoop'
<1> DEFINE Free == {l \in Loops : loop[l] = NoLoop}
           k == CHOOSE l \in Free : TRUE
<1>1. k \in Free /\ loop' = [loop EXCEPT ![k].pc = "check"]
  BY DEF Spawn
<1>2. k \in Loops
  BY <1>1
<1> HIDE DEF k
<1>3. \A l \in Loops : l # k => loop'[l] = loop[l]
  BY <1>1, <1>2 DEF Typed, TypeOK
<1>4. \A l \in Loops : l # k => loop'[l].pc = "off"
  BY <1>3
<1>5. \A c \in Conns : ~Busy(Dialer, c)
  BY DEF OneLoop
<1>6. \A c \in Conns : ~Busy(Dialer, c)'
  BY <1>5 DEF Busy
<1> QED
  BY <1>4, <1>6 DEF OneLoop

LEMMA MovesOne ==
    ASSUME OneLoop, NEW l \in Loops, loop[l].pc \in {"check", "sleep"},
           \A k \in Loops : k # l => loop'[k] = loop[k],
           UNCHANGED end
    PROVE  OneLoop'
<1>1. \A c \in Conns : Busy(Dialer, c)' = Busy(Dialer, c)
  BY DEF Busy
<1>2. \A k \in Loops : k # l => loop[k].pc = "off"
  BY DEF OneLoop
<1>3. \A k \in Loops : k # l => loop'[k].pc = "off"
  BY <1>2
<1>4. \A c \in Conns : ~Busy(Dialer, c)
  BY <1>2 DEF OneLoop
<1> QED
  BY <1>1, <1>3, <1>4 DEF OneLoop

LEMMA LoopOne ==
    ASSUME Typed, OneLoop, NEW l \in Loops, LoopStep(l)
    PROVE  OneLoop'
<1>1. CASE Check(l) \/ Refused(l) \/ Wake(l)
  <2>1. /\ loop[l].pc \in {"check", "sleep"} /\ UNCHANGED end
        /\ \A k \in Loops : k # l => loop'[k] = loop[k]
    BY <1>1 DEF Check, Refused, Wake, Typed, TypeOK
  <2> QED
    BY <2>1, MovesOne
<1>2. CASE Connect(l)
  <2>1. PICK c \in Unused : Connected(l, c)
    BY <1>2, Connecting
  <2>2. loop[l].pc = "check" /\ c \in Conns /\ Dialer \in Machines
    BY <1>2, Connecting, UnusedFree, Others
  <2>3. /\ loop' = [loop EXCEPT ![l] = [pc |-> "dial", conn |-> c]]
        /\ \A d \in Conns \ {c} : end'[Dialer][d] = end[Dialer][d]
    BY <2>1, <2>2 DEF Connected
  <2>4. \A k \in Loops : k # l => loop[k].pc = "off"
    BY <2>2 DEF OneLoop
  <2>5. \A d \in Conns : ~Busy(Dialer, d)
    BY <2>2, <2>4 DEF OneLoop
  <2>6. /\ loop'[l].pc = "dial" /\ loop'[l].conn = c
        /\ \A k \in Loops : k # l => loop'[k].pc = "off"
    BY <2>3, <2>4 DEF Typed, TypeOK
  <2>7. \A d \in Conns : Busy(Dialer, d)' => d = c
    BY <2>3, <2>5 DEF Busy
  <2> QED
    BY <2>6, <2>7 DEF OneLoop
<1> QED
  BY <1>1, <1>2 DEF LoopStep

LEMMA UserOne ==
    ASSUME Typed, OneLoop, NotWhileDialling, NEW m \in Machines, UserStep(m)
    PROVE  OneLoop'
<1>1. CASE AddPaired(m)
  <2>1. CASE m = Dialer /\ hub[m].on
    <3>1. Spawn(Dialer) /\ UNCHANGED end /\ \A l \in Loops : loop[l].pc = "off"
      BY <1>1, <2>1 DEF AddPaired, NotWhileDialling
    <3> QED
      BY <3>1, SpawnOne
  <2>2. CASE ~(m = Dialer /\ hub[m].on)
    <3>1. UNCHANGED <<loop, end>>
      BY <1>1, <2>2 DEF AddPaired, Spawn
    <3> QED
      BY <3>1, OneLoopKeeps DEF Busy
  <2> QED
    BY <2>1, <2>2
<1>2. CASE Unpair(m)
  BY <1>2, OneLoopKeeps DEF Unpair, Busy
<1>3. CASE Stop(m)
  <2>1. CASE m = Dialer
    <3>1. \A c \in Conns : ~Busy(Dialer, c)'
      BY <1>3, <2>1, StopOnly DEF Busy
    <3>2. \A l \in Loops : loop'[l].pc = "off"
      BY <1>3, <2>1, NoTaskIsTask DEF Stop
    <3> QED
      BY <3>1, <3>2 DEF OneLoop
  <2>2. CASE m # Dialer
    <3>1. UNCHANGED loop
      BY <1>3, <2>2 DEF Stop
    <3>2. \A c \in Conns : end'[Dialer][c] = end[Dialer][c]
      BY <1>3, <2>2, StopOnly, Others
    <3> QED
      BY <3>1, <3>2, OneLoopKeeps DEF Busy
  <2> QED
    BY <2>1, <2>2
<1>4. CASE \E s \in Screens : Start(m, s)
  <2>1. UNCHANGED end
    BY <1>4, StartOnly
  <2>2. CASE m = Dialer /\ paired[m]
    <3>1. Spawn(Dialer) /\ ~hub[Dialer].on
      BY <1>4, <2>2 DEF Start
    <3>2. \A l \in Loops : loop[l].pc = "off"
      BY <3>1 DEF Typed
    <3> QED
      BY <2>1, <3>1, <3>2, SpawnOne
  <2>3. CASE ~(m = Dialer /\ paired[m])
    <3>1. UNCHANGED loop
      BY <1>4, <2>3 DEF Start, Spawn
    <3> QED
      BY <2>1, <3>1, OneLoopKeeps DEF Busy
  <2> QED
    BY <2>2, <2>3
<1>5. CASE \E s \in Screens : Update(m, s)
  BY <1>5, OneLoopKeeps, UpdateOnly DEF Busy
<1> QED
  BY <1>1, <1>2, <1>3, <1>4, <1>5 DEF UserStep

(* What the task of one end does to the loops, and to its own use. *)
LEMMA TaskLoops ==
    ASSUME Typed, NEW m \in Machines, NEW c \in Conns, TaskStep(m, c)
    PROVE  /\ Only(m, c) /\ end[m][c].pc # "free"
           /\ \/ UNCHANGED loop
              \/ m = Dialer /\ loop' = Slept(loop, c) /\ end'[m][c].pc = "free"
<1>1. CASE m = Acceptor /\ Accept(c)
  BY <1>1, AcceptFx
<1>2. CASE ReadHello(m, c)
  BY <1>2, ReadHelloOnly
<1>3. CASE NoHello(m, c) \/ TooLate(m, c) \/ TellDisconnected(m, c)
  <2>1. Over(m, c) /\ end[m][c].pc # "free"
    BY <1>3 DEF NoHello, TooLate, TellDisconnected
  <2>2. loop' = IF m = Dialer THEN Slept(loop, c) ELSE loop
    BY <2>1 DEF Over
  <2> QED
    BY <2>1, <2>2, OverOnly
<1>4. CASE Register(m, c)
  BY <1>4, RegisterOnly
<1>6. CASE TellConnected(m, c)
  <2>1. /\ end' = [end EXCEPT ![m][c].pc = "run"] /\ end[m][c].pc = "added"
        /\ "run" \in Stages /\ UNCHANGED loop
    BY <1>6 DEF TellConnected, Stages
  <2> QED
    BY <2>1, StageOnly
<1>7. CASE Read(m, c)
  BY <1>7, ReadOnly
<1>8. CASE Finish(m, c)
  <2>1. CASE hub[m].active = c
    <3>1. /\ end' = [end EXCEPT ![m][c].pc = "removed"] /\ end[m][c].pc = "run"
          /\ "removed" \in Stages /\ UNCHANGED loop
      BY <1>8, <2>1 DEF Finish, Stages
    <3> QED
      BY <3>1, StageOnly
  <2>2. CASE hub[m].active # c
    <3>1. Over(m, c) /\ end[m][c].pc # "free"
      BY <1>8, <2>2 DEF Finish
    <3>2. loop' = IF m = Dialer THEN Slept(loop, c) ELSE loop
      BY <3>1 DEF Over
    <3> QED
      BY <3>1, <3>2, OverOnly
  <2> QED
    BY <2>1, <2>2
<1> QED
  BY <1>1, <1>2, <1>3, <1>4, <1>6, <1>7, <1>8 DEF TaskStep

LEMMA TaskOne ==
    ASSUME Typed, OneLoop, NEW m \in Machines, NEW c \in Conns, TaskStep(m, c)
    PROVE  OneLoop'
<1>1. Only(m, c) /\ end[m][c].pc # "free"
  BY TaskLoops
<1>2. \A d \in Conns : Busy(Dialer, d)' => Busy(Dialer, d)
  BY <1>1, Others DEF Only, Busy
<1>3. CASE UNCHANGED loop
  BY <1>2, <1>3, OneLoopKeeps
<1>4. CASE m = Dialer /\ loop' = Slept(loop, c) /\ end'[m][c].pc = "free"
  <2>1. /\ \A l \in Loops : loop'[l].pc # "off" => loop[l].pc # "off"
        /\ \A l \in Loops : loop[l].conn # c => loop'[l] = loop[l]
    BY <1>4, SleptLoops
  <2>2. \A d \in Conns : ~Busy(Dialer, d)'
    BY <1>1, <1>2, <1>4, OneBusy DEF Busy
  <2> QED
    BY <2>1, <2>2 DEF OneLoop
<1> QED
  BY <1>3, <1>4, TaskLoops

LEMMA OneLoopNext ==
    ASSUME Typed, OneLoop, [Next]_vars, NotWhileDialling
    PROVE  OneLoop'
<1>1. CASE \E c \in Conns : Break(c)
  BY <1>1, OneLoopKeeps DEF Break, Busy
<1>2. CASE UNCHANGED vars
  BY <1>2, OneLoopKeeps DEF vars, Busy
<1>3. CASE \E l \in Loops : LoopStep(l)
  BY <1>3, LoopOne
<1>4. CASE \E m \in Machines, c \in Conns : TaskStep(m, c)
  BY <1>4, TaskOne
<1>5. CASE \E m \in Machines : UserStep(m)
  BY <1>5, UserOne
<1> QED
  BY <1>1, <1>2, <1>3, <1>4, <1>5 DEF Next

-----------------------------------------------------------------------------
(* What the run loop of the machine that dials hears, action by action. *)
ToldAt(c) ==
    LET pc == end[Dialer][c].pc IN
    /\ pc \in {"added", "run"} => hub[Dialer].active = c
    /\ pc = "run" => told[Dialer] = c
    /\ pc \in Live => end[Dialer][c].heard

LEMMA ToldParts ==
    Told <=> /\ told[Dialer] # None => end[Dialer][told[Dialer]].pc \in {"run", "removed"}
             /\ \A c \in Conns : ToldAt(c)
BY DEF Told, ToldAt, Live

LEMMA ToldParts2 ==
    Told' <=> /\ told'[Dialer] # None => end'[Dialer][told'[Dialer]].pc \in {"run", "removed"}
              /\ \A c \in Conns : ToldAt(c)'
BY DEF Told, ToldAt, Live

LEMMA ToldSame ==
    ASSUME Typed, Told, told'[Dialer] = told[Dialer],
           hub'[Dialer].active = hub[Dialer].active,
           \A c \in Conns : end'[Dialer][c] = end[Dialer][c]
    PROVE  Told'
<1>1. told[Dialer] # None => told[Dialer] \in Conns
  BY Others DEF Typed, TypeOK
<1> QED
  BY <1>1 DEF Told

(* The end that moves is the only one: it suffices to look at it. *)
LEMMA ToldOne ==
    ASSUME Typed, OneLoop, NEW c \in Conns, Only(Dialer, c), Busy(Dialer, c),
           told'[Dialer] # None =>
               told'[Dialer] = c /\ end'[Dialer][c].pc \in {"run", "removed"},
           ToldAt(c)'
    PROVE  Told'
<1>1. \A d \in Conns : d # c => end'[Dialer][d].pc = "free"
  BY OneBusy, Others DEF Only, Busy
<1>2. \A d \in Conns : d # c => ToldAt(d)'
  BY <1>1 DEF ToldAt, Live
<1>3. \A d \in Conns : ToldAt(d)'
  BY <1>2
<1> QED
  BY <1>3, ToldParts2

LEMMA ToldIt ==
    ASSUME Typed, OneLoop, Told, NEW c \in Conns, Busy(Dialer, c), told[Dialer] # None
    PROVE  told[Dialer] = c /\ end[Dialer][c].pc \in {"run", "removed"}
<1>1. told[Dialer] \in Conns /\ end[Dialer][told[Dialer]].pc \in {"run", "removed"}
  BY Others, ToldParts DEF Typed, TypeOK
<1> QED
  BY <1>1, OneBusy DEF Busy

LEMMA DialerTold ==
    ASSUME Typed, TableIsWhatRuns, OneLoop, Told, NEW c \in Conns, TaskStep(Dialer, c)
    PROVE  Told'
<1>0. /\ Dialer \in Machines /\ Dialer # Acceptor /\ None \notin Conns
      /\ Only(Dialer, c) /\ Busy(Dialer, c) /\ ToldAt(c)
      /\ told \in [Machines -> Conns \cup {None}]
  BY Others, SessionsAssumption, TaskLoops, ToldParts DEF Busy, Typed, TypeOK
<1>2. CASE ReadHello(Dialer, c)
  <2>1. end'[Dialer][c].pc = "ready" /\ end[Dialer][c].pc = "hello" /\ UNCHANGED told
    BY <1>0, <1>2, ReadHelloOnly
  <2>2. told'[Dialer] = None
    BY <1>0, <2>1, ToldIt
  <2>3. ToldAt(c)'
    BY <2>1 DEF ToldAt, Live
  <2> QED
    BY <1>0, <2>2, <2>3, ToldOne
<1>3. CASE NoHello(Dialer, c) \/ TooLate(Dialer, c)
  <2>1. Over(Dialer, c) /\ end[Dialer][c].pc \in {"hello", "ready"} /\ UNCHANGED told
    BY <1>3 DEF NoHello, TooLate
  <2>2. told'[Dialer] = None /\ end'[Dialer][c].pc = "free"
    BY <1>0, <2>1, ToldIt, OverOnly
  <2>3. ToldAt(c)'
    BY <2>2 DEF ToldAt, Live
  <2> QED
    BY <1>0, <2>2, <2>3, ToldOne
<1>4. CASE Register(Dialer, c)
  <2>1. /\ end'[Dialer][c].pc = "added" /\ end[Dialer][c].pc = "ready" /\ UNCHANGED told
        /\ hub'[Dialer].active = c /\ end'[Dialer][c].heard
    BY <1>0, <1>4, RegisterOnly
  <2>2. told'[Dialer] = None
    BY <1>0, <2>1, ToldIt
  <2>3. ToldAt(c)'
    BY <2>1 DEF ToldAt, Live
  <2> QED
    BY <1>0, <2>2, <2>3, ToldOne
<1>5. CASE TellConnected(Dialer, c)
  <2>1. /\ end' = [end EXCEPT ![Dialer][c].pc = "run"] /\ end[Dialer][c].pc = "added"
        /\ "run" \in Stages /\ UNCHANGED hub
    BY <1>5 DEF TellConnected, Stages
  <2>2. end'[Dialer][c].pc = "run" /\ end'[Dialer][c].heard = end[Dialer][c].heard
    BY <1>0, <2>1, StageOnly
  <2>3. end[Dialer][c].heard /\ hub[Dialer].active = c
    BY <1>0, <2>1 DEF ToldAt, Live
  <2>4. told' = [told EXCEPT ![Dialer] = c]
    BY <1>5, <2>3 DEF TellConnected
  <2>5. told'[Dialer] = c
    BY <1>0, <2>4
  <2>6. ToldAt(c)'
    BY <2>1, <2>2, <2>3, <2>5 DEF ToldAt
  <2> QED
    BY <1>0, <2>2, <2>5, <2>6, ToldOne
<1>6. CASE Read(Dialer, c)
  <2>1. /\ end'[Dialer][c].pc = "run" /\ end[Dialer][c].pc = "run" /\ UNCHANGED <<told, hub>>
        /\ end'[Dialer][c].heard = end[Dialer][c].heard
    BY <1>0, <1>6, ReadOnly
  <2>2. ToldAt(c)'
    BY <1>0, <2>1 DEF ToldAt, Live
  <2>3. told'[Dialer] = c
    BY <1>0, <2>1 DEF ToldAt
  <2> QED
    BY <1>0, <2>1, <2>2, <2>3, ToldOne
<1>7. CASE Finish(Dialer, c)
  <2>1. end[Dialer][c].pc = "run" /\ UNCHANGED told
    BY <1>7 DEF Finish
  <2>2. hub[Dialer].active = c /\ told[Dialer] = c /\ end[Dialer][c].heard
    BY <1>0, <2>1 DEF ToldAt, Live
  <2>3. end' = [end EXCEPT ![Dialer][c].pc = "removed"] /\ "removed" \in Stages
    BY <1>7, <2>2 DEF Finish, Stages
  <2>4. end'[Dialer][c].pc = "removed" /\ end'[Dialer][c].heard = end[Dialer][c].heard
    BY <1>0, <2>3, StageOnly
  <2>5. ToldAt(c)'
    BY <2>2, <2>4 DEF ToldAt, Live
  <2> QED
    BY <1>0, <2>1, <2>2, <2>4, <2>5, ToldOne
<1>8. CASE TellDisconnected(Dialer, c)
  <2>1. Over(Dialer, c) /\ end[Dialer][c].pc = "removed"
    BY <1>8 DEF TellDisconnected
  <2>2. end[Dialer][c].heard
    BY <1>0, <2>1 DEF ToldAt, Live
  <2>3. told' = [told EXCEPT ![Dialer] = None]
    BY <1>8, <2>2 DEF TellDisconnected
  <2>4. told'[Dialer] = None /\ end'[Dialer][c].pc = "free"
    BY <1>0, <2>1, <2>3, OverOnly
  <2>5. ToldAt(c)'
    BY <2>4 DEF ToldAt, Live
  <2> QED
    BY <1>0, <2>4, <2>5, ToldOne
<1> QED
  BY <1>0, <1>2, <1>3, <1>4, <1>5, <1>6, <1>7, <1>8 DEF TaskStep

LEMMA AcceptorTold ==
    ASSUME Typed, Told, NEW c \in Conns, TaskStep(Acceptor, c)
    PROVE  Told'
<1>0. /\ Dialer \in Machines /\ Acceptor \in Machines /\ Dialer # Acceptor
      /\ \A d \in Conns : end'[Dialer][d] = end[Dialer][d]
  BY Others, TaskLoops DEF Only
<1>1. hub'[Dialer] = hub[Dialer] /\ told'[Dialer] = told[Dialer]
  BY <1>0 DEF TaskStep, Accept, ReadHello, NoHello, Register, TooLate, TellConnected, Read,
              Finish, TellDisconnected, Typed, TypeOK
<1> QED
  BY <1>0, <1>1, ToldSame

LEMMA LoopTold ==
    ASSUME Typed, Told, NEW l \in Loops, LoopStep(l)
    PROVE  Told'
<1>0. Dialer \in Machines
  BY Others
<1>1. CASE Check(l) \/ Refused(l) \/ Wake(l)
  BY <1>1, ToldSame DEF Check, Refused, Wake
<1>2. CASE Connect(l)
  <2>1. PICK c \in Unused : Connected(l, c)
    BY <1>2, Connecting
  <2>2. c \in Conns /\ told[Dialer] # c
    BY <1>0, <2>1, UnusedFree
  <2>3. /\ UNCHANGED <<hub, told>> /\ end'[Dialer][c].pc = "hello"
        /\ \A d \in Conns \ {c} : end'[Dialer][d] = end[Dialer][d]
    BY <1>0, <2>1 DEF Connected
  <2>4. \A d \in Conns : ToldAt(d)'
    BY <2>3, ToldParts DEF ToldAt, Live
  <2>5. told[Dialer] # None => told[Dialer] \in Conns
    BY <1>0 DEF Typed, TypeOK
  <2>6. told'[Dialer] # None => end'[Dialer][told'[Dialer]].pc \in {"run", "removed"}
    BY <2>2, <2>3, <2>5, ToldParts
  <2> QED
    BY <2>4, <2>6, ToldParts2
<1> QED
  BY <1>1, <1>2 DEF LoopStep

LEMMA UserTold ==
    ASSUME Typed, Told, NEW m \in Machines, UserStep(m)
    PROVE  Told'
<1>0. Dialer \in Machines
  BY Others
<1>1. CASE AddPaired(m) \/ Unpair(m)
  BY <1>1, ToldSame DEF AddPaired, Unpair
<1>2. CASE Stop(m)
  <2>1. CASE m = Dialer
    <3>1. told'[Dialer] = None /\ \A c \in Conns : end'[Dialer][c].pc = "free"
      BY <1>0, <1>2, <2>1, StopOnly
    <3>2. \A c \in Conns : ToldAt(c)'
      BY <3>1 DEF ToldAt, Live
    <3> QED
      BY <3>1, <3>2, ToldParts2
  <2>2. CASE m # Dialer
    <3>1. /\ told'[Dialer] = told[Dialer] /\ hub'[Dialer] = hub[Dialer]
          /\ \A c \in Conns : end'[Dialer][c] = end[Dialer][c]
      BY <1>0, <1>2, <2>2, StopOnly
    <3> QED
      BY <3>1, ToldSame
  <2> QED
    BY <2>1, <2>2
<1>3. CASE \E s \in Screens : Start(m, s)
  <2>1. UNCHANGED <<end, told>> /\ hub'[Dialer].active = hub[Dialer].active
    BY <1>0, <1>3, StartOnly
  <2> QED
    BY <2>1, ToldSame
<1>4. CASE \E s \in Screens : Update(m, s)
  <2>1. UNCHANGED <<end, told>> /\ hub'[Dialer].active = hub[Dialer].active
    BY <1>0, <1>4, UpdateOnly
  <2> QED
    BY <2>1, ToldSame
<1> QED
  BY <1>1, <1>2, <1>3, <1>4 DEF UserStep

LEMMA ToldNext ==
    ASSUME Typed, TableIsWhatRuns, OneLoop, Told, [Next]_vars
    PROVE  Told'
<1>1. CASE \E c \in Conns : Break(c)
  BY <1>1, ToldSame DEF Break
<1>2. CASE UNCHANGED vars
  BY <1>2, ToldSame DEF vars
<1>3. CASE \E l \in Loops : LoopStep(l)
  BY <1>3, LoopTold
<1>4. CASE \E m \in Machines, c \in Conns : TaskStep(m, c)
  BY <1>4, DialerTold, AcceptorTold DEF Machines
<1>5. CASE \E m \in Machines : UserStep(m)
  BY <1>5, UserTold
<1> QED
  BY <1>1, <1>2, <1>3, <1>4, <1>5 DEF Next

-----------------------------------------------------------------------------
LEMMA AloneInit ==
    ASSUME Init
    PROVE  Alone
<1>1. Shared
  BY SharedInit
<1>2. /\ told[Dialer] = None
      /\ \A l \in Loops : loop[l].pc = "off"
      /\ \A c \in Conns : end[Dialer][c].pc = "free"
  BY Others DEF Init, NoTask, NoLoop
<1>3. OneLoop
  BY <1>2 DEF OneLoop, Busy
<1>4. Told
  BY <1>2, ToldParts DEF ToldAt, Live
<1> QED
  BY <1>1, <1>3, <1>4 DEF Alone

LEMMA AloneNext ==
    ASSUME Alone, [Next]_vars, [NotWhileDialling]_vars
    PROVE  Alone'
<1>1. Shared /\ Typed /\ TableIsWhatRuns /\ OneLoop /\ Told
  BY DEF Alone, Shared
<1>2. CASE UNCHANGED vars
  <2>1. OneLoop'
    BY <1>1, <1>2, OneLoopKeeps DEF vars, Busy
  <2> QED
    BY <1>1, <2>1, SharedNext, ToldNext DEF Alone
<1>3. CASE NotWhileDialling
  BY <1>1, <1>3, SharedNext, OneLoopNext, ToldNext DEF Alone
<1> QED
  BY <1>2, <1>3

(***************************************************************************)
(* The machine that dials has one connection at most (session.rs: dial and *)
(* dial_loop), provided a pairing is not saved again while a dial loop for *)
(* it runs: each saving spawns a loop of its own.                          *)
(***************************************************************************)
THEOREM OneAtMost == Spec /\ [][NotWhileDialling]_vars => []OneConnection
<1>1. Spec /\ [][NotWhileDialling]_vars => []Alone
  BY AloneInit, AloneNext, PTL DEF Spec
<1>2. ASSUME Alone
      PROVE  OneConnection
  <2> DEFINE B == {c \in Conns : Busy(Dialer, c)}
  <2>1. \A c, d \in B : c = d
    BY <1>2, OneBusy DEF Alone
  <2>2. CASE B = {}
    BY <2>2, FS_EmptySet DEF OneConnection
  <2>3. CASE B # {}
    <3>1. PICK c \in B : B = {c}
      BY <2>1, <2>3
    <3>2. Cardinality({c}) = 1
      BY FS_Singleton
    <3> QED
      BY <3>1, <3>2 DEF OneConnection
  <2> QED
    BY <2>2, <2>3
<1> QED
  BY <1>1, <1>2, PTL

(***************************************************************************)
(* Between its dial loop's steps the run loop of the machine that dials    *)
(* believes of its peer what the hub holds: SessionEvent::Connected and    *)
(* Disconnected reach it in the order of the sessions, though the hub's    *)
(* lock is let go before they are sent.                                    *)
(***************************************************************************)
THEOREM ToldInOrder == Spec /\ [][NotWhileDialling]_vars => []DialerToldRight
<1>1. Spec /\ [][NotWhileDialling]_vars => []Alone
  BY AloneInit, AloneNext, PTL DEF Spec
<1>2. ASSUME Alone
      PROVE  DialerToldRight
  <2> SUFFICES ASSUME \A c \in Conns : end[Dialer][c].pc \notin {"added", "removed"}
               PROVE  told[Dialer] = hub[Dialer].active
    BY DEF DialerToldRight
  <2>1. /\ Dialer \in Machines /\ told[Dialer] \in Conns \cup {None}
        /\ hub[Dialer].active \in Conns \cup {None}
        /\ Told /\ TableIsWhatRuns
    BY <1>2, Others DEF Alone, Shared, Typed, TypeOK, HubType
  <2>2. CASE told[Dialer] # None
    <3>1. told[Dialer] \in Conns /\ end[Dialer][told[Dialer]].pc = "run"
      BY <2>1, <2>2, ToldParts
    <3> QED
      BY <2>1, <3>1, ToldParts DEF ToldAt
  <2>3. CASE told[Dialer] = None /\ hub[Dialer].active # None
    <3>1. hub[Dialer].active \in Conns /\ end[Dialer][hub[Dialer].active].pc = "run"
      BY <2>1, <2>3, TableAt
    <3> QED
      BY <2>1, <3>1, ToldParts DEF ToldAt
  <2> QED
    BY <2>2, <2>3
<1> QED
  BY <1>1, <1>2, PTL
=============================================================================
