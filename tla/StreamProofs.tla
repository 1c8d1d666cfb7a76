---------------------------- MODULE StreamProofs -----------------------------
(***************************************************************************)
(* Proofs about a display's video stream, for queues and networks of any   *)
(* depth and however many pictures, errors and changes of size.            *)
(***************************************************************************)
EXTENDS Stream, SequenceTheorems, TLAPS

Frames == [n : Nat, pts : Nat, key : BOOLEAN, ref : Nat, track : Tracks]
Pictures == [n : Nat, size : Nat, big : BOOLEAN]
EncoderType == [last : Nat, flight : Frames, overlap : BOOLEAN]
QueueType == [frames : Seq(Frames), needs : BOOLEAN]
SenderType == [pc : {"idle", "sending", "sent"}, frame : Frames]
ViewerType == [synced : BOOLEAN, last : Nat, hardware : BOOLEAN]
PipelineType == [policy : Policy, last : Pictures, size : Nat]

(* What the Mac's side of the stream is made of, and the rest. *)
Captured == [n : Nat, size : Nat, fits : BOOLEAN]

MacTyped ==
    /\ pipe \in [now : PipelineType, pts : Nat]
    /\ enc \in [Tracks -> EncoderType]
    /\ queue \in [Tracks -> QueueType]
    /\ backlogged \in [Tracks -> BOOLEAN]
    /\ \A t \in Tracks : Len(queue[t].frames) <= Backlog /\ enc[t].flight.pts <= pipe.pts

WayTyped ==
    /\ captured \in Captured
    /\ inbox \in Pictures
    /\ sender \in [Tracks -> SenderType]
    /\ wire \in [Tracks -> Seq(Frames)]
    /\ viewer \in [Tracks -> ViewerType]
    /\ asked \in Seq(Tracks)
    /\ \A t \in Tracks : Len(wire[t]) <= Window
    /\ inbox.n <= captured.n /\ pipe.now.last.n <= captured.n

Typed == MacTyped /\ WayTyped

-----------------------------------------------------------------------------
(***************************************************************************)
(* The frames of a track, from the decoder back to the encoder, each after *)
(* the one it was encoded after.  A point on the way is the timestamp of   *)
(* the frame before it; Any stands for a decoder that waits for a keyframe *)
(* and takes no other frame.                                               *)
(***************************************************************************)
Any == -1

Fits(x, f) == f.key \/ x = Any \/ f.ref = x

Chain(x, s) == \A i \in 1..Len(s) : Fits(IF i = 1 THEN x ELSE s[i - 1].pts, s[i])

EndOf(x, s) == IF s = <<>> THEN x ELSE s[Len(s)].pts

AtViewer(t) == IF viewer[t].synced THEN viewer[t].last ELSE Any

AtWire(t) == EndOf(AtViewer(t), wire[t])

AtSender(t) == IF sender[t].pc = "sending" THEN sender[t].frame.pts ELSE AtWire(t)

(* The encoder's last frame is the one in flight; unless a keyframe is     *)
(* needed anyway the next to be queued goes where the queue ends.          *)
Fed(c, q, e) ==
    /\ Chain(c, q.frames)
    /\ e.flight # NoFrame => e.last = e.flight.pts
    /\ ~q.needs => IF e.flight # NoFrame THEN Fits(EndOf(c, q.frames), e.flight)
                   ELSE e.last = 0 \/ EndOf(c, q.frames) \in {Any, e.last}

Carried(t) ==
    /\ Chain(AtViewer(t), wire[t])
    /\ sender[t].pc = "sending" => Fits(AtWire(t), sender[t].frame)

Unbroken(t) == Carried(t) /\ Fed(AtSender(t), queue[t], enc[t])

IInv == Typed /\ \A t \in Tracks : Unbroken(t)

-----------------------------------------------------------------------------
(* Sequences of frames. *)
LEMMA NoneLong == Len(<<>>) = 0
BY EmptySeq

LEMMA SeqFacts ==
    ASSUME NEW s \in Seq(Frames)
    PROVE  /\ Len(s) \in Nat /\ \A i \in 1..Len(s) : s[i] \in Frames
           /\ s # <<>> => /\ Len(s) \in Nat \ {0} /\ Head(s) = s[1] /\ Head(s) \in Frames
                          /\ Tail(s) \in Seq(Frames) /\ Len(Tail(s)) = Len(s) - 1
                          /\ \A i \in 1..Len(Tail(s)) : Tail(s)[i] = s[i + 1]
BY EmptySeq, HeadTailProperties, ElementOfSeq, LenProperties

LEMMA ChainTail ==
    ASSUME NEW s \in Seq(Frames), s # <<>>, NEW x, Chain(x, s)
    PROVE  /\ Fits(x, Head(s)) /\ Chain(Head(s).pts, Tail(s))
           /\ EndOf(Head(s).pts, Tail(s)) = EndOf(x, s)
<1> DEFINE h == Head(s)
           r == Tail(s)
<1>1. /\ Len(s) \in Nat \ {0} /\ h = s[1] /\ r \in Seq(Frames) /\ Len(r) = Len(s) - 1
      /\ \A i \in 1..Len(r) : r[i] = s[i + 1]
  BY SeqFacts
<1>2. \A i \in 1..Len(s) : Fits(IF i = 1 THEN x ELSE s[i - 1].pts, s[i])
  BY DEF Chain
<1>3. r = <<>> => Len(r) = 0
  BY NoneLong
<1>4. r # <<>> => Len(r) # 0
  BY <1>1, EmptySeq
<1> HIDE DEF h, r
<1>5. Fits(x, h)
  BY <1>1, <1>2
<1>6. Chain(h.pts, r)
  <2> SUFFICES ASSUME NEW i \in 1..Len(r)
               PROVE  Fits(IF i = 1 THEN h.pts ELSE r[i - 1].pts, r[i])
    BY DEF Chain
  <2>1. i + 1 \in 1..Len(s) /\ i + 1 # 1 /\ (i + 1) - 1 = i
    BY <1>1
  <2>2. Fits(s[i].pts, s[i + 1])
    BY <1>2, <2>1
  <2>3. i # 1 => i - 1 \in 1..Len(r) /\ (i - 1) + 1 = i
    BY <1>1
  <2>4. (IF i = 1 THEN h ELSE r[i - 1]) = s[i] /\ r[i] = s[i + 1]
    BY <1>1, <2>3
  <2> QED
    BY <2>2, <2>4
<1>7. EndOf(h.pts, r) = EndOf(x, s)
  <2>1. s # <<>>
    OBVIOUS
  <2>2. CASE r = <<>>
    <3>1. Len(s) = 1
      BY <1>1, <1>3, <2>2
    <3> QED
      BY <1>1, <2>1, <2>2, <3>1 DEF EndOf
  <2>3. CASE r # <<>>
    <3>1. Len(r) \in 1..Len(r) /\ Len(r) + 1 = Len(s)
      BY <1>1, <1>4, <2>3
    <3>2. r[Len(r)] = s[Len(s)]
      BY <1>1, <3>1
    <3> QED
      BY <2>1, <2>3, <3>2 DEF EndOf
  <2> QED
    BY <2>2, <2>3
<1> QED
  BY <1>5, <1>6, <1>7 DEF h, r

LEMMA ChainAppend ==
    ASSUME NEW s \in Seq(Frames), NEW f \in Frames, NEW x, Chain(x, s), Fits(EndOf(x, s), f)
    PROVE  Chain(x, Append(s, f)) /\ EndOf(x, Append(s, f)) = f.pts
<1> DEFINE a == Append(s, f)
<1>1. /\ Len(s) \in Nat /\ Len(a) = Len(s) + 1 /\ a[Len(a)] = f /\ a # <<>>
      /\ \A i \in 1..Len(s) : a[i] = s[i]
  OBVIOUS
<1>2. \A i \in 1..Len(s) : Fits(IF i = 1 THEN x ELSE s[i - 1].pts, s[i])
  BY DEF Chain
<1>3. Len(s) = 0 <=> s = <<>>
  BY EmptySeq
<1>4. Fits(IF Len(a) = 1 THEN x ELSE a[Len(a) - 1].pts, f)
  <2>1. CASE Len(s) = 0
    BY <1>1, <1>3, <2>1 DEF EndOf
  <2>2. CASE Len(s) # 0
    <3>1. EndOf(x, s) = s[Len(s)].pts
      BY <1>3, <2>2 DEF EndOf
    <3>2. a[Len(a) - 1] = s[Len(s)] /\ Len(a) # 1
      BY <1>1, <2>2
    <3> QED
      BY <3>1, <3>2
  <2> QED
    BY <2>1, <2>2
<1> HIDE DEF a
<1>5. Chain(x, a)
  <2> SUFFICES ASSUME NEW i \in 1..Len(a)
               PROVE  Fits(IF i = 1 THEN x ELSE a[i - 1].pts, a[i])
    BY DEF Chain
  <2>1. CASE i = Len(a)
    BY <1>1, <1>4, <2>1
  <2>2. CASE i # Len(a)
    <3>1. i \in 1..Len(s) /\ (i # 1 => i - 1 \in 1..Len(s))
      BY <1>1, <2>2
    <3>2. a[i] = s[i] /\ (i # 1 => a[i - 1] = s[i - 1])
      BY <1>1, <3>1
    <3> QED
      BY <1>2, <3>1, <3>2
  <2> QED
    BY <2>1, <2>2
<1>6. EndOf(x, a) = f.pts
  BY <1>1 DEF EndOf
<1> QED
  BY <1>5, <1>6 DEF a

(* A decoder that starts to wait for a keyframe asks nothing of the rest. *)
LEMMA ChainAny ==
    ASSUME NEW s, NEW x, Chain(x, s)
    PROVE  Chain(Any, s) /\ EndOf(Any, s) \in {EndOf(x, s), Any}
BY DEF Chain, Fits, EndOf

LEMMA FitsAny ==
    ASSUME NEW f, NEW x, NEW y, Fits(x, f), y \in {x, Any}
    PROVE  Fits(y, f)
BY DEF Fits

LEMMA FedAny ==
    ASSUME NEW c, NEW d, d \in {c, Any}, NEW q, NEW e, Fed(c, q, e)
    PROVE  Fed(d, q, e)
<1>1. CASE d = c
  BY <1>1
<1>2. CASE d = Any
  <2>1. Chain(Any, q.frames) /\ EndOf(Any, q.frames) \in {EndOf(c, q.frames), Any}
    BY ChainAny DEF Fed
  <2>2. Fits(EndOf(c, q.frames), e.flight) => Fits(EndOf(Any, q.frames), e.flight)
    BY <2>1, FitsAny
  <2> QED
    BY <1>2, <2>1, <2>2 DEF Fed
<1> QED
  BY <1>1, <1>2

-----------------------------------------------------------------------------
(* The queue, and an encoder that feeds it. *)
LEMMA PushFits ==
    ASSUME NEW q \in QueueType, Len(q.frames) <= Backlog, NEW f \in Frames, NEW c,
           Chain(c, q.frames), f = NoFrame \/ q.needs \/ Fits(EndOf(c, q.frames), f)
    PROVE  /\ Push(q, f) \in QueueType /\ Len(Push(q, f).frames) <= Backlog
           /\ Chain(c, Push(q, f).frames)
           /\ ~Push(q, f).needs =>
                 IF f = NoFrame THEN ~q.needs /\ Push(q, f).frames = q.frames
                 ELSE EndOf(c, Push(q, f).frames) = f.pts
<1> DEFINE r == Push(q, f)
<1>0. q.frames \in Seq(Frames) /\ q.needs \in BOOLEAN /\ Backlog \in Nat
      /\ Len(q.frames) \in Nat
  BY StreamAssumption, SeqFacts DEF QueueType
<1>1. CASE f = NoFrame \/ (q.needs /\ ~f.key)
  <2>1. r = q
    BY <1>1 DEF Push
  <2> HIDE DEF r
  <2> QED
    BY <1>1, <2>1 DEF r
<1>2. CASE ~(f = NoFrame \/ (q.needs /\ ~f.key)) /\ Len(q.frames) = Backlog
  <2>1. r = [q EXCEPT !.needs = TRUE]
    BY <1>2 DEF Push
  <2>2. r \in QueueType /\ r.frames = q.frames /\ r.needs
    BY <2>1 DEF QueueType
  <2> HIDE DEF r
  <2> QED
    BY <2>2 DEF r
<1>3. CASE ~(f = NoFrame \/ (q.needs /\ ~f.key)) /\ Len(q.frames) # Backlog
  <2> DEFINE a == Append(q.frames, f)
  <2>1. r = [frames |-> a, needs |-> FALSE]
    BY <1>3 DEF Push
  <2>2. a \in Seq(Frames) /\ Len(a) = Len(q.frames) + 1
    BY <1>0
  <2>3. Fits(EndOf(c, q.frames), f)
    BY <1>3 DEF Fits
  <2>4. Chain(c, a) /\ EndOf(c, a) = f.pts
    BY <1>0, <2>3, ChainAppend
  <2> HIDE DEF a
  <2>5. r \in QueueType /\ r.frames = a /\ Len(a) <= Backlog
    BY <1>0, <1>3, <2>1, <2>2 DEF QueueType
  <2> HIDE DEF r
  <2> QED
    BY <1>3, <2>4, <2>5 DEF r
<1> QED
  BY <1>1, <1>2, <1>3

(* What is in flight is queued. *)
LEMMA FlightQueued ==
    ASSUME NEW q \in QueueType, Len(q.frames) <= Backlog, NEW e \in EncoderType,
           NEW c, Fed(c, q, e)
    PROVE  LET r == Push(q, e.flight) IN
           /\ r \in QueueType /\ Len(r.frames) <= Backlog
           /\ Chain(c, r.frames)
           /\ ~r.needs => e.last = 0 \/ EndOf(c, r.frames) \in {Any, e.last}
<1> DEFINE r == Push(q, e.flight)
<1>1. e.flight \in Frames /\ e.last \in Nat /\ q.needs \in BOOLEAN
  BY DEF EncoderType, QueueType
<1>2. e.flight = NoFrame \/ q.needs \/ Fits(EndOf(c, q.frames), e.flight)
  BY DEF Fed
<1>3. Chain(c, q.frames)
  BY DEF Fed
<1>4. /\ r \in QueueType /\ Len(r.frames) <= Backlog /\ Chain(c, r.frames)
      /\ ~r.needs => IF e.flight = NoFrame THEN ~q.needs /\ r.frames = q.frames
                     ELSE EndOf(c, r.frames) = e.flight.pts
  BY <1>1, <1>2, <1>3, PushFits
<1> HIDE DEF r
<1>5. ~r.needs => e.last = 0 \/ EndOf(c, r.frames) \in {Any, e.last}
  BY <1>4 DEF Fed
<1> QED
  BY <1>4, <1>5 DEF r

(* The encoder's next frame. *)
Next0(e, f) == f.pts # 0 /\ (f.key \/ (e.last # 0 /\ f.ref = e.last))

LEMMA NextFits ==
    ASSUME NEW d, NEW e \in EncoderType, NEW f, Next0(e, f),
           e.last = 0 \/ d \in {Any, e.last}
    PROVE  Fits(d, f)
BY DEF Next0, Fits

LEMMA FedFlushed ==
    ASSUME NEW q \in QueueType, Len(q.frames) <= Backlog, NEW e \in EncoderType,
           NEW c, Fed(c, q, e), NEW g, g.flight = NoFrame, g.last \in {e.last, 0}
    PROVE  /\ Push(q, e.flight) \in QueueType /\ Len(Push(q, e.flight).frames) <= Backlog
           /\ Fed(c, Push(q, e.flight), g)
<1> DEFINE r == Push(q, e.flight)
<1>1. /\ r \in QueueType /\ Len(r.frames) <= Backlog /\ Chain(c, r.frames)
      /\ ~r.needs => e.last = 0 \/ EndOf(c, r.frames) \in {Any, e.last}
  BY FlightQueued
<1> HIDE DEF r
<1>2. Fed(c, r, g)
  BY <1>1 DEF Fed
<1> QED
  BY <1>1, <1>2 DEF r

LEMMA FedOverlapped ==
    ASSUME NEW q \in QueueType, Len(q.frames) <= Backlog, NEW e \in EncoderType,
           NEW c, Fed(c, q, e), NEW f \in Frames, Next0(e, f),
           NEW g, g.flight = f, g.last = f.pts
    PROVE  /\ Push(q, e.flight) \in QueueType /\ Len(Push(q, e.flight).frames) <= Backlog
           /\ Fed(c, Push(q, e.flight), g)
<1> DEFINE r == Push(q, e.flight)
<1>1. /\ r \in QueueType /\ Len(r.frames) <= Backlog /\ Chain(c, r.frames)
      /\ ~r.needs => e.last = 0 \/ EndOf(c, r.frames) \in {Any, e.last}
  BY FlightQueued
<1> HIDE DEF r
<1>2. ~r.needs => Fits(EndOf(c, r.frames), f)
  BY <1>1, NextFits
<1>3. f # NoFrame
  BY DEF Next0, NoFrame
<1>4. Fed(c, r, g)
  BY <1>1, <1>2, <1>3 DEF Fed
<1> QED
  BY <1>1, <1>4 DEF r

LEMMA FedNow ==
    ASSUME NEW q \in QueueType, Len(q.frames) <= Backlog, NEW e \in EncoderType,
           NEW c, Fed(c, q, e), NEW f \in Frames, Next0(e, f),
           NEW g, g.flight = NoFrame, g.last = f.pts
    PROVE  LET s == Push(Push(q, e.flight), f) IN
           s \in QueueType /\ Len(s.frames) <= Backlog /\ Fed(c, s, g)
<1> DEFINE r == Push(q, e.flight)
           s == Push(r, f)
<1>1. /\ r \in QueueType /\ Len(r.frames) <= Backlog /\ Chain(c, r.frames)
      /\ ~r.needs => e.last = 0 \/ EndOf(c, r.frames) \in {Any, e.last}
  BY FlightQueued
<1> HIDE DEF r
<1>2. ~r.needs => Fits(EndOf(c, r.frames), f)
  BY <1>1, NextFits
<1>3. f # NoFrame /\ r.needs \in BOOLEAN
  BY <1>1 DEF Next0, NoFrame, QueueType
<1>4. f = NoFrame \/ r.needs \/ Fits(EndOf(c, r.frames), f)
  BY <1>2, <1>3
<1>5. /\ s \in QueueType /\ Len(s.frames) <= Backlog /\ Chain(c, s.frames)
      /\ ~s.needs => IF f = NoFrame THEN ~r.needs /\ s.frames = r.frames
                     ELSE EndOf(c, s.frames) = f.pts
  BY <1>1, <1>4, PushFits
<1> HIDE DEF s
<1>6. Fed(c, s, g)
  BY <1>3, <1>5 DEF Fed
<1> QED
  BY <1>5, <1>6 DEF r, s

-----------------------------------------------------------------------------
(* The policy names a track, and owes a keyframe or not. *)
Decision == [kind : {"wait", "encode", "sharpen"}, track : Tracks, key : BOOLEAN]

Outcomes == [policy : Policy, decision : Decision]

LEMMA TheTracks == SHARP \in Tracks /\ MOVING \in Tracks /\ Wait \in Decision
BY DEF Tracks, Wait, Decision

LEMMA NewPolicyTyped ==
    ASSUME NEW adaptive \in BOOLEAN
    PROVE  NewPolicy(adaptive) \in Policy
BY DEF NewPolicy, Policy

LEMMA CurrentTrack ==
    ASSUME NEW p \in Policy
    PROVE  Current(p) \in Tracks
BY TheTracks DEF Current

LEMMA OutcomeTyped ==
    ASSUME NEW p \in Policy, NEW d \in Decision
    PROVE  Outcome(p, d) \in Outcomes
BY DEF Outcome, Outcomes

LEMMA EncodeTyped ==
    ASSUME NEW p \in Policy, NEW t \in Tracks
    PROVE  Encode(p, t) \in Outcomes
<1> DEFINE q == [p EXCEPT !.key[t] = FALSE]
           d == [kind |-> "encode", track |-> t, key |-> p.key[t]]
<1>1. q \in Policy
  BY DEF Policy
<1>2. d \in Decision
  BY DEF Policy, Decision
<1> QED
  BY <1>1, <1>2, OutcomeTyped DEF Encode

LEMMA SharpenTyped ==
    ASSUME NEW p \in Policy
    PROVE  Sharpen(p) \in Outcomes
<1> DEFINE q == [p EXCEPT !.key[SHARP] = FALSE]
           d == [kind |-> "sharpen", track |-> SHARP, key |-> p.key[SHARP]]
<1>1. q \in Policy
  BY TheTracks DEF Policy
<1>2. d \in Decision
  BY TheTracks DEF Policy, Decision
<1> QED
  BY <1>1, <1>2, OutcomeTyped DEF Sharpen

LEMMA OnFrameTyped ==
    ASSUME NEW p \in Policy, NEW big \in BOOLEAN, NEW sustained \in BOOLEAN,
           NEW ready \in BOOLEAN
    PROVE  OnFrame(p, big, sustained, ready) \in Outcomes
<1> DEFINE q == [p EXCEPT !.touchUp = FALSE,
                          !.moving = @ \/ (p.adaptive /\ big /\ p.big /\ sustained),
                          !.big = @ \/ (p.adaptive /\ big)]
<1>1. q \in Policy
  BY Zenon DEF Policy
<1> HIDE DEF q
<1>2. [q EXCEPT !.pending = FALSE] \in Policy /\ [q EXCEPT !.pending = TRUE] \in Policy
  BY <1>1 DEF Policy
<1>3. OnFrame(p, big, sustained, ready) =
        IF q.moving THEN Encode([q EXCEPT !.pending = FALSE], MOVING)
        ELSE IF ready \/ ~p.adaptive THEN Encode(q, SHARP)
        ELSE Outcome([q EXCEPT !.pending = TRUE], Wait)
  BY DEF OnFrame, q
<1> QED
  BY <1>1, <1>2, <1>3, TheTracks, EncodeTyped, OutcomeTyped

LEMMA OnTickTyped ==
    ASSUME NEW p \in Policy, NEW ready \in BOOLEAN
    PROVE  OnTick(p, ready) \in Outcomes
<1>1. /\ [p EXCEPT !.moving = FALSE, !.pending = FALSE, !.touchUp = TRUE] \in Policy
      /\ [p EXCEPT !.pending = FALSE] \in Policy
      /\ [p EXCEPT !.touchUp = FALSE] \in Policy
  BY DEF Policy
<1> QED
  BY <1>1, TheTracks, SharpenTyped, EncodeTyped DEF OnTick

LEMMA OweTyped ==
    ASSUME NEW p \in Policy, NEW t \in Tracks
    PROVE  Owe(p, t) \in Policy
BY DEF Owe, Policy

LEMMA DeferredTyped ==
    ASSUME NEW p \in Policy, NEW d \in Decision
    PROVE  Deferred(p, d) \in Policy
<1> DEFINE k == p.key[d.track] \/ d.key
           b == p.pending \/ d.track = SHARP
           q == [p EXCEPT !.key[d.track] = k]
<1>1. d.track \in Tracks /\ k \in BOOLEAN /\ b \in BOOLEAN
  BY Zenon DEF Decision, Policy
<1> HIDE DEF k, b
<1>2. q \in Policy
  BY <1>1 DEF Policy
<1> HIDE DEF q
<1>3. [q EXCEPT !.pending = b] \in Policy
  BY <1>1, <1>2 DEF Policy
<1>4. Deferred(p, d) = IF d.kind = "wait" THEN p ELSE [q EXCEPT !.pending = b]
  BY Zenon DEF Deferred, q, k, b
<1> QED
  BY <1>3, <1>4

-----------------------------------------------------------------------------
(* The Mac's steps leave every encoder in line with its queue. *)
Feeding == MacTyped /\ \A t \in Tracks : Fed(AtSender(t), queue[t], enc[t])

StillFeeding == MacTyped' /\ \A t \in Tracks : Fed(AtSender(t), queue'[t], enc'[t])

LEMMA MacParts ==
    ASSUME MacTyped, NEW t \in Tracks
    PROVE  /\ pipe.now \in PipelineType /\ pipe.pts \in Nat
           /\ pipe.now.policy \in Policy /\ pipe.now.last \in Pictures
           /\ enc[t] \in EncoderType /\ queue[t] \in QueueType
           /\ Len(queue[t].frames) <= Backlog /\ enc[t].flight.pts <= pipe.pts
           /\ enc[t].last \in Nat /\ enc[t].flight \in Frames /\ enc[t].flight.pts \in Nat
BY DEF MacTyped, PipelineType, EncoderType, Frames

(* One encoder and its queue change. *)
LEMMA OneFeeds ==
    ASSUME Feeding, NEW t \in Tracks, NEW g \in EncoderType, NEW r \in QueueType,
           enc' = [enc EXCEPT ![t] = g], queue' = [queue EXCEPT ![t] = r],
           UNCHANGED backlogged, pipe' \in [now : PipelineType, pts : Nat],
           pipe.pts <= pipe'.pts, Len(r.frames) <= Backlog, g.flight.pts <= pipe'.pts,
           Fed(AtSender(t), r, g)
    PROVE  StillFeeding
<1>1. /\ enc' \in [Tracks -> EncoderType] /\ queue' \in [Tracks -> QueueType]
      /\ \A u \in Tracks : enc'[u] = IF u = t THEN g ELSE enc[u]
      /\ \A u \in Tracks : queue'[u] = IF u = t THEN r ELSE queue[u]
  BY DEF Feeding, MacTyped
<1>2. \A u \in Tracks : Fed(AtSender(u), queue'[u], enc'[u])
  BY <1>1 DEF Feeding
<1>3. \A u \in Tracks : Len(queue'[u].frames) <= Backlog
  BY <1>1 DEF Feeding, MacTyped
<1>4. ASSUME NEW u \in Tracks
      PROVE  enc'[u].flight.pts <= pipe'.pts
  <2>1. CASE u = t
    BY <1>1, <2>1
  <2>2. CASE u # t
    <3>1. enc'[u] = enc[u]
      BY <1>1, <2>2
    <3>2. enc[u].flight.pts <= pipe.pts /\ enc[u].flight.pts \in Nat /\ pipe.pts \in Nat
      BY MacParts DEF Feeding
    <3>3. pipe'.pts \in Nat
      OBVIOUS
    <3> QED
      BY <3>1, <3>2, <3>3
  <2> QED
    BY <2>1, <2>2
<1>5. backlogged' \in [Tracks -> BOOLEAN]
  BY DEF Feeding, MacTyped
<1> QED
  BY <1>1, <1>2, <1>3, <1>4, <1>5 DEF StillFeeding, MacTyped

(* Neither changes. *)
LEMMA SameFeeds ==
    ASSUME Feeding, UNCHANGED <<enc, queue, backlogged>>,
           pipe' \in [now : PipelineType, pts : Nat], pipe'.pts = pipe.pts
    PROVE  StillFeeding
BY DEF Feeding, StillFeeding, MacTyped

LEMMA FrameTyped ==
    ASSUME MacTyped, NEW t \in Tracks, NEW key \in BOOLEAN, NEW n \in Nat
    PROVE  LET f == Frame(t, key, n) IN
           f \in Frames /\ f.pts = pipe.pts + 1 /\ Next0(enc[t], f)
<1> DEFINE f == Frame(t, key, n)
           k == key \/ enc[t].last = 0
<1>1. enc[t].last \in Nat /\ pipe.pts \in Nat
  BY MacParts
<1>2. f = [n |-> n, pts |-> pipe.pts + 1, key |-> k,
           ref |-> IF key THEN 0 ELSE enc[t].last, track |-> t]
  BY DEF Frame
<1>3. k \in BOOLEAN /\ (k <=> (key \/ enc[t].last = 0))
  OBVIOUS
<1> HIDE DEF k
<1>4. f \in Frames /\ f.pts = pipe.pts + 1
  BY <1>1, <1>2, <1>3 DEF Frames
<1>5. f.key = k /\ f.ref = IF key THEN 0 ELSE enc[t].last
  BY <1>2
<1> HIDE DEF f
<1>6. f.pts # 0
  BY <1>1, <1>4
<1>7. Next0(enc[t], f)
  BY <1>3, <1>5, <1>6 DEF Next0
<1> QED
  BY <1>4, <1>7 DEF f

Flown(e, f) == [e EXCEPT !.last = f.pts, !.flight = f]
Landed(e, f) == [e EXCEPT !.last = f.pts, !.flight = NoFrame]
Emptied(e) == [e EXCEPT !.flight = NoFrame]

LEMMA EncoderSteps ==
    ASSUME NEW e \in EncoderType, NEW f \in Frames
    PROVE  /\ Flown(e, f) \in EncoderType /\ Flown(e, f).last = f.pts
           /\ Flown(e, f).flight = f
           /\ Landed(e, f) \in EncoderType /\ Landed(e, f).last = f.pts
           /\ Landed(e, f).flight = NoFrame
           /\ Emptied(e) \in EncoderType /\ Emptied(e).last = e.last
           /\ Emptied(e).flight = NoFrame
           /\ NoFrame.pts = 0
BY TheTracks DEF Flown, Landed, Emptied, EncoderType, Frames, NoFrame

LEMMA FlushFeeds ==
    ASSUME Feeding, NEW t \in Tracks,
           enc' = [enc EXCEPT ![t].flight = NoFrame],
           queue' = [queue EXCEPT ![t] = Push(@, enc[t].flight)],
           UNCHANGED backlogged, pipe' \in [now : PipelineType, pts : Nat],
           pipe.pts <= pipe'.pts
    PROVE  StillFeeding
<1> DEFINE g == Emptied(enc[t])
           r == Push(queue[t], enc[t].flight)
<1>1. /\ enc[t] \in EncoderType /\ queue[t] \in QueueType /\ enc[t].flight \in Frames
      /\ Len(queue[t].frames) <= Backlog /\ Fed(AtSender(t), queue[t], enc[t])
  BY MacParts DEF Feeding
<1>2. g \in EncoderType /\ g.flight = NoFrame /\ g.last = enc[t].last /\ NoFrame.pts = 0
  BY <1>1, EncoderSteps
<1>3. enc' = [enc EXCEPT ![t] = g] /\ queue' = [queue EXCEPT ![t] = r]
  BY Zenon DEF Emptied
<1> HIDE DEF g
<1>4. r \in QueueType /\ Len(r.frames) <= Backlog /\ Fed(AtSender(t), r, g)
  BY <1>1, <1>2, FedFlushed
<1> HIDE DEF r
<1>5. g.flight.pts <= pipe'.pts
  BY <1>2
<1> QED
  BY <1>2, <1>3, <1>4, <1>5, OneFeeds

LEMMA EncodedFeeds ==
    ASSUME Feeding, UNCHANGED backlogged, NEW p \in PipelineType, NEW t \in Tracks,
           NEW key \in BOOLEAN, NEW n \in Nat, Encoded(p, t, key, n)
    PROVE  StillFeeding /\ pipe'.now = p
<1> DEFINE f == Frame(t, key, n)
<1>1. /\ enc[t] \in EncoderType /\ queue[t] \in QueueType /\ enc[t].flight \in Frames
      /\ Len(queue[t].frames) <= Backlog /\ Fed(AtSender(t), queue[t], enc[t])
      /\ pipe.pts \in Nat
  BY MacParts DEF Feeding
<1>2. f \in Frames /\ f.pts = pipe.pts + 1 /\ Next0(enc[t], f)
  BY FrameTyped DEF Feeding
<1>3. /\ pipe' = [now |-> p, pts |-> f.pts]
      /\ EncodeOverlapped(t, f) \/ EncodeNow(t, f) \/ Drop(t, f)
  BY DEF Encoded
<1> HIDE DEF f
<1>4. /\ pipe' \in [now : PipelineType, pts : Nat] /\ pipe'.now = p /\ pipe'.pts = f.pts
      /\ pipe.pts <= pipe'.pts /\ f.pts \in Nat
  BY <1>1, <1>2, <1>3 DEF Frames
<1>5. CASE EncodeOverlapped(t, f)
  <2> DEFINE g == Flown(enc[t], f)
             r == Push(queue[t], enc[t].flight)
  <2>1. g \in EncoderType /\ g.flight = f /\ g.last = f.pts
    BY <1>1, <1>2, EncoderSteps
  <2>2. enc' = [enc EXCEPT ![t] = g] /\ queue' = [queue EXCEPT ![t] = r]
    BY <1>5, Zenon DEF EncodeOverlapped, Flown
  <2> HIDE DEF g
  <2>3. r \in QueueType /\ Len(r.frames) <= Backlog /\ Fed(AtSender(t), r, g)
    BY <1>1, <1>2, <2>1, FedOverlapped
  <2> HIDE DEF r
  <2>4. g.flight.pts <= pipe'.pts
    BY <1>4, <2>1
  <2> QED
    BY <1>4, <2>1, <2>2, <2>3, <2>4, OneFeeds
<1>6. CASE EncodeNow(t, f)
  <2> DEFINE g == Landed(enc[t], f)
             r == Push(Push(queue[t], enc[t].flight), f)
  <2>1. g \in EncoderType /\ g.flight = NoFrame /\ g.last = f.pts /\ NoFrame.pts = 0
    BY <1>1, <1>2, EncoderSteps
  <2>2. enc' = [enc EXCEPT ![t] = g] /\ queue' = [queue EXCEPT ![t] = r]
    BY <1>6, Zenon DEF EncodeNow, Landed
  <2> HIDE DEF g
  <2>3. r \in QueueType /\ Len(r.frames) <= Backlog /\ Fed(AtSender(t), r, g)
    BY <1>1, <1>2, <2>1, FedNow
  <2> HIDE DEF r
  <2>4. g.flight.pts <= pipe'.pts
    BY <1>4, <2>1
  <2> QED
    BY <1>4, <2>1, <2>2, <2>3, <2>4, OneFeeds
<1>7. CASE Drop(t, f)
  <2>1. /\ enc' = [enc EXCEPT ![t].flight = NoFrame]
        /\ queue' = [queue EXCEPT ![t] = Push(@, enc[t].flight)]
    BY <1>7 DEF Drop
  <2> QED
    BY <1>4, <2>1, FlushFeeds
<1> QED
  BY <1>3, <1>4, <1>5, <1>6, <1>7

WithPolicy(p, policy) == [p EXCEPT !.policy = policy]

LEMMA WithPolicyTyped ==
    ASSUME NEW p \in PipelineType, NEW policy \in Policy
    PROVE  /\ WithPolicy(p, policy) \in PipelineType
           /\ WithPolicy(p, policy).last = p.last
BY DEF WithPolicy, PipelineType

LEMMA PipeNow ==
    ASSUME MacTyped, NEW p \in PipelineType, pipe' = [pipe EXCEPT !.now = p]
    PROVE  /\ pipe' \in [now : PipelineType, pts : Nat] /\ pipe'.pts = pipe.pts
           /\ pipe'.now = p
BY DEF MacTyped

LEMMA RunFeeds ==
    ASSUME Feeding, UNCHANGED backlogged, NEW p \in PipelineType, NEW d \in Decision,
           NEW n \in Nat, Run(p, d, n)
    PROVE  StillFeeding /\ pipe'.now.last = p.last
<1>1. CASE d.kind = "wait" \/ (backlogged[d.track] /\ ~d.key)
  <2> DEFINE q == WithPolicy(p, Deferred(p.policy, d))
  <2>1. p.policy \in Policy
    BY DEF PipelineType
  <2>2. q \in PipelineType /\ q.last = p.last
    BY <2>1, DeferredTyped, WithPolicyTyped
  <2>3. pipe' = [pipe EXCEPT !.now = q] /\ UNCHANGED <<enc, queue>>
    BY <1>1, Zenon DEF Run, WithPolicy
  <2> HIDE DEF q
  <2> QED
    BY <2>2, <2>3, PipeNow, SameFeeds DEF Feeding
<1>2. CASE ~(d.kind = "wait" \/ (backlogged[d.track] /\ ~d.key))
  <2>1. d.track \in Tracks /\ d.key \in BOOLEAN
    BY DEF Decision
  <2>2. Encoded(p, d.track, d.key, n)
    BY <1>2 DEF Run
  <2> QED
    BY <2>1, <2>2, EncodedFeeds
<1> QED
  BY <1>1, <1>2

LEMMA RequestFeeds ==
    ASSUME Feeding, UNCHANGED backlogged, NEW t \in Tracks, RequestKeyframe(t)
    PROVE  StillFeeding /\ pipe'.now.last = pipe.now.last
<1> DEFINE owing == Owe(pipe.now.policy, t)
           o == Encode(owing, t)
<1>1. /\ pipe.now \in PipelineType /\ pipe.now.policy \in Policy
      /\ pipe.now.last \in Pictures /\ pipe.now.last.n \in Nat
  BY MacParts DEF Feeding, Pictures
<1>2. owing \in Policy
  BY <1>1, OweTyped
<1>3. o \in Outcomes
  BY <1>2, EncodeTyped
<1>4. o.policy \in Policy /\ o.decision \in Decision
  BY <1>3 DEF Outcomes
<1> DEFINE q == WithPolicy(pipe.now, owing)
           r == WithPolicy(pipe.now, o.policy)
<1>5. /\ q \in PipelineType /\ q.last = pipe.now.last
      /\ r \in PipelineType /\ r.last = pipe.now.last
  BY <1>1, <1>2, <1>4, WithPolicyTyped
<1>6. CASE t # Current(owing)
  <2>1. pipe' = [pipe EXCEPT !.now = q] /\ UNCHANGED <<enc, queue>>
    BY <1>6, Zenon DEF RequestKeyframe, WithPolicy
  <2> HIDE DEF q
  <2> QED
    BY <1>5, <2>1, PipeNow, SameFeeds DEF Feeding
<1>7. CASE t = Current(owing) /\ pipe.now.last = NoPicture
  <2>1. pipe' = [pipe EXCEPT !.now = r] /\ UNCHANGED <<enc, queue>>
    BY <1>7, Zenon DEF RequestKeyframe, WithPolicy
  <2> HIDE DEF r
  <2> QED
    BY <1>5, <2>1, PipeNow, SameFeeds DEF Feeding
<1>8. CASE t = Current(owing) /\ pipe.now.last # NoPicture
  <2>1. Run(r, o.decision, pipe.now.last.n)
    BY <1>8, Zenon DEF RequestKeyframe, WithPolicy
  <2> HIDE DEF r
  <2> QED
    BY <1>1, <1>4, <1>5, <2>1, RunFeeds
<1> QED
  BY <1>6, <1>7, <1>8

Taken(p, policy, picture) == [p EXCEPT !.policy = policy, !.last = picture]

LEMMA TakenTyped ==
    ASSUME NEW p \in PipelineType, NEW policy \in Policy, NEW picture \in Pictures
    PROVE  /\ Taken(p, policy, picture) \in PipelineType
           /\ Taken(p, policy, picture).last = picture
BY DEF Taken, PipelineType

LEMMA TakeFeeds ==
    ASSUME Feeding, inbox \in Pictures, TakePicture
    PROVE  StillFeeding /\ pipe'.now.last \in {pipe.now.last, inbox}
<1>1. /\ pipe.now \in PipelineType /\ pipe.now.policy \in Policy
      /\ inbox.big \in BOOLEAN /\ inbox.n \in Nat
      /\ pipe \in [now : PipelineType, pts : Nat]
  BY MacParts, TheTracks DEF Feeding, MacTyped, Pictures
<1>4. UNCHANGED backlogged
  BY DEF TakePicture
<1>2. CASE inbox.size # pipe.now.size
  <2>1. UNCHANGED <<pipe, enc, queue>>
    BY <1>2 DEF TakePicture
  <2> QED
    BY <1>1, <1>4, <2>1, SameFeeds
<1>3. CASE inbox.size = pipe.now.size
  <2>1. PICK sustained \in BOOLEAN, ready \in BOOLEAN :
           LET o == OnFrame(pipe.now.policy, inbox.big, sustained, ready)
           IN  Run(Taken(pipe.now, o.policy, inbox), o.decision, inbox.n)
    BY <1>3, Zenon DEF TakePicture, Taken
  <2> DEFINE o == OnFrame(pipe.now.policy, inbox.big, sustained, ready)
             p == Taken(pipe.now, o.policy, inbox)
  <2>2. o \in Outcomes
    BY <1>1, OnFrameTyped
  <2>3. o.policy \in Policy /\ o.decision \in Decision
    BY <2>2 DEF Outcomes
  <2>4. p \in PipelineType /\ p.last = inbox
    BY <1>1, <2>3, TakenTyped
  <2>5. Run(p, o.decision, inbox.n)
    BY <2>1
  <2> HIDE DEF p, o
  <2> QED
    BY <1>1, <1>4, <2>3, <2>4, <2>5, RunFeeds
<1> QED
  BY <1>2, <1>3

LEMMA TickFeeds ==
    ASSUME Feeding, NEW ready \in BOOLEAN, Tick(ready)
    PROVE  StillFeeding /\ pipe'.now.last = pipe.now.last
<1> DEFINE o == OnTick(pipe.now.policy, ready)
           p == WithPolicy(pipe.now, o.policy)
<1>1. /\ pipe.now \in PipelineType /\ pipe.now.policy \in Policy
      /\ pipe.now.last.n \in Nat
  BY MacParts, TheTracks DEF Feeding, Pictures
<1>7. UNCHANGED backlogged
  BY DEF Tick
<1>2. o \in Outcomes
  BY <1>1, OnTickTyped
<1>3. o.policy \in Policy /\ o.decision \in Decision
  BY <1>2 DEF Outcomes
<1>4. p \in PipelineType /\ p.last = pipe.now.last
  BY <1>1, <1>3, WithPolicyTyped
<1>5. CASE pipe.now.last = NoPicture
  <2>1. pipe' = [pipe EXCEPT !.now.policy = o.policy] /\ UNCHANGED <<enc, queue>>
    BY <1>5 DEF Tick
  <2>2. pipe' = [pipe EXCEPT !.now = p]
    BY <2>1, Zenon DEF WithPolicy
  <2> HIDE DEF p
  <2> QED
    BY <1>1, <1>4, <1>7, <2>1, <2>2, PipeNow, SameFeeds DEF Feeding
<1>6. CASE pipe.now.last # NoPicture
  <2>1. Run(p, o.decision, pipe.now.last.n)
    BY <1>6, Zenon DEF Tick, WithPolicy
  <2> HIDE DEF p, o
  <2> QED
    BY <1>1, <1>3, <1>4, <1>7, <2>1, RunFeeds
<1> QED
  BY <1>5, <1>6

LEMMA ReconfigureFeeds ==
    ASSUME Feeding, NEW adaptive \in BOOLEAN, NEW overlap \in BOOLEAN,
           NEW resizes \in BOOLEAN, Reconfigure(adaptive, overlap, resizes)
    PROVE  StillFeeding /\ pipe'.now.last = NoPicture
<1> DEFINE p == NewPipeline(adaptive, IF resizes THEN pipe.now.size + 1
                                                 ELSE pipe.now.size)
           es == Encoders(adaptive, overlap)
           qs == [t \in Tracks |-> Push(queue[t], enc[t].flight)]
<1>0. NoFrame \in Frames /\ NoFrame.pts = 0 /\ NoPicture \in Pictures
  BY TheTracks DEF NoFrame, Frames, NoPicture, Pictures
<1>1. p \in PipelineType /\ p.last = NoPicture
  BY <1>0, MacParts, NewPolicyTyped, TheTracks DEF Feeding, NewPipeline, PipelineType
<1>2. /\ es \in [Tracks -> EncoderType]
      /\ \A t \in Tracks : es[t].last = 0 /\ es[t].flight = NoFrame
  BY <1>0, Zenon DEF Encoders, NewEncoder, EncoderType
<1>3. /\ pipe' = [pipe EXCEPT !.now = p] /\ enc' = es /\ queue' = qs
      /\ UNCHANGED backlogged
  BY Zenon DEF Reconfigure
<1> HIDE DEF p, es
<1>4. ASSUME NEW t \in Tracks
      PROVE  /\ qs[t] \in QueueType /\ Len(qs[t].frames) <= Backlog
             /\ Fed(AtSender(t), qs[t], es[t])
  <2> DEFINE r == Push(queue[t], enc[t].flight)
  <2>1. /\ enc[t] \in EncoderType /\ queue[t] \in QueueType
        /\ Len(queue[t].frames) <= Backlog /\ Fed(AtSender(t), queue[t], enc[t])
    BY MacParts DEF Feeding
  <2>2. es[t].last = 0 /\ es[t].flight = NoFrame
    BY <1>2
  <2>3. r \in QueueType /\ Len(r.frames) <= Backlog /\ Fed(AtSender(t), r, es[t])
    BY <2>1, <2>2, FedFlushed
  <2>4. qs[t] = r
    OBVIOUS
  <2> HIDE DEF r, qs
  <2> QED
    BY <2>3, <2>4
<1>5. qs \in [Tracks -> QueueType]
  BY <1>4
<1> HIDE DEF qs
<1>6. /\ pipe' \in [now : PipelineType, pts : Nat] /\ pipe'.pts = pipe.pts /\ pipe'.now = p
      /\ pipe.pts \in Nat
  BY <1>1, <1>3, PipeNow, MacParts, TheTracks DEF Feeding
<1>7. \A t \in Tracks : enc'[t].flight.pts <= pipe'.pts
  BY <1>0, <1>2, <1>3, <1>6
<1> QED
  BY <1>1, <1>2, <1>3, <1>4, <1>5, <1>6, <1>7 DEF StillFeeding, Feeding, MacTyped

-----------------------------------------------------------------------------
(* The whole way, action by action. *)
LEMMA IInvFeeding ==
    ASSUME IInv
    PROVE  Feeding /\ MacTyped /\ WayTyped /\ \A t \in Tracks : Unbroken(t)
BY DEF IInv, Typed, Feeding, Unbroken

LEMMA WayParts ==
    ASSUME WayTyped, NEW t \in Tracks
    PROVE  /\ sender[t] \in SenderType /\ sender[t].frame \in Frames
           /\ wire[t] \in Seq(Frames) /\ viewer[t] \in ViewerType
           /\ Len(wire[t]) <= Window
BY DEF WayTyped, SenderType

LEMMA SameTrack ==
    ASSUME NEW t \in Tracks, Unbroken(t), wire'[t] = wire[t], viewer'[t] = viewer[t],
           sender'[t] = sender[t], queue'[t] = queue[t], enc'[t] = enc[t]
    PROVE  Unbroken(t)'
BY DEF Unbroken, Carried, AtSender, AtWire, AtViewer

(* The Mac encodes, and what is under way stays as it is. *)
LEMMA FeedsKeep ==
    ASSUME IInv, StillFeeding, WayTyped', UNCHANGED <<wire, viewer>>,
           \A t \in Tracks : \/ sender'[t] = sender[t]
                             \/ sender[t].pc # "sending" /\ sender'[t].pc # "sending"
    PROVE  IInv'
<1>1. ASSUME NEW t \in Tracks
      PROVE  AtSender(t)' = AtSender(t) /\ Carried(t)'
  <2>1. AtViewer(t)' = AtViewer(t)
    BY DEF AtViewer
  <2>2. AtWire(t)' = AtWire(t)
    BY <2>1 DEF AtWire
  <2>3. AtSender(t)' = AtSender(t)
    BY <2>2 DEF AtSender
  <2> QED
    BY <2>1, <2>2, <2>3 DEF Carried, IInv, Unbroken
<1>2. \A t \in Tracks : Fed(AtSender(t), queue'[t], enc'[t])
  BY DEF StillFeeding
<1>3. \A t \in Tracks : Unbroken(t)'
  BY <1>1, <1>2 DEF Unbroken
<1> QED
  BY <1>3 DEF IInv, Typed, StillFeeding

(* The Mac's other variables do not matter on the way. *)
LEMMA WaySame ==
    ASSUME WayTyped, UNCHANGED <<sender, wire, viewer>>,
           captured' \in Captured, inbox' \in Pictures, asked' \in Seq(Tracks),
           inbox'.n <= captured'.n, pipe'.now.last.n <= captured'.n
    PROVE  WayTyped'
BY DEF WayTyped

LEMMA MacKeeps ==
    ASSUME IInv, \/ Mac
                 \/ \E adaptive, overlap, resizes \in BOOLEAN :
                       Reconfigure(adaptive, overlap, resizes)
    PROVE  IInv'
<1>0. /\ Feeding /\ MacTyped /\ WayTyped /\ pipe \in [now : PipelineType, pts : Nat]
      /\ captured \in Captured /\ captured.n \in Nat
      /\ inbox \in Pictures /\ inbox.n <= captured.n /\ pipe.now.last.n <= captured.n
      /\ asked \in Seq(Tracks) /\ pipe.pts \in Nat
      /\ NoPicture \in Pictures /\ NoPicture.n = 0
  BY IInvFeeding DEF MacTyped, WayTyped, NoPicture, Pictures, Captured
<1>1. CASE TakePicture
  <2>1. inbox' = NoPicture /\ UNCHANGED <<captured, sender, wire, viewer, asked>>
    BY <1>1 DEF TakePicture
  <2>2. StillFeeding /\ pipe'.now.last \in {pipe.now.last, inbox}
    BY <1>0, <1>1, TakeFeeds
  <2>3. WayTyped'
    BY <1>0, <2>1, <2>2, WaySame
  <2> QED
    BY <2>1, <2>2, <2>3, FeedsKeep
<1>2. CASE HearRequest
  <2>1. /\ asked # <<>> /\ asked' = Tail(asked) /\ RequestKeyframe(Head(asked))
        /\ UNCHANGED <<captured, inbox, sender, backlogged, wire, viewer>>
    BY <1>2 DEF HearRequest
  <2>2. Head(asked) \in Tracks /\ asked' \in Seq(Tracks)
    BY <1>0, <2>1, HeadTailProperties
  <2>3. StillFeeding /\ pipe'.now.last = pipe.now.last
    BY <1>0, <2>1, <2>2, RequestFeeds
  <2>4. WayTyped'
    BY <1>0, <2>1, <2>2, <2>3, WaySame
  <2> QED
    BY <2>1, <2>3, <2>4, FeedsKeep
<1>3. ASSUME NEW t \in Tracks, Flush(t)
      PROVE  IInv'
  <2>1. /\ enc' = [enc EXCEPT ![t].flight = NoFrame]
        /\ queue' = [queue EXCEPT ![t] = Push(@, enc[t].flight)]
    BY <1>3 DEF Flush
  <2>2. UNCHANGED <<captured, inbox, pipe, sender, backlogged, wire, viewer, asked>>
    BY <1>3 DEF Flush
  <2>3. /\ pipe' \in [now : PipelineType, pts : Nat] /\ pipe.pts <= pipe'.pts
        /\ UNCHANGED backlogged /\ Feeding
    BY <1>0, <2>2
  <2>4. StillFeeding
    BY <2>1, <2>3, FlushFeeds
  <2>5. WayTyped'
    BY <1>0, <2>2, WaySame
  <2> QED
    BY <2>2, <2>4, <2>5, FeedsKeep
<1>4. ASSUME NEW ready \in BOOLEAN, Tick(ready)
      PROVE  IInv'
  <2>1. UNCHANGED <<captured, inbox, sender, wire, viewer, asked>>
    BY <1>4 DEF Tick
  <2>2. StillFeeding /\ pipe'.now.last = pipe.now.last
    BY <1>0, <1>4, TickFeeds
  <2>3. WayTyped'
    BY <1>0, <2>1, <2>2, WaySame
  <2> QED
    BY <2>1, <2>2, <2>3, FeedsKeep
<1>5. ASSUME NEW adaptive \in BOOLEAN, NEW overlap \in BOOLEAN, NEW resizes \in BOOLEAN,
             Reconfigure(adaptive, overlap, resizes)
      PROVE  IInv'
  <2>1. /\ captured' = [captured EXCEPT !.fits = FALSE]
        /\ UNCHANGED <<inbox, sender, wire, viewer, asked>>
    BY <1>5 DEF Reconfigure
  <2>4. captured' \in Captured /\ captured'.n = captured.n
    BY <1>0, <2>1 DEF Captured
  <2>2. StillFeeding /\ pipe'.now.last = NoPicture
    BY <1>0, <1>5, ReconfigureFeeds
  <2>3. WayTyped'
    BY <1>0, <2>1, <2>2, <2>4, WaySame
  <2> QED
    BY <2>1, <2>2, <2>3, FeedsKeep
<1> QED
  BY <1>1, <1>2, <1>3, <1>4, <1>5 DEF Mac

(* Capture changes the inbox only, and its new size not even that. *)
LEMMA CaptureKeeps ==
    ASSUME IInv, CaptureResized \/ \E big \in BOOLEAN : Capture(big)
    PROVE  IInv'
<1>0. /\ Feeding /\ WayTyped /\ pipe \in [now : PipelineType, pts : Nat]
      /\ captured \in Captured /\ captured.n \in Nat /\ captured.size \in Nat
      /\ inbox \in Pictures /\ inbox.big \in BOOLEAN /\ pipe.now.last.n <= captured.n
      /\ inbox.n <= captured.n /\ inbox.n \in Nat
      /\ asked \in Seq(Tracks) /\ pipe.now.size \in Nat /\ pipe.now.last.n \in Nat
      /\ pipe.pts \in Nat
  BY IInvFeeding DEF MacTyped, WayTyped, Pictures, PipelineType, Captured
<1>1. UNCHANGED <<pipe, enc, queue, sender, backlogged, wire, viewer, asked>>
  BY DEF Capture, CaptureResized
<1>2. StillFeeding
  BY <1>0, <1>1, SameFeeds
<1>3. SUFFICES WayTyped'
  BY <1>1, <1>2, FeedsKeep
<1>4. CASE CaptureResized
  <2>1. captured' = [captured EXCEPT !.size = pipe.now.size] /\ UNCHANGED inbox
    BY <1>4 DEF CaptureResized
  <2>2. captured' \in Captured /\ captured'.n = captured.n
    BY <1>0, <2>1 DEF Captured
  <2> QED
    BY <1>0, <1>1, <2>1, <2>2, WaySame
<1>5. CASE \E big \in BOOLEAN : Capture(big)
  <2>1. PICK big \in BOOLEAN : Capture(big)
    BY <1>5
  <2> DEFINE fits == captured.size = pipe.now.size
             b == big \/ inbox.big
  <2>2. /\ captured' = [captured EXCEPT !.n = @ + 1, !.fits = fits]
        /\ inbox' = [n |-> captured.n + 1, size |-> captured.size, big |-> b]
    BY <2>1 DEF Capture, Deliver
  <2>3. fits \in BOOLEAN /\ b \in BOOLEAN
    BY <1>0
  <2> HIDE DEF fits, b
  <2>4. captured' \in Captured /\ captured'.n = captured.n + 1
    <3> DEFINE more == [captured EXCEPT !.n = captured.n + 1]
    <3>1. more \in Captured /\ more.n = captured.n + 1
      BY <1>0 DEF Captured
    <3>2. captured' = [more EXCEPT !.fits = fits]
      BY <2>2
    <3> HIDE DEF more
    <3> QED
      BY <2>3, <3>1, <3>2 DEF Captured
  <2>5. inbox' \in Pictures /\ inbox'.n = captured.n + 1
    BY <1>0, <2>2, <2>3 DEF Pictures
  <2> QED
    BY <1>0, <1>1, <2>4, <2>5, WaySame
<1> QED
  BY <1>4, <1>5

(* The task, the network and the decoder of one track. *)
LEMMA OneTrack ==
    ASSUME IInv, NEW t \in Tracks, MacTyped', WayTyped', Unbroken(t)',
           \A u \in Tracks : u # t =>
              /\ wire'[u] = wire[u] /\ viewer'[u] = viewer[u] /\ sender'[u] = sender[u]
              /\ queue'[u] = queue[u] /\ enc'[u] = enc[u]
    PROVE  IInv'
<1>1. ASSUME NEW u \in Tracks, u # t
      PROVE  Unbroken(u)'
  <2>1. Unbroken(u)
    BY DEF IInv
  <2> QED
    BY <1>1, <2>1, SameTrack
<1>2. \A u \in Tracks : Unbroken(u)'
  BY <1>1
<1> QED
  BY <1>2 DEF IInv, Typed

(* The queue gives a frame to the sending task. *)
LEMMA TakeFrameKeeps ==
    ASSUME IInv, NEW t \in Tracks, TakeFrame(t)
    PROVE  IInv'
<1> DEFINE q == queue[t].frames
           h == Head(q)
           s == [pc |-> "sending", frame |-> h]
           r == [queue[t] EXCEPT !.frames = Tail(q)]
<1>0. /\ MacTyped /\ WayTyped /\ Unbroken(t)
      /\ queue[t] \in QueueType /\ q \in Seq(Frames) /\ Len(q) <= Backlog /\ Backlog \in Nat
      /\ enc[t] \in EncoderType
  BY IInvFeeding, MacParts, StreamAssumption DEF QueueType
<1>1. /\ sender[t].pc = "idle" /\ q # <<>>
      /\ sender' = [sender EXCEPT ![t] = s] /\ queue' = [queue EXCEPT ![t] = r]
      /\ backlogged' = [backlogged EXCEPT ![t] = TRUE]
      /\ UNCHANGED <<captured, inbox, pipe, enc, wire, viewer, shown, asked, left>>
  BY Zenon DEF TakeFrame
<1>2. /\ h \in Frames /\ Tail(q) \in Seq(Frames) /\ Len(Tail(q)) = Len(q) - 1 /\ Len(q) \in Nat
  BY <1>0, <1>1, SeqFacts
<1>3. /\ r \in QueueType /\ r.frames = Tail(q) /\ r.needs = queue[t].needs
      /\ s \in SenderType /\ s.pc = "sending" /\ s.frame = h
  BY <1>0, <1>2 DEF QueueType, SenderType
<1>4. /\ Fed(AtSender(t), queue[t], enc[t]) /\ Carried(t) /\ AtSender(t) = AtWire(t)
  BY <1>0, <1>1 DEF Unbroken, AtSender
<1>5. /\ Fits(AtSender(t), h) /\ Chain(h.pts, r.frames)
      /\ EndOf(h.pts, r.frames) = EndOf(AtSender(t), q)
  BY <1>0, <1>1, <1>3, <1>4, ChainTail DEF Fed
<1> HIDE DEF h, s, r
<1>6. /\ sender' \in [Tracks -> SenderType] /\ sender'[t] = s
      /\ \A u \in Tracks : u # t => sender'[u] = sender[u]
  BY <1>0, <1>1, <1>3 DEF WayTyped
<1>7. /\ queue' \in [Tracks -> QueueType] /\ queue'[t] = r
      /\ \A u \in Tracks : u # t => queue'[u] = queue[u]
  BY <1>0, <1>1, <1>3 DEF MacTyped
<1>8. MacTyped'
  <2>1. backlogged' \in [Tracks -> BOOLEAN]
    BY <1>0, <1>1 DEF MacTyped
  <2>3. Len(r.frames) <= Backlog
    BY <1>0, <1>2, <1>3
  <2>4. \A u \in Tracks : Len(queue[u].frames) <= Backlog
    BY <1>0 DEF MacTyped
  <2>2. \A u \in Tracks : Len(queue'[u].frames) <= Backlog
    BY <1>7, <2>3, <2>4
  <2> QED
    BY <1>0, <1>1, <1>7, <2>1, <2>2 DEF MacTyped
<1>9. WayTyped'
  BY <1>0, <1>1, <1>6 DEF WayTyped
<1>10. Unbroken(t)'
  <2>1. AtViewer(t)' = AtViewer(t)
    BY <1>1 DEF AtViewer
  <2>2. AtWire(t)' = AtWire(t)
    BY <1>1, <2>1 DEF AtWire
  <2>3. AtSender(t)' = h.pts
    BY <1>3, <1>6 DEF AtSender
  <2>4. Carried(t)'
    BY <1>1, <1>3, <1>4, <1>5, <1>6, <2>1, <2>2 DEF Carried
  <2>5. Fed(h.pts, r, enc[t])
    BY <1>3, <1>4, <1>5 DEF Fed
  <2> QED
    BY <1>1, <1>7, <2>3, <2>4, <2>5 DEF Unbroken
<1> QED
  BY <1>1, <1>6, <1>7, <1>8, <1>9, <1>10, OneTrack

(* The network takes a frame. *)
LEMMA SentKeeps ==
    ASSUME IInv, NEW t \in Tracks, Sent(t)
    PROVE  IInv'
<1> DEFINE f == sender[t].frame
           w == Append(wire[t], f)
           s == [pc |-> "sent", frame |-> NoFrame]
<1>0. /\ MacTyped /\ WayTyped /\ Unbroken(t)
      /\ f \in Frames /\ wire[t] \in Seq(Frames) /\ Len(wire[t]) \in Nat /\ Window \in Nat
  BY IInvFeeding, WayParts, SeqFacts, StreamAssumption
<1>1. /\ sender[t].pc = "sending" /\ Len(wire[t]) < Window
      /\ wire' = [wire EXCEPT ![t] = w] /\ sender' = [sender EXCEPT ![t] = s]
      /\ backlogged' = [backlogged EXCEPT ![t] = FALSE]
      /\ UNCHANGED <<captured, inbox, pipe, enc, queue, viewer, shown, asked, left>>
  BY Zenon DEF Sent
<1>2. s \in SenderType /\ s.pc = "sent"
  BY TheTracks DEF SenderType, Frames, NoFrame
<1>3. w \in Seq(Frames) /\ Len(w) <= Window
  BY <1>0, <1>1
<1>4. Chain(AtViewer(t), w) /\ EndOf(AtViewer(t), w) = f.pts /\ AtSender(t) = f.pts
  <2>1. Chain(AtViewer(t), wire[t]) /\ Fits(EndOf(AtViewer(t), wire[t]), f)
    BY <1>0, <1>1 DEF Unbroken, Carried, AtWire
  <2>2. AtSender(t) = f.pts
    BY <1>1 DEF AtSender
  <2> QED
    BY <1>0, <2>1, <2>2, ChainAppend
<1> HIDE DEF w, s
<1>5. /\ sender' \in [Tracks -> SenderType] /\ sender'[t] = s
      /\ \A u \in Tracks : u # t => sender'[u] = sender[u]
  BY <1>0, <1>1, <1>2 DEF WayTyped
<1>6. /\ wire' \in [Tracks -> Seq(Frames)] /\ wire'[t] = w
      /\ \A u \in Tracks : u # t => wire'[u] = wire[u]
  BY <1>0, <1>1, <1>3 DEF WayTyped
<1>7. MacTyped'
  BY <1>0, <1>1 DEF MacTyped
<1>8. WayTyped'
  <2>1. \A u \in Tracks : Len(wire'[u]) <= Window
    BY <1>0, <1>3, <1>6 DEF WayTyped
  <2> QED
    BY <1>0, <1>1, <1>5, <1>6, <2>1 DEF WayTyped
<1>9. Unbroken(t)'
  <2>1. AtViewer(t)' = AtViewer(t)
    BY <1>1 DEF AtViewer
  <2>2. AtWire(t)' = f.pts
    BY <1>4, <1>6, <2>1 DEF AtWire
  <2>3. AtSender(t)' = AtSender(t)
    BY <1>2, <1>4, <1>5, <2>2 DEF AtSender
  <2>4. Carried(t)'
    BY <1>2, <1>4, <1>5, <1>6, <2>1 DEF Carried
  <2> QED
    BY <1>0, <1>1, <2>3, <2>4 DEF Unbroken
<1> QED
  BY <1>1, <1>5, <1>6, <1>7, <1>8, <1>9, OneTrack

LEMMA AfterSendKeeps ==
    ASSUME IInv, NEW t \in Tracks, AfterSend(t)
    PROVE  IInv'
<1> DEFINE s == [sender[t] EXCEPT !.pc = "idle"]
<1>0. /\ Feeding /\ MacTyped /\ WayTyped /\ sender[t] \in SenderType
      /\ pipe \in [now : PipelineType, pts : Nat]
  BY IInvFeeding, WayParts DEF MacTyped
<1>1. /\ sender[t].pc = "sent" /\ sender' = [sender EXCEPT ![t] = s]
      /\ UNCHANGED <<captured, inbox, backlogged, wire, viewer, shown, asked>>
      /\ RequestKeyframe(t) \/ UNCHANGED <<pipe, enc, queue>>
  BY Zenon DEF AfterSend
<1>2. s \in SenderType /\ s.pc = "idle"
  BY <1>0 DEF SenderType
<1> HIDE DEF s
<1>3. /\ sender' \in [Tracks -> SenderType] /\ sender'[t] = s
      /\ \A u \in Tracks : u # t => sender'[u] = sender[u]
  BY <1>0, <1>1, <1>2 DEF WayTyped
<1>4. StillFeeding /\ pipe'.now.last = pipe.now.last
  <2>1. CASE RequestKeyframe(t)
    BY <1>0, <1>1, <2>1, RequestFeeds
  <2>2. CASE UNCHANGED <<pipe, enc, queue>>
    BY <1>0, <1>1, <2>2, SameFeeds
  <2> QED
    BY <1>1, <2>1, <2>2
<1>5. WayTyped'
  BY <1>0, <1>1, <1>3, <1>4 DEF WayTyped
<1> QED
  BY <1>1, <1>2, <1>3, <1>4, <1>5, FeedsKeep

(* A decoder thread takes a frame: it has the picture, or waits for a      *)
(* keyframe from then on.                                                  *)
LEMMA ViewerTakes ==
    ASSUME IInv, NEW t \in Tracks, Take(t), NEW d \in ViewerType,
           viewer' = [viewer EXCEPT ![t] = d], asked' \in Seq(Tracks),
           d.synced => d.last = Head(wire[t]).pts
    PROVE  IInv'
<1> DEFINE w == wire[t]
           h == Head(w)
           r == Tail(w)
           x == AtViewer(t)
           y == IF d.synced THEN d.last ELSE Any
<1>0. /\ MacTyped /\ WayTyped /\ Carried(t) /\ Fed(AtSender(t), queue[t], enc[t])
      /\ w \in Seq(Frames) /\ Len(w) <= Window /\ Window \in Nat
  BY IInvFeeding, WayParts, StreamAssumption DEF Unbroken
<1>1. /\ w # <<>> /\ wire' = [wire EXCEPT ![t] = r]
      /\ UNCHANGED <<captured, inbox, pipe, enc, queue, sender, backlogged>>
  BY DEF Take
<1>2. /\ h \in Frames /\ r \in Seq(Frames) /\ Len(r) = Len(w) - 1 /\ Len(w) \in Nat
  BY <1>0, <1>1, SeqFacts
<1>3. Chain(x, w)
  BY <1>0 DEF Carried
<1>4. Chain(h.pts, r) /\ EndOf(h.pts, r) = EndOf(x, w)
  BY <1>0, <1>1, <1>3, ChainTail
<1>5. y \in {h.pts, Any}
  OBVIOUS
<1>6. Chain(y, r) /\ EndOf(y, r) \in {EndOf(x, w), Any}
  <2>1. Chain(Any, r) /\ EndOf(Any, r) \in {EndOf(h.pts, r), Any}
    BY <1>4, ChainAny
  <2> HIDE DEF y, h, r, x, w
  <2> QED
    BY <1>4, <1>5, <2>1
<1>7. AtWire(t) = EndOf(x, w)
  BY DEF AtWire
<1>8. /\ wire' \in [Tracks -> Seq(Frames)] /\ wire'[t] = r
      /\ \A u \in Tracks : u # t => wire'[u] = wire[u]
  BY <1>0, <1>1, <1>2 DEF WayTyped
<1>9. /\ viewer' \in [Tracks -> ViewerType] /\ viewer'[t] = d
      /\ \A u \in Tracks : u # t => viewer'[u] = viewer[u]
  BY <1>0 DEF WayTyped
<1>10. AtViewer(t)' = y
  BY <1>9 DEF AtViewer
<1>11. AtWire(t)' = EndOf(y, r)
  BY <1>8, <1>10 DEF AtWire
<1>12. AtWire(t)' \in {AtWire(t), Any}
  BY <1>6, <1>7, <1>11
<1>13. WayTyped'
  <2>1. Len(r) <= Window
    BY <1>0, <1>2
  <2>2. \A u \in Tracks : Len(wire'[u]) <= Window
    BY <1>0, <1>8, <2>1 DEF WayTyped
  <2> QED
    BY <1>0, <1>1, <1>8, <1>9, <2>2 DEF WayTyped
<1>14. MacTyped'
  BY <1>0, <1>1 DEF MacTyped
<1> HIDE DEF w, h, r, x, y
<1>15. AtSender(t)' \in {AtSender(t), Any}
  BY <1>1, <1>12 DEF AtSender
<1>16. Carried(t)'
  <2>1. Fits(AtWire(t), sender[t].frame) => Fits(AtWire(t)', sender[t].frame)
    BY <1>12, FitsAny
  <2> QED
    BY <1>0, <1>1, <1>6, <1>8, <1>10, <2>1 DEF Carried
<1>17. Fed(AtSender(t)', queue[t], enc[t])
  BY <1>0, <1>15, FedAny
<1>18. Unbroken(t)'
  BY <1>1, <1>16, <1>17 DEF Unbroken
<1> QED
  BY <1>1, <1>8, <1>9, <1>13, <1>14, <1>18, OneTrack

(* One that is out of step and takes no keyframe stays so. *)
LEMMA ViewerKeeps ==
    ASSUME IInv, NEW t \in Tracks, Skip(t) \/ Decode(t) \/ DecodeFails(t)
    PROVE  IInv'
<1>0. /\ viewer[t] \in ViewerType /\ wire[t] \in Seq(Frames) /\ asked \in Seq(Tracks)
      /\ viewer \in [Tracks -> ViewerType]
  BY IInvFeeding, WayParts DEF WayTyped
<1>1. CASE Skip(t)
  <2>1. /\ Take(t) /\ ~viewer[t].synced /\ UNCHANGED <<viewer, asked>>
    BY <1>1 DEF Skip, Sensible
  <2>2. viewer' = [viewer EXCEPT ![t] = viewer[t]]
    BY <1>0, <2>1
  <2> QED
    BY <1>0, <2>1, <2>2, ViewerTakes
<1>2. CASE Decode(t)
  <2> DEFINE p == Head(wire[t]).pts
             d == [viewer[t] EXCEPT !.synced = TRUE, !.last = p]
  <2>1. Take(t) /\ UNCHANGED asked
    BY <1>2 DEF Decode
  <2>2. viewer' = [viewer EXCEPT ![t] = d]
    BY <1>2, Zenon DEF Decode
  <2>3. p \in Nat
    <3>1. wire[t] # <<>>
      BY <2>1 DEF Take
    <3>2. Head(wire[t]) \in Frames
      BY <1>0, <3>1, SeqFacts
    <3> QED
      BY <3>2 DEF Frames
  <2>4. d \in ViewerType /\ d.last = p
    BY <1>0, <2>3 DEF ViewerType
  <2> HIDE DEF d
  <2> QED
    BY <1>0, <2>1, <2>2, <2>4, ViewerTakes
<1>3. CASE DecodeFails(t)
  <2> DEFINE d == [viewer[t] EXCEPT !.synced = FALSE, !.hardware = FALSE]
  <2>1. Take(t) /\ asked' = Append(asked, t)
    BY <1>3 DEF DecodeFails
  <2>2. viewer' = [viewer EXCEPT ![t] = d]
    BY <1>3, Zenon DEF DecodeFails
  <2>3. d \in ViewerType /\ ~d.synced
    BY <1>0 DEF ViewerType
  <2>4. asked' \in Seq(Tracks)
    BY <1>0, <2>1
  <2> HIDE DEF d
  <2> QED
    BY <2>1, <2>2, <2>3, <2>4, ViewerTakes
<1> QED
  BY <1>1, <1>2, <1>3

LEMMA TrackKeeps ==
    ASSUME IInv, NEW t \in Tracks, Track(t)
    PROVE  IInv'
BY TakeFrameKeeps, SentKeeps, AfterSendKeeps, ViewerKeeps DEF Track

LEMMA NextKeeps ==
    ASSUME IInv, [Next]_vars
    PROVE  IInv'
<1>1. CASE UNCHANGED vars
  <2>1. /\ UNCHANGED <<captured, inbox, pipe, enc, queue, sender, backlogged, wire, viewer,
                       asked>>
    BY <1>1 DEF vars
  <2>2. Typed'
    BY <2>1 DEF IInv, Typed, MacTyped, WayTyped
  <2>3. \A t \in Tracks : Unbroken(t)'
    BY <2>1, SameTrack DEF IInv
  <2> QED
    BY <2>2, <2>3 DEF IInv
<1>2. CASE Next
  BY <1>2, MacKeeps, CaptureKeeps, TrackKeeps DEF Next
<1> QED
  BY <1>1, <1>2

LEMMA InitHolds ==
    ASSUME Init
    PROVE  IInv
<1>0. /\ NoFrame \in Frames /\ NoFrame.pts = 0 /\ NoPicture \in Pictures /\ NoPicture.n = 0
      /\ {Backlog, Window} \subseteq Nat /\ Len(<<>>) = 0
  BY TheTracks, StreamAssumption, NoneLong
     DEF NoFrame, Frames, NoPicture, Pictures
<1>1. PICK adaptive \in BOOLEAN, overlap \in BOOLEAN :
         /\ pipe = [now |-> NewPipeline(adaptive, 1), pts |-> 0]
         /\ enc = Encoders(adaptive, overlap)
  BY DEF Init
<1> DEFINE p == NewPipeline(adaptive, 1)
<1>2. p \in PipelineType /\ p.last = NoPicture
  BY <1>0, NewPolicyTyped DEF NewPipeline, PipelineType
<1> HIDE DEF p
<1>3. pipe \in [now : PipelineType, pts : Nat] /\ pipe.pts = 0 /\ pipe.now.last = NoPicture
  BY <1>1, <1>2 DEF p
<1>4. /\ enc \in [Tracks -> EncoderType]
      /\ \A t \in Tracks : enc[t].last = 0 /\ enc[t].flight = NoFrame
  BY <1>0, <1>1, Zenon DEF Encoders, NewEncoder, EncoderType
<1>5. /\ queue = [t \in Tracks |-> [frames |-> <<>>, needs |-> FALSE]]
      /\ backlogged = [t \in Tracks |-> FALSE]
      /\ sender = [t \in Tracks |-> [pc |-> "idle", frame |-> NoFrame]]
      /\ wire = [t \in Tracks |-> <<>>]
      /\ viewer = [t \in Tracks |-> NewDecoder]
      /\ captured = [n |-> 0, size |-> 1, fits |-> FALSE] /\ inbox = NoPicture /\ asked = <<>>
  BY DEF Init
<1>6. /\ queue \in [Tracks -> QueueType]
      /\ \A t \in Tracks : queue[t].frames = <<>>
  BY <1>5 DEF QueueType
<1>7. MacTyped
  <2>1. \A t \in Tracks : Len(queue[t].frames) <= Backlog
    BY <1>0, <1>6
  <2>2. \A t \in Tracks : enc[t].flight.pts <= pipe.pts
    BY <1>0, <1>3, <1>4
  <2>3. backlogged \in [Tracks -> BOOLEAN]
    BY <1>5
  <2> QED
    BY <1>3, <1>4, <1>6, <2>1, <2>2, <2>3 DEF MacTyped
<1>8. /\ wire \in [Tracks -> Seq(Frames)] /\ \A t \in Tracks : wire[t] = <<>>
      /\ sender \in [Tracks -> SenderType] /\ \A t \in Tracks : sender[t].pc = "idle"
  BY <1>0, <1>5 DEF SenderType
<1>9. viewer \in [Tracks -> ViewerType] /\ \A t \in Tracks : ~viewer[t].synced
  BY <1>5 DEF NewDecoder, ViewerType
<1>10. WayTyped
  <2>1. \A t \in Tracks : Len(wire[t]) <= Window
    BY <1>0, <1>8
  <2>2. asked \in Seq(Tracks) /\ captured \in Captured /\ inbox \in Pictures
    BY <1>0, <1>5 DEF Captured
  <2>3. inbox.n <= captured.n /\ pipe.now.last.n <= captured.n
    BY <1>0, <1>3, <1>5
  <2> QED
    BY <1>8, <1>9, <2>1, <2>2, <2>3 DEF WayTyped
<1>11. ASSUME NEW t \in Tracks
       PROVE  Unbroken(t)
  <2>1. \A x : Chain(x, <<>>) /\ EndOf(x, <<>>) = x
    BY <1>0 DEF Chain, EndOf
  <2>2. Carried(t)
    BY <1>8, <2>1 DEF Carried
  <2>3. Fed(AtSender(t), queue[t], enc[t])
    BY <1>4, <1>6, <2>1 DEF Fed
  <2> QED
    BY <2>2, <2>3 DEF Unbroken
<1> QED
  BY <1>7, <1>10, <1>11 DEF IInv, Typed

-----------------------------------------------------------------------------
(***************************************************************************)
(* From the decoder back to the encoder every frame of a track follows the *)
(* one it was encoded after, or a keyframe is still to come (queue.rs,     *)
(* Shared::run, send_track, decode).                                       *)
(***************************************************************************)
THEOREM Invariance == Spec => []IInv
BY InitHolds, NextKeeps, PTL DEF Spec

(* Queues and the network keep to their bounds, and the types of the rest. *)
THEOREM Types == Spec => []TypeOK
<1>1. ASSUME IInv
      PROVE  TypeOK
  <2>1. MacTyped /\ WayTyped
    BY <1>1, IInvFeeding
  <2>2. pipe.now.policy \in Policy /\ pipe.pts \in Nat /\ pipe.now.last.n \in Nat
    BY <2>1, MacParts, TheTracks DEF Pictures
  <2>3. pipe.now.last.n \in 0..captured.n
    BY <2>1, <2>2 DEF WayTyped
  <2>4. ASSUME NEW t \in Tracks
        PROVE  /\ Len(queue[t].frames) <= Backlog /\ queue[t].needs \in BOOLEAN
               /\ sender[t].pc \in {"idle", "sending", "sent"}
               /\ Len(wire[t]) <= Window
               /\ enc[t].flight.pts <= pipe.pts
    BY <2>1, MacParts, WayParts DEF QueueType, SenderType
  <2>5. backlogged \in [Tracks -> BOOLEAN]
    BY <2>1 DEF MacTyped
  <2> QED
    BY <2>2, <2>3, <2>4, <2>5 DEF TypeOK
<1> QED
  BY <1>1, Invariance, PTL

(***************************************************************************)
(* A decoder in step never takes a frame without the one it was encoded    *)
(* after, whatever overflowed, was dropped, put off or set up anew between *)
(* the encoder and it (queue::Sender::push, Shared::run, decode).          *)
(***************************************************************************)
THEOREM InStep == Spec => []NoGaps
<1>1. ASSUME IInv
      PROVE  NoGaps
  <2> SUFFICES ASSUME NEW t \in Tracks, wire[t] # <<>>, viewer[t].synced, ~Head(wire[t]).key
               PROVE  Head(wire[t]).ref = viewer[t].last
    BY DEF NoGaps
  <2>1. wire[t] \in Seq(Frames) /\ viewer[t].last \in Nat
    BY <1>1, IInvFeeding, WayParts DEF ViewerType
  <2>2. Chain(viewer[t].last, wire[t])
    BY <1>1, IInvFeeding DEF Unbroken, Carried, AtViewer
  <2>3. Fits(viewer[t].last, Head(wire[t]))
    BY <2>1, <2>2, ChainTail
  <2> QED
    BY <2>1, <2>3 DEF Fits, Any
<1> QED
  BY <1>1, Invariance, PTL
=============================================================================
