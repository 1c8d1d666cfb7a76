------------------------------- MODULE Stream -------------------------------
(***************************************************************************)
(* A Mac's extra display on its way to the viewer (legato-screen/src/mac/  *)
(* stream.rs and encode.rs; send_track, decode and Showing of              *)
(* legato-engine/src/extend.rs; extend/queue.rs).                          *)
(*                                                                         *)
(* Capture leaves its newest picture in an inbox of one.  The encoder      *)
(* thread takes it, asks the policy for a track and encodes it; a frame    *)
(* comes out at once or, overlapped, with the next.  Frames go to a        *)
(* bounded queue per track, from there to a task that sends them, each     *)
(* track on a stream of its own; the viewer has a decoder thread per       *)
(* track, and shows whichever picture is newest.  Keyframe requests come   *)
(* back from either.  A frame that is no keyframe makes sense only after   *)
(* the one it was encoded after, here its ref.                             *)
(*                                                                         *)
(* What a lock guards in the code is one step here.  Statistics are left   *)
(* out, and so are encoders that fail; pictures they drop are not.         *)
(***************************************************************************)
EXTENDS Integers, Sequences, FiniteSets, Adaptive

CONSTANTS
    Backlog,            \* frames a queue holds (3)
    Window,             \* frames between the sender's write and the decoder
    MaxPictures,        \* bound: pictures captured
    MaxConfigs,         \* bound: reconfigurations
    MaxErrors,          \* bound: frames a decoder fails on
    MaxDrops            \* bound: pictures an encoder drops

ASSUME StreamAssumption ==
    /\ {Backlog, Window} \subseteq Nat \ {0}
    /\ {MaxPictures, MaxConfigs, MaxErrors, MaxDrops} \subseteq Nat

VARIABLES
    captured,   \* [number of the newest picture, the size they have now,
                \*  whether the newest came at the pipeline's size since its start]
    inbox,      \* the picture the encoder thread has not taken, or NoPicture
    pipe,       \* Pipeline: policy, last picture, last timestamp, size
    enc,        \* [Tracks -> the encoder: last frame, frame in flight, overlap]
    queue,      \* [Tracks -> frames encoded, and whether a keyframe is needed]
    sender,     \* [Tracks -> what the sending task does, with which frame]
    backlogged, \* [Tracks -> BOOLEAN]
    wire,       \* [Tracks -> frames sent, or waiting for the decoder]
    viewer,     \* [Tracks -> synced, last frame decoded, the decoder's kind]
    shown,      \* the picture on the viewer's screen
    asked,      \* keyframe requests on their way to the Mac
    left        \* errors, drops and reconfigurations that may still happen

vars == <<captured, inbox, pipe, enc, queue, sender, backlogged, wire, viewer,
          shown, asked, left>>

NoPicture == [n |-> 0, size |-> 0, big |-> FALSE]
NoFrame == [n |-> 0, pts |-> 0, key |-> FALSE, ref |-> 0, track |-> SHARP]
NewEncoder(overlap) == [last |-> 0, flight |-> NoFrame, overlap |-> overlap]

Spend(what) == left[what] > 0 /\ left' = [left EXCEPT ![what] = @ - 1]

(* Pipeline::new; whether frames overlap depends on the size and the rate, *)
(* but those of an adaptive sharp track never do.                          *)
NewPipeline(adaptive, size) ==
    [policy |-> NewPolicy(adaptive), last |-> NoPicture, size |-> size]

Encoders(adaptive, overlap) ==
    [t \in Tracks |-> NewEncoder(overlap /\ (adaptive => t = MOVING))]

(* Decoder::new: the hardware's, which passed its self-check; one that does *)
(* not is a software decoder from the start, as after an error.            *)
NewDecoder == [synced |-> FALSE, last |-> 0, hardware |-> TRUE]

Init ==
    /\ captured = [n |-> 0, size |-> 1, fits |-> FALSE]
    /\ inbox = NoPicture
    /\ \E adaptive, overlap \in BOOLEAN :
          /\ pipe = [now |-> NewPipeline(adaptive, 1), pts |-> 0]
          /\ enc = Encoders(adaptive, overlap)
    /\ queue = [t \in Tracks |-> [frames |-> <<>>, needs |-> FALSE]]
    /\ sender = [t \in Tracks |-> [pc |-> "idle", frame |-> NoFrame]]
    /\ backlogged = [t \in Tracks |-> FALSE]
    /\ wire = [t \in Tracks |-> <<>>]
    /\ viewer = [t \in Tracks |-> NewDecoder]
    /\ shown = NoFrame
    /\ asked = <<>>
    /\ left = [what \in {"config", "error", "drop"} |->
                 CASE what = "config" -> MaxConfigs
                   [] what = "error"  -> MaxErrors
                   [] what = "drop"   -> MaxDrops]

-----------------------------------------------------------------------------
(* The queue of a track. *)

(* Mutant: a frame that finds no room is dropped, and that is all. *)
PushAnyway(q, f) ==
    IF f = NoFrame \/ Len(q.frames) = Backlog THEN q
    ELSE [q EXCEPT !.frames = Append(@, f)]

(* queue::Sender::push: after a dropped frame none that depends on it. *)
Push(q, f) ==
    IF f = NoFrame \/ (q.needs /\ ~f.key) THEN q
    ELSE IF Len(q.frames) = Backlog THEN [q EXCEPT !.needs = TRUE]
    ELSE [frames |-> Append(q.frames, f), needs |-> FALSE]

-----------------------------------------------------------------------------
(* The Mac's pipeline, behind its lock. *)

(* What the encoder makes of picture n: a keyframe if it is told to, or if  *)
(* it is its first, else a frame that follows on from its last.            *)
Frame(track, key, n) ==
    [n |-> n, pts |-> pipe.pts + 1, key |-> key \/ enc[track].last = 0,
     ref |-> IF key THEN 0 ELSE enc[track].last, track |-> track]

(* Encoder::encode_overlapped: the frame before comes out, this one not yet. *)
EncodeOverlapped(track, f) ==
    /\ enc[track].overlap
    /\ enc' = [enc EXCEPT ![track] = [@ EXCEPT !.last = f.pts, !.flight = f]]
    /\ queue' = [queue EXCEPT ![track] = Push(@, enc[track].flight)]
    /\ UNCHANGED left

(* Encoder::encode_now: both come out. *)
EncodeNow(track, f) ==
    /\ enc' = [enc EXCEPT ![track] = [@ EXCEPT !.last = f.pts, !.flight = NoFrame]]
    /\ queue' = [queue EXCEPT ![track] = Push(Push(@, enc[track].flight), f)]
    /\ UNCHANGED left

(* The encoder cannot keep up and drops the picture. *)
Drop(track, f) ==
    /\ ~f.key /\ Spend("drop")
    /\ enc' = [enc EXCEPT ![track].flight = NoFrame]
    /\ queue' = [queue EXCEPT ![track] = Push(@, enc[track].flight)]

(* Encoding::encode, with the timestamp every track shares the clock for.   *)
Encoded(p, track, key, n) ==
    LET f == Frame(track, key, n) IN
    /\ pipe' = [now |-> p, pts |-> f.pts]
    /\ EncodeOverlapped(track, f) \/ EncodeNow(track, f) \/ Drop(track, f)

(* Shared::run: a decision about a picture is carried out, or put off while *)
(* the track's frames back up on the network.                              *)
Run(p, decision, n) ==
    IF decision.kind = "wait" \/ (backlogged[decision.track] /\ ~decision.key)
    THEN /\ pipe' = [pipe EXCEPT !.now = [p EXCEPT !.policy = Deferred(@, decision)]]
         /\ UNCHANGED <<enc, queue, left>>
    ELSE Encoded(p, decision.track, decision.key, n)

(* Shared::deliver: a newer picture replaces one that waits, and carries    *)
(* what changed in it.                                                     *)
Deliver(size, big) ==
    inbox' = [n |-> captured.n + 1, size |-> size, big |-> big \/ inbox.big]

(* Something changes on the display, and ScreenCaptureKit hands over a      *)
(* picture, with how much of it changed.                                   *)
Capture(big) ==
    /\ captured.n < MaxPictures
    /\ captured' = [captured EXCEPT !.n = @ + 1,
                                    !.fits = captured.size = pipe.now.size]
    /\ Deliver(captured.size, big)
    /\ UNCHANGED <<pipe, enc, queue, sender, backlogged, wire, viewer, shown,
                   asked, left>>

(* The encoder thread takes the picture (encode_loop, on_picture).  One of  *)
(* an old size is let go.                                                  *)
TakePicture ==
    /\ inbox # NoPicture
    /\ inbox' = NoPicture
    /\ IF inbox.size # pipe.now.size
       THEN UNCHANGED <<pipe, enc, queue, left>>
       ELSE \E sustained, ready \in BOOLEAN :
              LET o == OnFrame(pipe.now.policy, inbox.big, sustained, ready)
              IN  Run([pipe.now EXCEPT !.policy = o.policy, !.last = inbox],
                      o.decision, inbox.n)
    /\ UNCHANGED <<captured, sender, backlogged, wire, viewer, shown, asked>>

(* Shared::on_tick: a frame left in flight is sent, and a still screen is   *)
(* sharpened.  Only ticks that do something are steps.                     *)
Flush(track) ==
    /\ enc[track].flight # NoFrame
    /\ enc' = [enc EXCEPT ![track].flight = NoFrame]
    /\ queue' = [queue EXCEPT ![track] = Push(@, enc[track].flight)]
    /\ UNCHANGED <<captured, inbox, pipe, sender, backlogged, wire, viewer,
                   shown, asked, left>>

Tick(ready) ==
    LET o == OnTick(pipe.now.policy, ready) IN
    /\ TickDue(pipe.now.policy, TRUE, ready, TRUE)
    /\ IF pipe.now.last = NoPicture
       THEN /\ pipe' = [pipe EXCEPT !.now.policy = o.policy]
            /\ UNCHANGED <<enc, queue, left>>
       ELSE Run([pipe.now EXCEPT !.policy = o.policy], o.decision, pipe.now.last.n)
    /\ UNCHANGED <<captured, inbox, sender, backlogged, wire, viewer, shown, asked>>

(* DisplayStream::request_keyframe: the last picture is sent again if the   *)
(* track is in use.                                                        *)
RequestKeyframe(track) ==
    LET owing == Owe(pipe.now.policy, track)
        o == Encode(owing, track)
    IN  IF track # Current(owing)
        THEN /\ pipe' = [pipe EXCEPT !.now.policy = owing]
             /\ UNCHANGED <<enc, queue, left>>
        ELSE IF pipe.now.last = NoPicture
        THEN /\ pipe' = [pipe EXCEPT !.now.policy = o.policy]
             /\ UNCHANGED <<enc, queue, left>>
        ELSE Run([pipe.now EXCEPT !.policy = o.policy], o.decision, pipe.now.last.n)

(* DisplayStream::reconfigure: every track starts again, at a new size or,  *)
(* when only its rate, quality or tracks change, at the old; the encoders   *)
(* that go complete what they hold, and the last picture is forgotten.      *)
Reconfigure(adaptive, overlap, resizes) ==
    /\ captured.size = pipe.now.size
    /\ Spend("config")
    /\ pipe' = [pipe EXCEPT !.now = NewPipeline(adaptive, IF resizes THEN @.size + 1
                                                                    ELSE @.size)]
    /\ captured' = [captured EXCEPT !.fits = FALSE]
    /\ enc' = Encoders(adaptive, overlap)
    /\ queue' = [t \in Tracks |-> Push(queue[t], enc[t].flight)]
    /\ UNCHANGED <<inbox, sender, backlogged, wire, viewer, shown, asked>>

(* Capture has its new size; a picture follows when something changes.      *)
CaptureResized ==
    /\ captured.size < pipe.now.size
    /\ captured' = [captured EXCEPT !.size = pipe.now.size]
    /\ UNCHANGED <<inbox, pipe, enc, queue, sender, backlogged, wire, viewer,
                   shown, asked, left>>

-----------------------------------------------------------------------------
(* A track's sending task (send_track). *)

TakeFrame(track) ==
    /\ sender[track].pc = "idle" /\ queue[track].frames # <<>>
    /\ sender' = [sender EXCEPT ![track] = [pc |-> "sending", frame |-> Head(queue[track].frames)]]
    /\ queue' = [queue EXCEPT ![track].frames = Tail(@)]
    /\ backlogged' = [backlogged EXCEPT ![track] = TRUE]
    /\ UNCHANGED <<captured, inbox, pipe, enc, wire, viewer, shown, asked, left>>

(* The network takes it. *)
Sent(track) ==
    /\ sender[track].pc = "sending" /\ Len(wire[track]) < Window
    /\ wire' = [wire EXCEPT ![track] = Append(@, sender[track].frame)]
    /\ sender' = [sender EXCEPT ![track] = [pc |-> "sent", frame |-> NoFrame]]
    /\ backlogged' = [backlogged EXCEPT ![track] = FALSE]
    /\ UNCHANGED <<captured, inbox, pipe, enc, queue, viewer, shown, asked, left>>

(* Mutant: the gap in a track is left for the viewer to notice. *)
NeedsNoKeyframe(track) == FALSE

(* queue::Receiver::needs_keyframe. *)
NeedsKeyframe(track) == queue[track].needs

(* There may be room again: what was dropped is sent anew. *)
AfterSend(track) ==
    /\ sender[track].pc = "sent"
    /\ sender' = [sender EXCEPT ![track].pc = "idle"]
    /\ IF NeedsKeyframe(track) THEN RequestKeyframe(track)
       ELSE UNCHANGED <<pipe, enc, queue, left>>
    /\ UNCHANGED <<captured, inbox, backlogged, wire, viewer, shown, asked>>

(* The viewer's request reaches the Mac (Host::request_keyframe). *)
HearRequest ==
    /\ asked # <<>>
    /\ asked' = Tail(asked)
    /\ RequestKeyframe(Head(asked))
    /\ UNCHANGED <<captured, inbox, sender, backlogged, wire, viewer, shown>>

-----------------------------------------------------------------------------
(* The viewer. *)

(* Showing::show: the newest picture of any track. *)
Show(f) == IF f.pts > shown.pts THEN f ELSE shown

(* A decoder thread takes the next frame. *)
Take(track) ==
    /\ wire[track] # <<>>
    /\ wire' = [wire EXCEPT ![track] = Tail(@)]
    /\ UNCHANGED <<captured, inbox, pipe, enc, queue, sender, backlogged>>

(* Pictures only make sense from a keyframe on. *)
Sensible(track) == viewer[track].synced \/ Head(wire[track]).key

Skip(track) ==
    /\ Take(track) /\ ~Sensible(track)
    /\ UNCHANGED <<viewer, shown, asked, left>>

(* Decoder::decode gives the one picture of the frame. *)
Decode(track) ==
    /\ Take(track) /\ Sensible(track)
    /\ viewer' = [viewer EXCEPT ![track].synced = TRUE, ![track].last = Head(wire[track]).pts]
    /\ shown' = Show(Head(wire[track]))
    /\ UNCHANGED <<asked, left>>

(* It fails, is replaced by a software decoder, and the thread asks for a   *)
(* keyframe to begin with.                                                 *)
DecodeFails(track) ==
    /\ Take(track) /\ Sensible(track)
    /\ Spend("error")
    /\ viewer' = [viewer EXCEPT ![track].synced = FALSE, ![track].hardware = FALSE]
    /\ asked' = Append(asked, track)
    /\ UNCHANGED shown

-----------------------------------------------------------------------------

Mac == \/ TakePicture \/ HearRequest
       \/ \E track \in Tracks : Flush(track)
       \/ \E ready \in BOOLEAN : Tick(ready)

Track(track) == \/ TakeFrame(track) \/ Sent(track) \/ AfterSend(track)
                \/ Skip(track) \/ Decode(track) \/ DecodeFails(track)

Next ==
    \/ Mac \/ CaptureResized
    \/ \E track \in Tracks : Track(track)
    \/ \E big \in BOOLEAN : Capture(big)
    \/ \E adaptive, overlap, resizes \in BOOLEAN :
          Reconfigure(adaptive, overlap, resizes)

(* Threads and tasks go on, time passes, and the network takes frames. *)
Fairness ==
    /\ WF_vars(TakePicture)
    /\ WF_vars(HearRequest)
    /\ WF_vars(Tick(TRUE))
    /\ WF_vars(CaptureResized)
    /\ \A track \in Tracks :
          /\ WF_vars(Flush(track))
          /\ WF_vars(Track(track))

Spec == Init /\ [][Next]_vars
FairSpec == Spec /\ Fairness

-----------------------------------------------------------------------------

(* The type invariant. *)
TypeOK ==
    /\ pipe.now.policy \in Policy
    /\ pipe.now.last.n \in 0..captured.n /\ pipe.pts \in Nat
    /\ backlogged \in [Tracks -> BOOLEAN]
    /\ \A t \in Tracks :
         /\ Len(queue[t].frames) <= Backlog /\ queue[t].needs \in BOOLEAN
         /\ sender[t].pc \in {"idle", "sending", "sent"}
         /\ Len(wire[t]) <= Window
         /\ enc[t].flight.pts <= pipe.pts

(* A decoder never takes a frame without the one it was encoded after, also *)
(* when queues overflow, pictures are dropped and sizes change under way    *)
(* (queue::Sender::push, Shared::run).                                     *)
NoGaps ==
    \A t \in Tracks :
        wire[t] # <<>> /\ viewer[t].synced /\ ~Head(wire[t]).key =>
            Head(wire[t]).ref = viewer[t].last

(* Once the screen is still the viewer shows it as it is, and sharp: what   *)
(* was skipped, replaced, put off, dropped or not decoded is made up for.   *)
(* A picture the encoder itself drops is not, the code has no answer then;  *)
(* nor is one from before a reconfiguration, which forgets it.              *)
StillIsSharp ==
    <>[](captured.fits /\ left["drop"] = MaxDrops =>
            shown.n = captured.n /\ shown.track = SHARP)

(* The same without a picture since the reconfiguration, which the code     *)
(* does not keep: "every track starts again with a keyframe"                *)
(* (DisplayStream::reconfigure), of a picture that need not come.           *)
StillIsSharpAnyway ==
    <>[](captured.n > 0 /\ left["drop"] = MaxDrops =>
            shown.n = captured.n /\ shown.track = SHARP)
=============================================================================
