------------------------------ MODULE Adaptive ------------------------------
(***************************************************************************)
(* The policy that puts each picture on a track (legato-screen/src/        *)
(* adaptive.rs): the sharp one while little changes, the smaller, quicker  *)
(* one while much of the screen moves, and sharp again once it is still.   *)
(*                                                                         *)
(* How much time has passed is a parameter: whether a second big change    *)
(* came soon enough, whether the screen has been still for long, whether   *)
(* the sharp track is at its frame rate.                                   *)
(***************************************************************************)

SHARP == "sharp"
MOVING == "moving"
Tracks == {SHARP, MOVING}

Policy == [adaptive : BOOLEAN, moving : BOOLEAN, big : BOOLEAN,
           pending : BOOLEAN, touchUp : BOOLEAN, key : [Tracks -> BOOLEAN]]

NewPolicy(adaptive) ==
    [adaptive |-> adaptive, moving |-> FALSE, big |-> FALSE, pending |-> FALSE,
     touchUp |-> FALSE, key |-> [t \in Tracks |-> TRUE]]

Wait == [kind |-> "wait", track |-> SHARP, key |-> FALSE]

Current(p) == IF p.moving THEN MOVING ELSE SHARP

(* A decision comes with the policy after it: the keyframe owed is taken.  *)
Outcome(p, decision) == [policy |-> p, decision |-> decision]

Encode(p, track) ==
    Outcome([p EXCEPT !.key[track] = FALSE],
            [kind |-> "encode", track |-> track, key |-> p.key[track]])

Sharpen(p) ==
    Outcome([p EXCEPT !.key[SHARP] = FALSE],
            [kind |-> "sharpen", track |-> SHARP, key |-> p.key[SHARP]])

(* Policy::on_frame: a picture with a big change, or a small one. *)
OnFrame(p, big, sustained, ready) ==
    LET q == [p EXCEPT !.touchUp = FALSE,
                       !.moving = @ \/ (p.adaptive /\ big /\ p.big /\ sustained),
                       !.big = @ \/ (p.adaptive /\ big)]
    IN  IF q.moving THEN Encode([q EXCEPT !.pending = FALSE], MOVING)
        ELSE IF ready \/ ~p.adaptive THEN Encode(q, SHARP)
        ELSE Outcome([q EXCEPT !.pending = TRUE], Wait)

(* Policy::on_tick says what to do, if anything. *)
TickDue(p, settled, ready, due) ==
    IF p.moving THEN settled ELSE (p.pending /\ ready) \/ (p.touchUp /\ due)

OnTick(p, ready) ==
    IF p.moving
    THEN Sharpen([p EXCEPT !.moving = FALSE, !.pending = FALSE, !.touchUp = TRUE])
    ELSE IF p.pending /\ ready THEN Encode([p EXCEPT !.pending = FALSE], SHARP)
    ELSE Sharpen([p EXCEPT !.touchUp = FALSE])

(* Mutant: a picture that could not be sent is not tried again. *)
DeferredForGood(p, decision) ==
    [p EXCEPT !.key[decision.track] = @ \/ decision.key]

(* Policy::deferred: the network is backed up. *)
Deferred(p, decision) ==
    IF decision.kind = "wait" THEN p
    ELSE [p EXCEPT !.key[decision.track] = @ \/ decision.key,
                   !.pending = @ \/ decision.track = SHARP]

(* Policy::keyframe_now: at once on the track in use, else with its next   *)
(* frame, which leaves nothing to decide.                                  *)
Owe(p, track) == [p EXCEPT !.key[track] = TRUE]
=============================================================================
