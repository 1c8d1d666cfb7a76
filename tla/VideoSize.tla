------------------------------ MODULE VideoSize ------------------------------
(***************************************************************************)
(* How large and fast an extra display is: what the viewer's settings ask   *)
(* the Mac for (legato-engine/src/config.rs), what the app says one will    *)
(* see (legato-app/src/view.rs), and what the Mac makes of the request      *)
(* (stream_config of legato-engine/src/extend.rs).                          *)
(*                                                                         *)
(* The code divides floating point numbers and rounds; here fractions are   *)
(* compared and rounded as such.                                           *)
(***************************************************************************)
EXTENDS Integers, FiniteSetsExt

Size(w, h) == [w |-> w, h |-> h]
NoSize == Size(0, 0)

HD == Size(1920, 1080)
QHD == Size(2560, 1440)

FRAME_RATES == {30, 60, 90, 120, 144}

(* Pixels a second the encoder manages: 1.95 ms for a million of them.       *)
PIXEL_RATE == 512820512

Clamp(v, low, high) == IF v < low THEN low ELSE IF v > high THEN high ELSE v

(* Video is encoded in blocks of two by two.                                 *)
Even(v) == 2 * (v \div 2)

UsableSize(s) == Size(Even(Clamp(s.w, 640, 7680)), Even(Clamp(s.h, 480, 4320)))

(* v * a / b, to the nearest whole number.                                   *)
Scaled(v, a, b) == (2 * v * a + b) \div (2 * b)

(* Whichever side is the tighter; never up.                                  *)
FitWithin(s, cap) ==
    IF s.w <= cap.w /\ s.h <= cap.h THEN Size(Even(s.w), Even(s.h))
    ELSE IF cap.w * s.h <= cap.h * s.w
    THEN Size(Even(cap.w), Even(Scaled(s.h, cap.w, s.w)))
    ELSE Size(Even(Scaled(s.w, cap.h, s.h)), Even(cap.h))

MaxFps(s) ==
    Max({30} \cup {fps \in FRAME_RATES : s.w * s.h <= PIXEL_RATE \div fps})

-----------------------------------------------------------------------------
(* The viewer. *)

Cap(quality) == CASE quality = "balanced" -> QHD [] quality = "fastest" -> HD

StreamSize(quality, display) ==
    IF quality \in {"adaptive", "sharpest"} THEN display
    ELSE FitWithin(display, Cap(quality))

SizeFor(settings, shown) == IF settings.fixed = NoSize THEN shown ELSE settings.fixed

(* What a viewer asks for; how many bits a second does not matter here.      *)
ExtendRequest(display, stream, moving, hidpi, fps) ==
    [display |-> display, stream |-> stream, moving |-> moving, hidpi |-> hidpi, fps |-> fps]

(* Extend::request_for.                                                      *)
RequestFor(settings, shown) ==
    LET display == UsableSize(SizeFor(settings, shown))
        stream == StreamSize(settings.quality, display)
        moving == FitWithin(stream, settings.whileMoving)
    IN  ExtendRequest(display, stream,
            IF settings.quality = "adaptive" /\ moving # stream THEN moving ELSE NoSize,
            settings.hidpi /\ display.w >= 2560 /\ display.h >= 1440,
            Clamp(settings.fps, 1, 144))

(* Mutant: the size it is sent at while things move is forgotten. *)
FramesSentSharp(request) == Clamp(request.fps, 1, MaxFps(request.stream))

(* frames_sent.                                                              *)
FramesSent(request) ==
    Clamp(request.fps, 1,
          MaxFps(IF request.moving = NoSize THEN request.stream ELSE request.moving))

(* "You'll see ... when still and ... while things move, at up to ... fps."  *)
StreamNote(settings, shown) ==
    LET r == RequestFor(settings, shown)
    IN  [still |-> r.stream, moving |-> r.moving, fps |-> FramesSent(r)]

-----------------------------------------------------------------------------
(* The Mac. *)

(* stream_config: whoever asks, sizes are usable and none is above the next. *)
StreamConfig(request) ==
    LET display == UsableSize(request.display)
        stream == IF request.stream = NoSize THEN display
                  ELSE FitWithin(UsableSize(request.stream), display)
        fitted == FitWithin(UsableSize(request.moving), stream)
        moving == IF request.moving = NoSize \/ fitted = stream THEN NoSize ELSE fitted
    IN  [display |-> display, stream |-> stream, moving |-> moving,
         hidpi |-> request.hidpi,
         refresh |-> Clamp(request.fps, 1, 144),
         fps |-> Clamp(request.fps, 1, MaxFps(IF moving = NoSize THEN stream ELSE moving)),
         sharpFps |-> MaxFps(stream)]
=============================================================================
