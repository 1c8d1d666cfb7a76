------------------------------ MODULE MCExtend ------------------------------
(* One viewer, two Macs; its window grows past what the encoder manages at    *)
(* full rate, or is flatter than any display.                                *)
EXTENDS Extend

MCAreas == <<Size(3840, 800), Size(3840, 2160)>>
MCMoreAreas == Append(MCAreas, Size(5120, 2160))
MCSettings ==
    [fixed : {NoSize, Size(3440, 1440)},
     quality : {"adaptive", "sharpest", "balanced", "fastest"},
     whileMoving : {HD, QHD}, hidpi : {TRUE}, fps : {60, 144}]
=============================================================================
