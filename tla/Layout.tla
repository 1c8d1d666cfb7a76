------------------------------- MODULE Layout -------------------------------
(***************************************************************************)
(* Machines on a shared desk (legato-core/src/layout.rs), where a configured *)
(* peer sits (legato-engine/src/arrange.rs) and where one that is dragged    *)
(* there lands (legato-app/src/snap.rs).                                     *)
(*                                                                         *)
(* A machine's displays are rectangles in its own units, some of which make  *)
(* a desk unit; its offset is where its origin is on the desk.               *)
(***************************************************************************)
EXTENDS Integers, Sequences, FiniteSetsExt

Nowhere == [placed |-> FALSE]
Place(x, y) == [placed |-> TRUE, x |-> x, y |-> y]
Mirrored(o) == IF o.placed THEN Place(-o.x, -o.y) ELSE Nowhere

Box(x, y, w, h) == [x |-> x, y |-> y, w |-> w, h |-> h]
Right(r) == r.x + r.w
Bottom(r) == r.y + r.h

Overlap(a, b) ==
    /\ a.x < Right(b) /\ b.x < Right(a)
    /\ a.y < Bottom(b) /\ b.y < Bottom(a)

(* A machine's displays in desk units, left to right.                        *)
DeskRect(screens, o, i) ==
    LET r == screens.displays[i]
        s == screens.perDesk
    IN  Box(r.x \div s + o.x, r.y \div s + o.y, r.w \div s, r.h \div s)

DeskRects(screens, o) == {DeskRect(screens, o, i) : i \in DOMAIN screens.displays}

Bounds(screens) ==
    LET rects == DeskRects(screens, Place(0, 0))
        x == Min({r.x : r \in rects})
        y == Min({r.y : r \in rects})
    IN  Box(x, y, Max({Right(r) : r \in rects}) - x, Max({Bottom(r) : r \in rects}) - y)

(* The offset that takes the machine's bounding box there.                   *)
PlaceAt(screens, at) ==
    LET box == Bounds(screens) IN Place(at.x - box.x, at.y - box.y)

PlaceNextToLocal(local, screens, n) ==
    IF n.display \notin DOMAIN local.displays THEN Nowhere
    ELSE LET anchor == DeskRect(local, Place(0, 0), n.display)
             box == Bounds(screens)
             along(start, size, len) ==
                 CASE n.align = "start" -> start
                   [] n.align = "center" -> start + (size - len) \div 2
                   [] n.align = "end" -> start + size - len
         IN  PlaceAt(screens,
               CASE n.side = "below" -> Place(along(anchor.x, anchor.w, box.w), Bottom(anchor))
                 [] n.side = "above" -> Place(along(anchor.x, anchor.w, box.w), anchor.y - box.h)
                 [] n.side = "right" -> Place(Right(anchor), along(anchor.y, anchor.h, box.h))
                 [] n.side = "left" -> Place(anchor.x - box.w, along(anchor.y, anchor.h, box.h)))

-----------------------------------------------------------------------------
(* arrange::build, for one peer: its own arrangement here comes first.       *)

NotArranged == [kind |-> "none"]
At(place) == [kind |-> "at", place |-> place]
NextTo(display, side, align) ==
    [kind |-> "next", display |-> display, side |-> side, align |-> align]

Build(local, screens, neighbor, placedUs) ==
    CASE neighbor.kind = "at" -> PlaceAt(screens, neighbor.place)
      [] neighbor.kind = "next" -> PlaceNextToLocal(local, screens, neighbor)
      [] neighbor.kind = "none" -> Mirrored(placedUs)

-----------------------------------------------------------------------------
(* snap: the nearest place where the box touches a display of this machine   *)
(* along an outer edge.                                                      *)

Sides == <<"below", "above", "left", "right">>

Within(v, low, high) == IF v < low THEN low ELSE IF v > high THEN high ELSE v

MinOverlap(a, b) == Within(Min({a, b}) \div 4, 1, 200)

Flush(l, box, side) ==
    IF side \in {"below", "above"}
    THEN LET shared == MinOverlap(box.w, l.w)
         IN  Box(Within(box.x, l.x - box.w + shared, Right(l) - shared),
                 IF side = "below" THEN Bottom(l) ELSE l.y - box.h, box.w, box.h)
    ELSE LET shared == MinOverlap(box.h, l.h)
         IN  Box(IF side = "right" THEN Right(l) ELSE l.x - box.w,
                 Within(box.y, l.y - box.h + shared, Bottom(l) - shared), box.w, box.h)

Landings(local, box) ==
    {[order |-> 4 * l.i + k, rect |-> Flush(l.rect, box, Sides[k])] :
        l \in {[i |-> i, rect |-> DeskRect(local, Place(0, 0), i)] : i \in DOMAIN local.displays},
        k \in DOMAIN Sides}

(* Mutant: a display the box would cover is no obstacle. *)
Everywhere(local, box) == Landings(local, box)

Free(local, box) ==
    {c \in Landings(local, box) :
        \A r \in DeskRects(local, Place(0, 0)) : ~Overlap(r, c.rect)}

(* The nearest, and the first of several.                                    *)
Snap(local, box) ==
    LET far(c) == (c.rect.x - box.x) ^ 2 + (c.rect.y - box.y) ^ 2
        free == {[far |-> far(c), order |-> c.order, rect |-> c.rect] : c \in Free(local, box)}
        best == CHOOSE c \in free : \A d \in free :
                    d.far > c.far \/ (d.far = c.far /\ d.order >= c.order)
    IN  IF free = {} THEN Nowhere ELSE Place(best.rect.x, best.rect.y)

-----------------------------------------------------------------------------
(* place_extra_display: where a Mac's extra display goes, in the Mac's units, *)
(* so that it is beside the Mac's main display as it is shown here.  Twice     *)
(* the centre of a box keeps to whole numbers.                               *)

Centre2(r) == Place(2 * r.x + r.w, 2 * r.y + r.h)

(* Primary displays are at the origin.                                       *)
Main(screens) ==
    LET primary == {i \in DOMAIN screens.displays :
                      screens.displays[i].x = 0 /\ screens.displays[i].y = 0}
    IN  IF primary = {} THEN 1 ELSE Min(primary)

Shown(local, area) ==
    Box(area.x \div local.perDesk, area.y \div local.perDesk,
        area.w \div local.perDesk, area.h \div local.perDesk)

(* Mutant: the offset is carried across as it is. *)
AlongLoose(start, len, edge, size) == start

(* A good stretch of the edge in common, for the pointer to cross.           *)
AlongEdge(start, len, edge, size) ==
    LET stretch == Max({Min({len, size}) \div 4, 1})
    IN  Within(start, edge - len + stretch, edge + size - stretch)

PlaceExtraDisplay(local, screens, o, area, size) ==
    LET main == screens.displays[Main(screens)]
        desk == DeskRect(screens, o, Main(screens))
        shown == Shown(local, area)
        x == Centre2(shown).x - Centre2(desk).x
        y == Centre2(shown).y - Centre2(desk).y
        far(a, wide) == (IF a < 0 THEN -a ELSE a) * wide
        start(middle, off, len) == (middle + off * screens.perDesk - len) \div 2
    IN  IF far(y, shown.w + desk.w) >= far(x, shown.h + desk.h)
        THEN Box(AlongEdge(start(Centre2(main).x, x, size.w), size.w, main.x, main.w),
                 IF y < 0 THEN main.y - size.h ELSE Bottom(main), size.w, size.h)
        ELSE Box(IF x < 0 THEN main.x - size.w ELSE Right(main),
                 AlongEdge(start(Centre2(main).y, y, size.h), size.h, main.y, main.h),
                 size.w, size.h)
=============================================================================
