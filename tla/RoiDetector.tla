----------------------------- MODULE RoiDetector -----------------------------
(***************************************************************************)
(* ROI_Detector::consolidate_rectangles (src/ImageProcessing/              *)
(* ROI_Detector.cpp): the bounding rectangles of the contours, sorted by   *)
(* area, are compared pair by pair; a rectangle that lies in a larger one  *)
(* is erased, one that mostly does is merged into it.  The iterators are   *)
(* indices, one step is one round of a loop.                               *)
(***************************************************************************)
EXTENDS Integers, Sequences

CONSTANTS
    Rects,        \* the rectangles a contour may have
    MaxRects      \* bound: contours of a frame

\* cv::Rect; the bounding rectangle of a contour has an area.
Rect == [x : Int, y : Int, width : Nat \ {0}, height : Nat \ {0}]

ASSUME RectsAssumption == Rects \subseteq Rect
ASSUME MaxRectsAssumption == MaxRects \in Nat

VARIABLES
    rects,        \* the regions of interest of the frame
    small,        \* small_it
    large,        \* large_it
    contours      \* history: the rectangles of the contours

vars == <<rects, small, large, contours>>

---------------------------------------------------------------------------
(* Rectangles.                                                             *)

Least(a, b) == IF a < b THEN a ELSE b
Most(a, b) == IF a < b THEN b ELSE a
Right(r) == r.x + r.width
Bottom(r) == r.y + r.height
Area(r) == r.width * r.height

\* is_inside_
Inside(s, l) ==
    s.x >= l.x /\ s.y >= l.y /\ Right(s) <= Right(l) /\ Bottom(s) <= Bottom(l)

\* overlap_percentage_: s & l is empty unless both sides are positive.
CommonWidth(s, l) == Most(0, Least(Right(s), Right(l)) - Most(s.x, l.x))
CommonHeight(s, l) == Most(0, Least(Bottom(s), Bottom(l)) - Most(s.y, l.y))
Overlap(s, l) == (100 * (CommonWidth(s, l) * CommonHeight(s, l))) \div Area(s)

\* Regression: x is moved before the width is extended by the difference.
MergedMovesFirst(s, l) ==
    [x      |-> Least(l.x, s.x),
     y      |-> Least(l.y, s.y),
     width  |-> l.width + Most(0, Right(s) - (Least(l.x, s.x) + l.width)),
     height |-> l.height + Most(0, Bottom(s) - (Least(l.y, s.y) + l.height))]

\* Regression: the right edge is compared before the left one has moved.
MergedOvershoots(s, l) ==
    [x      |-> Least(l.x, s.x),
     y      |-> Least(l.y, s.y),
     width  |-> Most(0, l.x - s.x) + l.width + Most(0, Right(s) - l.width),
     height |-> Most(0, l.y - s.y) + l.height + Most(0, Bottom(s) - l.height)]

\* The larger one made larger: first to the left and up, then to the right
\* and down.
Merged(s, l) ==
    LET x == Least(l.x, s.x)
        y == Least(l.y, s.y)
        w == l.width + Most(0, l.x - s.x)
        h == l.height + Most(0, l.y - s.y)
    IN  [x |-> x, y |-> y,
         width |-> w + Most(0, Right(s) - (x + w)),
         height |-> h + Most(0, Bottom(s) - (y + h))]

\* vector::erase
Without(s, i) == [k \in 1 .. Len(s) - 1 |-> IF k < i THEN s[k] ELSE s[k + 1]]

---------------------------------------------------------------------------
\* std::sort by area, in any order among equals.
Sorted(s) == \A i \in 1 .. Len(s) - 1 : Area(s[i]) <= Area(s[i + 1])

Init ==
    /\ \E n \in 0 .. MaxRects : rects \in {s \in [1 .. n -> Rects] : Sorted(s)}
    /\ contours = {rects[i] : i \in DOMAIN rects}
    /\ small = 1
    /\ large = Len(rects)

Comparing == large > small
Percentage == Overlap(rects[small], rects[large])

\* Regression: std::remove in place of vector::erase, which moves the others
\* up and leaves the list as long as it was.
NestedMovesUp ==
    /\ Comparing /\ Percentage = 100
    /\ rects' = [k \in DOMAIN rects |->
                   IF k < small THEN rects[k] ELSE rects[Least(k + 1, Len(rects))]]
    /\ large' = Len(rects) - 1
    /\ UNCHANGED <<small, contours>>

\* goto here: the outer loop goes on with the rectangle that has moved up.
Nested ==
    /\ Comparing /\ Percentage = 100
    /\ rects' = Without(rects, small)
    /\ large' = Len(rects) - 1
    /\ UNCHANGED <<small, contours>>

\* Regression: the loop goes on after the erase without stepping back.
MergeWithoutStep ==
    /\ Comparing /\ Percentage > 85 /\ Percentage # 100
    /\ rects' = Without([rects EXCEPT ![large] = Merged(rects[small], @)], small)
    /\ UNCHANGED <<small, large, contours>>

Merge ==
    /\ Comparing /\ Percentage > 85 /\ Percentage # 100
    /\ rects' = Without([rects EXCEPT ![large] = Merged(rects[small], @)], small)
    /\ large' = large - 1
    /\ UNCHANGED <<small, contours>>

\* Regression: the jump to the outer loop is taken in every case.
ApartRestarts ==
    /\ Comparing /\ Percentage <= 85
    /\ large' = Len(rects)
    /\ UNCHANGED <<rects, small, contours>>

Apart ==
    /\ Comparing /\ Percentage <= 85
    /\ large' = large - 1
    /\ UNCHANGED <<rects, small, contours>>

NextSmall ==
    /\ ~Comparing /\ small <= Len(rects)
    /\ small' = small + 1
    /\ large' = Len(rects)
    /\ UNCHANGED <<rects, contours>>

Next == Nested \/ Merge \/ Apart \/ NextSmall

Spec == Init /\ [][Next]_vars
FairSpec == Spec /\ WF_vars(Next)

Done == small > Len(rects)

---------------------------------------------------------------------------
\* The indices stay where a rectangle is: an erase moves the vector under
\* both iterators, and one of them is stepped back (consolidate_rectangles).
TypeOK ==
    /\ rects \in Seq(Rect)
    /\ small \in 1 .. Len(rects) + 1
    /\ large \in 0 .. Len(rects)
    /\ contours \subseteq Rects

\* No region that was found is lost: at every moment each contour lies in a
\* rectangle of the list, whatever was erased and merged (consolidate_rectangles).
NoRegionLost ==
    \A r \in contours : \E i \in DOMAIN rects : Inside(r, rects[i])

\* Merging invents no area: every edge of a rectangle is an edge of a contour
\* (the arithmetic of consolidate_rectangles).
EdgesFound ==
    \A i \in DOMAIN rects :
        /\ \E r \in contours : rects[i].x = r.x
        /\ \E r \in contours : rects[i].y = r.y
        /\ \E r \in contours : Right(rects[i]) = Right(r)
        /\ \E r \in contours : Bottom(rects[i]) = Bottom(r)

\* The two loops end, although an erase restarts one of them.
Ends == <>Done

\* The rounds that are left at most: as many as fit into a list of MaxRects for
\* each rectangle that small_it has not passed, and those of this one.
Remaining == (Len(rects) + 1 - small) * (MaxRects + 2) + large

\* Although an erase restarts the inner loop (goto here), the rounds are of the
\* order of the square of the contours and not of the cube: no round makes up
\* for what an erase or a step of small_it takes away (consolidate_rectangles).
RoundsRunOut == [][Remaining' < Remaining]_vars
=============================================================================
