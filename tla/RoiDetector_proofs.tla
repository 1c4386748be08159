------------------------- MODULE RoiDetector_proofs -------------------------
(***************************************************************************)
(* The consolidation of rectangles, for every set of rectangles and every  *)
(* number of them: the indices stay valid, no contour is lost and no edge  *)
(* is invented.                                                            *)
(***************************************************************************)
EXTENDS RoiDetector, TLAPS

---------------------------------------------------------------------------
(* Arithmetic of rectangles.                                               *)

\* A part of a product that is as large as the whole has both factors whole.
LEMMA WholeProduct ==
    ASSUME NEW a \in Nat, NEW b \in Nat, NEW w \in Nat \ {0}, NEW h \in Nat \ {0},
           a <= w, b <= h, a * b >= w * h
    PROVE  a = w /\ b = h
<1>1. a * b <= w * b
  BY SMT
<1>2. w * b <= w * h
  BY SMT
<1>3. a * b <= a * h
  BY SMT
<1>4. a * h <= w * h
  BY SMT
<1>5. w * b = w * h /\ a * h = w * h
  BY <1>1, <1>2, <1>3, <1>4, SMT
<1>6. b = h
  <2>1. ASSUME b < h PROVE FALSE
    <3>1. h - b >= 1 /\ h - b \in Nat
      BY <2>1
    <3>2. w * (h - b) >= 1
      BY <3>1, SMT
    <3>3. w * (h - b) = w * h - w * b
      BY SMT
    <3>4. QED BY <3>2, <3>3, <1>5, SMT
  <2>2. QED BY <2>1, SMT
<1>7. a = w
  <2>1. ASSUME a < w PROVE FALSE
    <3>1. w - a >= 1 /\ w - a \in Nat
      BY <2>1
    <3>2. (w - a) * h >= 1
      BY <3>1, SMT
    <3>3. (w - a) * h = w * h - a * h
      BY SMT
    <3>4. QED BY <3>2, <3>3, <1>5, SMT
  <2>2. QED BY <2>1, SMT
<1>8. QED BY <1>6, <1>7

\* An overlap of 100 % means that the smaller one lies in the larger one.
LEMMA FullOverlap ==
    ASSUME NEW s \in Rect, NEW l \in Rect, Overlap(s, l) = 100
    PROVE  Inside(s, l)
<1> DEFINE a == CommonWidth(s, l)
           b == CommonHeight(s, l)
           w == s.width
           h == s.height
<1>1. w \in Nat \ {0} /\ h \in Nat \ {0}
  BY DEF Rect
<1>2. a \in Nat /\ a <= w
  BY DEF Rect, CommonWidth, Most, Least, Right
<1>3. b \in Nat /\ b <= h
  BY DEF Rect, CommonHeight, Most, Least, Bottom
<1>4. w * h \in Nat /\ w * h > 0 /\ a * b \in Nat
  BY <1>1, <1>2, <1>3, SMT
<1>5. (100 * (a * b)) \div (w * h) = 100
  BY DEF Overlap, Area
<1>6. a * b >= w * h
  <2>1. \A p, q \in Nat : q > 0 /\ (100 * p) \div q = 100 => p >= q
    BY SMT
  <2> HIDE DEF a, b, w, h
  <2>2. QED BY <1>4, <1>5, <2>1
<1>7. a = w /\ b = h
  <2> HIDE DEF a, b, w, h
  <2>1. QED BY <1>1, <1>2, <1>3, <1>6, WholeProduct
<1>8. QED
  BY <1>1, <1>7 DEF Rect, CommonWidth, CommonHeight, Most, Least, Right, Bottom, Inside

LEMMA InsideTransitive ==
    ASSUME NEW q \in Rect, NEW r \in Rect, NEW s \in Rect, Inside(q, r), Inside(r, s)
    PROVE  Inside(q, s)
BY DEF Rect, Inside, Right, Bottom

LEMMA InsideReflexive ==
    ASSUME NEW r \in Rect
    PROVE  Inside(r, r)
BY DEF Rect, Inside, Right, Bottom

\* The merged rectangle is the hull of the two.
LEMMA MergedIsHull ==
    ASSUME NEW s \in Rect, NEW l \in Rect
    PROVE  /\ Merged(s, l) \in Rect
           /\ Merged(s, l).x = Least(l.x, s.x)
           /\ Merged(s, l).y = Least(l.y, s.y)
           /\ Right(Merged(s, l)) = Most(Right(s), Right(l))
           /\ Bottom(Merged(s, l)) = Most(Bottom(s), Bottom(l))
BY DEF Rect, Merged, Most, Least, Right, Bottom

LEMMA MergedHolds ==
    ASSUME NEW s \in Rect, NEW l \in Rect
    PROVE  Inside(s, Merged(s, l)) /\ Inside(l, Merged(s, l))
BY MergedIsHull DEF Rect, Inside, Most, Least, Right, Bottom

---------------------------------------------------------------------------
(* Sequences of rectangles.                                                *)

\* Erasing keeps the other elements, each under its index or the one before.
LEMMA Erasing ==
    ASSUME NEW s \in Seq(Rect), NEW i \in 1 .. Len(s)
    PROVE  /\ Without(s, i) \in Seq(Rect)
           /\ Len(Without(s, i)) = Len(s) - 1
           /\ \A k \in 1 .. Len(s) - 1 : Without(s, i)[k] \in {s[k], s[k + 1]}
           /\ \A j \in 1 .. Len(s) : j # i =>
                 \E k \in 1 .. Len(s) - 1 : Without(s, i)[k] = s[j]
<1> DEFINE n == Len(s)
<1>1. n \in Nat /\ n >= 1 /\ s = [k \in 1 .. n |-> s[k]] /\ \A k \in 1 .. n : s[k] \in Rect
  OBVIOUS
<1>2. Without(s, i) = [k \in 1 .. n - 1 |-> IF k < i THEN s[k] ELSE s[k + 1]]
  BY DEF Without
<1>3. \A k \in 1 .. n - 1 : Without(s, i)[k] \in {s[k], s[k + 1]} /\ Without(s, i)[k] \in Rect
  BY <1>1, <1>2
<1>4. Without(s, i) \in Seq(Rect) /\ Len(Without(s, i)) = n - 1
  BY <1>1, <1>2, <1>3
<1>5. ASSUME NEW j \in 1 .. n, j # i
      PROVE  \E k \in 1 .. n - 1 : Without(s, i)[k] = s[j]
  <2>1. CASE j < i
    <3>1. j \in 1 .. n - 1 /\ Without(s, i)[j] = s[j]
      BY <1>1, <1>2, <2>1
    <3>2. QED BY <3>1
  <2>2. CASE j > i
    <3>1. j - 1 \in 1 .. n - 1 /\ ~(j - 1 < i) /\ (j - 1) + 1 = j
      BY <1>1, <2>2
    <3>2. Without(s, i)[j - 1] = s[j]
      BY <1>2, <3>1
    <3>3. QED BY <3>1, <3>2
  <2>3. QED BY <1>5, <2>1, <2>2
<1>6. QED BY <1>3, <1>4, <1>5

\* The list after a merge, before the smaller one is erased.
Grown == [rects EXCEPT ![large] = Merged(rects[small], @)]

LEMMA Growing ==
    ASSUME TypeOK, Comparing
    PROVE  /\ small \in 1 .. Len(rects) /\ large \in 1 .. Len(rects) /\ small # large
           /\ rects[small] \in Rect /\ rects[large] \in Rect
           /\ Grown \in Seq(Rect) /\ Len(Grown) = Len(rects)
           /\ Grown[large] = Merged(rects[small], rects[large])
           /\ \A k \in 1 .. Len(rects) : k # large => Grown[k] = rects[k]
<1>1. small \in 1 .. Len(rects) /\ large \in 1 .. Len(rects) /\ small # large
      /\ Len(rects) \in Nat
  BY DEF TypeOK, Comparing
<1>2. rects[small] \in Rect /\ rects[large] \in Rect
  BY <1>1 DEF TypeOK
<1>3. Merged(rects[small], rects[large]) \in Rect
  BY <1>2, MergedIsHull
<1>4. QED
  BY <1>1, <1>2, <1>3 DEF TypeOK, Grown

\* The list after a step that erases, from the list it erases from.
Shrinks(s) ==
    /\ rects' \in Seq(Rect)
    /\ Len(rects') = Len(rects) - 1
    /\ \A k \in 1 .. Len(rects) - 1 : rects'[k] \in {s[k], s[k + 1]}
    /\ \A j \in 1 .. Len(rects) : j # small =>
          \E k \in 1 .. Len(rects) - 1 : rects'[k] = s[j]

LEMMA NestedShrinks ==
    ASSUME TypeOK, Nested
    PROVE  Shrinks(rects)
<1>1. small \in 1 .. Len(rects) /\ rects \in Seq(Rect) /\ rects' = Without(rects, small)
  BY Growing DEF Nested, TypeOK
<1>2. QED BY <1>1, Erasing DEF Shrinks

LEMMA MergeShrinks ==
    ASSUME TypeOK, Merge
    PROVE  Shrinks(Grown)
<1>1. /\ small \in 1 .. Len(Grown) /\ Grown \in Seq(Rect) /\ Len(Grown) = Len(rects)
      /\ rects' = Without(Grown, small)
  <2>1. rects' = Without(Grown, small) /\ Comparing
    BY DEF Merge, Grown
  <2>2. QED BY <2>1, Growing
<1>2. \A k \in 1 .. Len(rects) - 1 : Without(Grown, small)[k] \in {Grown[k], Grown[k + 1]}
  BY <1>1, Erasing
<1>3. \A j \in 1 .. Len(rects) : j # small =>
        \E k \in 1 .. Len(rects) - 1 : Without(Grown, small)[k] = Grown[j]
  <2>1. \A j \in 1 .. Len(Grown) : j # small =>
          \E k \in 1 .. Len(Grown) - 1 : Without(Grown, small)[k] = Grown[j]
    BY <1>1, Erasing, Zenon
  <2>2. QED BY <1>1, <2>1, Zenon
<1>4. Without(Grown, small) \in Seq(Rect) /\ Len(Without(Grown, small)) = Len(rects) - 1
  BY <1>1, Erasing
<1>5. QED BY <1>1, <1>2, <1>3, <1>4 DEF Shrinks

---------------------------------------------------------------------------
(* Types.                                                                  *)

LEMMA InitType == Init => TypeOK
<1> SUFFICES ASSUME Init PROVE TypeOK
  OBVIOUS
<1>1. PICK n \in 0 .. MaxRects : rects \in [1 .. n -> Rects]
  BY DEF Init
<1>2. rects \in Seq(Rects) /\ Len(rects) = n /\ n \in Nat
  BY <1>1, MaxRectsAssumption
<1>3. rects \in Seq(Rect)
  BY <1>2, RectsAssumption
<1>4. contours \subseteq Rects
  BY <1>1, <1>2 DEF Init
<1>5. QED
  BY <1>2, <1>3, <1>4 DEF Init, TypeOK

LEMMA NextType == TypeOK /\ [Next]_vars => TypeOK'
<1> SUFFICES ASSUME TypeOK, [Next]_vars PROVE TypeOK'
  OBVIOUS
<1>0. Len(rects) \in Nat
  BY DEF TypeOK
<1>1. CASE Nested
  <2>1. rects' \in Seq(Rect) /\ Len(rects') = Len(rects) - 1
    BY <1>1, NestedShrinks DEF Shrinks
  <2>2. QED BY <1>0, <1>1, <2>1 DEF Nested, Comparing, TypeOK
<1>2. CASE Merge
  <2>1. rects' \in Seq(Rect) /\ Len(rects') = Len(rects) - 1
    BY <1>2, MergeShrinks DEF Shrinks
  <2>2. QED BY <1>0, <1>2, <2>1 DEF Merge, Comparing, TypeOK
<1>3. CASE Apart
  BY <1>0, <1>3 DEF Apart, Comparing, TypeOK
<1>4. CASE NextSmall
  BY <1>0, <1>4 DEF NextSmall, Comparing, TypeOK
<1>5. CASE UNCHANGED vars
  BY <1>5 DEF vars, TypeOK
<1>6. QED BY <1>1, <1>2, <1>3, <1>4, <1>5 DEF Next

\* Both indices stay in the list, whatever is erased (consolidate_rectangles).
THEOREM TypeCorrect == Spec => []TypeOK
BY InitType, NextType, PTL DEF Spec

---------------------------------------------------------------------------
(* No contour is lost.                                                     *)

\* What lay in a rectangle of the list lies in one after a step.
LEMMA Keeps ==
    ASSUME TypeOK, Next, NEW r \in Rect, NEW i \in 1 .. Len(rects), Inside(r, rects[i])
    PROVE  \E k \in 1 .. Len(rects') : Inside(r, rects'[k])
<1>0. rects[i] \in Rect /\ Len(rects) \in Nat /\ rects \in Seq(Rect)
  BY DEF TypeOK
<1>1. CASE Nested
  <2>1. Inside(rects[small], rects[large])
    BY <1>1, Growing, FullOverlap DEF Nested, Percentage
  <2>2. PICK j \in 1 .. Len(rects) : j # small /\ Inside(r, rects[j])
    <3>1. CASE i = small
      <4>1. Inside(r, rects[large])
        BY <1>0, <1>1, <2>1, <3>1, Growing, InsideTransitive DEF Nested
      <4>2. QED BY <1>1, <4>1, Growing DEF Nested
    <3>2. CASE i # small
      BY <3>2
    <3>3. QED BY <3>1, <3>2
  <2>3. PICK k \in 1 .. Len(rects) - 1 : rects'[k] = rects[j]
    BY <1>1, <2>2, NestedShrinks DEF Shrinks
  <2>4. Len(rects') = Len(rects) - 1
    BY <1>1, NestedShrinks DEF Shrinks
  <2>5. QED BY <2>2, <2>3, <2>4
<1>2. CASE Merge
  <2>1. rects' = Without(Grown, small) /\ Comparing
    BY <1>2 DEF Merge, Grown
  <2>2. Inside(rects[small], Grown[large]) /\ Inside(rects[large], Grown[large])
        /\ Grown[large] \in Rect
    BY <2>1, Growing, MergedHolds, MergedIsHull
  <2>3. PICK j \in 1 .. Len(rects) : j # small /\ Inside(r, Grown[j])
    <3>1. CASE i \in {small, large}
      <4>1. Inside(r, Grown[large])
        BY <1>0, <2>1, <2>2, <3>1, Growing, InsideTransitive
      <4>2. QED BY <2>1, <4>1, Growing
    <3>2. CASE i \notin {small, large}
      BY <2>1, <3>2, Growing
    <3>3. QED BY <3>1, <3>2
  <2>4. PICK k \in 1 .. Len(rects) - 1 : rects'[k] = Grown[j]
    BY <1>2, <2>3, MergeShrinks DEF Shrinks
  <2>5. Len(rects') = Len(rects) - 1
    BY <1>2, MergeShrinks DEF Shrinks
  <2>6. QED BY <2>3, <2>4, <2>5
<1>3. CASE rects' = rects
  BY <1>3
<1>4. QED BY <1>1, <1>2, <1>3 DEF Next, Apart, NextSmall

LEMMA NextRegions == TypeOK /\ NoRegionLost /\ [Next]_vars => NoRegionLost'
<1> SUFFICES ASSUME TypeOK, NoRegionLost, [Next]_vars PROVE NoRegionLost'
  OBVIOUS
<1>1. CASE Next
  <2>1. contours' = contours
    BY <1>1 DEF Next, Nested, Merge, Apart, NextSmall
  <2>2. SUFFICES ASSUME NEW r \in contours
                 PROVE  \E k \in DOMAIN rects' : Inside(r, rects'[k])
    BY <2>1 DEF NoRegionLost
  <2>3. TypeOK'
    BY NextType
  <2>4. DOMAIN rects = 1 .. Len(rects) /\ DOMAIN rects' = 1 .. Len(rects')
    BY <2>3 DEF TypeOK
  <2>5. r \in Rect
    BY RectsAssumption DEF TypeOK
  <2>6. PICK i \in 1 .. Len(rects) : Inside(r, rects[i])
    BY <2>4 DEF NoRegionLost
  <2>7. QED BY <1>1, <2>4, <2>5, <2>6, Keeps
<1>2. CASE UNCHANGED vars
  BY <1>2 DEF vars, NoRegionLost
<1>3. QED BY <1>1, <1>2

LEMMA InitRegions == Init => NoRegionLost
<1> SUFFICES ASSUME Init, NEW r \in contours
             PROVE  \E i \in DOMAIN rects : Inside(r, rects[i])
  BY DEF NoRegionLost
<1>1. PICK i \in DOMAIN rects : r = rects[i]
  BY DEF Init
<1>2. r \in Rect
  BY InitType, RectsAssumption DEF TypeOK
<1>3. QED BY <1>1, <1>2, InsideReflexive

\* However the rectangles are erased and merged, each contour that was found
\* lies in one that is left (consolidate_rectangles).
THEOREM RegionsKept == Spec => []NoRegionLost
<1>1. Init => TypeOK /\ NoRegionLost
  BY InitType, InitRegions
<1>2. (TypeOK /\ NoRegionLost) /\ [Next]_vars => (TypeOK /\ NoRegionLost)'
  BY NextType, NextRegions
<1>3. QED BY <1>1, <1>2, PTL DEF Spec

---------------------------------------------------------------------------
(* No area is invented.                                                    *)

\* The edges of r are edges of contours.
Framed(r) ==
    /\ \E c \in contours : r.x = c.x
    /\ \E c \in contours : r.y = c.y
    /\ \E c \in contours : Right(r) = Right(c)
    /\ \E c \in contours : Bottom(r) = Bottom(c)

LEMMA MergedFramed ==
    ASSUME NEW s \in Rect, NEW l \in Rect, Framed(s), Framed(l)
    PROVE  Framed(Merged(s, l))
<1>1. /\ Merged(s, l).x \in {s.x, l.x}
      /\ Merged(s, l).y \in {s.y, l.y}
      /\ Right(Merged(s, l)) \in {Right(s), Right(l)}
      /\ Bottom(Merged(s, l)) \in {Bottom(s), Bottom(l)}
  BY MergedIsHull DEF Least, Most
<1>2. QED BY <1>1 DEF Framed

LEMMA NextFramed == TypeOK /\ EdgesFound /\ [Next]_vars => EdgesFound'
<1> SUFFICES ASSUME TypeOK, EdgesFound, [Next]_vars PROVE EdgesFound'
  OBVIOUS
<1>0. Len(rects) \in Nat /\ rects \in Seq(Rect)
  BY DEF TypeOK
<1>1. \A i \in 1 .. Len(rects) : Framed(rects[i])
  BY <1>0 DEF EdgesFound, Framed
<1>2. contours' = contours
  BY DEF Next, Nested, Merge, Apart, NextSmall, vars
<1>3. SUFFICES \A i \in DOMAIN rects' : Framed(rects'[i])
  BY <1>2 DEF EdgesFound, Framed
<1>4. CASE Nested
  <2>0. rects' \in Seq(Rect) /\ Len(rects') = Len(rects) - 1
    BY <1>4, NestedShrinks DEF Shrinks
  <2>1. DOMAIN rects' = 1 .. Len(rects) - 1
        /\ \A k \in 1 .. Len(rects) - 1 : rects'[k] \in {rects[k], rects[k + 1]}
    BY <1>4, <2>0, NestedShrinks DEF Shrinks
  <2>2. \A k \in 1 .. Len(rects) - 1 : k \in 1 .. Len(rects) /\ k + 1 \in 1 .. Len(rects)
    BY <1>0
  <2>3. QED BY <1>1, <2>1, <2>2
<1>5. CASE Merge
  <2>1. rects' = Without(Grown, small) /\ Comparing
    BY <1>5 DEF Merge, Grown
  <2>2. Framed(Grown[large])
    BY <1>1, <2>1, Growing, MergedFramed
  <2>3. \A k \in 1 .. Len(rects) : Framed(Grown[k])
    BY <1>1, <2>1, <2>2, Growing
  <2>4. DOMAIN rects' = 1 .. Len(rects) - 1
        /\ \A k \in 1 .. Len(rects) - 1 : rects'[k] \in {Grown[k], Grown[k + 1]}
    BY <1>5, MergeShrinks DEF Shrinks
  <2>5. \A k \in 1 .. Len(rects) - 1 : k \in 1 .. Len(rects) /\ k + 1 \in 1 .. Len(rects)
    BY <1>0
  <2>6. QED BY <2>3, <2>4, <2>5
<1>6. CASE rects' = rects
  BY <1>0, <1>1, <1>6
<1>7. QED BY <1>4, <1>5, <1>6 DEF Next, Apart, NextSmall, vars

LEMMA InitFramed == Init => EdgesFound
BY DEF Init, EdgesFound

\* Every edge of a region is an edge of a contour: the arithmetic of the merge
\* yields the hull and no more (consolidate_rectangles).
THEOREM NothingInvented == Spec => []EdgesFound
<1>1. Init => TypeOK /\ EdgesFound
  BY InitType, InitFramed
<1>2. (TypeOK /\ EdgesFound) /\ [Next]_vars => (TypeOK /\ EdgesFound)'
  BY NextType, NextFramed
<1>3. QED BY <1>1, <1>2, PTL DEF Spec

---------------------------------------------------------------------------
(* The loops.                                                              *)

RoundsInv == TypeOK /\ Len(rects) <= MaxRects

LEMMA NextRounds == RoundsInv /\ [Next]_vars => RoundsInv'
<1> SUFFICES ASSUME RoundsInv, [Next]_vars PROVE RoundsInv'
  OBVIOUS
<1>1. TypeOK /\ TypeOK' /\ Len(rects) \in Nat /\ Len(rects) <= MaxRects
  BY NextType DEF RoundsInv, TypeOK
<1>2. CASE Nested
  BY <1>1, <1>2, NestedShrinks, MaxRectsAssumption DEF Shrinks, RoundsInv
<1>3. CASE Merge
  BY <1>1, <1>3, MergeShrinks, MaxRectsAssumption DEF Shrinks, RoundsInv
<1>4. CASE rects' = rects
  BY <1>1, <1>4 DEF RoundsInv
<1>5. QED
  BY <1>2, <1>3, <1>4 DEF Next, Apart, NextSmall, vars

\* One rectangle less to pass is worth more than the longest inner loop.
LEMMA OneLess ==
    ASSUME NEW n \in Nat, NEW d \in Nat \ {0}, NEW l \in Nat, NEW m \in Nat, m <= n
    PROVE  (d - 1) * (n + 2) + m < d * (n + 2) + l
<1>1. (d - 1) * (n + 2) = d * (n + 2) - (n + 2) /\ d * (n + 2) \in Nat
  BY SMT
<1>2. QED
  BY <1>1

LEMMA RoundCounts == RoundsInv /\ Next => Remaining' < Remaining
<1> SUFFICES ASSUME RoundsInv, Next PROVE Remaining' < Remaining
  OBVIOUS
<1> DEFINE d == Len(rects) + 1 - small
<1>1. /\ Len(rects) \in Nat /\ Len(rects) <= MaxRects /\ MaxRects \in Nat
      /\ small \in 1 .. Len(rects) + 1 /\ large \in 0 .. Len(rects)
  BY MaxRectsAssumption DEF RoundsInv, TypeOK
<1>2. d \in Nat /\ large \in Nat
  BY <1>1
<1>3. Remaining = d * (MaxRects + 2) + large
  BY DEF Remaining
<1>4. ASSUME Len(rects') + 1 - small' = d - 1, d # 0, large' \in Nat, large' <= MaxRects
      PROVE  Remaining' < Remaining
  <2>1. Remaining' = (d - 1) * (MaxRects + 2) + large'
    BY <1>4 DEF Remaining
  <2> HIDE DEF d
  <2>2. QED
    BY <1>1, <1>2, <1>3, <1>4, <2>1, OneLess
<1>5. CASE Nested
  <2>1. Len(rects') = Len(rects) - 1
    BY <1>5, NestedShrinks DEF RoundsInv, Shrinks
  <2>2. large' = Len(rects) - 1 /\ small' = small /\ large > small
    BY <1>5 DEF Nested, Comparing
  <2>3. QED
    BY <1>1, <1>4, <2>1, <2>2
<1>6. CASE Merge
  <2>1. Len(rects') = Len(rects) - 1
    BY <1>6, MergeShrinks DEF RoundsInv, Shrinks
  <2>2. large' = large - 1 /\ small' = small /\ large > small
    BY <1>6 DEF Merge, Comparing
  <2>3. QED
    BY <1>1, <1>4, <2>1, <2>2
<1>7. CASE Apart
  <2>1. rects' = rects /\ small' = small /\ large' = large - 1
    BY <1>7 DEF Apart
  <2>2. Remaining' = d * (MaxRects + 2) + (large - 1)
    BY <2>1 DEF Remaining
  <2>3. d * (MaxRects + 2) \in Nat
    BY <1>1, <1>2
  <2> HIDE DEF d
  <2>4. QED
    BY <1>2, <1>3, <2>2, <2>3
<1>8. CASE NextSmall
  <2>1. rects' = rects /\ small' = small + 1 /\ large' = Len(rects) /\ small <= Len(rects)
    BY <1>8 DEF NextSmall
  <2>2. QED
    BY <1>1, <1>4, <2>1
<1>9. QED
  BY <1>5, <1>6, <1>7, <1>8 DEF Next

LEMMA RemainingIsNat == RoundsInv => Remaining \in Nat
BY MaxRectsAssumption DEF RoundsInv, TypeOK, Remaining

\* Every round uses up one of a number of rounds that is a natural and begins
\* with at most the square of the contours, a few added for each of them
\* (consolidate_rectangles): the loops end for every list.
THEOREM RoundsAreFew ==
    Spec => /\ Remaining <= MaxRects * (MaxRects + 3)
            /\ [](Remaining \in Nat)
            /\ RoundsRunOut
<1>1. Init => RoundsInv /\ Remaining <= MaxRects * (MaxRects + 3)
  <2> SUFFICES ASSUME Init PROVE RoundsInv /\ Remaining <= MaxRects * (MaxRects + 3)
    OBVIOUS
  <2>1. PICK n \in 0 .. MaxRects : rects \in [1 .. n -> Rects]
    BY DEF Init
  <2>2. Len(rects) = n /\ n \in Nat /\ n <= MaxRects /\ MaxRects \in Nat
    BY <2>1, MaxRectsAssumption
  <2>3. Remaining = n * (MaxRects + 2) + n
    BY <2>2 DEF Init, Remaining
  <2>4. n * (MaxRects + 2) <= MaxRects * (MaxRects + 2)
    BY <2>2, SMT
  <2>5. MaxRects * (MaxRects + 2) + MaxRects = MaxRects * (MaxRects + 3)
    BY <2>2, SMT
  <2>6. Remaining <= MaxRects * (MaxRects + 3)
    BY <2>2, <2>3, <2>4, <2>5
  <2>7. QED
    BY <2>2, <2>6, InitType DEF RoundsInv
<1>2. RoundsInv /\ [Next]_vars => [Remaining' < Remaining]_vars
  BY RoundCounts
<1>3. QED
  BY <1>1, <1>2, NextRounds, RemainingIsNat, PTL DEF Spec, RoundsRunOut
=============================================================================
