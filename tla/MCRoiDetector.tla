---------------------------- MODULE MCRoiDetector ----------------------------
(* Rectangles on a grid on which 85 % can be told from 100 %.              *)
EXTENDS RoiDetector

\* All positions and shapes that overlap by all, most, some or nothing.
MCRects == [x : {0, 1, 2}, y : {0, 1}, width : {1, 8, 9}, height : {1, 7}]
=============================================================================
