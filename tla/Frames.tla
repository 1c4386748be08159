------------------------------- MODULE Frames -------------------------------
(***************************************************************************)
(* What the four elements of a scene's pipeline do to the frames they hand *)
(* on (src/Scene.cpp): ImageSource reads the camera, MovementDetectorBasic *)
(* compares a frame with the previous one, ROI_Detector marks the regions  *)
(* that moved, ScenePublisher publishes the images.  The elements work at  *)
(* the same time, each on its own frame; that a frame reaches an element   *)
(* after the element before has finished it, and in order, is what the     *)
(* pipeline promises (Conveyor).                                           *)
(***************************************************************************)
EXTENDS Integers, Sequences, SequencesExt

CONSTANT MaxFrames   \* bound: frames

ASSUME MaxFramesAssumption == MaxFrames \in Nat

VARIABLES
    done,         \* done[e]: the last frame element e has finished
    camera,       \* where ImageSource::process_next_frame is
    comparing,    \* the movement detector compares its frame
    marking,      \* the region detector works on its frame
    turn,         \* the stream the publisher is at, 0 when it is idle
    names,        \* names[f]: Frame::image_names_ up to the first empty one
    filled,       \* filled[f]: what frame f holds data for
    previous,     \* MovementDetectorBasic::previous_frame_, 0 when null
    since,        \* frames_since_last_diff_
    listeners,    \* streams with a slot
    pictures,     \* pictures[s]: the last frame signalled to stream s
    heard,        \* history: the last frame at whose turn s had a listener
    terminated    \* an exception left a pool thread

kMaxImagesPerFrame == 10
kDifferenceInterval == 1

N == 4
Flow == INSTANCE Conveyor
ImageSource == 1
MovementDetector == 2
RoiDetector == 3
Publisher == 4

\* The streams of ScenePublisher, in the order it adds them.
Streams == <<"main", "overlay", "foreground", "difference">>

sourceVars == <<camera>>
detectorVars == <<comparing, marking, previous, since>>
publisherVars == <<turn, listeners, pictures, heard>>
frameVars == <<names, filled>>
vars == <<done, sourceVars, detectorVars, publisherVars, frameVars, terminated>>

\* The frame an element works on, or will work on next.
At(e) == done[e] + 1
Waits(e) == done[e] < done[e - 1]

TypeOK ==
    /\ done \in [1 .. N -> 0 .. MaxFrames]
    /\ camera \in {"idle", "read", "restart", "again", "done"}
    /\ comparing \in BOOLEAN /\ marking \in BOOLEAN /\ terminated \in BOOLEAN
    /\ turn \in 0 .. Len(Streams) + 1
    /\ names \in [1 .. MaxFrames -> BoundedSeq({"original", "overlay", "foreground"}, 3)]
    /\ filled \in [1 .. MaxFrames ->
                      SUBSET {"original", "overlay", "foreground", "regions"}]
    /\ previous \in 0 .. MaxFrames
    /\ since \in 0 .. kDifferenceInterval + 1
    /\ listeners \subseteq Range(Streams)
    /\ pictures \in [Range(Streams) -> 0 .. MaxFrames]
    /\ heard \in [Range(Streams) -> 0 .. MaxFrames]

Init ==
    /\ Flow!Init
    /\ camera = "idle" /\ comparing = FALSE /\ marking = FALSE /\ turn = 0
    /\ names = [f \in 1 .. MaxFrames |-> <<>>]
    /\ filled = [f \in 1 .. MaxFrames |-> {}]
    /\ previous = 0 /\ since = 0
    /\ listeners = {}
    /\ pictures = [s \in Range(Streams) |-> 0]
    /\ heard = [s \in Range(Streams) |-> 0]
    /\ terminated = FALSE

Fill(f, image) == filled' = [filled EXCEPT ![f] = @ \cup {image}]

---------------------------------------------------------------------------
(* ImageSource::process_next_frame, Camera::get_next_frame and restart.    *)

Source(from, to) == ~terminated /\ camera = from /\ camera' = to

\* A new Frame has a name for two slots and a blank overlay.
NewFrame ==
    /\ Source("idle", "read") /\ At(ImageSource) <= MaxFrames
    /\ names' = [names EXCEPT ![At(ImageSource)] = <<"original", "overlay">>]
    /\ Fill(At(ImageSource), "overlay")
    /\ UNCHANGED <<done, detectorVars, publisherVars, terminated>>

ReadSucceeds ==
    /\ Source("read", "done") \/ Source("again", "done")
    /\ Fill(At(ImageSource), "original")
    /\ UNCHANGED <<done, detectorVars, publisherVars, names, terminated>>

ReadFails ==
    /\ Source("read", "restart")
    /\ UNCHANGED <<done, detectorVars, publisherVars, frameVars, terminated>>

\* Regression: the frame is handed on after the restart without a second read.
ReopensOnly ==
    /\ Source("restart", "done")
    /\ UNCHANGED <<done, detectorVars, publisherVars, frameVars, terminated>>

Reopens ==
    /\ Source("restart", "again")
    /\ UNCHANGED <<done, detectorVars, publisherVars, frameVars, terminated>>

\* The camera cannot be opened again, or the second read fails as well.
SourceThrows ==
    /\ ~terminated /\ camera \in {"restart", "again"}
    /\ terminated' = TRUE
    /\ UNCHANGED <<done, sourceVars, detectorVars, publisherVars, frameVars>>

\* read() returns true only with a picture in hand (the contract of OpenCV's
\* VideoCapture), so the frame is never the empty one that
\* ImageSource::process_next_frame would only log.
SourceReturns ==
    /\ Source("done", "idle")
    /\ Flow!Finish(ImageSource)
    /\ UNCHANGED <<detectorVars, publisherVars, frameVars, terminated>>

---------------------------------------------------------------------------
(* MovementDetectorBasic::process_next_frame.                              *)

Detects == ~terminated /\ ~comparing /\ Waits(MovementDetector)

\* Regression: the first frame is not kept for the next one.
FirstFrameForgotten ==
    /\ Detects /\ previous = 0
    /\ since' = since + 1
    /\ Flow!Finish(MovementDetector)
    /\ UNCHANGED <<sourceVars, comparing, marking, previous, publisherVars, frameVars, terminated>>

FirstFrame ==
    /\ Detects /\ previous = 0
    /\ since' = since + 1
    /\ previous' = At(MovementDetector)
    /\ Flow!Finish(MovementDetector)
    /\ UNCHANGED <<sourceVars, comparing, marking, publisherVars, frameVars, terminated>>

\* Frame::get_new_image finds the first slot without a name.
HasSlotFor(f, name) == ~Contains(names[f], name) /\ Len(names[f]) < kMaxImagesPerFrame

\* With this interval the comparison is never put off.
Compare ==
    /\ Detects /\ previous # 0 /\ since + 1 >= kDifferenceInterval
    /\ HasSlotFor(At(MovementDetector), "foreground")
    /\ since' = since + 1
    /\ names' = [names EXCEPT ![At(MovementDetector)] = Append(@, "foreground")]
    /\ comparing' = TRUE
    /\ UNCHANGED <<done, sourceVars, marking, previous, publisherVars, filled, terminated>>

\* Regression: the count of frames is not reset.
ComparedCountsOn ==
    /\ ~terminated /\ comparing
    /\ Fill(At(MovementDetector), "foreground")
    /\ previous' = At(MovementDetector)
    /\ comparing' = FALSE
    /\ Flow!Finish(MovementDetector)
    /\ UNCHANGED <<sourceVars, since, marking, publisherVars, names, terminated>>

Compared ==
    /\ ~terminated /\ comparing
    /\ Fill(At(MovementDetector), "foreground")
    /\ since' = 0
    /\ previous' = At(MovementDetector)
    /\ comparing' = FALSE
    /\ Flow!Finish(MovementDetector)
    /\ UNCHANGED <<sourceVars, marking, publisherVars, names, terminated>>

---------------------------------------------------------------------------
(* ROI_Detector::process_next_frame; a frame without a foreground throws,  *)
(* which is caught, and is handed on as it is.                             *)

Mark ==
    /\ ~terminated /\ ~marking /\ Waits(RoiDetector)
    /\ marking' = TRUE
    /\ UNCHANGED <<done, sourceVars, comparing, previous, since, publisherVars, frameVars, terminated>>

Marked ==
    /\ ~terminated /\ marking
    /\ marking' = FALSE
    /\ IF Contains(names[At(RoiDetector)], "foreground")
         THEN Fill(At(RoiDetector), "regions") ELSE UNCHANGED filled
    /\ Flow!Finish(RoiDetector)
    /\ UNCHANGED <<sourceVars, comparing, previous, since, publisherVars, names, terminated>>

---------------------------------------------------------------------------
(* ScenePublisher::process_next_frame: a turn per stream.  What it asks the *)
(* performance monitor for is a model of its own (PerformanceMonitor).      *)

Publish ==
    /\ ~terminated /\ turn = 0 /\ Waits(Publisher)
    /\ turn' = 1
    /\ UNCHANGED <<done, sourceVars, detectorVars, listeners, pictures, heard, frameVars, terminated>>

\* Frame::get_image_as_jpg returns and does not throw.
HasImage(f, stream) ==
    IF stream = "main" THEN "original" \in filled[f]
                       ELSE Contains(names[f], stream) /\ stream \in filled[f]

\* What get_image_as_jpg throws is caught here.
Show ==
    /\ ~terminated /\ turn \in DOMAIN Streams
    /\ LET s == Streams[turn]
           f == At(Publisher)
       IN  /\ heard' = IF s \in listeners THEN [heard EXCEPT ![s] = f] ELSE heard
           /\ pictures' = IF s \in listeners /\ HasImage(f, s)
                            THEN [pictures EXCEPT ![s] = f] ELSE pictures
    /\ turn' = turn + 1
    /\ UNCHANGED <<done, sourceVars, detectorVars, listeners, frameVars, terminated>>

Published ==
    /\ ~terminated /\ turn = Len(Streams) + 1
    /\ turn' = 0
    /\ Flow!Finish(Publisher)
    /\ UNCHANGED <<sourceVars, detectorVars, listeners, pictures, heard, frameVars,
                   terminated>>

\* A browser opens a stream, or the last one of a stream leaves.
Listen ==
    /\ ~terminated
    /\ \E s \in Range(Streams) :
          listeners' = IF s \in listeners THEN listeners \ {s} ELSE listeners \cup {s}
    /\ UNCHANGED <<done, sourceVars, detectorVars, turn, pictures, heard, frameVars,
                   terminated>>

---------------------------------------------------------------------------
SourceStep ==
    \/ NewFrame \/ ReadSucceeds \/ ReadFails \/ Reopens \/ SourceThrows \/ SourceReturns
DetectorStep == FirstFrame \/ Compare \/ Compared \/ Mark \/ Marked
PublisherStep == Publish \/ Show \/ Published \/ Listen

Next == SourceStep \/ DetectorStep \/ PublisherStep

Spec == Init /\ [][Next]_vars

---------------------------------------------------------------------------
(* What an element touches while it works: a part of a frame.              *)

Working(e) ==
    \/ e = ImageSource /\ camera # "idle"
    \/ e = MovementDetector /\ comparing
    \/ e = RoiDetector /\ marking
    \/ e = Publisher /\ turn # 0

Reads(e) ==
    CASE e = ImageSource -> {}
      [] e = MovementDetector -> {<<At(e), "original">>, <<previous, "original">>}
      [] e = RoiDetector -> {<<At(e), "names">>, <<At(e), "foreground">>}
      [] e = Publisher -> {<<At(e), p>> : p \in {"names", "original", "overlay", "foreground"}}

\* Regression: the publisher composes the picture in the original (as
\* Frame::get_image_as_jpg of two names does).
WritesComposed(e) ==
    CASE e = ImageSource -> {<<At(e), p>> : p \in {"names", "original", "overlay", "captions"}}
      [] e = MovementDetector -> {<<At(e), "names">>, <<At(e), "foreground">>}
      [] e = RoiDetector -> {<<At(e), "overlay">>, <<At(e), "regions">>}
      [] e = Publisher -> {<<At(e), "captions">>, <<At(e), "original">>}

Writes(e) ==
    CASE e = ImageSource -> {<<At(e), p>> : p \in {"names", "original", "overlay", "captions"}}
      [] e = MovementDetector -> {<<At(e), "names">>, <<At(e), "foreground">>}
      [] e = RoiDetector -> {<<At(e), "overlay">>, <<At(e), "regions">>}
      [] e = Publisher -> {<<At(e), "captions">>}

\* No element writes what another one reads or writes at that moment, although
\* the movement detector still looks at the previous frame while that one is
\* being marked and published (previous_frame_ is shared without a lock).
NoConflict ==
    \A d, e \in 1 .. N :
        d # e /\ Working(d) /\ Working(e)
            => Writes(d) \intersect (Reads(e) \cup Writes(e)) = {}

\* A frame that the image source has handed on holds a picture, whatever the
\* camera did: the elements behind read it unchecked (ImageSource, Camera).
HandedOnFilled == \A f \in 1 .. done[ImageSource] : "original" \in filled[f]

\* Who listens when it is a stream's turn gets the picture of that frame, the
\* foreground's from the second frame on (the first has nothing to compare
\* with; the elements catch what that makes Frame throw).
ListenersAreServed ==
    /\ \A s \in {"main", "overlay"} : pictures[s] = heard[s]
    /\ heard["foreground"] > 1 => pictures["foreground"] = heard["foreground"]
=============================================================================
