--------------------------- MODULE Frames_proofs ---------------------------
(* Proofs about the four elements of a scene and the frames they share,    *)
(* for every number of frames.                                             *)
EXTENDS Frames, SequenceTheorems, TLAPS

USE MaxFramesAssumption

---------------------------------------------------------------------------
(***************************************************************************)
(* The invariant.  Flow: an element that works is behind the one before    *)
(* it, so two elements that work never have the same frame, and the frame  *)
(* kept by the movement detector is one it has finished.  Contents: what a *)
(* frame holds is known from how far it has come.                          *)
(***************************************************************************)
Two == <<"original", "overlay">>
Three == <<"original", "overlay", "foreground">>

FlowType ==
    /\ done \in [1 .. 4 -> 0 .. MaxFrames] /\ previous \in 0 .. MaxFrames
    /\ camera \in {"idle", "read", "restart", "again", "done"}
    /\ comparing \in BOOLEAN /\ marking \in BOOLEAN /\ terminated \in BOOLEAN
    /\ turn \in 0 .. 5
    /\ since \in 0 .. 2

FlowInv ==
    /\ FlowType
    /\ done[2] <= done[1] /\ done[3] <= done[2] /\ done[4] <= done[3]
    /\ camera # "idle" => done[1] < MaxFrames
    /\ comparing => done[2] < done[1]
    /\ marking => done[3] < done[2]
    /\ turn # 0 => done[4] < done[3]
    /\ previous = done[2]
    /\ ~comparing => since <= 1
    /\ previous = 0 => since = 0 /\ ~comparing

Contents(f) ==
    /\ filled[f] \subseteq {"original", "overlay", "foreground", "regions"}
    /\ names[f] \in {<<>>, Two, Three}
    /\ f <= done[1] => "original" \in filled[f]
    /\ f <= done[1] \/ (f = done[1] + 1 /\ camera # "idle") =>
          names[f] # <<>> /\ "overlay" \in filled[f]
    /\ f = done[1] + 1 /\ camera = "done" => "original" \in filled[f]
    /\ f > done[2] /\ ~(comparing /\ f = done[2] + 1) => names[f] # Three
    /\ 1 < f /\ f <= done[2] => names[f] = Three /\ "foreground" \in filled[f]
    /\ comparing /\ f = done[2] + 1 => names[f] = Three

FrameInv ==
    /\ names \in [1 .. MaxFrames -> {<<>>, Two, Three}]
    /\ filled \in [1 .. MaxFrames -> SUBSET {"original", "overlay", "foreground", "regions"}]
    /\ \A f \in 1 .. MaxFrames : Contents(f)

LEMMA TwoThree ==
    /\ Two # <<>> /\ Three # <<>> /\ Two # Three /\ Append(Two, "foreground") = Three
    /\ Contains(Three, "foreground") /\ ~Contains(Two, "foreground")
    /\ Contains(Two, "overlay") /\ Contains(Three, "overlay")
    /\ Len(Two) = 2 /\ Len(Three) = 3
<1>1. Len(Two) = 2 /\ Len(Three) = 3 /\ Len(<<>>) = 0
  BY DEF Two, Three
<1>2. Two # <<>> /\ Three # <<>> /\ Two # Three
  BY <1>1, Zenon DEF Two, Three
<1>3. Append(Two, "foreground") = Three
  <2> DEFINE S == {"original", "overlay", "foreground"}
  <2>1. Two \in Seq(S) /\ Three \in Seq(S) /\ Append(Two, "foreground") \in Seq(S)
    BY DEF Two, Three
  <2>2. Len(Append(Two, "foreground")) = 3
    BY DEF Two
  <2>3. \A i \in 1 .. 3 : Append(Two, "foreground")[i] = Three[i]
    BY DEF Two, Three
  <2> QED
    BY <1>1, <2>1, <2>2, <2>3, SeqEqual
<1>4. Three[3] = "foreground" /\ Three[2] = "overlay" /\ Two[2] = "overlay" /\ Two[1] = "original"
  BY DEF Two, Three
<1>5. Contains(Three, "foreground") /\ Contains(Two, "overlay") /\ Contains(Three, "overlay")
  BY <1>1, <1>4 DEF Contains
<1>6. ~Contains(Two, "foreground")
  BY <1>1, <1>4 DEF Contains
<1> QED
  BY <1>1, <1>2, <1>3, <1>5, <1>6

LEMMA FinishIs ==
    ASSUME NEW e \in 1 .. 4, Flow!Finish(e)
    PROVE  /\ done' = [done EXCEPT ![e] = @ + 1]
           /\ e > 1 => done[e] < done[e - 1]
  BY DEF Flow!Finish

LEMMA InitInv == Init => FlowInv /\ FrameInv
<1> SUFFICES ASSUME Init PROVE FlowInv /\ FrameInv
  OBVIOUS
<1>1. done = [e \in 1 .. 4 |-> 0]
  BY DEF Init, Flow!Init, N
<1>2. FlowInv
  <2>1. done \in [1 .. 4 -> 0 .. MaxFrames] /\ done[1] = 0 /\ done[2] = 0 /\ done[3] = 0 /\ done[4] = 0
    BY <1>1
  <2>2. previous = 0 /\ camera = "idle" /\ turn = 0 /\ since = 0
    BY DEF Init
  <2>3. ~comparing /\ ~marking /\ comparing \in BOOLEAN /\ marking \in BOOLEAN
        /\ terminated \in BOOLEAN
    BY Zenon DEF Init
  <2>4. FlowType
    BY <2>1, <2>2, <2>3 DEF FlowType
  <2> QED
    BY <2>1, <2>2, <2>3, <2>4 DEF FlowInv
<1>3. ASSUME NEW f \in 1 .. MaxFrames PROVE Contents(f)
  BY <1>1, TwoThree DEF Init, Contents
<1>4. names \in [1 .. MaxFrames -> {<<>>, Two, Three}]
      /\ filled \in [1 .. MaxFrames -> SUBSET {"original", "overlay", "foreground", "regions"}]
  BY DEF Init
<1> QED
  BY <1>2, <1>3, <1>4 DEF FrameInv

---------------------------------------------------------------------------
(* The flow of frames.                                                     *)

\* An element that finishes its frame.
LEMMA FinishKeeps ==
    ASSUME FlowType, NEW e \in 1 .. 4, Flow!Finish(e), done[e] < MaxFrames
    PROVE  /\ done' \in [1 .. 4 -> 0 .. MaxFrames]
           /\ done'[e] = done[e] + 1 /\ \A d \in 1 .. 4 \ {e} : done'[d] = done[d]
  BY FinishIs DEF FlowType

LEMMA NextFlowInv == FlowInv /\ [Next]_vars => FlowInv'
<1> SUFFICES ASSUME FlowInv, [Next]_vars PROVE FlowInv'
  OBVIOUS
<1> USE DEF FlowInv, FlowType, Source, At, Waits, ImageSource, MovementDetector, RoiDetector,
            Publisher, sourceVars, detectorVars, publisherVars, frameVars
<1>1. CASE NewFrame \/ ReadSucceeds \/ ReadFails \/ Reopens
  BY <1>1 DEF NewFrame, ReadSucceeds, ReadFails, Reopens
<1>2. CASE SourceThrows
  BY <1>2 DEF SourceThrows
<1>3. CASE SourceReturns
  BY <1>3, FinishKeeps DEF SourceReturns
<1>4. CASE FirstFrame
  <2>1. Flow!Finish(2) /\ done[2] < done[1] /\ done[1] <= MaxFrames
    BY <1>4 DEF FirstFrame, Detects
  <2>2. /\ done' \in [1 .. 4 -> 0 .. MaxFrames] /\ done'[2] = done[2] + 1
        /\ done'[1] = done[1] /\ done'[3] = done[3] /\ done'[4] = done[4]
    BY <2>1, FinishKeeps
  <2>3. previous' = done[2] + 1 /\ UNCHANGED <<camera, marking, turn, terminated>>
    BY <1>4 DEF FirstFrame, Detects
  <2>5. since' = 1
    <3>1. previous = 0 /\ since' = since + 1
      BY <1>4, Zenon DEF FirstFrame, Detects
    <3> QED
      BY <3>1
  <2>4. ~comparing' /\ comparing' \in BOOLEAN
    BY <1>4 DEF FirstFrame, Detects
  <2>6. FlowType'
    BY <2>1, <2>2, <2>3, <2>4, <2>5
  <2> QED
    BY <2>1, <2>2, <2>3, <2>4, <2>5, <2>6
<1>5. CASE Compare
  BY <1>5 DEF Compare, Detects
<1>6. CASE Compared
  <2>1. Flow!Finish(2) /\ done[2] < done[1] /\ done[1] <= MaxFrames
    BY <1>6 DEF Compared
  <2>2. /\ done' \in [1 .. 4 -> 0 .. MaxFrames] /\ done'[2] = done[2] + 1
        /\ done'[1] = done[1] /\ done'[3] = done[3] /\ done'[4] = done[4]
    BY <2>1, FinishKeeps
  <2>3. previous' = done[2] + 1 /\ since' = 0
        /\ UNCHANGED <<camera, marking, turn, terminated>>
    BY <1>6 DEF Compared
  <2>4. ~comparing' /\ comparing' \in BOOLEAN
    BY <1>6, Zenon DEF Compared
  <2> QED
    BY <2>1, <2>2, <2>3, <2>4
<1>7. CASE Mark
  BY <1>7 DEF Mark
<1>8. CASE Marked
  <2>1. Flow!Finish(3) /\ done[3] < done[2] /\ done[2] <= MaxFrames
    BY <1>8 DEF Marked
  <2>2. /\ done' \in [1 .. 4 -> 0 .. MaxFrames] /\ done'[3] = done[3] + 1
        /\ done'[1] = done[1] /\ done'[2] = done[2] /\ done'[4] = done[4]
    BY <2>1, FinishKeeps
  <2>3. UNCHANGED <<previous, since, camera, comparing, turn, terminated>>
    BY <1>8 DEF Marked
  <2>4. ~marking' /\ marking' \in BOOLEAN
    BY <1>8, Zenon DEF Marked
  <2> QED
    BY <2>1, <2>2, <2>3, <2>4
<1>9. CASE Publish
  BY <1>9 DEF Publish
<1>10. CASE Show
  BY <1>10 DEF Show, Streams
<1>11. CASE Published
  BY <1>11, FinishKeeps DEF Published
<1>12. CASE Listen
  BY <1>12 DEF Listen
<1>13. CASE UNCHANGED vars
  BY <1>13 DEF vars
<1> QED
  BY <1>1, <1>2, <1>3, <1>4, <1>5, <1>6, <1>7, <1>8, <1>9, <1>10, <1>11, <1>12, <1>13
     DEF Next, SourceStep, DetectorStep, PublisherStep

\* Two elements at work are at different frames, and the image source, which
\* alone writes originals, is ahead of the frame the movement detector keeps.
LEMMA Apart ==
    ASSUME FlowInv, NEW d \in 1 .. 4, NEW e \in 1 .. 4, d # e, Working(d), Working(e)
    PROVE  At(d) # At(e) /\ At(1) # previous
<1>0. done \in [1 .. 4 -> 0 .. MaxFrames] /\ done[2] <= done[1] /\ done[3] <= done[2]
      /\ done[4] <= done[3] /\ previous = done[2]
  BY DEF FlowInv, FlowType
<1>1. /\ Working(2) => done[2] < done[1]
      /\ Working(3) => done[3] < done[2]
      /\ Working(4) => done[4] < done[3]
  BY DEF FlowInv, Working, ImageSource, MovementDetector, RoiDetector, Publisher
<1>2. At(1) # previous
  BY <1>0 DEF At
<1>3. At(d) # At(e)
  <2>1. d \in {1, 2, 3, 4} /\ e \in {1, 2, 3, 4}
    OBVIOUS
  <2> QED
    BY <1>0, <1>1, <2>1 DEF At
<1> QED
  BY <1>2, <1>3

LEMMA NoneConflict == FlowInv => NoConflict
<1> SUFFICES ASSUME FlowInv, NEW d \in 1 .. 4, NEW e \in 1 .. 4, d # e, Working(d), Working(e)
             PROVE  Writes(d) \intersect (Reads(e) \cup Writes(e)) = {}
  BY DEF NoConflict, N
<1>0. d \in {1, 2, 3, 4} /\ e \in {1, 2, 3, 4}
  OBVIOUS
<1> USE DEF Reads, Writes, ImageSource, MovementDetector, RoiDetector, Publisher
<1>1. ASSUME NEW x \in Writes(d) PROVE x[1] = At(d) /\ (x[2] = "original" => d = 1)
  <2>1. CASE d = 1
    BY <1>1, <2>1
  <2>2. CASE d = 2
    BY <1>1, <2>2
  <2>3. CASE d = 3
    BY <1>1, <2>3
  <2>4. CASE d = 4
    BY <1>1, <2>4
  <2> QED
    BY <1>0, <2>1, <2>2, <2>3, <2>4
<1>2. ASSUME NEW x \in Reads(e) \cup Writes(e)
      PROVE  x[1] = At(e) \/ (x[1] = previous /\ x[2] = "original")
  <2>1. CASE e = 1
    BY <1>2, <2>1
  <2>2. CASE e = 2
    BY <1>2, <2>2
  <2>3. CASE e = 3
    BY <1>2, <2>3
  <2>4. CASE e = 4
    BY <1>2, <2>4
  <2> QED
    BY <1>0, <2>1, <2>2, <2>3, <2>4
<1> QED
  BY <1>1, <1>2, Apart

---------------------------------------------------------------------------
(* What the frames hold.                                                   *)

LEMMA NextFrameInv == FlowInv /\ FrameInv /\ [Next]_vars => FrameInv'
<1> SUFFICES ASSUME FlowInv, FrameInv, [Next]_vars PROVE FrameInv'
  OBVIOUS
<1>0. /\ done \in [1 .. 4 -> 0 .. MaxFrames] /\ done[2] <= done[1]
      /\ camera # "idle" => done[1] < MaxFrames
      /\ comparing => done[2] < done[1]
      /\ \A f \in 1 .. MaxFrames : Contents(f)
      /\ names \in [1 .. MaxFrames -> {<<>>, Two, Three}]
      /\ filled \in [1 .. MaxFrames -> SUBSET {"original", "overlay", "foreground", "regions"}]
  BY DEF FlowInv, FlowType, FrameInv
<1> USE DEF sourceVars, detectorVars, publisherVars, frameVars, Source, At, Waits,
            ImageSource, MovementDetector, RoiDetector, Publisher
<1>1. CASE NewFrame
  <2>1. /\ camera = "idle" /\ camera' = "read" /\ done[1] + 1 \in 1 .. MaxFrames
        /\ names' = [names EXCEPT ![done[1] + 1] = Two]
        /\ filled' = [filled EXCEPT ![done[1] + 1] = @ \cup {"overlay"}]
        /\ UNCHANGED <<done, comparing>>
    BY <1>0, <1>1 DEF NewFrame, Fill, Two
  <2>2. ASSUME NEW f \in 1 .. MaxFrames PROVE Contents(f)'
    BY <1>0, <2>1, TwoThree DEF Contents
  <2> QED
    BY <1>0, <2>1, <2>2 DEF FrameInv
<1>2. CASE ReadSucceeds
  <2>1. /\ camera # "idle" /\ camera' = "done" /\ done[1] + 1 \in 1 .. MaxFrames
        /\ filled' = [filled EXCEPT ![done[1] + 1] = @ \cup {"original"}]
        /\ UNCHANGED <<done, comparing, names>>
    BY <1>0, <1>2 DEF ReadSucceeds, Fill
  <2>2. ASSUME NEW f \in 1 .. MaxFrames PROVE Contents(f)'
    BY <1>0, <2>1 DEF Contents
  <2> QED
    BY <1>0, <2>1, <2>2 DEF FrameInv
<1>3. CASE ReadFails \/ Reopens
  <2>1. camera # "idle" /\ camera' \notin {"idle", "done"} /\ UNCHANGED <<done, comparing, names, filled>>
    BY <1>3 DEF ReadFails, Reopens
  <2>2. ASSUME NEW f \in 1 .. MaxFrames PROVE Contents(f)'
    BY <1>0, <2>1 DEF Contents
  <2> QED
    BY <1>0, <2>1, <2>2 DEF FrameInv
<1>4. CASE SourceReturns
  <2>1. Flow!Finish(1) /\ camera = "done" /\ camera' = "idle" /\ UNCHANGED <<comparing, names, filled>>
    BY <1>4 DEF SourceReturns
  <2>2. done'[1] = done[1] + 1 /\ done'[2] = done[2]
    BY <1>0, <2>1, FinishIs
  <2>3. ASSUME NEW f \in 1 .. MaxFrames PROVE Contents(f)'
    BY <1>0, <2>1, <2>2 DEF Contents
  <2> QED
    BY <1>0, <2>1, <2>3 DEF FrameInv
<1>5. CASE FirstFrame
  <2>1. Flow!Finish(2) /\ done[2] = 0 /\ ~comparing /\ UNCHANGED <<camera, comparing, names, filled>>
    BY <1>5 DEF FirstFrame, Detects, FlowInv
  <2>2. done'[2] = 1 /\ done'[1] = done[1]
    BY <1>0, <2>1, FinishIs
  <2>3. ASSUME NEW f \in 1 .. MaxFrames PROVE Contents(f)'
    BY <1>0, <2>1, <2>2 DEF Contents
  <2> QED
    BY <1>0, <2>1, <2>3 DEF FrameInv
<1>6. CASE Compare
  <2>1. /\ ~comparing /\ done[2] + 1 \in 1 .. MaxFrames /\ done[2] + 1 <= done[1]
        /\ ~Contains(names[done[2] + 1], "foreground")
        /\ names' = [names EXCEPT ![done[2] + 1] = Append(@, "foreground")]
        /\ UNCHANGED <<done, camera, filled>>
    BY <1>0, <1>6 DEF Compare, Detects, HasSlotFor
  <2>2. comparing'
    BY <1>6, Zenon DEF Compare
  <2>3. names[done[2] + 1] = Two
    BY <1>0, <2>1 DEF Contents
  <2>4. names' = [names EXCEPT ![done[2] + 1] = Three]
    BY <1>0, <2>1, <2>3, TwoThree
  <2>5. ASSUME NEW f \in 1 .. MaxFrames PROVE Contents(f)'
    BY <1>0, <2>1, <2>2, <2>4, TwoThree DEF Contents
  <2> QED
    BY <1>0, <2>1, <2>4, <2>5 DEF FrameInv
<1>7. CASE Compared
  <2>1. /\ Flow!Finish(2) /\ comparing /\ done[2] + 1 \in 1 .. MaxFrames
        /\ filled' = [filled EXCEPT ![done[2] + 1] = @ \cup {"foreground"}]
        /\ UNCHANGED <<camera, names>>
    BY <1>0, <1>7 DEF Compared, Fill
  <2>2. ~comparing'
    BY <1>7, Zenon DEF Compared
  <2>3. done'[2] = done[2] + 1 /\ done'[1] = done[1]
    BY <1>0, <2>1, FinishIs
  <2>4. ASSUME NEW f \in 1 .. MaxFrames PROVE Contents(f)'
    BY <1>0, <2>1, <2>2, <2>3 DEF Contents
  <2> QED
    BY <1>0, <2>1, <2>4 DEF FrameInv
<1>8. CASE Marked
  <2>1. Flow!Finish(3) /\ UNCHANGED <<camera, comparing, names>>
    BY <1>8 DEF Marked
  <2>2. done'[1] = done[1] /\ done'[2] = done[2]
    BY <1>0, <2>1, FinishIs
  <2>3. filled' = filled \/ filled' = [filled EXCEPT ![done[3] + 1] = @ \cup {"regions"}]
    BY <1>8 DEF Marked, Fill
  <2>4. filled' \in [1 .. MaxFrames -> SUBSET {"original", "overlay", "foreground", "regions"}]
        /\ \A f \in 1 .. MaxFrames : filled[f] \subseteq filled'[f]
    <3>1. CASE filled' = filled
      BY <1>0, <3>1
    <3>2. CASE filled' = [filled EXCEPT ![done[3] + 1] = @ \cup {"regions"}]
      <4> DEFINE g == done[3] + 1
      <4>1. filled' = [f \in 1 .. MaxFrames |->
                          IF f = g THEN filled[f] \cup {"regions"} ELSE filled[f]]
        BY <1>0, <3>2
      <4> HIDE DEF g
      <4> QED
        BY <1>0, <4>1
    <3> QED
      BY <2>3, <3>1, <3>2
  <2>5. ASSUME NEW f \in 1 .. MaxFrames PROVE Contents(f)'
    BY <1>0, <2>1, <2>2, <2>4 DEF Contents
  <2> QED
    BY <1>0, <2>1, <2>4, <2>5 DEF FrameInv
<1>9. CASE Published
  <2>1. Flow!Finish(4) /\ UNCHANGED <<camera, comparing, names, filled>>
    BY <1>9 DEF Published
  <2>2. done'[1] = done[1] /\ done'[2] = done[2]
    BY <1>0, <2>1, FinishIs
  <2>3. ASSUME NEW f \in 1 .. MaxFrames PROVE Contents(f)'
    BY <1>0, <2>1, <2>2 DEF Contents
  <2> QED
    BY <1>0, <2>1, <2>3 DEF FrameInv
<1>10. CASE SourceThrows \/ Mark \/ Publish \/ Show \/ Listen \/ UNCHANGED vars
  <2>1. UNCHANGED <<done, camera, comparing, names, filled>>
    BY <1>10 DEF SourceThrows, Mark, Publish, Show, Listen, vars
  <2>2. ASSUME NEW f \in 1 .. MaxFrames PROVE Contents(f)'
    BY <1>0, <2>1 DEF Contents
  <2> QED
    BY <1>0, <2>1, <2>2 DEF FrameInv
<1> QED
  BY <1>1, <1>2, <1>3, <1>4, <1>5, <1>6, <1>7, <1>8, <1>9, <1>10
     DEF Next, SourceStep, DetectorStep, PublisherStep

---------------------------------------------------------------------------
(* The publisher: who listens is served.                                   *)

StreamNames == {"main", "overlay", "foreground", "difference"}

LEMMA StreamsAre ==
    /\ Range(Streams) = StreamNames /\ DOMAIN Streams = 1 .. 4 /\ Len(Streams) = 4
    /\ \A i \in 1 .. 4 : Streams[i] \in StreamNames
<1>1. DOMAIN Streams = 1 .. 4 /\ Len(Streams) = 4
  BY DEF Streams
<1>2. Streams[1] = "main" /\ Streams[2] = "overlay" /\ Streams[3] = "foreground"
      /\ Streams[4] = "difference"
  BY DEF Streams
<1>3. 1 .. 4 = {1, 2, 3, 4}
  OBVIOUS
<1> QED
  BY <1>1, <1>2, <1>3 DEF Range, StreamNames

ServedInv ==
    /\ listeners \subseteq StreamNames
    /\ pictures \in [StreamNames -> 0 .. MaxFrames] /\ heard \in [StreamNames -> 0 .. MaxFrames]
    /\ ListenersAreServed

LEMMA InitServed == Init => ServedInv
  BY StreamsAre DEF Init, ServedInv, ListenersAreServed, StreamNames

LEMMA NextServed == FlowInv /\ FrameInv /\ ServedInv /\ [Next]_vars => ServedInv'
<1> SUFFICES ASSUME FlowInv, FrameInv, ServedInv, [Next]_vars PROVE ServedInv'
  OBVIOUS
<1>1. CASE Show
  <2> DEFINE f == done[4] + 1
  <2>1. f \in 1 .. MaxFrames /\ f <= done[1] /\ f <= done[2]
    BY <1>1, StreamsAre DEF Show, FlowInv, FlowType
  <2>2. Contents(f)
    BY <2>1 DEF FrameInv
  <2>3. HasImage(f, "main") /\ HasImage(f, "overlay") /\ (f > 1 => HasImage(f, "foreground"))
    BY <2>1, <2>2, TwoThree DEF HasImage, Contents
  <2>4. PICK s \in StreamNames :
           /\ heard' = IF s \in listeners THEN [heard EXCEPT ![s] = f] ELSE heard
           /\ pictures' = IF s \in listeners /\ HasImage(f, s)
                            THEN [pictures EXCEPT ![s] = f] ELSE pictures
    BY <1>1, StreamsAre DEF Show, At, Publisher
  <2> HIDE DEF f
  <2>5. listeners' = listeners
    BY <1>1 DEF Show
  <2>6. pictures' \in [StreamNames -> 0 .. MaxFrames] /\ heard' \in [StreamNames -> 0 .. MaxFrames]
    BY <2>1, <2>4 DEF ServedInv
  <2>7. ASSUME NEW t \in {"main", "overlay"} PROVE pictures'[t] = heard'[t]
    <3>1. t \in StreamNames /\ HasImage(f, t)
      BY <2>3 DEF StreamNames
    <3> QED
      BY <2>4, <3>1 DEF ServedInv, ListenersAreServed
  <2>8. heard'["foreground"] > 1 => pictures'["foreground"] = heard'["foreground"]
    <3>1. "foreground" \in StreamNames
      BY DEF StreamNames
    <3> QED
      BY <2>1, <2>3, <2>4, <3>1 DEF ServedInv, ListenersAreServed
  <2> QED
    BY <2>5, <2>6, <2>7, <2>8 DEF ServedInv, ListenersAreServed
<1>2. CASE Listen
  BY <1>2, StreamsAre DEF Listen, ServedInv, ListenersAreServed
<1>3. CASE SourceStep \/ DetectorStep \/ Publish \/ Published \/ UNCHANGED vars
  <2>1. UNCHANGED <<listeners, pictures, heard>>
    BY <1>3 DEF SourceStep, NewFrame, ReadSucceeds, ReadFails, Reopens, SourceThrows,
                SourceReturns, DetectorStep, FirstFrame, Compare, Compared, Mark, Marked,
                Publish, Published, publisherVars, vars
  <2> QED
    BY <2>1 DEF ServedInv, ListenersAreServed
<1> QED
  BY <1>1, <1>2, <1>3 DEF Next, PublisherStep

---------------------------------------------------------------------------
(* The theorems.                                                           *)

IInv == FlowInv /\ FrameInv /\ ServedInv

LEMMA InitIInv == Init => IInv
  BY InitInv, InitServed DEF IInv

LEMMA NextIInv == IInv /\ [Next]_vars => IInv'
  BY NextFlowInv, NextFrameInv, NextServed DEF IInv

\* The variables keep their types: no frame ever has more than three of its
\* ten slots in use (Frame.cpp and the four elements).
THEOREM TypeCorrect == Spec => []TypeOK
<1>1. ASSUME IInv PROVE TypeOK
  <2> DEFINE S == {"original", "overlay", "foreground"}
  <2>1. {<<>>, Two, Three} \subseteq BoundedSeq(S, 3)
    <3>1. <<>> \in [1 .. 0 -> S] /\ Two \in [1 .. 2 -> S] /\ Three \in [1 .. 3 -> S]
      BY DEF Two, Three
    <3>2. 0 \in 0 .. 3 /\ 2 \in 0 .. 3 /\ 3 \in 0 .. 3
      OBVIOUS
    <3> QED
      BY <3>1, <3>2 DEF BoundedSeq, SeqOf
  <2>2. names \in [1 .. MaxFrames -> BoundedSeq(S, 3)]
    BY <1>1, <2>1 DEF IInv, FrameInv
  <2>4. /\ listeners \subseteq Range(Streams)
        /\ pictures \in [Range(Streams) -> 0 .. MaxFrames]
        /\ heard \in [Range(Streams) -> 0 .. MaxFrames]
    BY <1>1, StreamsAre DEF IInv, ServedInv
  <2>5. FlowType /\ turn \in 0 .. Len(Streams) + 1 /\ since \in 0 .. kDifferenceInterval + 1
    BY <1>1, StreamsAre DEF IInv, FlowInv, FlowType, kDifferenceInterval
  <2>6. filled \in [1 .. MaxFrames -> SUBSET {"original", "overlay", "foreground", "regions"}]
    BY <1>1 DEF IInv, FrameInv
  <2> QED
    BY <2>2, <2>4, <2>5, <2>6 DEF TypeOK, FlowType, N
<1> QED
  BY InitIInv, NextIInv, <1>1, PTL DEF Spec

\* For any number of frames, no element touches what another one writes at the
\* same time.
THEOREM ElementsDoNotConflict == Spec => []NoConflict
<1>1. IInv => NoConflict
  BY NoneConflict DEF IInv
<1> QED
  BY InitIInv, NextIInv, <1>1, PTL DEF Spec

\* Whatever the camera does, a frame that is handed on holds a picture.
THEOREM FramesAreFilled == Spec => []HandedOnFilled
<1>1. ASSUME IInv PROVE HandedOnFilled
  <2>1. done[1] \in 0 .. MaxFrames
    BY <1>1 DEF IInv, FlowInv, FlowType
  <2> QED
    BY <1>1, <2>1 DEF IInv, FrameInv, Contents, HandedOnFilled, ImageSource
<1> QED
  BY InitIInv, NextIInv, <1>1, PTL DEF Spec

\* Who listens when it is a stream's turn gets that frame's picture.
THEOREM WhoListensIsServed == Spec => []ListenersAreServed
<1>1. IInv => ListenersAreServed
  BY DEF IInv, ServedInv
<1> QED
  BY InitIInv, NextIInv, <1>1, PTL DEF Spec
=============================================================================
