# SecMon: a verification project

SecMon watches a camera: it grabs frames, detects movement, finds regions of
interest and publishes the pictures to browsers as motion-JPEG streams. It is a
C++ program on Boost.Asio: one `io_service`, a pool of eight threads, and a main
thread that reads keys. This directory models the program's control in TLA+,
checks the models with TLC on small instances, and proves the results that
matter most with TLAPS for every value of the constants. Paths below are
relative to the repository root; the program is in its `src/` directory.

## 1. The system

| part | source | state | operations |
|---|---|---|---|
| data pump | `Pipeline/TimedWorkWrapper.h` | `paused_`, a timer (waits, queued ticks), a strand | `schedule_work`, `do_work`, `pause`, `start_timer`, `restart_timer`, `set_interval` |
| pipeline | `Pipeline/Pipeline.h`, `WorkWrapper.h` | elements joined by `next_`, a strand each, queues of statistics, `paused_`, `started_`, `compiled_` | building (`addTimedElement`, `addElement`, `compile`), `start`, `pause`, `collect_stats`, `change_timer` |
| scene | `Scene.cpp`, `SceneMonitor.cpp` | the map of scenes, `isPaused_`, a pipeline per scene | `start_monitoring`, `toggle_pause`, `shutdown`, `set_realtime_factor` |
| process | `SecurityMonitor.cpp` | where main is, the pool, the signal set | construction, keys, the way out |
| image source | `ImageSource/*.cpp` | the capture device | `process_next_frame`, `get_next_frame`, `restart` |
| frame | `Frame.cpp` | ten image slots with names, regions of interest, captions | `get_image`, `get_new_image`, `get_image_as_jpg`, ... |
| movement detector | `ImageProcessing/MovementDetectorBasic.cpp` | the previous frame | `process_next_frame` |
| region detector | `ImageProcessing/ROI_Detector.cpp` | the frame's list of rectangles | `process_next_frame`, `consolidate_rectangles`, `remove_nested` |
| publisher | `ScenePublisher.cpp`, `PerformanceMonitor.cpp` | four signals, CPU counters | `process_next_frame`, `get_performance_string` |
| streams | `GUI/Stream*.cpp` | directory of streams, list of connections, signal slots, outbox per connection | `handleValidStream`, `registerNewConnection`, `start`, `sendFrame`, `addToOutbox`, `handle_write`, `deregisterConnection` |
| HTTP server | `GUI/HTTP_Server.cpp`, `Connection.cpp`, `RequestParser.cpp`, `RequestHandler.cpp`, `Reply.cpp` | acceptor, request being parsed | accept loop, read loop, parse, reply |
| web sockets | `GUI/WebSocketServer.cpp` | set of connections | `on_open`, `on_message`, `on_close`, `shutdown` |

How they interact. main builds the `GUI_Interface` and the `SceneMonitor`; the
`Scene` builds a pipeline of four elements (image source, movement detector,
region detector, publisher), compiles and starts it. The pump's timer fires on a
pool thread, the image source fills in a new `Frame`, and each element posts the
shared pointer to the strand of the next. The publisher encodes one JPEG per
stream that has a listener and calls the stream's signal; each HTTP connection of
the stream is a slot that queues the picture in its outbox and writes it from its
own strand. main pauses the pump directly, from its own thread. Statistics are
pushed by every element and collected every five seconds on a strand of the
pipeline.

What is hard in it: main and a pool thread meet in the pump's timer without a
lock; the elements and the statistics collector share queues without a lock; two
neighbouring frames are shared by elements that work at the same time; stream
connections start on one thread while their strand already runs on another; a
connection fails while frames are on their way to it; a work that throws ends
the process; main walks over the list of web sockets, without its lock, while
handlers change it; and main leaves without joining the threads.

What makes each part correct:

* pump: a running pump never loses its last tick, ticks do not multiply, a pump
  at rest stays at rest, and `pause` stops it (it does not always, see findings);
* pipeline: every datum is processed by every element, once and in order; a
  blocked element holds nobody else up; statistics are never popped from an
  empty queue and a row of them belongs to one datum;
* process: the three pause flags agree, Enter stops the scene and the process;
* frames: no two elements touch the same image at once; slots are found again
  under the name they were registered with;
* regions: consolidation loses no region that was found and ends;
* streams: one write at a time, frames in order and none lost while the client
  accepts them, a failed connection is released (it is not always, see findings);
* HTTP: a request is parsed the same however it is cut into reads, every
  connection gets one reply, whole, and no file outside of the document root;
* web sockets: the list of connections matches the open ones, and shutdown closes
  what it drops from the list (it does not always, see findings);
* performance: what is displayed as a percentage is one, up to the rounding to ticks.

The complete list of hazards, with the lines and the properties that cover them,
is in `PROJECT.json`.

## 2. The modules

| module | models | composes |
|---|---|---|
| `TimedWorkWrapper` | the data pump: its timer, its strand, the thread that pauses it | |
| `Conveyor` | what `Pipeline.h` promises its user, abstractly | |
| `Pipeline` | a compiled pipeline at work: pump, elements, statistics, pool threads | `TimedWorkWrapper` (INSTANCE), `Conveyor` (refined) |
| `WebSocketServer` | the list of web socket connections, the handlers and the loops that change it | |
| `SecurityMonitor` | `main` from construction to the destructors, the scene and its three pause flags, the pool | `TimedWorkWrapper`, `WebSocketServer` (INSTANCE) |
| `PerformanceMonitor` | the samples of the CPU's usage, their ages, the counters they compare | |
| `Frames` | what the four elements of a scene read and write | `Conveyor` (INSTANCE: who may work on which frame) |
| `RoiDetector` | `consolidate_rectangles` | |
| `Stream` | one motion-JPEG stream, its connections and their sockets | |
| `RequestParser` | the parser of requests, and the grammar it should accept | |
| `Reply` | replies, their headers and the buffers they are written from | |
| `HttpServer` | accept loop, connections, dispatch of a request | `RequestParser`, `Reply` (EXTENDS) |
| `MCRoiDetector`, `MCHttpServer` | the inputs of two of the runs | |
| `TimedWorkWrapper_proofs`, `Pipeline_proofs`, `SecurityMonitor_proofs`, `Frames_proofs`, `PerformanceMonitor_proofs`, `RoiDetector_proofs`, `Stream_proofs`, `HttpServer_proofs` | theorems, each about the module it is named after | `HttpServer_proofs` proves the theorem about `RequestParser`, too, and uses it |

Definitions keep the names of the source where there is one. An operator marked
"Regression" next to a definition is that definition with a bug somebody might
introduce (a dropped guard, a swapped order, a missing reset). It takes no part
in any specification; `PROJECT.json` lists, under `mutants`, the property that
finds it.

### TimedWorkWrapper

`paused_` is the member; `call` and `at["owner"]` say which of `schedule_work`
and `pause` main is executing and how far it is; `at["strand"]` does the same for
`do_work`. The timer is asio's: `waits` in its queue, `expired` and `aborted`
handlers posted to the strand, and `mayWait`, asio's flag
`might_have_pending_waits`, which makes `cancel` return early. A call of
`expires_from_now`, `expires_at` or `cancel` is two accesses (take the waits,
clear the flag) and `async_wait` is two more (set the flag, enqueue), because
main and the strand do them without a lock and asio calls a shared timer
unsafe. `toggles` bounds the calls of `pause`. `set_interval` changes a duration
and is not modelled: there is no clock, a timer that has been armed expires some
time later.

### Pipeline

`posted[e]` is the FIFO of the strand of element `e`, `phase` and `holds` the
handler that runs on it, `stats[e]` the length of its queue of statistics,
`collector` the program counter and loop index of `collect_stats`. `done[e]`, the
last datum `e` has finished, is the view of the system that `Conveyor` has. A handler
begins only when one of `NumThreads` threads is free, and a thread stays occupied
while the work of an element in `MayBlock` does not return. Steps of the pump are
the actions of `TimedWorkWrapper`, each joined with what it means for the flow of
data (`PumpBegins`, `PumpFinishes`, `PumpPosts`, `PumpOnly`). `front()` before
the first test of `collect_stats` reads a value nobody uses and is left out. So is a
detail of asio: it hashes strands to a fixed number of implementations, and two strands that share
one exclude each other; a blocked element would then block another one with it.

### SecurityMonitor

`main` is the place in `main()`; the other variables are the pump's, the three
flags (`Scene::isPaused_`, `Pipeline::paused_`, the element's `paused_`) and the
state of the `io_service`. A stopped `io_service` begins no handler, but one that has
begun goes on. The sleeps of two seconds are steps that may happen at any time,
since nothing in the code ties them to what they wait for. When closing a web
socket throws, main catches the exception behind `io_service.stop()` and goes on to
the destructors with the pool still running (`CloseFails`); an exception in the
destructor itself ends the process (`DestructorThrows`). Where the code is undefined,
`Crashes` lets the process end: the iterator `~SceneMonitor` increments after
erasing it, the socket server's unlocked loops, a handler that outlives its scene.
The end of the process in one of these ways (`terminated`) is an outcome that the liveness
properties accept, `EnterLeadsToExit` here and those of the pump and the pipeline, where a
work that throws ends it: they say that nothing is stuck, not that nothing crashes. `PROJECT.json`
lists the crashes as hazards without a property.

### WebSocketServer

`session` is websocketpp's side of a connection (opening, open, closing, closed, gone),
`master_list` the set of `WebSocketServer.cpp`. `OnOpen` and `OnClose` are its handlers, on
threads of the pool. `loop`, `it` and `sent` are main in one of its two loops over the
list: `CloseOne` closes the element, `Advance` goes to the next, `CloseThrows` is the exception
of `server.close` for a session that is not open. `Wild` says when a step of the loop is
undefined: its element has been erased, or a handler is about to change the set; then
the loop goes on anywhere in the list or the process crashes. The set is ordered by
address, so the connections are numbered in that order and a new one may come
before or after the iterator. `on_message` only logs what it parses and is left out.

### Frames

Which element works on which frame comes from `Conveyor`; the module adds what
each of them does there: the camera that fails and is reopened, or makes the
element throw, the slots of a frame that are registered (`names`) and hold pixels
(`filled`), the movement detector's `previous` frame, the publisher's `turn` among its
streams. `Reads` and `Writes` say which parts of which frames an element touches
while it works. `SourceReturns` relies on OpenCV's contract for `VideoCapture::read`, which returns true only
with a picture: the branch for an empty one (`ImageSource.cpp:52-53`) is never taken.

### PerformanceMonitor

A sample compares `times()` and the process's user and system ticks with those of the sample
before (`PerformanceMonitor.cpp:134-147`). It is skipped when `times()` has not advanced, which
depends on the age of the tick that the last sample fell into (`sinceTick`), or when one of the two
counters is smaller than it was, which may happen at any sample (`wentBack`). What is skipped becomes -1,
and 2^32 - 1 once it is an unsigned number. `sincePerf` is the age of `last_perf_time_`, which decides
when a new sample is due; it is taken some time before the sample is, by at most `MaxDelay`. What two
counters can gain between two samples is bounded by the machine (`MostUsed`): every processor may have been
busy for the ticks that passed and a part of one more, and each counter is cut down to
whole ticks by itself; so a usage may exceed 100, the more the fewer ticks have passed. `UsageIsPercent`
bounds it by 100 and what `LeastTicks`, the fewest ticks between two samples, make of
the rounding: 101 or 102 with the program's hundred ticks.

Two assumptions are the environment's: the clock of the pictures and `times()` advance together (nobody sets
the clock), and `MaxDelay + Tick <= interval_`, that is, the thread is not held up for almost
a second between two statements. The property speaks of new samples (the constructor samples twice
in a row, so that the first interval usually shows the skipped value) and of samples whose counters have not gone
back. The comment at line 137, "Just skip this value", does not fit either of these cases: the value is not
skipped but replaces the last one and is displayed, as 4294967295 %.

### RoiDetector

`rects` is the frame's list of rectangles, `small` and `large` are the two iterators as
indices. One action per turn of the inner loop: `Nested` (the small one lies in the large one and is
erased), `Merge` (the overlap is large enough: the larger one becomes the hull of both, the
small one is erased; the erase moves the list under `large`, which is stepped back), `Apart`, and `NextSmall`.
Rectangles are quadruples of integers. Contours and their bounding boxes come
from OpenCV. The grid of the run is too small for the rounding of an overlap near 85 % to matter; the
theorems cover all integers.

The comment at `ROI_Detector.cpp:71-73` ("Remove the nested rectangles", "only need to compare rectangles with
>= ones") promises more than the loops do, and no property here states it. A merge enlarges a
rectangle behind ones that the outer loop has passed, and those are not compared with it again: of (x, y, width,
height) = (0,0,1,1), (0,1,8,1), (1,0,8,7) the first is passed, the second is merged into the third, which becomes
(0,0,9,7); the list stays sorted, but its first rectangle lies in its last and remains. What the properties
state is what holds: no contour is lost (`NoRegionLost`), nothing is invented, and the rounds run out.

### Stream

Three kinds of threads meet here. `started[c]` is how far `registerNewConnection`
has come with a connection, on the thread that parsed its request. `toCall` is
what the publisher's running call of the signal has yet to visit. signals2 tests under a lock whether a slot
is connected and calls it without that lock: these are two steps (`TestSlot`, `CallSlot`), and `calling` is
the slot in between, which may be disconnected before it is called. `strand[c]` is the queue
of handlers of the connection: `send` (`sendFrame`), `add` (`addToOutbox`), `wrote` and
`failed` (`handle_write`). `found[c]` is the iterator `deregisterConnection` holds
between its search, which takes no lock, and its erase, which does; `push_back`
on another thread may leave it dangling. What an erase through a dangling or outdated iterator takes out of the
list is a choice among all its entries (`Erased`); what it does to the rest of the heap is left out, so
`StaysSubscribed` says only that no subscription depends on the list. Pictures are numbers, and `InOrder` says where each of
them is: received or in the outbox (`Sent`), in a handler `add`, or in a handler `send`.

The message that is being written stays at the head of the outbox (`OneWrite`), which keeps
the data of a picture alive (`FrameToSend::ptr_`) and nothing else. `Reply.h:52-54` asks for the Reply behind the
buffers of a write to "remain valid and not be changed until the write operation has completed". The
Reply of the headers is destroyed when `sendInitialHeaders` returns (`StreamConnection.cpp:68-84`), and the
buffer of Content-Length points into a temporary (line 89). Both happen in every execution, so no property
here tells one behaviour from another by it; a reader should not take `OneWrite` for a statement about those buffers.

### RequestParser, Reply and HttpServer

The parser is a table, one row per branch of `consume` that does not refuse, over one
character per class the code tells apart. `IsRequest` is the grammar in terms of
lines. In `HttpServer` a client picks all it is going to send when it connects; each
`HandleRead` gets the next one to `BufferSize` characters of it, so that a
request is cut in every possible way, feeds the parser that keeps its state in
`Connection`, and answers, reads on or hands the connection over. `HandleRequest` is
the dispatch: escapes (including the numbers `istringstream >> hex` accepts that are
not two digits), `..`, `index.html`, the extension, the path that the file is opened under (a C string, so that
an escaped NUL ends it: `Opened`), and `std::stoi` on the name of a stream, which skips white space (the
sign it accepts, too, is not among the characters). `Reply` holds
what is sent: the three statuses of the sixteen in `Reply.h` that the server answers with, their stock pages, the file read block by block, `Content-Length` taken from the content
as it is then, and `ToBuffers`. A fixed text of the code is one element of the sequence
that is written, and so is a byte of a file. `written` is what the client has read.

## 3. The runs

Passing runs:

| run | bounds | distinct states | shows |
|---|---|---|---|
| `pump` | 4 calls of `pause` | 1,426 | `PumpAlive`, `HandlersBounded`: the last tick is not lost and ticks do not multiply, whatever main and the strand do to the timer at the same time; `RestIsStable`; `PumpKeepsTicking` |
| `pipeline` | 4 elements, 3 threads of which 2 may block for ever, 2 frames, 2 calls of `pause` | 46 thousand | `NoneLostNoneReordered`; `PopSafe`, `RowsAligned` for statistics collected while elements push; `BehindIsServed`; `RefinesConveyor`; `KeepsUp` |
| `process` | 4 calls of `pause`, 2 web socket connections | 320 thousand | `FlagsAgree`, `RunningSceneIsStopped`; `ListMatches` whatever main's unlocked loops do; `EnterLeadsToExit` although a work never returns, a socket fails to close or the pool has been stopped by a signal |
| `frames` | 3 frames | 116 thousand | `NoConflict`, `HandedOnFilled`, `ListenersAreServed` |
| `monitor` | interval 5, tick 2, delay up to 1, pictures up to 7 apart, 2 processors | 1,143 | `UsageIsPercent` |
| `regions` | all sorted lists of up to three rectangles from a grid of 36 | 63 thousand | `NoRegionLost`, `EdgesFound`, `RoundsRunOut`, `Ends`; `TypeOK` keeps both iterators in the list |
| `stream` | 2 connections, 2 pictures | 912 thousand | `OneWrite`, `InOrder`, `StaysSubscribed`, `WorkRunsOut`, `Arrives` |
| `http` | 1 client with any of about 270 messages, 1 client with a bad one, reads of up to 3 characters, 1 failed accept; files of up to 3 bytes in blocks of 2 | 243 thousand | `AnswerFitsRequest`, `FilesUnderRoot`, `RepliesAreWhole`, `ClientsAreAccepted`, `ConnectionsAreServed` |

Why the bounds are enough. Four calls of `pause` are two pauses and two resumes,
so a chain of ticks that outlives a pause meets the chain a resume starts,
twice. Four elements are a first, a last and two neighbours in the middle, where
one may block and the other must not notice; two frames make a queue of two
in front of a blocked element, and a row of statistics next to another one. Three frames let the
movement detector work on one while the frame before is marked and the
one before that is published; the first frame is special, the third is
ordinary. Three rectangles are the least for which a merge happens in the middle of
the list with one rectangle on either side. Two connections are the least for which
one erases the list's entry of the other; two pictures are the least for which one is
written while the next one waits behind it. Two web sockets are the least for which the loop
has a next element, and for which one opens between its end and `clear()`. For the monitor
a tick is more than one unit, a delay may move the sample into the next tick, the fewest ticks between
two samples are two, and two pictures are up to more than an interval apart. Unsigned numbers have 16 bits, since 2^32 does not fit
the model checker's integers (the theorem has any width). A file of three bytes is
read in a full block and a short one. The messages of `http` are three good
requests (a header with a continuation; an escaped dot; a stream) and all that comes
from them by leaving out a character or changing it to a blank, a tab or
a dot: every row of the parser's table is used and every literal of a request
is missed in turn. One more message names a file by a path that a NUL cuts. Both sides of
`AnswerFitsRequest` use the operator `HandleRequest`: it checks the parser and the way a message is cut into reads; the dispatch is
checked by `FilesUnderRoot` and `RepliesAreWhole`.

Runs that end in a counterexample, each about one sentence of the repository:

| run | sentence | what happens |
|---|---|---|
| `pump_pause` | `Pipeline.h:29`: `pause()` "stops pipeline at start" | main's cancel finds nothing because the tick has expired or is running; `do_work` re-arms the timer without looking at `paused_`, and the paused pump goes on for ever |
| `process_stop` | `SecurityMonitor.cpp:153`: "Stopping monitoring..." | `Scene::shutdown` is the toggle `Pipeline::pause`: p and then Enter resumes the scene on the way out |
| `stream_closure` | `StreamConnection.cpp:143`: "Initiate graceful connection closure." | the headers' write fails after the slot is connected and before its connection object is assigned; a picture that is already queued then keeps the closed connection subscribed, and its outbox grows |
| `sockets_shutdown` | `WebSocketServer.cpp:69`, `:76`: "closing connections", "connections closed" | `on_open` inserts a connection although `shuttingDown` is set; when it does so between the end of the loop and `clear()`, the connection is dropped from the list and never closed |

Deadlock checking is off in all of them but `monitor` because the modelled system may stop:
`terminated` is the end of the process after an exception on a pool thread, `exited`
its ordinary end; the algorithm ends; connections are served.

## 4. Fairness

* `TimedWorkWrapper`: weak fairness of the strand, of main inside a call it has begun
  and of the clock. `io_service::run` runs a handler that is queued and the
  work of an image source returns. Pressing a key is under no fairness.
* `Pipeline`: strong fairness for the beginning of a handler. asio's queue is first in,
  first out, so a handler that is ready while threads become free again and again is run,
  although other handlers may take the free thread first. The rest is weak, and the
  works of the elements in `MayBlock` have none: they may never return. There is
  also no fairness for the pump's clock, since `KeepsUp` starts from data that exist.
* `SecurityMonitor`: main runs on when it is not waiting for a key, a handler that has begun goes
  on, but its work need not return. There is no fairness for the handlers of the web
  sockets: no browser has to acknowledge a close.
* `Stream`: one condition per connection, since every step of a connection uses something
  up (`WorkRunsOut`): a thread inside `registerNewConnection` or inside the signal goes on, strands
  run, and a client that has not gone away reads. No client has to connect, the publisher
  need not publish.
* `HttpServer`: the accept completes for a client that waits, what a client sends arrives,
  the pool runs the handlers, and a client reads what is written to it or goes away: the code gives a write no
  time limit, so a client that does neither keeps its connection. No client has to send a complete request.
* `RoiDetector`: the loop takes its next turn.

## 5. What is proved

For every value of the constants, from the assumptions named in the
modules only (naturals as bounds, at least two elements, rectangles with integer corners and
positive sides, the limits of the monitor), and without fairness:

* `TimedWorkWrapper_proofs`: `TypeCorrect`, `PumpStaysAlive`, `HandlersStayBounded`,
  `RestStays`. None of the invariants is inductive as it stands. `IInv` adds three
  parts: the shape of a call (which places of main go with which operation),
  `Armed` (a start or resume that is about to return has a tick outstanding), and the parity of `toggles`, which ties the number of
  resumes to `paused_` and so bounds the handlers.
* `Pipeline_proofs`: `TypeCorrect`, `StatisticsSafe` (`PopSafe`), `RowsStayAligned` (`RowsAligned`),
  `NothingLost` (`NoneLostNoneReordered`), `NobodyStarves` (`BehindIsServed`) and
  `ImplementsConveyor` (`RefinesConveyor`).
  The invariant `PipeInv` says that what is in transit between two elements is
  exactly the interval of data one has finished and the other has not, what each phase of
  a handler holds, and that every queue of statistics is the data its element has
  finished less what has been popped from all. Since `done` never
  increases along the pipeline the last queue is the shortest, which is why
  testing only that one is safe. `PipeInv` contains the pump's `IInv`, whose
  step lemma is used by instance. The refinement follows from the same invariant:
  finishing a datum is a step of `Conveyor`, all else a stutter. `NobodyStarves` is the
  safety behind `KeepsUp`; it counts threads: fewer works may block than there are
  threads, so they never hold all of them.
* `RoiDetector_proofs`: `TypeCorrect`, `RegionsKept` (`NoRegionLost`), `NothingInvented`
  (`EdgesFound`) and `RoundsAreFew` (`RoundsRunOut`), for lists of any length and rectangles anywhere. The lemmas are geometric
  (the merged rectangle contains both, its edges are theirs, full overlap is containment) and about the
  list (what an erase keeps). `RoundsAreFew` is the safety behind `Ends`: each round uses up one of
  at most `MaxRects * (MaxRects + 3)`, and the rounds end where the number does.
* `SecurityMonitor_proofs`: `TypeCorrect`, `TheFlagsAgree` (`FlagsAgree`), `RunningScenesStop`
  (`RunningSceneIsStopped`) and `ListAlwaysMatches` (`ListMatches`). `FlagsAgree` speaks of one phase of
  main; `MainInv` says what the flags and the pump's `call` are in each phase, and that on
  the way out the pump's flag is the opposite of what it was when Enter was pressed.
  That a scene which is not paused has a tick comes from the pump's `IInv`, by instance.
  `SocketInv` adds that only a loop of `shutdown` clears the list.
* `Frames_proofs`: `TypeCorrect`, `ElementsDoNotConflict` (`NoConflict`), `FramesAreFilled`
  (`HandedOnFilled`), `WhoListensIsServed` (`ListenersAreServed`).
  `FlowInv`: an element that works is behind the one before it, so two of them never
  have the same frame, and the previous frame is one the detector has finished.
  `FrameInv`: how far a frame has come determines its names and what they hold.
* `PerformanceMonitor_proofs`: `TypeCorrect` and `UsageStaysPercent` (`UsageIsPercent`), for any interval, tick,
  delay, width and number of processors within `MonitorAssumption`. `MonitorInv`: the tick of the last sample is at least as old as
  `last_perf_time_` less the delay, so that when an interval has passed `LeastTicks` have passed too, and with at least
  that many ticks `MostUsed` bounds what the division yields.
* `Stream_proofs`: `TypeCorrect`, `OneWriteAtATime` (`OneWrite`),
  `PicturesStayInOrder` (`InOrder`), `ClientsStaySubscribed` (`StaysSubscribed`) and `WorkIsFinite`
  (`WorkRunsOut`): all the safety that is checked. The calls of slots that have been disconnected are among the steps.
  `StreamInv` is per connection: an empty outbox means no write even on a closed connection, nothing is queued before the headers, and only a client that
  has gone away makes a write fail. `OrderInv` adds for the clients that stay that nothing
  is on its way before the slot is connected and that their slots stay connected while the signal walks; the
  pictures of each stage are an interval, and each handler moves the first
  picture of one to the end of the next. `WorkIsFinite` is the safety behind `Arrives`: `Work` counts
  the steps a connection has before it (the handlers of each kind on its strand, what it
  keeps and writes, how far it has started), a picture adds at most `PerPicture` to that, and
  every step of the connection takes some away. It needs `StreamInv`, since only an outbox
  that is not empty pays for the next write of `handle_write`.
* `HttpServer_proofs` on the parser: `ParserFitsGrammar`. For every sequence of characters, of any
  length, and every prefix of it, what the table of the parser has made of the prefix is what the
  grammar says of the sequence: accepted exactly at the end of its first request, with
  the uri that the request names; refused only when the sequence begins with no request; undecided
  only while no request has ended. Two facts carry it. The first is one about folds: parsing
  a prefix that is one character longer is one more `Consume` (`PiecesJoin`, `AfterSteps`), so
  that a run of the parser is a sequence of states. The second says of each
  state what the prefix looks like when the parser is in it: which part of the request
  line has been read, where the uri began, whether the current line is a header or goes on
  from the one before. In one direction it gives the lines of the grammar from the places
  where the parser changed its state; in the other a request is walked along, line by line.
* `HttpServer_proofs` on the server: `TypeCorrect`, `FilesStayUnderRoot` (`FilesUnderRoot`), `AnswersFitRequests`
  (`AnswerFitsRequest`), `RepliesStayWhole` (`RepliesAreWhole`): all the safety that is checked, for
  every set of clients, whatever they send and however it is cut. The invariant begins with the order of
  the stages of a connection, in which nothing is parsed once there is an answer. `ServerInv` adds that
  the parser of a connection is what parsing all it has read at once would give, that a connection which
  reads has no result yet, and that the answer is that of the result; `AnswerFitsRequest` follows
  from it by `ParserFitsGrammar`. `FilesUnderRoot` follows from the answer being that of `HandleRequest`: what is opened is
  a prefix of the completed path (`OpenedIsPrefix`), and completing it with `index.html` behind a slash makes no two dots
  meet (`OpenedStaysDown`). `RepliesInv` adds that what has been written is the reply of an
  answer that no longer changes, since the connection is closed. The rest is about `Reply`: the blocks
  of a file join to the file for every size of either (`FileIsRead`), no line end precedes the
  empty line directly, so a client finds it where it is (`HeadersEndIs`), and each header is found once.

The proofs by induction over naturals (a prefix of a message, a block of a file) go by a lemma
`Induction` whose induction predicate is a set: the induction theorems of the library
take an operator as a parameter, which the provers cannot instantiate. It follows from the existence of a
least element, which the library states about a relation.

Three assumptions on the constants of `HttpServer` are there for the proofs: messages are sequences of
`Chars` (`MessagesAssumption`), the content of a file is a sequence (`FilesAssumption`), and the decimal form of a length is not the element that
stands for a line end (`LengthsAssumption`).

What is only model-checked is liveness: `PumpKeepsTicking`, `KeepsUp`, `Ends`, `Arrives`,
`EnterLeadsToExit`, `ClientsAreAccepted` and `ConnectionsAreServed`, which the proof
system does not reach. That the four runs of section 3 which expect a violation find one is TLC's result, too.

## 6. What is not modelled

* Time. There is no clock: intervals, sleeps and rates are left out, a timer
  expires eventually.
* Pixels, sizes and texts. OpenCV's results are choices; a camera that changes its
  resolution is not modelled, nor the wording of replies and captions.
* Races on memory below the operations: two threads inside one `std::queue` or
  `std::vector` at the same time, and the rest of the heap after an erase through a dangling
  iterator. The models go as far as the order of the operations.
* Building a pipeline in the wrong order (the throws of `addElement`, `compile`,
  `start`) and a pipeline with no statistics (`stats_interval` 0): the scene does
  neither.
* The keys s, n, f and `change_timer`, which only change a duration.
* `SceneMonitor::stop_monitoring` and `get_scene_names`, `GUI_Interface::newConnection`,
  `ROI_Detector::remove_nested` and some getters of `Frame` (`get_new_or_existing_image`,
  `get_new_blank_image`, the `get_image_as_jpg` of two images): only tests call them, or nobody.
* The sizes of memory on a picture, and the messages of browsers on a web socket, which are parsed
  and logged; nothing depends on either.
* `MovementDetectorMOG2`, `OOI`, `OOI_Processor`, `ImageProcessor`, `PerformanceMetrics`: nothing
  in the program constructs them. `StreamConnection::handle_read` is never started.
* The page in the browser and third-party code. asio, signals2 and OpenCV appear as the
  program uses them and are marked external in `PROJECT.json`.

## 7. The plan

Written: `TimedWorkWrapper`, `Conveyor`, `Pipeline`, `SecurityMonitor`, `Stream`, `RoiDetector`, `Frames`,
`RequestParser`, `HttpServer`, then `WebSocketServer`, `PerformanceMonitor` and `Reply`, and the
proofs of section 5. What could still be added:

1. Joining `HttpServer` and `Stream`: a connection whose request has been answered by a stream is
   registered there (now `Stream` begins with that call and `HttpServer` ends with it). The two
   share nothing but that call, and their product is large.
2. `change_timer` and the intervals, with a clock: what the keys s, n and f do to ticks that
   are under way.
3. Building a pipeline in any order, with the throws of `addElement`, `compile` and `start`.
