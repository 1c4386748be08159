------------------------------- MODULE Stream -------------------------------
(***************************************************************************)
(* One motion-JPEG stream and its connections (src/GUI/Stream.cpp,         *)
(* StreamConnection.cpp, ScenePublisher::process_next_frame).              *)
(*                                                                         *)
(* A connection is registered by the HTTP connection's thread, which sends *)
(* the headers and connects the stream's signal; the publisher's thread    *)
(* calls the slots of that signal; the connection's strand runs sendFrame, *)
(* addToOutbox and handle_write one at a time, in the order they were      *)
(* dispatched.  Messages are numbered: 0 is the header, n > 0 the n-th     *)
(* picture the publisher has signalled.                                    *)
(***************************************************************************)
EXTENDS Integers, Sequences, FiniteSets, SequencesExt

CONSTANTS
    Conns,        \* the connections that clients open
    MaxFrames     \* bound: pictures the publisher signals

ASSUME MaxFramesAssumption == MaxFrames \in Nat

VARIABLES
    published,    \* the last picture signalled
    toCall,       \* slots the running call of the signal has yet to visit
    calling,      \* the slot it has found connected and is about to call
    list,         \* Stream::connection_list_
    started,      \* started[c]: how far registerNewConnection is with c
    connected,    \* connected[c]: the slot of c is connected to the signal
    known,        \* known[c]: stream_signal_connection_ refers to that slot
    strand,       \* strand[c]: handlers dispatched to the strand of c
    found,        \* found[c]: the iterator deregisterConnection has found, or 0
    outbox,       \* StreamConnection::outbox_
    writes,       \* writes[c]: messages with an async_write under way
    wire,         \* wire[c]: what the client of c has received
    gone,         \* gone[c]: the client of c has gone away
    closed        \* closed[c]: handle_write has shut the socket down

registering == <<list, started>>
slots == <<connected, known>>
publisher == <<published, toCall, calling>>
vars == <<published, toCall, calling, list, started, connected, known, strand,
          found, outbox, writes, wire, gone, closed>>

Messages == 0 .. MaxFrames
Handlers == [do : {"send", "add", "wrote", "failed"}, m : Messages]
Dangling == -1
Handler(do, m) == [do |-> do, m |-> m]

TypeOK ==
    /\ published \in Messages
    /\ toCall \subseteq Conns /\ calling \subseteq Conns
    /\ list \in Seq(Conns)
    /\ started \in [Conns -> {"no", "listed", "headed", "connected", "yes"}]
    /\ connected \in [Conns -> BOOLEAN] /\ known \in [Conns -> BOOLEAN]
    /\ strand \in [Conns -> Seq(Handlers)]
    /\ found \in [Conns -> Nat \cup {Dangling}]
    /\ outbox \in [Conns -> Seq(Messages)]
    /\ writes \in [Conns -> Seq(Messages)]
    /\ wire \in [Conns -> Seq(Messages)]
    /\ gone \in [Conns -> BOOLEAN] /\ closed \in [Conns -> BOOLEAN]
    /\ \A c \in Conns : found[c] # 0 => closed[c]

Init ==
    /\ published = 0 /\ toCall = {} /\ calling = {} /\ list = <<>>
    /\ started = [c \in Conns |-> "no"]
    /\ connected = [c \in Conns |-> FALSE] /\ known = [c \in Conns |-> FALSE]
    /\ strand = [c \in Conns |-> <<>>] /\ found = [c \in Conns |-> 0]
    /\ outbox = [c \in Conns |-> <<>>] /\ writes = [c \in Conns |-> <<>>]
    /\ wire = [c \in Conns |-> <<>>]
    /\ gone = [c \in Conns |-> FALSE] /\ closed = [c \in Conns |-> FALSE]

---------------------------------------------------------------------------
(* registerNewConnection and StreamConnection::start, on the thread of the *)
(* HTTP connection.                                                        *)

Starts(c, from, to) == started[c] = from /\ started' = [started EXCEPT ![c] = to]

\* push_back may move the array: an index found before then dangles.
Register(c) ==
    /\ Starts(c, "no", "listed")
    /\ list' = Append(list, c)
    /\ \/ UNCHANGED found
       \/ found' = [d \in Conns |-> IF found[d] = 0 THEN 0 ELSE Dangling]
    /\ UNCHANGED <<publisher, slots, strand, outbox, writes, wire, gone, closed>>

\* sendInitialHeaders: a placeholder goes to the outbox while the headers
\* are written.
SendHeaders(c) ==
    /\ Starts(c, "listed", "headed")
    /\ outbox' = [outbox EXCEPT ![c] = Append(@, 0)]
    /\ writes' = [writes EXCEPT ![c] = Append(@, 0)]
    /\ UNCHANGED <<publisher, list, slots, strand, found, wire, gone, closed>>

ConnectSlot(c) ==
    /\ Starts(c, "headed", "connected")
    /\ connected' = [connected EXCEPT ![c] = TRUE]
    /\ UNCHANGED <<publisher, list, known, strand, found, outbox, writes, wire, gone, closed>>

\* The connection that connectToSignal returned is assigned to the member.
KeepSlot(c) ==
    /\ Starts(c, "connected", "yes")
    /\ known' = [known EXCEPT ![c] = TRUE]
    /\ UNCHANGED <<publisher, list, connected, strand, found, outbox, writes, wire, gone, closed>>

StartStep(c) ==
    \/ Register(c) \/ SendHeaders(c) \/ ConnectSlot(c) \/ KeepSlot(c)

---------------------------------------------------------------------------
(* The publisher: the signal copies its list of slots and calls each slot  *)
(* that is still connected.  It tests that under the lock of the slot's    *)
(* connection and calls the slot without it, so a slot may be disconnected *)
(* in between and is called all the same.  A picture that cannot be        *)
(* encoded or that nobody listens to is not signalled.                     *)

Publish ==
    /\ toCall = {} /\ calling = {} /\ published < MaxFrames
    /\ \E c \in Conns : connected[c]
    /\ published' = published + 1
    /\ toCall' = {c \in Conns : connected[c]}
    /\ UNCHANGED <<calling, registering, slots, strand, found, outbox, writes, wire,
                   gone, closed>>

TestSlot(c) ==
    /\ c \in toCall /\ calling = {}
    /\ toCall' = toCall \ {c}
    /\ calling' = IF connected[c] THEN {c} ELSE {}
    /\ UNCHANGED <<published, registering, slots, strand, found, outbox, writes, wire,
                   gone, closed>>

CallSlot(c) ==
    /\ c \in calling
    /\ calling' = calling \ {c}
    /\ strand' = [strand EXCEPT ![c] = Append(@, Handler("send", published))]
    /\ UNCHANGED <<published, toCall, registering, slots, found, outbox, writes, wire,
                   gone, closed>>

SignalStep(c) == TestSlot(c) \/ CallSlot(c)

---------------------------------------------------------------------------
(* The strand of a connection.                                             *)

\* The next handler of the strand is one that does this.
Runs(c, do) == found[c] = 0 /\ strand[c] # <<>> /\ Head(strand[c]).do = do
Message(c) == Head(strand[c]).m

\* sendFrame posts addToOutbox to the strand it runs on.
SendFrame(c) ==
    /\ Runs(c, "send")
    /\ strand' = [strand EXCEPT ![c] = Append(Tail(@), Handler("add", Message(c)))]
    /\ UNCHANGED <<publisher, registering, slots, found, outbox, writes, wire, gone, closed>>

\* Regression: a picture is dropped while another is on its way.
AddToOutboxUnlessBusy(c) ==
    /\ Runs(c, "add")
    /\ strand' = [strand EXCEPT ![c] = Tail(@)]
    /\ IF outbox[c] = <<>>
         THEN /\ outbox' = [outbox EXCEPT ![c] = <<Message(c)>>]
              /\ writes' = [writes EXCEPT ![c] = Append(@, Message(c))]
         ELSE UNCHANGED <<outbox, writes>>
    /\ UNCHANGED <<publisher, registering, slots, found, wire, gone, closed>>

\* Regression: the write is started although another is outstanding.
AddToOutboxWrites(c) ==
    /\ Runs(c, "add")
    /\ strand' = [strand EXCEPT ![c] = Tail(@)]
    /\ outbox' = [outbox EXCEPT ![c] = Append(@, Message(c))]
    /\ writes' = [writes EXCEPT ![c] = Append(@, Head(outbox'[c]))]
    /\ UNCHANGED <<publisher, registering, slots, found, wire, gone, closed>>

AddToOutbox(c) ==
    /\ Runs(c, "add")
    /\ strand' = [strand EXCEPT ![c] = Tail(@)]
    /\ outbox' = [outbox EXCEPT ![c] = Append(@, Message(c))]
    /\ writes' = IF outbox[c] = <<>>
                   THEN [writes EXCEPT ![c] = Append(@, Message(c))] ELSE writes
    /\ UNCHANGED <<publisher, registering, slots, found, wire, gone, closed>>

\* What handle_write's pop_front leaves.
Popped(c) == IF outbox[c] = <<>> THEN <<>> ELSE Tail(outbox[c])

\* Regression: handle_write pops and leaves the rest to the next picture.
HandleWriteIdle(c) ==
    /\ Runs(c, "wrote")
    /\ strand' = [strand EXCEPT ![c] = Tail(@)]
    /\ outbox' = [outbox EXCEPT ![c] = Popped(c)]
    /\ UNCHANGED <<publisher, registering, slots, found, writes, wire, gone, closed>>

\* handle_write after a write that succeeded, with writeNextMessage.
HandleWrite(c) ==
    /\ Runs(c, "wrote")
    /\ strand' = [strand EXCEPT ![c] = Tail(@)]
    /\ outbox' = [outbox EXCEPT ![c] = Popped(c)]
    /\ writes' = IF Popped(c) = <<>>
                   THEN writes ELSE [writes EXCEPT ![c] = Append(@, Head(Popped(c)))]
    /\ UNCHANGED <<publisher, registering, slots, found, wire, gone, closed>>

\* The index of c in the list of connections, 0 when it is not there.
IndexInList(c) ==
    IF Contains(list, c) THEN CHOOSE i \in DOMAIN list : list[i] = c ELSE 0

\* Regression: the socket is left open.
HandleWriteErrorForgetsSocket(c) ==
    /\ Runs(c, "failed")
    /\ strand' = [strand EXCEPT ![c] = Tail(@)]
    /\ outbox' = [outbox EXCEPT ![c] = Popped(c)]
    /\ connected' = [connected EXCEPT ![c] = @ /\ ~known[c]]
    /\ found' = [found EXCEPT ![c] = IndexInList(c)]
    /\ UNCHANGED <<publisher, registering, known, writes, wire, gone, closed>>

\* Regression: the picture whose write failed is written again.
HandleWriteErrorRetries(c) ==
    /\ Runs(c, "failed")
    /\ strand' = [strand EXCEPT ![c] = Tail(@)]
    /\ writes' = [writes EXCEPT ![c] = Append(@, Head(outbox[c]))]
    /\ UNCHANGED <<publisher, registering, slots, found, outbox, wire, gone, closed>>

\* handle_write after an error: disconnect, shut down, and the search of
\* deregisterConnection, which takes no lock.
HandleWriteError(c) ==
    /\ Runs(c, "failed")
    /\ strand' = [strand EXCEPT ![c] = Tail(@)]
    /\ outbox' = [outbox EXCEPT ![c] = Popped(c)]
    /\ connected' = [connected EXCEPT ![c] = @ /\ ~known[c]]
    /\ closed' = [closed EXCEPT ![c] = TRUE]
    /\ found' = [found EXCEPT ![c] = IndexInList(c)]
    /\ UNCHANGED <<publisher, registering, known, writes, wire, gone>>

\* What vector::erase may take out for the index found: the entry there, and
\* when the list has become shorter, or the iterator dangles, any entry (what
\* else a dangling iterator may do to the heap is left out).
Erased(i) == IF i \in DOMAIN list THEN {i} ELSE DOMAIN list

\* Regression: the list owns the connections, its entry takes the slot along.
DeregisterErasesOwner(c) ==
    /\ found[c] # 0
    /\ found' = [found EXCEPT ![c] = 0]
    /\ \/ list = <<>> /\ UNCHANGED <<list, connected>>
       \/ \E i \in Erased(found[c]) :
             /\ list' = RemoveAt(list, i)
             /\ connected' = [connected EXCEPT ![list[i]] = FALSE]
    /\ UNCHANGED <<publisher, started, known, strand, outbox, writes, wire, gone, closed>>

\* The second half of deregisterConnection, under the lock.
DeregisterErases(c) ==
    /\ found[c] # 0
    /\ found' = [found EXCEPT ![c] = 0]
    /\ \/ list = <<>> /\ list' = list
       \/ \E i \in Erased(found[c]) : list' = RemoveAt(list, i)
    /\ UNCHANGED <<publisher, started, slots, strand, outbox, writes, wire, gone, closed>>

StrandStep(c) ==
    \/ SendFrame(c) \/ AddToOutbox(c) \/ HandleWrite(c)
    \/ HandleWriteError(c) \/ DeregisterErases(c)

---------------------------------------------------------------------------
(* The socket and the client.                                              *)

Reachable(c) == ~gone[c] /\ ~closed[c]

WriteCompletes(c) ==
    /\ writes[c] # <<>>
    /\ writes' = [writes EXCEPT ![c] = Tail(@)]
    /\ wire' = IF Reachable(c)
                 THEN [wire EXCEPT ![c] = Append(@, Head(writes[c]))] ELSE wire
    /\ strand' = [strand EXCEPT ![c] = Append(@,
                    Handler(IF Reachable(c) THEN "wrote" ELSE "failed", 0))]
    /\ UNCHANGED <<publisher, registering, slots, found, outbox, gone, closed>>

GoesAway(c) ==
    /\ ~gone[c]
    /\ gone' = [gone EXCEPT ![c] = TRUE]
    /\ UNCHANGED <<publisher, registering, slots, strand, found, outbox, writes, wire, closed>>

Next ==
    \/ Publish
    \/ \E c \in Conns :
          StartStep(c) \/ SignalStep(c) \/ StrandStep(c) \/ WriteCompletes(c) \/ GoesAway(c)

\* A started thread goes on, the pool runs what is queued on a strand, and a
\* client that has not gone reads what is sent.  No client has to connect.
\* Every step of a connection uses something up, so one condition is enough.
ConnStep(c) ==
    \/ started[c] # "no" /\ StartStep(c)
    \/ SignalStep(c) \/ StrandStep(c) \/ WriteCompletes(c)
Fairness == \A c \in Conns : WF_vars(ConnStep(c))

Spec == Init /\ [][Next]_vars
FairSpec == Spec /\ Fairness

---------------------------------------------------------------------------
(* Handlers of writes that are over; a write that is under way or over and *)
(* not yet handled.                                                        *)
Does(c, do) == {i \in DOMAIN strand[c] : strand[c][i].do = do}
Finished(c) == Does(c, "wrote") \cup Does(c, "failed")
Writing(c) == writes[c] # <<>> \/ Finished(c) # {}

\* A connection has one async_write at a time, and while it is open it has
\* one exactly when there is something in the outbox: pictures never mix on
\* the socket and never wait for a write nobody starts.  The message that is
\* written stays at the head of the outbox until the write is over, which keeps
\* the data of a picture alive (FrameToSend::ptr_, addToOutbox, handle_write,
\* writeNextMessage).  It keeps nothing else alive: the buffers of the headers
\* and of a picture's Content-Length point to objects that have been destroyed.
OneWrite ==
    \A c \in Conns :
        /\ Len(writes[c]) <= 1 /\ \A i, j \in Finished(c) : i = j
        /\ writes[c] = <<>> \/ Finished(c) = {}
        /\ ~closed[c] => (Writing(c) <=> outbox[c] # <<>>)
        /\ writes[c] # <<>> => outbox[c] # <<>> /\ Head(outbox[c]) = Head(writes[c])

(* The steps a connection has before it at most: those of its start, and    *)
(* for a picture the test and the call of the slot, sendFrame, addToOutbox, *)
(* its write and the handler of that, or the two steps that let it go.      *)
ToStart(c) ==
    CASE started[c] = "no" -> 8 [] started[c] = "listed" -> 7
      [] started[c] = "headed" -> 2 [] started[c] = "connected" -> 1
      [] started[c] = "yes" -> 0
PerPicture == 8
ToCall(c) == CASE c \in toCall -> PerPicture [] c \in calling -> 7 [] OTHER -> 0
Work(c) ==
    ToStart(c) + ToCall(c)
    + 6 * Cardinality(Does(c, "send")) + 5 * Cardinality(Does(c, "add"))
    + Cardinality(Finished(c)) + 2 * Len(outbox[c]) + 2 * Len(writes[c])
    + (IF found[c] # 0 THEN 1 ELSE 0)

\* A picture costs a connection a bounded number of steps, and nothing else
\* gives it more to do: a handler that puts another on the strand or starts
\* another write brings its connection nearer to the end of its work, a write
\* that fails is not tried again for ever (sendFrame, addToOutbox,
\* handle_write, deregisterConnection).
WorkRunsOut ==
    [][\A c \in Conns :
          /\ Work(c)' <= Work(c) + PerPicture * (published' - published)
          /\ ConnStep(c) => Work(c)' < Work(c)]_vars

(* What the client has received and is about to; the head of the outbox    *)
(* may be on the wire already.  The pictures in the handlers of a kind.     *)
Unwritten(c) == IF Does(c, "wrote") # {} THEN Popped(c) ELSE outbox[c]
Sent(c) == wire[c] \o Unwritten(c)
Pictures(c, do) == {strand[c][i].m : i \in Does(c, do)}

\* The handlers of a kind have the pictures after m up to n, in order.
Carries(c, do, m, n) ==
    /\ m <= n /\ Pictures(c, do) = m + 1 .. n
    /\ \A i, j \in Does(c, do) : i < j => strand[c][i].m < strand[c][j].m

\* The header comes first, then consecutive pictures up to m.
SentUpTo(c, m) ==
    /\ Sent(c) # <<>> => Sent(c)[1] = 0
    /\ \A i \in 2 .. Len(Sent(c)) : Sent(c)[i] = m - Len(Sent(c)) + i

\* The last picture signalled to c.
Signalled(c) == IF c \in toCall \cup calling THEN published - 1 ELSE published

\* As long as its client stays a connection carries the header and then
\* consecutive pictures up to the last one signalled to it, none lost, doubled
\* or out of order, although a picture crosses the signal, the strand twice
\* and the outbox (sendFrame, addToOutbox, handle_write).
InOrder ==
    \A c \in Conns : ~gone[c] =>
        \E m, n \in Messages :
            /\ SentUpTo(c, m)
            /\ Carries(c, "add", m, n)
            /\ Carries(c, "send", n, Signalled(c))

\* A client that stays keeps its slot, although a connection that fails may
\* erase the entry of another from the list: the slot owns the connection
\* (connectToSignal binds shared_from_this).
StaysSubscribed ==
    \A c \in Conns : started[c] = "yes" /\ ~gone[c] => connected[c]

OnItsWay(c) == Unwritten(c) # <<>> \/ Does(c, "add") \cup Does(c, "send") # {}

\* Everything on its way to a client that stays arrives: no picture waits in
\* the outbox for a write that nobody starts (handle_write, addToOutbox).
Arrives == \A c \in Conns : OnItsWay(c) ~> ~OnItsWay(c) \/ gone[c]

\* StreamConnection.cpp:143 says "Initiate graceful connection closure.": a
\* connection that handle_write has closed does not stay subscribed with
\* pictures in its outbox that no write will ever take out again.
ClosureReleases ==
    \A c \in Conns :
        closed[c] /\ connected[c] /\ outbox[c] # <<>> => Writing(c)
=============================================================================
