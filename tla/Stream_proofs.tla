--------------------------- MODULE Stream_proofs ---------------------------
(* Proofs about a stream, for every set of connections and any number of   *)
(* pictures.                                                               *)
EXTENDS Stream, SequenceTheorems, FiniteSetTheorems, TLAPS

USE MaxFramesAssumption

(***************************************************************************)
(* The queues have their types whatever the list of connections is.        *)
(***************************************************************************)
QueueType ==
    /\ published \in Messages /\ toCall \cap calling = {}
    /\ started \in [Conns -> {"no", "listed", "headed", "connected", "yes"}]
    /\ connected \in [Conns -> BOOLEAN] /\ known \in [Conns -> BOOLEAN]
    /\ strand \in [Conns -> Seq(Handlers)]
    /\ outbox \in [Conns -> Seq(Messages)]
    /\ writes \in [Conns -> Seq(Messages)]
    /\ gone \in [Conns -> BOOLEAN] /\ closed \in [Conns -> BOOLEAN]

(* Where a queue of handlers has the end of a write, and whether one failed. *)
EndsIn(q) == {i \in DOMAIN q : q[i].do \in {"wrote", "failed"}}
OneEnd(q) == \A i, j \in EndsIn(q) : i = j
FailsIn(q) == \E i \in DOMAIN q : q[i].do = "failed"

(***************************************************************************)
(* OneWrite and StaysSubscribed are not inductive: that no second write is *)
(* started needs that an empty outbox means no write, even on a closed     *)
(* connection, and that nothing is queued before the headers are; that a   *)
(* slot stays needs that only a client that has gone away makes a write    *)
(* fail.                                                                   *)
(***************************************************************************)
OnlyOne(c) ==
    /\ Len(writes[c]) <= 1 /\ OneEnd(strand[c])
    /\ writes[c] = <<>> \/ EndsIn(strand[c]) = {}
    /\ writes[c] # <<>> => outbox[c] # <<>> /\ Head(outbox[c]) = Head(writes[c])
Needed(c) ==
    LET writing == writes[c] # <<>> \/ EndsIn(strand[c]) # {}
    IN  /\ outbox[c] = <<>> => ~writing
        /\ ~closed[c] /\ outbox[c] # <<>> => writing
Fresh(c) ==
    /\ started[c] \in {"no", "listed"} =>
          outbox[c] = <<>> /\ writes[c] = <<>> /\ strand[c] = <<>>
    /\ started[c] \in {"no", "listed", "headed"} => ~connected[c] /\ c \notin calling
Subscribed(c) ==
    /\ closed[c] \/ FailsIn(strand[c]) => gone[c]
    /\ started[c] \in {"connected", "yes"} /\ ~gone[c] => connected[c]
ConnInv(c) == OnlyOne(c) /\ Needed(c) /\ Fresh(c) /\ Subscribed(c)

StreamInv == QueueType /\ \A c \in Conns : ConnInv(c)

---------------------------------------------------------------------------
(* What the strand of a connection looks like after each of its steps.     *)

LEMMA HandlerType ==
    ASSUME NEW do \in {"send", "add", "wrote", "failed"}, NEW m \in Messages
    PROVE  /\ Handler(do, m) \in Handlers
           /\ Handler(do, m).do = do /\ Handler(do, m).m = m
  BY DEF Handler, Handlers

LEMMA AppendShape ==
    ASSUME NEW S, NEW q \in Seq(S), NEW h \in S
    PROVE  /\ Append(q, h) \in Seq(S) /\ Append(q, h) # <<>>
           /\ Len(Append(q, h)) = Len(q) + 1
           /\ DOMAIN Append(q, h) = 1 .. Len(q) + 1 /\ DOMAIN q = 1 .. Len(q)
           /\ \A i \in DOMAIN q : Append(q, h)[i] = q[i]
           /\ Append(q, h)[Len(q) + 1] = h
           /\ Head(Append(q, h)) = IF q = <<>> THEN h ELSE Head(q)
  OBVIOUS

LEMMA TailShape ==
    ASSUME NEW S, NEW q \in Seq(S), q # <<>>
    PROVE  /\ Tail(q) \in Seq(S) /\ Head(q) \in S /\ Head(q) = q[1]
           /\ Len(Tail(q)) = Len(q) - 1
           /\ DOMAIN Tail(q) = 1 .. Len(q) - 1 /\ DOMAIN q = 1 .. Len(q)
           /\ 1 \in DOMAIN q
           /\ \A i \in DOMAIN Tail(q) : Tail(q)[i] = q[i + 1]
  OBVIOUS

LEMMA Queued ==
    ASSUME NEW q \in Seq(Handlers), NEW h \in Handlers
    PROVE  LET r == Append(q, h)
           IN  /\ FailsIn(r) <=> FailsIn(q) \/ h.do = "failed"
               /\ h.do \in {"send", "add"} =>
                     (EndsIn(r) = {} <=> EndsIn(q) = {}) /\ (OneEnd(q) => OneEnd(r))
               /\ h.do \in {"wrote", "failed"} =>
                     EndsIn(r) # {} /\ (EndsIn(q) = {} => OneEnd(r))
<1> DEFINE r == Append(q, h)
<1>1. /\ DOMAIN r = 1 .. Len(q) + 1 /\ DOMAIN q = 1 .. Len(q) /\ Len(q) \in Nat
      /\ \A i \in DOMAIN q : r[i] = q[i]
      /\ r[Len(q) + 1] = h
  BY AppendShape
<1> HIDE DEF r
<1>2. FailsIn(r) <=> FailsIn(q) \/ h.do = "failed"
  BY ONLY <1>1 DEF FailsIn
<1>3. CASE h.do \in {"send", "add"}
  <2>1. EndsIn(r) = EndsIn(q)
    BY ONLY <1>1, <1>3 DEF EndsIn
  <2> QED
    BY <1>2, <1>3, <2>1 DEF OneEnd, r
<1>4. CASE h.do \in {"wrote", "failed"}
  <2>1. EndsIn(r) = EndsIn(q) \cup {Len(q) + 1}
    BY ONLY <1>1, <1>4 DEF EndsIn
  <2> QED
    BY <1>2, <1>4, <2>1 DEF OneEnd, r
<1>5. h.do \in {"send", "add", "wrote", "failed"}
  BY DEF Handlers
<1> QED
  BY <1>3, <1>4, <1>5

LEMMA Taken ==
    ASSUME NEW q \in Seq(Handlers), q # <<>>
    PROVE  /\ FailsIn(Tail(q)) => FailsIn(q)
           /\ Head(q).do \in {"send", "add"} =>
                 (EndsIn(Tail(q)) = {} <=> EndsIn(q) = {}) /\ (OneEnd(q) => OneEnd(Tail(q)))
           /\ Head(q).do \in {"wrote", "failed"} =>
                 EndsIn(q) # {} /\ (OneEnd(q) => EndsIn(Tail(q)) = {})
           /\ Head(q).do = "failed" => FailsIn(q)
<1> DEFINE r == Tail(q)
<1>1. /\ DOMAIN r = 1 .. Len(q) - 1 /\ DOMAIN q = 1 .. Len(q) /\ Len(q) \in Nat
      /\ \A i \in 1 .. Len(q) - 1 : r[i] = q[i + 1]
      /\ Head(q) = q[1] /\ Len(q) >= 1
  BY TailShape
<1> HIDE DEF r
<1>2. EndsIn(r) = {i \in 1 .. Len(q) - 1 : i + 1 \in EndsIn(q)}
  BY ONLY <1>1 DEF EndsIn
<1>3. EndsIn(q) \subseteq 1 .. Len(q) /\ (1 \in EndsIn(q) <=> Head(q).do \in {"wrote", "failed"})
  BY ONLY <1>1 DEF EndsIn
<1>4. (FailsIn(r) => FailsIn(q)) /\ (Head(q).do = "failed" => FailsIn(q))
  <2>1. ASSUME FailsIn(r) PROVE FailsIn(q)
    <3>1. PICK i \in 1 .. Len(q) - 1 : r[i].do = "failed"
      BY <1>1, <2>1 DEF FailsIn
    <3>2. i + 1 \in DOMAIN q /\ q[i + 1].do = "failed"
      BY <1>1, <3>1
    <3> QED
      BY <3>2 DEF FailsIn
  <2>2. Head(q).do = "failed" => FailsIn(q)
    <3>1. 1 \in DOMAIN q
      BY <1>1
    <3> QED
      BY <1>1, <3>1, Zenon DEF FailsIn
  <2> QED
    BY <2>1, <2>2
<1>5. CASE Head(q).do \in {"send", "add"}
  <2>1. 1 \notin EndsIn(q)
    BY <1>3, <1>5
  <2>2. EndsIn(r) = {} <=> EndsIn(q) = {}
    <3>1. ASSUME NEW i \in EndsIn(q) PROVE i - 1 \in EndsIn(r)
      BY <1>1, <1>2, <1>3, <2>1
    <3> QED
      BY <1>2, <3>1
  <2>3. OneEnd(q) => OneEnd(r)
    BY <1>2 DEF OneEnd
  <2> QED
    BY <1>4, <1>5, <2>2, <2>3 DEF r
<1>6. CASE Head(q).do \in {"wrote", "failed"}
  <2>1. 1 \in EndsIn(q)
    BY <1>3, <1>6
  <2>2. OneEnd(q) => EndsIn(r) = {}
    BY <1>2, <2>1 DEF OneEnd
  <2> QED
    BY <1>4, <1>6, <2>1, <2>2 DEF r
<1>7. Head(q).do \in {"send", "add", "wrote", "failed"}
  <2>1. Head(q) \in Handlers
    BY TailShape
  <2> QED
    BY <2>1 DEF Handlers
<1> QED
  BY <1>5, <1>6, <1>7 DEF r

---------------------------------------------------------------------------
(* The steps, one connection at a time.                                    *)

Local(d) == <<started[d], connected[d], strand[d], outbox[d], writes[d], gone[d], closed[d],
              d \in calling>>

LEMMA OthersKeep == ASSUME NEW d, ConnInv(d), UNCHANGED Local(d) PROVE ConnInv(d)'
  BY DEF ConnInv, OnlyOne, Needed, Fresh, Subscribed, Local

\* A step that changes one connection only.
LEMMA OneAtATime ==
    ASSUME StreamInv, NEW c \in Conns, \A d \in Conns \ {c} : UNCHANGED Local(d),
           QueueType', ConnInv(c)'
    PROVE  StreamInv'
<1>1. ASSUME NEW d \in Conns PROVE ConnInv(d)'
  <2>1. CASE d = c
    BY <2>1
  <2>2. CASE d # c
    BY <2>2, OthersKeep DEF StreamInv
  <2> QED
    BY <2>1, <2>2
<1> QED
  BY <1>1 DEF StreamInv

LEMMA InitStreamInv == Init => StreamInv
<1> SUFFICES ASSUME Init PROVE StreamInv
  OBVIOUS
<1>1. QueueType
  BY DEF Init, QueueType, Messages
<1>2. ASSUME NEW c \in Conns PROVE ConnInv(c)
  <2>1. EndsIn(strand[c]) = {} /\ ~FailsIn(strand[c])
    BY DEF Init, EndsIn, FailsIn
  <2> QED
    BY <2>1 DEF Init, ConnInv, OnlyOne, OneEnd, Needed, Fresh, Subscribed
<1> QED
  BY <1>1, <1>2 DEF StreamInv

LEMMA StartKeeps ==
    ASSUME StreamInv, NEW c \in Conns, StartStep(c) PROVE StreamInv'
<1> USE DEF registering, slots, publisher, Starts
<1>0. ConnInv(c) /\ QueueType
  BY DEF StreamInv
<1>1. CASE Register(c)
  <2>1. QueueType'
    BY <1>0, <1>1 DEF Register, QueueType
  <2>2. \A d \in Conns \ {c} : UNCHANGED Local(d)
    BY <1>0, <1>1 DEF Register, QueueType, Local
  <2>3. started[c] = "no" /\ started'[c] = "listed"
        /\ UNCHANGED <<connected, strand, outbox, writes, gone, closed, calling>>
    BY <1>0, <1>1 DEF Register, QueueType
  <2>4. ConnInv(c)'
    BY <1>0, <2>3 DEF ConnInv, OnlyOne, Needed, Fresh, Subscribed
  <2> QED
    BY <2>1, <2>2, <2>4, OneAtATime
<1>2. CASE SendHeaders(c)
  <2>0. 0 \in Messages
    BY DEF Messages
  <2>1. QueueType'
    BY <1>0, <1>2, <2>0 DEF SendHeaders, QueueType
  <2>2. \A d \in Conns \ {c} : UNCHANGED Local(d)
    BY <1>0, <1>2 DEF SendHeaders, QueueType, Local
  <2>3. outbox'[c] = <<0>> /\ writes'[c] = <<0>> /\ strand'[c] = <<>> /\ ~connected'[c]
        /\ started'[c] = "headed" /\ closed'[c] = closed[c] /\ gone'[c] = gone[c]
        /\ strand[c] = <<>> /\ c \notin calling'
    BY <1>0, <1>2 DEF SendHeaders, QueueType, ConnInv, Fresh
  <2>4. EndsIn(strand'[c]) = {} /\ ~FailsIn(strand'[c])
    BY <2>3 DEF EndsIn, FailsIn
  <2>5. ConnInv(c)'
    BY <1>0, <2>3, <2>4 DEF ConnInv, OnlyOne, OneEnd, Needed, Fresh, Subscribed
  <2> QED
    BY <2>1, <2>2, <2>5, OneAtATime
<1>3. CASE ConnectSlot(c) \/ KeepSlot(c)
  <2>1. QueueType'
    BY <1>0, <1>3 DEF ConnectSlot, KeepSlot, QueueType
  <2>2. \A d \in Conns \ {c} : UNCHANGED Local(d)
    BY <1>0, <1>3 DEF ConnectSlot, KeepSlot, QueueType, Local
  <2>3. /\ \/ started'[c] = "connected" /\ connected'[c]
           \/ started[c] = "connected" /\ started'[c] = "yes" /\ connected'[c] = connected[c]
        /\ UNCHANGED <<strand, outbox, writes, gone, closed, calling>>
    BY <1>0, <1>3 DEF ConnectSlot, KeepSlot, QueueType
  <2>4. ConnInv(c)'
    BY <1>0, <2>3 DEF ConnInv, OnlyOne, Needed, Fresh, Subscribed
  <2> QED
    BY <2>1, <2>2, <2>4, OneAtATime
<1> QED
  BY <1>1, <1>2, <1>3 DEF StartStep

\* A slot that is found connected belongs to a connection that has started.
LEMMA TestKeeps ==
    ASSUME StreamInv, NEW c \in Conns, TestSlot(c) PROVE StreamInv'
<1> USE DEF registering, slots
<1>0. ConnInv(c) /\ QueueType
  BY DEF StreamInv
<1>1. /\ toCall' = toCall \ {c} /\ calling = {} /\ calling' \subseteq {c}
      /\ c \in calling' => connected[c]
      /\ UNCHANGED <<published, started, connected, known, strand, outbox, writes, gone, closed>>
  BY DEF TestSlot
<1>2. QueueType'
  BY <1>0, <1>1 DEF QueueType
<1>3. \A d \in Conns \ {c} : UNCHANGED Local(d)
  BY <1>1 DEF Local
<1>4. ConnInv(c)'
  BY <1>0, <1>1 DEF ConnInv, OnlyOne, Needed, Fresh, Subscribed
<1> QED
  BY <1>2, <1>3, <1>4, OneAtATime

LEMMA CallKeeps ==
    ASSUME StreamInv, NEW c \in Conns, CallSlot(c) PROVE StreamInv'
<1> USE DEF registering, slots
<1>0. ConnInv(c) /\ QueueType
  BY DEF StreamInv
<1> DEFINE h == Handler("send", published)
<1>1. h \in Handlers /\ h.do = "send"
  BY <1>0, HandlerType DEF QueueType
<1> HIDE DEF h
<1>2. /\ c \in calling /\ calling' = calling \ {c}
      /\ strand' = [strand EXCEPT ![c] = Append(@, h)]
      /\ UNCHANGED <<published, toCall, started, connected, known, outbox, writes, gone, closed>>
  BY DEF CallSlot, h
<1>3. QueueType'
  BY <1>0, <1>1, <1>2 DEF QueueType
<1>4. \A d \in Conns \ {c} : UNCHANGED Local(d)
  BY <1>0, <1>2 DEF QueueType, Local
<1>5. strand'[c] = Append(strand[c], h) /\ strand[c] \in Seq(Handlers)
  BY <1>0, <1>2 DEF QueueType
<1>6. /\ EndsIn(strand'[c]) = {} <=> EndsIn(strand[c]) = {}
      /\ OneEnd(strand[c]) => OneEnd(strand'[c])
      /\ FailsIn(strand'[c]) <=> FailsIn(strand[c])
  BY <1>1, <1>5, Queued
<1>7. started[c] \in {"connected", "yes"}
  BY <1>0, <1>2 DEF ConnInv, Fresh, QueueType
<1>8. ConnInv(c)'
  BY <1>0, <1>2, <1>6, <1>7 DEF ConnInv, OnlyOne, Needed, Fresh, Subscribed
<1> QED
  BY <1>3, <1>4, <1>8, OneAtATime

\* What a handler that runs finds on its strand.
LEMMA RunsShape ==
    ASSUME StreamInv, NEW c \in Conns, NEW do \in {"send", "add", "wrote", "failed"},
           Runs(c, do)
    PROVE  /\ strand[c] \in Seq(Handlers) /\ strand[c] # <<>> /\ Head(strand[c]).do = do
           /\ Message(c) \in Messages /\ Tail(strand[c]) \in Seq(Handlers)
           /\ started[c] \notin {"no", "listed"}
<1>1. strand[c] \in Seq(Handlers) /\ strand[c] # <<>> /\ Head(strand[c]).do = do
  BY DEF StreamInv, QueueType, Runs
<1>2. Head(strand[c]) \in Handlers /\ Tail(strand[c]) \in Seq(Handlers)
  BY <1>1, TailShape
<1>3. Message(c) \in Messages
  BY <1>2 DEF Message, Handlers
<1>4. started[c] \notin {"no", "listed"}
  BY <1>1 DEF StreamInv, ConnInv, Fresh
<1> QED
  BY <1>1, <1>2, <1>3, <1>4

LEMMA SendKeeps ==
    ASSUME StreamInv, NEW c \in Conns, SendFrame(c) PROVE StreamInv'
<1>0. ConnInv(c) /\ QueueType
  BY DEF StreamInv
<1> DEFINE h == Handler("add", Message(c))
<1> DEFINE t == Tail(strand[c])
<1>1. Runs(c, "send") /\ strand' = [strand EXCEPT ![c] = Append(t, h)]
      /\ UNCHANGED <<published, toCall, calling, started, connected, known, outbox, writes, gone, closed>>
  BY DEF SendFrame, registering, slots, publisher
<1>2. h \in Handlers /\ h.do = "add" /\ t \in Seq(Handlers)
  BY <1>1, RunsShape, HandlerType
<1>3. /\ EndsIn(t) = {} <=> EndsIn(strand[c]) = {}
      /\ OneEnd(strand[c]) => OneEnd(t)
      /\ FailsIn(t) => FailsIn(strand[c])
  BY <1>1, RunsShape, Taken
<1> HIDE DEF h, t
<1>4. /\ EndsIn(Append(t, h)) = {} <=> EndsIn(t) = {}
      /\ OneEnd(t) => OneEnd(Append(t, h))
      /\ FailsIn(Append(t, h)) <=> FailsIn(t)
  BY <1>2, Queued
<1>5. QueueType'
  BY <1>0, <1>1, <1>2 DEF QueueType
<1>6. \A d \in Conns \ {c} : UNCHANGED Local(d)
  BY <1>0, <1>1 DEF QueueType, Local
<1>7. strand'[c] = Append(t, h)
  BY <1>0, <1>1 DEF QueueType
<1>8. started[c] \notin {"no", "listed"}
  BY <1>1, RunsShape
<1>9. ConnInv(c)'
  BY <1>0, <1>1, <1>3, <1>4, <1>7, <1>8 DEF ConnInv, OnlyOne, Needed, Fresh, Subscribed
<1> QED
  BY <1>5, <1>6, <1>9, OneAtATime

LEMMA AddKeeps ==
    ASSUME StreamInv, NEW c \in Conns, AddToOutbox(c) PROVE StreamInv'
<1>0. ConnInv(c) /\ QueueType
  BY DEF StreamInv
<1> DEFINE m == Message(c)
<1> DEFINE t == Tail(strand[c])
<1>1. /\ Runs(c, "add") /\ strand' = [strand EXCEPT ![c] = t]
      /\ outbox' = [outbox EXCEPT ![c] = Append(@, m)]
      /\ writes' = IF outbox[c] = <<>> THEN [writes EXCEPT ![c] = Append(@, m)] ELSE writes
      /\ UNCHANGED <<published, toCall, calling, started, connected, known, gone, closed>>
  BY DEF AddToOutbox, registering, slots, publisher
<1>2. m \in Messages /\ t \in Seq(Handlers) /\ started[c] \notin {"no", "listed"}
  BY <1>1, RunsShape
<1>3. /\ EndsIn(t) = {} <=> EndsIn(strand[c]) = {}
      /\ OneEnd(strand[c]) => OneEnd(t)
      /\ FailsIn(t) => FailsIn(strand[c])
  BY <1>1, RunsShape, Taken
<1> HIDE DEF m, t
<1>4. QueueType'
  BY <1>0, <1>1, <1>2 DEF QueueType
<1>5. \A d \in Conns \ {c} : UNCHANGED Local(d)
  BY <1>0, <1>1 DEF QueueType, Local
<1>6. /\ strand'[c] = t /\ outbox'[c] = Append(outbox[c], m)
      /\ writes'[c] = IF outbox[c] = <<>> THEN Append(writes[c], m) ELSE writes[c]
      /\ outbox[c] \in Seq(Messages) /\ writes[c] \in Seq(Messages)
  BY <1>0, <1>1 DEF QueueType
<1>7. outbox'[c] # <<>> /\ Head(outbox'[c]) = IF outbox[c] = <<>> THEN m ELSE Head(outbox[c])
  BY <1>2, <1>6, AppendShape
<1>8. CASE outbox[c] = <<>>
  <2>1. writes[c] = <<>> /\ EndsIn(strand[c]) = {}
    BY <1>0, <1>8 DEF ConnInv, Needed
  <2>2. writes'[c] = <<m>>
    BY <1>6, <1>8, <2>1
  <2>3. OnlyOne(c)' /\ Needed(c)'
    BY <1>0, <1>3, <1>6, <1>7, <1>8, <2>1, <2>2 DEF ConnInv, OnlyOne, Needed
  <2>4. Fresh(c)' /\ Subscribed(c)'
    BY <1>0, <1>1, <1>2, <1>3, <1>6 DEF ConnInv, Fresh, Subscribed
  <2>5. ConnInv(c)'
    BY <2>3, <2>4 DEF ConnInv
  <2> QED
    BY <1>4, <1>5, <2>5, OneAtATime
<1>9. CASE outbox[c] # <<>>
  <2>1. ConnInv(c)'
    BY <1>0, <1>1, <1>2, <1>3, <1>6, <1>7, <1>9
       DEF ConnInv, OnlyOne, Needed, Fresh, Subscribed
  <2> QED
    BY <1>4, <1>5, <2>1, OneAtATime
<1> QED
  BY <1>8, <1>9

\* The handler of a write that is over finds no other one, and the outbox's
\* head is gone after it.
LEMMA EndOfWrite ==
    ASSUME StreamInv, NEW c \in Conns, NEW do \in {"wrote", "failed"}, Runs(c, do)
    PROVE  /\ writes[c] = <<>> /\ EndsIn(Tail(strand[c])) = {} /\ OneEnd(Tail(strand[c]))
           /\ FailsIn(Tail(strand[c])) => FailsIn(strand[c])
           /\ do = "failed" => FailsIn(strand[c])
           /\ outbox[c] # <<>> /\ Popped(c) = Tail(outbox[c]) /\ Popped(c) \in Seq(Messages)
           /\ Popped(c) # <<>> => Head(Popped(c)) \in Messages
<1>0. ConnInv(c) /\ QueueType
  BY DEF StreamInv
<1>1. strand[c] \in Seq(Handlers) /\ strand[c] # <<>> /\ Head(strand[c]).do \in {"wrote", "failed"}
      /\ (do = "failed" => Head(strand[c]).do = "failed")
  BY RunsShape
<1>2. /\ EndsIn(strand[c]) # {} /\ EndsIn(Tail(strand[c])) = {}
      /\ FailsIn(Tail(strand[c])) => FailsIn(strand[c])
      /\ do = "failed" => FailsIn(strand[c])
  BY <1>0, <1>1, Taken DEF ConnInv, OnlyOne
<1>3. writes[c] = <<>> /\ outbox[c] # <<>>
  BY <1>0, <1>2 DEF ConnInv, OnlyOne, Needed
<1>4. Popped(c) = Tail(outbox[c]) /\ Popped(c) \in Seq(Messages)
  BY <1>0, <1>3, TailShape DEF Popped, QueueType
<1>5. Popped(c) # <<>> => Head(Popped(c)) \in Messages
  BY <1>4, TailShape
<1>6. OneEnd(Tail(strand[c]))
  BY <1>2 DEF OneEnd
<1> QED
  BY <1>2, <1>3, <1>4, <1>5, <1>6

LEMMA WrittenKeeps ==
    ASSUME StreamInv, NEW c \in Conns, HandleWrite(c) PROVE StreamInv'
<1>0. ConnInv(c) /\ QueueType
  BY DEF StreamInv
<1> DEFINE p == Popped(c)
<1> DEFINE t == Tail(strand[c])
<1>1. /\ Runs(c, "wrote") /\ strand' = [strand EXCEPT ![c] = t]
      /\ outbox' = [outbox EXCEPT ![c] = p]
      /\ writes' = IF p = <<>> THEN writes ELSE [writes EXCEPT ![c] = Append(@, Head(p))]
      /\ UNCHANGED <<published, toCall, calling, started, connected, known, gone, closed>>
  BY DEF HandleWrite, registering, slots, publisher
<1>2. /\ writes[c] = <<>> /\ EndsIn(t) = {} /\ OneEnd(t)
      /\ FailsIn(t) => FailsIn(strand[c])
      /\ p \in Seq(Messages) /\ (p # <<>> => Head(p) \in Messages)
  BY <1>1, EndOfWrite
<1>3. t \in Seq(Handlers) /\ started[c] \notin {"no", "listed"}
  BY <1>1, RunsShape
<1> HIDE DEF p, t
<1>4. QueueType'
  BY <1>0, <1>1, <1>2, <1>3 DEF QueueType
<1>5. \A d \in Conns \ {c} : UNCHANGED Local(d)
  BY <1>0, <1>1 DEF QueueType, Local
<1>6. /\ strand'[c] = t /\ outbox'[c] = p
      /\ writes'[c] = IF p = <<>> THEN <<>> ELSE <<Head(p)>>
  BY <1>0, <1>1, <1>2 DEF QueueType
<1>7. ConnInv(c)'
  <2>1. OnlyOne(c)'
    <3>1. CASE p = <<>>
      BY <1>2, <1>6, <3>1 DEF OnlyOne
    <3>2. CASE p # <<>>
      <4>1. writes'[c] = <<Head(p)>>
        BY <1>6, <3>2
      <4>2. Len(writes'[c]) = 1 /\ Head(writes'[c]) = Head(p)
        BY <4>1
      <4> QED
        BY <1>2, <1>6, <3>2, <4>2 DEF OnlyOne
    <3> QED
      BY <3>1, <3>2
  <2>2. Needed(c)'
    BY <1>2, <1>6 DEF Needed
  <2>3. Fresh(c)' /\ Subscribed(c)'
    BY <1>0, <1>1, <1>2, <1>3, <1>6 DEF ConnInv, Fresh, Subscribed
  <2> QED
    BY <2>1, <2>2, <2>3 DEF ConnInv
<1> QED
  BY <1>4, <1>5, <1>7, OneAtATime

LEMMA ErrorKeeps ==
    ASSUME StreamInv, NEW c \in Conns, HandleWriteError(c) PROVE StreamInv'
<1>0. ConnInv(c) /\ QueueType
  BY DEF StreamInv
<1> DEFINE p == Popped(c)
<1> DEFINE t == Tail(strand[c])
<1>1. /\ Runs(c, "failed") /\ strand' = [strand EXCEPT ![c] = t]
      /\ outbox' = [outbox EXCEPT ![c] = p]
      /\ connected' = [connected EXCEPT ![c] = @ /\ ~known[c]]
      /\ closed' = [closed EXCEPT ![c] = TRUE]
      /\ UNCHANGED <<published, toCall, calling, started, known, writes, gone>>
  BY DEF HandleWriteError, registering, publisher
<1>2. /\ writes[c] = <<>> /\ EndsIn(t) = {} /\ OneEnd(t) /\ FailsIn(strand[c])
      /\ p \in Seq(Messages)
  BY <1>1, EndOfWrite
<1>3. t \in Seq(Handlers) /\ started[c] \notin {"no", "listed"}
  BY <1>1, RunsShape
<1>4. gone[c]
  BY <1>0, <1>2 DEF ConnInv, Subscribed
<1> HIDE DEF p, t
<1>5. QueueType'
  BY <1>0, <1>1, <1>2, <1>3 DEF QueueType
<1>6. \A d \in Conns \ {c} : UNCHANGED Local(d)
  BY <1>0, <1>1 DEF QueueType, Local
<1>7. /\ strand'[c] = t /\ outbox'[c] = p /\ closed'[c] /\ writes'[c] = <<>>
      /\ connected'[c] => connected[c]
  BY <1>0, <1>1, <1>2 DEF QueueType
<1>8. ConnInv(c)'
  BY <1>0, <1>1, <1>2, <1>3, <1>4, <1>7 DEF ConnInv, OnlyOne, Needed, Fresh, Subscribed
<1> QED
  BY <1>5, <1>6, <1>8, OneAtATime

LEMMA WireKeeps ==
    ASSUME StreamInv, NEW c \in Conns, WriteCompletes(c) PROVE StreamInv'
<1>0. ConnInv(c) /\ QueueType
  BY DEF StreamInv
<1> DEFINE h == Handler(IF Reachable(c) THEN "wrote" ELSE "failed", 0)
<1> DEFINE q == strand[c]
<1>1. /\ writes[c] # <<>> /\ writes' = [writes EXCEPT ![c] = Tail(@)]
      /\ strand' = [strand EXCEPT ![c] = Append(@, h)]
      /\ UNCHANGED <<published, toCall, calling, started, connected, known, outbox, gone, closed>>
  BY DEF WriteCompletes, registering, slots, publisher
<1>2. 0 \in Messages
  BY DEF Messages
<1>3. h \in Handlers /\ h.do \in {"wrote", "failed"} /\ (h.do = "failed" => ~Reachable(c))
  BY <1>2, HandlerType
<1> HIDE DEF h
<1>4. writes[c] \in Seq(Messages) /\ Len(writes[c]) <= 1 /\ EndsIn(q) = {} /\ outbox[c] # <<>>
      /\ q \in Seq(Handlers)
  BY <1>0, <1>1 DEF QueueType, ConnInv, OnlyOne
<1>5. Tail(writes[c]) = <<>>
  BY <1>1, <1>4
<1>6. EndsIn(Append(q, h)) # {} /\ OneEnd(Append(q, h))
      /\ (FailsIn(Append(q, h)) <=> FailsIn(q) \/ h.do = "failed")
  BY <1>3, <1>4, Queued
<1>7. QueueType'
  BY <1>0, <1>1, <1>3, <1>5 DEF QueueType
<1>8. \A d \in Conns \ {c} : UNCHANGED Local(d)
  BY <1>0, <1>1 DEF QueueType, Local
<1>9. writes'[c] = <<>> /\ strand'[c] = Append(q, h)
  BY <1>0, <1>1, <1>5 DEF QueueType
<1>10. FailsIn(strand'[c]) => gone[c]
  BY <1>0, <1>3, <1>6, <1>9 DEF ConnInv, Subscribed, Reachable
<1>11. started[c] \notin {"no", "listed"}
  BY <1>0, <1>1 DEF ConnInv, Fresh
<1>12. ConnInv(c)'
  BY <1>0, <1>1, <1>4, <1>6, <1>9, <1>10, <1>11 DEF ConnInv, OnlyOne, Needed, Fresh, Subscribed
<1> QED
  BY <1>7, <1>8, <1>12, OneAtATime

LEMMA NextStreamInv == StreamInv /\ [Next]_vars => StreamInv'
<1> SUFFICES ASSUME StreamInv, [Next]_vars PROVE StreamInv'
  OBVIOUS
<1>1. CASE Publish
  <2>1. published' \in Messages
    BY <1>1 DEF Publish, StreamInv, QueueType, Messages
  <2>2. toCall' \cap calling' = {}
    BY <1>1 DEF Publish
  <2> QED
    BY <1>1, <2>1, <2>2, OthersKeep DEF Publish, StreamInv, QueueType, Local, registering, slots
<1>2. ASSUME NEW c \in Conns, DeregisterErases(c) PROVE StreamInv'
  BY <1>2, OthersKeep DEF DeregisterErases, StreamInv, QueueType, Local, publisher, slots
<1>3. ASSUME NEW c \in Conns, GoesAway(c) PROVE StreamInv'
  <2>1. QueueType'
    BY <1>3 DEF GoesAway, StreamInv, QueueType, publisher, registering, slots
  <2>2. \A d \in Conns \ {c} : UNCHANGED Local(d)
    BY <1>3 DEF GoesAway, StreamInv, QueueType, Local, publisher, registering, slots
  <2>3. gone'[c] /\ UNCHANGED <<started, connected, strand, outbox, writes, closed, calling>>
    BY <1>3 DEF GoesAway, StreamInv, QueueType, publisher, registering, slots
  <2>4. ConnInv(c)'
    BY <2>3 DEF StreamInv, ConnInv, OnlyOne, Needed, Fresh, Subscribed
  <2> QED
    BY <2>1, <2>2, <2>4, OneAtATime
<1>4. CASE UNCHANGED vars
  BY <1>4, OthersKeep DEF vars, StreamInv, QueueType, Local
<1> QED
  BY <1>1, <1>2, <1>3, <1>4, StartKeeps, TestKeeps, CallKeeps, SendKeeps, AddKeeps,
     WrittenKeeps, ErrorKeeps, WireKeeps
     DEF Next, SignalStep, StrandStep

---------------------------------------------------------------------------
(* The rest of the types: the list and what is found in it.                *)

RestType ==
    /\ toCall \subseteq Conns /\ calling \subseteq Conns /\ list \in Seq(Conns)
    /\ found \in [Conns -> Nat \cup {Dangling}]
    /\ wire \in [Conns -> Seq(Messages)]
    /\ \A c \in Conns : found[c] # 0 => closed[c]

LEMMA NextRestType == StreamInv /\ RestType /\ [Next]_vars => RestType'
<1> SUFFICES ASSUME StreamInv, RestType, [Next]_vars PROVE RestType'
  OBVIOUS
<1> USE DEF RestType, publisher, registering, slots
<1>1. CASE Publish
  BY <1>1 DEF Publish
<1>2. ASSUME NEW c \in Conns, StartStep(c) PROVE RestType'
  <2>1. CASE Register(c)
    <3>1. list' \in Seq(Conns) /\ UNCHANGED <<toCall, calling, wire, closed>>
      BY <2>1 DEF Register
    <3>2. UNCHANGED found \/ found' = [d \in Conns |-> IF found[d] = 0 THEN 0 ELSE Dangling]
      BY <2>1 DEF Register
    <3> QED
      BY <3>1, <3>2
  <2>2. CASE SendHeaders(c) \/ ConnectSlot(c) \/ KeepSlot(c)
    BY <2>2 DEF SendHeaders, ConnectSlot, KeepSlot
  <2> QED
    BY <1>2, <2>1, <2>2 DEF StartStep
<1>3. ASSUME NEW c \in Conns, SignalStep(c) PROVE RestType'
  BY <1>3 DEF SignalStep, TestSlot, CallSlot
<1>4. ASSUME NEW c \in Conns, SendFrame(c) \/ AddToOutbox(c) \/ HandleWrite(c) PROVE RestType'
  BY <1>4 DEF SendFrame, AddToOutbox, HandleWrite
<1>5. ASSUME NEW c \in Conns, HandleWriteError(c) PROVE RestType'
  <2>1. IndexInList(c) \in Nat
    BY DEF IndexInList, Contains
  <2>2. closed' = [closed EXCEPT ![c] = TRUE] /\ found' = [found EXCEPT ![c] = IndexInList(c)]
        /\ UNCHANGED <<toCall, calling, list, wire>>
    BY <1>5 DEF HandleWriteError
  <2>3. closed \in [Conns -> BOOLEAN]
    BY DEF StreamInv, QueueType
  <2> QED
    BY <2>1, <2>2, <2>3
<1>6. ASSUME NEW c \in Conns, DeregisterErases(c) PROVE RestType'
  <2>1. list' \in Seq(Conns)
    <3>1. CASE list' = list
      BY <3>1
    <3>2. ASSUME NEW i \in Erased(found[c]), list' = RemoveAt(list, i) PROVE list' \in Seq(Conns)
      <4>1. i \in 1 .. Len(list)
        BY <3>2 DEF Erased
      <4>2. RemoveAt(list, i) \in Seq(Conns)
        BY <4>1 DEF RemoveAt
      <4> QED
        BY <3>2, <4>2
    <3> QED
      BY <1>6, <3>1, <3>2 DEF DeregisterErases
  <2> QED
    BY <1>6, <2>1 DEF DeregisterErases
<1>7. ASSUME NEW c \in Conns, WriteCompletes(c) PROVE RestType'
  <2>1. Head(writes[c]) \in Messages
    BY <1>7, TailShape DEF WriteCompletes, StreamInv, QueueType
  <2>2. wire' \in [Conns -> Seq(Messages)]
    BY <1>7, <2>1 DEF WriteCompletes
  <2> QED
    BY <1>7, <2>2 DEF WriteCompletes
<1>8. ASSUME NEW c \in Conns, GoesAway(c) PROVE RestType'
  BY <1>8 DEF GoesAway
<1>9. CASE UNCHANGED vars
  BY <1>9 DEF vars
<1> QED
  BY <1>1, <1>2, <1>3, <1>4, <1>5, <1>6, <1>7, <1>8, <1>9 DEF Next, StrandStep

---------------------------------------------------------------------------
(* InOrder.  The handlers of a kind on a queue, and the pictures in them.  *)

DoesIn(q, do) == {i \in DOMAIN q : q[i].do = do}
PicturesIn(q, do) == {q[i].m : i \in DoesIn(q, do)}
SortedIn(q, do) == \A i, j \in DoesIn(q, do) : i < j => q[i].m < q[j].m
CarriesIn(q, do, m, n) == m <= n /\ PicturesIn(q, do) = m + 1 .. n /\ SortedIn(q, do)

LEMMA QueuedOther ==
    ASSUME NEW q \in Seq(Handlers), NEW h \in Handlers, NEW do, h.do # do
    PROVE  /\ DoesIn(Append(q, h), do) = DoesIn(q, do)
           /\ PicturesIn(Append(q, h), do) = PicturesIn(q, do)
           /\ SortedIn(q, do) => SortedIn(Append(q, h), do)
<1> DEFINE r == Append(q, h)
<1>1. /\ DOMAIN r = 1 .. Len(q) + 1 /\ DOMAIN q = 1 .. Len(q) /\ Len(q) \in Nat
      /\ \A i \in DOMAIN q : r[i] = q[i]
      /\ r[Len(q) + 1] = h
  BY AppendShape
<1> HIDE DEF r
<1>2. DoesIn(r, do) = DoesIn(q, do)
  BY ONLY <1>1, h.do # do DEF DoesIn
<1>3. \A i \in DoesIn(q, do) : r[i] = q[i]
  BY <1>1 DEF DoesIn
<1>4. PicturesIn(r, do) = PicturesIn(q, do)
  BY <1>2, <1>3 DEF PicturesIn
<1>5. SortedIn(q, do) => SortedIn(r, do)
  BY <1>2, <1>3 DEF SortedIn
<1> QED
  BY <1>2, <1>4, <1>5 DEF r

LEMMA QueuedNext ==
    ASSUME NEW q \in Seq(Handlers), NEW h \in Handlers, NEW m \in Int, NEW n \in Int,
           CarriesIn(q, h.do, m, n), h.m = n + 1
    PROVE  CarriesIn(Append(q, h), h.do, m, n + 1)
<1> DEFINE r == Append(q, h)
<1> DEFINE do == h.do
<1> DEFINE last == Len(q) + 1
<1>1. /\ DOMAIN r = 1 .. last /\ DOMAIN q = 1 .. Len(q) /\ Len(q) \in Nat
      /\ \A i \in DOMAIN q : r[i] = q[i]
      /\ r[last] = h
  BY AppendShape
<1> HIDE DEF r
<1>2. DoesIn(r, do) = DoesIn(q, do) \cup {last}
  BY ONLY <1>1 DEF DoesIn
<1>3. \A i \in DoesIn(q, do) : r[i] = q[i] /\ i < last /\ i \in Int
  BY <1>1 DEF DoesIn
<1>4. PicturesIn(r, do) = PicturesIn(q, do) \cup {n + 1}
  BY <1>1, <1>2, <1>3 DEF PicturesIn
<1>5. PicturesIn(r, do) = m + 1 .. n + 1 /\ m <= n + 1
  BY <1>4 DEF CarriesIn
<1>6. \A i \in DoesIn(q, do) : q[i].m < n + 1
  <2>1. \A i \in DoesIn(q, do) : q[i].m \in PicturesIn(q, do)
    BY DEF PicturesIn
  <2>2. PicturesIn(q, do) = m + 1 .. n
    BY DEF CarriesIn
  <2> QED
    BY <2>1, <2>2
<1>7. SortedIn(r, do)
  <2> SUFFICES ASSUME NEW i \in DoesIn(r, do), NEW j \in DoesIn(r, do), i < j
               PROVE  r[i].m < r[j].m
    BY DEF SortedIn
  <2>1. i \in DoesIn(q, do)
    BY <1>1, <1>2, <1>3
  <2>2. CASE j = last
    BY <1>1, <1>3, <1>6, <2>1, <2>2
  <2>3. CASE j \in DoesIn(q, do)
    BY <1>3, <2>1, <2>3 DEF CarriesIn, SortedIn
  <2> QED
    BY <1>2, <2>2, <2>3
<1> QED
  BY <1>5, <1>7 DEF CarriesIn, r

LEMMA TakenOther ==
    ASSUME NEW q \in Seq(Handlers), q # <<>>, NEW do, Head(q).do # do
    PROVE  /\ DoesIn(Tail(q), do) = {} <=> DoesIn(q, do) = {}
           /\ PicturesIn(Tail(q), do) = PicturesIn(q, do)
           /\ SortedIn(q, do) => SortedIn(Tail(q), do)
<1> DEFINE r == Tail(q)
<1>1. /\ DOMAIN r = 1 .. Len(q) - 1 /\ DOMAIN q = 1 .. Len(q) /\ Len(q) \in Nat
      /\ \A i \in 1 .. Len(q) - 1 : r[i] = q[i + 1]
      /\ q[1].do # do /\ Len(q) >= 1
  BY TailShape
<1> HIDE DEF r
<1>2. \A i \in DoesIn(r, do) : i + 1 \in DoesIn(q, do) /\ r[i] = q[i + 1] /\ i \in Int
  BY ONLY <1>1 DEF DoesIn
<1>3. \A i \in DoesIn(q, do) : i - 1 \in DoesIn(r, do) /\ r[i - 1] = q[i] /\ i \in Int
  BY ONLY <1>1 DEF DoesIn
<1>4. PicturesIn(r, do) = PicturesIn(q, do)
  BY <1>2, <1>3 DEF PicturesIn
<1>5. SortedIn(q, do) => SortedIn(r, do)
  BY <1>2 DEF SortedIn
<1> QED
  BY <1>2, <1>3, <1>4, <1>5 DEF r

LEMMA TakenNext ==
    ASSUME NEW q \in Seq(Handlers), q # <<>>, NEW m \in Int, NEW n \in Int,
           CarriesIn(q, Head(q).do, m, n)
    PROVE  Head(q).m = m + 1 /\ CarriesIn(Tail(q), Head(q).do, m + 1, n)
<1> DEFINE r == Tail(q)
<1> DEFINE do == Head(q).do
<1>1. /\ DOMAIN r = 1 .. Len(q) - 1 /\ DOMAIN q = 1 .. Len(q) /\ Len(q) \in Nat
      /\ \A i \in 1 .. Len(q) - 1 : r[i] = q[i + 1]
      /\ Head(q) = q[1] /\ Len(q) >= 1
  BY TailShape
<1> HIDE DEF r
<1>2. \A i \in DoesIn(r, do) : i + 1 \in DoesIn(q, do) /\ r[i] = q[i + 1] /\ i \in Int /\ 1 < i + 1
  BY ONLY <1>1 DEF DoesIn
<1>3. \A i \in DoesIn(q, do) : i = 1 \/ (i - 1 \in DoesIn(r, do) /\ r[i - 1] = q[i])
  BY ONLY <1>1 DEF DoesIn
<1>4. 1 \in DoesIn(q, do)
  BY <1>1 DEF DoesIn
<1>5. /\ m <= n /\ PicturesIn(q, do) = m + 1 .. n
      /\ \A i, j \in DoesIn(q, do) : i < j => q[i].m < q[j].m
  BY DEF CarriesIn, SortedIn
<1>6. \A i \in DoesIn(q, do) : q[i].m \in m + 1 .. n
  BY <1>5 DEF PicturesIn
<1>7. \A i \in DoesIn(r, do) : q[1].m < r[i].m
  BY <1>2, <1>4, <1>5
<1>8. q[1].m = m + 1
  <2>1. m + 1 \in PicturesIn(q, do)
    BY <1>4, <1>5, <1>6
  <2>2. PICK i \in DoesIn(q, do) : q[i].m = m + 1
    BY <2>1 DEF PicturesIn
  <2> QED
    BY <1>3, <1>4, <1>6, <1>7, <2>2
<1>9. PicturesIn(r, do) = m + 2 .. n
  <2>1. \A i \in DoesIn(r, do) : r[i].m \in m + 2 .. n
    BY <1>2, <1>6, <1>7, <1>8
  <2>2. ASSUME NEW k \in m + 2 .. n PROVE \E i \in DoesIn(r, do) : r[i].m = k
    <3>1. k \in PicturesIn(q, do)
      BY <1>5
    <3>2. PICK i \in DoesIn(q, do) : q[i].m = k
      BY <3>1 DEF PicturesIn
    <3>3. i # 1
      BY <1>8, <3>2
    <3> QED
      BY <1>3, <3>2, <3>3
  <2> QED
    BY <2>1, <2>2 DEF PicturesIn
<1>10. SortedIn(r, do)
  <2> SUFFICES ASSUME NEW i \in DoesIn(r, do), NEW j \in DoesIn(r, do), i < j
               PROVE  r[i].m < r[j].m
    BY DEF SortedIn
  <2> QED
    BY <1>2, <1>5
<1>11. m + 1 <= n
  BY <1>4, <1>6
<1> QED
  BY <1>1, <1>8, <1>9, <1>10, <1>11 DEF CarriesIn, r

(* What the client has received and is about to.                           *)

SentTo(s, m) == (s # <<>> => s[1] = 0) /\ \A i \in 2 .. Len(s) : s[i] = m - Len(s) + i
WaitingIn(q, o) ==
    IF DoesIn(q, "wrote") # {} THEN (IF o = <<>> THEN <<>> ELSE Tail(o)) ELSE o

LEMMA SentNext ==
    ASSUME NEW s \in Seq(Messages), s # <<>>, NEW m \in Int, NEW x, SentTo(s, m), x = m + 1
    PROVE  SentTo(Append(s, x), m + 1)
<1> DEFINE r == Append(s, x)
<1>1. /\ Len(r) = Len(s) + 1 /\ Len(s) \in Nat /\ Len(s) >= 1
      /\ \A i \in 1 .. Len(s) : r[i] = s[i]
      /\ r[Len(s) + 1] = x
  OBVIOUS
<1> HIDE DEF r
<1>2. r[1] = 0
  BY <1>1 DEF SentTo
<1>3. ASSUME NEW i \in 2 .. Len(r) PROVE r[i] = (m + 1) - Len(r) + i
  <2>1. CASE i = Len(s) + 1
    BY <1>1, <2>1
  <2>2. CASE i # Len(s) + 1
    <3>1. i \in 2 .. Len(s) /\ r[i] = s[i]
      BY <1>1, <2>2
    <3>2. s[i] = m - Len(s) + i
      BY <3>1 DEF SentTo
    <3> QED
      BY <1>1, <3>1, <3>2
  <2> QED
    BY <2>1, <2>2
<1> QED
  BY <1>2, <1>3 DEF SentTo, r

\* A message that joins the outbox joins what is sent.
LEMMA Joins ==
    ASSUME NEW w \in Seq(Messages), NEW o \in Seq(Messages), NEW x \in Messages
    PROVE  /\ w \o Append(o, x) = Append(w \o o, x)
           /\ o # <<>> => Tail(Append(o, x)) = Append(Tail(o), x) /\ Tail(o) \in Seq(Messages)
<1>1. Append(o, x) = o \o <<x>> /\ <<x>> \in Seq(Messages)
  BY AppendIsConcat
<1>2. Append(w \o o, x) = (w \o o) \o <<x>>
  BY AppendIsConcat, ConcatProperties
<1>3. w \o (o \o <<x>>) = (w \o o) \o <<x>>
  BY <1>1, ConcatAssociative
<1>4. o # <<>> => Tail(Append(o, x)) = Append(Tail(o), x)
  BY HeadTailAppend
<1>5. o # <<>> => Tail(o) \in Seq(Messages)
  BY TailShape
<1> QED
  BY <1>1, <1>2, <1>3, <1>4, <1>5

\* The head of the outbox moves to the wire.
LEMMA Moves ==
    ASSUME NEW w \in Seq(Messages), NEW o \in Seq(Messages), o # <<>>
    PROVE  Append(w, Head(o)) \o Tail(o) = w \o o
<1>1. Head(o) \in Messages /\ Tail(o) \in Seq(Messages) /\ <<Head(o)>> \in Seq(Messages)
  BY TailShape
<1>2. o = <<Head(o)>> \o Tail(o)
  <2> DEFINE r == <<Head(o)>> \o Tail(o)
  <2>1. /\ r \in Seq(Messages) /\ Len(r) = 1 + Len(Tail(o))
        /\ \A i \in 1 .. 1 + Len(Tail(o)) :
              r[i] = IF i <= 1 THEN <<Head(o)>>[i] ELSE Tail(o)[i - 1]
    BY <1>1, ConcatProperties
  <2>2. /\ Len(Tail(o)) = Len(o) - 1 /\ Len(o) \in Nat /\ Head(o) = o[1]
        /\ \A i \in 1 .. Len(o) - 1 : Tail(o)[i] = o[i + 1]
    BY TailShape
  <2> HIDE DEF r
  <2>3. Len(r) = Len(o) /\ \A i \in 1 .. Len(o) : r[i] = o[i]
    BY <2>1, <2>2
  <2> QED
    BY <2>1, <2>3, SeqEqual DEF r
<1>3. Append(w, Head(o)) = w \o <<Head(o)>>
  BY <1>1, AppendIsConcat
<1>4. (w \o <<Head(o)>>) \o Tail(o) = w \o (<<Head(o)>> \o Tail(o))
  BY <1>1, ConcatAssociative
<1> QED
  BY <1>2, <1>3, <1>4

LEMMA NotFailed ==
    ASSUME NEW q \in Seq(Handlers), ~FailsIn(q)
    PROVE  DoesIn(q, "wrote") = EndsIn(q)
  BY DEF FailsIn, DoesIn, EndsIn

(***************************************************************************)
(* InOrder is inductive for the clients that stay, together with how far   *)
(* the registration is: nothing is on its way before the slot is           *)
(* connected, and the signal calls connected slots only.                   *)
(***************************************************************************)
Pending(d) == d \in toCall \cup calling  \* the last picture is not on its strand
Order(c) ==
    /\ \E m, n \in Messages :
          /\ SentTo(Sent(c), m)
          /\ CarriesIn(strand[c], "add", m, n)
          /\ CarriesIn(strand[c], "send", n, Signalled(c))
    /\ started[c] \in {"no", "listed"} => wire[c] = <<>>
    /\ started[c] \notin {"no", "listed"} => Sent(c) # <<>>
    /\ ~connected[c] => /\ Len(Sent(c)) <= 1
                        /\ DoesIn(strand[c], "add") = {} /\ DoesIn(strand[c], "send") = {}
    /\ Pending(c) => connected[c] /\ published > 0

OrderInv == \A c \in Conns : ~gone[c] => Order(c)
Flow(d) == <<gone[d], started[d], connected[d], strand[d], outbox[d], wire[d], published>>

LEMMA SentIs == \A c : Sent(c) = wire[c] \o WaitingIn(strand[c], outbox[c])
  BY DEF Sent, Unwritten, WaitingIn, Popped, Does, DoesIn

LEMMA SentIsNext == \A c : Sent(c)' = wire'[c] \o WaitingIn(strand'[c], outbox'[c])
  BY DEF Sent, Unwritten, WaitingIn, Popped, Does, DoesIn

LEMMA OrderKeeps ==
    ASSUME NEW d, Order(d), UNCHANGED Flow(d), Pending(d)' <=> Pending(d)
    PROVE  Order(d)'
<1>1. Sent(d)' = Sent(d)
  BY SentIs, SentIsNext DEF Flow, Pending
<1>2. Signalled(d)' = Signalled(d)
  BY DEF Flow, Pending, Signalled, Pending
<1> QED
  BY <1>1, <1>2 DEF Order, Pending, Flow, Pending

LEMMA OrderOneAtATime ==
    ASSUME OrderInv, NEW c \in Conns, gone'[c] \/ Order(c)',
           \A d \in Conns \ {c} : UNCHANGED Flow(d) /\ (Pending(d)' <=> Pending(d))
    PROVE  OrderInv'
<1> SUFFICES ASSUME NEW d \in Conns, ~gone'[d] PROVE Order(d)'
  BY DEF OrderInv
<1>1. CASE d = c
  BY <1>1
<1>2. CASE d # c
  <2>1. UNCHANGED Flow(d) /\ (Pending(d)' <=> Pending(d))
    BY <1>2
  <2>2. gone'[d] = gone[d]
    BY <2>1 DEF Flow, Pending
  <2>3. Order(d)
    BY <2>2 DEF OrderInv
  <2> QED
    BY <2>1, <2>3, OrderKeeps
<1> QED
  BY <1>1, <1>2

\* Messages are numbers; what is sent is a sequence of them.
LEMMA SentShape ==
    ASSUME NEW w \in Seq(Messages), NEW q, NEW o \in Seq(Messages)
    PROVE  /\ WaitingIn(q, o) \in Seq(Messages) /\ w \o WaitingIn(q, o) \in Seq(Messages)
           /\ Messages \subseteq Nat
<1>1. WaitingIn(q, o) \in Seq(Messages)
  <2>1. <<>> \in Seq(Messages)
    OBVIOUS
  <2>2. o # <<>> => Tail(o) \in Seq(Messages)
    BY TailShape
  <2> QED
    BY <2>1, <2>2 DEF WaitingIn
<1> QED
  BY <1>1, ConcatProperties DEF Messages

LEMMA OrderPublish == ASSUME StreamInv, OrderInv, Publish PROVE OrderInv'
<1> SUFFICES ASSUME NEW c \in Conns, ~gone'[c] PROVE Order(c)'
  BY DEF OrderInv
<1>1. /\ UNCHANGED <<gone, started, connected, strand, outbox, wire>>
      /\ toCall = {} /\ calling = {} /\ calling' = {} /\ published' = published + 1
      /\ toCall' = {d \in Conns : connected[d]}
  BY DEF Publish, registering, slots
<1>2. Order(c)
  BY <1>1 DEF OrderInv
<1>3. Sent(c)' = Sent(c)
  BY <1>1, SentIs, SentIsNext
<1>4. published \in Nat /\ published' \in Messages
  BY <1>1 DEF Publish, StreamInv, QueueType, Messages
<1>5. CASE connected[c]
  <2>1. c \in toCall' /\ Signalled(c)' = Signalled(c) /\ connected'[c] /\ published' > 0
    BY <1>1, <1>4, <1>5 DEF Signalled, Pending
  <2> QED
    BY <1>1, <1>2, <1>3, <2>1 DEF Order, Pending
<1>6. CASE ~connected[c]
  <2>1. c \notin toCall' /\ Signalled(c)' = published' /\ ~connected'[c]
    BY <1>1, <1>6 DEF Signalled, Pending
  <2>2. /\ Len(Sent(c)') <= 1
        /\ DoesIn(strand'[c], "add") = {} /\ DoesIn(strand'[c], "send") = {}
    BY <1>1, <1>2, <1>3, <1>6 DEF Order, Pending
  <2>3. CarriesIn(strand'[c], "add", published', published')
        /\ CarriesIn(strand'[c], "send", published', published')
    BY <1>4, <2>2 DEF CarriesIn, PicturesIn, SortedIn, Messages
  <2>4. Sent(c)' # <<>> => Sent(c)'[1] = 0
    BY <1>2, <1>3 DEF Order, Pending, SentTo
  <2>5. SentTo(Sent(c)', published')
    <3>1. strand[c] \in Seq(Handlers) /\ outbox[c] \in Seq(Messages)
      BY DEF StreamInv, QueueType
    <3>2. 2 .. Len(Sent(c)') = {} \/ Len(Sent(c)') \notin Int
      BY <2>2
    <3> QED
      BY <2>4, <3>2 DEF SentTo
  <2> QED
    BY <1>1, <1>2, <1>3, <1>4, <2>1, <2>2, <2>3, <2>5 DEF Order, Pending
<1> QED
  BY <1>5, <1>6

LEMMA OrderStart ==
    ASSUME StreamInv, RestType, OrderInv, NEW c \in Conns, StartStep(c) PROVE OrderInv'
<1>0. QueueType /\ ConnInv(c) /\ wire \in [Conns -> Seq(Messages)]
  BY DEF StreamInv, RestType
<1>1. UNCHANGED <<gone, wire, strand, published, toCall, calling>>
  BY DEF StartStep, Register, SendHeaders, ConnectSlot, KeepSlot, publisher
<1>2. \A d \in Conns \ {c} : UNCHANGED Flow(d) /\ (Pending(d)' <=> Pending(d))
  BY <1>0, <1>1
     DEF StartStep, Register, SendHeaders, ConnectSlot, KeepSlot, Starts, QueueType, Flow, Pending,
         slots, registering
<1>3. SUFFICES ASSUME ~gone'[c] PROVE Order(c)'
  BY <1>2, OrderOneAtATime
<1>4. Order(c) /\ Signalled(c)' = Signalled(c)
  BY <1>1, <1>3 DEF OrderInv, Signalled, Pending
<1>5. CASE Register(c)
  <2>1. started[c] = "no" /\ started'[c] = "listed" /\ UNCHANGED <<connected, outbox>>
    BY <1>0, <1>5 DEF Register, Starts, slots, QueueType
  <2>2. Sent(c)' = Sent(c)
    BY <1>1, <2>1, SentIs, SentIsNext
  <2> QED
    BY <1>1, <1>4, <2>1, <2>2 DEF Order, Pending
<1>6. CASE SendHeaders(c)
  <2>1. /\ started[c] = "listed" /\ started'[c] = "headed" /\ UNCHANGED connected
        /\ outbox'[c] = Append(outbox[c], 0)
    BY <1>0, <1>6 DEF SendHeaders, Starts, slots, QueueType
  <2>2. outbox[c] = <<>> /\ strand[c] = <<>> /\ wire[c] = <<>>
    BY <1>0, <1>4, <2>1 DEF ConnInv, Fresh, Order
  <2>3. DoesIn(strand'[c], "wrote") = {}
    BY <1>1, <2>2 DEF DoesIn
  <2>4. Sent(c)' = <<0>>
    <3>1. WaitingIn(strand'[c], outbox'[c]) = <<0>>
      BY <2>1, <2>2, <2>3 DEF WaitingIn
    <3>2. wire'[c] = <<>> /\ Sent(c)' = wire'[c] \o WaitingIn(strand'[c], outbox'[c])
      BY <1>1, <2>2, SentIsNext
    <3> QED
      BY <3>1, <3>2
  <2>5. \A m : SentTo(Sent(c)', m)
    BY <2>4 DEF SentTo
  <2>6. Len(Sent(c)') = 1
    BY <2>4
  <2>7. Sent(c)' # <<>>
    BY <2>4
  <2> QED
    BY <1>1, <1>4, <2>1, <2>2, <2>5, <2>6, <2>7 DEF Order, Pending
<1>7. CASE ConnectSlot(c)
  <2>1. /\ started[c] = "headed" /\ started'[c] = "connected" /\ UNCHANGED outbox
        /\ connected'[c]
    BY <1>0, <1>7 DEF ConnectSlot, Starts, QueueType
  <2>2. Sent(c)' = Sent(c)
    BY <1>1, <2>1, SentIs, SentIsNext
  <2> QED
    BY <1>1, <1>4, <2>1, <2>2 DEF Order, Pending
<1>8. CASE KeepSlot(c)
  <2>1. /\ started[c] = "connected" /\ started'[c] = "yes" /\ UNCHANGED <<connected, outbox>>
    BY <1>0, <1>8 DEF KeepSlot, Starts, QueueType
  <2>2. Sent(c)' = Sent(c)
    BY <1>1, <2>1, SentIs, SentIsNext
  <2> QED
    BY <1>1, <1>4, <2>1, <2>2 DEF Order, Pending
<1> QED
  BY <1>5, <1>6, <1>7, <1>8 DEF StartStep

LEMMA OrderTest ==
    ASSUME StreamInv, OrderInv, NEW c \in Conns, TestSlot(c) PROVE OrderInv'
<1>1. /\ c \in toCall /\ toCall' = toCall \ {c} /\ calling = {}
      /\ calling' = IF connected[c] THEN {c} ELSE {}
      /\ UNCHANGED <<published, gone, started, connected, strand, outbox, wire>>
  BY DEF TestSlot, registering, slots
<1>2. \A d \in Conns \ {c} : UNCHANGED Flow(d) /\ (Pending(d)' <=> Pending(d))
  BY <1>1 DEF Flow, Pending
<1>3. ASSUME ~gone'[c] PROVE Order(c)'
  <2>1. Order(c) /\ connected[c]
    BY <1>1, <1>3 DEF OrderInv, Order, Pending
  <2>2. UNCHANGED Flow(c) /\ (Pending(c)' <=> Pending(c))
    BY <1>1, <2>1 DEF Flow, Pending
  <2> QED
    BY <2>1, <2>2, OrderKeeps
<1> QED
  BY <1>2, <1>3, OrderOneAtATime

LEMMA OrderCall ==
    ASSUME StreamInv, OrderInv, NEW c \in Conns, CallSlot(c) PROVE OrderInv'
<1>0. QueueType
  BY DEF StreamInv
<1> DEFINE h == Handler("send", published)
<1> DEFINE q == strand[c]
<1>1. /\ c \in calling /\ calling' = calling \ {c} /\ c \notin toCall
      /\ strand' = [strand EXCEPT ![c] = Append(q, h)]
      /\ UNCHANGED <<published, toCall, gone, started, connected, outbox, wire>>
  BY <1>0 DEF CallSlot, QueueType, registering, slots
<1>2. \A d \in Conns \ {c} : UNCHANGED Flow(d) /\ (Pending(d)' <=> Pending(d))
  BY <1>0, <1>1 DEF QueueType, Flow, Pending
<1>3. SUFFICES ASSUME ~gone'[c] PROVE Order(c)'
  BY <1>2, OrderOneAtATime
<1>4. Order(c)
  BY <1>1, <1>3 DEF OrderInv
<1>5. connected[c] /\ published > 0 /\ published \in Messages /\ q \in Seq(Handlers)
  BY <1>0, <1>1, <1>4 DEF Order, Pending, QueueType
<1>6. strand'[c] = Append(q, h)
  BY <1>0, <1>1, <1>5 DEF QueueType
<1>7. Signalled(c) = published - 1 /\ Signalled(c)' = published
  BY <1>1 DEF Signalled, Pending
<1>8. h \in Handlers /\ h.do = "send" /\ h.m = published
  BY <1>5, HandlerType
<1>9. Messages \subseteq Nat
  BY DEF Messages
<1>10. PICK m \in Messages, n \in Messages :
          /\ SentTo(Sent(c), m)
          /\ CarriesIn(q, "add", m, n)
          /\ CarriesIn(q, "send", n, published - 1)
  BY <1>4, <1>7 DEF Order, Pending
<1> HIDE DEF h
<1>11. DoesIn(Append(q, h), "wrote") = DoesIn(q, "wrote")
  BY <1>5, <1>8, QueuedOther
<1>12. Sent(c)' = Sent(c)
  BY <1>1, <1>6, <1>11, SentIs, SentIsNext DEF WaitingIn
<1>13. CarriesIn(Append(q, h), "add", m, n)
  BY <1>5, <1>8, <1>10, QueuedOther DEF CarriesIn
<1>14. CarriesIn(Append(q, h), "send", n, published)
  <2>1. n \in Int /\ published - 1 \in Int /\ h.m = (published - 1) + 1
    BY <1>5, <1>8, <1>9
  <2>2. CarriesIn(Append(q, h), "send", n, (published - 1) + 1)
    BY <1>5, <1>8, <1>10, <2>1, QueuedNext
  <2>3. (published - 1) + 1 = published
    BY <1>5, <1>9
  <2> QED
    BY <2>2, <2>3
<1> QED
  BY <1>1, <1>4, <1>5, <1>6, <1>7, <1>10, <1>12, <1>13, <1>14 DEF Order, Pending

LEMMA OrderSend ==
    ASSUME StreamInv, OrderInv, NEW c \in Conns, SendFrame(c) PROVE OrderInv'
<1>0. QueueType
  BY DEF StreamInv
<1> DEFINE h == Handler("add", Message(c))
<1> DEFINE q == strand[c]
<1> DEFINE t == Tail(q)
<1>1. /\ Runs(c, "send") /\ strand' = [strand EXCEPT ![c] = Append(t, h)]
      /\ UNCHANGED <<published, toCall, calling, gone, started, connected, outbox, wire>>
  BY DEF SendFrame, registering, slots, publisher
<1>2. \A d \in Conns \ {c} : UNCHANGED Flow(d) /\ (Pending(d)' <=> Pending(d))
  BY <1>0, <1>1 DEF QueueType, Flow, Pending
<1>3. SUFFICES ASSUME ~gone'[c] PROVE Order(c)'
  BY <1>2, OrderOneAtATime
<1>4. Order(c) /\ Signalled(c)' = Signalled(c)
  BY <1>1, <1>3 DEF OrderInv, Signalled, Pending
<1>5. /\ q \in Seq(Handlers) /\ q # <<>> /\ Head(q).do = "send" /\ Message(c) = Head(q).m
      /\ h \in Handlers /\ h.do = "add" /\ h.m = Message(c) /\ t \in Seq(Handlers)
  BY <1>1, RunsShape, HandlerType DEF Message
<1>6. strand'[c] = Append(t, h)
  BY <1>0, <1>1 DEF QueueType
<1>7. Messages \subseteq Int /\ Signalled(c) \in Int
  BY <1>0 DEF Messages, Signalled, Pending, QueueType
<1>8. PICK m \in Messages, n \in Messages :
          /\ SentTo(Sent(c), m)
          /\ CarriesIn(q, "add", m, n)
          /\ CarriesIn(q, "send", n, Signalled(c))
  BY <1>4 DEF Order, Pending
<1>9. Head(q).m = n + 1 /\ CarriesIn(t, "send", n + 1, Signalled(c))
  BY <1>5, <1>7, <1>8, TakenNext
<1>10. CarriesIn(t, "add", m, n)
  <2>1. Head(q).do # "add"
    BY <1>5
  <2> QED
    BY <1>5, <1>8, <2>1, TakenOther DEF CarriesIn
<1> HIDE DEF h, t
<1>11. CarriesIn(Append(t, h), "add", m, n + 1)
  <2>1. m \in Int /\ n \in Int /\ h.m = n + 1
    BY <1>5, <1>7, <1>9
  <2> QED
    BY <1>5, <1>10, <2>1, QueuedNext
<1>12. CarriesIn(Append(t, h), "send", n + 1, Signalled(c))
  <2>1. h.do # "send"
    BY <1>5
  <2> QED
    BY <1>5, <1>9, <2>1, QueuedOther DEF CarriesIn
<1>13. DoesIn(Append(t, h), "wrote") = {} <=> DoesIn(q, "wrote") = {}
  <2>1. Head(q).do # "wrote" /\ h.do # "wrote"
    BY <1>5
  <2>2. DoesIn(t, "wrote") = {} <=> DoesIn(q, "wrote") = {}
    BY <1>5, <2>1, TakenOther DEF t
  <2>3. DoesIn(Append(t, h), "wrote") = DoesIn(t, "wrote")
    BY <1>5, <2>1, QueuedOther
  <2> QED
    BY <2>2, <2>3
<1>14. Sent(c)' = Sent(c)
  BY <1>1, <1>6, <1>13, SentIs, SentIsNext DEF WaitingIn
<1>15. connected[c]
  <2>1. 1 \in DoesIn(q, "send")
    BY <1>5 DEF DoesIn
  <2> QED
    BY <1>4, <2>1 DEF Order, Pending
<1>16. n + 1 \in Messages
  BY <1>5, <1>9 DEF Handlers
<1> QED
  BY <1>1, <1>4, <1>6, <1>8, <1>11, <1>12, <1>14, <1>15, <1>16 DEF Order, Pending

LEMMA OrderAdd ==
    ASSUME StreamInv, OrderInv, RestType, NEW c \in Conns, AddToOutbox(c) PROVE OrderInv'
<1>0. QueueType /\ ConnInv(c) /\ wire \in [Conns -> Seq(Messages)]
  BY DEF StreamInv, RestType
<1> DEFINE x == Message(c)
<1> DEFINE q == strand[c]
<1> DEFINE t == Tail(q)
<1>1. /\ Runs(c, "add") /\ strand' = [strand EXCEPT ![c] = t]
      /\ outbox' = [outbox EXCEPT ![c] = Append(@, x)]
      /\ UNCHANGED <<published, toCall, calling, gone, started, connected, wire>>
  BY DEF AddToOutbox, registering, slots, publisher
<1>2. \A d \in Conns \ {c} : UNCHANGED Flow(d) /\ (Pending(d)' <=> Pending(d))
  BY <1>0, <1>1 DEF QueueType, Flow, Pending
<1>3. SUFFICES ASSUME ~gone'[c] PROVE Order(c)'
  BY <1>2, OrderOneAtATime
<1>4. Order(c) /\ Signalled(c)' = Signalled(c) /\ ~gone[c]
  BY <1>1, <1>3 DEF OrderInv, Signalled, Pending
<1>5. /\ q \in Seq(Handlers) /\ q # <<>> /\ Head(q).do = "add" /\ x = Head(q).m
      /\ x \in Messages /\ t \in Seq(Handlers) /\ started[c] \notin {"no", "listed"}
  BY <1>1, RunsShape DEF Message
<1>6. strand'[c] = t /\ outbox'[c] = Append(outbox[c], x)
  BY <1>0, <1>1 DEF QueueType
<1>7. Messages \subseteq Int /\ Signalled(c) \in Int
  BY <1>0 DEF Messages, Signalled, Pending, QueueType
<1>8. PICK m \in Messages, n \in Messages :
          /\ SentTo(Sent(c), m)
          /\ CarriesIn(q, "add", m, n)
          /\ CarriesIn(q, "send", n, Signalled(c))
  BY <1>4 DEF Order, Pending
<1>9. x = m + 1 /\ CarriesIn(t, "add", m + 1, n)
  <2>1. Head(q).m = m + 1 /\ CarriesIn(t, "add", m + 1, n)
    BY <1>5, <1>7, <1>8, TakenNext
  <2> QED
    BY <1>5, <2>1
<1>10. CarriesIn(t, "send", n, Signalled(c)) /\ (DoesIn(t, "wrote") = {} <=> DoesIn(q, "wrote") = {})
  <2>1. Head(q).do # "send" /\ Head(q).do # "wrote"
    BY <1>5
  <2> QED
    BY <1>5, <1>8, <2>1, TakenOther DEF CarriesIn
<1>11. DoesIn(q, "wrote") # {} => outbox[c] # <<>>
  <2>1. DoesIn(q, "wrote") \subseteq EndsIn(q)
    BY DEF DoesIn, EndsIn
  <2> QED
    BY <1>0, <2>1 DEF ConnInv, Needed
<1> HIDE DEF t, x
<1>12. /\ wire[c] \in Seq(Messages) /\ outbox[c] \in Seq(Messages)
       /\ WaitingIn(q, outbox[c]) \in Seq(Messages)
       /\ Sent(c) \in Seq(Messages) /\ Sent(c) # <<>>
  BY <1>0, <1>4, <1>5, SentShape, SentIs DEF Order, Pending, QueueType
<1>13. WaitingIn(t, Append(outbox[c], x)) = Append(WaitingIn(q, outbox[c]), x)
  <2>1. Append(outbox[c], x) # <<>>
    BY <1>5, <1>12, AppendShape
  <2>2. outbox[c] # <<>> => Tail(Append(outbox[c], x)) = Append(Tail(outbox[c]), x)
    BY <1>5, <1>12, Joins
  <2> QED
    BY <1>10, <1>11, <2>1, <2>2 DEF WaitingIn
<1>14. Sent(c)' = Append(Sent(c), x)
  <2>1. Sent(c)' = wire[c] \o WaitingIn(t, Append(outbox[c], x))
    BY <1>1, <1>6, SentIsNext
  <2>2. wire[c] \o Append(WaitingIn(q, outbox[c]), x) = Append(wire[c] \o WaitingIn(q, outbox[c]), x)
    BY <1>5, <1>12, Joins
  <2> QED
    BY <1>13, <2>1, <2>2, SentIs
<1>15. SentTo(Sent(c)', m + 1)
  BY <1>7, <1>8, <1>9, <1>12, <1>14, SentNext
<1>16. connected[c]
  <2>1. 1 \in DoesIn(q, "add")
    BY <1>5 DEF DoesIn
  <2> QED
    BY <1>4, <2>1 DEF Order, Pending
<1>17. Sent(c)' # <<>> /\ m + 1 \in Messages
  BY <1>5, <1>9, <1>12, <1>14, AppendProperties
<1> QED
  BY <1>1, <1>4, <1>5, <1>6, <1>8, <1>9, <1>10, <1>15, <1>16, <1>17 DEF Order, Pending

LEMMA OrderWritten ==
    ASSUME StreamInv, OrderInv, NEW c \in Conns, HandleWrite(c) PROVE OrderInv'
<1>0. QueueType
  BY DEF StreamInv
<1> DEFINE q == strand[c]
<1> DEFINE t == Tail(q)
<1>1. /\ Runs(c, "wrote") /\ strand' = [strand EXCEPT ![c] = t]
      /\ outbox' = [outbox EXCEPT ![c] = Popped(c)]
      /\ UNCHANGED <<published, toCall, calling, gone, started, connected, wire>>
  BY DEF HandleWrite, registering, slots, publisher
<1>2. \A d \in Conns \ {c} : UNCHANGED Flow(d) /\ (Pending(d)' <=> Pending(d))
  BY <1>0, <1>1 DEF QueueType, Flow, Pending
<1>3. SUFFICES ASSUME ~gone'[c] PROVE Order(c)'
  BY <1>2, OrderOneAtATime
<1>4. Order(c) /\ Signalled(c)' = Signalled(c)
  BY <1>1, <1>3 DEF OrderInv, Signalled, Pending
<1>5. q \in Seq(Handlers) /\ q # <<>> /\ Head(q).do = "wrote"
  BY <1>1, RunsShape
<1>6. EndsIn(t) = {} /\ outbox[c] # <<>> /\ Popped(c) = Tail(outbox[c])
  BY <1>1, EndOfWrite
<1>7. strand'[c] = t /\ outbox'[c] = Tail(outbox[c])
  BY <1>0, <1>1, <1>6 DEF QueueType
<1>8. DoesIn(q, "wrote") # {} /\ DoesIn(t, "wrote") = {}
  <2>1. 1 \in DoesIn(q, "wrote")
    BY <1>5 DEF DoesIn
  <2>2. DoesIn(t, "wrote") \subseteq EndsIn(t)
    BY DEF DoesIn, EndsIn
  <2> QED
    BY <1>6, <2>1, <2>2
<1>9. Sent(c)' = Sent(c)
  <2>1. WaitingIn(t, Tail(outbox[c])) = WaitingIn(q, outbox[c])
    BY <1>6, <1>8 DEF WaitingIn
  <2> QED
    BY <1>1, <1>7, <2>1, SentIs, SentIsNext
<1>10. \A do \in {"add", "send"} :
          /\ DoesIn(t, do) = {} <=> DoesIn(q, do) = {}
          /\ PicturesIn(t, do) = PicturesIn(q, do)
          /\ SortedIn(q, do) => SortedIn(t, do)
  <2> SUFFICES ASSUME NEW do \in {"add", "send"}
               PROVE  /\ DoesIn(t, do) = {} <=> DoesIn(q, do) = {}
                      /\ PicturesIn(t, do) = PicturesIn(q, do)
                      /\ SortedIn(q, do) => SortedIn(t, do)
    OBVIOUS
  <2>1. Head(q).do # do
    BY <1>5
  <2> QED
    BY <1>5, <2>1, TakenOther
<1>11. \A m, n : \A do \in {"add", "send"} : CarriesIn(q, do, m, n) => CarriesIn(t, do, m, n)
  BY <1>10 DEF CarriesIn
<1> HIDE DEF t
<1> QED
  BY <1>1, <1>4, <1>7, <1>9, <1>10, <1>11 DEF Order, Pending

LEMMA OrderWire ==
    ASSUME StreamInv, OrderInv, RestType, NEW c \in Conns, WriteCompletes(c) PROVE OrderInv'
<1>0. QueueType /\ ConnInv(c) /\ wire \in [Conns -> Seq(Messages)]
  BY DEF StreamInv, RestType
<1> DEFINE h == Handler("wrote", 0)
<1> DEFINE q == strand[c]
<1>1. /\ writes[c] # <<>>
      /\ wire' = IF Reachable(c) THEN [wire EXCEPT ![c] = Append(@, Head(writes[c]))] ELSE wire
      /\ strand' = [strand EXCEPT ![c] = Append(@, Handler(IF Reachable(c) THEN "wrote" ELSE "failed", 0))]
      /\ UNCHANGED <<published, toCall, calling, gone, started, connected, outbox>>
  BY DEF WriteCompletes, registering, slots, publisher
<1>2. \A d \in Conns \ {c} : UNCHANGED Flow(d) /\ (Pending(d)' <=> Pending(d))
  <2>1. \A d \in Conns \ {c} : strand'[d] = strand[d] /\ wire'[d] = wire[d]
    BY <1>0, <1>1 DEF QueueType
  <2> QED
    BY <1>1, <2>1 DEF Flow, Pending
<1>3. SUFFICES ASSUME ~gone'[c] PROVE Order(c)'
  BY <1>2, OrderOneAtATime
<1>4. Order(c) /\ Signalled(c)' = Signalled(c) /\ Reachable(c)
  BY <1>0, <1>1, <1>3 DEF OrderInv, Signalled, Pending, Reachable, ConnInv, Subscribed
<1>5. /\ q \in Seq(Handlers) /\ EndsIn(q) = {} /\ writes[c] \in Seq(Messages)
      /\ outbox[c] \in Seq(Messages) /\ outbox[c] # <<>> /\ Head(outbox[c]) = Head(writes[c])
      /\ wire[c] \in Seq(Messages)
  BY <1>0, <1>1 DEF QueueType, ConnInv, OnlyOne
<1>6. h \in Handlers /\ h.do = "wrote"
  BY HandlerType DEF Messages
<1>7. strand'[c] = Append(q, h) /\ wire'[c] = Append(wire[c], Head(outbox[c]))
  BY <1>0, <1>1, <1>4, <1>5 DEF QueueType
<1> HIDE DEF h
<1>8. DoesIn(q, "wrote") = {} /\ DoesIn(Append(q, h), "wrote") # {}
  <2>1. DoesIn(q, "wrote") \subseteq EndsIn(q)
    BY DEF DoesIn, EndsIn
  <2>2. Len(q) + 1 \in DoesIn(Append(q, h), "wrote")
    BY <1>5, <1>6, AppendShape DEF DoesIn
  <2> QED
    BY <1>5, <2>1, <2>2
<1>9. Sent(c)' = Sent(c)
  <2>1. WaitingIn(q, outbox[c]) = outbox[c] /\ WaitingIn(Append(q, h), outbox[c]) = Tail(outbox[c])
    BY <1>5, <1>8 DEF WaitingIn
  <2>2. Append(wire[c], Head(outbox[c])) \o Tail(outbox[c]) = wire[c] \o outbox[c]
    BY <1>5, Moves
  <2> QED
    BY <1>1, <1>7, <2>1, <2>2, SentIs, SentIsNext
<1>10. \A do \in {"add", "send"} :
          /\ DoesIn(Append(q, h), do) = DoesIn(q, do)
          /\ PicturesIn(Append(q, h), do) = PicturesIn(q, do)
          /\ SortedIn(q, do) => SortedIn(Append(q, h), do)
  BY <1>5, <1>6, QueuedOther
<1>11. \A m, n : \A do \in {"add", "send"} :
          CarriesIn(q, do, m, n) => CarriesIn(Append(q, h), do, m, n)
  BY <1>10 DEF CarriesIn
<1>12. started[c] \notin {"no", "listed"}
  BY <1>0, <1>1 DEF ConnInv, Fresh
<1> QED
  BY <1>1, <1>4, <1>7, <1>9, <1>10, <1>11, <1>12 DEF Order, Pending

LEMMA InitOrder == Init => OrderInv
<1> SUFFICES ASSUME Init, NEW c \in Conns PROVE Order(c)
  BY DEF OrderInv
<1>1. /\ strand[c] = <<>> /\ wire[c] = <<>> /\ outbox[c] = <<>> /\ started[c] = "no"
      /\ published = 0 /\ toCall = {} /\ calling = {}
  BY DEF Init
<1>2. \A do : DoesIn(strand[c], do) = {}
  BY <1>1 DEF DoesIn
<1>3. Sent(c) = <<>>
  <2>1. WaitingIn(strand[c], outbox[c]) = <<>>
    BY <1>1, <1>2 DEF WaitingIn
  <2>2. Sent(c) = wire[c] \o WaitingIn(strand[c], outbox[c])
    BY SentIs
  <2>3. <<>> \o <<>> = <<>>
    OBVIOUS
  <2> QED
    BY <1>1, <2>1, <2>2, <2>3
<1>4. SentTo(Sent(c), 0) /\ Len(Sent(c)) = 0
  BY <1>3 DEF SentTo
<1>5. \A do : CarriesIn(strand[c], do, 0, 0)
  BY <1>2 DEF CarriesIn, PicturesIn, SortedIn
<1>6. Signalled(c) = 0 /\ 0 \in Messages
  BY <1>1 DEF Signalled, Pending, Messages
<1> QED
  BY <1>1, <1>2, <1>4, <1>5, <1>6 DEF Order, Pending

LEMMA NextOrder == StreamInv /\ RestType /\ OrderInv /\ [Next]_vars => OrderInv'
<1> SUFFICES ASSUME StreamInv, RestType, OrderInv, [Next]_vars PROVE OrderInv'
  OBVIOUS
<1>1. ASSUME NEW c \in Conns, HandleWriteError(c) PROVE OrderInv'
  <2>1. Runs(c, "failed") /\ gone[c]
    BY <1>1, EndOfWrite DEF HandleWriteError, StreamInv, ConnInv, Subscribed
  <2>2. \A d \in Conns \ {c} : UNCHANGED Flow(d) /\ (Pending(d)' <=> Pending(d))
    BY <1>1 DEF HandleWriteError, StreamInv, QueueType, Flow, Pending, registering, publisher
  <2>3. gone'[c]
    BY <1>1, <2>1 DEF HandleWriteError
  <2> QED
    BY <2>2, <2>3, OrderOneAtATime
<1>2. ASSUME NEW c \in Conns, GoesAway(c) PROVE OrderInv'
  <2>1. \A d \in Conns \ {c} : UNCHANGED Flow(d) /\ (Pending(d)' <=> Pending(d))
    BY <1>2 DEF GoesAway, StreamInv, QueueType, Flow, Pending, registering, publisher, slots
  <2>2. gone'[c]
    BY <1>2 DEF GoesAway, StreamInv, QueueType
  <2> QED
    BY <2>1, <2>2, OrderOneAtATime
<1>3. ASSUME NEW c \in Conns, DeregisterErases(c) PROVE OrderInv'
  BY <1>3, OrderKeeps DEF DeregisterErases, OrderInv, Flow, Pending, publisher, slots
<1>4. CASE UNCHANGED vars
  BY <1>4, OrderKeeps DEF vars, OrderInv, Flow, Pending
<1> QED
  BY <1>1, <1>2, <1>3, <1>4, OrderPublish, OrderStart, OrderTest, OrderCall, OrderSend, OrderAdd,
     OrderWritten, OrderWire
     DEF Next, SignalStep, StrandStep

---------------------------------------------------------------------------
(* WorkRunsOut: what a handler that is queued adds to the work of its      *)
(* connection is what it takes away when it runs.                          *)

KindIn(q, kinds) == {i \in DOMAIN q : q[i].do \in kinds}
CountIn(q, kinds) == Cardinality(KindIn(q, kinds))
One(kinds, h) == IF h.do \in kinds THEN 1 ELSE 0

LEMMA CountType ==
    ASSUME NEW q \in Seq(Handlers), NEW kinds
    PROVE  IsFiniteSet(KindIn(q, kinds)) /\ CountIn(q, kinds) \in Nat
<1>1. IsFiniteSet(1 .. Len(q)) /\ KindIn(q, kinds) \in SUBSET (1 .. Len(q))
  BY FS_Interval DEF KindIn
<1>2. IsFiniteSet(KindIn(q, kinds))
  BY <1>1, FS_Subset
<1> QED
  BY <1>2, FS_CardinalityType DEF CountIn

LEMMA CountQueued ==
    ASSUME NEW q \in Seq(Handlers), NEW h \in Handlers, NEW kinds
    PROVE  CountIn(Append(q, h), kinds) = CountIn(q, kinds) + One(kinds, h)
<1> DEFINE r == Append(q, h)
<1>1. /\ DOMAIN r = 1 .. Len(q) + 1 /\ DOMAIN q = 1 .. Len(q) /\ Len(q) \in Nat
      /\ \A i \in DOMAIN q : r[i] = q[i]
      /\ r[Len(q) + 1] = h
  BY AppendShape
<1> HIDE DEF r
<1>2. IsFiniteSet(KindIn(q, kinds)) /\ CountIn(q, kinds) \in Nat
  BY CountType
<1>3. Len(q) + 1 \notin KindIn(q, kinds)
  BY <1>1 DEF KindIn
<1>4. CASE h.do \in kinds
  <2>1. KindIn(r, kinds) = KindIn(q, kinds) \cup {Len(q) + 1}
    BY ONLY <1>1, <1>4 DEF KindIn
  <2>2. Cardinality(KindIn(r, kinds)) = Cardinality(KindIn(q, kinds)) + 1
    BY <1>2, <1>3, <2>1, FS_AddElement
  <2> QED
    BY <1>4, <2>2 DEF CountIn, One, r
<1>5. CASE h.do \notin kinds
  <2>1. KindIn(r, kinds) = KindIn(q, kinds)
    BY ONLY <1>1, <1>5 DEF KindIn
  <2> QED
    BY <1>2, <1>5, <2>1 DEF CountIn, One, r
<1> QED
  BY <1>4, <1>5

LEMMA CountTaken ==
    ASSUME NEW q \in Seq(Handlers), q # <<>>, NEW kinds
    PROVE  CountIn(q, kinds) = CountIn(Tail(q), kinds) + One(kinds, Head(q))
<1> DEFINE r == Tail(q)
<1> DEFINE later == KindIn(q, kinds) \ {1}
<1>1. /\ DOMAIN r = 1 .. Len(q) - 1 /\ DOMAIN q = 1 .. Len(q) /\ Len(q) \in Nat
      /\ \A i \in 1 .. Len(q) - 1 : r[i] = q[i + 1]
      /\ Head(q) = q[1] /\ Len(q) >= 1 /\ r \in Seq(Handlers)
  BY TailShape
<1> HIDE DEF r
<1>2. IsFiniteSet(KindIn(r, kinds)) /\ CountIn(r, kinds) \in Nat
  BY <1>1, CountType
<1>3. ExistsBijection(KindIn(r, kinds), later)
  <2> DEFINE f == [i \in KindIn(r, kinds) |-> i + 1]
  <2>1. KindIn(r, kinds) = {i \in 1 .. Len(q) - 1 : i + 1 \in KindIn(q, kinds)}
    BY ONLY <1>1 DEF KindIn
  <2>2. KindIn(q, kinds) \subseteq 1 .. Len(q)
    BY <1>1 DEF KindIn
  <2>3. f \in [KindIn(r, kinds) -> later]
    BY <1>1, <2>1, <2>2
  <2>4. \A i, j \in KindIn(r, kinds) : f[i] = f[j] => i = j
    BY <1>1, <2>1
  <2>5. ASSUME NEW j \in later PROVE \E i \in KindIn(r, kinds) : f[i] = j
    <3>1. j - 1 \in KindIn(r, kinds)
      BY <1>1, <2>1, <2>2
    <3>2. f[j - 1] = j
      BY <2>2, <3>1
    <3> QED
      BY <3>1, <3>2
  <2> HIDE DEF f, later
  <2> QED
    BY <2>3, <2>4, <2>5 DEF ExistsBijection, Bijection, Injection, Surjection, IsInjective
<1>4. IsFiniteSet(later) /\ Cardinality(later) = CountIn(r, kinds)
  <2> HIDE DEF later
  <2> QED
    BY <1>2, <1>3, FS_Bijection DEF CountIn
<1>5. 1 \in KindIn(q, kinds) <=> Head(q).do \in kinds
  BY <1>1 DEF KindIn
<1>6. CASE Head(q).do \in kinds
  <2>1. KindIn(q, kinds) = later \cup {1} /\ 1 \notin later
    BY <1>5, <1>6
  <2> HIDE DEF later
  <2>2. Cardinality(KindIn(q, kinds)) = Cardinality(later) + 1
    BY <1>4, <2>1, FS_AddElement
  <2> QED
    BY <1>4, <1>6, <2>2 DEF CountIn, One, r
<1>7. CASE Head(q).do \notin kinds
  <2>1. KindIn(q, kinds) = later
    BY <1>5, <1>7
  <2> HIDE DEF later
  <2>2. CountIn(q, kinds) = CountIn(r, kinds)
    BY <1>4, <2>1 DEF CountIn
  <2> QED
    BY <1>2, <1>7, <2>2 DEF One, r
<1> QED
  BY <1>6, <1>7

\* The work that waits on a strand.
Parts(sends, adds, ends) == 6 * sends + 5 * adds + ends
Queue(q) == Parts(CountIn(q, {"send"}), CountIn(q, {"add"}), CountIn(q, {"wrote", "failed"}))
Weight(do) == IF do = "send" THEN 6 ELSE IF do = "add" THEN 5 ELSE 1

LEMMA WeightIs ==
    ASSUME NEW h \in Handlers
    PROVE  Parts(One({"send"}, h), One({"add"}, h), One({"wrote", "failed"}, h)) = Weight(h.do)
<1>1. h.do \in {"send", "add", "wrote", "failed"}
  BY DEF Handlers
<1>2. CASE h.do = "send"
  <2>1. One({"send"}, h) = 1 /\ One({"add"}, h) = 0 /\ One({"wrote", "failed"}, h) = 0 /\ Weight(h.do) = 6
    BY <1>2 DEF One, Weight
  <2> QED
    BY <2>1 DEF Parts
<1>3. CASE h.do = "add"
  <2>1. One({"send"}, h) = 0 /\ One({"add"}, h) = 1 /\ One({"wrote", "failed"}, h) = 0 /\ Weight(h.do) = 5
    BY <1>3 DEF One, Weight
  <2> QED
    BY <2>1 DEF Parts
<1>4. CASE h.do \in {"wrote", "failed"}
  <2>1. One({"send"}, h) = 0 /\ One({"add"}, h) = 0 /\ One({"wrote", "failed"}, h) = 1 /\ Weight(h.do) = 1
    BY <1>4 DEF One, Weight
  <2> QED
    BY <2>1 DEF Parts
<1> QED
  BY <1>1, <1>2, <1>3, <1>4

LEMMA QueueQueued ==
    ASSUME NEW q \in Seq(Handlers), NEW h \in Handlers
    PROVE  Queue(q) \in Nat /\ Queue(Append(q, h)) = Queue(q) + Weight(h.do)
<1> DEFINE a == CountIn(q, {"send"})
<1> DEFINE b == CountIn(q, {"add"})
<1> DEFINE c == CountIn(q, {"wrote", "failed"})
<1> DEFINE x == One({"send"}, h)
<1> DEFINE y == One({"add"}, h)
<1> DEFINE z == One({"wrote", "failed"}, h)
<1>1. a \in Nat /\ b \in Nat /\ c \in Nat /\ x \in Nat /\ y \in Nat /\ z \in Nat
  BY CountType DEF One
<1>2. Queue(q) = Parts(a, b, c) /\ Queue(Append(q, h)) = Parts(a + x, b + y, c + z)
  BY CountQueued DEF Queue
<1>3. Parts(x, y, z) = Weight(h.do)
  BY WeightIs
<1> HIDE DEF a, b, c, x, y, z
<1>4. Parts(a, b, c) \in Nat /\ Parts(a + x, b + y, c + z) = Parts(a, b, c) + Parts(x, y, z)
  BY <1>1 DEF Parts
<1> QED
  BY <1>2, <1>3, <1>4

LEMMA QueueTaken ==
    ASSUME NEW q \in Seq(Handlers), q # <<>>
    PROVE  Queue(Tail(q)) \in Nat /\ Queue(q) = Queue(Tail(q)) + Weight(Head(q).do)
<1> DEFINE a == CountIn(Tail(q), {"send"})
<1> DEFINE b == CountIn(Tail(q), {"add"})
<1> DEFINE c == CountIn(Tail(q), {"wrote", "failed"})
<1> DEFINE x == One({"send"}, Head(q))
<1> DEFINE y == One({"add"}, Head(q))
<1> DEFINE z == One({"wrote", "failed"}, Head(q))
<1>0. Tail(q) \in Seq(Handlers) /\ Head(q) \in Handlers
  BY TailShape
<1>1. a \in Nat /\ b \in Nat /\ c \in Nat /\ x \in Nat /\ y \in Nat /\ z \in Nat
  BY <1>0, CountType DEF One
<1>2. Queue(Tail(q)) = Parts(a, b, c) /\ Queue(q) = Parts(a + x, b + y, c + z)
  BY <1>0, CountTaken DEF Queue
<1>3. Parts(x, y, z) = Weight(Head(q).do)
  BY <1>0, WeightIs
<1> HIDE DEF a, b, c, x, y, z
<1>4. Parts(a, b, c) \in Nat /\ Parts(a + x, b + y, c + z) = Parts(a, b, c) + Parts(x, y, z)
  BY <1>1 DEF Parts
<1> QED
  BY <1>2, <1>3, <1>4

\* The work of a connection, with that of its strand as one part.
Search(c) == IF found[c] # 0 THEN 1 ELSE 0
Buffers(c) == 2 * Len(outbox[c]) + 2 * Len(writes[c])
Total(starts, calls, sends, adds, ends, kept, writing, finds) ==
    starts + calls + 6 * sends + 5 * adds + ends + 2 * kept + 2 * writing + finds

LEMMA WorkIs ==
    ASSUME NEW c
    PROVE  Work(c) = Total(ToStart(c), ToCall(c), CountIn(strand[c], {"send"}),
                           CountIn(strand[c], {"add"}), CountIn(strand[c], {"wrote", "failed"}),
                           Len(outbox[c]), Len(writes[c]), Search(c))
<1>1. /\ Does(c, "send") = KindIn(strand[c], {"send"})
      /\ Does(c, "add") = KindIn(strand[c], {"add"})
      /\ Finished(c) = KindIn(strand[c], {"wrote", "failed"})
  BY DEF Does, Finished, KindIn
<1> QED
  BY <1>1 DEF Work, CountIn, Search, Total

LEMMA WorkIsNext ==
    ASSUME NEW c
    PROVE  Work(c)' = Total(ToStart(c)', ToCall(c)', CountIn(strand'[c], {"send"}),
                            CountIn(strand'[c], {"add"}), CountIn(strand'[c], {"wrote", "failed"}),
                            Len(outbox'[c]), Len(writes'[c]), Search(c)')
<1>1. /\ Does(c, "send")' = KindIn(strand'[c], {"send"})
      /\ Does(c, "add")' = KindIn(strand'[c], {"add"})
      /\ Finished(c)' = KindIn(strand'[c], {"wrote", "failed"})
  BY DEF Does, Finished, KindIn
<1> QED
  BY <1>1 DEF Work, CountIn, Search, Total

Measured(c) ==
    /\ Work(c) = ToStart(c) + ToCall(c) + Queue(strand[c]) + Buffers(c) + Search(c)
    /\ ToStart(c) \in Nat /\ ToCall(c) \in Nat /\ Queue(strand[c]) \in Nat
    /\ Buffers(c) \in Nat /\ Search(c) \in Nat

LEMMA WorkMeasured == ASSUME QueueType, NEW c \in Conns PROVE Measured(c)
<1> DEFINE a == ToStart(c)
<1> DEFINE b == ToCall(c)
<1> DEFINE x == CountIn(strand[c], {"send"})
<1> DEFINE y == CountIn(strand[c], {"add"})
<1> DEFINE z == CountIn(strand[c], {"wrote", "failed"})
<1> DEFINE k == Len(outbox[c])
<1> DEFINE m == Len(writes[c])
<1> DEFINE s == Search(c)
<1>1. x \in Nat /\ y \in Nat /\ z \in Nat /\ k \in Nat /\ m \in Nat
  BY CountType DEF QueueType
<1>2. a \in Nat /\ b \in Nat /\ s \in Nat
  BY DEF ToStart, ToCall, PerPicture, Search, QueueType
<1>3. /\ Work(c) = Total(a, b, x, y, z, k, m, s)
      /\ Queue(strand[c]) = Parts(x, y, z) /\ Buffers(c) = 2 * k + 2 * m
  BY WorkIs DEF Queue, Buffers
<1> HIDE DEF a, b, x, y, z, k, m, s
<1>4. /\ Total(a, b, x, y, z, k, m, s) = a + b + Parts(x, y, z) + (2 * k + 2 * m) + s
      /\ Parts(x, y, z) \in Nat /\ 2 * k + 2 * m \in Nat
  BY <1>1, <1>2 DEF Total, Parts
<1> QED
  BY <1>2, <1>3, <1>4 DEF Measured, a, b, s

LEMMA WorkMeasuredNext == ASSUME QueueType', NEW c \in Conns PROVE Measured(c)'
<1> DEFINE a == ToStart(c)'
<1> DEFINE b == ToCall(c)'
<1> DEFINE x == CountIn(strand'[c], {"send"})
<1> DEFINE y == CountIn(strand'[c], {"add"})
<1> DEFINE z == CountIn(strand'[c], {"wrote", "failed"})
<1> DEFINE k == Len(outbox'[c])
<1> DEFINE m == Len(writes'[c])
<1> DEFINE s == Search(c)'
<1>1. x \in Nat /\ y \in Nat /\ z \in Nat /\ k \in Nat /\ m \in Nat
  BY CountType DEF QueueType
<1>2. a \in Nat /\ b \in Nat /\ s \in Nat
  BY DEF ToStart, ToCall, PerPicture, Search, QueueType
<1>3. /\ Work(c)' = Total(a, b, x, y, z, k, m, s)
      /\ Queue(strand'[c]) = Parts(x, y, z) /\ Buffers(c)' = 2 * k + 2 * m
  BY WorkIsNext DEF Queue, Buffers
<1> HIDE DEF a, b, x, y, z, k, m, s
<1>4. /\ Total(a, b, x, y, z, k, m, s) = a + b + Parts(x, y, z) + (2 * k + 2 * m) + s
      /\ Parts(x, y, z) \in Nat /\ 2 * k + 2 * m \in Nat
  BY <1>1, <1>2 DEF Total, Parts
<1> QED
  BY <1>2, <1>3, <1>4 DEF Measured, a, b, s

\* A step that leaves these alone leaves a connection the work it had.
Tasks(d) == <<started[d], d \in toCall, d \in calling, strand[d], found[d] # 0, outbox[d],
              writes[d]>>

LEMMA OthersWork ==
    ASSUME NEW d, UNCHANGED Tasks(d) PROVE Work(d)' = Work(d)
<1>1. /\ started'[d] = started[d] /\ (d \in toCall' <=> d \in toCall) /\ (d \in calling' <=> d \in calling)
      /\ strand'[d] = strand[d] /\ (found'[d] # 0 <=> found[d] # 0)
      /\ outbox'[d] = outbox[d] /\ writes'[d] = writes[d]
  BY DEF Tasks
<1>2. ToCall(d)' = ToCall(d) /\ Search(d)' = Search(d) /\ ToStart(d)' = ToStart(d)
  BY <1>1 DEF ToCall, PerPicture, Search, ToStart
<1> QED
  BY <1>1, <1>2, WorkIs, WorkIsNext

\* The connection that steps has less to do, the others have what they had.
Eases(c) ==
    /\ Work(c)' < Work(c) /\ published' = published
    /\ \A d \in Conns \ {c} : Work(d)' = Work(d)

\* What messages that are kept and written weigh.
Longer(i, j, c) == Len(outbox'[c]) = Len(outbox[c]) + i /\ Len(writes'[c]) = Len(writes[c]) + j
LEMMA MoreBuffered ==
    ASSUME NEW c, outbox[c] \in Seq(Messages), writes[c] \in Seq(Messages),
           NEW i \in Int, NEW j \in Int, Longer(i, j, c)
    PROVE  Buffers(c)' = Buffers(c) + 2 * i + 2 * j
<1> DEFINE k == Len(outbox[c])
<1> DEFINE m == Len(writes[c])
<1>1. k \in Nat /\ m \in Nat
  OBVIOUS
<1>2. Buffers(c) = 2 * k + 2 * m /\ Buffers(c)' = 2 * (k + i) + 2 * (m + j)
  BY DEF Buffers, Longer
<1> HIDE DEF k, m
<1> QED
  BY <1>1, <1>2

LEMMA StartEases ==
    ASSUME StreamInv, RestType, QueueType', NEW c \in Conns, StartStep(c) PROVE Eases(c)
<1> USE DEF registering, slots, publisher, Starts
<1>0. QueueType /\ Measured(c) /\ Measured(c)'
  BY WorkMeasured, WorkMeasuredNext DEF StreamInv
<1>1. published' = published /\ toCall' = toCall /\ calling' = calling /\ strand' = strand
  BY DEF StartStep, Register, SendHeaders, ConnectSlot, KeepSlot
<1>2. \A d \in Conns : found'[d] # 0 <=> found[d] # 0
  BY DEF StartStep, Register, SendHeaders, ConnectSlot, KeepSlot, RestType, Dangling
<1>3. \A d \in Conns \ {c} :
         started'[d] = started[d] /\ outbox'[d] = outbox[d] /\ writes'[d] = writes[d]
  BY <1>0 DEF StartStep, Register, SendHeaders, ConnectSlot, KeepSlot, QueueType
<1>4. \A d \in Conns \ {c} : Work(d)' = Work(d)
  BY <1>1, <1>2, <1>3, OthersWork DEF Tasks
<1>5. ToCall(c)' = ToCall(c) /\ Search(c)' = Search(c) /\ Queue(strand'[c]) = Queue(strand[c])
  BY <1>1, <1>2 DEF ToCall, PerPicture, Search
<1>6. CASE SendHeaders(c)
  <2>1. ToStart(c) = 7 /\ ToStart(c)' = 2
    BY <1>0, <1>6 DEF SendHeaders, ToStart, QueueType
  <2>2. outbox'[c] = Append(outbox[c], 0) /\ writes'[c] = Append(writes[c], 0)
        /\ outbox[c] \in Seq(Messages) /\ writes[c] \in Seq(Messages) /\ 0 \in Messages
    BY <1>0, <1>6 DEF SendHeaders, QueueType, Messages
  <2>3. Longer(1, 1, c)
    BY <2>2, AppendShape DEF Longer
  <2>4. Buffers(c)' = Buffers(c) + 2 * 1 + 2 * 1
    BY <2>2, <2>3, MoreBuffered
  <2> QED
    BY <1>0, <1>1, <1>4, <1>5, <2>1, <2>4 DEF Eases, Measured
<1>7. CASE Register(c) \/ ConnectSlot(c) \/ KeepSlot(c)
  <2>1. ToStart(c)' < ToStart(c)
    BY <1>0, <1>7 DEF Register, ConnectSlot, KeepSlot, ToStart, QueueType
  <2>2. Buffers(c)' = Buffers(c)
    BY <1>7 DEF Register, ConnectSlot, KeepSlot, Buffers
  <2> QED
    BY <1>0, <1>1, <1>4, <1>5, <2>1, <2>2 DEF Eases, Measured
<1> QED
  BY <1>6, <1>7 DEF StartStep

LEMMA TestEases ==
    ASSUME StreamInv, QueueType', NEW c \in Conns, TestSlot(c) PROVE Eases(c)
<1>0. Measured(c) /\ Measured(c)'
  BY WorkMeasured, WorkMeasuredNext DEF StreamInv
<1>1. /\ UNCHANGED <<published, started, strand, found, outbox, writes>>
      /\ c \in toCall /\ toCall' = toCall \ {c} /\ calling = {} /\ calling' \subseteq {c}
  BY DEF TestSlot, registering
<1>2. \A d \in Conns \ {c} : Work(d)' = Work(d)
  BY <1>1, OthersWork DEF Tasks
<1>3. ToCall(c) = 8 /\ ToCall(c)' <= 7
  BY <1>1 DEF ToCall, PerPicture
<1>4. /\ Search(c)' = Search(c) /\ ToStart(c)' = ToStart(c) /\ Buffers(c)' = Buffers(c)
      /\ Queue(strand'[c]) = Queue(strand[c]) /\ published' = published
  BY <1>1 DEF Search, ToStart, Buffers
<1> QED
  BY <1>0, <1>2, <1>3, <1>4 DEF Eases, Measured

LEMMA CallEases ==
    ASSUME StreamInv, QueueType', NEW c \in Conns, CallSlot(c) PROVE Eases(c)
<1>0. QueueType /\ Measured(c) /\ Measured(c)'
  BY WorkMeasured, WorkMeasuredNext DEF StreamInv
<1> DEFINE h == Handler("send", published)
<1>1. h \in Handlers /\ h.do = "send"
  BY <1>0, HandlerType DEF QueueType
<1> HIDE DEF h
<1>2. /\ strand' = [strand EXCEPT ![c] = Append(@, h)]
      /\ UNCHANGED <<published, toCall, started, found, outbox, writes>>
      /\ c \in calling /\ calling' = calling \ {c}
  BY DEF CallSlot, h, registering
<1>3. \A d \in Conns \ {c} : strand'[d] = strand[d] /\ (d \in calling' <=> d \in calling)
  BY <1>0, <1>2 DEF QueueType
<1>4. \A d \in Conns \ {c} : Work(d)' = Work(d)
  BY <1>2, <1>3, OthersWork DEF Tasks
<1>5. ToCall(c)' = ToCall(c) - 7 /\ Search(c)' = Search(c) /\ ToStart(c)' = ToStart(c)
      /\ Buffers(c)' = Buffers(c)
  BY <1>0, <1>2 DEF QueueType, ToCall, PerPicture, Search, ToStart, Buffers
<1>6. strand[c] \in Seq(Handlers) /\ strand'[c] = Append(strand[c], h)
  BY <1>0, <1>2 DEF QueueType
<1>7. Weight(h.do) = 6
  BY <1>1 DEF Weight
<1>8. Queue(strand'[c]) = Queue(strand[c]) + 6
  BY <1>1, <1>6, <1>7, QueueQueued
<1>9. published' = published
  BY <1>2
<1> QED
  BY <1>0, <1>4, <1>5, <1>8, <1>9 DEF Eases, Measured

LEMMA SendEases ==
    ASSUME StreamInv, QueueType', NEW c \in Conns, SendFrame(c) PROVE Eases(c)
<1>0. QueueType /\ Measured(c) /\ Measured(c)'
  BY WorkMeasured, WorkMeasuredNext DEF StreamInv
<1> DEFINE h == Handler("add", Message(c))
<1> DEFINE t == Tail(strand[c])
<1>1. /\ Runs(c, "send") /\ strand' = [strand EXCEPT ![c] = Append(t, h)]
      /\ UNCHANGED <<published, toCall, calling, started, found, outbox, writes>>
  BY DEF SendFrame, registering, publisher
<1>2. /\ strand[c] \in Seq(Handlers) /\ strand[c] # <<>> /\ Head(strand[c]).do = "send"
      /\ h \in Handlers /\ h.do = "add" /\ t \in Seq(Handlers)
  BY <1>1, RunsShape, HandlerType
<1>3. Weight("send") = 6 /\ Weight("add") = 5
  BY DEF Weight
<1>4. Queue(strand[c]) = Queue(t) + 6 /\ Queue(t) \in Nat
  BY <1>2, <1>3, QueueTaken
<1> HIDE DEF h, t
<1>5. Queue(strand'[c]) = Queue(t) + 5
  <2>1. strand'[c] = Append(t, h)
    BY <1>0, <1>1 DEF QueueType
  <2> QED
    BY <1>2, <1>3, <2>1, QueueQueued
<1>6. \A d \in Conns \ {c} : Work(d)' = Work(d)
  BY <1>0, <1>1, OthersWork DEF QueueType, Tasks
<1>7. /\ ToCall(c)' = ToCall(c) /\ Search(c)' = Search(c) /\ ToStart(c)' = ToStart(c)
      /\ Buffers(c)' = Buffers(c) /\ published' = published
  BY <1>1 DEF ToCall, PerPicture, Search, ToStart, Buffers
<1> QED
  BY <1>0, <1>4, <1>5, <1>6, <1>7 DEF Eases, Measured

LEMMA AddEases ==
    ASSUME StreamInv, QueueType', NEW c \in Conns, AddToOutbox(c) PROVE Eases(c)
<1>0. QueueType /\ Measured(c) /\ Measured(c)'
  BY WorkMeasured, WorkMeasuredNext DEF StreamInv
<1> DEFINE m == Message(c)
<1>1. /\ Runs(c, "add") /\ strand' = [strand EXCEPT ![c] = Tail(@)]
      /\ outbox' = [outbox EXCEPT ![c] = Append(@, m)]
      /\ writes' = IF outbox[c] = <<>> THEN [writes EXCEPT ![c] = Append(@, m)] ELSE writes
      /\ UNCHANGED <<published, toCall, calling, started, found>>
  BY DEF AddToOutbox, registering, publisher
<1>2. /\ strand[c] \in Seq(Handlers) /\ strand[c] # <<>> /\ Head(strand[c]).do = "add"
      /\ m \in Messages
  BY <1>1, RunsShape
<1> HIDE DEF m
<1>3. Weight("add") = 5
  BY DEF Weight
<1>4. Queue(strand[c]) = Queue(Tail(strand[c])) + 5
  BY <1>2, <1>3, QueueTaken
<1>5. Queue(strand'[c]) + 5 = Queue(strand[c])
  <2>1. strand'[c] = Tail(strand[c])
    BY <1>0, <1>1 DEF QueueType
  <2> QED
    BY <1>4, <2>1
<1>6. outbox[c] \in Seq(Messages) /\ writes[c] \in Seq(Messages)
  BY <1>0 DEF QueueType
<1>7. Buffers(c)' <= Buffers(c) + 4
  <2>1. outbox'[c] = Append(outbox[c], m)
        /\ writes'[c] = IF outbox[c] = <<>> THEN Append(writes[c], m) ELSE writes[c]
    BY <1>0, <1>1 DEF QueueType
  <2>2. Longer(1, 1, c) \/ Longer(1, 0, c)
    BY <1>2, <1>6, <2>1, AppendShape DEF Longer
  <2>3. Buffers(c)' = Buffers(c) + 2 * 1 + 2 * 1 \/ Buffers(c)' = Buffers(c) + 2 * 1 + 2 * 0
    BY <1>6, <2>2, MoreBuffered
  <2> QED
    BY <1>0, <2>3 DEF Measured
<1>8. \A d \in Conns \ {c} : Work(d)' = Work(d)
  BY <1>0, <1>1, OthersWork DEF QueueType, Tasks
<1>9. /\ ToCall(c)' = ToCall(c) /\ Search(c)' = Search(c) /\ ToStart(c)' = ToStart(c)
      /\ published' = published
  BY <1>1 DEF ToCall, PerPicture, Search, ToStart
<1> QED
  BY <1>0, <1>5, <1>7, <1>8, <1>9 DEF Eases, Measured

LEMMA WrittenEases ==
    ASSUME StreamInv, QueueType', NEW c \in Conns, HandleWrite(c) PROVE Eases(c)
<1>0. QueueType /\ Measured(c) /\ Measured(c)'
  BY WorkMeasured, WorkMeasuredNext DEF StreamInv
<1> DEFINE p == Popped(c)
<1>1. /\ Runs(c, "wrote") /\ strand' = [strand EXCEPT ![c] = Tail(@)]
      /\ outbox' = [outbox EXCEPT ![c] = p]
      /\ writes' = IF p = <<>> THEN writes ELSE [writes EXCEPT ![c] = Append(@, Head(p))]
      /\ UNCHANGED <<published, toCall, calling, started, found>>
  BY DEF HandleWrite, registering, publisher
<1>2. strand[c] \in Seq(Handlers) /\ strand[c] # <<>> /\ Head(strand[c]).do = "wrote"
  BY <1>1, RunsShape
<1>3. /\ outbox[c] # <<>> /\ p = Tail(outbox[c]) /\ (p # <<>> => Head(p) \in Messages)
      /\ outbox[c] \in Seq(Messages) /\ writes[c] \in Seq(Messages)
  BY <1>0, <1>1, EndOfWrite DEF QueueType
<1>4. Len(p) = Len(outbox[c]) - 1
  BY <1>3, TailShape
<1> HIDE DEF p
<1>5. Weight("wrote") = 1
  BY DEF Weight
<1>6. Queue(strand[c]) = Queue(Tail(strand[c])) + 1
  BY <1>2, <1>5, QueueTaken
<1>7. Queue(strand'[c]) + 1 = Queue(strand[c])
  <2>1. strand'[c] = Tail(strand[c])
    BY <1>0, <1>1 DEF QueueType
  <2> QED
    BY <1>6, <2>1
<1>8. Buffers(c)' <= Buffers(c)
  <2>1. outbox'[c] = p /\ writes'[c] = IF p = <<>> THEN writes[c] ELSE Append(writes[c], Head(p))
    BY <1>0, <1>1 DEF QueueType
  <2>2. Len(outbox[c]) \in Nat /\ Len(writes[c]) \in Nat
    BY <1>3
  <2>3. Len(outbox'[c]) = Len(outbox[c]) + (-1)
    BY <1>4, <2>1, <2>2
  <2>4. Len(writes'[c]) = Len(writes[c]) + 1 \/ Len(writes'[c]) = Len(writes[c]) + 0
    BY <1>3, <2>1, <2>2, AppendShape
  <2>5. Longer(-1, 1, c) \/ Longer(-1, 0, c)
    BY <2>3, <2>4 DEF Longer
  <2>6. Buffers(c)' = Buffers(c) + 2 * (-1) + 2 * 1 \/ Buffers(c)' = Buffers(c) + 2 * (-1) + 2 * 0
    BY <1>3, <2>5, MoreBuffered
  <2> QED
    BY <1>0, <2>6 DEF Measured
<1>9. \A d \in Conns \ {c} : Work(d)' = Work(d)
  BY <1>0, <1>1, OthersWork DEF QueueType, Tasks
<1>10. /\ ToCall(c)' = ToCall(c) /\ Search(c)' = Search(c) /\ ToStart(c)' = ToStart(c)
       /\ published' = published
  BY <1>1 DEF ToCall, PerPicture, Search, ToStart
<1> QED
  BY <1>0, <1>7, <1>8, <1>9, <1>10 DEF Eases, Measured

LEMMA FailedEases ==
    ASSUME StreamInv, RestType, QueueType', NEW c \in Conns, HandleWriteError(c) PROVE Eases(c)
<1>0. QueueType /\ Measured(c) /\ Measured(c)'
  BY WorkMeasured, WorkMeasuredNext DEF StreamInv
<1> DEFINE p == Popped(c)
<1> DEFINE n == IndexInList(c)
<1>1. /\ Runs(c, "failed") /\ strand' = [strand EXCEPT ![c] = Tail(@)]
      /\ outbox' = [outbox EXCEPT ![c] = p] /\ found' = [found EXCEPT ![c] = n]
      /\ UNCHANGED <<published, toCall, calling, started, writes>>
  BY DEF HandleWriteError, registering, publisher
<1>2. strand[c] \in Seq(Handlers) /\ strand[c] # <<>> /\ Head(strand[c]).do = "failed"
  BY <1>1, RunsShape
<1>3. /\ outbox[c] # <<>> /\ p = Tail(outbox[c])
      /\ outbox[c] \in Seq(Messages) /\ writes[c] \in Seq(Messages)
  BY <1>0, <1>1, EndOfWrite DEF QueueType
<1>4. Len(p) = Len(outbox[c]) - 1
  BY <1>3, TailShape
<1> HIDE DEF p, n
<1>5. Weight("failed") = 1
  BY DEF Weight
<1>6. Queue(strand[c]) = Queue(Tail(strand[c])) + 1
  BY <1>2, <1>5, QueueTaken
<1>7. Queue(strand'[c]) + 1 = Queue(strand[c])
  <2>1. strand'[c] = Tail(strand[c])
    BY <1>0, <1>1 DEF QueueType
  <2> QED
    BY <1>6, <2>1
<1>8. Buffers(c)' = Buffers(c) + 2 * (-1) + 2 * 0
  <2>1. outbox'[c] = p /\ writes'[c] = writes[c]
    BY <1>0, <1>1 DEF QueueType
  <2>2. Len(outbox[c]) \in Nat /\ Len(writes[c]) \in Nat
    BY <1>3
  <2>3. Longer(-1, 0, c)
    BY <1>4, <2>1, <2>2 DEF Longer
  <2> QED
    BY <1>3, <2>3, MoreBuffered
<1>9. \A d \in Conns \ {c} : Work(d)' = Work(d)
  <2>1. \A d \in Conns \ {c} :
           strand'[d] = strand[d] /\ outbox'[d] = outbox[d] /\ found'[d] = found[d]
    BY <1>0, <1>1 DEF QueueType, RestType
  <2> QED
    BY <1>1, <2>1, OthersWork DEF Tasks
<1>10. /\ ToCall(c)' = ToCall(c) /\ ToStart(c)' = ToStart(c) /\ published' = published
       /\ Search(c)' <= 1
  BY <1>1 DEF ToCall, PerPicture, Search, ToStart
<1> QED
  BY <1>0, <1>7, <1>8, <1>9, <1>10 DEF Eases, Measured

LEMMA ErasedEases ==
    ASSUME StreamInv, RestType, QueueType', NEW c \in Conns, DeregisterErases(c) PROVE Eases(c)
<1>0. Measured(c) /\ Measured(c)'
  BY WorkMeasured, WorkMeasuredNext DEF StreamInv
<1>1. /\ found[c] # 0 /\ found' = [found EXCEPT ![c] = 0]
      /\ UNCHANGED <<published, toCall, calling, started, strand, outbox, writes>>
  BY DEF DeregisterErases, publisher
<1>2. \A d \in Conns \ {c} : Work(d)' = Work(d)
  BY <1>1, OthersWork DEF RestType, Tasks
<1>3. /\ ToCall(c)' = ToCall(c) /\ ToStart(c)' = ToStart(c) /\ published' = published
      /\ Queue(strand'[c]) = Queue(strand[c]) /\ Buffers(c)' = Buffers(c)
      /\ Search(c) = 1 /\ Search(c)' = 0
  BY <1>1 DEF RestType, ToCall, PerPicture, Search, ToStart, Buffers
<1> QED
  BY <1>0, <1>2, <1>3 DEF Eases, Measured

LEMMA WireEases ==
    ASSUME StreamInv, QueueType', NEW c \in Conns, WriteCompletes(c) PROVE Eases(c)
<1>0. QueueType /\ Measured(c) /\ Measured(c)'
  BY WorkMeasured, WorkMeasuredNext DEF StreamInv
<1> DEFINE h == Handler(IF Reachable(c) THEN "wrote" ELSE "failed", 0)
<1>1. /\ writes[c] # <<>> /\ writes' = [writes EXCEPT ![c] = Tail(@)]
      /\ strand' = [strand EXCEPT ![c] = Append(@, h)]
      /\ UNCHANGED <<published, toCall, calling, started, found, outbox>>
  BY DEF WriteCompletes, registering, publisher
<1>2. h \in Handlers /\ Weight(h.do) = 1
  BY HandlerType DEF Messages, Weight
<1> HIDE DEF h
<1>3. /\ strand[c] \in Seq(Handlers) /\ strand'[c] = Append(strand[c], h)
      /\ outbox[c] \in Seq(Messages) /\ writes[c] \in Seq(Messages)
      /\ writes'[c] = Tail(writes[c]) /\ outbox'[c] = outbox[c]
  BY <1>0, <1>1 DEF QueueType
<1>4. Queue(strand'[c]) = Queue(strand[c]) + 1
  BY <1>2, <1>3, QueueQueued
<1>5. Buffers(c)' = Buffers(c) + 2 * 0 + 2 * (-1)
  <2>1. Len(writes'[c]) = Len(writes[c]) - 1
    BY <1>1, <1>3, TailShape
  <2>2. Len(outbox[c]) \in Nat /\ Len(writes[c]) \in Nat
    BY <1>3
  <2>3. Longer(0, -1, c)
    BY <1>3, <2>1, <2>2 DEF Longer
  <2> QED
    BY <1>3, <2>3, MoreBuffered
<1>6. \A d \in Conns \ {c} : Work(d)' = Work(d)
  BY <1>0, <1>1, OthersWork DEF QueueType, Tasks
<1>7. /\ ToCall(c)' = ToCall(c) /\ Search(c)' = Search(c) /\ ToStart(c)' = ToStart(c)
      /\ published' = published
  BY <1>1 DEF ToCall, PerPicture, Search, ToStart
<1> QED
  BY <1>0, <1>4, <1>5, <1>6, <1>7 DEF Eases, Measured

\* What ConnStep can be.
LEMMA ConnStepEases ==
    ASSUME StreamInv, RestType, QueueType', NEW c \in Conns, StartStep(c) \/ ConnStep(c)
    PROVE  Eases(c)
  BY StartEases, TestEases, CallEases, SendEases, AddEases, WrittenEases, FailedEases, ErasedEases, WireEases
     DEF ConnStep, SignalStep, StrandStep

Allowed(c) == Work(c)' <= Work(c) + PerPicture * (published' - published)

LEMMA PublishAllows ==
    ASSUME StreamInv, QueueType', Publish, NEW d \in Conns PROVE Allowed(d)
<1>0. QueueType /\ Measured(d) /\ Measured(d)'
  BY WorkMeasured, WorkMeasuredNext DEF StreamInv
<1>1. /\ published' = published + 1 /\ toCall = {} /\ calling = {} /\ calling' = {}
      /\ UNCHANGED <<started, strand, found, outbox, writes>>
  BY DEF Publish, registering
<1>2. ToCall(d) = 0 /\ ToCall(d)' <= 8
  BY <1>1 DEF ToCall, PerPicture
<1>3. /\ Search(d)' = Search(d) /\ ToStart(d)' = ToStart(d)
      /\ Queue(strand'[d]) = Queue(strand[d]) /\ Buffers(d)' = Buffers(d)
  BY <1>1 DEF Search, ToStart, Buffers
<1>4. Work(d)' <= Work(d) + 8
  BY <1>0, <1>2, <1>3 DEF Measured
<1>5. PerPicture * (published' - published) = 8
  BY <1>0, <1>1 DEF PerPicture, QueueType, Messages
<1> QED
  BY <1>4, <1>5 DEF Allowed

\* A step of the connection itself, of another one, of the publisher.
LEMMA NextRunsOut ==
    ASSUME StreamInv, RestType, QueueType', [Next]_vars, NEW d \in Conns
    PROVE  Allowed(d) /\ (ConnStep(d) => Work(d)' < Work(d))
<1>0. Work(d) \in Int /\ published \in Int
  BY WorkMeasured DEF StreamInv, QueueType, Messages, Measured
<1>1. ConnStep(d) => Work(d)' < Work(d)
  BY ConnStepEases DEF Eases
<1>2. ASSUME published' = published, Work(d)' <= Work(d) PROVE Allowed(d)
  <2>1. PerPicture * (published' - published) = 0
    BY <1>0, <1>2 DEF PerPicture
  <2> QED
    BY <1>0, <1>2, <2>1 DEF Allowed
<1>3. CASE Publish
  BY <1>1, <1>3, PublishAllows
<1>4. ASSUME NEW c \in Conns, Eases(c) PROVE Allowed(d)
  <2>1. CASE c = d
    <3>1. Work(d)' \in Int
      BY WorkMeasuredNext DEF Measured
    <3> QED
      BY <1>0, <1>2, <1>4, <2>1, <3>1 DEF Eases
  <2>2. CASE c # d
    BY <1>0, <1>2, <1>4, <2>2 DEF Eases
  <2> QED
    BY <2>1, <2>2
<1>5. ASSUME NEW c \in Conns, StartStep(c) \/ SignalStep(c) \/ StrandStep(c) \/ WriteCompletes(c)
      PROVE  Allowed(d)
  BY <1>4, <1>5, ConnStepEases DEF ConnStep
<1>6. ASSUME UNCHANGED <<published, toCall, calling, started, strand, found, outbox, writes>>
      PROVE  Allowed(d)
  <2>1. Work(d)' = Work(d)
    BY <1>6, OthersWork DEF Tasks
  <2>2. published' = published /\ Work(d)' <= Work(d)
    BY <1>0, <1>6, <2>1
  <2> QED
    BY <1>2, <2>2
<1>7. ASSUME NEW c \in Conns, GoesAway(c) PROVE Allowed(d)
  BY <1>6, <1>7 DEF GoesAway, publisher, registering
<1>8. CASE UNCHANGED vars
  BY <1>1, <1>6, <1>8 DEF vars
<1> QED
  BY <1>1, <1>3, <1>5, <1>7, <1>8 DEF Next

---------------------------------------------------------------------------
(* The theorems.                                                           *)

\* The variables keep their types; only a connection that has been closed
\* is looked for in the list (Stream.cpp, StreamConnection.cpp).
THEOREM TypeCorrect == Spec => []TypeOK
<1>1. Init => RestType
  BY DEF Init, RestType, Messages
<1>2. StreamInv /\ RestType => TypeOK
  BY DEF StreamInv, QueueType, RestType, TypeOK
<1> QED
  BY InitStreamInv, NextStreamInv, NextRestType, <1>1, <1>2, PTL DEF Spec

\* For any number of connections and pictures, a connection has one write at
\* a time, and an open one exactly when its outbox is not empty; the message
\* that is written stays at the head of the outbox, and with it the data of a
\* picture (but not what the other buffers of the write point to).
THEOREM OneWriteAtATime == Spec => []OneWrite
<1>1. StreamInv => OneWrite
  <2>1. \A c \in Conns : Finished(c) = EndsIn(strand[c])
    BY DEF Finished, Does, EndsIn
  <2> QED
    BY <2>1 DEF StreamInv, ConnInv, OnlyOne, Needed, OneEnd, OneWrite, Writing
<1> QED
  BY InitStreamInv, NextStreamInv, <1>1, PTL DEF Spec

\* A client that stays keeps its slot, whatever happens to other connections
\* and to the list.
THEOREM ClientsStaySubscribed == Spec => []StaysSubscribed
<1>1. StreamInv => StaysSubscribed
  BY DEF StreamInv, ConnInv, Subscribed, StaysSubscribed
<1> QED
  BY InitStreamInv, NextStreamInv, <1>1, PTL DEF Spec

\* Whatever the number of connections, pictures, failures and of handlers on
\* a strand, a client that stays is sent every picture, in order.
THEOREM PicturesStayInOrder == Spec => []InOrder
<1>1. Init => RestType
  BY DEF Init, RestType, Messages
<1>2. OrderInv => InOrder
  <2> SUFFICES ASSUME OrderInv, NEW c \in Conns, ~gone[c]
               PROVE  \E m, n \in Messages :
                         /\ SentUpTo(c, m)
                         /\ Carries(c, "add", m, n)
                         /\ Carries(c, "send", n, Signalled(c))
    BY DEF InOrder
  <2>1. PICK m \in Messages, n \in Messages :
           /\ SentTo(Sent(c), m)
           /\ CarriesIn(strand[c], "add", m, n)
           /\ CarriesIn(strand[c], "send", n, Signalled(c))
    BY DEF OrderInv, Order
  <2>2. SentUpTo(c, m)
    BY <2>1 DEF SentTo, SentUpTo
  <2>3. \A do, k, l : CarriesIn(strand[c], do, k, l) => Carries(c, do, k, l)
    BY DEF Carries, CarriesIn, Pictures, PicturesIn, SortedIn, Does, DoesIn
  <2> QED
    BY <2>1, <2>2, <2>3
<1> QED
  BY InitStreamInv, NextStreamInv, NextRestType, InitOrder, NextOrder, <1>1, <1>2, PTL DEF Spec

\* However many connections, pictures and handlers there are, a picture gives
\* a connection at most PerPicture steps to do and each step leaves it fewer:
\* no handler keeps itself or another going for ever.
THEOREM WorkIsFinite == Spec => WorkRunsOut
<1>1. Init => RestType
  BY DEF Init, RestType, Messages
<1>2. StreamInv /\ RestType /\ StreamInv' /\ [Next]_vars =>
         [\A c \in Conns :
            /\ Work(c)' <= Work(c) + PerPicture * (published' - published)
            /\ ConnStep(c) => Work(c)' < Work(c)]_vars
  BY NextRunsOut DEF Allowed, StreamInv
<1> QED
  BY InitStreamInv, NextStreamInv, NextRestType, <1>1, <1>2, PTL DEF Spec, WorkRunsOut
=============================================================================
