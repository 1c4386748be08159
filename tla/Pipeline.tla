------------------------------ MODULE Pipeline ------------------------------
(***************************************************************************)
(* A compiled pipeline while it runs (src/Pipeline/Pipeline.h, WorkWrapper.h)*)
(*                                                                         *)
(* Element 1 is the pump (TimedWorkWrapper); elements 2 .. N are           *)
(* WorkWrappers, each with a strand: a FIFO of posted data of which one    *)
(* handler runs at a time, on any free thread of the pool.  do_work calls  *)
(* the work, records its times in the element's queue of statistics and    *)
(* posts the datum to the next element.  collect_stats runs on a strand of *)
(* its own and pops those queues while the elements push to them.          *)
(***************************************************************************)
EXTENDS Integers, Sequences, FiniteSets

CONSTANTS
    N,            \* elements, the pump included
    NumThreads,   \* threads of the pool that run the io_service
    MayBlock,     \* elements whose work may never return
    MaxFrames,    \* bound: data the pump creates
    MaxToggles    \* bound: calls of pause()

ASSUME NAssumption == N \in Nat /\ N >= 2
ASSUME ThreadsAssumption == NumThreads \in Nat /\ MayBlock \subseteq 1 .. N
                            /\ Cardinality(MayBlock) < NumThreads
ASSUME BoundsAssumption == MaxFrames \in Nat /\ MaxToggles \in Nat

VARIABLES
    element_paused_, call, at, waits, mayWait, expired, aborted, toggles,
    terminated,   \* the pump and its owner, see TimedWorkWrapper
    paused_,      \* Pipeline::paused_
    posted,       \* posted[e]: data posted to the strand of element e
    phase,        \* phase[e]: where the handler of element e > 1 is
    holds,        \* holds[e]: the datum the handler of e works on, or 0
    done,         \* done[e]: the last datum element e has finished
    stats,        \* stats[e]: length of time_stats_[e]
    collector     \* collect_stats: where it is, its loop counter, its queue

Pump == INSTANCE TimedWorkWrapper WITH paused_ <- element_paused_
pumpVars == <<element_paused_, call, at, waits, mayWait, expired, aborted, toggles>>
flowVars == <<posted, phase, holds, done, stats>>
vars == <<pumpVars, terminated, paused_, flowVars, collector>>

Elements == 1 .. N
Workers == 2 .. N

\* Where the handler of an element is; the pump then re-arms its timer.
PhaseOf(e) == IF e = 1 THEN at["strand"] ELSE phase[e]

TypeOK ==
    /\ Pump!TypeOK
    /\ paused_ \in BOOLEAN
    /\ posted \in [Workers -> Seq(1 .. MaxFrames)]
    /\ phase \in [Workers -> {"idle", "work", "next"}] /\ phase[N] # "next"
    /\ holds \in [Elements -> 0 .. MaxFrames]
    /\ done \in [Elements -> 0 .. MaxFrames]
    /\ stats \in [Elements -> 0 .. MaxFrames]
    /\ collector \in [pc : {"off", "waiting", "queued", "test", "pop"},
                      i : 0 .. MaxFrames, e : Elements]

Init ==
    /\ Pump!Init
    /\ paused_ = FALSE
    /\ posted = [e \in Workers |-> <<>>]
    /\ phase = [e \in Workers |-> "idle"]
    /\ holds = [e \in Elements |-> 0]
    /\ done = [e \in Elements |-> 0]
    /\ stats = [e \in Elements |-> 0]
    /\ collector = [pc |-> "off", i |-> 0, e |-> 1]

---------------------------------------------------------------------------
(* Threads of the pool: one runs each handler that has begun.              *)

Collecting == collector.pc \in {"test", "pop"}
BusyThreads == Cardinality({e \in Elements : PhaseOf(e) # "idle"})
               + (IF Collecting THEN 1 ELSE 0)

\* Regression: the elements share one strand.
FreeThreadSharedStrand == \A e \in Elements : PhaseOf(e) = "idle"

FreeThread == BusyThreads < NumThreads

CollectorAt(pc, i, e) == collector' = [pc |-> pc, i |-> i, e |-> e]

---------------------------------------------------------------------------
(* The pump: its own steps, and what each means for the flow of data.      *)

PumpBegins ==
    /\ FreeThread /\ done[1] < MaxFrames
    /\ Pump!BeginWork
    /\ holds' = [holds EXCEPT ![1] = done[1] + 1]
    /\ UNCHANGED <<paused_, posted, phase, done, stats, collector>>

PumpFinishes ==
    /\ Pump!EndWork
    /\ done' = [done EXCEPT ![1] = holds[1]]
    /\ stats' = [stats EXCEPT ![1] = @ + 1]
    /\ UNCHANGED <<paused_, posted, phase, holds, collector>>

PumpPosts ==
    /\ Pump!CallNext
    /\ posted' = [posted EXCEPT ![2] = Append(@, holds[1])]
    /\ holds' = [holds EXCEPT ![1] = 0]
    /\ UNCHANGED <<paused_, phase, done, stats, collector>>

\* Steps of the pump and of its owner that move no data.
PumpOnly ==
    /\ \/ FreeThread /\ Pump!HandleAborted
       \/ Pump!TimerStep("strand")
       \/ Pump!TimerStep("owner")
       \/ Pump!Expire
       \/ Pump!TogglePause
    /\ UNCHANGED <<paused_, flowVars, collector>>

\* Pipeline::start arms the statistics timer, Pipeline::pause flips paused_.
OwnerReturns ==
    /\ Pump!Return
    /\ IF call = "start"
         THEN CollectorAt("waiting", 0, 1) /\ UNCHANGED paused_
         ELSE paused_' = ~paused_ /\ UNCHANGED collector
    /\ UNCHANGED flowVars

---------------------------------------------------------------------------
(* WorkWrapper::do_work on the strand of element e > 1.                    *)

\* Regression: data are posted to the io_service and not to the strand, so
\* any of those waiting may be next.
BeginAny(e) ==
    /\ ~terminated /\ FreeThread
    /\ phase[e] = "idle"
    /\ \E i \in DOMAIN posted[e] :
          /\ holds' = [holds EXCEPT ![e] = posted[e][i]]
          /\ posted' = [posted EXCEPT ![e] = SubSeq(@, 1, i - 1) \o SubSeq(@, i + 1, Len(@))]
    /\ phase' = [phase EXCEPT ![e] = "work"]
    /\ UNCHANGED <<pumpVars, terminated, paused_, done, stats, collector>>

Begin(e) ==
    /\ ~terminated /\ FreeThread
    /\ phase[e] = "idle" /\ posted[e] # <<>>
    /\ holds' = [holds EXCEPT ![e] = Head(posted[e])]
    /\ posted' = [posted EXCEPT ![e] = Tail(@)]
    /\ phase' = [phase EXCEPT ![e] = "work"]
    /\ UNCHANGED <<pumpVars, terminated, paused_, done, stats, collector>>

\* Regression: an element without a successor returns before it records its
\* times.
FinishRecordsWithNext(e) ==
    /\ ~terminated /\ phase[e] = "work"
    /\ done' = [done EXCEPT ![e] = holds[e]]
    /\ stats' = IF e < N THEN [stats EXCEPT ![e] = @ + 1] ELSE stats
    /\ phase' = [phase EXCEPT ![e] = IF e < N THEN "next" ELSE "idle"]
    /\ holds' = IF e < N THEN holds ELSE [holds EXCEPT ![e] = 0]
    /\ UNCHANGED <<pumpVars, terminated, paused_, posted, collector>>

\* Regression: every element, the last one too, goes on to call next_.
FinishWithoutTest(e) ==
    /\ ~terminated /\ phase[e] = "work"
    /\ done' = [done EXCEPT ![e] = holds[e]]
    /\ stats' = [stats EXCEPT ![e] = @ + 1]
    /\ phase' = [phase EXCEPT ![e] = "next"]
    /\ UNCHANGED <<pumpVars, terminated, paused_, posted, holds, collector>>

\* The work returns, its times are pushed; the last element has no next_.
Finish(e) ==
    /\ ~terminated /\ phase[e] = "work"
    /\ done' = [done EXCEPT ![e] = holds[e]]
    /\ stats' = [stats EXCEPT ![e] = @ + 1]
    /\ phase' = [phase EXCEPT ![e] = IF e < N THEN "next" ELSE "idle"]
    /\ holds' = IF e < N THEN holds ELSE [holds EXCEPT ![e] = 0]
    /\ UNCHANGED <<pumpVars, terminated, paused_, posted, collector>>

\* Regression: a datum is dropped when the next element is behind.
PostUnlessBehind(e) ==
    /\ ~terminated /\ phase[e] = "next"
    /\ posted' = IF posted[e + 1] = <<>>
                   THEN [posted EXCEPT ![e + 1] = Append(@, holds[e])] ELSE posted
    /\ phase' = [phase EXCEPT ![e] = "idle"]
    /\ holds' = [holds EXCEPT ![e] = 0]
    /\ UNCHANGED <<pumpVars, terminated, paused_, done, stats, collector>>

\* next_(data): schedule_work of the following element.
Post(e) ==
    /\ ~terminated /\ phase[e] = "next"
    /\ posted' = [posted EXCEPT ![e + 1] = Append(@, holds[e])]
    /\ phase' = [phase EXCEPT ![e] = "idle"]
    /\ holds' = [holds EXCEPT ![e] = 0]
    /\ UNCHANGED <<pumpVars, terminated, paused_, done, stats, collector>>

\* The work of an element throws; nothing catches it on a pool thread.
Throws(e) ==
    /\ PhaseOf(e) = "work"
    /\ Pump!Throws
    /\ UNCHANGED <<paused_, flowVars, collector>>

---------------------------------------------------------------------------
(* collect_stats: while i < time_stats_.back()->size(), pop one entry of   *)
(* every queue.  The test and each pop are separate accesses.              *)

CollectorOnly == UNCHANGED <<pumpVars, terminated, paused_, posted, phase, holds, done>>

StatsTimerExpires ==
    /\ ~terminated /\ collector.pc = "waiting"
    /\ CollectorAt("queued", 0, 1)
    /\ CollectorOnly /\ UNCHANGED stats

CollectBegins ==
    /\ ~terminated /\ FreeThread /\ collector.pc = "queued"
    /\ CollectorAt("test", 0, 1)
    /\ CollectorOnly /\ UNCHANGED stats

\* Regression: the loop is bounded by the queue of the first element.
CollectTestsFront ==
    /\ ~terminated /\ collector.pc = "test"
    /\ IF collector.i < stats[1] THEN CollectorAt("pop", collector.i, 1)
                                 ELSE CollectorAt("waiting", 0, 1)
    /\ CollectorOnly /\ UNCHANGED stats

CollectTests ==
    /\ ~terminated /\ collector.pc = "test"
    /\ IF collector.i < stats[N] THEN CollectorAt("pop", collector.i, 1)
                                 ELSE CollectorAt("waiting", 0, 1)
    /\ CollectorOnly /\ UNCHANGED stats

CollectPops ==
    /\ ~terminated /\ collector.pc = "pop"
    /\ stats' = [stats EXCEPT ![collector.e] = @ - 1]
    /\ IF collector.e < N THEN CollectorAt("pop", collector.i, collector.e + 1)
                          ELSE CollectorAt("test", collector.i + 1, 1)
    /\ CollectorOnly

---------------------------------------------------------------------------
WorkerStep(e) == Begin(e) \/ Finish(e) \/ (e < N /\ Post(e))
PumpStep == PumpBegins \/ PumpFinishes \/ PumpPosts \/ PumpOnly \/ OwnerReturns
CollectorStep == StatsTimerExpires \/ CollectBegins \/ CollectTests \/ CollectPops

Next == \/ PumpStep
        \/ \E e \in Workers : WorkerStep(e)
        \/ \E e \in Elements : Throws(e)
        \/ CollectorStep

\* asio's queue of ready handlers is first in first out: a handler that is
\* ready again and again while threads are free is run (SF).  A handler that
\* runs goes on, but for the work of the elements in MayBlock.
Fairness ==
    /\ \A e \in Workers : SF_vars(Begin(e)) /\ WF_vars(e < N /\ Post(e))
    /\ \A e \in Workers \ MayBlock : WF_vars(Finish(e))
    /\ WF_vars(PumpPosts) /\ WF_vars(Pump!TimerStep("strand") /\ PumpOnly)
    /\ 1 \notin MayBlock => WF_vars(PumpFinishes)
    /\ WF_vars(CollectTests \/ CollectPops)

Spec == Init /\ [][Next]_vars
FairSpec == Spec /\ Fairness

---------------------------------------------------------------------------
(* Data between two elements: in the hands of element e, waiting for it,   *)
(* in the hands of the element before on their way to it.                  *)
InTransit(e) ==
    (IF PhaseOf(e) = "work" THEN <<holds[e]>> ELSE <<>>)
    \o posted[e]
    \o (IF PhaseOf(e - 1) = "next" THEN <<holds[e - 1]>> ELSE <<>>)

\* Every datum that the element before has finished and element e has not is
\* in transit, once and in order: the strands lose, copy and reorder nothing
\* however the threads interleave (WorkWrapper::do_work, schedule_work).
NoneLostNoneReordered ==
    \A e \in Workers :
        InTransit(e) = [i \in 1 .. done[e - 1] - done[e] |-> done[e] + i]

\* collect_stats never pops an empty queue, although the elements push while
\* it loops: an element records its times before it passes a datum on, so the
\* last queue is the shortest (Pipeline::collect_stats, WorkWrapper::do_work).
PopSafe == collector.pc = "pop" => stats[collector.e] > 0

\* The entries a row of statistics is made of belong to one datum: as many
\* entries have been popped from every queue.
RowsAligned ==
    \A e \in Elements :
        done[e] - stats[e] = done[N] - stats[N]
             + (IF collector.pc = "pop" /\ e < collector.e THEN 1 ELSE 0)

\* Pipeline.h, first paragraph: each datum is processed by each step, in order.
Promise == INSTANCE Conveyor
RefinesConveyor == Promise!Spec

\* A handler that is ready gets a thread: one is free, or will be, since not
\* only works that may never return are under way.
ThreadForReady ==
    \/ FreeThread
    \/ Collecting
    \/ \E d \in Elements : PhaseOf(d) # "idle" /\ (PhaseOf(d) = "work" => d \notin MayBlock)

\* An element that is behind the one before it is never forgotten, whatever
\* blocks: it runs, or its datum is being posted to it, or the datum is in its
\* strand and there is a thread for it (WorkWrapper::schedule_work, do_work,
\* the pool of main).
BehindIsServed ==
    \A e \in Workers : done[e] < done[e - 1] =>
        \/ PhaseOf(e) # "idle"
        \/ PhaseOf(e - 1) = "next"
        \/ posted[e] # <<>> /\ ThreadForReady

\* "any element that blocks doesn't hold up other elements that could do
\* work": whatever blocks elsewhere, an element whose own work returns
\* finishes every datum the element before it has finished.
KeepsUp ==
    \A e \in Workers \ MayBlock : \A n \in 1 .. MaxFrames :
        done[e - 1] >= n ~> done[e] >= n \/ terminated
=============================================================================
