---------------------- MODULE TimedWorkWrapper_proofs ----------------------
(* Proofs about the data pump, for every bound on the calls of pause().    *)
EXTENDS TimedWorkWrapper, TLAPS

(***************************************************************************)
(* TypeOK and the places a thread may be in follow one another only if     *)
(* "owner is inside a call" and "owner is not idle" are kept together.     *)
(***************************************************************************)
CallShape ==
    /\ call = "none" <=> at["owner"] = "idle"
    /\ at["owner"] \in {"idle", "cancel", "clear", "flag", "wait", "return"}
    /\ call = "pause" => at["owner"] \in {"cancel", "clear", "return"}
    /\ at["strand"] \in {"idle", "work", "next", "cancel", "clear", "flag", "wait"}

\* A start or resume that is about to return has armed the timer.
Armed == call \in {"start", "resume"} /\ at["owner"] = "return" => Live

\* paused_ between calls, and the call in progress, are the parity of the
\* calls made so far.
Parity ==
    /\ call = "none" => (paused_ <=> toggles % 2 = 1)
    /\ call = "pause" => toggles % 2 = 1
    /\ call = "resume" => toggles % 2 = 0
    /\ call = "start" => toggles = 0

IInv == TypeOK /\ CallShape /\ PumpAlive /\ Armed /\ Parity /\ HandlersBounded

USE MaxTogglesAssumption

LEMMA InitIInv == Init => IInv
<1> SUFFICES ASSUME Init PROVE IInv
  OBVIOUS
<1> USE DEF Init, Threads
<1>1. TypeOK
  <2>1. at \in [Threads -> Places]
    BY DEF Places
  <2>2. toggles \in 0 .. MaxToggles
    OBVIOUS
  <2> QED
    BY <2>1, <2>2 DEF TypeOK, Calls
<1>2. CallShape
  BY DEF CallShape
<1>3. PumpAlive /\ Armed
  BY DEF PumpAlive, Armed
<1>4. Parity
  BY DEF Parity
<1>5. HandlersBounded
  BY DEF HandlersBounded, Outstanding, OwnerStarting, Busy
<1> QED
  BY <1>1, <1>2, <1>3, <1>4, <1>5 DEF IInv

LEMMA NextIInv == IInv /\ [Next]_vars => IInv'
<1> SUFFICES ASSUME IInv, [Next]_vars PROVE IInv'
  OBVIOUS
<1> USE DEF IInv, TypeOK, CallShape, PumpAlive, Armed, Parity, HandlersBounded,
            Live, Busy, Outstanding, OwnerStarting, Threads, Calls, Places,
            Goto, Running, ownerVars, timerVars
<1>1. CASE BeginWork
  BY <1>1 DEF BeginWork
<1>2. CASE EndWork
  BY <1>2 DEF EndWork
<1>3. CASE CallNext
  BY <1>3 DEF CallNext
<1>4. CASE Throws
  BY <1>4 DEF Throws
<1>5. CASE HandleAborted
  BY <1>5 DEF HandleAborted
<1>6. ASSUME NEW t \in Threads, CancelWaits(t) PROVE IInv'
  <2> USE <1>6 DEF CancelWaits, AfterCancel
  <2>1. TypeOK'
    OBVIOUS
  <2>2. CallShape'
    OBVIOUS
  <2>3. PumpAlive'
    OBVIOUS
  <2>4. Armed'
    OBVIOUS
  <2>5. Parity'
    OBVIOUS
  <2>6. HandlersBounded'
    OBVIOUS
  <2> QED
    BY <2>1, <2>2, <2>3, <2>4, <2>5, <2>6
<1>7. ASSUME NEW t \in Threads, ClearFlag(t) PROVE IInv'
  BY <1>7 DEF ClearFlag, AfterCancel
<1>8. ASSUME NEW t \in Threads, SetFlag(t) PROVE IInv'
  BY <1>8 DEF SetFlag
<1>9. ASSUME NEW t \in Threads, Schedule(t) PROVE IInv'
  <2> USE <1>9 DEF Schedule
  <2>1. TypeOK'
    OBVIOUS
  <2>2. CallShape'
    OBVIOUS
  <2>3. PumpAlive'
    OBVIOUS
  <2>4. Armed'
    OBVIOUS
  <2>5. Parity'
    OBVIOUS
  <2>6. HandlersBounded'
    <3>1. CASE t = "strand"
      <4>1. Busy /\ ~Busy' /\ (OwnerStarting' <=> OwnerStarting)
        BY <3>1
      <4>2. Outstanding' = Outstanding
        BY <3>1, <4>1
      <4> QED
        BY <4>1, <4>2
    <3>2. CASE t = "owner"
      <4>1. (Busy' <=> Busy) /\ OwnerStarting /\ ~OwnerStarting'
        BY <3>2
      <4>2. Outstanding' = Outstanding + 1
        BY <3>2, <4>1
      <4> QED
        BY <4>1, <4>2
    <3> QED
      BY <3>1, <3>2
  <2> QED
    BY <2>1, <2>2, <2>3, <2>4, <2>5, <2>6
<1>10. CASE Expire
  BY <1>10 DEF Expire
<1>11. CASE Return
  <2> USE <1>11 DEF Return
  <2>1. TypeOK'
    OBVIOUS
  <2>2. CallShape'
    OBVIOUS
  <2>3. PumpAlive'
    OBVIOUS
  <2>4. Armed'
    OBVIOUS
  <2>5. Parity'
    <3>1. call \in {"start", "pause", "resume"} /\ call' = "none" /\ toggles' = toggles
      OBVIOUS
    <3>2. paused_' <=> call = "pause"
      BY Zenon
    <3>3. toggles % 2 = 1 <=> call = "pause"
      BY <3>1
    <3> QED
      BY <3>1, <3>2, <3>3 DEF Parity
  <2>6. HandlersBounded'
    OBVIOUS
  <2> QED
    BY <2>1, <2>2, <2>3, <2>4, <2>5, <2>6
<1>12. CASE TogglePause
  BY <1>12 DEF TogglePause
<1>13. CASE UNCHANGED vars
  BY <1>13 DEF vars
<1> QED
  BY <1>1, <1>2, <1>3, <1>4, <1>5, <1>6, <1>7, <1>8, <1>9, <1>10, <1>11, <1>12, <1>13
     DEF Next, StrandStep, OwnerStep, TimerStep

---------------------------------------------------------------------------
(* The types, and the two safety invariants of the pump.                   *)

\* The variables of the pump keep their types (TimedWorkWrapper.h).
THEOREM TypeCorrect == Spec => []TypeOK
<1>1. IInv => TypeOK
  BY DEF IInv
<1> QED
  BY InitIInv, NextIInv, <1>1, PTL DEF Spec

\* Between calls a pump that is not paused has a tick outstanding, for any
\* number of calls of pause() and any interleaving with the strand.
THEOREM PumpStaysAlive == Spec => []PumpAlive
<1>1. IInv => PumpAlive
  BY DEF IInv
<1> QED
  BY InitIInv, NextIInv, <1>1, PTL DEF Spec

\* Handlers of the pump never outnumber one per start or resume.
THEOREM HandlersStayBounded == Spec => []HandlersBounded
<1>1. IInv => HandlersBounded
  BY DEF IInv
<1> QED
  BY InitIInv, NextIInv, <1>1, PTL DEF Spec

\* What an aborted wait leaves behind cannot wake a pump at rest: only the
\* owner's next call can.
THEOREM RestStays == Spec => RestIsStable
<1>1. ASSUME IInv, [Next]_vars, AtRest, call' = "none" PROVE AtRest'
  <2> USE <1>1 DEF IInv, TypeOK, CallShape, AtRest, Busy, Threads, Calls, Places,
                   Goto, Running, ownerVars, timerVars
  <2>1. ~BeginWork /\ ~EndWork /\ ~CallNext /\ ~Expire
    <3>1. ~(expired > 0) /\ ~(waits > 0)
      OBVIOUS
    <3>2. ~BeginWork /\ ~Expire
      BY <3>1, Zenon DEF BeginWork, Expire
    <3>3. ~EndWork /\ ~CallNext
      BY DEF EndWork, CallNext
    <3> QED
      BY <3>2, <3>3
  <2>2. ASSUME NEW t \in Threads PROVE ~TimerStep(t)
    BY DEF TimerStep, CancelWaits, ClearFlag, SetFlag, Schedule
  <2>3. ~Return /\ ~TogglePause
    BY DEF Return, TogglePause
  <2>4. CASE HandleAborted
    BY <2>4 DEF HandleAborted
  <2>5. CASE Throws
    BY <2>5 DEF Throws
  <2>6. CASE UNCHANGED vars
    BY <2>6 DEF vars
  <2> QED
    BY <2>1, <2>2, <2>3, <2>4, <2>5, <2>6 DEF Next, StrandStep, OwnerStep
<1>2. IInv /\ [Next]_vars => [AtRest /\ call' = "none" => AtRest']_vars
  BY <1>1
<1> QED
  BY InitIInv, NextIInv, <1>2, PTL DEF Spec, RestIsStable
=============================================================================
