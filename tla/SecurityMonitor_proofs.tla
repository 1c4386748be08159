----------------------- MODULE SecurityMonitor_proofs -----------------------
(* Proofs about the life of the process, for every number of calls of      *)
(* pause() and every set of web socket connections.                        *)
EXTENDS SecurityMonitor, WellFoundedInduction, TLAPS

PumpProofs == INSTANCE TimedWorkWrapper_proofs WITH paused_ <- element_paused_

USE MaxTogglesAssumption, ConnectionsAssumption

---------------------------------------------------------------------------
(* The process runs the pump as the pump's own module says.                *)

LEMMA PumpNext == [Next]_vars => [Pump!Next]_(Pump!vars)
<1> SUFFICES ASSUME [Next]_vars PROVE [Pump!Next]_(Pump!vars)
  OBVIOUS
<1> USE DEF Pump!Next, Pump!vars, pumpVars, sceneVars
<1>1. CASE StartStep
  BY <1>1 DEF StartStep, CameraOpens, CameraFails, Started, GuiStarts, Pump!OwnerStep
<1>2. CASE KeyStep
  BY <1>2 DEF KeyStep, PressP, PressEnter
<1>3. CASE MainInPump \/ Toggled \/ Stopped
  BY <1>3 DEF MainInPump, Toggled, Stopped, Pump!OwnerStep
<1>4. CASE Drained \/ GuiStep \/ IoStop \/ WaitOver \/ ScenesDestroyed \/ Exit
  BY <1>4 DEF Drained, GuiStep, GuiShutdown, Closes, GuiIsShut, CloseFails, IoStop,
              WaitOver, ScenesDestroyed, Exit
<1>5. CASE DestructorThrows \/ Crashes
  <2>1. ~terminated /\ Terminates
    BY <1>5 DEF DestructorThrows, Crashes
  <2>2. Pump!Throws
    BY <2>1, Zenon DEF Terminates, Pump!Throws, Pump!Running, Pump!ownerVars, Pump!timerVars
  <2> QED
    BY <2>2
<1>6. CASE PoolStep
  BY <1>6 DEF PoolStep, PoolBegins, PoolWorks, PoolGoesOn, PoolServes, Pump!StrandStep
<1>7. CASE Signal \/ UNCHANGED vars
  BY <1>7 DEF Signal, vars
<1> QED
  BY <1>1, <1>2, <1>3, <1>4, <1>5, <1>6, <1>7 DEF Next, MainStep

\* Pump and PumpProofs are instances of the same module: their definitions
\* are the same formulas.
LEMMA SamePump ==
    /\ Pump!Init <=> PumpProofs!Init
    /\ [Pump!Next]_(Pump!vars) <=> [PumpProofs!Next]_(PumpProofs!vars)
  BY DEF Pump!Init, Pump!Next, Pump!vars, Pump!StrandStep, Pump!OwnerStep,
         Pump!BeginWork, Pump!EndWork, Pump!CallNext, Pump!HandleAborted,
         Pump!TimerStep, Pump!CancelWaits, Pump!ClearFlag, Pump!SetFlag,
         Pump!Schedule, Pump!AfterCancel, Pump!Expire, Pump!Return, Pump!TogglePause,
         Pump!Throws, Pump!Running, Pump!Busy, Pump!Goto, Pump!ownerVars, Pump!timerVars,
         Pump!Threads,
         PumpProofs!Init, PumpProofs!Next, PumpProofs!vars, PumpProofs!StrandStep,
         PumpProofs!OwnerStep, PumpProofs!BeginWork, PumpProofs!EndWork,
         PumpProofs!CallNext, PumpProofs!HandleAborted, PumpProofs!TimerStep,
         PumpProofs!CancelWaits, PumpProofs!ClearFlag, PumpProofs!SetFlag,
         PumpProofs!Schedule, PumpProofs!AfterCancel, PumpProofs!Expire,
         PumpProofs!Return, PumpProofs!TogglePause, PumpProofs!Throws,
         PumpProofs!Running, PumpProofs!Busy, PumpProofs!Goto, PumpProofs!ownerVars,
         PumpProofs!timerVars, PumpProofs!Threads

LEMMA PumpInv ==
    /\ Pump!Init => PumpProofs!IInv
    /\ PumpProofs!IInv /\ [Next]_vars => PumpProofs!IInv'
<1>1. MaxToggles \in Nat
  OBVIOUS
<1>2. Pump!Init => PumpProofs!IInv
  BY <1>1, SamePump, PumpProofs!InitIInv
<1>3. PumpProofs!IInv /\ [Next]_vars => PumpProofs!IInv'
  BY <1>1, PumpNext, SamePump, PumpProofs!NextIInv
<1> QED
  BY <1>2, <1>3

\* What the pump's invariant says that is needed here.
LEMMA PumpFacts ==
    ASSUME PumpProofs!IInv
    PROVE  /\ Pump!TypeOK
           /\ call = "none" /\ ~element_paused_ => Pump!Live
           /\ call = "start" => toggles = 0
           /\ call = "none" => at["owner"] = "idle"
  BY DEF PumpProofs!IInv, PumpProofs!TypeOK, PumpProofs!PumpAlive, PumpProofs!Live,
         PumpProofs!Busy, PumpProofs!Parity, PumpProofs!CallShape, PumpProofs!Threads,
         PumpProofs!Calls, PumpProofs!Places, Pump!TypeOK, Pump!Live, Pump!Busy,
         Pump!Threads, Pump!Calls, Pump!Places

---------------------------------------------------------------------------
(***************************************************************************)
(* The phases of main, the call of the pump it is in, and the three flags. *)
(* FlagsAgree speaks of one phase; the inductive invariant says what the   *)
(* flags and the call are in every phase, and that on the way out the      *)
(* pump's flag is the opposite of what it was when Enter was pressed.      *)
(***************************************************************************)
InPump == {"construct", "starting", "toggling", "stopping"}

PhaseShape ==
    /\ main \in Phases
    /\ main \in {"construct", "starting"} => call = "start"
    /\ main \in {"toggling", "stopping"} => call = IF element_paused_ THEN "resume" ELSE "pause"
    /\ main \notin InPump \cup {"exited"} => call = "none"
    /\ main = "exited" => call \in {"none", "start"}

Flags ==
    /\ paused_ \in BOOLEAN /\ isPaused_ \in BOOLEAN /\ pausedAtEnter \in BOOLEAN
    /\ main \in {"construct", "starting"} => ~element_paused_
    /\ main \notin Leaving => isPaused_ = paused_ /\ paused_ = element_paused_
    /\ main = "stopping" => pausedAtEnter = isPaused_
    /\ main \in Leaving /\ call = "none" => element_paused_ = ~pausedAtEnter

PoolShape ==
    /\ pool \in {"none", "running", "stopped"}
    /\ main \in {"construct", "starting"} => pool = "none"
    /\ accepting => main \notin {"construct", "starting", "serving"}
    /\ main \notin {"construct", "starting", "exited"} => pool # "none"

MainInv == PhaseShape /\ Flags /\ PoolShape

\* No action of the pump but the owner's touches the flag or the call.
LEMMA StrandKeepsCall ==
    (\/ Pump!BeginWork \/ Pump!EndWork \/ Pump!CallNext \/ Pump!HandleAborted
     \/ Pump!Expire \/ Pump!Throws \/ \E t \in {"strand", "owner"} : Pump!TimerStep(t))
    => UNCHANGED <<element_paused_, call>>
  BY DEF Pump!BeginWork, Pump!EndWork, Pump!CallNext, Pump!HandleAborted, Pump!Expire,
         Pump!Throws, Pump!TimerStep, Pump!CancelWaits, Pump!ClearFlag, Pump!SetFlag,
         Pump!Schedule, Pump!ownerVars

LEMMA InitMainInv == Init => MainInv
<1> SUFFICES ASSUME Init PROVE MainInv
  OBVIOUS
<1> USE DEF Init, Pump!Init, Sockets!Init
<1>1. PhaseShape
  BY DEF PhaseShape, Phases, InPump
<1>2. Flags
  BY DEF Flags, Leaving
<1>3. PoolShape
  BY DEF PoolShape
<1> QED
  BY <1>1, <1>2, <1>3 DEF MainInv

LEMMA NextMainInv == Pump!TypeOK /\ MainInv /\ [Next]_vars => MainInv'
<1> SUFFICES ASSUME Pump!TypeOK, MainInv, [Next]_vars PROVE MainInv'
  OBVIOUS
<1>0. element_paused_ \in BOOLEAN /\ call \in {"none", "start", "pause", "resume"}
  BY DEF Pump!TypeOK, Pump!Calls
<1> USE <1>0 DEF MainInv, PhaseShape, Flags, PoolShape, Phases, InPump, Leaving, MainGoes,
                 sceneVars, pumpVars, socketVars
<1>1. CASE CameraOpens \/ CameraFails
  BY <1>1 DEF CameraOpens, CameraFails
<1>2. CASE Started
  BY <1>2 DEF Started, Pump!Return
<1>3. CASE GuiStarts
  BY <1>3 DEF GuiStarts, Sockets!Start
<1>4. CASE PressP
  BY <1>4 DEF PressP, Pump!TogglePause
<1>5. CASE PressEnter
  BY <1>5 DEF PressEnter, Pump!TogglePause
<1>6. CASE Toggled
  BY <1>6 DEF Toggled, Pump!Return
<1>7. CASE Stopped
  BY <1>7 DEF Stopped, Pump!Return
<1>8. CASE MainInPump
  <2>1. UNCHANGED <<element_paused_, call>>
    BY <1>8, StrandKeepsCall DEF MainInPump
  <2> QED
    BY <1>8, <2>1 DEF MainInPump
<1>9. CASE Drained \/ IoStop \/ WaitOver \/ Signal
  BY <1>9 DEF Drained, IoStop, WaitOver, Signal
<1>10. CASE GuiShutdown \/ GuiIsShut \/ CloseFails
  BY <1>10 DEF GuiShutdown, GuiIsShut, CloseFails, Sockets!ShutdownBegins, Sockets!Clear,
               Sockets!CloseThrows
<1>11. CASE Closes
  BY <1>11 DEF Closes, Sockets!CloseOne, Sockets!Advance
<1>12. CASE ScenesDestroyed \/ Exit
  BY <1>12 DEF ScenesDestroyed, Exit, Sockets!DestroyBegins, Sockets!Destroyed
<1>13. CASE DestructorThrows \/ Crashes
  BY <1>13 DEF DestructorThrows, Crashes, Terminates, Sockets!CloseThrows
<1>14. CASE PoolBegins \/ PoolWorks \/ PoolGoesOn
  <2>1. UNCHANGED <<element_paused_, call>>
    BY <1>14, StrandKeepsCall DEF PoolBegins, PoolWorks, PoolGoesOn
  <2>2. UNCHANGED <<paused_, isPaused_, socketVars, main, pool, pausedAtEnter>>
    BY <1>14 DEF PoolBegins, PoolWorks, PoolGoesOn
  <2> QED
    BY <2>1, <2>2
<1>15. CASE PoolServes
  BY <1>15 DEF PoolServes, Sockets!Connects, Sockets!Ends, Sockets!OnOpen, Sockets!OnClose
<1>16. CASE UNCHANGED vars
  BY <1>16 DEF vars
<1> QED
  BY <1>1, <1>2, <1>3, <1>4, <1>5, <1>6, <1>7, <1>8, <1>9, <1>10, <1>11, <1>12, <1>13,
     <1>14, <1>15, <1>16
     DEF Next, MainStep, StartStep, GuiStep, KeyStep, PoolStep

---------------------------------------------------------------------------
(***************************************************************************)
(* The list of web socket connections.  What has to be added to            *)
(* ListMatches is that only a loop of shutdown() may clear the list.       *)
(***************************************************************************)
SocketInv ==
    /\ Sockets!TypeOK /\ ListMatches
    /\ loop = "shutdown" => shuttingDown

\* A loop begins at an element of the list and goes on to one.
LEMMA FirstInSet == ASSUME NEW S \in SUBSET Connections PROVE Sockets!First(S) \in S \cup {Sockets!End}
<1>1. CASE S = {}
  BY <1>1 DEF Sockets!First
<1>2. CASE S # {}
  <2>1. S \subseteq Nat
    OBVIOUS
  <2>2. \E c \in S : \A d \in S : ~(<<d, c>> \in OpToRel(<, Nat))
    BY <1>2, <2>1, NatLessThanWellFounded, WFMin
  <2>3. OpToRel(<, Nat) = {ss \in Nat \X Nat : ss[1] < ss[2]}
    BY Zenon DEF OpToRel
  <2>4. \A c, d \in Nat : <<d, c>> \in {ss \in Nat \X Nat : ss[1] < ss[2]} <=> d < c
    OBVIOUS
  <2>5. \A c, d \in Nat : <<d, c>> \in OpToRel(<, Nat) <=> d < c
    BY <2>3, <2>4, Zenon
  <2>6. \E c \in S : \A d \in S : ~(d < c)
    BY <2>1, <2>2, <2>5, Zenon
  <2>7. \E c \in S : \A d \in S : c <= d
    BY <2>1, <2>6
  <2> QED
    BY <1>2, <2>7, Zenon DEF Sockets!First
<1> QED
  BY <1>1, <1>2

LEMMA InitSocketInv == Init => SocketInv
  BY DEF Init, Sockets!Init, SocketInv, Sockets!TypeOK, Sockets!Sessions, Sockets!End,
         ListMatches, Sockets!ListMatches

LEMMA NextSocketInv == SocketInv /\ [Next]_vars => SocketInv'
<1> SUFFICES ASSUME SocketInv, [Next]_vars PROVE SocketInv'
  OBVIOUS
<1> USE DEF SocketInv, Sockets!TypeOK, Sockets!Sessions, ListMatches, Sockets!ListMatches,
            Sockets!walkVars
<1>1. CASE UNCHANGED socketVars
  BY <1>1 DEF socketVars
<1>2. CASE GuiStarts
  BY <1>2 DEF GuiStarts, Sockets!Start
<1>3. CASE GuiShutdown
  BY <1>3, FirstInSet DEF GuiShutdown, Sockets!ShutdownBegins, Sockets!Walk
<1>4. CASE Closes
  <2>1. CASE Sockets!CloseOne
    BY <2>1 DEF Sockets!CloseOne, Sockets!InLoop, Sockets!CanClose
  <2>2. CASE Sockets!Advance
    <3>1. Sockets!First(Sockets!Following(it)) \in Sockets!Following(it) \cup {Sockets!End}
      BY FirstInSet DEF Sockets!Following
    <3>2. it' \in Connections \cup {Sockets!End}
      BY <2>2, <3>1 DEF Sockets!Advance, Sockets!Following
    <3> QED
      BY <2>2, <3>2 DEF Sockets!Advance
  <2> QED
    BY <1>4, <2>1, <2>2 DEF Closes
<1>5. CASE GuiIsShut
  BY <1>5 DEF GuiIsShut, Sockets!Clear
<1>6. CASE CloseFails \/ DestructorThrows
  BY <1>6 DEF CloseFails, DestructorThrows, Sockets!CloseThrows
<1>7. CASE ScenesDestroyed
  BY <1>7, FirstInSet DEF ScenesDestroyed, Sockets!DestroyBegins, Sockets!Walk
<1>8. CASE Exit
  BY <1>8 DEF Exit, Sockets!Destroyed
<1>9. CASE PoolServes
  <2>1. PICK c \in Connections : \/ Sockets!Connects(c) \/ Sockets!Ends(c)
                                \/ Sockets!OnOpen(c) \/ Sockets!OnClose(c)
    BY <1>9 DEF PoolServes
  <2> USE DEF Sockets!Becomes
  <2>2. CASE Sockets!Connects(c)
    BY <2>2 DEF Sockets!Connects
  <2>3. CASE Sockets!Ends(c)
    BY <2>3 DEF Sockets!Ends
  <2>4. CASE Sockets!OnOpen(c)
    BY <2>4 DEF Sockets!OnOpen
  <2>5. CASE Sockets!OnClose(c)
    BY <2>5 DEF Sockets!OnClose
  <2> QED
    BY <2>1, <2>2, <2>3, <2>4, <2>5
<1>10. CASE CameraOpens \/ CameraFails \/ Started \/ KeyStep \/ Toggled \/ Stopped
            \/ Drained \/ IoStop \/ WaitOver \/ MainInPump \/ Signal \/ Crashes
            \/ PoolBegins \/ PoolWorks \/ PoolGoesOn \/ UNCHANGED vars
  <2>1. UNCHANGED socketVars
    BY <1>10 DEF CameraOpens, CameraFails, Started, KeyStep, PressP, PressEnter, Toggled,
                 Stopped, Drained, IoStop, WaitOver, MainInPump, Signal, Crashes,
                 PoolBegins, PoolWorks, PoolGoesOn, vars
  <2> QED
    BY <1>1, <2>1
<1> QED
  BY <1>2, <1>3, <1>4, <1>5, <1>6, <1>7, <1>8, <1>9, <1>10
     DEF Next, MainStep, StartStep, GuiStep, PoolStep

---------------------------------------------------------------------------
(* The theorems.                                                           *)

IInv == PumpProofs!IInv /\ MainInv /\ SocketInv

LEMMA InitIInv == Init => IInv
  BY PumpInv, InitMainInv, InitSocketInv DEF Init, IInv

LEMMA NextIInv == IInv /\ [Next]_vars => IInv'
  BY PumpInv, PumpFacts, NextMainInv, NextSocketInv DEF IInv

\* The variables keep their types, there is a pool while main serves, and no
\* connection is accepted before (SecurityMonitor.cpp, main).
THEOREM TypeCorrect == Spec => []TypeOK
<1>1. IInv => TypeOK
  BY PumpFacts DEF IInv, MainInv, SocketInv, PhaseShape, Flags, PoolShape, TypeOK
<1> QED
  BY InitIInv, NextIInv, <1>1, PTL DEF Spec

\* However often p is pressed and whatever the pump does meanwhile, the three
\* classes agree on whether the scene is paused (Scene::toggle_pause).
THEOREM TheFlagsAgree == Spec => []FlagsAgree
<1>1. IInv => FlagsAgree
  BY PumpFacts DEF IInv, MainInv, PhaseShape, Flags, FlagsAgree, InPump, Leaving
<1> QED
  BY InitIInv, NextIInv, <1>1, PTL DEF Spec

\* A scene that was running when Enter was pressed is paused once main is past
\* stop_all_monitoring, on every way out (Scene::shutdown).
THEOREM RunningScenesStop == Spec => []RunningSceneIsStopped
<1>1. IInv => RunningSceneIsStopped
  BY DEF IInv, MainInv, Flags, RunningSceneIsStopped
<1> QED
  BY InitIInv, NextIInv, <1>1, PTL DEF Spec

\* The list of connections matches the sessions, for any number of them and
\* whatever main's loops do to them (on_open, on_close, shutdown).
THEOREM ListAlwaysMatches == Spec => []ListMatches
<1>1. IInv => ListMatches
  BY DEF IInv, SocketInv
<1> QED
  BY InitIInv, NextIInv, <1>1, PTL DEF Spec
=============================================================================
