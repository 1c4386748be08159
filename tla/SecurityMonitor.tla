--------------------------- MODULE SecurityMonitor ---------------------------
(***************************************************************************)
(* The life of the process (src/SecurityMonitor.cpp, main) with its one    *)
(* scene: main builds the GUI, the SceneMonitor and the scene, starts the  *)
(* pool and the GUI, reads keys, and on Enter stops monitoring, shuts the  *)
(* GUI down, stops the io_service and destroys everything.  Three classes  *)
(* keep a flag that says whether the scene is paused: Scene, Pipeline and  *)
(* TimedWorkWrapper; all of it runs on main's thread, next to the pool     *)
(* that drives the pump and the handlers of the web socket server.         *)
(***************************************************************************)
EXTENDS Integers

CONSTANTS
    MaxToggles,          \* bound: calls of pause(), the one of shutdown included
    Connections          \* bound: the web socket connections of one life

ASSUME MaxTogglesAssumption == MaxToggles \in Nat
ASSUME ConnectionsAssumption == Connections \subseteq Nat \ {0}

VARIABLES
    element_paused_, call, at, waits, mayWait, expired, aborted, toggles,
    terminated,        \* the pump, see TimedWorkWrapper; its owner is main
    accepting, shuttingDown, session, master_list, loop, it,
    sent,              \* the connections, see WebSocketServer
    paused_,           \* Pipeline::paused_
    isPaused_,         \* Scene::isPaused_
    main,              \* where main is
    pool,              \* the io_service and its threads
    pausedAtEnter      \* history: was the scene paused when Enter was pressed

Pump == INSTANCE TimedWorkWrapper WITH paused_ <- element_paused_
pumpVars == <<element_paused_, call, at, waits, mayWait, expired, aborted, toggles, terminated>>
Sockets == INSTANCE WebSocketServer
socketVars == <<accepting, shuttingDown, session, master_list, loop, it, sent>>
sceneVars == <<pumpVars, paused_, isPaused_>>
vars == <<sceneVars, socketVars, main, pool, pausedAtEnter>>

Phases == {"construct", "starting", "serving", "keys", "toggling", "stopping", "draining",
           "gui", "closing", "stop", "waiting", "teardown", "destroying", "exited"}

TypeOK ==
    /\ Pump!TypeOK /\ Sockets!TypeOK
    /\ paused_ \in BOOLEAN /\ isPaused_ \in BOOLEAN /\ pausedAtEnter \in BOOLEAN
    /\ main \in Phases
    /\ pool \in {"none", "running", "stopped"}
    /\ main \in {"construct", "starting"} => pool = "none"
    /\ accepting => main \notin {"construct", "starting", "serving"}
    /\ main \notin {"construct", "starting", "exited"} => pool # "none"

Init ==
    /\ Pump!Init /\ Sockets!Init
    /\ paused_ = FALSE /\ isPaused_ = FALSE /\ pausedAtEnter = FALSE
    /\ main = "construct"
    /\ pool = "none"

MainGoes(from, to) == ~terminated /\ main = from /\ main' = to

---------------------------------------------------------------------------
(* Start: SceneMonitor::start_monitoring, the Scene constructor, the pool. *)

CameraOpens ==
    /\ MainGoes("construct", "starting")
    /\ UNCHANGED <<sceneVars, socketVars, pool, pausedAtEnter>>

\* The camera cannot be opened: the constructor throws, main catches and ends.
CameraFails ==
    /\ MainGoes("construct", "exited")
    /\ UNCHANGED <<sceneVars, socketVars, pool, pausedAtEnter>>

\* Regression: main starts the GUI without having created the threads.
StartedWithoutPool ==
    /\ MainGoes("starting", "serving")
    /\ Pump!Return
    /\ UNCHANGED <<paused_, isPaused_, socketVars, pool, pausedAtEnter>>

\* Pipeline::start has returned; then the threads of the pool are created.
Started ==
    /\ MainGoes("starting", "serving")
    /\ Pump!Return
    /\ pool' = "running"
    /\ UNCHANGED <<paused_, isPaused_, socketVars, pausedAtEnter>>

GuiStarts ==
    /\ MainGoes("serving", "keys")
    /\ Sockets!Start
    /\ UNCHANGED <<sceneVars, pool, pausedAtEnter>>

---------------------------------------------------------------------------
(* Keys.                                                                   *)

\* p: SceneMonitor::toggle_pause, Scene::toggle_pause, Pipeline::pause.
PressP ==
    /\ MainGoes("keys", "toggling")
    /\ toggles + 1 < MaxToggles
    /\ Pump!TogglePause
    /\ UNCHANGED <<paused_, isPaused_, socketVars, pool, pausedAtEnter>>

\* Regression: the scene takes its flag from the pipeline before the
\* pipeline has flipped its own.
ToggledFromPipeline ==
    /\ MainGoes("toggling", "keys")
    /\ Pump!Return
    /\ paused_' = ~paused_
    /\ isPaused_' = paused_
    /\ UNCHANGED <<socketVars, pool, pausedAtEnter>>

Toggled ==
    /\ MainGoes("toggling", "keys")
    /\ Pump!Return
    /\ paused_' = ~paused_
    /\ isPaused_' = ~isPaused_
    /\ UNCHANGED <<socketVars, pool, pausedAtEnter>>

\* Regression: main stops the pool without stopping the scenes first.
PressEnterSkipsScenes ==
    /\ MainGoes("keys", "draining")
    /\ pausedAtEnter' = isPaused_
    /\ UNCHANGED <<sceneVars, socketVars, pool>>

\* Enter: SceneMonitor::stop_all_monitoring, Scene::shutdown, Pipeline::pause.
PressEnter ==
    /\ MainGoes("keys", "stopping")
    /\ Pump!TogglePause
    /\ pausedAtEnter' = isPaused_
    /\ UNCHANGED <<paused_, isPaused_, socketVars, pool>>

---------------------------------------------------------------------------
(* The way out.                                                            *)

\* Scene::shutdown leaves Scene::isPaused_ alone.
Stopped ==
    /\ MainGoes("stopping", "draining")
    /\ Pump!Return
    /\ paused_' = ~paused_
    /\ UNCHANGED <<isPaused_, socketVars, pool, pausedAtEnter>>

\* The sleep of stop_all_monitoring, two seconds whatever the pump does.
Drained ==
    /\ MainGoes("draining", "gui")
    /\ UNCHANGED <<sceneVars, socketVars, pool, pausedAtEnter>>

GuiShutdown ==
    /\ MainGoes("gui", "closing")
    /\ Sockets!ShutdownBegins
    /\ UNCHANGED <<sceneVars, pool, pausedAtEnter>>

\* main inside one of the loops of the web socket server.
Closes ==
    /\ ~terminated /\ main \in {"closing", "destroying"}
    /\ Sockets!CloseOne \/ Sockets!Advance
    /\ UNCHANGED <<sceneVars, main, pool, pausedAtEnter>>

GuiIsShut ==
    /\ MainGoes("closing", "stop")
    /\ Sockets!Clear
    /\ UNCHANGED <<sceneVars, pool, pausedAtEnter>>

\* main catches the exception behind io_service.stop(): the pool runs on.
CloseFails ==
    /\ MainGoes("closing", "teardown")
    /\ Sockets!CloseThrows
    /\ UNCHANGED <<sceneVars, pool, pausedAtEnter>>

IoStop ==
    /\ MainGoes("stop", "waiting")
    /\ pool' = "stopped"
    /\ UNCHANGED <<sceneVars, socketVars, pausedAtEnter>>

\* Regression: main joins the threads instead of sleeping.
WaitJoins ==
    /\ MainGoes("waiting", "teardown")
    /\ ~Pump!Busy
    /\ UNCHANGED <<sceneVars, socketVars, pool, pausedAtEnter>>

\* "Waiting for threads...": a sleep of two seconds, then the destructors.
WaitOver ==
    /\ MainGoes("waiting", "teardown")
    /\ UNCHANGED <<sceneVars, socketVars, pool, pausedAtEnter>>

\* ~SceneMonitor, then ~GUI_Interface begins.
ScenesDestroyed ==
    /\ MainGoes("teardown", "destroying")
    /\ Sockets!DestroyBegins
    /\ UNCHANGED <<sceneVars, pool, pausedAtEnter>>

Exit ==
    /\ MainGoes("destroying", "exited")
    /\ Sockets!Destroyed
    /\ UNCHANGED <<sceneVars, pool, pausedAtEnter>>

Terminates == terminated' = TRUE /\ UNCHANGED <<element_paused_, call, at, waits, mayWait,
    expired, aborted, toggles, paused_, isPaused_, main, pool, pausedAtEnter>>

\* An exception that leaves a destructor.
DestructorThrows ==
    /\ ~terminated /\ main = "destroying"
    /\ Sockets!CloseThrows
    /\ Terminates

\* Where the code is undefined it may crash: ~SceneMonitor increments an
\* iterator it has erased, the socket server's loops run into a handler's
\* change of the list, and a handler may outlive the scene it works for.
Crashes ==
    /\ ~terminated
    /\ \/ main = "teardown"
       \/ main \in {"closing", "destroying"} /\ Sockets!Wild
       \/ main = "destroying" /\ (Pump!Busy \/ pool = "running")
    /\ Terminates
    /\ UNCHANGED socketVars

\* SIGINT or SIGTERM: the signal_set's handler stops the io_service; main
\* goes on reading keys.
Signal ==
    /\ ~terminated /\ main # "exited" /\ pool = "running"
    /\ pool' = "stopped"
    /\ UNCHANGED <<sceneVars, socketVars, main, pausedAtEnter>>

---------------------------------------------------------------------------
(* The pool: a stopped io_service begins no handler, but a handler that    *)
(* has begun goes on.                                                      *)

PoolBegins ==
    /\ pool = "running" /\ main # "exited"
    /\ Pump!BeginWork \/ Pump!HandleAborted \/ Pump!Expire
    /\ UNCHANGED <<paused_, isPaused_, socketVars, main, pool, pausedAtEnter>>

PoolWorks ==
    /\ main # "exited"
    /\ Pump!EndWork \/ (at["strand"] = "work" /\ Pump!Throws)
    /\ UNCHANGED <<paused_, isPaused_, socketVars, main, pool, pausedAtEnter>>

PoolGoesOn ==
    /\ main # "exited"
    /\ Pump!CallNext \/ Pump!TimerStep("strand")
    /\ UNCHANGED <<paused_, isPaused_, socketVars, main, pool, pausedAtEnter>>

PoolServes ==
    /\ ~terminated /\ main # "exited"
    /\ \E c \in Connections :
          \/ pool = "running" /\ (Sockets!Connects(c) \/ Sockets!Ends(c))
          \/ Sockets!OnOpen(c) \/ Sockets!OnClose(c)
    /\ UNCHANGED <<sceneVars, main, pool, pausedAtEnter>>

MainInPump ==
    /\ main \in {"starting", "toggling", "stopping"}
    /\ Pump!TimerStep("owner")
    /\ UNCHANGED <<paused_, isPaused_, socketVars, main, pool, pausedAtEnter>>

---------------------------------------------------------------------------
StartStep == CameraOpens \/ CameraFails \/ Started \/ GuiStarts
KeyStep == PressP \/ PressEnter
GuiStep == GuiShutdown \/ Closes \/ GuiIsShut \/ CloseFails
MainStep == \/ StartStep \/ MainInPump \/ Toggled \/ Stopped \/ Drained \/ GuiStep
            \/ IoStop \/ WaitOver \/ ScenesDestroyed \/ Exit \/ DestructorThrows
PoolStep == PoolBegins \/ PoolWorks \/ PoolGoesOn \/ PoolServes

Next == MainStep \/ KeyStep \/ PoolStep \/ Signal \/ Crashes

\* main runs on; nobody has to press a key and no work has to return.
Spec == Init /\ [][Next]_vars
FairSpec == Spec /\ WF_vars(MainStep) /\ WF_vars(PoolGoesOn)

---------------------------------------------------------------------------
\* While main reads keys the three flags agree and the pump obeys them: a
\* scene that is not paused has a tick outstanding (Scene::toggle_pause,
\* Pipeline::pause, TimedWorkWrapper::pause).
FlagsAgree ==
    main = "keys" =>
        /\ isPaused_ = paused_ /\ paused_ = element_paused_
        /\ ~isPaused_ => Pump!Live

Leaving == {"draining", "gui", "closing", "stop", "waiting", "teardown", "destroying", "exited"}

\* A scene that was running when Enter was pressed is paused from the moment
\* stop_all_monitoring starts to wait (Scene::shutdown is Pipeline::pause).
RunningSceneIsStopped ==
    main \in Leaving /\ call = "none" /\ toggles > 0 /\ ~pausedAtEnter => element_paused_

\* From Enter main reaches its end although a work never returns: the way out
\* waits for no thread of the pool (SecurityMonitor.cpp, lines 153-161).
\* No connection can hold it up, and no exception sends it back to the keys.
EnterLeadsToExit == main = "stopping" ~> main = "exited" \/ terminated

\* on_open and on_close keep the list of connections in step with the
\* sessions through the whole life of the process (WebSocketServer.cpp).
ListMatches == Sockets!ListMatches

\* SecurityMonitor.cpp:153 says "Stopping monitoring...": when
\* stop_all_monitoring has returned, no scene is running.
MonitoringStops == main \in Leaving /\ toggles > 0 => element_paused_
=============================================================================
