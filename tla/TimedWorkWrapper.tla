------------------------- MODULE TimedWorkWrapper -------------------------
(***************************************************************************)
(* The data pump of a pipeline: the first element, driven by an asio timer *)
(* (src/Pipeline/TimedWorkWrapper.h).  Two threads work on it at once:     *)
(*                                                                         *)
(*   "strand"  whichever pool thread runs the element's strand: it executes*)
(*             do_work, which calls the work, hands the datum on and       *)
(*             re-arms the timer;                                          *)
(*   "owner"   the thread that built the pipeline (main): schedule_work    *)
(*             starts the timer, pause() cancels or restarts it.           *)
(*                                                                         *)
(* pause() does not go through the strand, so the two threads meet in the  *)
(* timer object.  asio says that a shared timer is not safe; the steps     *)
(* below are the accesses of both threads in the order they make them, and *)
(* every interleaving of them is allowed.                                  *)
(***************************************************************************)
EXTENDS Integers

CONSTANT MaxToggles          \* bound: how often the owner calls pause()

ASSUME MaxTogglesAssumption == MaxToggles \in Nat

VARIABLES
    paused_,      \* TimedWorkWrapper::paused_, touched by the owner only
    call,         \* the operation the owner is executing
    at,           \* how far each thread is in its operation
    waits,        \* async_waits in asio's timer queue
    mayWait,      \* asio's might_have_pending_waits: FALSE makes cancel a no-op
    expired,      \* handlers queued for the strand with ec = success
    aborted,      \* handlers queued for the strand with ec = operation_aborted
    toggles,      \* calls of pause() so far
    terminated    \* an exception left a pool thread: std::terminate

ownerVars == <<paused_, call, toggles>>
timerVars == <<waits, mayWait, expired, aborted>>
vars == <<paused_, call, at, waits, mayWait, expired, aborted, toggles, terminated>>

Threads == {"strand", "owner"}
Calls == {"none", "start", "pause", "resume"}
Places == {"idle", "work", "next", "cancel", "clear", "flag", "wait", "return"}

TypeOK ==
    /\ paused_ \in BOOLEAN /\ mayWait \in BOOLEAN /\ terminated \in BOOLEAN
    /\ call \in Calls
    /\ at \in [Threads -> Places]
    /\ waits \in Nat /\ expired \in Nat /\ aborted \in Nat
    /\ toggles \in 0 .. MaxToggles

---------------------------------------------------------------------------
(* Construction: Pipeline::start has just called schedule_work.            *)

Init ==
    /\ paused_ = FALSE
    /\ call = "start"
    /\ at = [t \in Threads |-> IF t = "owner" THEN "cancel" ELSE "idle"]
    /\ waits = 0 /\ mayWait = FALSE /\ expired = 0 /\ aborted = 0
    /\ toggles = 0
    /\ terminated = FALSE

Goto(t, place) == at' = [at EXCEPT ![t] = place]
Running == ~terminated
Busy == at["strand"] # "idle"

---------------------------------------------------------------------------
(* do_work: one handler of the strand at a time.                           *)

\* Regression: the work runs without a handler that was queued for it.
BeginWorkUnasked ==
    /\ Running /\ ~Busy
    /\ expired' = expired - 1
    /\ Goto("strand", "work")
    /\ UNCHANGED <<ownerVars, waits, mayWait, aborted, terminated>>

BeginWork ==
    /\ Running /\ ~Busy /\ expired > 0
    /\ expired' = expired - 1
    /\ Goto("strand", "work")
    /\ UNCHANGED <<ownerVars, waits, mayWait, aborted, terminated>>

\* work_(data) has returned and its times are recorded.
EndWork ==
    /\ Running /\ at["strand"] = "work"
    /\ Goto("strand", "next")
    /\ UNCHANGED <<ownerVars, timerVars, terminated>>

\* Regression: do_work hands the datum on and never re-arms the timer.
CallNextOnly ==
    /\ Running /\ at["strand"] = "next"
    /\ Goto("strand", "idle")
    /\ UNCHANGED <<ownerVars, timerVars, terminated>>

\* next_(data), then restart_timer() begins.
CallNext ==
    /\ Running /\ at["strand"] = "next"
    /\ Goto("strand", "cancel")
    /\ UNCHANGED <<ownerVars, timerVars, terminated>>

\* Regression: an aborted wait re-arms the timer instead of returning.
HandleAbortedRearms ==
    /\ Running /\ ~Busy /\ aborted > 0
    /\ aborted' = aborted - 1
    /\ Goto("strand", "cancel")
    /\ UNCHANGED <<ownerVars, waits, mayWait, expired, terminated>>

HandleAborted ==
    /\ Running /\ ~Busy /\ aborted > 0
    /\ aborted' = aborted - 1
    /\ UNCHANGED <<ownerVars, at, waits, mayWait, expired, terminated>>

---------------------------------------------------------------------------
(* The timer.  expires_from_now, expires_at and cancel all cancel what is  *)
(* pending: look at the flag, take the waits, clear the flag; async_wait   *)
(* sets the flag and then enqueues.  Only asio's own queue has a lock.     *)

\* Regression: pause() on a paused pump falls into the branch that only
\* cancels.
AfterCancelForgetsResume(t) ==
    IF t = "owner" /\ call \in {"pause", "resume"} THEN "return" ELSE "flag"

AfterCancel(t) == IF t = "owner" /\ call = "pause" THEN "return" ELSE "flag"

CancelWaits(t) ==
    /\ Running /\ at[t] = "cancel"
    /\ IF mayWait
         THEN /\ aborted' = aborted + waits
              /\ waits' = 0
              /\ Goto(t, "clear")
         ELSE /\ Goto(t, AfterCancel(t))
              /\ UNCHANGED <<aborted, waits>>
    /\ UNCHANGED <<ownerVars, mayWait, expired, terminated>>

ClearFlag(t) ==
    /\ Running /\ at[t] = "clear"
    /\ mayWait' = FALSE
    /\ Goto(t, AfterCancel(t))
    /\ UNCHANGED <<ownerVars, waits, expired, aborted, terminated>>

SetFlag(t) ==
    /\ Running /\ at[t] = "flag"
    /\ mayWait' = TRUE
    /\ Goto(t, "wait")
    /\ UNCHANGED <<ownerVars, waits, expired, aborted, terminated>>

Schedule(t) ==
    /\ Running /\ at[t] = "wait"
    /\ waits' = waits + 1
    /\ Goto(t, IF t = "strand" THEN "idle" ELSE "return")
    /\ UNCHANGED <<ownerVars, mayWait, expired, aborted, terminated>>

\* The expiry time passes: every wait of the timer completes at once.
Expire ==
    /\ Running /\ waits > 0
    /\ expired' = expired + waits
    /\ waits' = 0
    /\ UNCHANGED <<ownerVars, at, mayWait, aborted, terminated>>

---------------------------------------------------------------------------
(* pause(), a toggle.                                                      *)

\* Regression: the toggle never leaves the paused state, so each further
\* call starts the timer once more.
ReturnStaysPaused ==
    /\ Running /\ at["owner"] = "return"
    /\ Goto("owner", "idle")
    /\ call' = "none"
    /\ paused_' = (call # "start")
    /\ UNCHANGED <<toggles, timerVars, terminated>>

Return ==
    /\ Running /\ at["owner"] = "return"
    /\ Goto("owner", "idle")
    /\ call' = "none"
    /\ paused_' = (call = "pause")
    /\ UNCHANGED <<toggles, timerVars, terminated>>

TogglePause ==
    /\ Running /\ call = "none" /\ toggles < MaxToggles
    /\ toggles' = toggles + 1
    /\ call' = IF paused_ THEN "resume" ELSE "pause"
    /\ Goto("owner", "cancel")
    /\ UNCHANGED <<paused_, timerVars, terminated>>

---------------------------------------------------------------------------
\* A handler on some pool thread throws, the work of this pump or another
\* handler of the process: nothing catches it, and the process ends.
Throws ==
    /\ Running
    /\ terminated' = TRUE
    /\ UNCHANGED <<ownerVars, at, timerVars>>

TimerStep(t) == CancelWaits(t) \/ ClearFlag(t) \/ SetFlag(t) \/ Schedule(t)
StrandStep == \/ BeginWork \/ EndWork \/ CallNext \/ HandleAborted
              \/ TimerStep("strand")
OwnerStep == TimerStep("owner") \/ Return

Next == StrandStep \/ OwnerStep \/ Expire \/ TogglePause \/ Throws

\* The pool runs what is queued, the clock advances, the work returns and
\* the owner finishes a call it began.  Nobody has to press a key.
Fairness == WF_vars(StrandStep) /\ WF_vars(OwnerStep) /\ WF_vars(Expire)

Spec == Init /\ [][Next]_vars
FairSpec == Spec /\ Fairness

---------------------------------------------------------------------------
(* What is outstanding for the pump: waits, queued ticks, a running tick.  *)
Live == waits + expired > 0 \/ Busy

\* Between calls a pump that is not paused always has a tick outstanding: no
\* interleaving of pause(), the timer's expiry and the re-arming in do_work
\* loses the last one (schedule_work, pause, do_work).
PumpAlive == call = "none" /\ ~paused_ => Live

(* Handlers that exist, counting the one the owner is about to create.     *)
Outstanding == waits + expired + aborted + (IF Busy THEN 1 ELSE 0)
OwnerStarting ==
    call \in {"start", "resume"} /\ at["owner"] \in {"cancel", "clear", "flag", "wait"}

\* Handlers come from start and resume only: however a resume races with a
\* tick that the pause failed to stop, chains of ticks never multiply beyond
\* one per start or resume (start_timer, restart_timer, pause).
HandlersBounded ==
    Outstanding + (IF OwnerStarting THEN 1 ELSE 0) <= 1 + toggles \div 2

AtRest == paused_ /\ call = "none" /\ waits + expired = 0 /\ ~Busy

\* A paused pump that has come to rest stays at rest until the next call:
\* handlers that were aborted by pause() run later and must not re-arm the
\* timer (the early return of do_work).
RestIsStable == [][AtRest /\ call' = "none" => AtRest']_vars

\* A running pump keeps delivering ticks unless it is paused again or dies
\* (do_work's restart_timer).
PumpKeepsTicking ==
    call = "none" /\ ~paused_ ~> at["strand"] = "work" \/ call # "none" \/ terminated

\* Pipeline.h line 29: pause() "stops pipeline at start - i.e. current data
\* flows to end of pipeline": a pump that stays paused works finitely often.
PauseStopsPump == <>[]paused_ => <>[](at["strand"] # "work" \/ terminated)
=============================================================================
