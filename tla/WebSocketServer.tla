--------------------------- MODULE WebSocketServer ---------------------------
(***************************************************************************)
(* The list of web socket connections (src/GUI/WebSocketServer.cpp).       *)
(* websocketpp calls on_open and on_close on threads of the pool, each     *)
(* connection's calls one after the other; both change master_list under   *)
(* its mutex.  main walks over the list in shutdown() and again in the     *)
(* destructor, without the mutex, and closes what it finds.                *)
(*                                                                         *)
(* Connections are numbered in the order of master_list, a set ordered by  *)
(* address.  on_message only logs what it was sent, and is left out.       *)
(***************************************************************************)
EXTENDS Integers

CONSTANT Connections         \* bound: the connections of one life, positive numbers

VARIABLES
    accepting,       \* start_accept has been called
    shuttingDown,
    session,         \* websocketpp's state of each connection, and its handlers
    master_list,
    loop,            \* the loop over master_list that main is in
    it,              \* the element that loop is at
    sent             \* the loop has closed that element

vars == <<accepting, shuttingDown, session, master_list, loop, it, sent>>
walkVars == <<loop, it, sent>>

End == 0

(* opening: open for websocketpp, on_open on its way to the mutex; closing: *)
(* the close frame is sent; closed: over, on_close on its way.              *)
Sessions == {"none", "opening", "open", "closing", "closed", "gone"}

TypeOK ==
    /\ accepting \in BOOLEAN /\ shuttingDown \in BOOLEAN /\ sent \in BOOLEAN
    /\ session \in [Connections -> Sessions]
    /\ master_list \subseteq Connections
    /\ loop \in {"none", "shutdown", "destroy"}
    /\ it \in Connections \cup {End}

Init ==
    /\ accepting = FALSE /\ shuttingDown = FALSE
    /\ session = [c \in Connections |-> "none"]
    /\ master_list = {}
    /\ loop = "none" /\ it = End /\ sent = FALSE

---------------------------------------------------------------------------
(* The pool.                                                               *)

Becomes(c, from, to) == session[c] \in from /\ session' = [session EXCEPT ![c] = to]

Connects(c) ==
    /\ accepting
    /\ Becomes(c, {"none"}, "opening")
    /\ UNCHANGED <<accepting, shuttingDown, master_list, walkVars>>

\* A connection that opens during shutdown is "rejected" in the log only.
OnOpen(c) ==
    /\ Becomes(c, {"opening"}, "open")
    /\ master_list' = master_list \cup {c}
    /\ UNCHANGED <<accepting, shuttingDown, walkVars>>

\* The browser goes away, or it acknowledges the close frame.
Ends(c) ==
    /\ Becomes(c, {"open", "closing"}, "closed")
    /\ UNCHANGED <<accepting, shuttingDown, master_list, walkVars>>

\* Regression: on_close leaves the list to shutdown().
OnCloseKeeps(c) ==
    /\ Becomes(c, {"closed"}, "gone")
    /\ UNCHANGED <<accepting, shuttingDown, master_list, walkVars>>

OnClose(c) ==
    /\ Becomes(c, {"closed"}, "gone")
    /\ master_list' = master_list \ {c}
    /\ UNCHANGED <<accepting, shuttingDown, walkVars>>

---------------------------------------------------------------------------
(* main.                                                                   *)

Start ==
    /\ ~accepting /\ accepting' = TRUE
    /\ UNCHANGED <<shuttingDown, session, master_list, walkVars>>

First(S) == IF S = {} THEN End ELSE CHOOSE c \in S : \A d \in S : c <= d
Following(c) == {d \in master_list : d > c}

Walk(l) == loop = "none" /\ loop' = l /\ it' = First(master_list) /\ sent' = FALSE

ShutdownBegins ==
    /\ accepting /\ ~shuttingDown /\ shuttingDown' = TRUE
    /\ Walk("shutdown")
    /\ UNCHANGED <<accepting, session, master_list>>

DestroyBegins ==
    /\ Walk("destroy")
    /\ UNCHANGED <<accepting, shuttingDown, session, master_list>>

InLoop == loop # "none" /\ it # End
CanClose == it \in master_list /\ session[it] = "open"

CloseOne ==
    /\ InLoop /\ ~sent /\ sent' = TRUE
    /\ CanClose /\ session' = [session EXCEPT ![it] = "closing"]
    /\ UNCHANGED <<accepting, shuttingDown, master_list, loop, it>>

\* server.close throws invalid_state for a session that is not open (any
\* more), and bad_connection for a handle that has expired.
CloseThrows ==
    /\ InLoop /\ ~sent /\ ~CanClose
    /\ loop' = "none" /\ it' = End
    /\ UNCHANGED <<accepting, shuttingDown, session, master_list, sent>>

\* The step to the next element reads the list while a handler of the pool
\* changes it, or starts from an element that on_close has erased: undefined,
\* it ends up anywhere in the list or crashes (Wild says when).
Wild ==
    /\ InLoop
    /\ it \notin master_list \/ \E c \in Connections : session[c] \in {"opening", "closed"}

Advance ==
    /\ InLoop /\ sent /\ sent' = FALSE
    /\ \/ it' = First(Following(it))
       \/ Wild /\ it' \in master_list \cup {End}
    /\ UNCHANGED <<accepting, shuttingDown, session, master_list, loop>>

\* The end of shutdown(), under the mutex.
Clear ==
    /\ loop = "shutdown" /\ it = End
    /\ loop' = "none"
    /\ master_list' = {}
    /\ UNCHANGED <<accepting, shuttingDown, session, it, sent>>

\* The end of the destructor.
Destroyed ==
    /\ loop = "destroy" /\ it = End
    /\ loop' = "none"
    /\ UNCHANGED <<accepting, shuttingDown, session, master_list, it, sent>>

---------------------------------------------------------------------------
Opens(c) == Connects(c) \/ Ends(c)
Handles(c) == OnOpen(c) \/ OnClose(c)
WalkStep == CloseOne \/ CloseThrows \/ Advance \/ Clear

\* The server alone, from its construction to its destructor.
Next == \/ Start \/ ShutdownBegins \/ WalkStep
        \/ \E c \in Connections : Opens(c) \/ Handles(c)

Spec == Init /\ [][Next]_vars

---------------------------------------------------------------------------
\* What on_open and on_close maintain: before shutdown the list holds exactly
\* the connections whose on_close has not run, and it never holds others,
\* whatever main's loops do in between.
ListMatches ==
    LET listed == {c \in Connections : session[c] \in {"open", "closing", "closed"}}
    IN  /\ master_list \subseteq listed
        /\ ~shuttingDown => master_list = listed

\* WebSocketServer.cpp:69-76 announces "shutdown closing connections" and then
\* "connections closed": what shutdown() drops from its list it has closed.
ShutdownClosesAll ==
    [][loop = "shutdown" /\ master_list' = {} =>
        \A c \in master_list : session[c] # "open"]_vars
=============================================================================
