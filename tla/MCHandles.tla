------------------------------ MODULE MCHandles ------------------------------
(* The two handles that the tasks of an application share, a response body    *)
(* (StreamResponse) and a WebSocket (WebSocketHandle), on small instances.    *)
(* They have no state in common, so a behaviour is a behaviour of one of them; *)
(* which one is chosen at the start.                                          *)
EXTENDS StreamResponse

CONSTANT SocketTasks    \* the tasks, out of Tasks, that use the WebSocket

ASSUME SocketTasksAssumption == SocketTasks \subseteq Tasks

VARIABLES
    handle,      \* the handle that is used: "body" or "socket"
    \* of the WebSocket
    locks, halves, aborted, closeToken, stage, at, outcome, message

Socket == INSTANCE WebSocketHandle WITH
              Tasks <- SocketTasks, line <- locks, slot <- halves, cancelled <- aborted,
              closing <- closeToken, pc <- at, out <- outcome

socketVars == <<locks, halves, aborted, closeToken, stage, at, outcome, message>>
handleVars == <<handle, vars, socketVars>>

HandleInit == handle \in {"body", "socket"} /\ Init /\ Socket!Init

HandleNext ==
    \/ handle = "body" /\ Next /\ UNCHANGED <<handle, socketVars>>
    \/ handle = "socket" /\ Socket!Next /\ UNCHANGED <<handle, vars>>

HandleSpec == HandleInit /\ [][HandleNext]_handleVars /\ Fairness /\ Socket!Fairness

\* The properties stated in WebSocketHandle.
UsedHalfIsThere == Socket!UsedHalfIsThere
AbortEndsCalls == Socket!AbortEndsCalls
CloseInterruptsCalls == Socket!CloseInterruptsCalls

=============================================================================
