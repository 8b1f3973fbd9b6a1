------------------------------ MODULE Callers -------------------------------
(***************************************************************************)
(* Who uses the handles the bindings hand out (StreamResponse and          *)
(* WebSocketHandle): tasks, and one more caller that closes or aborts at   *)
(* any time.                                                               *)
(***************************************************************************)
EXTENDS FiniteSets

CONSTANTS
    Tasks,       \* tasks that read, send, receive and close
    App          \* the caller of close or abort

ASSUME TasksAssumption == IsFiniteSet(Tasks) /\ App \notin Tasks

=============================================================================
