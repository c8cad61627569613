------------------------------ MODULE MicPolicy ------------------------------
(***************************************************************************)
(* What CouchMic promises about the default microphone, without tasks,     *)
(* timers and mutexes (src/src/app.rs:9-11): it is the target while a      *)
(* client is connected and switching is on, and it becomes the previous    *)
(* one again afterwards.                                                   *)
(***************************************************************************)
EXTENDS Naturals

CONSTANT MaxClients   \* BOUND: clients at a time

VARIABLES clients, on, switched
vars == <<clients, on, switched>>

Wanted == clients > 0 /\ on

Init == clients = 0 /\ on \in BOOLEAN /\ switched = FALSE

Connect == clients < MaxClients /\ clients' = clients + 1 /\ UNCHANGED <<on, switched>>
Disconnect == clients > 0 /\ clients' = clients - 1 /\ UNCHANGED <<on, switched>>
Toggle == on' = ~on /\ UNCHANGED <<clients, switched>>
Switch == Wanted /\ ~switched /\ switched' = TRUE /\ UNCHANGED <<clients, on>>
Restore == ~Wanted /\ switched /\ switched' = FALSE /\ UNCHANGED <<clients, on>>

Next == Connect \/ Disconnect \/ Toggle \/ Switch \/ Restore

\* A microphone that should be switched is switched in the end, and given back in the end.
\* (Weak fairness of Switch and of Restore, written without ENABLED.)
Obliging == []<>(Wanted => switched) /\ []<>(switched => Wanted)

Spec == Init /\ [][Next]_vars /\ Obliging
=============================================================================
