------------------------------ MODULE SessionLine ------------------------------
(***************************************************************************)
(* What a client_loop of the broker relies on at the other end of its      *)
(* socket: one call at a time, an answer is taken before the next call is  *)
(* made, and Close only when no call is outstanding.                       *)
(***************************************************************************)
EXTENDS Naturals

VARIABLES
    session,    \* "open", "closed" by the client, or "dead"
    asked,      \* requests on their way to the broker
    answered    \* answers on their way back

vars == <<session, asked, answered>>

Idle == asked = 0 /\ answered = 0

Init == session = "open" /\ Idle

Ask    == /\ session = "open" /\ Idle
          /\ asked' = 1
          /\ UNCHANGED <<session, answered>>

Reply  == /\ asked = 1
          /\ asked' = 0 /\ answered' = 1
          /\ UNCHANGED session

Take   == /\ answered = 1
          /\ answered' = 0
          /\ UNCHANGED <<session, asked>>

Close  == /\ session # "closed" /\ Idle
          /\ session' = "closed"
          /\ UNCHANGED <<asked, answered>>

(* The broker is gone, and what was on its way with it. *)
Die    == /\ session = "open"
          /\ session' = "dead"
          /\ asked' = 0 /\ answered' = 0

(* sqlite3_open again: a new session. *)
Reopen == /\ session = "closed"
          /\ session' = "open"
          /\ UNCHANGED <<asked, answered>>

Next == Ask \/ Reply \/ Take \/ Close \/ Die \/ Reopen

Spec == Init /\ [][Next]_vars

=============================================================================
