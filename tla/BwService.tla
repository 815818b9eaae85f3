----------------------------- MODULE BwService ------------------------------
(***************************************************************************)
(* What the bandwidth benchmark promises a caller of                       *)
(* BwClientApp::PushData(bw_msg, bw_ack), whatever carries the messages: a *)
(* call is acknowledged once, only after the server has taken in the whole *)
(* message; it fails only when the server is down; and the server goes     *)
(* down only when a client was killed between the two.                     *)
(***************************************************************************)
EXTENDS Naturals

CONSTANTS Clients

VARIABLES
  up,      \* the server process is running
  client,  \* per client: "alive", "done" or "dead"
  call,    \* its current call: "idle", "pushed" or "served"
  calls,   \* calls that returned
  acks     \* calls that returned with bw_ack->success

vars == <<up, client, call, calls, acks>>

Init ==
  /\ up = TRUE
  /\ client = [c \in Clients |-> "alive"]
  /\ call = [c \in Clients |-> "idle"]
  /\ calls = [c \in Clients |-> 0]
  /\ acks = [c \in Clients |-> 0]

(* The last byte of the message has left the client.                       *)
Push(c) ==
  /\ client[c] = "alive"
  /\ call[c] = "idle"
  /\ call' = [call EXCEPT ![c] = "pushed"]
  /\ UNCHANGED <<up, client, calls, acks>>

(* The server has taken in the message.                                    *)
Serve(c) ==
  /\ up
  /\ call[c] = "pushed"
  /\ call' = [call EXCEPT ![c] = "served"]
  /\ UNCHANGED <<up, client, calls, acks>>

(* The call returns; the client goes on or has run for long enough.        *)
Return(c) ==
  /\ client[c] = "alive"
  /\ call' = [call EXCEPT ![c] = "idle"]
  /\ calls' = [calls EXCEPT ![c] = @ + 1]
  /\ \/ UNCHANGED client
     \/ client' = [client EXCEPT ![c] = "done"]
  /\ UNCHANGED up

Ack(c) ==
  /\ call[c] = "served"
  /\ acks' = [acks EXCEPT ![c] = @ + 1]
  /\ Return(c)

Fail(c) ==
  /\ ~up
  /\ Return(c)
  /\ UNCHANGED acks

Die(c) ==
  /\ client[c] = "alive"
  /\ client' = [client EXCEPT ![c] = "dead"]
  /\ UNCHANGED <<up, call, calls, acks>>

Crash(c) ==
  /\ up
  /\ client[c] = "dead"
  /\ call[c] = "served"
  /\ up' = FALSE
  /\ UNCHANGED <<client, call, calls, acks>>

Next ==
  \E c \in Clients : Push(c) \/ Serve(c) \/ Ack(c) \/ Fail(c) \/ Die(c) \/ Crash(c)

Spec == Init /\ [][Next]_vars
=============================================================================
