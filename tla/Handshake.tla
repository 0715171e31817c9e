----------------------------- MODULE Handshake -----------------------------
(***************************************************************************)
(* What the connection handshake promises, per connection request         *)
(* (spec.md 4.2): ARRIVED -> {ADMITTED | QUEUED -> ADMITTED | REJECTED}.   *)
(* Only a tryConnect request may be rejected and only a connect request   *)
(* may be queued; a queued request that is woken by a shutdown is         *)
(* cancelled; an admitted session is served and then closed.  Every       *)
(* request a handler has taken up is eventually decided.                  *)
(*                                                                         *)
(* The admission module's handler and client steps implement this         *)
(* specification under the mapping defined there.                         *)
(***************************************************************************)
CONSTANTS Clients

Modes == {"CONNECT", "TRY_CONNECT"}
Phases == {"NEW", "SENT", "ARRIVED", "QUEUED", "ADMITTED", "REJECTED",
           "CANCELLED", "CLOSED"}

VARIABLES
  phase,  \* where each client's connection request is in the handshake
  kind    \* the connection type the client asked for

vars == <<phase, kind>>

Init ==
  /\ phase = [c \in Clients |-> "NEW"]
  /\ kind = [c \in Clients |-> "CONNECT"]

Move(c, from, to) ==
  /\ phase[c] = from
  /\ phase' = [phase EXCEPT ![c] = to]

(* The client sends its request with the connection type it chose.        *)
Send(c, m) == Move(c, "NEW", "SENT") /\ kind' = [kind EXCEPT ![c] = m]

(* A handler takes the request up.                                        *)
Arrive(c) == Move(c, "SENT", "ARRIVED") /\ UNCHANGED kind

(* The handler's decision on a full queue or a free slot.                 *)
Reject(c) == kind[c] = "TRY_CONNECT" /\ Move(c, "ARRIVED", "REJECTED")
                                    /\ UNCHANGED kind
Enqueue(c) == kind[c] = "CONNECT" /\ Move(c, "ARRIVED", "QUEUED")
                                 /\ UNCHANGED kind
AdmitNow(c) == Move(c, "ARRIVED", "ADMITTED") /\ UNCHANGED kind
Decide(c) == Reject(c) \/ Enqueue(c) \/ AdmitNow(c)

(* A queued request is woken: admitted, or cancelled by a shutdown.       *)
Wake(c) == Move(c, "QUEUED", "ADMITTED") /\ UNCHANGED kind
Cancel(c) == Move(c, "QUEUED", "CANCELLED") /\ UNCHANGED kind

(* The session ends.                                                      *)
Close(c) == Move(c, "ADMITTED", "CLOSED") /\ UNCHANGED kind

Next ==
  \E c \in Clients :
    \/ \E m \in Modes : Send(c, m)
    \/ Arrive(c) \/ Decide(c) \/ Wake(c) \/ Cancel(c) \/ Close(c)

(* A request that has arrived is decided: the handler's check of the      *)
(* queue size never blocks.  Waking a queued request depends on other     *)
(* sessions ending, which this specification does not model, so it is    *)
(* not required here (the admission module states it separately).        *)
Spec == Init /\ [][Next]_vars /\ \A c \in Clients : WF_vars(Decide(c))

=============================================================================
