---------------------------- MODULE PlcDelivery ----------------------------
(***************************************************************************)
(* What PLC_ArqMac and PLC_HarqMac promise the applications above them,    *)
(* without channel, timers or sequence numbers: a node has at most one     *)
(* data frame outstanding; it hears of a frame that it was acknowledged    *)
(* only after the destination has forwarded it up, and hears at most one   *)
(* outcome.  The promise ends where the MAC's does: a node that receives a *)
(* data frame answers it with m_txPacket and m_awaiting_ack, and so        *)
(* abandons the frame it has outstanding, of which it hears no outcome.    *)
(***************************************************************************)
CONSTANTS Node, Frame, NoFrame

VARIABLES
  outstanding,  \* outstanding[n]: the frame n waits to hear of, or NoFrame
  accepted, delivered, acked, failed

vars == <<outstanding, accepted, delivered, acked, failed>>

Init ==
  /\ outstanding = [n \in Node |-> NoFrame]
  /\ accepted = {} /\ delivered = {} /\ acked = {} /\ failed = {}

(* A data frame the node n has not sent before.                            *)
Fresh(n, f) == f \in Frame \ accepted /\ f.type = "DATA" /\ f.src = n

Accept(n, f) ==
  /\ outstanding[n] = NoFrame
  /\ Fresh(n, f)
  /\ accepted' = accepted \cup {f}
  /\ outstanding' = [outstanding EXCEPT ![n] = f]
  /\ UNCHANGED <<delivered, acked, failed>>

(* The destination gets a frame, once or again; its application may answer *)
(* at once, with a frame that is abandoned with the rest.                  *)
Deliver(f) ==
  /\ f \in accepted
  /\ delivered' = delivered \cup {f}
  /\ outstanding' = [outstanding EXCEPT ![f.dst] = NoFrame]
  /\ \/ UNCHANGED accepted
     \/ /\ outstanding[f.dst] = NoFrame
        /\ \E g \in Frame : Fresh(f.dst, g) /\ accepted' = accepted \cup {g}
  /\ UNCHANGED <<acked, failed>>

Acknowledge(n) ==
  /\ outstanding[n] \in delivered
  /\ acked' = acked \cup {outstanding[n]}
  /\ outstanding' = [outstanding EXCEPT ![n] = NoFrame]
  /\ UNCHANGED <<accepted, delivered, failed>>

Fail(n) ==
  /\ outstanding[n] # NoFrame
  /\ failed' = failed \cup {outstanding[n]}
  /\ outstanding' = [outstanding EXCEPT ![n] = NoFrame]
  /\ UNCHANGED <<accepted, delivered, acked>>

Next ==
  \/ \E n \in Node : Acknowledge(n) \/ Fail(n)
  \/ \E f \in Frame : Deliver(f) \/ \E n \in Node : Accept(n, f)

Spec == Init /\ [][Next]_vars
=============================================================================
