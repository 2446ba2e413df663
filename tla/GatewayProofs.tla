---------------------------- MODULE GatewayProofs ---------------------------
(***************************************************************************)
(* That a connection through the gateway leaves nothing behind and loses   *)
(* nothing at an orderly end, whatever the sizes of its buffers and however *)
(* much goes through it.                                                   *)
(***************************************************************************)
EXTENDS Gateway, TLAPS

\* Numbers are numbers; with GatewayTyped, the types.
CountsInv ==
  /\ upSent \in Nat /\ upHeld \in Nat /\ upDone \in Nat
  /\ downSent \in Nat /\ downHeld \in Nat /\ downOut \in Nat /\ downDone \in Nat

\* What the pumps and the socket are while the handler is where it is.
HandlerInv ==
  /\ handler \in {"admission", "connect"} => up = "none" /\ down = "none" /\ conn = "none"
  /\ handler = "accept" => up = "none" /\ down = "none" /\ conn = "open"
  /\ Running => up # "none" /\ down # "none" /\ conn = "open"
  /\ handler = "close" => up \in Finished /\ down \in Finished /\ conn = "closing"
  /\ handler = "goodbye" => up \in Finished /\ down \in Finished /\ conn = "closed"
  /\ handler = "ended" =>
       \/ up = "none" /\ down = "none" /\ conn \in {"none", "abandoned"}
       \/ up \in Finished /\ down \in Finished /\ conn = "closed"

\* Why a pump has ended, and that one ended of itself before any was cancelled.
PumpInv ==
  /\ up = "returned" => client = "left" /\ upHeld = upSent
  /\ down = "returned" => /\ xray # "open" /\ downHeld = downSent
                          /\ client = "here" => downOut = downHeld
  /\ down \in {"none", "read"} /\ client = "here" => downOut = downHeld
  /\ up = "raised" \/ down = "raised" => cut
  /\ handler = "wait" => up # "cancelled" /\ down # "cancelled"
  /\ handler \in {"gather", "close", "goodbye"} \/ conn = "closed" =>
       up \in {"returned", "raised"} \/ down \in {"returned", "raised"}

\* The socket is closed with an empty buffer.
FlushInv == conn = "closed" /\ xray = "open" => upDone = upHeld

GatewayInv == CountsInv /\ GatewayTyped /\ HandlerInv /\ PumpInv /\ FlushInv

LEMMA InitGateway == Init => GatewayInv
<1> USE GatewayConstants DEF Init, Running, Finished
<1>1. Init => CountsInv
  BY DEF CountsInv
<1>2. Init => GatewayTyped
  <2>1. Init => cut \in BOOLEAN
    BY Zenon
  <2>2. 0 <= 0 /\ 0 <= MaxData
    OBVIOUS
  <2> QED
    BY <2>1, <2>2, Zenon DEF GatewayTyped
<1>3. Init => HandlerInv /\ PumpInv /\ FlushInv
  BY DEF HandlerInv, PumpInv, FlushInv
<1> QED
  BY <1>1, <1>2, <1>3 DEF GatewayInv

LEMMA StepGateway == GatewayInv /\ [Next]_vars => GatewayInv'
<1> SUFFICES ASSUME GatewayInv, [Next]_vars PROVE GatewayInv'
  OBVIOUS
<1> USE GatewayConstants
        DEF GatewayInv, CountsInv, GatewayTyped, HandlerInv, PumpInv, FlushInv, Running, Finished,
            vars, pumps, ends, upward, downward
<1>1. CASE ClientSends
  BY <1>1 DEF ClientSends
<1>2. CASE ClientReads
  BY <1>2 DEF ClientReads
<1>3. CASE ClientLeaves
  BY <1>3 DEF ClientLeaves
<1>4. CASE XraySends
  BY <1>4 DEF XraySends
<1>5. CASE XrayReads
  BY <1>5 DEF XrayReads, Connected
<1>6. CASE XrayCloses
  BY <1>6 DEF XrayCloses
<1>7. CASE Admission
  BY <1>7 DEF Admission
<1>8. CASE Connect
  BY <1>8 DEF Connect
<1>9. CASE Accept
  BY <1>9 DEF Accept
<1>10. CASE AcceptRaises
  BY <1>10 DEF AcceptRaises
<1>11. CASE Wait
  BY <1>11 DEF Wait
<1>12. CASE Cancelled
  BY <1>12 DEF Cancelled
<1>13. CASE Close
  BY <1>13 DEF Close
<1>14. CASE WaitClosed
  BY <1>14 DEF WaitClosed, BufferEmpty
<1>15. CASE Goodbye
  BY <1>15 DEF Goodbye
<1>16. CASE Receive
  BY <1>16 DEF Receive
<1>17. CASE ReceiveDisconnect
  BY <1>17 DEF ReceiveDisconnect
<1>18. CASE Drain
  BY <1>18 DEF Drain
<1>19. CASE DrainRaises
  BY <1>19 DEF DrainRaises
<1>20. CASE Read
  BY <1>20 DEF Read
<1>21. CASE ReadEnd
  BY <1>21 DEF ReadEnd, AtEndOfData
<1>22. CASE ReadRaises
  BY <1>22 DEF ReadRaises
<1>23. CASE Send
  BY <1>23 DEF Send
<1>24. CASE SendToNobody
  <2>1. CASE down' = "read" /\ UNCHANGED cut
    BY <1>24, <2>1 DEF SendToNobody
  <2>2. CASE down' = "raised" /\ cut' = TRUE
    BY <1>24, <2>2 DEF SendToNobody
  <2> QED
    BY <1>24, <2>1, <2>2 DEF SendToNobody
<1>25. CASE UNCHANGED vars
  BY <1>25
<1> QED
  BY <1>1, <1>2, <1>3, <1>4, <1>5, <1>6, <1>7, <1>8, <1>9, <1>10, <1>11, <1>12, <1>13, <1>14, <1>15, <1>16, <1>17, <1>18, <1>19, <1>20, <1>21, <1>22, <1>23, <1>24, <1>25 DEF Next, Handler, UpPump, DownPump, Ends

LEMMA GatewayInvariant == Spec => []GatewayInv
  BY InitGateway, StepGateway, PTL DEF Spec

\* Types, and what arrives at a stage has passed the one before it.
THEOREM TunnelTyped == Spec => []GatewayTyped
<1>1. GatewayInv => GatewayTyped
  BY DEF GatewayInv
<1> QED
  BY <1>1, GatewayInvariant, PTL

\* However the ends behave, no pump and no open socket outlive the handler.
THEOREM TunnelLeavesNothing == Spec => []NothingLeft
<1>1. GatewayInv => NothingLeft
  BY DEF GatewayInv, HandlerInv, NothingLeft, Connected
<1> QED
  BY <1>1, GatewayInvariant, PTL

\* Nothing that Xray sent before an orderly end is kept from the client.
THEOREM DownIsComplete == Spec => []DownComplete
<1>1. GatewayInv => DownComplete
  BY DEF GatewayInv, HandlerInv, PumpInv, DownComplete, Finished
<1> QED
  BY <1>1, GatewayInvariant, PTL

\* Nothing that arrived from the client before an orderly end is kept from Xray.
THEOREM UpIsComplete == Spec => []UpComplete
<1>1. GatewayInv => UpComplete
  BY DEF GatewayInv, HandlerInv, PumpInv, FlushInv, UpComplete, Finished
<1> QED
  BY <1>1, GatewayInvariant, PTL
=============================================================================
