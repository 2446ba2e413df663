------------------------------ MODULE Gateway -------------------------------
(***************************************************************************)
(* One WebSocket connection through websocket_gateway (app/main.py): the   *)
(* handler, its two pump tasks, the client at one end and Xray's backend   *)
(* inbound at the other.                                                   *)
(*                                                                         *)
(* asyncio runs one task at a time: a step goes from one await to the      *)
(* next. Data are counted, in messages for a direction: every stage hands  *)
(* on in order, so the count says which. Backpressure is a full buffer.    *)
(***************************************************************************)
EXTENDS Naturals

CONSTANTS
  Cap,      \* messages a buffer holds before its writer has to wait
  MaxData   \* bound of the model: messages per direction

ASSUME GatewayConstants == Cap \in Nat \ {0} /\ MaxData \in Nat

VARIABLES
  handler,     \* the await the handler is in
  up, down,    \* the await the pump is in: _pump_ws_to_tcp, _pump_tcp_to_ws
  client,      \* "here", or "left": a closing frame, or a connection that is lost
  xray,        \* "open", "closed" after its FIN, "reset" after an RST
  conn,        \* the socket to Xray: "none", "open", "closing", "closed", "abandoned"
  upSent,      \* arrived from the client,
  upHeld,      \*   received from it,
  upDone,      \*   and read by Xray; the rest of upHeld is in the socket's buffer
  downSent,    \* sent by Xray,
  downHeld,    \*   read from the socket,
  downOut,     \*   handed to the server's send buffer,
  downDone,    \*   and read by the client
  cut          \* a pump was ended by something else than the end of its input

pumps == <<up, down>>
upward == <<upSent, upHeld, upDone>>
downward == <<downSent, downHeld, downOut, downDone>>
ends == <<client, xray, conn>>
vars == <<handler, pumps, ends, upward, downward, cut>>

Init ==
  /\ handler = "admission" /\ up = "none" /\ down = "none"
  /\ client = "here" /\ xray = "open" /\ conn = "none"
  /\ upSent = 0 /\ upHeld = 0 /\ upDone = 0
  /\ downSent = 0 /\ downHeld = 0 /\ downOut = 0 /\ downDone = 0
  /\ cut = FALSE

Connected == conn \in {"open", "closing"}
Finished == {"returned", "raised", "cancelled"}
-----------------------------------------------------------------------------
(* The two ends. *)

ClientSends ==
  /\ client = "here" /\ handler \notin {"admission", "connect", "accept", "ended"}
  /\ upSent < MaxData /\ upSent' = upSent + 1
  /\ UNCHANGED <<handler, pumps, ends, upHeld, upDone, downward, cut>>

ClientReads ==
  /\ client = "here" /\ downDone < downOut
  /\ downDone' = downDone + 1
  /\ UNCHANGED <<handler, pumps, ends, upward, downSent, downHeld, downOut, cut>>

ClientLeaves ==
  /\ client = "here" /\ handler # "ended"
  /\ client' = "left"
  /\ UNCHANGED <<handler, pumps, xray, conn, upward, downward, cut>>

XraySends ==
  /\ xray = "open" /\ conn = "open"
  /\ downSent < MaxData /\ downSent' = downSent + 1
  /\ UNCHANGED <<handler, pumps, ends, upward, downHeld, downOut, downDone, cut>>

XrayReads ==
  /\ xray = "open" /\ Connected /\ upDone < upHeld
  /\ upDone' = upDone + 1
  /\ UNCHANGED <<handler, pumps, ends, upSent, upHeld, downward, cut>>

\* The proxied connection is over, or Xray is restarted.
XrayCloses ==
  /\ xray = "open" /\ conn = "open"
  /\ xray' \in {"closed", "reset"}
  /\ UNCHANGED <<handler, pumps, client, conn, upward, downward, cut>>
-----------------------------------------------------------------------------
(* The handler. *)

\* Which paths are admitted is Links' Admitted. close(1008) refuses the handshake.
Admission ==
  /\ handler = "admission"
  /\ handler' \in {"connect", "ended"}
  /\ UNCHANGED <<pumps, ends, upward, downward, cut>>

\* open_connection succeeds, or is refused or takes five seconds: close(1011).
Connect ==
  /\ handler = "connect"
  /\ \/ handler' = "accept" /\ conn' = "open"
     \/ handler' = "ended" /\ UNCHANGED conn
  /\ UNCHANGED <<pumps, client, xray, upward, downward, cut>>

Accept ==
  /\ handler = "accept"
  /\ handler' = "wait" /\ up' = "receive" /\ down' = "read"
  /\ UNCHANGED <<ends, upward, downward, cut>>

\* The client has gone meanwhile: accept() raises outside the try statement, and the
\* socket is left to the garbage collector.
AcceptRaises ==
  /\ handler = "accept" /\ client = "left"
  /\ handler' = "ended" /\ conn' = "abandoned"
  /\ UNCHANGED <<pumps, client, xray, upward, downward, cut>>

\* Mutant: wait for both.
WaitForAll ==
  /\ handler = "wait" /\ up \in Finished /\ down \in Finished
  /\ handler' = "gather"
  /\ UNCHANGED <<pumps, ends, upward, downward, cut>>

\* asyncio.wait(FIRST_COMPLETED), then cancel() of the other.
Wait ==
  /\ handler = "wait" /\ (up \in Finished \/ down \in Finished)
  /\ handler' = "gather"
  /\ UNCHANGED <<pumps, ends, upward, downward, cut>>

\* A cancelled task ends at its next turn, in whichever await it is.
Cancelled ==
  /\ handler = "gather"
  /\ \/ up \notin Finished /\ up' = "cancelled" /\ UNCHANGED down
     \/ down \notin Finished /\ down' = "cancelled" /\ UNCHANGED up
  /\ UNCHANGED <<handler, ends, upward, downward, cut>>

\* Mutant: the cancelled tasks are not waited for.
CloseAtOnce ==
  /\ handler = "gather"
  /\ handler' = "close" /\ conn' = "closing"
  /\ UNCHANGED <<pumps, client, xray, upward, downward, cut>>

\* gather() is through; writer.close().
Close ==
  /\ handler = "gather" /\ up \in Finished /\ down \in Finished
  /\ handler' = "close" /\ conn' = "closing"
  /\ UNCHANGED <<pumps, client, xray, upward, downward, cut>>

\* Mutant: the socket is closed without regard to its buffer.
Flushed == TRUE

\* wait_closed(): the buffer is written first, unless the socket is no more.
BufferEmpty == upDone = upHeld \/ xray # "open"

WaitClosed ==
  /\ handler = "close" /\ BufferEmpty
  /\ handler' = "goodbye" /\ conn' = "closed"
  /\ UNCHANGED <<pumps, client, xray, upward, downward, cut>>

\* websocket.close(), unless the client is known to have gone.
Goodbye ==
  /\ handler = "goodbye"
  /\ handler' = "ended"
  /\ UNCHANGED <<pumps, ends, upward, downward, cut>>
-----------------------------------------------------------------------------
(* _pump_ws_to_tcp. *)

Running == handler \in {"wait", "gather"}

\* A message is received and written at once; writing to a peer that has closed is
\* answered with a reset.
Receive ==
  /\ Running /\ up = "receive" /\ upHeld < upSent
  /\ upHeld' = upHeld + 1 /\ up' = "drain"
  /\ xray' = IF xray = "closed" THEN "reset" ELSE xray
  /\ UNCHANGED <<handler, down, client, conn, upSent, upDone, downward, cut>>

\* Disconnect comes after the messages that were sent before it.
ReceiveDisconnect ==
  /\ Running /\ up = "receive" /\ upHeld = upSent /\ client = "left"
  /\ up' = "returned"
  /\ UNCHANGED <<handler, down, client, xray, conn, upward, downward, cut>>

Drain ==
  /\ Running /\ up = "drain" /\ xray # "reset" /\ upHeld - upDone < Cap
  /\ up' = "receive"
  /\ UNCHANGED <<handler, down, ends, upward, downward, cut>>

DrainRaises ==
  /\ Running /\ up = "drain" /\ xray = "reset"
  /\ up' = "raised" /\ cut' = TRUE
  /\ UNCHANGED <<handler, down, ends, upward, downward>>
-----------------------------------------------------------------------------
(* _pump_tcp_to_ws. *)

\* Mutant: a pump runs when the other has stopped.
ReadInTurn ==
  /\ Running /\ down = "read" /\ xray # "reset" /\ up \in Finished
  /\ downHeld < downSent /\ downHeld' = downHeld + 1 /\ down' = "send"
  /\ UNCHANGED <<handler, up, ends, upward, downSent, downOut, downDone, cut>>

Read ==
  /\ Running /\ down = "read" /\ xray # "reset"
  /\ downHeld < downSent /\ downHeld' = downHeld + 1 /\ down' = "send"
  /\ UNCHANGED <<handler, up, ends, upward, downSent, downOut, downDone, cut>>

\* Mutant: the end is noticed before what precedes it is read.
AtEnd == xray = "closed"

AtEndOfData == xray = "closed" /\ downHeld = downSent

ReadEnd ==
  /\ Running /\ down = "read" /\ AtEndOfData
  /\ down' = "returned"
  /\ UNCHANGED <<handler, up, ends, upward, downward, cut>>

\* After a reset, read() raises and what was buffered is gone.
ReadRaises ==
  /\ Running /\ down = "read" /\ xray = "reset"
  /\ down' = "raised" /\ cut' = TRUE
  /\ UNCHANGED <<handler, up, ends, upward, downward>>

\* Mutant: a message that had to wait is sent again.
SendAgain ==
  /\ Running /\ down = "send" /\ client = "here" /\ downOut - downDone < Cap
  /\ downOut' = downOut + 1 /\ down' \in {"send", "read"}
  /\ UNCHANGED <<handler, up, ends, upward, downSent, downHeld, downDone, cut>>

Send ==
  /\ Running /\ down = "send" /\ client = "here" /\ downOut - downDone < Cap
  /\ downOut' = downHeld /\ down' = "read"
  /\ UNCHANGED <<handler, up, ends, upward, downSent, downHeld, downDone, cut>>

\* To a client that has left, a message is dropped or the server raises.
SendToNobody ==
  /\ Running /\ down = "send" /\ client = "left"
  /\ \/ down' = "read" /\ UNCHANGED cut
     \/ down' = "raised" /\ cut' = TRUE
  /\ UNCHANGED <<handler, up, ends, upward, downward>>
-----------------------------------------------------------------------------
Handler ==
  Admission \/ Connect \/ Accept \/ AcceptRaises \/ Wait \/ Cancelled \/ Close \/ WaitClosed \/ Goodbye

UpPump == Receive \/ ReceiveDisconnect \/ Drain \/ DrainRaises

DownPump == Read \/ ReadEnd \/ ReadRaises \/ Send \/ SendToNobody

Ends == ClientSends \/ ClientReads \/ ClientLeaves \/ XraySends \/ XrayReads \/ XrayCloses

Next == Handler \/ UpPump \/ DownPump \/ Ends

Spec == Init /\ [][Next]_vars

\* The event loop runs every task that can run. The ends read what they are sent; that
\* they send, leave or close is not assumed.
FairSpec ==
  Spec /\ WF_vars(Handler) /\ WF_vars(UpPump) /\ WF_vars(DownPump)
       /\ WF_vars(ClientReads) /\ WF_vars(XrayReads)
-----------------------------------------------------------------------------
(* Properties. *)

\* Types, and the order of the stages.
GatewayTyped ==
  /\ handler \in {"admission", "connect", "accept", "wait", "gather", "close", "goodbye", "ended"}
  /\ up \in {"none", "receive", "drain"} \cup Finished
  /\ down \in {"none", "read", "send"} \cup Finished
  /\ client \in {"here", "left"} /\ cut \in BOOLEAN
  /\ xray \in {"open", "closed", "reset"}
  /\ conn \in {"none", "open", "closing", "closed", "abandoned"}
  /\ upDone <= upHeld /\ upHeld <= upSent /\ upSent <= MaxData
  /\ downDone <= downOut /\ downOut <= downHeld /\ downHeld <= downSent /\ downSent <= MaxData

\* However the connection ends, no pump outlives the handler with a socket in its hands,
\* and the socket to Xray is closed, or left to the collector if accept() raised.
NothingLeft ==
  handler = "ended" =>
    /\ ~Connected
    /\ up \in Finished \cup {"none"} /\ down \in Finished \cup {"none"}

\* When Xray ends the connection, the client is sent all that Xray had sent before it is
\* told goodbye, unless the client left or its own data were answered with a reset.
DownComplete ==
  handler = "ended" /\ conn = "closed" /\ client = "here" /\ ~cut => downOut = downSent

\* When the client ends it, Xray gets all that the client had sent, unless Xray closed or
\* the server raised while it was sending to the client that had left.
UpComplete ==
  handler = "ended" /\ conn = "closed" /\ xray = "open" /\ ~cut => upDone = upSent

\* When either end has gone, the handler ends, whatever the pumps were waiting for.
HandlerEnds == (client = "left" \/ xray # "open") ~> handler = "ended"

Over == client = "left" \/ xray # "open"

\* Neither direction waits for the other: what arrives is delivered as long as both ends
\* stay, even if one of them sends nothing.
BothFlow ==
  \A n \in 1..MaxData :
    /\ (upSent >= n) ~> (upDone >= n \/ Over)
    /\ (downSent >= n) ~> (downDone >= n \/ Over)
=============================================================================
