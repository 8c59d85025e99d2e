----------------------------- MODULE HubConnect -----------------------------
(***************************************************************************)
(* The attempt to connect over the stream of the WebSocket: the handshake  *)
(* of ConnectSetup is the reader's first record, and the records behind it *)
(* wait until the subscription is written and the reader starts            *)
(* (connection.go, connectSignalR, readHandshakeResponse and read;         *)
(* receiver.go, connect).                                                  *)
(***************************************************************************)
EXTENDS ConnectSetup, HubRecords

connectVars == << setupVars, vars >>

ConnectInit == SetupInit /\ Init

\* One message of the handshake.  A complete response is accepted or refused for
\* what it says (parseHandshakeResponse).
HandshakeMessage(m) ==
  /\ at = "reply"
  /\ ReadHandshake(m)
  /\ \/ pc' = "handshake" /\ UNCHANGED setupVars
     \/ pc' = "next" /\ HandshakeAccepted
     \/ pc' # "handshake" /\ HandshakeRefused

\* No text, or WebSocket data that is invalid.
HandshakeData == HandshakeRefused /\ UNCHANGED vars

\* signalRConnection.read has the connection.
Reading ==
  /\ at = "done" /\ outcome.kind = "connected"
  /\ TakeRecord \/ AwaitMore \/ RefuseRecord \/ \E m \in Messages : ReadMessage(m)
  /\ UNCHANGED setupVars

Over == /\ at = "done"
        /\ outcome.kind = "connected" => Ended
        /\ UNCHANGED connectVars

ConnectNext ==
  \/ (Clock \/ BeforeReply) /\ UNCHANGED vars
  \/ \E m \in Messages : HandshakeMessage(m)
  \/ HandshakeData
  \/ (Subscribe \/ SubscribeFails) /\ UNCHANGED vars
  \/ Reading
  \/ Over

ConnectSpec == ConnectInit /\ [][ConnectNext]_connectVars /\ SetupFairness

=============================================================================
