------------------------------ MODULE Framing ------------------------------
(***************************************************************************)
(* sockets.c under the two marshalling layers: a packet is PACKET_LENGTH   *)
(* bytes of a TCP stream.  send_message puts all of them into the stream,  *)
(* receive_message is one read, which returns what has arrived, at least   *)
(* one byte and at most PACKET_LENGTH; neither side looks at how many.     *)
(* A request is its code followed by zeros: what it says besides is not    *)
(* told apart here.  One client, one thread of the server.                 *)
(***************************************************************************)
EXTENDS Integers, Sequences

CONSTANTS PACKET_LENGTH,  \* bytes of a packet, 512 in the code
          Requests,       \* codes of requests the client may send, among Known
          MaxRequests     \* bound: requests sent in a behaviour

\* Codes of protocol.h: of the requests wait_request knows, and of an answer.
Known == (0..3) \cup (6..11)
OK == 20

VARIABLES
  toServer,  \* bytes on their way to the server
  toClient,  \* bytes on their way to the client
  waiting,   \* the client is waiting for an answer
  sent,      \* history: codes of the requests the client sent
  handled    \* history: codes of the requests the server handled

vars == <<toServer, toClient, waiting, sent, handled>>

Init == /\ toServer = <<>> /\ toClient = <<>> /\ waiting = FALSE
        /\ sent = <<>> /\ handled = <<>>

Packet(code) == [i \in 1..PACKET_LENGTH |-> IF i = 1 THEN code ELSE 0]

\* The lengths a read of the stream may return.
Reads(stream) == {n \in 1..PACKET_LENGTH : n <= Len(stream)}
Rest(stream, n) == SubSeq(stream, n + 1, Len(stream))

\* client_send: one request at a time.
client_send == /\ ~waiting /\ Len(sent) < MaxRequests
               /\ \E code \in Requests : /\ toServer' = toServer \o Packet(code)
                                         /\ sent' = Append(sent, code)
               /\ waiting' = TRUE
               /\ UNCHANGED <<toClient, handled>>

\* wait_request and the handler's answer: buf[0] is taken for the code, and
\* what is not a code is ignored.
wait_request ==
  \E n \in Reads(toServer) :
    /\ toServer' = Rest(toServer, n)
    /\ IF toServer[1] \in Known
       THEN handled' = Append(handled, toServer[1]) /\ toClient' = toClient \o Packet(OK)
       ELSE UNCHANGED <<handled, toClient>>
    /\ UNCHANGED <<waiting, sent>>

\* client_rcv: whatever is there is the answer.
client_rcv == /\ waiting /\ waiting' = FALSE
              /\ \E n \in Reads(toClient) : toClient' = Rest(toClient, n)
              /\ UNCHANGED <<toServer, sent, handled>>

Next == client_send \/ wait_request \/ client_rcv

Spec == Init /\ [][Next]_vars

\* "El primer byte del paquete contiene el codigo de request"
\* (server_marshalling.c:106): the server handles the requests that were sent,
\* in their order, and no others.
HandledWereSent == /\ Len(handled) <= Len(sent)
                   /\ \A i \in DOMAIN handled : handled[i] = sent[i]
=============================================================================
