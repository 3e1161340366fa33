------------------------------ MODULE Transfer ------------------------------
(***************************************************************************)
(* A list on its way to the client: send_movies, send_screenings and       *)
(* send_tickets (server_marshalling.c), which are alike, against           *)
(* get_movies, get_screenings and get_tickets (client_marshalling.c).  The *)
(* server announces TRANSACTION_BEGIN and then sends one ITEM for each     *)
(* NEXT, holding the lock all the while; END, or OK to a client that did   *)
(* not ask for more, closes the transfer.  Either process may die at any   *)
(* point.  TCP keeps packets whole and in order here; the contents of a    *)
(* packet are its code and the item it carries.                            *)
(***************************************************************************)
EXTENDS Integers, Sequences

CONSTANTS Items,   \* the rows a list may have
          Lists,   \* the lists a query may return
          NoList   \* a get_* that has not returned

ASSUME ListsAssumption == Lists \subseteq Seq(Items) /\ NoList \notin Seq(Items)

VARIABLES items,   \* the ListADT to send
          next,    \* ListIteratorADT: the position of the next item
          sbuf,    \* the server's buf[0]
          spc,     \* the server: begin, receive, test, done, dead
          cpc,     \* the client: begin, loop, done, gone
          got,     \* the client's list
          c2s, s2c \* packets on their way

vars == <<items, next, sbuf, spc, cpc, got, c2s, s2c>>

Packet(code) == [code |-> code]
Item(x) == [code |-> "ITEM", item |-> x]

\* A list length stored in a char.
Char(n) == ((n + 128) % 256) - 128
Begin(n) == [code |-> "BEGIN", count |-> Char(n)]

Init == /\ items \in Lists
        /\ next = 1 /\ sbuf = "BEGIN" /\ spc = "begin"
        /\ cpc = "begin" /\ got = <<>>
        /\ c2s = <<>> /\ s2c = <<>>

-----------------------------------------------------------------------------
(* The server.                                                             *)

\* send_message: to a client that is gone the packet is lost, and the error
\* is ignored.
ToClient(p) == s2c' = IF cpc = "gone" THEN s2c ELSE Append(s2c, p)

\* Mutant: streams without waiting for the first NEXT.
send_begin_Eager == /\ spc = "begin" /\ spc' = "test"
                    /\ sbuf' = "NEXT" /\ ToClient(Begin(Len(items)))
                    /\ UNCHANGED <<items, next, cpc, got, c2s>>

send_begin == /\ spc = "begin" /\ spc' = "receive"
              /\ sbuf' = "BEGIN" /\ ToClient(Begin(Len(items)))
              /\ UNCHANGED <<items, next, cpc, got, c2s>>

\* Mutant: a receive that retries at the end of the connection.
receive_Retry == /\ spc = "receive" /\ spc' = "test"
                 /\ c2s # <<>> /\ sbuf' = Head(c2s).code /\ c2s' = Tail(c2s)
                 /\ UNCHANGED <<items, next, cpc, got, s2c>>

\* receive_message.  Its result is ignored too: at the end of the connection
\* buf keeps the packet that was sent last.
receive == /\ spc = "receive" /\ spc' = "test"
           /\ \/ /\ c2s # <<>>
                 /\ sbuf' = Head(c2s).code /\ c2s' = Tail(c2s)
              \/ /\ c2s = <<>> /\ cpc = "gone" /\ UNCHANGED <<sbuf, c2s>>
           /\ UNCHANGED <<items, next, cpc, got, s2c>>

\* Mutant: iter_get_next is called twice.
send_item_Skip == /\ spc = "test" /\ sbuf = "NEXT" /\ next <= Len(items)
                  /\ next' = next + 2
                  /\ sbuf' = "ITEM" /\ ToClient(Item(items[next]))
                  /\ spc' = "receive"
                  /\ UNCHANGED <<items, cpc, got, c2s>>

\* Mutant: the item is built in another buffer, so buf[0] is still NEXT.
send_item_Stale == /\ spc = "test" /\ sbuf = "NEXT" /\ next <= Len(items)
                   /\ next' = next + 1 /\ ToClient(Item(items[next]))
                   /\ spc' = "receive"
                   /\ UNCHANGED <<items, sbuf, cpc, got, c2s>>

send_item == /\ spc = "test" /\ sbuf = "NEXT" /\ next <= Len(items)
             /\ next' = next + 1
             /\ sbuf' = "ITEM" /\ ToClient(Item(items[next]))
             /\ spc' = "receive"
             /\ UNCHANGED <<items, cpc, got, c2s>>

\* Mutant: ends with one item left.
send_end_Early == /\ spc = "test" /\ ~(sbuf = "NEXT" /\ next < Len(items))
                  /\ spc' = "done"
                  /\ sbuf' = IF sbuf = "NEXT" THEN "END" ELSE "OK"
                  /\ ToClient(Packet(sbuf'))
                  /\ UNCHANGED <<items, next, cpc, got, c2s>>

\* Mutant: leaves without telling the client.
send_end_Silent == /\ spc = "test" /\ ~(sbuf = "NEXT" /\ next <= Len(items))
                   /\ spc' = "done"
                   /\ UNCHANGED <<items, next, sbuf, cpc, got, c2s, s2c>>

\* The loop is over; leave_critical follows.
send_end == /\ spc = "test" /\ ~(sbuf = "NEXT" /\ next <= Len(items))
            /\ spc' = "done"
            /\ sbuf' = IF sbuf = "NEXT" THEN "END" ELSE "OK"
            /\ ToClient(Packet(sbuf'))
            /\ UNCHANGED <<items, next, cpc, got, c2s>>

Server == send_begin \/ receive \/ send_item \/ send_end

server_dies == /\ spc # "dead" /\ spc' = "dead" /\ c2s' = <<>>
               /\ UNCHANGED <<items, next, sbuf, cpc, got, s2c>>

-----------------------------------------------------------------------------
(* The client.                                                             *)

\* client_send: to a server that is gone the packet is lost, and the next
\* client_rcv ends the program.
ToServer(p) == c2s' = IF spc = "dead" THEN c2s ELSE Append(c2s, p)

receive_begin ==
  /\ cpc = "begin" /\ s2c # <<>> /\ s2c' = Tail(s2c)
  /\ IF Head(s2c).code = "BEGIN"
     THEN cpc' = "loop" /\ ToServer(Packet("NEXT"))
     ELSE cpc' = "done" /\ UNCHANGED c2s
  /\ UNCHANGED <<items, next, sbuf, spc, got>>

\* Mutant: the item is kept but the next one is not asked for.
receive_item_Unasked ==
  /\ cpc = "loop" /\ s2c # <<>> /\ Head(s2c).code = "ITEM"
  /\ s2c' = Tail(s2c)
  /\ got' = Append(got, Head(s2c).item)
  /\ UNCHANGED <<items, next, sbuf, spc, cpc, c2s>>

receive_item ==
  /\ cpc = "loop" /\ s2c # <<>> /\ Head(s2c).code = "ITEM"
  /\ s2c' = Tail(s2c)
  /\ got' = Append(got, Head(s2c).item)
  /\ ToServer(Packet("NEXT"))
  /\ UNCHANGED <<items, next, sbuf, spc, cpc>>

\* Any other packet ends the list: without END only a warning is printed.
receive_end ==
  /\ cpc = "loop" /\ s2c # <<>> /\ Head(s2c).code # "ITEM"
  /\ s2c' = Tail(s2c) /\ cpc' = "done"
  /\ UNCHANGED <<items, next, sbuf, spc, got, c2s>>

\* client_rcv at the end of the connection: exit(1).
connection_closed == /\ cpc \in {"begin", "loop"} /\ s2c = <<>> /\ spc = "dead"
                     /\ cpc' = "gone"
                     /\ UNCHANGED <<items, next, sbuf, spc, got, c2s, s2c>>

Client == receive_begin \/ receive_item \/ receive_end \/ connection_closed

\* What it had sent may still arrive, or not.
client_dies == /\ cpc \in {"begin", "loop"} /\ cpc' = "gone"
               /\ s2c' = <<>> /\ c2s' \in {c2s, <<>>}
               /\ UNCHANGED <<items, next, sbuf, spc, got>>

Next == Server \/ Client \/ server_dies \/ client_dies

Spec == Init /\ [][Next]_vars

\* Both processes run when they can: inside get_* the client never waits for
\* its user.
FairSpec == Spec /\ WF_vars(Server) /\ WF_vars(Client)

-----------------------------------------------------------------------------
Packets == [code : {"NEXT", "END", "OK"}] \cup [code : {"BEGIN"}, count : Int]
             \cup [code : {"ITEM"}, item : Items]

TypeOK == /\ items \in Seq(Items) /\ got \in Seq(Items)
          /\ next \in 1..Len(items) + 1
          /\ sbuf \in {"BEGIN", "ITEM", "NEXT", "END", "OK"}
          /\ spc \in {"begin", "receive", "test", "done", "dead"}
          /\ cpc \in {"begin", "loop", "done", "gone"}
          /\ c2s \in Seq(Packets) /\ s2c \in Seq(Packets)

\* At most one packet is on its way between the two, in whichever direction:
\* a send under the lock never waits for room in a socket, and no packet is
\* left over for the request that comes next.
OneInFlight == /\ Len(c2s) + Len(s2c) <= 1
               /\ cpc = "done" => c2s = <<>> /\ s2c = <<>>

\* The client's list is always a beginning of the server's, in its order.
ReceivedInOrder == /\ Len(got) <= Len(items)
                   /\ \A i \in 1..Len(got) : got[i] = items[i]

\* A client that died is not served on: after it is gone at most the item it
\* had asked for is still taken from the list (the stale buf[0] is not NEXT).
NotServedOn == [][cpc = "gone" /\ next' # next => next = Len(got) + 1]_vars

\* The transfer is all or nothing, as CinemaServer takes it to be.
Answer == INSTANCE ListAnswer WITH
            list <- items,
            inside <- spc \notin {"done", "dead"},
            received <- IF cpc = "done" THEN got ELSE NoList
AllOrNothing == Answer!AnswerSpec

-----------------------------------------------------------------------------
(* The inductive invariant: where the two programs are with respect to one *)
(* another and to the one packet between them.                             *)

Awaiting == spc = "begin" => next = 1 /\ cpc \in {"begin", "gone"}

Starting == cpc = "begin" =>
  /\ got = <<>> /\ next = 1 /\ c2s = <<>>
  /\ \/ s2c = <<>> /\ spc \in {"begin", "dead"}
     \/ s2c = <<Begin(Len(items))>> /\ spc \in {"receive", "dead"}

ItemOnItsWay == /\ spc \in {"receive", "dead"} /\ c2s = <<>>
                /\ next = Len(got) + 2 /\ s2c = <<Item(items[next - 1])>>
NextOnItsWay == /\ spc = "receive" /\ s2c = <<>>
                /\ next = Len(got) + 1 /\ c2s = <<Packet("NEXT")>>
NextArrived == /\ spc = "test" /\ s2c = <<>> /\ c2s = <<>>
               /\ next = Len(got) + 1 /\ sbuf = "NEXT"
EndOnItsWay == /\ spc \in {"done", "dead"} /\ c2s = <<>>
               /\ got = items /\ s2c = <<Packet("END")>>
Lost == spc = "dead" /\ s2c = <<>> /\ c2s = <<>>

Looping == cpc = "loop" =>
  ItemOnItsWay \/ NextOnItsWay \/ NextArrived \/ EndOnItsWay \/ Lost

Complete == cpc = "done" =>
  got = items /\ s2c = <<>> /\ c2s = <<>> /\ spc \in {"done", "dead"}

Abandoned == cpc = "gone" =>
  /\ s2c = <<>>
  /\ c2s = <<>> \/ NextOnItsWay
  /\ spc = "test" /\ sbuf = "NEXT" => next = Len(got) + 1

\* The server reads buf[0] after a receive that may have failed: what is left
\* there is then what it sent, never an old NEXT (send_*, server_marshalling.c);
\* and each packet between the two fits the place both programs are at.
Inv == /\ TypeOK /\ ReceivedInOrder
       /\ spc = "receive" => sbuf # "NEXT"
       /\ Awaiting /\ Starting /\ Looping /\ Complete /\ Abandoned

-----------------------------------------------------------------------------
\* The lock is given back, also if the client dies in the middle of its list.
ServerLeaves == <>(spc \in {"done", "dead"})

\* get_* returns or the program exits.
ClientReturns == <>(cpc \in {"done", "gone"})
=============================================================================
