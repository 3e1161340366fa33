--------------------------- MODULE TransferProofs ---------------------------
(***************************************************************************)
(* A list transfer is all or nothing, for lists of any length and wherever *)
(* either process dies: the invariant Inv of Transfer is inductive, and    *)
(* with it every step is a step of ListAnswer or a stutter.                *)
(***************************************************************************)
EXTENDS Transfer, TLAPS

\* The operators on sequences of at most one packet.
LEMMA OnePacket ==
  ASSUME NEW p
  PROVE  /\ Append(<<>>, p) = <<p>> /\ Head(<<p>>) = p /\ Tail(<<p>>) = <<>>
         /\ <<p>> # <<>> /\ Len(<<p>>) = 1
OBVIOUS

\* No packet.
LEMMA NoPacket == Len(<<>>) = 0
OBVIOUS

\* What the two programs send has the type of a packet.
LEMMA PacketTypes ==
  /\ \A x \in Items : Item(x) \in Packets
  /\ \A n \in Nat : Begin(n) \in Packets
  /\ \A code \in {"NEXT", "END", "OK"} : Packet(code) \in Packets
<1>1. \A n \in Nat : Char(n) \in Int
  BY DEF Char
<1> QED
  BY <1>1 DEF Item, Begin, Packet, Packets

\* The codes tell the packets apart.
LEMMA PacketCodes ==
  /\ \A x : Item(x).code = "ITEM" /\ Item(x).item = x
  /\ \A n : Begin(n).code = "BEGIN"
  /\ \A code : Packet(code).code = code
BY DEF Item, Begin, Packet

\* A packet alone is a sequence of packets.
LEMMA SingletonSeq ==
  ASSUME NEW S, NEW p \in S
  PROVE  <<p>> \in Seq(S) /\ <<>> \in Seq(S)
OBVIOUS

\* Two lists of equal length with equal items are equal.
LEMMA SameList ==
  ASSUME NEW S, NEW a \in Seq(S), NEW b \in Seq(S), Len(a) = Len(b),
         \A i \in 1..Len(a) : a[i] = b[i]
  PROVE  a = b
OBVIOUS

-----------------------------------------------------------------------------
\* The transfer starts in the invariant.
LEMMA InitInv == Init => Inv
<1> SUFFICES ASSUME Init PROVE Inv
  OBVIOUS
<1>1. items \in Seq(Items) /\ Len(items) \in Nat
  BY ListsAssumption DEF Init
<1>2. TypeOK
  BY <1>1 DEF Init, TypeOK
<1> QED
  BY <1>1, <1>2, NoPacket DEF Init, Inv, ReceivedInOrder, Awaiting, Starting, Looping, Complete, Abandoned

\* send_begin: the client has not moved yet.
LEMMA SendBeginInv == ASSUME Inv, send_begin PROVE Inv'
<1>1. /\ TypeOK /\ spc = "begin" /\ next = 1 /\ cpc \in {"begin", "gone"} /\ Len(items) \in Nat
      /\ s2c = <<>> /\ c2s = <<>> /\ Begin(Len(items)) \in Packets
  BY PacketTypes, OnePacket DEF Inv, send_begin, Awaiting, Starting, Abandoned, NextOnItsWay, TypeOK
<1>2. /\ spc' = "receive" /\ sbuf' = "BEGIN" /\ UNCHANGED <<items, next, cpc, got, c2s>>
      /\ s2c' = IF cpc = "gone" THEN <<>> ELSE <<Begin(Len(items))>>
  BY <1>1, OnePacket DEF send_begin, ToClient
<1>3. TypeOK'
  BY <1>1, <1>2, SingletonSeq DEF TypeOK
<1> QED
  BY <1>1, <1>2, <1>3 DEF Inv, ReceivedInOrder, Awaiting, Starting, Looping, Complete, Abandoned

\* receive: a NEXT, or what was sent when the client is gone.
LEMMA ReceiveInv == ASSUME Inv, receive PROVE Inv'
<1>1. TypeOK /\ spc = "receive" /\ sbuf # "NEXT" /\ spc' = "test" /\ UNCHANGED <<items, next, cpc, got, s2c>>
  BY DEF Inv, receive
<1>2. CASE c2s # <<>>
  <2>1. NextOnItsWay /\ cpc \in {"loop", "gone"}
    BY <1>1, <1>2 DEF Inv, TypeOK, Starting, Looping, Complete, Abandoned, ItemOnItsWay, NextArrived,
                      EndOnItsWay, Lost
  <2>2. sbuf' = "NEXT" /\ c2s' = <<>>
    BY <1>1, <1>2, <2>1, OnePacket, PacketCodes DEF receive, NextOnItsWay
  <2>3. TypeOK'
    BY <1>1, <2>2, SingletonSeq DEF TypeOK
  <2>4. NextArrived'
    BY <1>1, <2>1, <2>2 DEF NextOnItsWay, NextArrived
  <2> QED
    BY <1>1, <2>1, <2>2, <2>3, <2>4
       DEF Inv, ReceivedInOrder, Awaiting, Starting, Looping, Complete, Abandoned, NextOnItsWay
<1>3. CASE c2s = <<>>
  <2>1. cpc = "gone" /\ UNCHANGED <<sbuf, c2s>>
    BY <1>3 DEF receive
  <2> QED
    BY <1>1, <1>3, <2>1 DEF Inv, TypeOK, ReceivedInOrder, Awaiting, Starting, Looping, Complete, Abandoned
<1> QED
  BY <1>2, <1>3

\* send_item: the item after the ones the client has.
LEMMA SendItemInv == ASSUME Inv, send_item PROVE Inv'
<1>1. /\ TypeOK /\ spc = "test" /\ sbuf = "NEXT" /\ next <= Len(items) /\ next \in Nat /\ next >= 1
      /\ Len(items) \in Nat /\ items[next] \in Items /\ next + 1 - 1 = next
  BY DEF Inv, send_item, TypeOK
<1>2. /\ cpc \in {"loop", "gone"} /\ s2c = <<>> /\ c2s = <<>> /\ next = Len(got) + 1
  BY <1>1 DEF Inv, TypeOK, Starting, Looping, Complete, Abandoned, ItemOnItsWay, NextOnItsWay, NextArrived,
              EndOnItsWay, Lost
<1>3. /\ spc' = "receive" /\ sbuf' = "ITEM" /\ next' = next + 1 /\ UNCHANGED <<items, cpc, got, c2s>>
      /\ s2c' = IF cpc = "gone" THEN <<>> ELSE <<Item(items[next])>>
  BY <1>2, OnePacket DEF send_item, ToClient
<1>4. TypeOK'
  <2>1. Item(items[next]) \in Packets
    BY <1>1, PacketTypes
  <2> QED
    BY <1>1, <1>3, <2>1, SingletonSeq DEF TypeOK
<1>5. cpc = "loop" => ItemOnItsWay'
  <2>1. Len(got) \in Nat
    BY <1>1 DEF TypeOK
  <2>2. next' = Len(got)' + 2 /\ items[next] = items'[next' - 1]
    BY <1>1, <1>2, <1>3, <2>1
  <2> QED
    BY <1>2, <1>3, <2>2 DEF ItemOnItsWay, Item
<1> QED
  BY <1>1, <1>2, <1>3, <1>4, <1>5
     DEF Inv, ReceivedInOrder, Awaiting, Starting, Looping, Complete, Abandoned

\* send_end: after a NEXT the client has the whole list.
LEMMA SendEndInv == ASSUME Inv, send_end PROVE Inv'
<1>1. /\ TypeOK /\ spc = "test" /\ ~(sbuf = "NEXT" /\ next <= Len(items)) /\ next \in Nat
      /\ Len(items) \in Nat /\ Len(got) \in Nat
  BY DEF Inv, send_end, TypeOK
<1>2. cpc \in {"loop", "gone"} /\ s2c = <<>> /\ c2s = <<>> /\ (cpc = "loop" => NextArrived)
  BY <1>1 DEF Inv, TypeOK, Starting, Looping, Complete, Abandoned, ItemOnItsWay, NextOnItsWay,
              EndOnItsWay, Lost, NextArrived
<1>3. /\ spc' = "done" /\ UNCHANGED <<items, next, cpc, got, c2s>>
      /\ sbuf' = IF sbuf = "NEXT" THEN "END" ELSE "OK"
      /\ s2c' = IF cpc = "gone" THEN <<>> ELSE <<Packet(sbuf')>>
  BY <1>2, OnePacket DEF send_end, ToClient
<1>4. TypeOK'
  <2>1. Packet(sbuf') \in Packets
    BY <1>3, PacketTypes
  <2> QED
    BY <1>1, <1>3, <2>1, SingletonSeq DEF TypeOK
<1>5. cpc = "loop" => EndOnItsWay'
  <2> SUFFICES ASSUME cpc = "loop" PROVE EndOnItsWay'
    OBVIOUS
  <2>1. sbuf = "NEXT" /\ Len(got) = Len(items)
    BY <1>1, <1>2 DEF NextArrived, TypeOK, Inv, ReceivedInOrder
  <2>2. got = items
    BY <1>1, <2>1, SameList DEF TypeOK, Inv, ReceivedInOrder
  <2> QED
    BY <1>2, <1>3, <2>1, <2>2 DEF EndOnItsWay, Packet
<1> QED
  BY <1>1, <1>2, <1>3, <1>4, <1>5
     DEF Inv, ReceivedInOrder, Awaiting, Starting, Looping, Complete, Abandoned

\* receive_begin: the first packet is BEGIN, and the first NEXT follows it.
LEMMA ReceiveBeginInv == ASSUME Inv, receive_begin PROVE Inv'
<1>1. /\ TypeOK /\ cpc = "begin" /\ s2c # <<>> /\ got = <<>> /\ next = 1 /\ c2s = <<>>
      /\ s2c = <<Begin(Len(items))>> /\ spc \in {"receive", "dead"}
  BY DEF Inv, receive_begin, Starting
<1>2. /\ cpc' = "loop" /\ s2c' = <<>> /\ UNCHANGED <<items, next, sbuf, spc, got>>
      /\ c2s' = IF spc = "dead" THEN <<>> ELSE <<Packet("NEXT")>>
  BY <1>1, OnePacket, PacketCodes DEF receive_begin, ToServer
<1>3. TypeOK'
  <2>1. Packet("NEXT") \in Packets
    BY PacketTypes
  <2> QED
    BY <1>1, <1>2, <2>1, SingletonSeq DEF TypeOK
<1>4. spc # "dead" => NextOnItsWay'
  BY <1>1, <1>2, NoPacket DEF NextOnItsWay, Packet
<1>5. spc = "dead" => Lost'
  BY <1>1, <1>2 DEF Lost
<1> QED
  BY <1>1, <1>2, <1>3, <1>4, <1>5
     DEF Inv, ReceivedInOrder, Awaiting, Starting, Looping, Complete, Abandoned

\* receive_item: the client's list grows by the item it did not have yet.
LEMMA ReceiveItemInv == ASSUME Inv, receive_item PROVE Inv'
<1>1. TypeOK /\ cpc = "loop" /\ s2c # <<>> /\ Head(s2c).code = "ITEM"
  BY DEF Inv, receive_item
<1>2. ItemOnItsWay
  <2>1. ~EndOnItsWay
    BY <1>1, OnePacket, PacketCodes DEF EndOnItsWay
  <2> QED
    BY <1>1, <2>1 DEF Inv, Looping, NextOnItsWay, NextArrived, Lost
<1> DEFINE x == items[next - 1]
<1>3. /\ next - 1 \in 1..Len(items) /\ x \in Items /\ Len(got) \in Nat /\ next - 1 = Len(got) + 1
      /\ Len(items) \in Nat /\ next \in Nat
  BY <1>1, <1>2 DEF TypeOK, ItemOnItsWay
<1>4. /\ s2c' = <<>> /\ got' = Append(got, x) /\ UNCHANGED <<items, next, sbuf, spc, cpc>>
      /\ c2s' = IF spc = "dead" THEN <<>> ELSE <<Packet("NEXT")>>
  BY <1>2, OnePacket, PacketCodes DEF receive_item, ToServer, ItemOnItsWay
<1>5. /\ got' \in Seq(Items) /\ Len(got') = Len(got) + 1
      /\ \A i \in 1..Len(got) : got'[i] = got[i]
      /\ got'[Len(got) + 1] = x
  <2> HIDE DEF x
  <2> QED BY <1>1, <1>3, <1>4 DEF TypeOK
<1>6. TypeOK'
  <2>1. Packet("NEXT") \in Packets
    BY PacketTypes
  <2> QED
    BY <1>1, <1>4, <1>5, <2>1, SingletonSeq DEF TypeOK
<1>7. ReceivedInOrder'
  <2>1. \A i \in 1..Len(got') : i \in 1..Len(got) \/ i = Len(got) + 1
    BY <1>3, <1>5
  <2> QED
    BY <1>3, <1>4, <1>5, <2>1 DEF Inv, ReceivedInOrder
<1>8. spc # "dead" => NextOnItsWay'
  BY <1>2, <1>3, <1>4, <1>5 DEF NextOnItsWay, ItemOnItsWay, Packet
<1>9. spc = "dead" => Lost'
  BY <1>4 DEF Lost
<1> QED
  BY <1>1, <1>4, <1>6, <1>7, <1>8, <1>9
     DEF Inv, Awaiting, Starting, Looping, Complete, Abandoned

\* receive_end: only END ends the loop, and then the list is whole.
LEMMA ReceiveEndInv == ASSUME Inv, receive_end PROVE Inv'
<1>1. TypeOK /\ cpc = "loop" /\ s2c # <<>> /\ Head(s2c).code # "ITEM"
  BY DEF Inv, receive_end
<1>2. EndOnItsWay
  <2>1. ~ItemOnItsWay
    BY <1>1, OnePacket, PacketCodes DEF ItemOnItsWay
  <2> QED
    BY <1>1, <2>1 DEF Inv, Looping, NextOnItsWay, NextArrived, Lost
<1>3. cpc' = "done" /\ s2c' = <<>> /\ UNCHANGED <<items, next, sbuf, spc, got, c2s>>
  BY <1>2, OnePacket DEF receive_end, EndOnItsWay
<1>4. TypeOK'
  BY <1>1, <1>3, SingletonSeq DEF TypeOK
<1> QED
  BY <1>1, <1>2, <1>3, <1>4
     DEF Inv, EndOnItsWay, ReceivedInOrder, Awaiting, Starting, Looping, Complete, Abandoned

\* Either process ends: what is on its way to it is lost.
LEMMA EndsInv == ASSUME Inv, connection_closed \/ client_dies \/ server_dies PROVE Inv'
<1>1. CASE connection_closed
  <2>1. cpc' = "gone" /\ spc = "dead" /\ s2c = <<>> /\ cpc \in {"begin", "loop"}
        /\ UNCHANGED <<items, next, sbuf, spc, got, c2s, s2c>>
    BY <1>1 DEF connection_closed
  <2>2. c2s = <<>>
    BY <2>1 DEF Inv, Starting, Looping, ItemOnItsWay, NextOnItsWay, NextArrived, EndOnItsWay, Lost
  <2> QED
    BY <2>1, <2>2 DEF Inv, TypeOK, ReceivedInOrder, Awaiting, Starting, Looping, Complete, Abandoned
<1>2. CASE client_dies
  <2>1. /\ cpc \in {"begin", "loop"} /\ cpc' = "gone" /\ s2c' = <<>> /\ c2s' \in {c2s, <<>>}
        /\ UNCHANGED <<items, next, sbuf, spc, got>> /\ TypeOK
    BY <1>2 DEF client_dies, Inv
  <2>2. c2s = <<>> \/ NextOnItsWay
    BY <2>1 DEF Inv, Starting, Looping, ItemOnItsWay, NextArrived, EndOnItsWay, Lost
  <2>3. c2s' = <<>> \/ NextOnItsWay'
    BY <2>1, <2>2 DEF NextOnItsWay, Packet
  <2>4. spc = "test" /\ sbuf = "NEXT" => next = Len(got) + 1
    BY <2>1 DEF Inv, Starting, Looping, ItemOnItsWay, NextOnItsWay, NextArrived, EndOnItsWay, Lost
  <2>5. TypeOK'
    <3>1. <<>> \in Seq(Packets)
      OBVIOUS
    <3> QED
      BY <2>1, <3>1 DEF TypeOK
  <2> QED
    BY <2>1, <2>3, <2>4, <2>5
       DEF Inv, ReceivedInOrder, Awaiting, Starting, Looping, Complete, Abandoned
<1>3. CASE server_dies
  <2>1. /\ spc # "dead" /\ spc' = "dead" /\ c2s' = <<>> /\ UNCHANGED <<items, next, sbuf, cpc, got, s2c>>
        /\ TypeOK
    BY <1>3 DEF server_dies, Inv
  <2>2. TypeOK'
    BY <2>1, SingletonSeq DEF TypeOK
  <2>3. Looping'
    BY <2>1 DEF Inv, Looping, ItemOnItsWay, NextOnItsWay, NextArrived, EndOnItsWay, Lost, Item, Packet
  <2>4. Starting'
    BY <2>1 DEF Inv, Starting
  <2> QED
    BY <2>1, <2>2, <2>3, <2>4 DEF Inv, ReceivedInOrder, Awaiting, Complete, Abandoned
<1> QED
  BY <1>1, <1>2, <1>3

\* A step that changes nothing.
LEMMA StutterInv == ASSUME Inv, UNCHANGED vars PROVE Inv'
BY DEF vars, Inv, TypeOK, ReceivedInOrder, Awaiting, Starting, Looping, Complete, Abandoned,
       ItemOnItsWay, NextOnItsWay, NextArrived, EndOnItsWay, Lost

-----------------------------------------------------------------------------
\* The invariant holds throughout every transfer (send_* against get_*).
THEOREM TransferInvariant == Spec => []Inv
<1>1. Inv /\ [Next]_vars => Inv'
  BY SendBeginInv, ReceiveInv, SendItemInv, SendEndInv, ReceiveBeginInv, ReceiveItemInv,
     ReceiveEndInv, EndsInv, StutterInv DEF Next, Server, Client
<1> QED
  BY <1>1, InitInv, PTL DEF Spec

\* The packets, the buffers and the places of both programs are always of their
\* kinds (send_*, get_*).
THEOREM TransferTypes == Spec => []TypeOK
<1>1. Inv => TypeOK
  BY DEF Inv
<1> QED
  BY <1>1, TransferInvariant, PTL

\* There is never more than one packet between server and client, and none is
\* left when get_* returns.
THEOREM OnePacketInFlight == Spec => []OneInFlight
<1>1. Inv => OneInFlight
  <2> SUFFICES ASSUME Inv PROVE OneInFlight
    OBVIOUS
  <2>1. cpc \in {"begin", "loop", "done", "gone"}
    BY DEF Inv, TypeOK
  <2>2. \/ c2s = <<>> /\ s2c = <<>>
        \/ c2s = <<>> /\ \E p : s2c = <<p>>
        \/ s2c = <<>> /\ \E p : c2s = <<p>>
    BY <2>1 DEF Inv, Starting, Looping, Complete, Abandoned, ItemOnItsWay, NextOnItsWay, NextArrived,
                EndOnItsWay, Lost
  <2>3. Len(c2s) + Len(s2c) <= 1
    <3>1. CASE c2s = <<>> /\ s2c = <<>>
      BY <3>1
    <3>2. CASE c2s = <<>> /\ \E p : s2c = <<p>>
      BY <3>2
    <3>3. CASE s2c = <<>> /\ \E p : c2s = <<p>>
      BY <3>3
    <3> QED
      BY <2>2, <3>1, <3>2, <3>3
  <2> QED
    BY <2>3 DEF OneInFlight, Inv, Complete
<1> QED
  BY <1>1, TransferInvariant, PTL

\* What the client has is always a beginning of the server's list.
THEOREM InOrder == Spec => []ReceivedInOrder
<1>1. Inv => ReceivedInOrder
  BY DEF Inv
<1> QED
  BY <1>1, TransferInvariant, PTL

\* A client that died gets at most the item it had asked for: the stale buf[0]
\* is never taken for a NEXT.
THEOREM DeadClientNotServed == Spec => NotServedOn
<1>1. Inv /\ [Next]_vars => [cpc = "gone" /\ next' # next => next = Len(got) + 1]_vars
  <2> SUFFICES ASSUME Inv, Next, cpc = "gone", next' # next PROVE next = Len(got) + 1
    OBVIOUS
  <2>1. send_item
    BY DEF Next, Server, Client, send_begin, receive, send_end, server_dies, receive_begin,
           receive_item, receive_end, connection_closed, client_dies
  <2> QED
    BY <2>1 DEF send_item, Inv, Abandoned
<1> QED
  BY <1>1, TransferInvariant, PTL DEF Spec, NotServedOn

\* The packet by packet transfer implements ListAnswer: the client gets the
\* whole list or nothing, and the thread leaves the critical zone once.
THEOREM TransferRefinement == Spec => AllOrNothing
<1>1. Init => Answer!AnswerInit
  BY DEF Init, Answer!AnswerInit
<1>2. Inv /\ [Next]_vars => [Answer!Deliver \/ Answer!Finish]_(Answer!answerVars)
  <2> SUFFICES ASSUME Inv, [Next]_vars
               PROVE  [Answer!Deliver \/ Answer!Finish]_(Answer!answerVars)
    OBVIOUS
  <2> USE DEF Answer!Deliver, Answer!Finish, Answer!answerVars
  <2>1. CASE send_begin \/ receive \/ send_item \/ receive_item \/ receive_begin \/ connection_closed
             \/ client_dies \/ UNCHANGED vars
    <3>1. (cpc' = "done") = (cpc = "done") /\ (spc \notin {"done", "dead"})' = (spc \notin {"done", "dead"})
          /\ items' = items /\ (cpc = "done" => got' = got)
      <4>1. CASE receive_begin
        <5>1. cpc = "begin" /\ cpc' = "loop"
          BY <4>1, OnePacket, PacketCodes DEF receive_begin, Inv, Starting
        <5> QED
          BY <4>1, <5>1 DEF receive_begin
      <4>2. CASE ~receive_begin
        BY <2>1, <4>2 DEF send_begin, receive, send_item, receive_item, connection_closed,
                     client_dies, vars
      <4> QED
        BY <4>1, <4>2
    <3> QED
      BY <3>1
  <2>2. CASE send_end \/ server_dies
    BY <2>2 DEF send_end, server_dies
  <2>3. CASE receive_end
    <3>1. Inv' /\ cpc = "loop" /\ cpc' = "done" /\ UNCHANGED <<items, spc, got>>
      BY <2>3, ReceiveEndInv DEF receive_end
    <3>2. got' = items
      BY <3>1 DEF Inv, Complete
    <3> QED
      BY <3>1, <3>2
  <2> QED
    BY <2>1, <2>2, <2>3 DEF Next, Server, Client
<1> QED
  BY <1>1, <1>2, TransferInvariant, PTL DEF Spec, AllOrNothing, Answer!AnswerSpec
=============================================================================
