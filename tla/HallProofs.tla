----------------------------- MODULE HallProofs -----------------------------
(***************************************************************************)
(* The seats of a hall, for every size of the hall that HallAssumption     *)
(* allows.                                                                 *)
(***************************************************************************)
EXTENDS Hall, QueryRowsProofs, FiniteSetTheorems

USE HallAssumption

\* A number that fits is not changed by the conversion to char.
LEMMA CharFits == ASSUME NEW x \in -1..127 PROVE Char(x) = x
BY DEF Char

\* The index of a row and a column is a seat, and is turned back into them by
\* division (showSeats, print_ticket).
LEMMA SeatIndex ==
  ASSUME NEW row \in Int, NEW col \in Int, InHall(row, col)
  PROVE  LET seat == (row - 1) * HALL_COLS + col - 1
         IN seat \in Seats /\ TicketRow(seat) = row /\ TicketCol(seat) = col
<1> DEFINE a == row - 1
           b == col - 1
           R == HALL_ROWS
           C == HALL_COLS
<1>1. /\ a \in Nat /\ b \in Nat /\ R \in Nat /\ C \in Nat \ {0} /\ a + 1 <= R /\ b < C
      /\ row = a + 1 /\ col = b + 1
  BY DEF InHall
<1> HIDE DEF a, b, R, C
<1>2. (a + 1) * C <= R * C
  BY <1>1
<1>3. a * C \in Nat /\ (a + 1) * C = a * C + C
  BY <1>1
<1>4. a * C + b \in 0..(R * C - 1)
  BY <1>1, <1>2, <1>3
<1>5. (a * C + b) \div C = a /\ (a * C + b) % C = b
  BY <1>1, <1>3
<1> QED BY <1>1, <1>4, <1>5 DEF a, b, R, C, Seats, TicketRow, TicketCol

\* A seat's number fits in a char.
LEMMA SeatFits == ASSUME NEW a \in Seats PROVE Char(a) = a
BY CharFits DEF Seats

-----------------------------------------------------------------------------
(***************************************************************************)
(* The inductive invariant.                                                *)
(***************************************************************************)

\* The server's map marks the rows read so far, which are seats of the hall.
Marked == /\ result \in Seq(Seats)
          /\ DOMAIN marks = 0..(MAX_SEATS - 1)
          /\ \A i \in 0..(MAX_SEATS - 1) :
               marks[i] = IF \E j \in 1..q.cursor : result[j] = i THEN 1 ELSE 0

HallInv == /\ VectorInv /\ SeatsExist
           /\ at = "exec" /\ kind = "hall" => result \in Seq(Seats) /\ q.cursor = 0
           /\ at = "hall" => Marked
           /\ HallShowsRows
           /\ at = "ticket" => chosen \in Seats
           /\ SeatAsTyped

\* At the start there is no query and no dialog.
LEMMA HallInitially == HallInit => HallInv
BY InitVector DEF HallInit, Init, HallInv, SeatsExist, HallShowsRows, SeatAsTyped

\* The rows of a query for a hall are seats.
LEMMA RowsAreSeats == ASSUME SeatsExist, NEW rows \in SeatRows PROVE rows \in Seq(Seats)
<1>1. IsFiniteSet(Seats)
  <2>1. 0 \in Int /\ HALL_ROWS * HALL_COLS - 1 \in Int
    OBVIOUS
  <2> QED BY <2>1, FS_Interval DEF Seats
<1>2. IsFiniteSet(reserved)
  BY <1>1, FS_Subset DEF SeatsExist
<1>3. Cardinality(reserved) \in Nat
  BY <1>2, FS_CardinalityType
<1> QED BY <1>3 DEF SeatRows, SeatsExist

\* A query for a hall returns seats.
LEMMA AskHall == ASSUME HallInv, ask_hall PROVE HallInv'
<1>1. PICK rows \in SeatRows : new_query(rows)
  BY DEF ask_hall
<1>2. rows \in Seq(Seats) /\ Seats \subseteq Rows
  BY RowsAreSeats DEF HallInv
<1>3. rows \in Seq(Rows)
  BY <1>2
<1>4. VectorInv'
  BY <1>1, <1>3, NewQueryVector
<1> QED BY <1>1, <1>2, <1>4
        DEF ask_hall, new_query, HallInv, SeatsExist, HallShowsRows, SeatAsTyped

\* A query for a list touches no hall.
LEMMA AskList == ASSUME HallInv, ask_list PROVE HallInv'
<1>1. VectorInv'
  BY NewQueryVector, ResultsAssumption DEF ask_list
<1> QED BY <1>1 DEF ask_list, new_query, HallInv, SeatsExist, HallShowsRows, SeatAsTyped

\* SQLite delivers a row, of either query.
LEMMA Callback == ASSUME HallInv, callback, UNCHANGED hallVars PROVE HallInv'
<1>1. VectorInv'
  BY CallbackVector DEF HallInv
<1>2. at' = at /\ at = "exec" /\ result' = result /\ q'.cursor = q.cursor
  BY Zenon DEF callback
<1> QED BY <1>1, <1>2 DEF HallInv, hallVars, SeatsExist, HallShowsRows, SeatAsTyped

\* A list is made and sent.
LEMMA ListServed == ASSUME HallInv, ServerList PROVE HallInv'
<1>1. VectorInv'
  BY NextVector DEF HallInv, ServerList, Next, RowSteps
<1>2. at' \in {"rows", "iterate", "destroy", "idle"}
  BY DEF ServerList, do_query, ListSteps, list_row, list_done, iter_get_next, send_ends, destroy_list
<1> QED BY <1>1, <1>2 DEF ServerList, HallInv, hallVars, SeatsExist, HallShowsRows, SeatAsTyped

\* The map starts as zeros.
LEMMA HallQuery == ASSUME HallInv, hall_query PROVE HallInv'
<1>1. VectorInv'
  BY OtherVector DEF HallInv, hall_query
<1>2. Marked'
  BY DEF HallInv, hall_query, Marked
<1> QED BY <1>1, <1>2 DEF hall_query, HallInv, SeatsExist, HallShowsRows, SeatAsTyped

\* Each row marks its own seat and no other.
LEMMA MarkSeat == ASSUME HallInv, mark_seat PROVE HallInv'
<1>1. VectorInv'
  BY NextRowVector DEF HallInv, mark_seat
<1>2. Marked'
  <2>1. /\ q.cursor \in Nat /\ q.cursor + 1 <= Len(result) /\ Row = result[q.cursor + 1]
        /\ q'.cursor = q.cursor + 1 /\ result' = result /\ result \in Seq(Seats) /\ Marked
    <3>1. /\ q.cursor \in Nat /\ q.rows \in Nat /\ q.cursor < q.rows /\ q.rows <= Len(result)
          /\ Row = result[q.cursor + 1] /\ Marked
      BY DEF HallInv, mark_seat, HasRow, Row, VectorInv, RowsStored
    <3>2. q'.cursor = q.cursor + 1 /\ result' = result
      BY DEF HallInv, mark_seat, next_row, VectorInv
    <3> QED BY <3>1, <3>2 DEF Marked
  <2>2. Row \in 0..(MAX_SEATS - 1)
    BY <2>1 DEF Seats
  <2>3. marks' = [marks EXCEPT ![Row] = 1]
    BY DEF mark_seat
  <2>4. \A i : (\E j \in 1..q'.cursor : result'[j] = i) <=> (\E j \in 1..q.cursor : result[j] = i) \/ Row = i
    BY <2>1
  <2> QED BY <2>1, <2>2, <2>3, <2>4 DEF Marked
<1> QED BY <1>1, <1>2 DEF mark_seat, HallInv, SeatsExist, HallShowsRows, SeatAsTyped

\* The client's copy is the server's map.
LEMMA HallSent == ASSUME HallInv, hall_sent PROVE HallInv'
<1>1. VectorInv'
  BY OtherVector DEF HallInv, hall_sent
<1>2. HallShowsRows'
  <2>1. Marked /\ q.cursor = q.rows
    BY DEF HallInv, hall_sent, HasRow, VectorInv, RowsStored
  <2>2. ASSUME NEW i \in Seats PROVE seats'[i] = marks[i] /\ i \in 0..(MAX_SEATS - 1)
    BY DEF hall_sent, get_hall, send_seats, Seats
  <2> QED BY <2>1, <2>2 DEF hall_sent, HallShowsRows, Marked
<1> QED BY <1>1, <1>2 DEF hall_sent, HallInv, SeatsExist, SeatAsTyped

\* What showSeats returns is the free seat that was typed.
LEMMA ChooseSeat == ASSUME HallInv, choose_seat PROVE HallInv'
<1>1. PICK n \in 0..2, row \in -1..(HALL_ROWS + 1), col \in -1..(HALL_COLS + 1) :
         /\ showSeats(n, row, col)
         /\ typed' = IF at' = "dialog" THEN NoInput ELSE [n |-> n, row |-> row, col |-> col]
  BY DEF choose_seat
<1>2. at = "dialog" /\ UNCHANGED <<result, q, reserved, seats>>
  BY DEF choose_seat
<1>3. at' \in {"dialog", "ticket", "cancelled"}
  BY <1>1, <1>2 DEF showSeats, Cancel
<1>4. VectorInv'
  BY <1>2, <1>3, OtherVector DEF HallInv
<1>5. CASE at' = "ticket"
  <2> DEFINE seat == (row - 1) * HALL_COLS + col - 1
  <2>1. InHall(row, col) /\ n = 2 /\ seats[seat] = 0 /\ chosen' = Char(seat)
    BY <1>1, <1>2, <1>5 DEF showSeats, Cancel
  <2>2. seat \in Seats /\ TicketRow(seat) = row /\ TicketCol(seat) = col
    BY <2>1, SeatIndex
  <2> HIDE DEF seat
  <2>3. chosen' = seat
    BY <2>1, <2>2, SeatFits
  <2>4. typed'.n = 2 /\ typed'.row = row /\ typed'.col = col
    BY <1>1, <1>5, <2>1
  <2>5. SeatAsTyped'
    BY <1>2, <2>1, <2>2, <2>3, <2>4 DEF SeatAsTyped, TicketRow, TicketCol
  <2> QED BY <1>2, <1>4, <1>5, <2>2, <2>3, <2>5 DEF HallInv, SeatsExist, HallShowsRows
<1>6. CASE at' # "ticket"
  BY <1>2, <1>3, <1>4, <1>6 DEF HallInv, SeatsExist, HallShowsRows, SeatAsTyped
<1> QED BY <1>5, <1>6

\* What is bought is the chosen seat.
LEMMA PurchaseOver == ASSUME HallInv, confirm \/ decline PROVE HallInv'
<1>1. VectorInv'
  BY OtherVector DEF HallInv, confirm, decline, Over
<1>2. SeatsExist'
  BY SeatFits DEF HallInv, confirm, decline, SeatsExist
<1> QED BY <1>1, <1>2 DEF HallInv, confirm, decline, Over, HallShowsRows, SeatAsTyped

\* Others buy and cancel seats of the hall.
LEMMA Others == ASSUME HallInv, others PROVE HallInv'
<1>1. VectorInv'
  BY OtherVector DEF HallInv, others, vars
<1>2. SeatsExist'
  BY DEF HallInv, others, SeatsExist
<1> QED BY <1>1, <1>2 DEF HallInv, others, vars, HallShowsRows, SeatAsTyped, Marked, TicketRow, TicketCol

\* Every step keeps HallInv.
LEMMA HallStep == HallInv /\ [HallNext]_<<vars, hallVars>> => HallInv'
<1> SUFFICES ASSUME HallInv, [HallNext]_<<vars, hallVars>> PROVE HallInv'
  OBVIOUS
<1>1. CASE UNCHANGED <<vars, hallVars>>
  <2>1. VectorInv'
    BY <1>1, OtherVector DEF HallInv, vars
  <2> QED BY <1>1, <2>1 DEF HallInv, vars, hallVars, SeatsExist, Marked, HallShowsRows, SeatAsTyped,
                             TicketRow, TicketCol
<1> QED BY <1>1, AskList, AskHall, Callback, ListServed, HallQuery, MarkSeat, HallSent, ChooseSeat,
           PurchaseOver, Others DEF HallNext

-----------------------------------------------------------------------------
(***************************************************************************)
(* The theorems.                                                           *)
(***************************************************************************)

\* HallInv holds always.
LEMMA HallInvariant == HallSpec => []HallInv
BY HallInitially, HallStep, PTL DEF HallSpec

\* No seat outside the hall is ever reserved (showSeats, make_reservation).
THEOREM OnlySeats == HallSpec => []SeatsExist
<1>1. HallInv => SeatsExist
  BY DEF HallInv
<1> QED BY <1>1, HallInvariant, PTL

\* The user chooses from exactly the rows the query delivered, also in a hall
\* with more reserved seats than the vector had slots (send_seating_info).
THEOREM HallIsRows == HallSpec => []HallShowsRows
<1>1. HallInv => HallShowsRows
  BY DEF HallInv
<1> QED BY <1>1, HallInvariant, PTL

\* The ticket is for the free seat that was typed, in a hall of any shape whose
\* seats fit in a char (showSeats, print_ticket).
THEOREM TicketAsTyped == HallSpec => []SeatAsTyped
<1>1. HallInv => SeatAsTyped
  BY DEF HallInv
<1> QED BY <1>1, HallInvariant, PTL

\* The vector of rows is sound for the queries of a hall too (callback).
THEOREM HallRowsStored == HallSpec => []RowsStored
<1>1. HallInv => RowsStored
  BY DEF HallInv, VectorInv
<1> QED BY <1>1, HallInvariant, PTL

-----------------------------------------------------------------------------
(***************************************************************************)
(* Lists on the same server, what is allocated, and types.                 *)
(***************************************************************************)

\* A query for a hall, and a user who thinks, disturb no list.
LEMMA HallLists ==
  ASSUME HallInv, ListInv, [HallNext]_<<vars, hallVars>>
  PROVE  ListInv'
<1>1. VectorInv'
  BY HallStep DEF HallInv
<1>2. CASE ask_list \/ ask_hall
  BY <1>1, <1>2 DEF ask_list, ask_hall, new_query, ListInv
<1>3. CASE callback \/ ServerList \/ others \/ UNCHANGED <<vars, hallVars>>
  BY <1>3, NextList DEF ServerList, others, Next, RowSteps
<1>4. CASE hall_query \/ mark_seat \/ hall_sent \/ confirm \/ decline
  <2>1. at' \in {"hall", "dialog", "idle"}
    BY <1>4 DEF hall_query, mark_seat, hall_sent, confirm, decline, Over
  <2> QED BY <1>1, <2>1 DEF ListInv
<1>5. CASE choose_seat
  <2>1. at' \in {"dialog", "ticket", "cancelled"}
    BY <1>5 DEF choose_seat, showSeats, Cancel
  <2> QED BY <1>1, <2>1 DEF ListInv
<1> QED BY <1>2, <1>3, <1>4, <1>5 DEF HallNext

\* What is allocated while a hall is asked for: the vector and the map until it
\* is sent, then nothing but the messages of the queries that failed.
HallAllocated ==
  /\ Allocated
  /\ at = "hall" => heap = Leaked \cup {<<"data">>, <<"seats">>} \cup RowCells(q.rows)
  /\ at \in {"dialog", "ticket", "cancelled"} => heap = Leaked

\* Every step keeps what is allocated at each place.
LEMMA HallHeap ==
  ASSUME HallInv, ListInv, HallAllocated, [HallNext]_<<vars, hallVars>>
  PROVE  HallAllocated'
<1>0. Allocated /\ failures \in Nat
  BY DEF HallAllocated, Allocated
<1>1. CASE ask_list \/ ask_hall
  <2>1. Allocated' /\ at' = "exec"
    BY <1>0, <1>1, RowsAllocated DEF ask_list, ask_hall, new_query
  <2> QED BY <2>1 DEF HallAllocated
<1>2. CASE callback
  <2>1. Allocated' /\ at' = "exec"
    BY <1>0, <1>2, RowsAllocated DEF callback
  <2> QED BY <2>1 DEF HallAllocated
<1>3. CASE ServerList
  <2>1. Allocated'
    BY <1>0, <1>3, RowsAllocated, ListAllocated, ListFreed DEF ServerList, ListSteps
  <2>2. at' \in {"rows", "iterate", "destroy", "idle"}
    BY <1>3 DEF ServerList, do_query, ListSteps, list_row, list_done, iter_get_next, send_ends,
                destroy_list
  <2> QED BY <2>1, <2>2 DEF HallAllocated
<1>4. CASE hall_query
  <2>1. at = "exec" /\ at' = "hall" /\ exec_returns(<<"seats">>) /\ q' = q
    BY <1>4 DEF hall_query
  <2> DEFINE held == {<<"data">>} \cup RowCells(q.rows)
  <2>2. heap = Leaked \cup held
    BY <1>0, <2>1 DEF Allocated
  <2> HIDE DEF held
  <2>3. heap' = Leaked' \cup held \cup {<<"seats">>} /\ failures' \in Nat
    BY <1>0, <2>1, <2>2, ExecHeap
  <2>4. heap' = Leaked' \cup {<<"data">>, <<"seats">>} \cup RowCells(q.rows)
    BY <2>3 DEF held
  <2> QED BY <2>1, <2>3, <2>4 DEF HallAllocated, Allocated, RowCells
<1>5. CASE mark_seat
  <2>1. at = "hall" /\ at' = "hall" /\ heap' = heap /\ failures' = failures /\ Leaked' = Leaked
    BY <1>5, LeakedSame DEF mark_seat
  <2>2. q'.rows = q.rows
    BY <1>5 DEF mark_seat, next_row, HallInv, VectorInv
  <2> QED BY <1>0, <2>1, <2>2 DEF HallAllocated, Allocated, RowCells
<1>6. CASE hall_sent
  <2>1. /\ at = "hall" /\ at' = "dialog"
        /\ heap' = (heap \ ({<<"data">>} \cup RowCells(q.rows))) \ {<<"seats">>}
        /\ failures' = failures /\ Leaked' = Leaked
    BY <1>6, LeakedSame DEF hall_sent, destroy_query_data, RowCells
  <2>2. heap' = Leaked
    BY <2>1, LeakedApart DEF HallAllocated
  <2> QED BY <1>0, <2>1, <2>2 DEF HallAllocated, Allocated
<1>7. CASE choose_seat
  <2>1. /\ at = "dialog" /\ heap' = heap /\ at' \in {"dialog", "ticket", "cancelled"}
        /\ failures' = failures /\ Leaked' = Leaked
    BY <1>7, LeakedSame DEF choose_seat, showSeats, Cancel
  <2> QED BY <1>0, <2>1 DEF HallAllocated, Allocated
<1>8. CASE confirm \/ decline
  <2>1. /\ at \in {"ticket", "cancelled"} /\ heap' = heap /\ at' = "idle"
        /\ failures' = failures /\ Leaked' = Leaked
    BY <1>8, LeakedSame DEF confirm, decline, Over
  <2> QED BY <1>0, <2>1 DEF HallAllocated, Allocated
<1>9. CASE others \/ UNCHANGED <<vars, hallVars>>
  <2>1. UNCHANGED <<at, heap, q, list, node, failures>> /\ Leaked' = Leaked
    BY <1>9, LeakedSame DEF others, vars
  <2> QED BY <1>0, <2>1 DEF HallAllocated, Allocated, Freeing, RowCells, NodeCells
<1> QED BY <1>1, <1>2, <1>3, <1>4, <1>5, <1>6, <1>7, <1>8, <1>9 DEF HallNext

\* The types of the dialog's variables.
LEMMA HallTypes ==
  ASSUME HallInv, HallTypeOK, [HallNext]_<<vars, hallVars>>
  PROVE  HallTypeOK'
<1>1. CASE ask_list \/ ask_hall
  BY <1>1 DEF ask_list, ask_hall, new_query, HallTypeOK
<1>2. CASE callback /\ UNCHANGED hallVars
  <2>1. at' = at /\ UNCHANGED hallVars
    BY <1>2 DEF callback
  <2> QED BY <2>1 DEF HallTypeOK, hallVars
<1>3. CASE ServerList
  <2>1. at' \in {"rows", "iterate", "destroy", "idle"} /\ UNCHANGED hallVars
    BY <1>3 DEF ServerList, do_query, ListSteps, list_row, list_done, iter_get_next, send_ends,
                destroy_list
  <2> QED BY <2>1 DEF HallTypeOK, hallVars
<1>4. CASE hall_query \/ mark_seat
  BY <1>4 DEF hall_query, mark_seat, HallTypeOK
<1>5. CASE hall_sent
  BY <1>5 DEF hall_sent, get_hall, HallTypeOK
<1>6. CASE choose_seat
  <2>1. PICK n \in 0..2, row \in -1..(HALL_ROWS + 1), col \in -1..(HALL_COLS + 1) :
           /\ showSeats(n, row, col)
           /\ typed' = IF at' = "dialog" THEN NoInput ELSE [n |-> n, row |-> row, col |-> col]
    BY <1>6 DEF choose_seat
  <2>2. at = "dialog" /\ UNCHANGED <<kind, seats>>
    BY <1>6 DEF choose_seat
  <2>3. at' \in {"dialog", "ticket", "cancelled"} /\ (chosen' = chosen \/ at' = "ticket")
    BY <2>1, <2>2 DEF showSeats, Cancel
  <2>4. typed' \in [n : 0..2, row : Int, col : Int]
    BY <2>1 DEF NoInput
  <2>5. at' = "ticket" => chosen' \in Seats
    BY HallStep DEF HallInv
  <2> QED BY <2>2, <2>3, <2>4, <2>5 DEF HallTypeOK
<1>7. CASE confirm \/ decline
  BY <1>7 DEF confirm, decline, Over, NoInput, HallTypeOK
<1>8. CASE others \/ UNCHANGED <<vars, hallVars>>
  BY <1>8 DEF others, vars, hallVars, HallTypeOK
<1> QED BY <1>1, <1>2, <1>3, <1>4, <1>5, <1>6, <1>7, <1>8 DEF HallNext

\* The start.
LEMMA HallStart == HallInit => ListInv /\ HallAllocated /\ HallTypeOK
<1> SUFFICES ASSUME HallInit PROVE ListInv /\ HallAllocated /\ HallTypeOK
  OBVIOUS
<1>1. ListInv
  BY InitVector DEF HallInit, Init, ListInv
<1>2. HallAllocated
  BY DEF HallInit, Init, HallAllocated, Allocated, Leaked
<1>3. HallTypeOK
  BY DEF HallInit, Init, HallTypeOK, NoInput
<1> QED BY <1>1, <1>2, <1>3

\* The requests for lists that a server answers between those for halls give the
\* rows of their queries too (get_*_list, iter_get_next).
THEOREM HallListsAreRows == HallSpec => []ListIsRows
<1>1. HallInv /\ ListInv /\ [HallNext]_<<vars, hallVars>> => ListInv'
  BY HallLists
<1> QED BY <1>1, HallStart, HallInvariant, ListInvRows, PTL DEF HallSpec

\* Every request, for a list or for a hall, frees what it allocated, however
\* many rows or seats there were and wherever the query or the client failed,
\* except one message per failed query: those are all that ever stays allocated
\* (send_seating_info, destroy_query_data, destroy_iterator, destroy_list,
\* do_query).
THEOREM EverythingIsFreed == HallSpec => []AllFreed
<1>1. HallInv /\ ListInv /\ [HallNext]_<<vars, hallVars>> => ListInv'
  BY HallLists
<1>2. HallInv /\ ListInv /\ HallAllocated /\ [HallNext]_<<vars, hallVars>> => HallAllocated'
  BY HallHeap
<1>3. HallAllocated => AllFreed
  BY DEF HallAllocated, Allocated, AllFreed
<1> QED BY <1>1, <1>2, <1>3, HallStart, HallInvariant, PTL DEF HallSpec

\* What is typed are numbers, what is chosen is a seat of the hall, and the map
\* the user chooses from has all of them (showSeats, get_hall).
THEOREM HallIsTyped == HallSpec => []HallTypeOK
<1>1. HallInv /\ HallTypeOK /\ [HallNext]_<<vars, hallVars>> => HallTypeOK'
  BY HallTypes
<1> QED BY <1>1, HallStart, HallInvariant, PTL DEF HallSpec
=============================================================================
