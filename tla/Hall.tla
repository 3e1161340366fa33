-------------------------------- MODULE Hall --------------------------------
(***************************************************************************)
(* The purchase of a seat, from the rows of Reserva to the ticket: the     *)
(* server turns the rows of a query (QueryRows) into a map of the hall     *)
(* (send_seating_info, send_seats), the client copies it from the packet   *)
(* (get_hall), the user types a row and a column (showSeats), sees the     *)
(* ticket, confirms, and the seat number is sent back (startReservation,   *)
(* make_reservation).  The queries for lists run on the same server.       *)
(* The database and the lock are CinemaServer's; here reserved is the set  *)
(* of the seats of one screening that are reserved, changed by this user   *)
(* and by others.                                                          *)
(***************************************************************************)
EXTENDS QueryRows

CONSTANTS HALL_ROWS, HALL_COLS,  \* 8 and 8 in the code
          MAX_SEATS,             \* length of the server's map, 300 in the code
          PACKET_LENGTH          \* 512 in the code

Seats == 0..(HALL_ROWS * HALL_COLS - 1)

\* The map has room for the hall, the packet for the map, and the number of a
\* seat fits in a signed char.
ASSUME HallAssumption == /\ HALL_ROWS \in Nat \ {0} /\ HALL_COLS \in Nat \ {0}
                         /\ MAX_SEATS \in Nat /\ PACKET_LENGTH \in Nat
                         /\ HALL_ROWS * HALL_COLS <= MAX_SEATS
                         /\ MAX_SEATS < PACKET_LENGTH
                         /\ HALL_ROWS * HALL_COLS <= 128
                         /\ Seats \subseteq Rows

VARIABLES
  reserved,  \* the screening's reserved seats in the database
  kind,      \* what the query is for: "list" or "hall"
  marks,     \* the server's map: 1 at the reserved seats
  seats,     \* the client's copy
  typed,     \* what the scanf that ended showSeats read: [n, row, col]
  chosen     \* chosen_seat

hallVars == <<reserved, kind, marks, seats, typed, chosen>>

\* Conversion to signed char.
Char(x) == ((x + 128) % 256) - 128

NoInput == [n |-> 0, row |-> 0, col |-> 0]

HallInit == /\ Init
            /\ reserved \in SUBSET Seats
            /\ kind = "list" /\ marks = <<>> /\ seats = <<>>
            /\ typed = NoInput /\ chosen = -1

-----------------------------------------------------------------------------
(* The server.                                                             *)

\* The rows of QUERY_OCCUPIED_SEATS, by the index of Reserva's primary key.
SeatRows == {s \in [1..Cardinality(reserved) -> reserved] :
               \A i, j \in 1..Cardinality(reserved) : i < j => s[i] < s[j]}

ask_hall == /\ at = "idle"
            /\ \E rows \in SeatRows : new_query(rows)
            /\ kind' = "hall"
            /\ UNCHANGED <<reserved, marks, seats, typed, chosen>>

ask_list == /\ \E rows \in Results : new_query(rows)
            /\ kind' = "list"
            /\ UNCHANGED <<reserved, marks, seats, typed, chosen>>

\* send_seating_info: do_query returns, whatever its result; a map of zeros.
hall_query == /\ at = "exec" /\ kind = "hall" /\ at' = "hall"
              /\ marks' = [i \in 0..(MAX_SEATS - 1) |-> 0]
              /\ exec_returns(<<"seats">>)
              /\ UNCHANGED <<result, q, list, node, ptr, got, reserved, kind, seats, typed, chosen>>

\* One turn of its loop: seats[atoi(row[0])] = 1.
mark_seat == /\ at = "hall" /\ HasRow /\ next_row
             /\ marks' = [marks EXCEPT ![Row] = 1]
             /\ UNCHANGED <<at, result, list, node, ptr, got, heap, failures, reserved, kind, seats,
                            typed, chosen>>

\* The packet: OK, then the map.  The bytes behind it are not initialised and
\* not read.
send_seats == [i \in 0..MAX_SEATS |-> IF i = 0 THEN 20 ELSE marks[i - 1]]

\* Mutant: the copy starts at the header.
get_hall_Header(buf) == [i \in Seats |-> buf[i]]

\* The client's get_hall.
get_hall(buf) == [i \in Seats |-> buf[1 + i]]

\* send_seats, the frees of send_seating_info, and get_hall.
hall_sent == /\ at = "hall" /\ ~HasRow /\ at' = "dialog"
             /\ seats' = get_hall(send_seats)
             /\ heap' = destroy_query_data \ {<<"seats">>}
             /\ UNCHANGED <<result, q, list, node, ptr, got, failures, reserved, kind, marks, typed, chosen>>

-----------------------------------------------------------------------------
(* The client.                                                             *)

Cancel == at' = "cancelled" /\ UNCHANGED chosen

InHall(row, col) == row > 0 /\ row <= HALL_ROWS /\ col > 0 /\ col <= HALL_COLS

\* Mutants: row and column are exchanged in the index that is returned; the
\* test for a taken seat is missing.
showSeats_Swapped(n, row, col) ==
  \/ /\ n = 2 /\ InHall(row, col) /\ seats[(row - 1) * HALL_COLS + col - 1] = 0
     /\ at' = "ticket" /\ chosen' = Char((col - 1) * HALL_COLS + row - 1)
  \/ /\ n = 2 /\ InHall(row, col) /\ seats[(row - 1) * HALL_COLS + col - 1] # 0
     /\ IF row - 1 = 0 \/ col - 1 = 0 THEN Cancel ELSE UNCHANGED <<at, chosen>>
  \/ /\ ~(n = 2 /\ InHall(row, col))
     /\ IF row = 0 \/ col = 0 THEN Cancel ELSE UNCHANGED <<at, chosen>>
showSeats_Taken(n, row, col) ==
  \/ /\ n = 2 /\ InHall(row, col)
     /\ at' = "ticket" /\ chosen' = Char((row - 1) * HALL_COLS + col - 1)
  \/ /\ ~(n = 2 /\ InHall(row, col))
     /\ IF row = 0 \/ col = 0 THEN Cancel ELSE UNCHANGED <<at, chosen>>

\* One turn of the loop of showSeats, whose scanf has read n numbers; what it
\* has not read is uninitialised.  A taken seat is answered with a message, but
\* row and col have been decremented by the time they are compared with 0.
showSeats(n, row, col) ==
  \/ /\ n = 2 /\ InHall(row, col) /\ seats[(row - 1) * HALL_COLS + col - 1] = 0
     /\ at' = "ticket" /\ chosen' = Char((row - 1) * HALL_COLS + col - 1)
  \/ /\ n = 2 /\ InHall(row, col) /\ seats[(row - 1) * HALL_COLS + col - 1] # 0
     /\ IF row - 1 = 0 \/ col - 1 = 0 THEN Cancel ELSE UNCHANGED <<at, chosen>>
  \/ /\ ~(n = 2 /\ InHall(row, col))
     /\ IF row = 0 \/ col = 0 THEN Cancel ELSE UNCHANGED <<at, chosen>>

choose_seat ==
  /\ at = "dialog"
  /\ \E n \in 0..2, row \in -1..(HALL_ROWS + 1), col \in -1..(HALL_COLS + 1) :
       /\ showSeats(n, row, col)
       /\ typed' = IF at' = "dialog" THEN NoInput ELSE [n |-> n, row |-> row, col |-> col]
  /\ UNCHANGED <<result, q, list, node, ptr, got, heap, failures, reserved, kind, marks, seats>>

\* print_ticket: the row and the column of a seat.
TicketRow(seat) == (seat \div HALL_COLS) + 1
TicketCol(seat) == (seat % HALL_COLS) + 1

\* Back to the menu; the server has freed everything.
Over == /\ at' = "idle" /\ Forget
        /\ marks' = <<>> /\ seats' = <<>> /\ typed' = NoInput /\ chosen' = -1
        /\ UNCHANGED <<heap, failures, kind>>

\* The purchase is confirmed: make_reservation inserts the seat, or is refused
\* because it has been taken in the meantime.
confirm == /\ at = "ticket" /\ reserved' = reserved \cup {Char(chosen)} /\ Over

\* The purchase is not confirmed, or was cancelled in showSeats.
decline == at \in {"ticket", "cancelled"} /\ UNCHANGED reserved /\ Over

\* Somebody else buys or cancels while the user is thinking.
others == /\ at \in {"dialog", "ticket"}
          /\ \E a \in Seats : reserved' \in {reserved \cup {a}, reserved \ {a}}
          /\ UNCHANGED <<vars, kind, marks, seats, typed, chosen>>

-----------------------------------------------------------------------------
ServerList == /\ kind = "list" /\ (do_query \/ ListSteps)
              /\ UNCHANGED hallVars

HallNext == \/ ask_list \/ ask_hall \/ (callback /\ UNCHANGED hallVars) \/ ServerList
            \/ hall_query \/ mark_seat \/ hall_sent
            \/ choose_seat \/ confirm \/ decline \/ others

HallSpec == HallInit /\ [][HallNext]_<<vars, hallVars>>

-----------------------------------------------------------------------------
(* Properties.                                                             *)

HallTypeOK ==
  /\ at \in {"idle", "exec", "rows", "iterate", "destroy", "hall", "dialog", "ticket", "cancelled"}
  /\ kind \in {"list", "hall"}
  /\ typed \in [n : 0..2, row : Int, col : Int] /\ chosen \in Seats \cup {-1}
  /\ at \in {"dialog", "ticket", "cancelled"} => DOMAIN seats = Seats

\* Whatever is typed and bought, the reserved seats are seats of the hall, so
\* that seats[atoi(row[0])] = 1 stays inside the server's map (server.c:494)
\* and every later user sees them.
SeatsExist == reserved \subseteq Seats

\* The map the user chooses from marks exactly the rows the query delivered:
\* nothing is lost or shifted between the vector, the map and the packet
\* (send_seating_info, send_seats, get_hall).
HallShowsRows == at = "dialog" => \A i \in Seats : seats[i] = 1 <=> \E j \in 1..q.rows : result[j] = i

\* The ticket is for the seat whose row and column the user typed, and it was
\* shown as free (showSeats, print_ticket, the conversions to char).
SeatAsTyped == at = "ticket" => /\ typed.n = 2 /\ seats[chosen] = 0
                                /\ TicketRow(chosen) = typed.row /\ TicketCol(chosen) = typed.col

\* "0 in row or column to cancel" (ui.c:203): when two numbers were typed and
\* the purchase is cancelled, one of them was 0.
CancelledByZero == at = "cancelled" /\ typed.n = 2 => typed.row = 0 \/ typed.col = 0
=============================================================================
