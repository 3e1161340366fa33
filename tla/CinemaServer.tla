---------------------------- MODULE CinemaServer ----------------------------
(***************************************************************************)
(* The ticket office: client programs (ui.c over client_marshalling.c),    *)
(* the server's thread for each connection (server.c over                  *)
(* server_marshalling.c and request_builder.c) and the shared database     *)
(* (database.c, the operators of CinemaDB), with the readers-writers lock  *)
(* by what it promises, ReadWriteLock.  A session is one connection: a     *)
(* client program at one end and a server thread at the other.             *)
(*                                                                         *)
(* A client's action is: receive the answer, let the user choose from it,  *)
(* send the next request.  The time the user takes is the time the answer  *)
(* stays in s2c.  The packets of a list travel as one answer, and a list   *)
(* is the set of its rows: their order and repetitions are only displayed. *)
(*                                                                         *)
(* A packet arrives whole, and then it is a request: the client programs   *)
(* only send codes that wait_request knows, and strings whose lengths      *)
(* (client_marshalling.h) check_packet_bound accepts.  Framing has the     *)
(* packets that do not arrive whole.                                       *)
(***************************************************************************)
EXTENDS CinemaDB, Bags

CONSTANTS Sessions,    \* connections
          Options,     \* the menu options the users may take
          InitialDBs,  \* contents cine.db may have when the server starts
          MaxOps,      \* bound: menu options taken in a behaviour
          MaxFaults    \* bound: database errors, threads that cannot be created,
                       \* stalls of the log and server deaths in a behaviour

ASSUME InitialDBsSound ==
  \A d \in InitialDBs : d \in Databases /\ Integrity(d) /\ d.canceladas = {}

ASSUME ServerBounds == MaxOps \in Nat /\ MaxFaults \in Nat

VARIABLES
  db,        \* cine.db
  up,        \* the server process is running
  stuck,     \* srv_log does not return: its queue is full and nobody reads it
  readers,   \* sessions whose thread is inside as READER
  writing,   \* sessions whose thread is inside as WRITER
  thread,    \* the server's thread of each session: [at, req, out]
  client,    \* the client program of each session: [at, op, name, screening, asked]
  c2s,       \* the request on its way to the server
  s2c,       \* the answer on its way to the client
  ops,       \* menu options taken
  faults,    \* database errors, failed pthread_creates, stalls and server deaths
  sold,      \* history: the bag of the reservations that were committed
  torn       \* history: the bag of the tickets whose cancellation was broken off
             \* between its INSERT and its DELETE

vars == <<db, up, stuck, readers, writing, thread, client, c2s, s2c, ops, faults, sold, torn>>

Lock == INSTANCE ReadWriteLock WITH Threads <- Sessions

-----------------------------------------------------------------------------
(* Packets and requests.                                                   *)

NoRequest == [type |-> "NONE"]
NoScreening == [id |-> 0]
NoReply == [code |-> "NONE", items |-> {}]
Reply(code) == [code |-> code, items |-> {}]
List(rows) == [code |-> "LIST", items |-> rows]

ClientOptions == {"RESERVE_MOVIE", "VIEW_RESERVATIONS", "CANCEL_RESERVATION"}

Off == [at |-> "off", req |-> NoRequest, out |-> NoReply]
Gone == [at |-> "off", op |-> "NONE", name |-> "NONE", screening |-> NoScreening,
         asked |-> NoRequest]

\* The request a packet stands for (wait_request and the req_* builders).  The
\* packet RESERVATION_LIST becomes one of two requests, by its flag.
BuiltType(packet) ==
  CASE packet.type = "RESERVATION_LIST" ->
         IF packet.flag = 0 THEN "REQ_RESERVATION_LIST" ELSE "REQ_CANCELLED_LIST"
    [] packet.type = "MOVIE_ADD"          -> "REQ_MOVIE_ADD"
    [] packet.type = "MOVIE_DELETE"       -> "REQ_MOVIE_DELETE"
    [] packet.type = "SCREENING_ADD"      -> "REQ_SCREENING_ADD"
    [] packet.type = "SCREENING_DELETE"   -> "REQ_SCREENING_DELETE"
    [] packet.type = "MAKE_RESERVATION"   -> "REQ_MAKE_RESERVATION"
    [] packet.type = "CANCEL_RESERVATION" -> "REQ_CANCEL_RESERVATION"
    [] packet.type = "MOVIE_SCREENINGS"   -> "REQ_MOVIE_SCREENINGS"
    [] packet.type = "SEATING_INFO"       -> "REQ_SEATING_INFO"
    [] packet.type = "MOVIE_LIST"         -> "REQ_MOVIE_LIST"

build_request(packet) == [packet EXCEPT !.type = BuiltType(packet)]

Statements == {"REQ_MOVIE_ADD", "REQ_MOVIE_DELETE", "REQ_SCREENING_ADD",
               "REQ_SCREENING_DELETE", "REQ_MAKE_RESERVATION", "REQ_CANCEL_RESERVATION"}
Lists == {"REQ_MOVIE_SCREENINGS", "REQ_SEATING_INFO", "REQ_MOVIE_LIST", "REQ_RESERVATION_LIST"}

\* Mutant: reservations and cancellations enter as readers.
get_synchro_type_Lax(type) ==
  IF type \in Lists \cup {"REQ_MAKE_RESERVATION", "REQ_CANCEL_RESERVATION"} THEN "READER" ELSE "WRITER"

\* The default, which the REQ_CANCELLED_LIST takes, is WRITER.
get_synchro_type(type) == IF type \in Lists THEN "READER" ELSE "WRITER"

\* Requests whose handler first calls assert_existence.
Asserted == {"REQ_SCREENING_ADD", "REQ_SCREENING_DELETE", "REQ_MAKE_RESERVATION",
             "REQ_CANCEL_RESERVATION"}

\* Mutants: add_screening does not look for the movie, cancel_reservation
\* does not look for the reservation.
Exists_AnyMovie(d, req) ==
  CASE req.type = "REQ_SCREENING_ADD"      -> TRUE
    [] req.type = "REQ_SCREENING_DELETE"   -> QUERY_SCREENING_EXISTS(d, req.id)
    [] req.type = "REQ_MAKE_RESERVATION"   -> QUERY_SCREENING_EXISTS(d, req.res.proyeccionID)
    [] req.type = "REQ_CANCEL_RESERVATION" -> QUERY_RESERVATION_EXISTS(d, req.res)

Exists_AnyTicket(d, req) ==
  CASE req.type = "REQ_SCREENING_ADD"      -> QUERY_MOVIE_EXISTS(d, req.movie)
    [] req.type = "REQ_SCREENING_DELETE"   -> QUERY_SCREENING_EXISTS(d, req.id)
    [] req.type = "REQ_MAKE_RESERVATION"   -> QUERY_SCREENING_EXISTS(d, req.res.proyeccionID)
    [] req.type = "REQ_CANCEL_RESERVATION" -> TRUE

Exists(d, req) ==
  CASE req.type = "REQ_SCREENING_ADD"      -> QUERY_MOVIE_EXISTS(d, req.movie)
    [] req.type = "REQ_SCREENING_DELETE"   -> QUERY_SCREENING_EXISTS(d, req.id)
    [] req.type = "REQ_MAKE_RESERVATION"   -> QUERY_SCREENING_EXISTS(d, req.res.proyeccionID)
    [] req.type = "REQ_CANCEL_RESERVATION" -> QUERY_RESERVATION_EXISTS(d, req.res)

\* The (first) statement of a request's handler.
Statement(d, req) ==
  CASE req.type = "REQ_MOVIE_ADD"          -> STMNT_ADD_MOVIE(d, req.movie)
    [] req.type = "REQ_MOVIE_DELETE"       -> STMNT_DELETE_MOVIE(d, req.movie)
    [] req.type = "REQ_SCREENING_ADD"      -> STMNT_ADD_SCREENING(d, req.movie, req.turno)
    [] req.type = "REQ_SCREENING_DELETE"   -> STMNT_DELETE_SCREENING(d, req.id)
    [] req.type = "REQ_MAKE_RESERVATION"   -> STMNT_MAKE_RESERVATION(d, req.res)
    [] req.type = "REQ_CANCEL_RESERVATION" -> CANCEL_INSERT(d, req.res)

\* The rows a list request asks for.
Rows(d, req) ==
  CASE req.type = "REQ_MOVIE_LIST"       -> QUERY_GET_MOVIE_LIST(d)
    [] req.type = "REQ_MOVIE_SCREENINGS" -> QUERY_GET_SCREENINGS(d, req.movie)
    [] req.type = "REQ_SEATING_INFO"     -> QUERY_OCCUPIED_SEATS(d, req.id)
    [] req.type = "REQ_RESERVATION_LIST" -> QUERY_GET_RESERVED(d, req.name)
    [] req.type = "REQ_CANCELLED_LIST"   -> QUERY_GET_CANCELLED(d, req.name)

\* Mutant: the server's error_t is sent untranslated.
Ack_Untranslated(rc) == CASE rc = "SQLITE_OK"         -> Reply("OK")
                          [] rc = "SQLITE_CONSTRAINT" -> Reply("ERR_CONSTRAINT_VIOLATION")
                          [] OTHER                    -> Reply("UNKNOWN_DB_ERROR")

\* do_stmnt_and_ack: what execute_statements returned, as the client reads it.
Ack(rc) == CASE rc = "SQLITE_OK"         -> Reply("OK")
             [] rc = "SQLITE_CONSTRAINT" -> Reply("ERR_CONSTRAINT_VIOLATION")
             [] OTHER                    -> Reply("ERR_UNKNOWN")

-----------------------------------------------------------------------------
Init == /\ db \in InitialDBs
        /\ up = TRUE /\ stuck = FALSE
        /\ Lock!RWInit
        /\ thread = [s \in Sessions |-> Off]
        /\ client = [s \in Sessions |-> Gone]
        /\ c2s = [s \in Sessions |-> NoRequest]
        /\ s2c = [s \in Sessions |-> NoReply]
        /\ ops = 0 /\ faults = 0
        /\ sold = SetToBag(db.reserva) /\ torn = EmptyBag

\* The thread of s goes on at a step, with a request and an answer.
Become(s, at, req, out) == thread' = [thread EXCEPT ![s] = [at |-> at, req |-> req, out |-> out]]

-----------------------------------------------------------------------------
(* The client program.                                                     *)

ServerSide == <<db, up, stuck, readers, writing, thread, faults, sold, torn>>

\* Send a packet and wait, remembering the screening it is about.
Ask(s, packet, screening) ==
  /\ client' = [client EXCEPT ![s] = [at |-> "wait", op |-> client[s].op, name |-> client[s].name,
                                      screening |-> screening, asked |-> packet]]
  /\ c2s' = [c2s EXCEPT ![s] = packet]

Leave(s, at) ==
  /\ client' = [client EXCEPT ![s] = [Gone EXCEPT !.at = at]]
  /\ UNCHANGED c2s

Menu(s) == Leave(s, "menu")

\* new_client; the server accepts (wait_client) and starts a thread (new_thread).
\* If pthread_create fails, main goes on: the connection is open, nobody reads
\* from it and nobody closes it.  main logs each connection before it starts the
\* thread.
new_client(s) ==
  /\ up /\ ~stuck /\ client[s].at \in {"off", "aborted"} /\ thread[s].at = "off"
  /\ client' = [client EXCEPT ![s] = [Gone EXCEPT !.at = "menu"]]
  /\ \/ Become(s, "read", NoRequest, NoReply) /\ UNCHANGED faults
     \/ /\ faults < MaxFaults /\ faults' = faults + 1
        /\ Become(s, "unserved", NoRequest, NoReply)
  /\ c2s' = [c2s EXCEPT ![s] = NoRequest]
  /\ s2c' = [s2c EXCEPT ![s] = NoReply]
  /\ UNCHANGED <<db, up, stuck, readers, writing, ops, sold, torn>>

\* The first packet of a menu option of startClient, which has logged the user
\* in under name n, or of startAdministrator.
FirstPackets(o, n) ==
  CASE o \in {"VIEW_RESERVATIONS", "CANCEL_RESERVATION"} ->
         {[type |-> "RESERVATION_LIST", name |-> n, flag |-> 0]}
    [] o = "ADD_MOVIE" -> {[type |-> "MOVIE_ADD", movie |-> m] : m \in Movies}
    [] OTHER -> {[type |-> "MOVIE_LIST"]}

choose_option(s) ==
  /\ client[s].at = "menu" /\ ops < MaxOps
  /\ \E o \in Options, n \in Clients : \E p \in FirstPackets(o, n) :
       /\ client' = [client EXCEPT ![s] = [at |-> "wait", op |-> o, asked |-> p,
                       name |-> IF o \in ClientOptions THEN n ELSE "NONE",
                       screening |-> NoScreening]]
       /\ c2s' = [c2s EXCEPT ![s] = p]
  /\ ops' = ops + 1
  /\ UNCHANGED <<ServerSide, s2c>>

\* The answer to the packet of the given type has arrived.
Answered(s, type) == /\ client[s].at = "wait" /\ client[s].asked.type = type
                     /\ s2c[s] # NoReply
                     /\ s2c' = [s2c EXCEPT ![s] = NoReply]
                     /\ UNCHANGED <<ServerSide, ops>>

\* What the user may do with a movie m chosen in showMovies.
MoviePackets(o, m) ==
  CASE o = "ADD_SCREENING" ->
         {[type |-> "SCREENING_ADD", movie |-> m, turno |-> k] : k \in Turnos}
    [] o = "DEL_MOVIE" -> {[type |-> "MOVIE_DELETE", movie |-> m]}
    [] OTHER -> {[type |-> "MOVIE_SCREENINGS", movie |-> m]}

\* get_movies returns.  Where the option goes on to choose a movie without a
\* test for an empty list, get_from_list(movies, -1) ends the program.
got_movies(s) ==
  /\ Answered(s, "MOVIE_LIST")
  /\ LET movies == s2c[s].items
         o == client[s].op
     IN \/ /\ o = "SHOW_MOVIES"
           /\ Menu(s)
        \/ /\ movies = {} /\ o # "SHOW_MOVIES"
           /\ Leave(s, IF o \in {"ADD_SCREENING", "SHOW_SCREENING"} THEN "aborted" ELSE "menu")
        \/ /\ o \in {"ADD_SCREENING", "DEL_MOVIE"} /\ movies # {}  \* askYN: no
           /\ Menu(s)
        \/ /\ o # "SHOW_MOVIES"
           /\ \E m \in movies : \E p \in MoviePackets(o, m) : Ask(s, p, NoScreening)

\* get_screenings returns: the reservation and the deletion choose one.
got_screenings(s) ==
  /\ Answered(s, "MOVIE_SCREENINGS")
  /\ LET screenings == s2c[s].items
         o == client[s].op
     IN \/ /\ o = "SHOW_SCREENING" \/ screenings = {} \/ o = "DEL_SCREENING"  \* askYN: no
           /\ Menu(s)
        \/ /\ o # "SHOW_SCREENING"
           /\ \E p \in screenings :
                Ask(s, [type |-> IF o = "RESERVE_MOVIE" THEN "SEATING_INFO" ELSE "SCREENING_DELETE",
                        id |-> p.id], p)

Reservation(n, p, a) == [cliente |-> n, proyeccionID |-> p.id, asiento |-> a]

\* get_hall returns: showSeats only accepts a seat that the answer shows free.
got_hall(s) ==
  /\ Answered(s, "SEATING_INFO")
  /\ \/ Menu(s)
     \/ \E a \in Seats \ s2c[s].items :
          Ask(s, [type |-> "MAKE_RESERVATION",
                  res |-> Reservation(client[s].name, client[s].screening, a)], client[s].screening)

\* get_tickets returns: the view asks for the cancelled ones next, the
\* cancellation chooses one of the active ones or goes back.
got_tickets(s) ==
  /\ Answered(s, "RESERVATION_LIST")
  /\ LET n == client[s].name
     IN \/ /\ client[s].op = "VIEW_RESERVATIONS" /\ client[s].asked.flag = 0
           /\ Ask(s, [type |-> "RESERVATION_LIST", name |-> n, flag |-> 1], NoScreening)
        \/ /\ client[s].op = "CANCEL_RESERVATION" \/ client[s].asked.flag = 1
           /\ Menu(s)
        \/ /\ client[s].op = "CANCEL_RESERVATION"
           /\ \E k \in s2c[s].items :
                Ask(s, [type |-> "CANCEL_RESERVATION",
                        res |-> Reservation(n, k.screening, k.asiento)], k.screening)

\* wait_ack returns and the outcome is shown.
wait_ack(s) == /\ client[s].asked.type \in {"MOVIE_ADD", "MOVIE_DELETE", "SCREENING_ADD",
                     "SCREENING_DELETE", "MAKE_RESERVATION", "CANCEL_RESERVATION"}
               /\ Answered(s, client[s].asked.type)
               /\ Menu(s)

\* The user leaves or the program dies, perhaps with a request under way.
client_exit(s) ==
  /\ client[s].at \in {"menu", "wait"}
  /\ client' = [client EXCEPT ![s] = Gone]
  /\ s2c' = [s2c EXCEPT ![s] = NoReply]
  /\ UNCHANGED <<ServerSide, c2s, ops>>

\* client_send, client_rcv: the server closed the connection, exit(1).
connection_closed(s) ==
  /\ client[s].at = "wait" /\ thread[s].at = "off" /\ s2c[s] = NoReply
  /\ client' = [client EXCEPT ![s] = Gone]
  /\ UNCHANGED <<ServerSide, ops, c2s, s2c>>

Client(s) == \/ got_movies(s) \/ got_screenings(s) \/ got_hall(s) \/ got_tickets(s)
             \/ wait_ack(s) \/ connection_closed(s)

-----------------------------------------------------------------------------
(* The server's thread.  Where it logs on its way, it does not get past    *)
(* that point while the log is stuck: before it closes a connection, before*)
(* it enters the critical zone, and before and after each query and each   *)
(* sqlite3_exec inside it.                                                 *)

ClientSide == <<up, stuck, client, ops>>

At(s, from, to) == thread[s].at = from /\ Become(s, to, thread[s].req, thread[s].out)
Conclude(s, out) == Become(s, "reply", thread[s].req, out)

\* wait_request: a request; an error of receive, by which the last request of a
\* client that is gone is lost, and thread_work calls again; or the end of the
\* connection.
wait_request(s) ==
  /\ thread[s].at = "read"
  /\ \/ /\ c2s[s] # NoRequest
        /\ Become(s, "enter", build_request(c2s[s]), NoReply)
        /\ c2s' = [c2s EXCEPT ![s] = NoRequest]
     \/ /\ c2s[s] # NoRequest /\ client[s].at \in {"off", "aborted"} /\ ~stuck
        /\ c2s' = [c2s EXCEPT ![s] = NoRequest]
        /\ UNCHANGED thread
     \/ /\ c2s[s] = NoRequest /\ client[s].at \in {"off", "aborted"} /\ ~stuck
        /\ Become(s, "off", NoRequest, NoReply)
        /\ UNCHANGED c2s
  /\ UNCHANGED <<db, readers, writing, faults, sold, torn, ClientSide, s2c>>

\* Where the handler of a request starts.
FirstStep(type) == CASE type \in Asserted -> "exists"
                     [] type \in Statements \ Asserted -> "exec"
                     [] OTHER -> "query"

enter_critical(s) ==
  /\ ~stuck
  /\ At(s, "enter", FirstStep(thread[s].req.type))
  /\ IF get_synchro_type(thread[s].req.type) = "READER"
     THEN Lock!EnterReader(s) ELSE Lock!EnterWriter(s)
  /\ UNCHANGED <<db, faults, sold, torn, ClientSide, c2s, s2c>>

\* Mutant: the early return of the handlers without client_send_error.
assert_existence_Silent(s) ==
  /\ thread[s].at = "exists" /\ ~stuck
  /\ At(s, "exists", IF Exists(db, thread[s].req) THEN "exec" ELSE "leave")
  /\ UNCHANGED <<db, readers, writing, faults, sold, torn, ClientSide, c2s, s2c>>

assert_existence(s) ==
  /\ thread[s].at = "exists" /\ ~stuck
  /\ IF Exists(db, thread[s].req)
     THEN At(s, "exists", "exec")
     ELSE Conclude(s, Reply("ERR_NO_SUCH_DATA"))
  /\ UNCHANGED <<db, readers, writing, faults, sold, torn, ClientSide, c2s, s2c>>

\* execute_statements, up to the end of the first statement.  The second one
\* of a cancellation is only run if the first succeeds.
execute_statements(s) ==
  /\ thread[s].at = "exec" /\ ~stuck
  /\ LET req == thread[s].req
         result == Statement(db, req)
     IN /\ db' = result.db
        /\ sold' = IF req.type = "REQ_MAKE_RESERVATION" /\ result.rc = "SQLITE_OK"
                   THEN sold (+) SetToBag({req.res}) ELSE sold
        /\ IF req.type = "REQ_CANCEL_RESERVATION" /\ result.rc = "SQLITE_OK"
           THEN At(s, "exec", "delete")
           ELSE Conclude(s, Ack(result.rc))
  /\ UNCHANGED <<readers, writing, faults, torn, ClientSide, c2s, s2c>>

\* The DELETE of STMNT_CANCEL_AND_DELETE.
cancel_delete(s) ==
  /\ thread[s].at = "delete"
  /\ LET result == CANCEL_DELETE(db, thread[s].req.res)
     IN db' = result.db /\ Conclude(s, Ack(result.rc))
  /\ UNCHANGED <<readers, writing, faults, sold, torn, ClientSide, c2s, s2c>>

\* A statement fails for any other reason (disk full, I/O error).
statement_fails(s) ==
  /\ \/ thread[s].at = "exec" /\ ~stuck /\ UNCHANGED torn
     \/ thread[s].at = "delete" /\ torn' = torn (+) SetToBag({thread[s].req.res})
  /\ Conclude(s, Ack("SQLITE_ERROR"))
  /\ faults < MaxFaults /\ faults' = faults + 1
  /\ UNCHANGED <<db, readers, writing, sold, ClientSide, c2s, s2c>>

\* do_query for a list.  Nobody looks at its result: if the query fails, the
\* rows that had arrived are the list.
do_query(s) ==
  /\ thread[s].at = "query" /\ ~stuck
  /\ \/ /\ Conclude(s, List(Rows(db, thread[s].req)))
        /\ UNCHANGED faults
     \/ /\ faults < MaxFaults
        /\ \E rows \in SUBSET Rows(db, thread[s].req) : Conclude(s, List(rows))
        /\ faults' = faults + 1
  /\ UNCHANGED <<db, readers, writing, sold, torn, ClientSide, c2s, s2c>>

\* client_send_ok, client_send_error and the send_* of the lists.  The client
\* may be gone: the errors of send are ignored.
reply(s) ==
  /\ ~stuck
  /\ At(s, "reply", "leave")
  /\ s2c' = IF client[s].at = "wait" THEN [s2c EXCEPT ![s] = thread[s].out] ELSE s2c
  /\ UNCHANGED <<db, readers, writing, faults, sold, torn, ClientSide, c2s>>

leave_critical(s) ==
  /\ thread[s].at = "leave"
  /\ Become(s, "read", NoRequest, NoReply)
  /\ IF get_synchro_type(thread[s].req.type) = "READER"
     THEN Lock!LeaveReader(s) ELSE Lock!LeaveWriter(s)
  /\ UNCHANGED <<db, faults, sold, torn, ClientSide, c2s, s2c>>

Thread(s) == \/ wait_request(s) \/ enter_critical(s) \/ assert_existence(s)
             \/ execute_statements(s) \/ cancel_delete(s) \/ do_query(s)
             \/ reply(s) \/ leave_critical(s)

-----------------------------------------------------------------------------
(* The server process.                                                     *)

\* The tickets whose cancellation is between its two statements.
Unfinished == {thread[s].req.res : s \in {u \in Sessions : thread[u].at = "delete"}}

\* The process is killed, or a thread brings it down (assert_existence reads
\* the first row of a query that failed; do_query logs the err_msg of a failed
\* query, which another reader's query has set to NULL since; failfast_malloc
\* finds no memory).
\* Committed statements are in cine.db; threads, lock and connections go, and a
\* cancellation that is between its statements is never finished.
server_dies ==
  /\ up /\ faults < MaxFaults
  /\ up' = FALSE /\ stuck' = FALSE /\ faults' = faults + 1
  /\ torn' = torn (+) SetToBag(Unfinished)
  /\ readers' = {} /\ writing' = {}
  /\ thread' = [s \in Sessions |-> Off]
  /\ c2s' = [s \in Sessions |-> NoRequest]
  /\ UNCHANGED <<db, client, s2c, ops, sold>>

\* main again: db_init opens cine.db and creates the tables that do not exist.
server_starts ==
  /\ ~up /\ up' = TRUE
  /\ UNCHANGED <<db, stuck, readers, writing, thread, client, c2s, s2c, ops, faults, sold, torn>>

\* The log's queue is full and its reader gone (Logging: fork, execl or the
\* logger failed, or the logger was killed): from here on srv_log's msgsnd waits.
log_stalls ==
  /\ up /\ ~stuck /\ stuck' = TRUE
  /\ faults < MaxFaults /\ faults' = faults + 1
  /\ UNCHANGED <<db, up, readers, writing, thread, client, c2s, s2c, ops, sold, torn>>

\* Another logger reads the queue, or the queue is removed: msgsnd returns.
log_moves ==
  /\ stuck /\ stuck' = FALSE
  /\ UNCHANGED <<db, up, readers, writing, thread, client, c2s, s2c, ops, faults, sold, torn>>

Next == \/ \E s \in Sessions : \/ new_client(s) \/ choose_option(s) \/ client_exit(s)
                               \/ Client(s) \/ Thread(s) \/ statement_fails(s)
        \/ server_dies \/ server_starts \/ log_stalls \/ log_moves

Spec == Init /\ [][Next]_vars

\* Threads that can run do run, and a client program whose connection is closed
\* notices.  Users are not obliged to choose, nor failures, restarts and what
\* the log does to happen.
FairSpec == Spec /\ \A s \in Sessions : WF_vars(Thread(s)) /\ WF_vars(connection_closed(s))

-----------------------------------------------------------------------------
(* Properties.                                                             *)

TypeOK == /\ db \in Databases /\ up \in BOOLEAN /\ stuck \in BOOLEAN
          /\ readers \subseteq Sessions /\ writing \subseteq Sessions
          /\ \A s \in Sessions :
               /\ thread[s].at \in {"off", "unserved", "read", "enter", "exists", "exec", "delete",
                                    "query", "reply", "leave"}
               /\ client[s].at \in {"off", "menu", "wait", "aborted"}
               /\ s2c[s].code \in {"NONE", "OK", "LIST", "ERR_UNKNOWN", "ERR_NO_SUCH_DATA",
                                   "ERR_CONSTRAINT_VIOLATION"}
          /\ ops \in 0..MaxOps /\ faults \in 0..MaxFaults
          /\ IsABag(sold) /\ IsABag(torn)

\* Whatever the clients do and wherever the server dies, the rows of cine.db
\* refer to rows that exist, no seat is reserved twice, no hall has two
\* screenings at a time and no id has been given twice (database.c, schema).
DatabaseSound == Integrity(db)

Sales(r) == IF BagIn(r, sold) THEN sold[r] ELSE 0
Cancellations(r) == Cardinality({c \in db.canceladas : c.ticket = r})
Active(r) == IF r \in db.reserva THEN 1 ELSE 0
Torn(r) == IF BagIn(r, torn) THEN torn[r] ELSE 0
Cancelling(r) == Cardinality({s \in Sessions : thread[s].at = "delete" /\ thread[s].req.res = r})

\* A ticket that was sold is never lost while its screening exists: each sale
\* is either an active reservation or a row of canceladas, also if the server
\* dies or the disk fails between the two statements of cancel_reservation.
NoTicketLost ==
  \A r \in BagToSet(sold) :
     r.proyeccionID \in Ids(db) => Sales(r) <= Cancellations(r) + Active(r)

\* Nothing is cancelled that was not sold: one sale leaves one active or one
\* cancelled ticket, however many clients cancel it at once and whatever fails.
\* Only a cancellation of that ticket that was broken off between its own two
\* statements leaves it as both (STMNT_CANCEL_AND_DELETE, queries.h).
NoPhantomTicket ==
  \A r \in {c.ticket : c \in db.canceladas} \cup db.reserva :
     Cancellations(r) + Active(r) <= Sales(r) + Cancelling(r) + Torn(r)

\* The screening a user chose from a list is, by the time the request about it
\* is handled, still that screening or gone: its id never names another one
\* (AUTOINCREMENT, database.c).
HandlesNeverRebound ==
  \A s \in Sessions : LET p == client[s].screening
                      IN p # NoScreening /\ p.id \in Ids(db) => p \in db.proyeccion

\* What the user is told is the reason (startReservation, startAdministrator):
\* "became unavailable" and "already occupied" only of a seat, a slot or a movie
\* that is taken, "isn't available anymore" only of what is gone.
ErrorsTruthful ==
  \A s \in Sessions : thread[s].at = "reply" =>
    LET q == thread[s].req
        code == thread[s].out.code
    IN /\ code = "ERR_CONSTRAINT_VIOLATION" =>
            \/ q.type = "REQ_MOVIE_ADD" /\ q.movie \in db.pelicula
            \/ q.type = "REQ_SCREENING_ADD" /\ \E p \in db.proyeccion : p.turno = q.turno
            \/ /\ q.type = "REQ_MAKE_RESERVATION"
               /\ q.res.asiento \in QUERY_OCCUPIED_SEATS(db, q.res.proyeccionID)
       /\ code = "ERR_NO_SUCH_DATA" => ~Exists(db, q)

\* A list is sent while it is still what the database holds: nothing is
\* written between the query and the end of the answer (process_request), and
\* after no failure the list is complete.
ListCurrent ==
  \A s \in Sessions : thread[s].at = "reply" /\ thread[s].out.code = "LIST" =>
    LET rows == Rows(db, thread[s].req)
    IN thread[s].out.items \subseteq rows /\ (faults = 0 => thread[s].out.items = rows)

Waiting(s) == client[s].at = "wait" /\ s2c[s] = NoReply

\* A client that has sent a request gets its answer or finds the connection
\* closed, whatever the other clients do and wherever a statement fails or the
\* server dies (client_rcv, process_request), provided that srv_log is not stuck
\* for ever.  Only a client whose thread could not be created (server.c:97) may
\* wait on.
RequestAnswered ==
  []<>~stuck =>
    \A s \in Sessions : Waiting(s) ~> ~Waiting(s) \/ thread[s].at = "unserved"

\* "Fatal: list index out of bounds" (utilities.c:108) is never reached.
IndexInBounds == \A s \in Sessions : client[s].at # "aborted"
=============================================================================
