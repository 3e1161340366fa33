------------------------ MODULE CinemaSessionsProofs ------------------------
(***************************************************************************)
(* The conversation of a client program with its thread, for any number of *)
(* them: an answer is the answer to what the client asked last, and what a *)
(* user chose from a list never turns into something else.  Every value    *)
(* that a client sends and a thread stores has its type.                   *)
(***************************************************************************)
EXTENDS CinemaTicketsProofs

\* The packets clients send, and the requests the server makes of them.
Packets ==
  [type : {"MOVIE_LIST"}]
    \cup [type : {"RESERVATION_LIST"}, name : Clients, flag : {0, 1}]
    \cup [type : {"MOVIE_ADD", "MOVIE_DELETE", "MOVIE_SCREENINGS"}, movie : Movies]
    \cup [type : {"SCREENING_ADD"}, movie : Movies, turno : Turnos]
    \cup [type : {"SCREENING_DELETE", "SEATING_INFO"}, id : Nat]
    \cup [type : {"MAKE_RESERVATION", "CANCEL_RESERVATION"}, res : Reserva]

Requests ==
  [type : {"REQ_MOVIE_LIST"}]
    \cup [type : {"REQ_RESERVATION_LIST", "REQ_CANCELLED_LIST"}, name : Clients, flag : {0, 1}]
    \cup [type : {"REQ_MOVIE_ADD", "REQ_MOVIE_DELETE", "REQ_MOVIE_SCREENINGS"}, movie : Movies]
    \cup [type : {"REQ_SCREENING_ADD"}, movie : Movies, turno : Turnos]
    \cup [type : {"REQ_SCREENING_DELETE", "REQ_SEATING_INFO"}, id : Nat]
    \cup [type : {"REQ_MAKE_RESERVATION", "REQ_CANCEL_RESERVATION"}, res : Reserva]

Codes == {"NONE", "OK", "LIST", "ERR_UNKNOWN", "ERR_NO_SUCH_DATA", "ERR_CONSTRAINT_VIOLATION"}

\* A screening that is or was in the database: its id is not, and will not be,
\* the id of another one.
Known(d, p) == /\ p \in Proyeccion /\ p.id <= d.seqProyeccion
               /\ p.id \in Ids(d) => p \in d.proyeccion

\* The rows of an answer are rows of what the packet asked for.
ItemsFit(d, packet, items) ==
  /\ packet.type = "MOVIE_LIST" => items \subseteq Movies
  /\ packet.type = "MOVIE_SCREENINGS" => \A p \in items : Known(d, p)
  /\ packet.type = "RESERVATION_LIST" =>
       \A k \in items : Known(d, k.screening) /\ k.asiento \in Seats

-----------------------------------------------------------------------------
(* The database moves on.                                                  *)

\* Rows of proyeccion keep their ids and new ones get new ids.
Later(d, e) ==
  /\ d.seqProyeccion <= e.seqProyeccion
  /\ \A p \in e.proyeccion : p \in d.proyeccion \/ p.id > d.seqProyeccion
  /\ \A p \in d.proyeccion : p.id \in Ids(e) => p \in e.proyeccion

\* A known screening stays known.
LEMMA KnownLater ==
  ASSUME NEW d, NEW e, Later(d, e), d.seqProyeccion \in Nat, e.seqProyeccion \in Nat,
         NEW p, Known(d, p)
  PROVE  Known(e, p)
<1>1. p \in Proyeccion /\ p.id \in Nat /\ p.id <= d.seqProyeccion
  BY DEF Known, Proyeccion
<1>2. p.id <= e.seqProyeccion
  BY <1>1 DEF Later
<1>3. ASSUME p.id \in Ids(e) PROVE p \in e.proyeccion
  <2>1. PICK x \in e.proyeccion : x.id = p.id
    BY <1>3 DEF Ids
  <2>2. x \in d.proyeccion
    BY <1>1, <2>1 DEF Later
  <2>3. p \in d.proyeccion
    BY <2>1, <2>2 DEF Known, Ids
  <2> QED BY <1>3, <2>3 DEF Later
<1> QED BY <1>1, <1>2, <1>3 DEF Known

\* So do the rows of an answer.
LEMMA ItemsLater ==
  ASSUME NEW d, NEW e, Later(d, e), d.seqProyeccion \in Nat, e.seqProyeccion \in Nat,
         NEW packet, NEW items, ItemsFit(d, packet, items)
  PROVE  ItemsFit(e, packet, items)
BY KnownLater DEF ItemsFit

\* Deleting screenings: a typed database that is later than the one before.
LEMMA CascadeLater ==
  ASSUME NEW d \in Databases, Sound(d), NEW movies \in SUBSET Movies, NEW gone, NEW e,
         e = Cascade([d EXCEPT !.pelicula = movies], gone)
  PROVE  e \in Databases /\ Later(d, e)
<1> DEFINE p == {x \in d.proyeccion : x.id \notin gone}
           r == {x \in d.reserva : x.proyeccionID \notin gone}
           c == {x \in d.canceladas : x.ticket.proyeccionID \notin gone}
<1>1. e = [pelicula |-> movies, proyeccion |-> p, reserva |-> r, canceladas |-> c,
           seqProyeccion |-> d.seqProyeccion, seqCanceladas |-> d.seqCanceladas]
  BY CascadeRows DEF Sound
<1>2. /\ p \in SUBSET Proyeccion /\ r \in SUBSET Reserva /\ c \in SUBSET Canceladas
      /\ d.seqProyeccion \in Nat /\ d.seqCanceladas \in Nat
  BY DEF Databases
<1>3. \A x \in d.proyeccion : x \notin p => \A y \in p : y.id # x.id
  OBVIOUS
<1>4. p \subseteq d.proyeccion
  OBVIOUS
<1> HIDE DEF p, r, c
<1>5. e.proyeccion = p /\ e.seqProyeccion = d.seqProyeccion
  BY <1>1
<1>6. e \in Databases
  BY <1>1, <1>2 DEF Databases, Pelicula
<1>7. Later(d, e)
  BY <1>2, <1>3, <1>4, <1>5 DEF Later, Ids
<1> QED BY <1>6, <1>7

\* The fields of a request.
LEMMA RequestFields ==
  ASSUME NEW req \in Requests
  PROVE  /\ req.type \in {"REQ_MOVIE_ADD", "REQ_MOVIE_DELETE", "REQ_SCREENING_ADD"} =>
              req.movie \in Movies
         /\ req.type = "REQ_SCREENING_ADD" => req.turno \in Turnos
         /\ req.type \in {"REQ_MAKE_RESERVATION", "REQ_CANCEL_RESERVATION"} => req.res \in Reserva
BY DEF Requests

\* A statement on a typed request: a typed database, later than before.
LEMMA StatementLater ==
  ASSUME NEW d \in Databases, Sound(d), NEW req \in Requests, req.type \in Statements,
         NEW e, e = Statement(d, req).db
  PROVE  e \in Databases /\ Later(d, e)
<1>a. /\ d.pelicula \in SUBSET Movies /\ d.proyeccion \in SUBSET Proyeccion
      /\ d.reserva \in SUBSET Reserva /\ d.canceladas \in SUBSET Canceladas
      /\ d.seqProyeccion \in Nat /\ d.seqCanceladas \in Nat
  BY DEF Databases, Pelicula
<1>b. WellFormed(d) /\ \A p \in d.proyeccion : p.id <= d.seqProyeccion
  BY DEF Sound, Integrity, SequencesAhead
<1>c. ASSUME e = d PROVE e \in Databases /\ Later(d, e)
  BY <1>a, <1>c DEF Later
<1>1. CASE req.type = "REQ_MOVIE_ADD"
  <2>1. req.movie \in Movies
    BY <1>1, RequestFields
  <2>2. CASE req.movie \in d.pelicula
    BY <1>1, <1>c, <2>2 DEF Statement, STMNT_ADD_MOVIE, Refused
  <2>3. CASE req.movie \notin d.pelicula
    <3>1. e = [d EXCEPT !.pelicula = d.pelicula \cup {req.movie}]
      BY <1>1, <2>3 DEF Statement, STMNT_ADD_MOVIE, Done
    <3>2. e.proyeccion = d.proyeccion /\ e.seqProyeccion = d.seqProyeccion
      BY <1>b, <3>1 DEF WellFormed
    <3>3. e \in Databases
      BY <1>a, <2>1, <3>1 DEF Databases, Pelicula
    <3> QED BY <1>a, <3>2, <3>3 DEF Later
  <2> QED BY <2>2, <2>3
<1>2. CASE req.type = "REQ_MOVIE_DELETE"
  <2>1. PICK gone : e = Cascade([d EXCEPT !.pelicula = d.pelicula \ {req.movie}], gone)
    BY <1>2 DEF Statement, STMNT_DELETE_MOVIE, Done
  <2>2. d.pelicula \ {req.movie} \in SUBSET Movies
    BY <1>a
  <2> QED BY <2>1, <2>2, CascadeLater
<1>3. CASE req.type = "REQ_SCREENING_ADD"
  <2> DEFINE new == [id |-> d.seqProyeccion + 1, nombrePelicula |-> req.movie,
                     turno |-> req.turno]
  <2>1. new \in Proyeccion /\ new.id = d.seqProyeccion + 1
    BY <1>3, <1>a, RequestFields DEF Proyeccion
  <2>2. CASE req.movie \notin d.pelicula \/ \E p \in d.proyeccion : p.turno = req.turno
    BY <1>3, <1>c, <2>2 DEF Statement, STMNT_ADD_SCREENING, Refused
  <2>3. CASE ~(req.movie \notin d.pelicula \/ \E p \in d.proyeccion : p.turno = req.turno)
    <3>1. e = STMNT_ADD_SCREENING(d, req.movie, req.turno).db
      BY <1>3 DEF Statement
    <3>2. e = [pelicula |-> d.pelicula, proyeccion |-> d.proyeccion \cup {new},
               reserva |-> d.reserva, canceladas |-> d.canceladas,
               seqProyeccion |-> d.seqProyeccion + 1, seqCanceladas |-> d.seqCanceladas]
      BY <1>b, <2>3, <3>1, AddScreeningRows
    <3> HIDE DEF new
    <3>3. e.proyeccion = d.proyeccion \cup {new} /\ e.seqProyeccion = d.seqProyeccion + 1
      BY <3>2
    <3>4. e \in Databases
      BY <1>a, <2>1, <3>2 DEF Databases, Pelicula
    <3>5. Later(d, e)
      BY <1>a, <2>1, <3>3 DEF Later
    <3> QED BY <3>4, <3>5
  <2> QED BY <2>2, <2>3
<1>4. CASE req.type = "REQ_SCREENING_DELETE"
  <2>1. e = Cascade(d, {req.id})
    BY <1>4 DEF Statement, STMNT_DELETE_SCREENING, Done
  <2>2. d = [d EXCEPT !.pelicula = d.pelicula]
    BY <1>b DEF WellFormed
  <2> QED BY <1>a, <2>1, <2>2, CascadeLater
<1>5. CASE req.type = "REQ_MAKE_RESERVATION"
  <2> DEFINE q == req.res
  <2>1. q \in Reserva /\ e = STMNT_MAKE_RESERVATION(d, q).db
    BY <1>5, RequestFields DEF Statement
  <2>2. CASE q.proyeccionID \notin Ids(d) \/ <<q.proyeccionID, q.asiento>> \in SeatsTaken(d)
    BY <1>c, <2>1, <2>2 DEF STMNT_MAKE_RESERVATION, Refused
  <2>3. CASE ~(q.proyeccionID \notin Ids(d) \/ <<q.proyeccionID, q.asiento>> \in SeatsTaken(d))
    <3>1. e = [pelicula |-> d.pelicula, proyeccion |-> d.proyeccion,
               reserva |-> d.reserva \cup {q}, canceladas |-> d.canceladas,
               seqProyeccion |-> d.seqProyeccion, seqCanceladas |-> d.seqCanceladas]
      BY <1>b, <2>1, <2>3, MakeReservationRows
    <3>2. e.proyeccion = d.proyeccion /\ e.seqProyeccion = d.seqProyeccion
      BY <3>1
    <3>3. e \in Databases
      BY <1>a, <2>1, <3>1 DEF Databases, Pelicula
    <3> QED BY <1>a, <3>2, <3>3 DEF Later
  <2> QED BY <2>2, <2>3
<1>6. CASE req.type = "REQ_CANCEL_RESERVATION"
  <2> DEFINE q == req.res
             new == [id |-> d.seqCanceladas + 1, ticket |-> q]
  <2>1. q \in Reserva /\ e = CANCEL_INSERT(d, q).db
    BY <1>6, RequestFields DEF Statement
  <2>2. new \in Canceladas
    BY <1>a, <2>1 DEF Canceladas
  <2>3. CASE q.proyeccionID \notin Ids(d)
    BY <1>c, <2>1, <2>3 DEF CANCEL_INSERT, Refused
  <2>4. CASE q.proyeccionID \in Ids(d)
    <3>1. e = [pelicula |-> d.pelicula, proyeccion |-> d.proyeccion, reserva |-> d.reserva,
               canceladas |-> d.canceladas \cup {new}, seqProyeccion |-> d.seqProyeccion,
               seqCanceladas |-> d.seqCanceladas + 1]
      BY <1>b, <2>1, <2>4, CancelInsertRows
    <3> HIDE DEF new
    <3>2. e.proyeccion = d.proyeccion /\ e.seqProyeccion = d.seqProyeccion
      BY <3>1
    <3>3. e \in Databases
      BY <1>a, <2>2, <3>1 DEF Databases, Pelicula
    <3> QED BY <1>a, <3>2, <3>3 DEF Later
  <2> QED BY <2>3, <2>4
<1> QED BY <1>1, <1>2, <1>3, <1>4, <1>5, <1>6 DEF Statements

\* The DELETE of a cancellation does not touch the screenings.
LEMMA CancelDeleteLater ==
  ASSUME NEW d \in Databases, NEW r, NEW e, e = CANCEL_DELETE(d, r).db
  PROVE  e \in Databases /\ Later(d, e)
<1>1. e = [d EXCEPT !.reserva = d.reserva \ {r}]
  BY DEF CANCEL_DELETE, Done
<1>2. e \in Databases /\ e.proyeccion = d.proyeccion /\ e.seqProyeccion = d.seqProyeccion
  BY <1>1 DEF Databases
<1> QED BY <1>2 DEF Later, Databases

-----------------------------------------------------------------------------
(* Packets, requests and answers.                                          *)

\* The request built of a packet.
LEMMA BuildRequest ==
  ASSUME NEW p \in Packets, NEW q, q = build_request(p)
  PROVE  /\ q \in Requests
         /\ p.type = "MOVIE_LIST" => q.type = "REQ_MOVIE_LIST"
         /\ p.type = "MOVIE_SCREENINGS" => q.type = "REQ_MOVIE_SCREENINGS"
         /\ p.type = "RESERVATION_LIST" => q.type \in {"REQ_RESERVATION_LIST", "REQ_CANCELLED_LIST"}
<1>1. CASE p \in [type : {"MOVIE_LIST"}]
  BY <1>1 DEF Requests, build_request, BuiltType
<1>2. CASE p \in [type : {"RESERVATION_LIST"}, name : Clients, flag : {0, 1}]
  BY <1>2 DEF Requests, build_request, BuiltType
<1>3. CASE p \in [type : {"MOVIE_ADD", "MOVIE_DELETE", "MOVIE_SCREENINGS"}, movie : Movies]
  BY <1>3 DEF Requests, build_request, BuiltType
<1>4. CASE p \in [type : {"SCREENING_ADD"}, movie : Movies, turno : Turnos]
  BY <1>4 DEF Requests, build_request, BuiltType
<1>5. CASE p \in [type : {"SCREENING_DELETE", "SEATING_INFO"}, id : Nat]
  BY <1>5 DEF Requests, build_request, BuiltType
<1>6. CASE p \in [type : {"MAKE_RESERVATION", "CANCEL_RESERVATION"}, res : Reserva]
  BY <1>6 DEF Requests, build_request, BuiltType
<1> QED BY <1>1, <1>2, <1>3, <1>4, <1>5, <1>6 DEF Packets

\* The rows of a list fit the packet that asked for them.
LEMMA RowsFit ==
  ASSUME NEW d \in Databases, Sound(d), NEW p \in Packets, NEW q, q = build_request(p),
         NEW items, items \subseteq Rows(d, q)
  PROVE  ItemsFit(d, p, items)
<1>1. \A x \in d.proyeccion : Known(d, x)
  BY DEF Known, Databases, Sound, Integrity, SequencesAhead
<1>2. ASSUME p.type = "MOVIE_LIST" PROVE items \subseteq Movies
  <2>1. q.type = "REQ_MOVIE_LIST"
    BY <1>2, BuildRequest
  <2> QED BY <2>1 DEF Rows, QUERY_GET_MOVIE_LIST, Databases, Pelicula
<1>3. ASSUME p.type = "MOVIE_SCREENINGS" PROVE \A x \in items : Known(d, x)
  <2>1. q.type = "REQ_MOVIE_SCREENINGS"
    BY <1>3, BuildRequest
  <2> QED BY <1>1, <2>1 DEF Rows, QUERY_GET_SCREENINGS
<1>4. ASSUME p.type = "RESERVATION_LIST"
      PROVE  \A k \in items : Known(d, k.screening) /\ k.asiento \in Seats
  <2>a. ASSUME NEW rows \in SUBSET Reserva, items \subseteq TicketsOf(d, rows)
        PROVE  \A k \in items : Known(d, k.screening) /\ k.asiento \in Seats
    <3> TAKE k \in items
    <3>1. PICK x \in rows \X d.proyeccion : k = [asiento |-> x[1].asiento, screening |-> x[2]]
      BY <2>a DEF TicketsOf
    <3>2. x[1] \in Reserva /\ x[2] \in d.proyeccion
      BY <3>1
    <3>3. k.asiento = x[1].asiento /\ k.screening = x[2]
      BY <3>1
    <3> QED BY <1>1, <3>2, <3>3 DEF Reserva
  <2>1. q.type \in {"REQ_RESERVATION_LIST", "REQ_CANCELLED_LIST"}
    BY <1>4, BuildRequest
  <2>2. CASE q.type = "REQ_RESERVATION_LIST"
    <3>1. items \subseteq TicketsOf(d, {r \in d.reserva : r.cliente = q.name})
      BY <2>2 DEF Rows, QUERY_GET_RESERVED
    <3>2. {r \in d.reserva : r.cliente = q.name} \in SUBSET Reserva
      BY DEF Databases
    <3> QED BY <2>a, <3>1, <3>2
  <2>3. CASE q.type = "REQ_CANCELLED_LIST"
    <3>1. items \subseteq TicketsOf(d, {r \in {x.ticket : x \in d.canceladas} : r.cliente = q.name})
      BY <2>3 DEF Rows, QUERY_GET_CANCELLED
    <3>2. {r \in {x.ticket : x \in d.canceladas} : r.cliente = q.name} \in SUBSET Reserva
      BY DEF Databases, Canceladas
    <3> QED BY <2>a, <3>1, <3>2
  <2> QED BY <2>1, <2>2, <2>3
<1> QED BY <1>2, <1>3, <1>4 DEF ItemsFit

-----------------------------------------------------------------------------
(* The conversation.                                                       *)

\* Between reading a request and answering it.
Busy(t) == t.at \in {"enter", "exists", "exec", "delete", "query", "reply"}

\* A thread has a request and, before it replies, an answer.
ThreadFits(t) ==
  /\ t.at \in {"off", "unserved", "read", "enter", "exists", "exec", "delete", "query",
               "reply", "leave"}
  /\ Busy(t) => t.req \in Requests
  /\ t.at = "reply" => t.out.code \in Codes /\ (t.out.code # "LIST" => t.out.items = {})

\* What the client program remembers while it goes through a menu option.
ClientFits(d, c) ==
  /\ c.at \in {"off", "menu", "wait", "aborted"}
  /\ c.screening # NoScreening => Known(d, c.screening)
  /\ c.op \in ClientOptions => c.name \in Clients
  /\ c.at = "wait" =>
       /\ c.asked \in Packets
       /\ c.asked.type = "SEATING_INFO" => c.op = "RESERVE_MOVIE" /\ Known(d, c.screening)
       /\ c.asked.type = "RESERVATION_LIST" => c.op \in ClientOptions

\* At most one of the two ends has something to do for the other: a packet on
\* its way is the one the client waits for, a thread at work has its request,
\* and an answer on its way answers it.
Turns(d, t, c, packet, answer) ==
  /\ packet \in Packets \cup {NoRequest} /\ answer.code \in Codes
  /\ c.at = "menu" => packet = NoRequest /\ answer = NoReply /\ ~Busy(t)
  /\ c.at = "wait" =>
       /\ packet # NoRequest => packet = c.asked /\ answer = NoReply /\ ~Busy(t)
       /\ Busy(t) => t.req = build_request(c.asked) /\ answer = NoReply
       /\ ItemsFit(d, c.asked, answer.items)

SessionFits(d, t, c, packet, answer) ==
  ThreadFits(t) /\ ClientFits(d, c) /\ Turns(d, t, c, packet, answer)

Fits(s) == SessionFits(db, thread[s], client[s], c2s[s], s2c[s])

ClientShape ==
  /\ client = [s \in Sessions |-> [at |-> client[s].at, op |-> client[s].op,
                                   name |-> client[s].name, screening |-> client[s].screening,
                                   asked |-> client[s].asked]]
  /\ c2s = [s \in Sessions |-> c2s[s]]
  /\ s2c = [s \in Sessions |-> s2c[s]]

\* The inductive invariant: both ends of every connection fit each other.
SessionInv ==
  /\ IsolationInv /\ ClientShape /\ db \in Databases /\ up \in BOOLEAN
  /\ ops \in 0..MaxOps /\ faults \in 0..MaxFaults
  /\ \A s \in Sessions : Fits(s)

\* Fits in the next state.
LEMMA FitsPrime ==
  ASSUME NEW s
  PROVE  Fits(s)' <=> SessionFits(db', thread'[s], client'[s], c2s'[s], s2c'[s])
BY DEF Fits, SessionFits, ThreadFits, ClientFits, Turns, Busy, ItemsFit, Known, Ids,
       build_request, BuiltType

\* What fits a database fits the ones after it.
LEMMA SessionLater ==
  ASSUME NEW d, NEW e, Later(d, e), d.seqProyeccion \in Nat, e.seqProyeccion \in Nat,
         NEW t, NEW c, NEW packet, NEW answer, SessionFits(d, t, c, packet, answer)
  PROVE  SessionFits(e, t, c, packet, answer)
<1>1. ClientFits(e, c)
  BY KnownLater DEF SessionFits, ClientFits
<1>2. ItemsFit(d, c.asked, answer.items) => ItemsFit(e, c.asked, answer.items)
  BY ItemsLater
<1>3. Turns(e, t, c, packet, answer)
  BY <1>2 DEF SessionFits, Turns
<1> QED BY <1>1, <1>3 DEF SessionFits

\* A step of one session does not disturb the others.
LEMMA SessionStep ==
  ASSUME SessionInv, IsolationInv', ClientShape', NEW s \in Sessions,
         db' \in Databases, Later(db, db'), UNCHANGED up,
         ops' \in 0..MaxOps, faults' \in 0..MaxFaults,
         \A u \in Sessions : u # s => /\ thread'[u] = thread[u] /\ client'[u] = client[u]
                                      /\ c2s'[u] = c2s[u] /\ s2c'[u] = s2c[u],
         SessionFits(db', thread'[s], client'[s], c2s'[s], s2c'[s])
  PROVE  SessionInv'
<1>1. db.seqProyeccion \in Nat /\ db'.seqProyeccion \in Nat
  BY DEF SessionInv, Databases
<1>2. ASSUME NEW u \in Sessions PROVE Fits(u)'
  <2>1. CASE u = s
    BY <2>1, FitsPrime
  <2>2. CASE u # s
    <3>1. SessionFits(db, thread[u], client[u], c2s[u], s2c[u])
      BY DEF SessionInv, Fits
    <3>2. SessionFits(db', thread[u], client[u], c2s[u], s2c[u])
      BY <1>1, <3>1, SessionLater
    <3>3. SessionFits(db', thread'[u], client'[u], c2s'[u], s2c'[u])
      BY <2>2, <3>2
    <3> QED BY <3>3, FitsPrime
  <2> QED BY <2>1, <2>2
<1>3. db' \in Databases /\ up' \in BOOLEAN
  BY DEF SessionInv
<1>4. (db \in Databases)'
  BY <1>3 DEF Databases, Pelicula, Proyeccion, Reserva, Canceladas
<1> QED BY <1>2, <1>3, <1>4 DEF SessionInv

\* A database that does not change.
LEMMA SameIsLater ==
  ASSUME NEW d \in Databases
  PROVE  Later(d, d)
BY DEF Later, Databases

-----------------------------------------------------------------------------
(* The client's side.                                                      *)

\* A step of a client program changes its own memory, packet and answer.
LEMMA ClientStep ==
  ASSUME SessionInv, IsolationInv', NEW s \in Sessions, NEW c, NEW packet, NEW answer,
         c = [at |-> c.at, op |-> c.op, name |-> c.name, screening |-> c.screening,
              asked |-> c.asked],
         client' = [client EXCEPT ![s] = c], c2s' = [c2s EXCEPT ![s] = packet],
         s2c' = [s2c EXCEPT ![s] = answer],
         UNCHANGED <<db, thread, up, faults>>, ops' \in 0..MaxOps,
         SessionFits(db, thread[s], c, packet, answer)
  PROVE  SessionInv'
<1>1. /\ client'[s] = c /\ c2s'[s] = packet /\ s2c'[s] = answer
      /\ \A u \in Sessions : u # s => /\ client'[u] = client[u] /\ c2s'[u] = c2s[u]
                                      /\ s2c'[u] = s2c[u]
  BY DEF SessionInv, ClientShape
<1>2. /\ client' = [u \in Sessions |-> client'[u]] /\ c2s' = [u \in Sessions |-> c2s'[u]]
      /\ s2c' = [u \in Sessions |-> s2c'[u]]
  BY DEF SessionInv, ClientShape
<1>3. \A u \in Sessions :
        client[u] = [at |-> client[u].at, op |-> client[u].op, name |-> client[u].name,
                     screening |-> client[u].screening, asked |-> client[u].asked]
  BY DEF SessionInv, ClientShape
<1>4. \A u \in Sessions :
        client'[u] = [at |-> client'[u].at, op |-> client'[u].op, name |-> client'[u].name,
                      screening |-> client'[u].screening, asked |-> client'[u].asked]
  BY <1>1, <1>3
<1>5. ClientShape'
  BY <1>2, <1>4 DEF ClientShape
<1>6. db \in Databases /\ faults \in 0..MaxFaults /\ Later(db, db)
  BY SameIsLater DEF SessionInv
<1>7. SessionFits(db', thread'[s], client'[s], c2s'[s], s2c'[s])
  BY <1>1
<1> QED BY <1>1, <1>5, <1>6, <1>7, SessionStep

\* When an answer has arrived, it is the client's turn.
LEMMA AnswerFits ==
  ASSUME SessionInv, NEW s \in Sessions, NEW type, Answered(s, type)
  PROVE  /\ client[s].at = "wait" /\ client[s].asked.type = type /\ client[s].asked \in Packets
         /\ c2s[s] = NoRequest /\ ~Busy(thread[s]) /\ ThreadFits(thread[s])
         /\ ItemsFit(db, client[s].asked, s2c[s].items)
         /\ ClientFits(db, client[s])
BY DEF SessionInv, Fits, SessionFits, Turns, ClientFits, Answered

\* The client goes back to the menu or ends.
LEMMA Leaves ==
  ASSUME SessionInv, IsolationInv', NEW s \in Sessions, NEW type, Answered(s, type),
         NEW at \in {"menu", "aborted"}, Leave(s, at)
  PROVE  SessionInv'
<1> DEFINE c == [at |-> at, op |-> "NONE", name |-> "NONE", screening |-> NoScreening,
                 asked |-> NoRequest]
<1>1. client' = [client EXCEPT ![s] = c]
  <2>1. [Gone EXCEPT !.at = at] = c
    BY DEF Gone
  <2> QED BY <2>1 DEF Leave
<1>2. /\ c2s' = [c2s EXCEPT ![s] = c2s[s]] /\ s2c' = [s2c EXCEPT ![s] = NoReply]
      /\ UNCHANGED <<db, thread, up, faults, ops>>
  BY DEF Leave, Answered, ServerSide, SessionInv, ClientShape
<1>3. SessionFits(db, thread[s], c, c2s[s], NoReply)
  BY AnswerFits DEF SessionFits, ClientFits, Turns, ClientOptions, NoReply, Codes
<1>4. ops' \in 0..MaxOps
  BY <1>2 DEF SessionInv
<1>5. c = [at |-> c.at, op |-> c.op, name |-> c.name, screening |-> c.screening,
           asked |-> c.asked]
  OBVIOUS
<1> HIDE DEF c
<1> QED BY <1>1, <1>2, <1>3, <1>4, <1>5, ClientStep

\* The client goes on with the next packet of its menu option.
LEMMA Asks ==
  ASSUME SessionInv, IsolationInv', NEW s \in Sessions, NEW type, Answered(s, type),
         NEW packet \in Packets, NEW screening, Ask(s, packet, screening),
         screening # NoScreening => Known(db, screening),
         packet.type = "SEATING_INFO" =>
           client[s].op = "RESERVE_MOVIE" /\ Known(db, screening),
         packet.type = "RESERVATION_LIST" => client[s].op \in ClientOptions
  PROVE  SessionInv'
<1> DEFINE c == [at |-> "wait", op |-> client[s].op, name |-> client[s].name,
                 screening |-> screening, asked |-> packet]
<1>1. client' = [client EXCEPT ![s] = c]
  BY DEF Ask
<1>2. /\ c2s' = [c2s EXCEPT ![s] = packet] /\ s2c' = [s2c EXCEPT ![s] = NoReply]
      /\ UNCHANGED <<db, thread, up, faults, ops>>
  BY DEF Ask, Answered, ServerSide
<1>3. SessionFits(db, thread[s], c, packet, NoReply)
  <2>1. ItemsFit(db, packet, NoReply.items) /\ NoReply.code \in Codes
    BY DEF ItemsFit, NoReply, Codes
  <2>2. ClientFits(db, c)
    BY AnswerFits DEF ClientFits
  <2>3. Turns(db, thread[s], c, packet, NoReply)
    BY <2>1, AnswerFits DEF Turns
  <2> QED BY <2>2, <2>3, AnswerFits DEF SessionFits
<1>4. ops' \in 0..MaxOps
  BY <1>2 DEF SessionInv
<1>5. c = [at |-> c.at, op |-> c.op, name |-> c.name, screening |-> c.screening,
           asked |-> c.asked]
  OBVIOUS
<1> HIDE DEF c
<1> QED BY <1>1, <1>2, <1>3, <1>4, <1>5, ClientStep

\* The client program ends.  What it has sent stays or is lost.
LEMMA Ends ==
  ASSUME SessionInv, IsolationInv', NEW s \in Sessions, client' = [client EXCEPT ![s] = Gone],
         c2s' \in {c2s, [c2s EXCEPT ![s] = NoRequest]},
         s2c' \in {s2c, [s2c EXCEPT ![s] = NoReply]},
         UNCHANGED <<db, thread, up, faults, ops>>
  PROVE  SessionInv'
<1>1. Gone = [at |-> Gone.at, op |-> Gone.op, name |-> Gone.name, screening |-> Gone.screening,
              asked |-> Gone.asked]
  BY DEF Gone
<1>2. PICK packet, answer : /\ packet \in {c2s[s], NoRequest} /\ answer \in {s2c[s], NoReply}
                            /\ c2s' = [c2s EXCEPT ![s] = packet]
                            /\ s2c' = [s2c EXCEPT ![s] = answer]
  <2>1. c2s = [c2s EXCEPT ![s] = c2s[s]] /\ s2c = [s2c EXCEPT ![s] = s2c[s]]
    BY DEF SessionInv, ClientShape
  <2> QED BY <2>1
<1>3. ThreadFits(thread[s]) /\ c2s[s] \in Packets \cup {NoRequest} /\ s2c[s].code \in Codes
  BY DEF SessionInv, Fits, SessionFits, Turns
<1>4. packet \in Packets \cup {NoRequest} /\ answer.code \in Codes
  BY <1>2, <1>3 DEF NoReply, Codes
<1>5. SessionFits(db, thread[s], Gone, packet, answer)
  BY <1>3, <1>4 DEF SessionFits, ClientFits, Turns, ClientOptions, Gone
<1>6. ops' \in 0..MaxOps
  BY DEF SessionInv
<1> QED BY <1>1, <1>2, <1>5, <1>6, ClientStep

\* The first packet of a menu option.
LEMMA ChooseOption ==
  ASSUME SessionInv, IsolationInv', NEW s \in Sessions, choose_option(s)
  PROVE  SessionInv'
<1>1. PICK o \in Options, n \in Clients : \E p \in FirstPackets(o, n) :
        /\ client' = [client EXCEPT ![s] = [at |-> "wait", op |-> o, asked |-> p,
                        name |-> IF o \in ClientOptions THEN n ELSE "NONE",
                        screening |-> NoScreening]]
        /\ c2s' = [c2s EXCEPT ![s] = p]
  BY DEF choose_option
<1> DEFINE name == IF o \in ClientOptions THEN n ELSE "NONE"
<1>2. PICK p \in FirstPackets(o, n) :
        /\ client' = [client EXCEPT ![s] = [at |-> "wait", op |-> o, asked |-> p,
                        name |-> name, screening |-> NoScreening]]
        /\ c2s' = [c2s EXCEPT ![s] = p]
  BY <1>1
<1>3. /\ p \in Packets /\ p.type # "SEATING_INFO"
      /\ p.type = "RESERVATION_LIST" => o \in ClientOptions
  <2>1. CASE o \in {"VIEW_RESERVATIONS", "CANCEL_RESERVATION"}
    <3>1. p = [type |-> "RESERVATION_LIST", name |-> n, flag |-> 0]
      BY <1>2, <2>1 DEF FirstPackets
    <3> QED BY <2>1, <3>1 DEF Packets, ClientOptions
  <2>2. CASE o = "ADD_MOVIE"
    <3>1. PICK m \in Movies : p = [type |-> "MOVIE_ADD", movie |-> m]
      BY <1>2, <2>2 DEF FirstPackets
    <3> QED BY <3>1 DEF Packets
  <2>3. CASE o \notin {"VIEW_RESERVATIONS", "CANCEL_RESERVATION", "ADD_MOVIE"}
    <3>1. p = [type |-> "MOVIE_LIST"]
      BY <1>2, <2>3 DEF FirstPackets
    <3> QED BY <3>1 DEF Packets
  <2> QED BY <2>1, <2>2, <2>3
<1>4. o \in ClientOptions => name \in Clients
  OBVIOUS
<1> HIDE DEF name
<1> DEFINE c == [at |-> "wait", op |-> o, name |-> name, screening |-> NoScreening, asked |-> p]
<1>5. client' = [client EXCEPT ![s] = c]
  BY <1>2
<1>6. /\ ThreadFits(thread[s]) /\ ~Busy(thread[s]) /\ s2c[s] = NoReply
      /\ s2c = [s2c EXCEPT ![s] = s2c[s]]
      /\ UNCHANGED <<db, thread, up, faults, s2c>> /\ ops' \in 0..MaxOps
  <2>1. client[s].at = "menu" /\ ops < MaxOps /\ ops' = ops + 1
        /\ UNCHANGED <<db, thread, up, faults, s2c>>
    BY DEF choose_option, ServerSide
  <2>2. s2c = [s2c EXCEPT ![s] = s2c[s]]
    BY DEF SessionInv, ClientShape
  <2>3. ops' \in 0..MaxOps
    BY <2>1, ServerBounds DEF SessionInv
  <2> QED BY <2>1, <2>2, <2>3 DEF SessionInv, Fits, SessionFits, Turns
<1>7. SessionFits(db, thread[s], c, p, NoReply)
  <2>1. ItemsFit(db, p, NoReply.items) /\ NoReply.code \in Codes
    BY DEF ItemsFit, NoReply, Codes
  <2>2. ClientFits(db, c)
    BY <1>3, <1>4 DEF ClientFits
  <2>3. Turns(db, thread[s], c, p, NoReply)
    BY <1>3, <1>6, <2>1 DEF Turns
  <2> QED BY <1>6, <2>2, <2>3 DEF SessionFits
<1>8. c = [at |-> c.at, op |-> c.op, name |-> c.name, screening |-> c.screening,
           asked |-> c.asked]
  OBVIOUS
<1> HIDE DEF c
<1>9. s2c' = [s2c EXCEPT ![s] = NoReply]
  BY <1>6
<1> QED BY <1>2, <1>5, <1>6, <1>7, <1>8, <1>9, ClientStep

\* Every step of a client program that has its answer, or finds the connection
\* closed, keeps the invariant.
LEMMA ClientSession ==
  ASSUME SessionInv, IsolationInv', NEW s \in Sessions, Client(s)
  PROVE  SessionInv'
<1> DEFINE o == client[s].op
           items == s2c[s].items
<1>1. CASE got_movies(s)
  <2>1. Answered(s, "MOVIE_LIST")
    BY <1>1 DEF got_movies
  <2>2. items \subseteq Movies
    BY <2>1, AnswerFits DEF ItemsFit
  <2>3. \/ \E at \in {"menu", "aborted"} : Leave(s, at)
        \/ \E m \in items : \E p \in MoviePackets(o, m) : Ask(s, p, NoScreening)
    BY <1>1 DEF got_movies, Menu
  <2>4. ASSUME NEW m \in items, NEW p \in MoviePackets(o, m), Ask(s, p, NoScreening)
        PROVE  SessionInv'
    <3>1. m \in Movies
      BY <2>2
    <3>2. /\ p \in Packets /\ p.type \in {"SCREENING_ADD", "MOVIE_DELETE", "MOVIE_SCREENINGS"}
      <4>1. CASE o = "ADD_SCREENING"
        <5>1. PICK k \in Turnos : p = [type |-> "SCREENING_ADD", movie |-> m, turno |-> k]
          BY <4>1 DEF MoviePackets
        <5> QED BY <3>1, <5>1 DEF Packets
      <4>2. CASE o = "DEL_MOVIE"
        <5>1. p = [type |-> "MOVIE_DELETE", movie |-> m]
          BY <4>2 DEF MoviePackets
        <5> QED BY <3>1, <5>1 DEF Packets
      <4>3. CASE o \notin {"ADD_SCREENING", "DEL_MOVIE"}
        <5>1. p = [type |-> "MOVIE_SCREENINGS", movie |-> m]
          BY <4>3 DEF MoviePackets
        <5> QED BY <3>1, <5>1 DEF Packets
      <4> QED BY <4>1, <4>2, <4>3
    <3> QED BY <2>1, <2>4, <3>2, Asks
  <2> QED BY <2>1, <2>3, <2>4, Leaves
<1>2. CASE got_screenings(s)
  <2>1. Answered(s, "MOVIE_SCREENINGS")
    BY <1>2 DEF got_screenings
  <2>2. \A p \in items : Known(db, p)
    BY <2>1, AnswerFits DEF ItemsFit
  <2>3. \/ Leave(s, "menu")
        \/ \E p \in items :
             Ask(s, [type |-> IF o = "RESERVE_MOVIE" THEN "SEATING_INFO" ELSE "SCREENING_DELETE",
                     id |-> p.id], p)
    BY <1>2 DEF got_screenings, Menu
  <2>4. ASSUME NEW p \in items, NEW t, NEW packet, packet = [type |-> t, id |-> p.id],
               t = IF o = "RESERVE_MOVIE" THEN "SEATING_INFO" ELSE "SCREENING_DELETE",
               Ask(s, packet, p)
        PROVE  SessionInv'
    <3>1. Known(db, p) /\ p.id \in Nat
      BY <2>2 DEF Known, Proyeccion
    <3>2. packet.type = t /\ t \in {"SEATING_INFO", "SCREENING_DELETE"}
      BY <2>4
    <3>3. packet \in Packets
      BY <2>4, <3>1, <3>2 DEF Packets
    <3>4. packet.type = "SEATING_INFO" => o = "RESERVE_MOVIE"
      BY <2>4, <3>2
    <3> QED BY <2>1, <2>4, <3>1, <3>2, <3>3, <3>4, Asks
  <2> QED BY <2>1, <2>3, <2>4, Leaves
<1>3. CASE got_hall(s)
  <2> DEFINE p == client[s].screening
             n == client[s].name
  <2>1. Answered(s, "SEATING_INFO")
    BY <1>3 DEF got_hall
  <2>2. Known(db, p) /\ n \in Clients
    BY <2>1, AnswerFits DEF ClientFits, ClientOptions
  <2>3. \/ Leave(s, "menu")
        \/ \E a \in Seats : Ask(s, [type |-> "MAKE_RESERVATION", res |-> Reservation(n, p, a)], p)
    BY <1>3 DEF got_hall, Menu
  <2>4. ASSUME NEW a \in Seats, NEW packet,
               packet = [type |-> "MAKE_RESERVATION", res |-> Reservation(n, p, a)],
               Ask(s, packet, p)
        PROVE  SessionInv'
    <3>1. Reservation(n, p, a) \in Reserva
      BY <2>2 DEF Reservation, Reserva, Known, Proyeccion
    <3>2. packet \in Packets /\ packet.type = "MAKE_RESERVATION"
      BY <2>4, <3>1 DEF Packets
    <3> QED BY <2>1, <2>2, <2>4, <3>2, Asks
  <2> QED BY <2>1, <2>3, <2>4, Leaves
<1>4. CASE got_tickets(s)
  <2> DEFINE n == client[s].name
  <2>1. Answered(s, "RESERVATION_LIST")
    BY <1>4 DEF got_tickets
  <2>2. /\ o \in ClientOptions /\ n \in Clients
        /\ \A k \in items : Known(db, k.screening) /\ k.asiento \in Seats
    BY <2>1, AnswerFits DEF ClientFits, ItemsFit
  <2>3. \/ Leave(s, "menu")
        \/ Ask(s, [type |-> "RESERVATION_LIST", name |-> n, flag |-> 1], NoScreening)
        \/ \E k \in items :
             Ask(s, [type |-> "CANCEL_RESERVATION",
                     res |-> Reservation(n, k.screening, k.asiento)], k.screening)
    BY <1>4 DEF got_tickets, Menu
  <2>4. ASSUME NEW packet, packet = [type |-> "RESERVATION_LIST", name |-> n, flag |-> 1],
               Ask(s, packet, NoScreening)
        PROVE  SessionInv'
    <3>1. packet \in Packets /\ packet.type = "RESERVATION_LIST"
      BY <2>2, <2>4 DEF Packets
    <3> QED BY <2>1, <2>2, <2>4, <3>1, Asks
  <2>5. ASSUME NEW k \in items, NEW p, p = k.screening, NEW packet,
               packet = [type |-> "CANCEL_RESERVATION", res |-> Reservation(n, p, k.asiento)],
               Ask(s, packet, p)
        PROVE  SessionInv'
    <3>1. Known(db, p) /\ Reservation(n, p, k.asiento) \in Reserva
      BY <2>2, <2>5 DEF Reservation, Reserva, Known, Proyeccion
    <3>2. packet \in Packets /\ packet.type = "CANCEL_RESERVATION"
      BY <2>5, <3>1 DEF Packets
    <3> QED BY <2>1, <2>5, <3>1, <3>2, Asks
  <2> QED BY <2>1, <2>3, <2>4, <2>5, Leaves
<1>5. CASE wait_ack(s)
  BY <1>5, Leaves DEF wait_ack, Menu
<1>6. CASE connection_closed(s)
  BY <1>6, Ends DEF connection_closed, ServerSide
<1> QED BY <1>1, <1>2, <1>3, <1>4, <1>5, <1>6 DEF Client

-----------------------------------------------------------------------------
(* The server's side.                                                      *)

\* A step of a thread that leaves the packet and the answer alone.
LEMMA ThreadStep ==
  ASSUME SessionInv, IsolationInv', NEW s \in Sessions, NEW at, NEW req, NEW out,
         Become(s, at, req, out), db' \in Databases, Later(db, db'),
         UNCHANGED <<up, client, c2s, s2c, ops>>, faults' \in 0..MaxFaults,
         Busy(thread[s]), req = thread[s].req,
         at \in {"exists", "exec", "delete", "query", "reply"},
         at = "reply" => out.code \in Codes /\ (out.code # "LIST" => out.items = {})
  PROVE  SessionInv'
<1> DEFINE t == thread'[s]
<1>1. /\ t.at = at /\ t.req = req /\ t.out = out
      /\ \A u \in Sessions : u # s => thread'[u] = thread[u]
  BY Becomes DEF SessionInv, IsolationInv, SoundInv
<1> HIDE DEF t
<1>2. SessionFits(db, thread[s], client[s], c2s[s], s2c[s])
  BY DEF SessionInv, Fits
<1>3. db.seqProyeccion \in Nat /\ db'.seqProyeccion \in Nat
  BY DEF SessionInv, Databases
<1>4. SessionFits(db', thread[s], client[s], c2s[s], s2c[s])
  BY <1>2, <1>3, SessionLater
<1>5. ThreadFits(t) /\ Busy(t)
  BY <1>1, <1>2 DEF SessionFits, ThreadFits, Busy
<1>6. Turns(db', t, client[s], c2s[s], s2c[s])
  BY <1>1, <1>4, <1>5 DEF SessionFits, Turns
<1>7. SessionFits(db', t, client[s], c2s[s], s2c[s])
  BY <1>4, <1>5, <1>6 DEF SessionFits
<1>8. ClientShape' /\ ops' \in 0..MaxOps
  BY DEF SessionInv, ClientShape
<1>9. SessionFits(db', thread'[s], client'[s], c2s'[s], s2c'[s])
  BY <1>7 DEF t
<1> QED BY <1>1, <1>8, <1>9, SessionStep

\* The answers of a handler that has no list to send.
LEMMA AckCode ==
  ASSUME NEW rc
  PROVE  Ack(rc).code \in Codes /\ Ack(rc).items = {}
BY DEF Ack, Reply, Codes

\* Every step of a thread of the server keeps the invariant.
LEMMA ThreadSession ==
  ASSUME SessionInv, IsolationInv', NEW s \in Sessions, Thread(s) \/ statement_fails(s)
  PROVE  SessionInv'
<1> DEFINE q == thread[s].req
<1>a. /\ IsolationInv /\ ThreadShape /\ Sound(db) /\ db \in Databases /\ Later(db, db)
      /\ faults \in 0..MaxFaults /\ ops \in 0..MaxOps
  BY SameIsLater DEF SessionInv, IsolationInv, SoundInv
<1>b. SessionFits(db, thread[s], client[s], c2s[s], s2c[s])
  BY DEF SessionInv, Fits
<1>c. Busy(thread[s]) => q \in Requests
  BY <1>b DEF SessionFits, ThreadFits
<1>1. CASE wait_request(s)
  <2>1. /\ thread[s].at = "read" /\ UNCHANGED <<db, faults, up, client, ops, s2c>>
    BY <1>1 DEF wait_request, ClientSide
  <2>2. CASE /\ c2s[s] # NoRequest /\ Become(s, "enter", build_request(c2s[s]), NoReply)
             /\ c2s' = [c2s EXCEPT ![s] = NoRequest]
    <3> DEFINE t == thread'[s]
    <3>1. /\ t.at = "enter" /\ t.req = build_request(c2s[s])
          /\ \A u \in Sessions : u # s => thread'[u] = thread[u]
      BY <1>a, <2>2, Becomes
    <3> HIDE DEF t
    <3>2. c2s'[s] = NoRequest /\ \A u \in Sessions : u # s => c2s'[u] = c2s[u]
      BY <2>2 DEF SessionInv, ClientShape
    <3>3. ClientShape'
      BY <2>1, <2>2 DEF SessionInv, ClientShape
    <3>4. c2s[s] \in Packets
      BY <1>b, <2>2 DEF SessionFits, Turns
    <3>5. build_request(c2s[s]) \in Requests
      BY <3>4, BuildRequest
    <3>6. ThreadFits(t)
      BY <3>1, <3>5 DEF ThreadFits
    <3>7. Turns(db, t, client[s], NoRequest, s2c[s])
      BY <1>b, <2>2, <3>1 DEF SessionFits, Turns
    <3>8. SessionFits(db, t, client[s], NoRequest, s2c[s])
      BY <1>b, <3>6, <3>7 DEF SessionFits
    <3>9. SessionFits(db', thread'[s], client'[s], c2s'[s], s2c'[s])
      BY <2>1, <3>2, <3>8 DEF t
    <3> QED BY <1>a, <2>1, <3>1, <3>2, <3>3, <3>9, SessionStep
  <2>3. CASE /\ c2s[s] = NoRequest /\ client[s].at \in {"off", "aborted"}
             /\ Become(s, "off", NoRequest, NoReply) /\ UNCHANGED c2s
    <3> DEFINE t == thread'[s]
    <3>1. t.at = "off" /\ \A u \in Sessions : u # s => thread'[u] = thread[u]
      BY <1>a, <2>3, Becomes
    <3> HIDE DEF t
    <3>2. ClientShape'
      BY <2>1, <2>3 DEF SessionInv, ClientShape
    <3>3. SessionFits(db, t, client[s], c2s[s], s2c[s])
      BY <1>b, <2>3, <3>1 DEF SessionFits, Turns, ThreadFits, Busy
    <3>4. SessionFits(db', thread'[s], client'[s], c2s'[s], s2c'[s])
      BY <2>1, <2>3, <3>3 DEF t
    <3> QED BY <1>a, <2>1, <2>3, <3>1, <3>2, <3>4, SessionStep
  <2>4. CASE /\ UNCHANGED thread /\ c2s' = [c2s EXCEPT ![s] = NoRequest]
             /\ client[s].at \in {"off", "aborted"}
    <3>1. c2s'[s] = NoRequest /\ \A u \in Sessions : u # s => c2s'[u] = c2s[u]
      BY <2>4 DEF SessionInv, ClientShape
    <3>2. ClientShape'
      BY <2>1, <2>4 DEF SessionInv, ClientShape
    <3>3. SessionFits(db, thread[s], client[s], NoRequest, s2c[s])
      BY <1>b, <2>1, <2>4 DEF SessionFits, Turns
    <3>4. SessionFits(db', thread'[s], client'[s], c2s'[s], s2c'[s])
      BY <2>1, <2>4, <3>1, <3>3
    <3> QED BY <1>a, <2>1, <2>4, <3>1, <3>2, <3>4, SessionStep
  <2> QED BY <1>1, <2>2, <2>3, <2>4 DEF wait_request
<1>2. CASE enter_critical(s)
  <2>1. /\ Become(s, FirstStep(q.type), q, thread[s].out) /\ thread[s].at = "enter"
        /\ UNCHANGED <<db, faults, up, client, c2s, s2c, ops>>
    BY <1>2 DEF enter_critical, At, ClientSide
  <2>2. FirstStep(q.type) \in {"exists", "exec", "query"}
    BY DEF FirstStep
  <2>3. Busy(thread[s])
    BY <2>1 DEF Busy
  <2> QED BY <1>a, <2>1, <2>2, <2>3, ThreadStep
<1>3. CASE assert_existence(s)
  <2>1. /\ thread[s].at = "exists" /\ UNCHANGED <<db, faults, up, client, c2s, s2c, ops>>
        /\ \/ Become(s, "exec", q, thread[s].out)
           \/ Become(s, "reply", q, Reply("ERR_NO_SUCH_DATA"))
    BY <1>3 DEF assert_existence, At, Conclude, ClientSide
  <2>2. Busy(thread[s])
    BY <2>1 DEF Busy
  <2>3. Reply("ERR_NO_SUCH_DATA").code \in Codes /\ Reply("ERR_NO_SUCH_DATA").items = {}
    BY DEF Reply, Codes
  <2> QED BY <1>a, <2>1, <2>2, <2>3, ThreadStep
<1>4. CASE execute_statements(s)
  <2> DEFINE e == Statement(db, q).db
             rc == Statement(db, q).rc
  <2>1. /\ thread[s].at = "exec" /\ db' = e /\ UNCHANGED <<faults, up, client, c2s, s2c, ops>>
        /\ Become(s, "delete", q, thread[s].out) \/ Become(s, "reply", q, Ack(rc))
    BY <1>4 DEF execute_statements, At, Conclude, ClientSide
  <2>2. Busy(thread[s])
    BY <2>1 DEF Busy
  <2>3. q.type \in Statements
    BY <1>a, <2>1 DEF IsolationInv, SoundInv, StepFits
  <2>4. e \in Databases /\ Later(db, e)
    BY <1>a, <1>c, <2>2, <2>3, StatementLater
  <2> HIDE DEF e, rc
  <2> QED BY <1>a, <2>1, <2>2, <2>4, AckCode, ThreadStep
<1>5. CASE cancel_delete(s)
  <2> DEFINE e == CANCEL_DELETE(db, q.res).db
             rc == CANCEL_DELETE(db, q.res).rc
  <2>1. /\ thread[s].at = "delete" /\ db' = e /\ UNCHANGED <<faults, up, client, c2s, s2c, ops>>
        /\ Become(s, "reply", q, Ack(rc))
    BY <1>5 DEF cancel_delete, Conclude, ClientSide
  <2>2. Busy(thread[s])
    BY <2>1 DEF Busy
  <2>3. e \in Databases /\ Later(db, e)
    BY <1>a, CancelDeleteLater
  <2> HIDE DEF e, rc
  <2> QED BY <1>a, <2>1, <2>2, <2>3, AckCode, ThreadStep
<1>6. CASE do_query(s)
  <2>1. /\ thread[s].at = "query" /\ UNCHANGED <<db, up, client, c2s, s2c, ops>>
        /\ faults' = faults \/ (faults < MaxFaults /\ faults' = faults + 1)
        /\ \E rows : Become(s, "reply", q, List(rows))
    BY <1>6 DEF do_query, Conclude, ClientSide
  <2>2. Busy(thread[s])
    BY <2>1 DEF Busy
  <2>3. \A rows : List(rows).code = "LIST" /\ "LIST" \in Codes
    BY DEF List, Codes
  <2>4. faults' \in 0..MaxFaults
    BY <1>a, <2>1, ServerBounds
  <2> QED BY <1>a, <2>1, <2>2, <2>3, <2>4, ThreadStep
<1>7. CASE statement_fails(s)
  <2>1. /\ thread[s].at \in {"exec", "delete"} /\ UNCHANGED <<db, up, client, c2s, s2c, ops>>
        /\ faults < MaxFaults /\ faults' = faults + 1
        /\ Become(s, "reply", q, Ack("SQLITE_ERROR"))
    BY <1>7 DEF statement_fails, Conclude, ClientSide
  <2>2. Busy(thread[s])
    BY <2>1 DEF Busy
  <2>3. faults' \in 0..MaxFaults
    BY <1>a, <2>1, ServerBounds
  <2> QED BY <1>a, <2>1, <2>2, <2>3, AckCode, ThreadStep
<1>8. CASE reply(s)
  <2> DEFINE t == thread'[s]
             out == thread[s].out
             answer == IF client[s].at = "wait" THEN out ELSE s2c[s]
  <2>1. /\ thread[s].at = "reply" /\ Become(s, "leave", q, out)
        /\ UNCHANGED <<db, faults, up, client, c2s, ops>>
        /\ s2c' = IF client[s].at = "wait" THEN [s2c EXCEPT ![s] = out] ELSE s2c
    BY <1>8 DEF reply, At, ClientSide
  <2>2. t.at = "leave" /\ \A u \in Sessions : u # s => thread'[u] = thread[u]
    BY <1>a, <2>1, Becomes
  <2>3. s2c'[s] = answer /\ \A u \in Sessions : u # s => s2c'[u] = s2c[u]
    BY <2>1 DEF SessionInv, ClientShape
  <2>4. ClientShape'
    BY <2>1 DEF SessionInv, ClientShape
  <2>5. Busy(thread[s]) /\ out.code \in Codes /\ (out.code # "LIST" => out.items = {})
    BY <1>b, <2>1 DEF Busy, SessionFits, ThreadFits
  <2>6. ASSUME client[s].at = "wait"
        PROVE  ItemsFit(db, client[s].asked, out.items) /\ c2s[s] = NoRequest
    <3>1. client[s].asked \in Packets /\ q = build_request(client[s].asked) /\ c2s[s] = NoRequest
      BY <1>b, <2>5, <2>6 DEF SessionFits, ClientFits, Turns
    <3>2. out.code = "LIST" => out.items \subseteq Rows(db, q)
      BY <1>a, <2>1 DEF IsolationInv, ThreadKnows, Knows, AnswerHolds
    <3>3. CASE out.code = "LIST"
      BY <1>a, <3>1, <3>2, <3>3, RowsFit
    <3>4. CASE out.code # "LIST"
      BY <2>5, <3>1, <3>4 DEF ItemsFit
    <3> QED BY <3>1, <3>3, <3>4
  <2> HIDE DEF t, out
  <2>7. Turns(db, t, client[s], c2s[s], answer)
    <3>1. ~Busy(t)
      BY <2>2 DEF Busy
    <3>2. CASE client[s].at = "wait"
      <4>1. answer = out
        BY <3>2
      <4> HIDE DEF answer
      <4> QED BY <1>b, <2>5, <2>6, <3>1, <3>2, <4>1 DEF SessionFits, Turns
    <3>3. CASE client[s].at # "wait"
      <4>1. answer = s2c[s]
        BY <3>3
      <4> HIDE DEF answer
      <4> QED BY <1>b, <3>1, <3>3, <4>1 DEF SessionFits, Turns
    <3> QED BY <3>2, <3>3
  <2>8. ThreadFits(t)
    BY <2>2 DEF ThreadFits, Busy
  <2>9. SessionFits(db, t, client[s], c2s[s], answer)
    BY <1>b, <2>7, <2>8 DEF SessionFits
  <2> HIDE DEF answer
  <2>10. SessionFits(db', thread'[s], client'[s], c2s'[s], s2c'[s])
    BY <2>1, <2>3, <2>9 DEF t
  <2> QED BY <1>a, <2>1, <2>2, <2>3, <2>4, <2>10, SessionStep
<1>9. CASE leave_critical(s)
  <2> DEFINE t == thread'[s]
  <2>1. /\ thread[s].at = "leave" /\ Become(s, "read", NoRequest, NoReply)
        /\ UNCHANGED <<db, faults, up, client, c2s, s2c, ops>>
    BY <1>9 DEF leave_critical, ClientSide
  <2>2. t.at = "read" /\ \A u \in Sessions : u # s => thread'[u] = thread[u]
    BY <1>a, <2>1, Becomes
  <2> HIDE DEF t
  <2>3. ClientShape'
    BY <2>1 DEF SessionInv, ClientShape
  <2>4. SessionFits(db, t, client[s], c2s[s], s2c[s])
    BY <1>b, <2>2 DEF SessionFits, Turns, ThreadFits, Busy
  <2>5. SessionFits(db', thread'[s], client'[s], c2s'[s], s2c'[s])
    BY <2>1, <2>4 DEF t
  <2> QED BY <1>a, <2>1, <2>2, <2>3, <2>5, SessionStep
<1> QED BY <1>1, <1>2, <1>3, <1>4, <1>5, <1>6, <1>7, <1>8, <1>9 DEF Thread

-----------------------------------------------------------------------------
(* The whole system.                                                       *)

\* At the start there are no clients.
LEMMA InitSession == Init => SessionInv
<1> SUFFICES ASSUME Init PROVE SessionInv
  OBVIOUS
<1>1. IsolationInv /\ db \in Databases /\ up \in BOOLEAN
  BY InitIsolated, InitialDBsSound DEF Init
<1>2. ops \in 0..MaxOps /\ faults \in 0..MaxFaults
  BY ServerBounds DEF Init
<1>3. ClientShape
  BY DEF Init, ClientShape, Gone
<1>4. ASSUME NEW s \in Sessions PROVE Fits(s)
  <2>1. thread[s] = Off /\ client[s] = Gone /\ c2s[s] = NoRequest /\ s2c[s] = NoReply
    BY DEF Init
  <2>2. ThreadFits(Off)
    BY DEF ThreadFits, Off, Busy
  <2>3. ClientFits(db, Gone) /\ Turns(db, Off, Gone, NoRequest, NoReply)
    BY DEF ClientFits, Turns, Gone, ClientOptions, NoReply, Codes
  <2> QED BY <2>1, <2>2, <2>3 DEF Fits, SessionFits
<1> QED BY <1>1, <1>2, <1>3, <1>4 DEF SessionInv

\* A new connection starts with nothing on its way, also after one that was
\* left with a packet or an answer that nobody read.
LEMMA NewClientSession ==
  ASSUME SessionInv, IsolationInv', NEW s \in Sessions, new_client(s)
  PROVE  SessionInv'
<1> DEFINE t == thread'[s]
           c == [at |-> "menu", op |-> "NONE", name |-> "NONE", screening |-> NoScreening,
                 asked |-> NoRequest]
<1>1. [Gone EXCEPT !.at = "menu"] = c
  BY DEF Gone
<1>2. /\ client' = [client EXCEPT ![s] = c] /\ c2s' = [c2s EXCEPT ![s] = NoRequest]
      /\ s2c' = [s2c EXCEPT ![s] = NoReply] /\ UNCHANGED <<db, up, ops>>
      /\ faults' = faults \/ (faults < MaxFaults /\ faults' = faults + 1)
      /\ \E at \in {"read", "unserved"} : Become(s, at, NoRequest, NoReply)
  BY <1>1 DEF new_client
<1>3. /\ t.at \in {"read", "unserved"}
      /\ \A u \in Sessions : u # s => thread'[u] = thread[u]
  BY <1>2, Becomes DEF SessionInv, IsolationInv, SoundInv
<1>4. SessionFits(db, t, c, NoRequest, NoReply)
  BY <1>3 DEF SessionFits, ThreadFits, ClientFits, Turns, Busy, ClientOptions, NoReply, Codes
<1>5. c = [at |-> c.at, op |-> c.op, name |-> c.name, screening |-> c.screening,
           asked |-> c.asked]
  OBVIOUS
<1> HIDE DEF t, c
<1>6. /\ client'[s] = c /\ c2s'[s] = NoRequest /\ s2c'[s] = NoReply
      /\ \A u \in Sessions : u # s => /\ client'[u] = client[u] /\ c2s'[u] = c2s[u]
                                      /\ s2c'[u] = s2c[u]
  BY <1>2 DEF SessionInv, ClientShape
<1>7. ClientShape'
  <2>1. /\ client' = [u \in Sessions |-> client'[u]] /\ c2s' = [u \in Sessions |-> c2s'[u]]
        /\ s2c' = [u \in Sessions |-> s2c'[u]]
    BY <1>2 DEF SessionInv, ClientShape
  <2>2. \A u \in Sessions :
          client[u] = [at |-> client[u].at, op |-> client[u].op, name |-> client[u].name,
                       screening |-> client[u].screening, asked |-> client[u].asked]
    BY DEF SessionInv, ClientShape
  <2>3. \A u \in Sessions :
          client'[u] = [at |-> client'[u].at, op |-> client'[u].op, name |-> client'[u].name,
                        screening |-> client'[u].screening, asked |-> client'[u].asked]
    BY <1>5, <1>6, <2>2
  <2> QED BY <2>1, <2>3 DEF ClientShape
<1>8. SessionFits(db', thread'[s], client'[s], c2s'[s], s2c'[s])
  BY <1>2, <1>4, <1>6 DEF t
<1>9. /\ db' \in Databases /\ Later(db, db') /\ ops' \in 0..MaxOps /\ faults' \in 0..MaxFaults
  BY <1>2, SameIsLater, ServerBounds DEF SessionInv
<1> QED BY <1>2, <1>3, <1>6, <1>7, <1>8, <1>9, SessionStep

\* Every step keeps the conversations.
LEMMA NextSession == SessionInv /\ [Next]_vars => SessionInv'
<1> SUFFICES ASSUME SessionInv, [Next]_vars PROVE SessionInv'
  OBVIOUS
<1>a. IsolationInv' /\ db \in Databases /\ faults \in 0..MaxFaults
  BY NextIsolated DEF SessionInv
<1>b. ASSUME UNCHANGED <<db, thread, client, c2s, s2c, ops>>, up' \in BOOLEAN,
             faults' \in 0..MaxFaults
      PROVE  SessionInv'
  <2>1. \A s \in Sessions : SessionFits(db, thread[s], client[s], c2s[s], s2c[s])
    BY DEF SessionInv, Fits
  <2>2. \A s \in Sessions : Fits(s)'
    BY <1>b, <2>1, FitsPrime
  <2>3. ClientShape' /\ (db \in Databases)'
    BY <1>b DEF SessionInv, ClientShape, Databases, Pelicula, Proyeccion, Reserva, Canceladas
  <2> QED BY <1>a, <1>b, <2>2, <2>3 DEF SessionInv
<1>1. ASSUME NEW s \in Sessions, client_exit(s) PROVE SessionInv'
  <2>1. /\ client' = [client EXCEPT ![s] = Gone] /\ s2c' = [s2c EXCEPT ![s] = NoReply]
        /\ c2s' \in {c2s, [c2s EXCEPT ![s] = NoRequest]}
        /\ UNCHANGED <<db, thread, up, faults, ops>>
    BY <1>1 DEF client_exit, ServerSide
  <2> QED BY <1>a, <2>1, Ends
<1>2. CASE server_dies
  <2>1. /\ up' = FALSE /\ faults < MaxFaults /\ faults' = faults + 1
        /\ thread' = [s \in Sessions |-> Off] /\ c2s' = [s \in Sessions |-> NoRequest]
        /\ UNCHANGED <<db, client, s2c, ops>>
    BY <1>2 DEF server_dies
  <2>2. ASSUME NEW s \in Sessions PROVE Fits(s)'
    <3>1. SessionFits(db, thread[s], client[s], c2s[s], s2c[s])
      BY DEF SessionInv, Fits
    <3>2. Off.at = "off"
      BY DEF Off
    <3>3. ThreadFits(Off) /\ ~Busy(Off)
      BY <3>2 DEF ThreadFits, Busy
    <3>4. Turns(db, Off, client[s], NoRequest, s2c[s])
      BY <3>1, <3>3 DEF SessionFits, Turns
    <3>5. SessionFits(db, Off, client[s], NoRequest, s2c[s])
      BY <3>1, <3>3, <3>4 DEF SessionFits
    <3>6. thread'[s] = Off /\ c2s'[s] = NoRequest
      BY <2>1
    <3>7. SessionFits(db', thread'[s], client'[s], c2s'[s], s2c'[s])
      BY <2>1, <3>5, <3>6
    <3> QED BY <3>7, FitsPrime
  <2>3. ClientShape' /\ (db \in Databases)'
    BY <2>1 DEF SessionInv, ClientShape, Databases, Pelicula, Proyeccion, Reserva, Canceladas
  <2>4. faults' \in 0..MaxFaults
    BY <1>a, <2>1, ServerBounds
  <2>5. ops' \in 0..MaxOps /\ up' \in BOOLEAN
    BY <2>1 DEF SessionInv
  <2> QED BY <1>a, <2>2, <2>3, <2>4, <2>5 DEF SessionInv
<1>3. CASE server_starts \/ log_stalls \/ log_moves
  <2>1. up' \in BOOLEAN
    BY <1>3 DEF SessionInv, server_starts, log_stalls, log_moves
  <2>2. faults' \in 0..MaxFaults
    BY <1>a, <1>3, ServerBounds DEF server_starts, log_stalls, log_moves
  <2> QED BY <1>3, <1>b, <2>1, <2>2 DEF server_starts, log_stalls, log_moves
<1>4. CASE UNCHANGED vars
  BY <1>4, <1>b DEF vars, SessionInv
<1> QED BY <1>a, <1>1, <1>2, <1>3, <1>4, NewClientSession, ChooseOption, ClientSession,
           ThreadSession DEF Next

\* The screening a user has chosen is that screening or gone by the time the
\* server handles the request about it, whatever administrators delete and add
\* meanwhile: ids come from sqlite_sequence.
THEOREM ScreeningsKeepTheirIds == Spec => []HandlesNeverRebound
<1>1. SessionInv => HandlesNeverRebound
  BY DEF SessionInv, Fits, SessionFits, ClientFits, Known, HandlesNeverRebound
<1> QED BY <1>1, InitSession, NextSession, PTL DEF Spec

\* Nobody but the log and the death of the server change stuck.
LEMMA StuckMoves ==
  ASSUME [Next]_vars
  PROVE  stuck' \in {stuck, TRUE, FALSE}
<1> USE DEF ServerSide, ClientSide
<1>1. ASSUME NEW s \in Sessions,
             new_client(s) \/ choose_option(s) \/ client_exit(s) \/ Client(s)
      PROVE  stuck' = stuck
  BY <1>1 DEF new_client, choose_option, client_exit, Client, got_movies, got_screenings,
              got_hall, got_tickets, wait_ack, connection_closed, Answered
<1>2. ASSUME NEW s \in Sessions, Thread(s) \/ statement_fails(s)
      PROVE  stuck' = stuck
  BY <1>2 DEF Thread, wait_request, enter_critical, assert_existence, execute_statements,
              cancel_delete, do_query, reply, leave_critical, statement_fails
<1>3. ASSUME server_dies \/ server_starts \/ log_stalls \/ log_moves \/ UNCHANGED vars
      PROVE  stuck' \in {stuck, TRUE, FALSE}
  BY <1>3 DEF server_dies, server_starts, log_stalls, log_moves, vars
<1> QED BY <1>1, <1>2, <1>3 DEF Next

\* The log's queue is stuck or it is not: the part of the type that neither
\* SessionInv nor TicketInv carries.
StuckIsBoolean == stuck \in BOOLEAN

\* Every variable keeps its type: in particular whatever a handler writes into
\* cine.db is a row of its table, and no more failures or options happen than
\* the bounds allow.
THEOREM ServerTypes == Spec => []TypeOK
<1>1. SessionInv /\ TicketInv /\ StuckIsBoolean => TypeOK
  <2> SUFFICES ASSUME SessionInv, TicketInv, StuckIsBoolean PROVE TypeOK
    OBVIOUS
  <2>1. /\ readers \subseteq Sessions /\ writing \subseteq Sessions
        /\ IsABag(sold) /\ IsABag(torn)
    BY DEF TicketInv, IsolationInv, LockInv, Kept
  <2>2. \A s \in Sessions :
          /\ thread[s].at \in {"off", "unserved", "read", "enter", "exists", "exec", "delete",
                               "query", "reply", "leave"}
          /\ client[s].at \in {"off", "menu", "wait", "aborted"}
          /\ s2c[s].code \in Codes
    BY DEF SessionInv, Fits, SessionFits, ThreadFits, ClientFits, Turns
  <2> QED BY <2>1, <2>2 DEF TypeOK, SessionInv, Codes, StuckIsBoolean
<1>2. Init => StuckIsBoolean
  BY DEF Init, StuckIsBoolean
<1>3. StuckIsBoolean /\ [Next]_vars => StuckIsBoolean'
  BY StuckMoves DEF StuckIsBoolean
<1> QED BY <1>1, <1>2, <1>3, InitSession, NextSession, InitTickets, NextTickets, PTL DEF Spec
=============================================================================
