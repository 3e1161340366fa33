------------------------------ MODULE CinemaDB ------------------------------
(***************************************************************************)
(* cine.db: the four tables of TABLES_CREATE (database.c) and the SQL of   *)
(* queries.h, as operators on a database value.  SQLite itself is external *)
(* and is modelled by what the schema asks of it: primary keys, UNIQUE,    *)
(* foreign keys with ON DELETE CASCADE (db_init turns them on), and        *)
(* AUTOINCREMENT ids, which continue from sqlite_sequence and are never    *)
(* given out twice.  A turno stands for the four columns dia, mes, slot    *)
(* and sala; the user interface only produces values the CHECKs accept.    *)
(* A movie's description and the ORDER BY of the lists are only displayed  *)
(* and are left out.                                                       *)
(***************************************************************************)
EXTENDS Integers, FiniteSets

CONSTANTS Movies,   \* nombre
          Turnos,   \* <<dia, mes, slot, sala>>
          Clients,  \* cliente
          Seats     \* asiento

Pelicula == Movies
Proyeccion == [id : Nat, nombrePelicula : Movies, turno : Turnos]
Reserva == [cliente : Clients, proyeccionID : Nat, asiento : Seats]
Canceladas == [id : Nat, ticket : Reserva]

Databases == [pelicula : SUBSET Pelicula, proyeccion : SUBSET Proyeccion,
              reserva : SUBSET Reserva, canceladas : SUBSET Canceladas,
              seqProyeccion : Nat, seqCanceladas : Nat]

\* TABLES_CREATE on a file that does not exist yet.
EmptyDB == [pelicula |-> {}, proyeccion |-> {}, reserva |-> {}, canceladas |-> {},
            seqProyeccion |-> 0, seqCanceladas |-> 0]

Ids(d) == {p.id : p \in d.proyeccion}
SeatsTaken(d) == {<<r.proyeccionID, r.asiento>> : r \in d.reserva}

-----------------------------------------------------------------------------
(* Statements: the return code of sqlite3_exec and the database after it.  *)

Done(d) == [rc |-> "SQLITE_OK", db |-> d]
Refused(d) == [rc |-> "SQLITE_CONSTRAINT", db |-> d]

\* PRIMARY KEY(nombre)
STMNT_ADD_MOVIE(d, m) ==
  IF m \in d.pelicula THEN Refused(d)
  ELSE Done([d EXCEPT !.pelicula = @ \cup {m}])

\* Mutant: an id INTEGER PRIMARY KEY without AUTOINCREMENT.
STMNT_ADD_SCREENING_Reuse(d, m, turno) ==
  IF m \notin d.pelicula \/ \E p \in d.proyeccion : p.turno = turno THEN Refused(d)
  ELSE LET top == CHOOSE i \in Ids(d) \cup {0} : \A j \in Ids(d) : j <= i
       IN Done([d EXCEPT !.seqProyeccion = IF top + 1 > @ THEN top + 1 ELSE @,
                         !.proyeccion = @ \cup {[id |-> top + 1,
                                                 nombrePelicula |-> m, turno |-> turno]}])

\* UNIQUE(dia,mes,slot,sala), FOREIGN KEY(nombrePelicula)
STMNT_ADD_SCREENING(d, m, turno) ==
  IF m \notin d.pelicula \/ \E p \in d.proyeccion : p.turno = turno THEN Refused(d)
  ELSE Done([d EXCEPT !.seqProyeccion = @ + 1,
                      !.proyeccion = @ \cup {[id |-> d.seqProyeccion + 1,
                                              nombrePelicula |-> m, turno |-> turno]}])

\* Mutant: PRIMARY KEY(cliente, proyeccionID, asiento).
STMNT_MAKE_RESERVATION_ByClient(d, r) ==
  IF r.proyeccionID \notin Ids(d) \/ r \in d.reserva THEN Refused(d)
  ELSE Done([d EXCEPT !.reserva = @ \cup {r}])

\* PRIMARY KEY(proyeccionID, asiento), FOREIGN KEY(proyeccionID)
STMNT_MAKE_RESERVATION(d, r) ==
  IF r.proyeccionID \notin Ids(d) \/ <<r.proyeccionID, r.asiento>> \in SeatsTaken(d) THEN Refused(d)
  ELSE Done([d EXCEPT !.reserva = @ \cup {r}])

\* Mutant: the foreign keys of Reserva and Canceladas do not cascade.
Cascade_Shallow(d, gone) == [d EXCEPT !.proyeccion = {p \in @ : p.id \notin gone}]

\* ON DELETE CASCADE: the reservations and cancellations of a screening go with it.
Cascade(d, gone) ==
  [d EXCEPT !.proyeccion = {p \in @ : p.id \notin gone},
            !.reserva = {r \in @ : r.proyeccionID \notin gone},
            !.canceladas = {c \in @ : c.ticket.proyeccionID \notin gone}]

STMNT_DELETE_SCREENING(d, id) == Done(Cascade(d, {id}))

STMNT_DELETE_MOVIE(d, m) ==
  Done(Cascade([d EXCEPT !.pelicula = @ \ {m}],
               {p.id : p \in {q \in d.proyeccion : q.nombrePelicula = m}}))

\* STMNT_CANCEL_AND_DELETE is two statements and no transaction: sqlite3_exec
\* commits the INSERT before it starts the DELETE.
CANCEL_INSERT(d, r) ==
  IF r.proyeccionID \notin Ids(d) THEN Refused(d)
  ELSE Done([d EXCEPT !.seqCanceladas = @ + 1,
                      !.canceladas = @ \cup {[id |-> d.seqCanceladas + 1, ticket |-> r]}])

\* Mutant: the DELETE does not look at the seat.
CANCEL_DELETE_AnySeat(d, r) ==
  Done([d EXCEPT !.reserva = {x \in @ : x.cliente # r.cliente \/ x.proyeccionID # r.proyeccionID}])

CANCEL_DELETE(d, r) == Done([d EXCEPT !.reserva = @ \ {r}])

-----------------------------------------------------------------------------
(* Queries.                                                                *)

QUERY_MOVIE_EXISTS(d, m) == m \in d.pelicula
QUERY_SCREENING_EXISTS(d, id) == id \in Ids(d)
QUERY_RESERVATION_EXISTS(d, r) == r \in d.reserva

QUERY_GET_MOVIE_LIST(d) == d.pelicula
QUERY_GET_SCREENINGS(d, m) == {p \in d.proyeccion : p.nombrePelicula = m}
QUERY_OCCUPIED_SEATS(d, id) == {r.asiento : r \in {q \in d.reserva : q.proyeccionID = id}}

\* A ticket as listed: the seat and the screening row it joins with.
TicketsOf(d, rows) ==
  {[asiento |-> x[1].asiento, screening |-> x[2]] :
     x \in {y \in rows \X d.proyeccion : y[1].proyeccionID = y[2].id}}
QUERY_GET_RESERVED(d, c) == TicketsOf(d, {r \in d.reserva : r.cliente = c})
QUERY_GET_CANCELLED(d, c) ==
  TicketsOf(d, {r \in {x.ticket : x \in d.canceladas} : r.cliente = c})

-----------------------------------------------------------------------------
(* What the schema keeps true of the rows.                                 *)

ReferencesExist(d) == /\ \A p \in d.proyeccion : p.nombrePelicula \in d.pelicula
                      /\ \A r \in d.reserva : r.proyeccionID \in Ids(d)
                      /\ \A c \in d.canceladas : c.ticket.proyeccionID \in Ids(d)

KeysUnique(d) == /\ \A p, q \in d.proyeccion : p.id = q.id \/ p.turno = q.turno => p = q
                 /\ \A r, s \in d.reserva :
                       r.proyeccionID = s.proyeccionID /\ r.asiento = s.asiento => r = s
                 /\ \A c, e \in d.canceladas : c.id = e.id => c = e

SequencesAhead(d) == /\ \A p \in d.proyeccion : p.id <= d.seqProyeccion
                     /\ \A c \in d.canceladas : c.id <= d.seqCanceladas

Integrity(d) == ReferencesExist(d) /\ KeysUnique(d) /\ SequencesAhead(d)
=============================================================================
