------------------------ MODULE CinemaTicketsProofs ------------------------
(***************************************************************************)
(* The accounts of the ticket office, for any number of clients, movies,   *)
(* screenings and seats: no ticket that was sold is lost, and nothing is   *)
(* cancelled that was not sold.  Both follow from one account per ticket,  *)
(* in which a cancellation between its two statements counts once more.    *)
(***************************************************************************)
EXTENDS CinemaServerProofs, FiniteSetTheorems

\* How often r is in the bag; the rows of canceladas for r.
Count(bag, r) == IF r \in DOMAIN bag THEN bag[r] ELSE 0
Sale(bag, r) == bag (+) SetToBag({r})
CancelledRows(d, r) == {c \in d.canceladas : c.ticket = r}

\* The account of ticket r, with n cancellations of it between the INSERT and
\* the DELETE and f the bag of those that were broken off there: each leaves one
\* row more than was sold.
Owed(d, bag, n, f, r) ==
  LET rows == Cardinality(CancelledRows(d, r)) + (IF r \in d.reserva THEN 1 ELSE 0)
      due == Count(bag, r) + n + Count(f, r)
  IN rows <= due /\ (r.proyeccionID \in Ids(d) => rows = due)

\* Tickets are sold for screenings whose id has been given out.
SoldBefore(d, bag) == \A r \in DOMAIN bag : /\ r.proyeccionID \in Nat
                                            /\ r.proyeccionID <= d.seqProyeccion

Kept(d, bag) == Sound(d) /\ IsFiniteSet(d.canceladas) /\ IsABag(bag) /\ SoldBefore(d, bag)

-----------------------------------------------------------------------------
(* Counting.                                                               *)

\* A count is a number.
LEMMA CountNat ==
  ASSUME NEW bag, IsABag(bag), NEW r
  PROVE  Count(bag, r) \in Nat
BY DEF IsABag, Count

\* A sale adds one copy of its ticket to the bag.
LEMMA SaleCounted ==
  ASSUME NEW bag, IsABag(bag), NEW q
  PROVE  /\ IsABag(Sale(bag, q)) /\ DOMAIN Sale(bag, q) = DOMAIN bag \cup {q}
         /\ \A r : Count(Sale(bag, q), r) = Count(bag, r) + (IF r = q THEN 1 ELSE 0)
<1> DEFINE more == Sale(bag, q)
<1>1. more = [e \in DOMAIN bag \cup {q} |->
                (IF e \in DOMAIN bag THEN bag[e] ELSE 0) + (IF e = q THEN 1 ELSE 0)]
  BY DEF Sale, (+), SetToBag
<1> HIDE DEF more
<1>2. \A x \in DOMAIN bag : bag[x] \in Nat /\ bag[x] > 0
  BY DEF IsABag
<1>3. DOMAIN more = DOMAIN bag \cup {q}
  BY <1>1
<1>4. \A x \in DOMAIN bag \cup {q} :
        more[x] = (IF x \in DOMAIN bag THEN bag[x] ELSE 0) + (IF x = q THEN 1 ELSE 0)
  BY <1>1
<1>5. \A x \in DOMAIN more : more[x] \in {n \in Nat : n > 0}
  BY <1>2, <1>3, <1>4
<1>6. IsABag(more)
  BY <1>1, <1>5 DEF IsABag
<1>7. ASSUME NEW r PROVE Count(more, r) = Count(bag, r) + (IF r = q THEN 1 ELSE 0)
  BY <1>2, <1>3, <1>4 DEF Count
<1> QED BY <1>3, <1>6, <1>7 DEF more

\* The rows of canceladas for one ticket are finitely many.
LEMMA RowsFinite ==
  ASSUME NEW d, IsFiniteSet(d.canceladas), NEW r
  PROVE  IsFiniteSet(CancelledRows(d, r)) /\ Cardinality(CancelledRows(d, r)) \in Nat
<1>1. CancelledRows(d, r) \in SUBSET d.canceladas
  BY DEF CancelledRows
<1>2. IsFiniteSet(CancelledRows(d, r))
  BY <1>1, FS_Subset
<1> QED BY <1>2, FS_CardinalityType

-----------------------------------------------------------------------------
(* What each statement does to the accounts.                               *)

\* The statements that leave reservations and cancellations alone: a new id
\* names a screening for which nothing has been sold.
LEMMA OwedOfNewScreening ==
  ASSUME NEW d, NEW e, NEW bag, NEW f, NEW r, Kept(d, bag), Kept(d, f),
         e.reserva = d.reserva, e.canceladas = d.canceladas,
         Ids(e) \subseteq Ids(d) \cup {d.seqProyeccion + 1},
         Owed(d, bag, 0, f, r)
  PROVE  Owed(e, bag, 0, f, r)
<1>1. CancelledRows(e, r) = CancelledRows(d, r)
  BY DEF CancelledRows
<1>2. Cardinality(CancelledRows(d, r)) \in Nat
  BY RowsFinite DEF Kept
<1>3. r.proyeccionID = d.seqProyeccion + 1 => Count(bag, r) = 0 /\ Count(f, r) = 0
  BY DEF Kept, SoldBefore, Count, Sound, WellFormed
<1> QED BY <1>1, <1>2, <1>3 DEF Owed

\* The cascade of a deleted screening takes the tickets for it and no others.
LEMMA OwedAfterCascade ==
  ASSUME NEW d, NEW e, NEW bag, NEW f, Kept(d, f), NEW gone, NEW r, Kept(d, bag),
         e.reserva = {x \in d.reserva : x.proyeccionID \notin gone},
         e.canceladas = {x \in d.canceladas : x.ticket.proyeccionID \notin gone},
         Ids(e) = Ids(d) \ gone,
         Owed(d, bag, 0, f, r)
  PROVE  Owed(e, bag, 0, f, r)
<1>1. CASE r.proyeccionID \in gone
  <2>1. CancelledRows(e, r) = {} /\ r \notin e.reserva
    BY <1>1 DEF CancelledRows
  <2>2. Cardinality(CancelledRows(e, r)) = 0
    BY <2>1, FS_EmptySet
  <2>3. Count(bag, r) \in Nat /\ Count(f, r) \in Nat
    BY CountNat DEF Kept
  <2> QED BY <1>1, <2>1, <2>2, <2>3 DEF Owed
<1>2. CASE r.proyeccionID \notin gone
  <2>1. CancelledRows(e, r) = CancelledRows(d, r)
    BY <1>2 DEF CancelledRows
  <2>2. r \in e.reserva <=> r \in d.reserva
    BY <1>2
  <2> QED BY <1>2, <2>1, <2>2 DEF Owed
<1> QED BY <1>1, <1>2

\* A reservation that is accepted is a sale and an active ticket.
LEMMA OwedAfterSale ==
  ASSUME NEW d, NEW e, NEW bag, NEW f, Kept(d, f), NEW q, NEW r, Kept(d, bag),
         e.reserva = d.reserva \cup {q}, q \notin d.reserva, e.canceladas = d.canceladas,
         Ids(e) = Ids(d),
         Owed(d, bag, 0, f, r)
  PROVE  Owed(e, Sale(bag, q), 0, f, r)
<1>1. CancelledRows(e, r) = CancelledRows(d, r)
  BY DEF CancelledRows
<1>2. Cardinality(CancelledRows(d, r)) \in Nat
  BY RowsFinite DEF Kept
<1>3. Count(Sale(bag, q), r) = Count(bag, r) + (IF r = q THEN 1 ELSE 0)
  <2>1. IsABag(bag)
    BY DEF Kept
  <2>2. \A x : Count(Sale(bag, q), x) = Count(bag, x) + (IF x = q THEN 1 ELSE 0)
    BY <2>1, SaleCounted
  <2> QED BY <2>2
<1>4. Count(bag, r) \in Nat /\ Count(f, r) \in Nat
  BY CountNat DEF Kept
<1>5. CASE r = q
  <2>1. Count(Sale(bag, q), r) = Count(bag, r) + 1 /\ r \in e.reserva /\ r \notin d.reserva
    BY <1>3, <1>5
  <2> QED BY <1>1, <1>2, <1>4, <2>1 DEF Owed
<1>6. CASE r # q
  <2>1. Count(Sale(bag, q), r) = Count(bag, r) /\ (r \in e.reserva <=> r \in d.reserva)
    BY <1>3, <1>4, <1>6
  <2> QED BY <1>1, <2>1 DEF Owed
<1> QED BY <1>5, <1>6

\* The INSERT of a cancellation adds a row for its ticket.
LEMMA OwedAfterInsert ==
  ASSUME NEW d, NEW e, NEW bag, NEW f, Kept(d, f), NEW q, NEW new, NEW r, Kept(d, bag),
         e.canceladas = d.canceladas \cup {new}, new \notin d.canceladas, new.ticket = q,
         e.reserva = d.reserva, Ids(e) = Ids(d),
         Owed(d, bag, 0, f, r)
  PROVE  Owed(e, bag, IF r = q THEN 1 ELSE 0, f, r)
<1>1. IsFiniteSet(CancelledRows(d, r)) /\ Cardinality(CancelledRows(d, r)) \in Nat
  BY RowsFinite DEF Kept
<1>2. Count(bag, r) \in Nat /\ Count(f, r) \in Nat
  BY CountNat DEF Kept
<1>3. CASE r = q
  <2>1. /\ CancelledRows(e, r) = CancelledRows(d, r) \cup {new}
        /\ new \notin CancelledRows(d, r)
    BY <1>3 DEF CancelledRows
  <2>2. Cardinality(CancelledRows(e, r)) = Cardinality(CancelledRows(d, r)) + 1
    BY <1>1, <2>1, FS_AddElement
  <2> QED BY <1>1, <1>2, <1>3, <2>2 DEF Owed
<1>4. CASE r # q
  <2>1. CancelledRows(e, r) = CancelledRows(d, r)
    BY <1>4 DEF CancelledRows
  <2> QED BY <1>4, <2>1 DEF Owed
<1> QED BY <1>3, <1>4

\* The DELETE of a cancellation takes the reservation it is about.
LEMMA OwedAfterDelete ==
  ASSUME NEW d, NEW e, NEW bag, NEW f, Kept(d, f), NEW q, NEW r, Kept(d, bag),
         e.reserva = d.reserva \ {q}, q \in d.reserva, e.canceladas = d.canceladas,
         Ids(e) = Ids(d),
         Owed(d, bag, IF r = q THEN 1 ELSE 0, f, r)
  PROVE  Owed(e, bag, 0, f, r)
<1>1. CancelledRows(e, r) = CancelledRows(d, r)
  BY DEF CancelledRows
<1>2. Cardinality(CancelledRows(d, r)) \in Nat
  BY RowsFinite DEF Kept
<1>3. Count(bag, r) \in Nat /\ Count(f, r) \in Nat
  BY CountNat DEF Kept
<1> QED BY <1>1, <1>2, <1>3 DEF Owed

\* A failure that breaks off a cancellation between its two statements moves it
\* from the open ones to those broken off.
LEMMA OwedAfterFailure ==
  ASSUME NEW d, NEW bag, NEW f, NEW q, NEW r, Kept(d, bag), Kept(d, f),
         Owed(d, bag, IF r = q THEN 1 ELSE 0, f, r)
  PROVE  Owed(d, bag, 0, Sale(f, q), r)
<1>1. Cardinality(CancelledRows(d, r)) \in Nat
  BY RowsFinite DEF Kept
<1>2. Count(bag, r) \in Nat /\ Count(f, r) \in Nat
  BY CountNat DEF Kept
<1>3. Count(Sale(f, q), r) = Count(f, r) + (IF r = q THEN 1 ELSE 0)
  <2>1. IsABag(f)
    BY DEF Kept
  <2>2. \A x : Count(Sale(f, q), x) = Count(f, x) + (IF x = q THEN 1 ELSE 0)
    BY <2>1, SaleCounted
  <2> QED BY <2>2
<1> QED BY <1>1, <1>2, <1>3 DEF Owed

\* Deleting screenings, with or without their movie, keeps the accounts.
LEMMA CascadeKept ==
  ASSUME NEW d, NEW bag, Kept(d, bag), NEW f, Kept(d, f), NEW movies, NEW gone, NEW e,
         e = Cascade([d EXCEPT !.pelicula = movies], gone), Sound(e),
         \A r : Owed(d, bag, 0, f, r)
  PROVE  Kept(e, bag) /\ Kept(e, f) /\ \A r : Owed(e, bag, 0, f, r)
<1>1. /\ e.proyeccion = {p \in d.proyeccion : p.id \notin gone}
      /\ e.reserva = {x \in d.reserva : x.proyeccionID \notin gone}
      /\ e.canceladas = {x \in d.canceladas : x.ticket.proyeccionID \notin gone}
      /\ e.seqProyeccion = d.seqProyeccion
  <2> DEFINE p == {x \in d.proyeccion : x.id \notin gone}
             r == {x \in d.reserva : x.proyeccionID \notin gone}
             c == {x \in d.canceladas : x.ticket.proyeccionID \notin gone}
  <2>1. e = [pelicula |-> movies, proyeccion |-> p, reserva |-> r, canceladas |-> c,
             seqProyeccion |-> d.seqProyeccion, seqCanceladas |-> d.seqCanceladas]
    BY CascadeRows DEF Kept, Sound
  <2> HIDE DEF p, r, c
  <2>2. e.proyeccion = p /\ e.reserva = r /\ e.canceladas = c /\ e.seqProyeccion = d.seqProyeccion
    BY <2>1
  <2> QED BY <2>2 DEF p, r, c
<1>2. Ids(e) = Ids(d) \ gone
  BY <1>1 DEF Ids
<1>3. IsFiniteSet(e.canceladas)
  BY <1>1, FS_Subset DEF Kept
<1>4. Kept(e, bag) /\ Kept(e, f)
  BY <1>1, <1>3 DEF Kept, SoldBefore
<1> QED BY <1>1, <1>2, <1>4, OwedAfterCascade

\* The statement of a handler keeps the accounts: a reservation is counted as
\* sold when it is accepted, and a cancellation is open after its INSERT.
LEMMA StatementKept ==
  ASSUME NEW d, NEW bag, Kept(d, bag), NEW f, Kept(d, f), NEW req, req.type \in Statements,
         req.type \in Asserted => Exists(d, req),
         \A r : Owed(d, bag, 0, f, r), NEW res, res = Statement(d, req)
  PROVE  /\ Kept(res.db, f)
         /\ req.type \notin {"REQ_MAKE_RESERVATION", "REQ_CANCEL_RESERVATION"} =>
              Kept(res.db, bag) /\ \A r : Owed(res.db, bag, 0, f, r)
         /\ res.rc # "SQLITE_OK" => Kept(res.db, bag) /\ \A r : Owed(res.db, bag, 0, f, r)
         /\ req.type = "REQ_MAKE_RESERVATION" /\ res.rc = "SQLITE_OK" =>
              /\ Kept(res.db, Sale(bag, req.res))
              /\ \A r : Owed(res.db, Sale(bag, req.res), 0, f, r)
         /\ req.type = "REQ_CANCEL_RESERVATION" /\ res.rc = "SQLITE_OK" =>
              /\ Kept(res.db, bag)
              /\ \A r : Owed(res.db, bag, IF r = req.res THEN 1 ELSE 0, f, r)
<1> DEFINE e == res.db
<1>a. Sound(d) /\ WellFormed(d) /\ Sound(e)
  BY StatementSound DEF Kept, Sound
<1>b. CASE res.rc # "SQLITE_OK"
  <2>1. e = d
    BY <1>a, <1>b, RefusalReason
  <2> QED BY <1>b, <2>1, RefusalReason, <1>a DEF Taken
<1>1. CASE req.type = "REQ_MOVIE_ADD" /\ res.rc = "SQLITE_OK"
  <2>1. e = [d EXCEPT !.pelicula = d.pelicula \cup {req.movie}]
    BY <1>1 DEF Statement, STMNT_ADD_MOVIE, Done, Refused
  <2>2. /\ e.proyeccion = d.proyeccion /\ e.reserva = d.reserva
        /\ e.canceladas = d.canceladas /\ e.seqProyeccion = d.seqProyeccion
    BY <1>a, <2>1 DEF WellFormed
  <2>3. Kept(e, bag) /\ Kept(e, f)
    BY <1>a, <2>2 DEF Kept, SoldBefore
  <2>4. Ids(e) = Ids(d)
    BY <2>2 DEF Ids
  <2>5. \A r : Owed(e, bag, 0, f, r)
    BY <2>2, <2>4, OwedOfNewScreening
  <2> QED BY <1>1, <2>3, <2>5
<1>2. CASE req.type = "REQ_MOVIE_DELETE" /\ res.rc = "SQLITE_OK"
  <2>1. PICK gone : e = Cascade([d EXCEPT !.pelicula = d.pelicula \ {req.movie}], gone)
    BY <1>2 DEF Statement, STMNT_DELETE_MOVIE, Done
  <2>2. Kept(e, bag) /\ Kept(e, f) /\ \A r : Owed(e, bag, 0, f, r)
    BY <1>a, <2>1, CascadeKept
  <2> QED BY <1>2, <2>2
<1>3. CASE req.type = "REQ_SCREENING_ADD" /\ res.rc = "SQLITE_OK"
  <2> DEFINE new == [id |-> d.seqProyeccion + 1, nombrePelicula |-> req.movie,
                     turno |-> req.turno]
  <2>1. res = STMNT_ADD_SCREENING(d, req.movie, req.turno)
    BY <1>3 DEF Statement
  <2>2. ~(req.movie \notin d.pelicula \/ \E p \in d.proyeccion : p.turno = req.turno)
    BY <1>3, <2>1 DEF STMNT_ADD_SCREENING, Refused
  <2>3. /\ e.proyeccion = d.proyeccion \cup {new} /\ e.reserva = d.reserva
        /\ e.canceladas = d.canceladas /\ e.seqProyeccion = d.seqProyeccion + 1
    <3>1. e = [pelicula |-> d.pelicula, proyeccion |-> d.proyeccion \cup {new},
               reserva |-> d.reserva, canceladas |-> d.canceladas,
               seqProyeccion |-> d.seqProyeccion + 1, seqCanceladas |-> d.seqCanceladas]
      BY <1>a, <2>1, <2>2, AddScreeningRows
    <3> HIDE DEF new
    <3> QED BY <3>1
  <2>4. new.id = d.seqProyeccion + 1
    OBVIOUS
  <2> HIDE DEF new
  <2>5. Ids(e) = Ids(d) \cup {d.seqProyeccion + 1}
    BY <2>3, <2>4 DEF Ids
  <2>6. Kept(e, bag) /\ Kept(e, f)
    BY <1>a, <2>3 DEF Kept, SoldBefore, WellFormed
  <2>7. \A r : Owed(e, bag, 0, f, r)
    BY <2>3, <2>5, OwedOfNewScreening
  <2> QED BY <1>3, <2>6, <2>7
<1>4. CASE req.type = "REQ_SCREENING_DELETE" /\ res.rc = "SQLITE_OK"
  <2>1. e = Cascade(d, {req.id})
    BY <1>4 DEF Statement, STMNT_DELETE_SCREENING, Done
  <2>2. d = [d EXCEPT !.pelicula = d.pelicula]
    BY <1>a DEF WellFormed
  <2>3. Kept(e, bag) /\ Kept(e, f) /\ \A r : Owed(e, bag, 0, f, r)
    BY <1>a, <2>1, <2>2, CascadeKept
  <2> QED BY <1>4, <2>3
<1>5. CASE req.type = "REQ_MAKE_RESERVATION" /\ res.rc = "SQLITE_OK"
  <2> DEFINE q == req.res
  <2>1. res = STMNT_MAKE_RESERVATION(d, q)
    BY <1>5 DEF Statement
  <2>2. ~(q.proyeccionID \notin Ids(d) \/ <<q.proyeccionID, q.asiento>> \in SeatsTaken(d))
    BY <1>5, <2>1 DEF STMNT_MAKE_RESERVATION, Refused
  <2>3. /\ e.proyeccion = d.proyeccion /\ e.reserva = d.reserva \cup {q}
        /\ e.canceladas = d.canceladas /\ e.seqProyeccion = d.seqProyeccion
    <3>1. e = [pelicula |-> d.pelicula, proyeccion |-> d.proyeccion,
               reserva |-> d.reserva \cup {q}, canceladas |-> d.canceladas,
               seqProyeccion |-> d.seqProyeccion, seqCanceladas |-> d.seqCanceladas]
      BY <1>a, <2>1, <2>2, MakeReservationRows
    <3> QED BY <3>1
  <2>4. Ids(e) = Ids(d)
    BY <2>3 DEF Ids
  <2>5. q \notin d.reserva
    BY <2>2 DEF SeatsTaken
  <2>6. q.proyeccionID \in Nat /\ q.proyeccionID <= d.seqProyeccion
    BY <1>a, <2>2 DEF Ids, WellFormed, Sound, Integrity, SequencesAhead
  <2>7. IsABag(Sale(bag, q)) /\ DOMAIN Sale(bag, q) = DOMAIN bag \cup {q}
    BY SaleCounted DEF Kept
  <2>8. Kept(e, Sale(bag, q)) /\ Kept(e, f)
    BY <1>a, <2>3, <2>6, <2>7 DEF Kept, SoldBefore
  <2>9. \A r : Owed(e, Sale(bag, q), 0, f, r)
    BY <2>3, <2>4, <2>5, OwedAfterSale
  <2> QED BY <1>5, <2>8, <2>9
<1>6. CASE req.type = "REQ_CANCEL_RESERVATION" /\ res.rc = "SQLITE_OK"
  <2> DEFINE q == req.res
             new == [id |-> d.seqCanceladas + 1, ticket |-> q]
  <2>1. res = CANCEL_INSERT(d, q)
    BY <1>6 DEF Statement
  <2>2. q.proyeccionID \in Ids(d)
    BY <1>6, <2>1 DEF CANCEL_INSERT, Refused
  <2>3. /\ e.proyeccion = d.proyeccion /\ e.reserva = d.reserva
        /\ e.canceladas = d.canceladas \cup {new} /\ e.seqProyeccion = d.seqProyeccion
    <3>1. e = [pelicula |-> d.pelicula, proyeccion |-> d.proyeccion, reserva |-> d.reserva,
               canceladas |-> d.canceladas \cup {new}, seqProyeccion |-> d.seqProyeccion,
               seqCanceladas |-> d.seqCanceladas + 1]
      BY <1>a, <2>1, <2>2, CancelInsertRows
    <3> HIDE DEF new
    <3> QED BY <3>1
  <2>4. new.id = d.seqCanceladas + 1 /\ new.ticket = q
    OBVIOUS
  <2> HIDE DEF new
  <2>5. new \notin d.canceladas
    BY <1>a, <2>4 DEF Sound, WellFormed, Integrity, SequencesAhead
  <2>6. Ids(e) = Ids(d)
    BY <2>3 DEF Ids
  <2>7. IsFiniteSet(e.canceladas)
    BY <2>3, FS_AddElement DEF Kept
  <2>8. Kept(e, bag) /\ Kept(e, f)
    BY <1>a, <2>3, <2>7 DEF Kept, SoldBefore
  <2>9. \A r : Owed(e, bag, IF r = q THEN 1 ELSE 0, f, r)
    BY <2>3, <2>4, <2>5, <2>6, OwedAfterInsert
  <2> QED BY <1>6, <2>8, <2>9
<1> QED BY <1>b, <1>1, <1>2, <1>3, <1>4, <1>5, <1>6 DEF Statements

-----------------------------------------------------------------------------
(* The server.                                                             *)

\* A thread is between the two statements of a cancellation of r.
Deleting(r) == \E s \in Sessions : thread[s].at = "delete" /\ thread[s].req.res = r

\* The inductive invariant: every ticket's account, in every state.
TicketInv ==
  /\ IsolationInv
  /\ Kept(db, sold) /\ Kept(db, torn)
  /\ \A r : Owed(db, sold, IF Deleting(r) THEN 1 ELSE 0, torn, r)

\* TicketInv in the next state.
LEMMA TicketInvPrime ==
  ASSUME IsolationInv', Kept(db', sold'), Kept(db', torn'),
         \A r : Owed(db', sold', IF Deleting(r)' THEN 1 ELSE 0, torn', r)
  PROVE  TicketInv'
<1>1. Kept(db, sold)' /\ Kept(db, torn)'
  BY DEF Kept, Sound, WellFormed, Integrity, ReferencesExist, KeysUnique, SequencesAhead, Ids,
         SoldBefore
<1>2. (\A r : Owed(db, sold, IF Deleting(r) THEN 1 ELSE 0, torn, r))'
  BY DEF Owed, CancelledRows, Count, Ids
<1> QED BY <1>1, <1>2 DEF TicketInv

\* At most one thread is there.
LEMMA CancellingOnce ==
  ASSUME IsolationInv, NEW r
  PROVE  Cancelling(r) = IF Deleting(r) THEN 1 ELSE 0
<1> DEFINE X == {s \in Sessions : thread[s].at = "delete" /\ thread[s].req.res = r}
<1>1. CASE Deleting(r)
  <2>1. PICK s \in Sessions : thread[s].at = "delete" /\ thread[s].req.res = r
    BY <1>1 DEF Deleting
  <2>2. \A u \in Sessions : u # s => ~Inside(u)
    BY <2>1, WriterAlone
  <2>3. X = {s}
    BY <2>1, <2>2 DEF Inside
  <2> QED BY <1>1, <2>3, FS_Singleton DEF Cancelling
<1>2. CASE ~Deleting(r)
  <2>1. X = {}
    BY <1>2 DEF Deleting
  <2> QED BY <1>2, <2>1, FS_EmptySet DEF Cancelling
<1> QED BY <1>1, <1>2

\* A step that writes nothing, and opens and ends no cancellation, keeps the
\* accounts.
LEMMA QuietStep ==
  ASSUME TicketInv, IsolationInv', UNCHANGED <<db, sold, torn>>,
         \A r : Deleting(r)' <=> Deleting(r)
  PROVE  TicketInv'
<1>1. ASSUME NEW r PROVE Owed(db', sold', IF Deleting(r)' THEN 1 ELSE 0, torn', r)
  <2>1. (IF Deleting(r)' THEN 1 ELSE 0) = (IF Deleting(r) THEN 1 ELSE 0)
    OBVIOUS
  <2>2. Owed(db, sold, IF Deleting(r) THEN 1 ELSE 0, torn, r)
    BY DEF TicketInv
  <2> QED BY <2>1, <2>2
<1>2. Kept(db', sold') /\ Kept(db', torn')
  BY DEF TicketInv
<1> QED BY <1>1, <1>2, TicketInvPrime

\* A step that breaks off the open cancellation of q.
LEMMA TornStep ==
  ASSUME TicketInv, IsolationInv', UNCHANGED <<db, sold>>, NEW q, q.proyeccionID \in Ids(db),
         torn' = Sale(torn, q), \A r : (Deleting(r) <=> r = q) /\ ~Deleting(r)'
  PROVE  TicketInv'
<1>1. Kept(db, sold) /\ Kept(db, torn)
  BY DEF TicketInv
<1>2. ASSUME NEW r PROVE Owed(db', sold', IF Deleting(r)' THEN 1 ELSE 0, torn', r)
  <2>1. (IF Deleting(r)' THEN 1 ELSE 0) = 0
    OBVIOUS
  <2>2. (IF Deleting(r) THEN 1 ELSE 0) = (IF r = q THEN 1 ELSE 0)
    OBVIOUS
  <2>3. Owed(db, sold, IF Deleting(r) THEN 1 ELSE 0, torn, r)
    BY DEF TicketInv
  <2>4. Owed(db, sold, IF r = q THEN 1 ELSE 0, torn, r)
    BY <2>2, <2>3
  <2>5. Owed(db, sold, 0, Sale(torn, q), r)
    BY <1>1, <2>4, OwedAfterFailure
  <2> QED BY <2>1, <2>5
<1>3. q.proyeccionID \in Nat /\ q.proyeccionID <= db.seqProyeccion
  BY <1>1 DEF Kept, Ids, WellFormed, Sound, Integrity, SequencesAhead
<1>4. IsABag(Sale(torn, q)) /\ DOMAIN Sale(torn, q) = DOMAIN torn \cup {q}
  BY <1>1, SaleCounted DEF Kept
<1>5. Kept(db', sold') /\ Kept(db', torn')
  BY <1>1, <1>3, <1>4 DEF Kept, SoldBefore
<1> QED BY <1>2, <1>5, TicketInvPrime

\* Breaking off nothing.
LEMMA NothingTorn ==
  ASSUME NEW bag, IsABag(bag)
  PROVE  bag (+) SetToBag({}) = bag
<1>1. bag (+) SetToBag({}) = [e \in DOMAIN bag |-> bag[e] + 0]
  BY DEF (+), SetToBag
<1>2. \A e \in DOMAIN bag : bag[e] + 0 = bag[e]
  BY DEF IsABag
<1>3. bag = [e \in DOMAIN bag |-> bag[e]]
  BY DEF IsABag
<1> QED BY <1>1, <1>2, <1>3

\* A thread that moves, neither from the DELETE nor to it, leaves the open
\* cancellations as they are.
LEMMA DeletingKept ==
  ASSUME ThreadShape, NEW s \in Sessions, NEW at, NEW req, NEW out, Become(s, at, req, out),
         thread[s].at # "delete", at # "delete", NEW r
  PROVE  Deleting(r)' <=> Deleting(r)
<1>1. thread'[s].at = at /\ \A u \in Sessions : u # s => thread'[u] = thread[u]
  BY Becomes
<1> QED BY <1>1 DEF Deleting

\* Every step of a thread of the server keeps the accounts.
LEMMA ThreadTickets ==
  ASSUME TicketInv, NEW s \in Sessions, Thread(s) \/ statement_fails(s)
  PROVE  TicketInv'
<1> DEFINE q == thread[s].req
<1>a. IsolationInv /\ IsolationInv' /\ ThreadShape /\ Kept(db, sold) /\ Kept(db, torn)
  BY ThreadIsolated DEF TicketInv, IsolationInv, SoundInv
<1>1. CASE /\ UNCHANGED <<db, sold, torn>>
           /\ thread[s].at # "delete"
           /\ \E at, req, out : at # "delete" /\ Become(s, at, req, out)
  <2>1. \A r : Deleting(r)' <=> Deleting(r)
    BY <1>a, <1>1, DeletingKept
  <2> QED BY <1>a, <1>1, <2>1, QuietStep
<1>2. CASE execute_statements(s)
  <2> DEFINE res == Statement(db, q)
             out == Ack(res.rc)
  <2>1. /\ thread[s].at = "exec" /\ db' = res.db /\ UNCHANGED torn
        /\ sold' = IF q.type = "REQ_MAKE_RESERVATION" /\ res.rc = "SQLITE_OK"
                   THEN Sale(sold, q.res) ELSE sold
        /\ IF q.type = "REQ_CANCEL_RESERVATION" /\ res.rc = "SQLITE_OK"
           THEN Become(s, "delete", q, thread[s].out) ELSE Become(s, "reply", q, out)
    BY <1>2 DEF execute_statements, At, Conclude, Sale
  <2>2. q.type \in Statements /\ (q.type \in Asserted => Exists(db, q))
    BY <1>a, <2>1 DEF IsolationInv, SoundInv, StepFits, ThreadKnows, Knows
  <2>3. \A u \in Sessions : thread[u].at # "delete"
    BY <1>a, <2>1, WriterAlone DEF Inside
  <2>4. \A r : Owed(db, sold, 0, torn, r)
    BY <2>3 DEF TicketInv, Deleting
  <2>5. /\ Kept(res.db, torn)
        /\ q.type \notin {"REQ_MAKE_RESERVATION", "REQ_CANCEL_RESERVATION"} =>
             Kept(res.db, sold) /\ \A r : Owed(res.db, sold, 0, torn, r)
        /\ res.rc # "SQLITE_OK" =>
             Kept(res.db, sold) /\ \A r : Owed(res.db, sold, 0, torn, r)
        /\ q.type = "REQ_MAKE_RESERVATION" /\ res.rc = "SQLITE_OK" =>
             /\ Kept(res.db, Sale(sold, q.res))
             /\ \A r : Owed(res.db, Sale(sold, q.res), 0, torn, r)
        /\ q.type = "REQ_CANCEL_RESERVATION" /\ res.rc = "SQLITE_OK" =>
             /\ Kept(res.db, sold)
             /\ \A r : Owed(res.db, sold, IF r = q.res THEN 1 ELSE 0, torn, r)
    BY <1>a, <2>2, <2>4, StatementKept
  <2> HIDE DEF res, out
  <2>6. CASE q.type = "REQ_CANCEL_RESERVATION" /\ res.rc = "SQLITE_OK"
    <3>1. /\ thread'[s].at = "delete" /\ thread'[s].req = q
          /\ \A u \in Sessions : u # s => thread'[u] = thread[u]
      BY <1>a, <2>1, <2>6, Becomes
    <3>2. \A r : Deleting(r)' <=> r = q.res
      BY <2>3, <3>1 DEF Deleting
    <3>3. sold' = sold
      BY <2>1, <2>6
    <3>4. ASSUME NEW r PROVE Owed(db', sold', IF Deleting(r)' THEN 1 ELSE 0, torn', r)
      <4>1. (IF Deleting(r)' THEN 1 ELSE 0) = (IF r = q.res THEN 1 ELSE 0)
        BY <3>2
      <4>2. Owed(res.db, sold, IF r = q.res THEN 1 ELSE 0, torn, r)
        BY <2>5, <2>6
      <4> QED BY <2>1, <3>3, <4>1, <4>2
    <3>5. Kept(db', sold') /\ Kept(db', torn')
      BY <2>1, <2>5, <2>6, <3>3
    <3> QED BY <1>a, <3>4, <3>5, TicketInvPrime
  <2>7. CASE ~(q.type = "REQ_CANCEL_RESERVATION" /\ res.rc = "SQLITE_OK")
    <3>1. Become(s, "reply", q, out)
      BY <2>1, <2>7
    <3>2. \A r : ~Deleting(r)'
      <4>1. thread'[s].at = "reply" /\ \A u \in Sessions : u # s => thread'[u] = thread[u]
        BY <1>a, <3>1, Becomes
      <4> QED BY <2>3, <4>1 DEF Deleting
    <3>3. Kept(res.db, sold') /\ \A r : Owed(res.db, sold', 0, torn, r)
      <4>1. CASE q.type = "REQ_MAKE_RESERVATION" /\ res.rc = "SQLITE_OK"
        <5>1. sold' = Sale(sold, q.res)
          BY <2>1, <4>1
        <5> QED BY <2>5, <4>1, <5>1
      <4>2. CASE ~(q.type = "REQ_MAKE_RESERVATION" /\ res.rc = "SQLITE_OK")
        <5>1. sold' = sold
          BY <2>1, <4>2
        <5> QED BY <2>5, <2>7, <4>2, <5>1
      <4> QED BY <4>1, <4>2
    <3>4. ASSUME NEW r PROVE Owed(db', sold', IF Deleting(r)' THEN 1 ELSE 0, torn', r)
      <4>1. (IF Deleting(r)' THEN 1 ELSE 0) = 0
        BY <3>2
      <4>2. Owed(res.db, sold', 0, torn, r)
        BY <3>3
      <4> QED BY <2>1, <4>1, <4>2
    <3>5. Kept(db', sold') /\ Kept(db', torn')
      BY <2>1, <2>5, <3>3
    <3> QED BY <1>a, <3>4, <3>5, TicketInvPrime
  <2> QED BY <2>6, <2>7
<1>3. CASE cancel_delete(s)
  <2>1. /\ thread[s].at = "delete" /\ db' = CANCEL_DELETE(db, q.res).db
        /\ UNCHANGED <<torn, sold>>
        /\ \E out : Become(s, "reply", q, out)
    BY <1>3 DEF cancel_delete, Conclude
  <2>2. q.res \in db.reserva
    BY <1>a, <2>1 DEF IsolationInv, ThreadKnows, Knows, Exists, QUERY_RESERVATION_EXISTS
  <2>3. /\ db'.reserva = db.reserva \ {q.res} /\ db'.proyeccion = db.proyeccion
        /\ db'.canceladas = db.canceladas /\ db'.seqProyeccion = db.seqProyeccion
    <3>1. db' = [db EXCEPT !.reserva = db.reserva \ {q.res}]
      BY <2>1 DEF CANCEL_DELETE, Done
    <3> QED BY <1>a, <3>1 DEF Kept, Sound, WellFormed
  <2>4. Sound(db')
    BY <1>a, <2>1, CancelDeleteSound DEF Kept
  <2>5. Kept(db', sold') /\ Kept(db', torn')
    BY <1>a, <2>1, <2>3, <2>4 DEF Kept, SoldBefore
  <2>6. Ids(db') = Ids(db)
    BY <2>3 DEF Ids
  <2>7. /\ thread'[s].at = "reply" /\ \A u \in Sessions : u # s => thread'[u] = thread[u]
    BY <1>a, <2>1, Becomes
  <2>8. \A u \in Sessions : u # s => thread[u].at # "delete"
    BY <1>a, <2>1, WriterAlone DEF Inside
  <2>9. \A r : ~Deleting(r)' /\ (Deleting(r) <=> r = q.res)
    BY <2>1, <2>7, <2>8 DEF Deleting
  <2>10. ASSUME NEW r PROVE Owed(db', sold', IF Deleting(r)' THEN 1 ELSE 0, torn', r)
    <3>1. (IF Deleting(r)' THEN 1 ELSE 0) = 0
      BY <2>9
    <3>2. (IF Deleting(r) THEN 1 ELSE 0) = (IF r = q.res THEN 1 ELSE 0)
      BY <2>9
    <3>3. Owed(db, sold, IF Deleting(r) THEN 1 ELSE 0, torn, r)
      BY DEF TicketInv
    <3>4. Owed(db, sold, IF r = q.res THEN 1 ELSE 0, torn, r)
      BY <3>2, <3>3
    <3>5. Owed(db', sold, 0, torn, r)
      BY <1>a, <2>2, <2>3, <2>6, <3>4, OwedAfterDelete
    <3> QED BY <2>1, <3>1, <3>5
  <2> QED BY <1>a, <2>5, <2>10, TicketInvPrime
<1>4. CASE statement_fails(s) /\ thread[s].at = "delete"
  <2>1. /\ UNCHANGED <<db, sold>> /\ torn' = Sale(torn, q.res)
        /\ \E out : Become(s, "reply", q, out)
    BY <1>4 DEF statement_fails, Conclude, Sale
  <2>2. q.res \in db.reserva
    BY <1>a, <1>4 DEF IsolationInv, ThreadKnows, Knows, Exists, QUERY_RESERVATION_EXISTS
  <2>3. q.res.proyeccionID \in Ids(db)
    BY <1>a, <2>2 DEF Kept, Sound, Integrity, ReferencesExist
  <2>4. thread'[s].at = "reply" /\ \A u \in Sessions : u # s => thread'[u] = thread[u]
    BY <1>a, <2>1, Becomes
  <2>5. \A u \in Sessions : u # s => thread[u].at # "delete"
    BY <1>a, <1>4, WriterAlone DEF Inside
  <2>6. \A r : (Deleting(r) <=> r = q.res) /\ ~Deleting(r)'
    BY <1>4, <2>4, <2>5 DEF Deleting
  <2> QED BY <1>a, <2>1, <2>3, <2>6, TornStep
<1>5. CASE wait_request(s)
  <2>1. \/ \E at \in {"enter", "off"} : \E req, out : Become(s, at, req, out)
        \/ UNCHANGED thread
    BY <1>5 DEF wait_request
  <2>2. CASE UNCHANGED thread
    <3>1. \A r : Deleting(r)' <=> Deleting(r)
      BY <2>2 DEF Deleting
    <3>2. UNCHANGED <<db, sold, torn>>
      BY <1>5 DEF wait_request
    <3> QED BY <1>a, <3>1, <3>2, QuietStep
  <2> QED BY <1>1, <1>5, <2>1, <2>2 DEF wait_request
<1>6. CASE enter_critical(s)
  <2>1. FirstStep(q.type) # "delete"
    BY DEF FirstStep
  <2> QED BY <1>1, <1>6, <2>1 DEF enter_critical, At
<1>7. CASE assert_existence(s)
  BY <1>1, <1>7 DEF assert_existence, At, Conclude
<1>8. CASE do_query(s)
  BY <1>1, <1>8 DEF do_query, Conclude
<1>9. CASE reply(s)
  BY <1>1, <1>9 DEF reply, At
<1>10. CASE leave_critical(s)
  BY <1>1, <1>10 DEF leave_critical
<1>11. CASE statement_fails(s) /\ thread[s].at # "delete"
  BY <1>1, <1>11 DEF statement_fails, Conclude
<1> QED BY <1>2, <1>3, <1>4, <1>5, <1>6, <1>7, <1>8, <1>9, <1>10, <1>11 DEF Thread

\* When the server first starts, every reservation of cine.db counts as sold.
LEMMA InitTickets == Init => TicketInv
<1> SUFFICES ASSUME Init PROVE TicketInv
  OBVIOUS
<1>1. IsolationInv /\ Sound(db)
  BY InitIsolated DEF IsolationInv, SoundInv
<1>2. db.canceladas = {} /\ torn = EmptyBag /\ sold = SetToBag(db.reserva)
  BY InitialDBsSound DEF Init
<1>3. DOMAIN sold = db.reserva /\ \A r \in db.reserva : sold[r] = 1
  BY <1>2 DEF SetToBag
<1>4. IsABag(sold) /\ IsABag(torn) /\ DOMAIN torn = {}
  BY <1>2 DEF SetToBag, IsABag, EmptyBag
<1>5. SoldBefore(db, sold)
  BY <1>1, <1>3 DEF SoldBefore, Sound, WellFormed, Integrity, ReferencesExist,
                    SequencesAhead, Ids
<1>6. Kept(db, sold) /\ Kept(db, torn)
  BY <1>1, <1>2, <1>4, <1>5, FS_EmptySet DEF Kept, SoldBefore
<1>7. ASSUME NEW r PROVE Owed(db, sold, IF Deleting(r) THEN 1 ELSE 0, torn, r)
  <2>1. ~Deleting(r)
    BY DEF Init, Off, Deleting
  <2>2. CancelledRows(db, r) = {}
    BY <1>2 DEF CancelledRows
  <2>3. Cardinality(CancelledRows(db, r)) = 0
    BY <2>2, FS_EmptySet
  <2>4. Count(sold, r) = IF r \in db.reserva THEN 1 ELSE 0
    BY <1>3 DEF Count
  <2>5. Count(torn, r) = 0
    BY <1>4 DEF Count
  <2> QED BY <2>1, <2>3, <2>4, <2>5 DEF Owed
<1> QED BY <1>1, <1>6, <1>7 DEF TicketInv

\* Clients sell and cancel nothing themselves; a server that dies breaks off the
\* open cancellation, if there is one.
LEMMA NextTickets == TicketInv /\ [Next]_vars => TicketInv'
<1> SUFFICES ASSUME TicketInv, [Next]_vars PROVE TicketInv'
  OBVIOUS
<1>a. IsolationInv /\ IsolationInv' /\ ThreadShape /\ Kept(db, torn)
  BY NextIsolated DEF TicketInv, IsolationInv, SoundInv
<1>b. ASSUME UNCHANGED <<db, sold, torn, thread>> PROVE TicketInv'
  <2>1. \A r : Deleting(r)' <=> Deleting(r)
    BY <1>b DEF Deleting
  <2> QED BY <1>a, <1>b, <2>1, QuietStep
<1>1. ASSUME NEW s \in Sessions, new_client(s) PROVE TicketInv'
  <2>1. /\ UNCHANGED <<db, sold, torn>> /\ thread[s].at = "off"
        /\ \E at \in {"read", "unserved"} : Become(s, at, NoRequest, NoReply)
    BY <1>1 DEF new_client
  <2>2. \A r : Deleting(r)' <=> Deleting(r)
    BY <1>a, <2>1, DeletingKept
  <2> QED BY <1>a, <2>1, <2>2, QuietStep
<1>2. ASSUME NEW s \in Sessions, choose_option(s) \/ client_exit(s) \/ Client(s)
      PROVE  TicketInv'
  <2>1. UNCHANGED <<db, sold, torn, thread>>
    BY <1>2 DEF choose_option, client_exit, Client, got_movies, got_screenings, got_hall,
                got_tickets, wait_ack, connection_closed, Answered, ServerSide
  <2> QED BY <1>b, <2>1
<1>3. CASE server_dies
  <2>1. /\ UNCHANGED <<db, sold>> /\ torn' = torn (+) SetToBag(Unfinished)
        /\ \A s \in Sessions : thread'[s].at = "off"
    BY <1>3 DEF server_dies, Off
  <2>2. \A r : ~Deleting(r)'
    BY <2>1 DEF Deleting
  <2>3. CASE \E s \in Sessions : thread[s].at = "delete"
    <3>1. PICK s \in Sessions : thread[s].at = "delete"
      BY <2>3
    <3> DEFINE q == thread[s].req.res
    <3>2. \A u \in Sessions : u # s => thread[u].at # "delete"
      BY <1>a, <3>1, WriterAlone DEF Inside
    <3>3. Unfinished = {q} /\ \A r : Deleting(r) <=> r = q
      BY <3>1, <3>2 DEF Unfinished, Deleting
    <3>4. q \in db.reserva
      BY <1>a, <3>1 DEF IsolationInv, ThreadKnows, Knows, Exists, QUERY_RESERVATION_EXISTS
    <3>5. q.proyeccionID \in Ids(db)
      BY <1>a, <3>4 DEF Kept, Sound, Integrity, ReferencesExist
    <3> HIDE DEF q
    <3>6. torn' = Sale(torn, q)
      BY <2>1, <3>3 DEF Sale
    <3> QED BY <1>a, <2>1, <2>2, <3>3, <3>5, <3>6, TornStep
  <2>4. CASE \A s \in Sessions : thread[s].at # "delete"
    <3>1. Unfinished = {} /\ \A r : ~Deleting(r)
      BY <2>4 DEF Unfinished, Deleting
    <3>2. torn' = torn
      BY <1>a, <2>1, <3>1, NothingTorn DEF Kept
    <3> QED BY <1>a, <2>1, <2>2, <3>1, <3>2, QuietStep
  <2> QED BY <2>3, <2>4
<1>4. CASE server_starts \/ log_stalls \/ log_moves
  BY <1>4, <1>b DEF server_starts, log_stalls, log_moves
<1>5. CASE UNCHANGED vars
  BY <1>5, <1>b DEF vars
<1> QED BY <1>1, <1>2, <1>3, <1>4, <1>5, ThreadTickets DEF Next

\* The account of a ticket in the terms of CinemaServer.
LEMMA Accounts ==
  ASSUME TicketInv, NEW r
  PROVE  /\ Sales(r) \in Nat /\ Cancellations(r) \in Nat /\ Active(r) \in {0, 1}
         /\ Cancelling(r) \in {0, 1} /\ Torn(r) \in Nat
         /\ Cancellations(r) + Active(r) <= Sales(r) + Cancelling(r) + Torn(r)
         /\ r.proyeccionID \in Ids(db) =>
              Cancellations(r) + Active(r) = Sales(r) + Cancelling(r) + Torn(r)
<1>1. Sales(r) = Count(sold, r) /\ Torn(r) = Count(torn, r)
  BY DEF Sales, Torn, Count, BagIn, BagToSet
<1>2. Cancellations(r) = Cardinality(CancelledRows(db, r))
  BY DEF Cancellations, CancelledRows
<1>3. Active(r) = IF r \in db.reserva THEN 1 ELSE 0
  BY DEF Active
<1>4. Cancelling(r) = IF Deleting(r) THEN 1 ELSE 0
  BY CancellingOnce DEF TicketInv
<1>5. Owed(db, sold, Cancelling(r), torn, r)
  <2>1. Owed(db, sold, IF Deleting(r) THEN 1 ELSE 0, torn, r)
    BY DEF TicketInv
  <2> QED BY <1>4, <2>1
<1>6. Count(sold, r) \in Nat /\ Count(torn, r) \in Nat /\ Cardinality(CancelledRows(db, r)) \in Nat
  BY CountNat, RowsFinite DEF TicketInv, Kept
<1>7. Cancelling(r) \in {0, 1}
  BY <1>4
<1> QED BY <1>1, <1>2, <1>3, <1>5, <1>6, <1>7 DEF Owed

\* Every ticket that was sold for a screening that still exists is an active
\* reservation or a row of canceladas, wherever the server dies or a statement
\* of cancel_reservation fails.
THEOREM TicketsAreNotLost == Spec => []NoTicketLost
<1>1. TicketInv => NoTicketLost
  <2> SUFFICES ASSUME TicketInv, NEW r \in BagToSet(sold), r.proyeccionID \in Ids(db)
               PROVE  Sales(r) <= Cancellations(r) + Active(r)
    BY DEF NoTicketLost
  <2> QED BY Accounts
<1> QED BY <1>1, InitTickets, NextTickets, PTL DEF Spec

\* However many clients cancel a ticket at once and whatever fails, each sale
\* leaves one active or one cancelled ticket, but for one more per cancellation
\* of that very ticket that was broken off between its INSERT and its DELETE.
THEOREM TicketsAreNotInvented == Spec => []NoPhantomTicket
<1>1. TicketInv => NoPhantomTicket
  BY Accounts DEF NoPhantomTicket
<1> QED BY <1>1, InitTickets, NextTickets, PTL DEF Spec

\* The books balance: of a screening that exists, each ticket's active and
\* cancelled rows are exactly its sales, its cancellation that is between its
\* two statements and those that were broken off there.
BooksBalance ==
  \A r \in BagToSet(sold) \cup db.reserva :
     r.proyeccionID \in Ids(db) =>
       Cancellations(r) + Active(r) = Sales(r) + Cancelling(r) + Torn(r)

\* The books balance in every state, whatever failed before it (make_reservation,
\* cancel_reservation).
THEOREM TicketsBalance == Spec => []BooksBalance
<1>1. TicketInv => BooksBalance
  <2> SUFFICES ASSUME TicketInv, NEW r, r.proyeccionID \in Ids(db)
               PROVE  Cancellations(r) + Active(r) = Sales(r) + Cancelling(r) + Torn(r)
    BY DEF BooksBalance
  <2> QED BY Accounts
<1> QED BY <1>1, InitTickets, NextTickets, PTL DEF Spec
=============================================================================
