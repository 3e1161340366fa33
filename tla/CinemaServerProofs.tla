------------------------- MODULE CinemaServerProofs -------------------------
(***************************************************************************)
(* The database stays sound in every behaviour of CinemaServer, for any    *)
(* number of clients, movies, screenings and seats: first what each        *)
(* statement of queries.h does to a sound database, then that no thread    *)
(* changes it in another way.  The second half is isolation: what a        *)
(* handler has read under the lock is still true when it answers.          *)
(***************************************************************************)
EXTENDS CinemaServer, TLAPS

\* A value with the tables and counters of TABLES_CREATE.
WellFormed(d) ==
  /\ d = [pelicula |-> d.pelicula, proyeccion |-> d.proyeccion, reserva |-> d.reserva,
          canceladas |-> d.canceladas, seqProyeccion |-> d.seqProyeccion,
          seqCanceladas |-> d.seqCanceladas]
  /\ d.seqProyeccion \in Nat /\ d.seqCanceladas \in Nat
  /\ \A p \in d.proyeccion : p.id \in Nat
  /\ \A c \in d.canceladas : c.id \in Nat

Sound(d) == WellFormed(d) /\ Integrity(d)

-----------------------------------------------------------------------------
(* The statements.                                                         *)

\* STMNT_ADD_MOVIE keeps a database sound.
LEMMA AddMovieSound ==
  ASSUME NEW d, NEW m, Sound(d)
  PROVE  Sound(STMNT_ADD_MOVIE(d, m).db)
BY DEF Sound, WellFormed, Integrity, ReferencesExist, KeysUnique, SequencesAhead, Ids,
       STMNT_ADD_MOVIE, Done, Refused

\* The rows after an accepted STMNT_ADD_SCREENING.
LEMMA AddScreeningRows ==
  ASSUME NEW d, NEW m, NEW turno, WellFormed(d),
         ~(m \notin d.pelicula \/ \E p \in d.proyeccion : p.turno = turno)
  PROVE  STMNT_ADD_SCREENING(d, m, turno).db =
           [pelicula |-> d.pelicula,
            proyeccion |-> d.proyeccion \cup {[id |-> d.seqProyeccion + 1,
                                               nombrePelicula |-> m, turno |-> turno]},
            reserva |-> d.reserva, canceladas |-> d.canceladas,
            seqProyeccion |-> d.seqProyeccion + 1, seqCanceladas |-> d.seqCanceladas]
<1> DEFINE new == [id |-> d.seqProyeccion + 1, nombrePelicula |-> m, turno |-> turno]
           e == STMNT_ADD_SCREENING(d, m, turno).db
<1>1. e = [d EXCEPT !.seqProyeccion = d.seqProyeccion + 1,
                    !.proyeccion = d.proyeccion \cup {new}]
  BY DEF STMNT_ADD_SCREENING, Done
<1> HIDE DEF new, e
<1>2. e = [pelicula |-> d.pelicula, proyeccion |-> d.proyeccion \cup {new},
           reserva |-> d.reserva, canceladas |-> d.canceladas,
           seqProyeccion |-> d.seqProyeccion + 1, seqCanceladas |-> d.seqCanceladas]
  BY <1>1 DEF WellFormed
<1> QED BY <1>2 DEF new, e

\* STMNT_ADD_SCREENING keeps a database sound: the new id is ahead of all.
LEMMA AddScreeningSound ==
  ASSUME NEW d, NEW m, NEW turno, Sound(d)
  PROVE  Sound(STMNT_ADD_SCREENING(d, m, turno).db)
<1>1. CASE m \notin d.pelicula \/ \E p \in d.proyeccion : p.turno = turno
  BY <1>1 DEF STMNT_ADD_SCREENING, Refused
<1>2. CASE ~(m \notin d.pelicula \/ \E p \in d.proyeccion : p.turno = turno)
  <2> DEFINE new == [id |-> d.seqProyeccion + 1, nombrePelicula |-> m, turno |-> turno]
             e == STMNT_ADD_SCREENING(d, m, turno).db
  <2>2. e = [pelicula |-> d.pelicula, proyeccion |-> d.proyeccion \cup {new},
             reserva |-> d.reserva, canceladas |-> d.canceladas,
             seqProyeccion |-> d.seqProyeccion + 1, seqCanceladas |-> d.seqCanceladas]
    BY <1>2, AddScreeningRows DEF Sound
  <2>3. /\ e.pelicula = d.pelicula /\ e.proyeccion = d.proyeccion \cup {new}
        /\ e.reserva = d.reserva /\ e.canceladas = d.canceladas
        /\ e.seqProyeccion = d.seqProyeccion + 1 /\ e.seqCanceladas = d.seqCanceladas
    <3> HIDE DEF new, e
    <3> QED BY <2>2
  <2>4. new.id = d.seqProyeccion + 1 /\ new.nombrePelicula = m /\ new.turno = turno
    OBVIOUS
  <2> HIDE DEF new, e
  <2>5. WellFormed(e)
    BY <2>2, <2>3, <2>4 DEF Sound, WellFormed
  <2>6. Ids(e) = Ids(d) \cup {new.id}
    BY <2>3 DEF Ids
  <2>7. ReferencesExist(e)
    BY <1>2, <2>3, <2>4, <2>6 DEF Sound, Integrity, ReferencesExist
  <2>8. \A p \in d.proyeccion : p.id # new.id /\ p.turno # new.turno
    BY <1>2, <2>4 DEF Sound, WellFormed, Integrity, SequencesAhead
  <2>9. KeysUnique(e)
    BY <2>3, <2>8 DEF Sound, Integrity, KeysUnique
  <2>10. SequencesAhead(e)
    BY <2>3, <2>4 DEF Sound, WellFormed, Integrity, SequencesAhead
  <2>11. Sound(e)
    BY <2>5, <2>7, <2>9, <2>10 DEF Sound, Integrity
  <2> QED BY <2>11 DEF e
<1> QED BY <1>1, <1>2

\* The rows after an accepted STMNT_MAKE_RESERVATION.
LEMMA MakeReservationRows ==
  ASSUME NEW d, NEW r, WellFormed(d),
         ~(r.proyeccionID \notin Ids(d) \/ <<r.proyeccionID, r.asiento>> \in SeatsTaken(d))
  PROVE  STMNT_MAKE_RESERVATION(d, r).db =
           [pelicula |-> d.pelicula, proyeccion |-> d.proyeccion,
            reserva |-> d.reserva \cup {r}, canceladas |-> d.canceladas,
            seqProyeccion |-> d.seqProyeccion, seqCanceladas |-> d.seqCanceladas]
<1>1. STMNT_MAKE_RESERVATION(d, r).db = [d EXCEPT !.reserva = d.reserva \cup {r}]
  BY DEF STMNT_MAKE_RESERVATION, Done
<1> QED BY <1>1 DEF WellFormed

\* STMNT_MAKE_RESERVATION keeps a database sound: the seat was free.
LEMMA MakeReservationSound ==
  ASSUME NEW d, NEW r, Sound(d)
  PROVE  Sound(STMNT_MAKE_RESERVATION(d, r).db)
<1>1. CASE r.proyeccionID \notin Ids(d) \/ <<r.proyeccionID, r.asiento>> \in SeatsTaken(d)
  BY <1>1 DEF STMNT_MAKE_RESERVATION, Refused
<1>2. CASE ~(r.proyeccionID \notin Ids(d) \/ <<r.proyeccionID, r.asiento>> \in SeatsTaken(d))
  <2> DEFINE e == STMNT_MAKE_RESERVATION(d, r).db
  <2>2. e = [pelicula |-> d.pelicula, proyeccion |-> d.proyeccion,
             reserva |-> d.reserva \cup {r}, canceladas |-> d.canceladas,
             seqProyeccion |-> d.seqProyeccion, seqCanceladas |-> d.seqCanceladas]
    BY <1>2, MakeReservationRows DEF Sound
  <2> HIDE DEF e
  <2>3. /\ e.pelicula = d.pelicula /\ e.proyeccion = d.proyeccion
        /\ e.reserva = d.reserva \cup {r} /\ e.canceladas = d.canceladas
        /\ e.seqProyeccion = d.seqProyeccion /\ e.seqCanceladas = d.seqCanceladas
    BY <2>2
  <2>4. WellFormed(e)
    BY <2>2, <2>3 DEF Sound, WellFormed
  <2>5. Ids(e) = Ids(d)
    BY <2>3 DEF Ids
  <2>6. ReferencesExist(e)
    BY <1>2, <2>3, <2>5 DEF Sound, Integrity, ReferencesExist
  <2>7. \A x \in d.reserva : ~(x.proyeccionID = r.proyeccionID /\ x.asiento = r.asiento)
    BY <1>2 DEF SeatsTaken
  <2>8. KeysUnique(e)
    BY <2>3, <2>7 DEF Sound, Integrity, KeysUnique
  <2>9. SequencesAhead(e)
    BY <2>3 DEF Sound, Integrity, SequencesAhead
  <2>10. Sound(e)
    BY <2>4, <2>6, <2>8, <2>9 DEF Sound, Integrity
  <2> QED BY <2>10 DEF e
<1> QED BY <1>1, <1>2

\* The rows after screenings, and perhaps a movie, have been deleted.
LEMMA CascadeRows ==
  ASSUME NEW d, WellFormed(d), NEW movies, NEW gone
  PROVE  Cascade([d EXCEPT !.pelicula = movies], gone) =
           [pelicula |-> movies, proyeccion |-> {p \in d.proyeccion : p.id \notin gone},
            reserva |-> {x \in d.reserva : x.proyeccionID \notin gone},
            canceladas |-> {x \in d.canceladas : x.ticket.proyeccionID \notin gone},
            seqProyeccion |-> d.seqProyeccion, seqCanceladas |-> d.seqCanceladas]
<1> DEFINE e == Cascade([d EXCEPT !.pelicula = movies], gone)
           q == {p \in d.proyeccion : p.id \notin gone}
           r == {x \in d.reserva : x.proyeccionID \notin gone}
           c == {x \in d.canceladas : x.ticket.proyeccionID \notin gone}
           f == [pelicula |-> movies, proyeccion |-> d.proyeccion, reserva |-> d.reserva,
                 canceladas |-> d.canceladas, seqProyeccion |-> d.seqProyeccion,
                 seqCanceladas |-> d.seqCanceladas]
<1>1. [d EXCEPT !.pelicula = movies] = f
  BY DEF WellFormed
<1>2. f.proyeccion = d.proyeccion /\ f.reserva = d.reserva /\ f.canceladas = d.canceladas
  OBVIOUS
<1>3. e = [f EXCEPT !.proyeccion = q, !.reserva = r, !.canceladas = c]
  BY <1>1, <1>2 DEF Cascade
<1> HIDE DEF e, q, r, c
<1>4. e = [pelicula |-> movies, proyeccion |-> q, reserva |-> r, canceladas |-> c,
           seqProyeccion |-> d.seqProyeccion, seqCanceladas |-> d.seqCanceladas]
  BY <1>3
<1> QED BY <1>4 DEF e, q, r, c

\* Deleting screenings keeps a database sound if it leaves no screening of a
\* movie that is gone: the cascade takes their reservations and cancellations.
LEMMA CascadeSound ==
  ASSUME NEW d, Sound(d), NEW movies, NEW gone,
         \A p \in d.proyeccion : p.nombrePelicula \in movies \/ p.id \in gone
  PROVE  Sound(Cascade([d EXCEPT !.pelicula = movies], gone))
<1> DEFINE e == Cascade([d EXCEPT !.pelicula = movies], gone)
           q == {p \in d.proyeccion : p.id \notin gone}
           r == {x \in d.reserva : x.proyeccionID \notin gone}
           c == {x \in d.canceladas : x.ticket.proyeccionID \notin gone}
<1>1. e = [pelicula |-> movies, proyeccion |-> q, reserva |-> r, canceladas |-> c,
           seqProyeccion |-> d.seqProyeccion, seqCanceladas |-> d.seqCanceladas]
  BY CascadeRows DEF Sound
<1> HIDE DEF e
<1>2. /\ e.pelicula = movies /\ e.proyeccion = q /\ e.reserva = r /\ e.canceladas = c
      /\ e.seqProyeccion = d.seqProyeccion /\ e.seqCanceladas = d.seqCanceladas
  <2> HIDE DEF q, r, c
  <2> QED BY <1>1
<1>3. WellFormed(e)
  <2>1. (\A p \in q : p.id \in Nat) /\ (\A x \in c : x.id \in Nat)
    BY DEF Sound, WellFormed
  <2> HIDE DEF q, r, c
  <2> QED BY <1>1, <1>2, <2>1 DEF Sound, WellFormed
<1>4. Ids(e) = Ids(d) \ gone
  BY <1>2 DEF Ids
<1>5. ReferencesExist(e)
  BY <1>2, <1>4 DEF Sound, Integrity, ReferencesExist
<1>6. KeysUnique(e)
  BY <1>2 DEF Sound, Integrity, KeysUnique
<1>7. SequencesAhead(e)
  BY <1>2 DEF Sound, Integrity, SequencesAhead
<1>8. Sound(e)
  BY <1>3, <1>5, <1>6, <1>7 DEF Sound, Integrity
<1> QED BY <1>8 DEF e

\* STMNT_DELETE_SCREENING keeps a database sound.
LEMMA DeleteScreeningSound ==
  ASSUME NEW d, NEW id, Sound(d)
  PROVE  Sound(STMNT_DELETE_SCREENING(d, id).db)
<1>1. d = [d EXCEPT !.pelicula = d.pelicula]
  BY DEF Sound, WellFormed
<1>2. Sound(Cascade([d EXCEPT !.pelicula = d.pelicula], {id}))
  BY CascadeSound DEF Sound, Integrity, ReferencesExist
<1> QED BY <1>1, <1>2 DEF STMNT_DELETE_SCREENING, Done

\* STMNT_DELETE_MOVIE keeps a database sound: its screenings go with it.
LEMMA DeleteMovieSound ==
  ASSUME NEW d, NEW m, Sound(d)
  PROVE  Sound(STMNT_DELETE_MOVIE(d, m).db)
<1> DEFINE gone == {p.id : p \in {q \in d.proyeccion : q.nombrePelicula = m}}
<1>1. \A p \in d.proyeccion : p.nombrePelicula \in d.pelicula \ {m} \/ p.id \in gone
  BY DEF Sound, Integrity, ReferencesExist
<1>2. STMNT_DELETE_MOVIE(d, m).db = Cascade([d EXCEPT !.pelicula = d.pelicula \ {m}], gone)
  BY DEF STMNT_DELETE_MOVIE, Done
<1> HIDE DEF gone
<1> QED BY <1>1, <1>2, CascadeSound

\* The rows after an accepted INSERT of STMNT_CANCEL_AND_DELETE.
LEMMA CancelInsertRows ==
  ASSUME NEW d, NEW r, WellFormed(d), r.proyeccionID \in Ids(d)
  PROVE  CANCEL_INSERT(d, r).db =
           [pelicula |-> d.pelicula, proyeccion |-> d.proyeccion, reserva |-> d.reserva,
            canceladas |-> d.canceladas \cup {[id |-> d.seqCanceladas + 1, ticket |-> r]},
            seqProyeccion |-> d.seqProyeccion, seqCanceladas |-> d.seqCanceladas + 1]
<1> DEFINE new == [id |-> d.seqCanceladas + 1, ticket |-> r]
           e == CANCEL_INSERT(d, r).db
<1>1. e = [d EXCEPT !.seqCanceladas = d.seqCanceladas + 1,
                    !.canceladas = d.canceladas \cup {new}]
  BY DEF CANCEL_INSERT, Done
<1> HIDE DEF new, e
<1>2. e = [pelicula |-> d.pelicula, proyeccion |-> d.proyeccion, reserva |-> d.reserva,
           canceladas |-> d.canceladas \cup {new}, seqProyeccion |-> d.seqProyeccion,
           seqCanceladas |-> d.seqCanceladas + 1]
  BY <1>1 DEF WellFormed
<1> QED BY <1>2 DEF new, e

\* The INSERT of STMNT_CANCEL_AND_DELETE keeps a database sound.
LEMMA CancelInsertSound ==
  ASSUME NEW d, NEW r, Sound(d)
  PROVE  Sound(CANCEL_INSERT(d, r).db)
<1>1. CASE r.proyeccionID \notin Ids(d)
  BY <1>1 DEF CANCEL_INSERT, Refused
<1>2. CASE r.proyeccionID \in Ids(d)
  <2> DEFINE new == [id |-> d.seqCanceladas + 1, ticket |-> r]
             e == CANCEL_INSERT(d, r).db
  <2>2. new.id = d.seqCanceladas + 1 /\ new.ticket = r
    OBVIOUS
  <2>3. e = [pelicula |-> d.pelicula, proyeccion |-> d.proyeccion, reserva |-> d.reserva,
             canceladas |-> d.canceladas \cup {new}, seqProyeccion |-> d.seqProyeccion,
             seqCanceladas |-> d.seqCanceladas + 1]
    BY <1>2, CancelInsertRows DEF Sound
  <2> HIDE DEF new, e
  <2>4. /\ e.pelicula = d.pelicula /\ e.proyeccion = d.proyeccion
        /\ e.reserva = d.reserva /\ e.canceladas = d.canceladas \cup {new}
        /\ e.seqProyeccion = d.seqProyeccion /\ e.seqCanceladas = d.seqCanceladas + 1
    BY <2>3
  <2>5. WellFormed(e)
    BY <2>2, <2>3, <2>4 DEF Sound, WellFormed
  <2>6. Ids(e) = Ids(d)
    BY <2>4 DEF Ids
  <2>7. ReferencesExist(e)
    BY <1>2, <2>2, <2>4, <2>6 DEF Sound, Integrity, ReferencesExist
  <2>8. \A c \in d.canceladas : c.id # new.id
    BY <2>2 DEF Sound, WellFormed, Integrity, SequencesAhead
  <2>9. KeysUnique(e)
    BY <2>4, <2>8 DEF Sound, Integrity, KeysUnique
  <2>10. SequencesAhead(e)
    BY <2>2, <2>4 DEF Sound, WellFormed, Integrity, SequencesAhead
  <2>11. Sound(e)
    BY <2>5, <2>7, <2>9, <2>10 DEF Sound, Integrity
  <2> QED BY <2>11 DEF e
<1> QED BY <1>1, <1>2

\* The DELETE of STMNT_CANCEL_AND_DELETE keeps a database sound.
LEMMA CancelDeleteSound ==
  ASSUME NEW d, NEW r, Sound(d)
  PROVE  Sound(CANCEL_DELETE(d, r).db)
BY DEF Sound, WellFormed, Integrity, ReferencesExist, KeysUnique, SequencesAhead, Ids,
       CANCEL_DELETE, Done

-----------------------------------------------------------------------------
(* The server.                                                             *)

\* What a handler is about to do fits its request (process_request).
StepFits(s) == /\ thread[s].at = "exists" => thread[s].req.type \in Asserted
               /\ thread[s].at = "exec" => thread[s].req.type \in Statements

ThreadShape == thread = [s \in Sessions |-> [at |-> thread[s].at, req |-> thread[s].req,
                                             out |-> thread[s].out]]

SoundInv == Sound(db) /\ ThreadShape /\ \A s \in Sessions : StepFits(s)

\* The statement of a handler keeps the database sound, whatever it is asked.
LEMMA StatementSound ==
  ASSUME NEW d, Sound(d), NEW req, req.type \in Statements
  PROVE  Sound(Statement(d, req).db)
<1>1. CASE req.type = "REQ_MOVIE_ADD"
  BY <1>1, AddMovieSound DEF Statement
<1>2. CASE req.type = "REQ_MOVIE_DELETE"
  BY <1>2, DeleteMovieSound DEF Statement
<1>3. CASE req.type = "REQ_SCREENING_ADD"
  BY <1>3, AddScreeningSound DEF Statement
<1>4. CASE req.type = "REQ_SCREENING_DELETE"
  BY <1>4, DeleteScreeningSound DEF Statement
<1>5. CASE req.type = "REQ_MAKE_RESERVATION"
  BY <1>5, MakeReservationSound DEF Statement
<1>6. CASE req.type = "REQ_CANCEL_RESERVATION"
  BY <1>6, CancelInsertSound DEF Statement
<1> QED BY <1>1, <1>2, <1>3, <1>4, <1>5, <1>6 DEF Statements

\* A thread that goes on at a step that fits its request keeps the invariant
\* of the threads.
LEMMA ThreadMoves ==
  ASSUME ThreadShape, \A s \in Sessions : StepFits(s),
         NEW s \in Sessions, NEW at, NEW req, NEW out, Become(s, at, req, out),
         at = "exists" => req.type \in Asserted,
         at = "exec" => req.type \in Statements
  PROVE  ThreadShape' /\ \A u \in Sessions : StepFits(u)'
<1> DEFINE rec == [at |-> at, req |-> req, out |-> out]
<1>1. rec.at = at /\ rec.req = req /\ rec.out = out
  OBVIOUS
<1>2. rec = [at |-> rec.at, req |-> rec.req, out |-> rec.out]
  BY <1>1
<1>3. thread' = [thread EXCEPT ![s] = rec]
  BY DEF Become
<1> HIDE DEF rec
<1>4. \A u \in Sessions : thread'[u] = IF u = s THEN rec ELSE thread[u]
  BY <1>3 DEF ThreadShape
<1>5. thread' = [u \in Sessions |-> thread'[u]]
  BY <1>3 DEF ThreadShape
<1>6. \A u \in Sessions :
         thread'[u] = [at |-> thread'[u].at, req |-> thread'[u].req, out |-> thread'[u].out]
  BY <1>2, <1>4 DEF ThreadShape
<1>7. ThreadShape'
  BY <1>5, <1>6 DEF ThreadShape
<1>8. \A u \in Sessions : StepFits(u)'
  BY <1>1, <1>4 DEF StepFits
<1> QED BY <1>7, <1>8

\* A step outside the handlers' use of the database always fits.
LEMMA QuietMove ==
  ASSUME ThreadShape, \A s \in Sessions : StepFits(s),
         NEW s \in Sessions, NEW at, NEW req, NEW out, Become(s, at, req, out),
         at \notin {"exists", "exec"}
  PROVE  ThreadShape' /\ \A u \in Sessions : StepFits(u)'
BY ThreadMoves

\* The invariant holds when the server starts.
LEMMA InitSound == Init => SoundInv
<1> SUFFICES ASSUME Init PROVE SoundInv
  OBVIOUS
<1>1. db \in Databases /\ Integrity(db)
  BY InitialDBsSound DEF Init
<1>2. WellFormed(db)
  BY <1>1 DEF WellFormed, Databases, Proyeccion, Canceladas
<1>3. ThreadShape
  BY DEF Init, ThreadShape, Off
<1>4. \A s \in Sessions : StepFits(s)
  BY DEF Init, StepFits, Off
<1> QED BY <1>1, <1>2, <1>3, <1>4 DEF SoundInv, Sound

\* Every step of a thread of the server keeps the invariant.
LEMMA ThreadSound ==
  ASSUME SoundInv, NEW s \in Sessions, Thread(s) \/ statement_fails(s)
  PROVE  SoundInv'
<1> USE DEF SoundInv
<1>a. ASSUME NEW out, Conclude(s, out)
      PROVE  ThreadShape' /\ \A u \in Sessions : StepFits(u)'
  BY <1>a, QuietMove DEF Conclude
<1>b. ASSUME NEW from, NEW to, At(s, from, to),
             to = "exists" => thread[s].req.type \in Asserted,
             to = "exec" => thread[s].req.type \in Statements
      PROVE  ThreadShape' /\ \A u \in Sessions : StepFits(u)'
  BY <1>b, ThreadMoves DEF At
<1>c. ASSUME UNCHANGED db PROVE Sound(db)'
  BY <1>c DEF Sound, WellFormed, Integrity, ReferencesExist, KeysUnique, SequencesAhead, Ids
<1>1. CASE wait_request(s)
  <2>1. UNCHANGED db
    BY <1>1 DEF wait_request
  <2>2. \/ Become(s, "enter", build_request(c2s[s]), NoReply)
        \/ Become(s, "off", NoRequest, NoReply)
        \/ UNCHANGED thread
    BY <1>1 DEF wait_request
  <2>3. CASE UNCHANGED thread
    BY <1>c, <2>1, <2>3 DEF ThreadShape, StepFits
  <2> QED BY <1>c, <2>1, <2>2, <2>3, QuietMove
<1>2. CASE enter_critical(s)
  <2> DEFINE to == FirstStep(thread[s].req.type)
  <2>1. /\ to = "exists" => thread[s].req.type \in Asserted
        /\ to = "exec" => thread[s].req.type \in Statements
    BY DEF FirstStep
  <2>2. At(s, "enter", to) /\ UNCHANGED db
    BY <1>2 DEF enter_critical
  <2> HIDE DEF to
  <2> QED BY <1>b, <1>c, <2>1, <2>2
<1>3. CASE assert_existence(s)
  <2>1. UNCHANGED db /\ thread[s].req.type \in Statements
    BY <1>3 DEF assert_existence, StepFits, Asserted, Statements
  <2>2. At(s, "exists", "exec") \/ Conclude(s, Reply("ERR_NO_SUCH_DATA"))
    BY <1>3 DEF assert_existence
  <2> QED BY <1>a, <1>b, <1>c, <2>1, <2>2
<1>4. CASE execute_statements(s)
  <2>1. thread[s].req.type \in Statements
    BY <1>4 DEF execute_statements, StepFits
  <2>2. Sound(Statement(db, thread[s].req).db)
    BY <2>1, StatementSound
  <2>3. db' = Statement(db, thread[s].req).db
    BY <1>4 DEF execute_statements
  <2>4. Sound(db)'
    BY <2>2, <2>3 DEF Sound, WellFormed, Integrity, ReferencesExist, KeysUnique,
                      SequencesAhead, Ids
  <2>5. At(s, "exec", "delete") \/ Conclude(s, Ack(Statement(db, thread[s].req).rc))
    BY <1>4 DEF execute_statements
  <2> QED BY <1>a, <1>b, <2>4, <2>5
<1>5. CASE cancel_delete(s)
  <2>1. db' = CANCEL_DELETE(db, thread[s].req.res).db
    BY <1>5 DEF cancel_delete
  <2>2. Sound(CANCEL_DELETE(db, thread[s].req.res).db)
    BY CancelDeleteSound
  <2>3. Sound(db)'
    BY <2>1, <2>2 DEF Sound, WellFormed, Integrity, ReferencesExist, KeysUnique,
                      SequencesAhead, Ids
  <2>4. Conclude(s, Ack(CANCEL_DELETE(db, thread[s].req.res).rc))
    BY <1>5 DEF cancel_delete
  <2> QED BY <1>a, <2>3, <2>4
<1>6. CASE do_query(s)
  <2>1. UNCHANGED db /\ \E rows : Conclude(s, List(rows))
    BY <1>6 DEF do_query
  <2> QED BY <1>a, <1>c, <2>1
<1>7. CASE reply(s)
  BY <1>7, <1>b, <1>c DEF reply
<1>8. CASE leave_critical(s)
  <2>1. UNCHANGED db /\ Become(s, "read", NoRequest, NoReply)
    BY <1>8 DEF leave_critical
  <2> QED BY <1>c, <2>1, QuietMove
<1>9. CASE statement_fails(s)
  BY <1>9, <1>a, <1>c DEF statement_fails
<1> QED BY <1>1, <1>2, <1>3, <1>4, <1>5, <1>6, <1>7, <1>8, <1>9 DEF Thread

\* Nothing else changes the database.
LEMMA NextSound == SoundInv /\ [Next]_vars => SoundInv'
<1> SUFFICES ASSUME SoundInv, [Next]_vars PROVE SoundInv'
  OBVIOUS
<1> USE DEF SoundInv
<1>a. ASSUME UNCHANGED db PROVE Sound(db)'
  BY <1>a DEF Sound, WellFormed, Integrity, ReferencesExist, KeysUnique, SequencesAhead, Ids
<1>b. ASSUME UNCHANGED <<db, thread>> PROVE SoundInv'
  BY <1>a, <1>b DEF ThreadShape, StepFits
<1>1. ASSUME NEW s \in Sessions, new_client(s) PROVE SoundInv'
  <2>1. UNCHANGED db /\ \E at \in {"read", "unserved"} : Become(s, at, NoRequest, NoReply)
    BY <1>1 DEF new_client
  <2> QED BY <1>a, <2>1, QuietMove
<1>2. ASSUME NEW s \in Sessions, choose_option(s) \/ client_exit(s) \/ Client(s)
      PROVE  SoundInv'
  <2>1. UNCHANGED <<db, thread>>
    BY <1>2 DEF choose_option, client_exit, Client, got_movies, got_screenings, got_hall,
                got_tickets, wait_ack, connection_closed, Answered, ServerSide
  <2> QED BY <1>b, <2>1
<1>3. CASE server_dies
  <2>1. UNCHANGED db /\ thread' = [s \in Sessions |-> Off]
    BY <1>3 DEF server_dies
  <2>2. ThreadShape' /\ \A s \in Sessions : StepFits(s)'
    BY <2>1 DEF ThreadShape, StepFits, Off
  <2> QED BY <1>a, <2>1, <2>2
<1>4. CASE server_starts \/ log_stalls \/ log_moves
  BY <1>4, <1>b DEF server_starts, log_stalls, log_moves
<1>5. CASE UNCHANGED vars
  BY <1>5, <1>b DEF vars
<1> QED BY <1>1, <1>2, <1>3, <1>4, <1>5, ThreadSound DEF Next

\* Whatever the clients ask for, in whatever order their threads run and
\* wherever a statement fails or the server dies, the rows of cine.db refer to
\* rows that exist, and no seat, slot or id is given twice.
THEOREM DatabaseStaysSound == Spec => []DatabaseSound
<1>1. SoundInv => DatabaseSound
  BY DEF SoundInv, Sound, DatabaseSound
<1> QED BY <1>1, InitSound, NextSound, PTL DEF Spec

-----------------------------------------------------------------------------
(* Isolation: what a handler has read stays true until it leaves.          *)

Inside(s) == thread[s].at \in {"exists", "exec", "delete", "query", "reply", "leave"}
Kind(s) == get_synchro_type(thread[s].req.type)

\* The lock knows which threads are inside and as what (process_request
\* enters and leaves with the same request), and a writer is alone.
LockInv ==
  /\ readers = {s \in Sessions : Inside(s) /\ Kind(s) = "READER"}
  /\ writing = {s \in Sessions : Inside(s) /\ Kind(s) = "WRITER"}
  /\ \A s \in writing : readers = {} /\ writing = {s}

\* What a constraint violation is reported of.
Taken(d, q) ==
  \/ q.type = "REQ_MOVIE_ADD" /\ q.movie \in d.pelicula
  \/ q.type = "REQ_SCREENING_ADD" /\ \E p \in d.proyeccion : p.turno = q.turno
  \/ /\ q.type = "REQ_MAKE_RESERVATION"
     /\ q.res.asiento \in QUERY_OCCUPIED_SEATS(d, q.res.proyeccionID)

\* An answer is true of the database it is sent from; f failures so far.
AnswerHolds(d, q, out, f) ==
  /\ out.code = "LIST" => out.items \subseteq Rows(d, q) /\ (f = 0 => out.items = Rows(d, q))
  /\ out.code = "ERR_NO_SUCH_DATA" => ~Exists(d, q)
  /\ out.code = "ERR_CONSTRAINT_VIOLATION" => Taken(d, q)

\* What a thread relies on: the row it looked for is still there when it runs
\* its statements, and its answer is what the database holds.
Knows(d, at, q, out, f) ==
  /\ at = "exec" /\ q.type \in Asserted => Exists(d, q)
  /\ at = "delete" => q.type = "REQ_CANCEL_RESERVATION" /\ Exists(d, q)
  /\ at = "reply" => AnswerHolds(d, q, out, f)

ThreadKnows(s) == Knows(db, thread[s].at, thread[s].req, thread[s].out, faults)

\* The inductive invariant of isolation.
IsolationInv == SoundInv /\ LockInv /\ faults \in Nat /\ \A s \in Sessions : ThreadKnows(s)

\* What a thread knows in the next state.
LEMMA ThreadKnowsPrime ==
  ASSUME NEW s
  PROVE  ThreadKnows(s)' <=> Knows(db', thread'[s].at, thread'[s].req, thread'[s].out, faults')
BY DEF ThreadKnows, Knows, AnswerHolds, Taken, Exists, Rows, QUERY_MOVIE_EXISTS,
       QUERY_SCREENING_EXISTS, QUERY_RESERVATION_EXISTS, QUERY_GET_MOVIE_LIST,
       QUERY_GET_SCREENINGS, QUERY_OCCUPIED_SEATS, QUERY_GET_RESERVED, QUERY_GET_CANCELLED,
       TicketsOf, Ids

\* What a thread becomes.
LEMMA Becomes ==
  ASSUME ThreadShape, NEW s \in Sessions, NEW at, NEW req, NEW out, Become(s, at, req, out)
  PROVE  /\ thread'[s].at = at /\ thread'[s].req = req /\ thread'[s].out = out
         /\ \A u \in Sessions : u # s => thread'[u] = thread[u]
<1> DEFINE rec == [at |-> at, req |-> req, out |-> out]
<1>1. rec.at = at /\ rec.req = req /\ rec.out = out
  OBVIOUS
<1>2. thread' = [thread EXCEPT ![s] = rec]
  BY DEF Become
<1> HIDE DEF rec
<1>3. \A u \in Sessions : thread'[u] = IF u = s THEN rec ELSE thread[u]
  BY <1>2 DEF ThreadShape
<1> QED BY <1>1, <1>3

\* A thread that is about to change the database is alone inside.
LEMMA WriterAlone ==
  ASSUME IsolationInv, NEW s \in Sessions, thread[s].at \in {"exec", "delete"}
  PROVE  \A u \in Sessions : u # s => ~Inside(u)
<1>1. thread[s].req.type \in Statements
  BY DEF IsolationInv, SoundInv, StepFits, ThreadKnows, Knows, Statements
<1>2. Kind(s) = "WRITER"
  BY <1>1 DEF Kind, get_synchro_type, Statements, Lists
<1>3. s \in writing /\ readers = {} /\ writing = {s}
  BY <1>2 DEF IsolationInv, LockInv, Inside
<1>4. \A u : Kind(u) \in {"READER", "WRITER"}
  BY DEF Kind, get_synchro_type
<1> QED BY <1>3, <1>4 DEF IsolationInv, LockInv

\* A query finds the same rows, and an error keeps its reason, as long as the
\* database is not changed; only the thread that is alone inside changes it.
LEMMA KnowledgeKept ==
  ASSUME IsolationInv, NEW s \in Sessions, NEW at, NEW req, NEW out, Become(s, at, req, out),
         db' = db \/ thread[s].at \in {"exec", "delete"},
         faults' \in {faults, faults + 1},
         Knows(db', at, req, out, faults')
  PROVE  \A u \in Sessions : ThreadKnows(u)'
<1> TAKE u \in Sessions
<1>1. CASE u = s
  BY <1>1, Becomes, ThreadKnowsPrime DEF IsolationInv, SoundInv
<1>2. CASE u # s
  <2>1. thread'[u] = thread[u]
    BY <1>2, Becomes DEF IsolationInv, SoundInv
  <2>2. CASE db' = db
    <3>1. Knows(db, thread[u].at, thread[u].req, thread[u].out, faults)
      BY DEF IsolationInv, ThreadKnows
    <3>2. faults' = 0 => faults = 0
      BY DEF IsolationInv
    <3>3. Knows(db, thread[u].at, thread[u].req, thread[u].out, faults')
      BY <3>1, <3>2 DEF Knows, AnswerHolds
    <3> QED BY <2>1, <2>2, <3>3, ThreadKnowsPrime
  <2>3. CASE thread[s].at \in {"exec", "delete"}
    <3>1. ~Inside(u)
      BY <1>2, <2>3, WriterAlone
    <3>2. Knows(db', thread'[u].at, thread'[u].req, thread'[u].out, faults')
      BY <2>1, <3>1 DEF Inside, Knows
    <3> QED BY <3>2, ThreadKnowsPrime
  <2> QED BY <2>2, <2>3
<1> QED BY <1>1, <1>2

\* A step that stays on its side of the lock.
LEMMA LockKept ==
  ASSUME IsolationInv, NEW s \in Sessions, NEW at, NEW req, NEW out, Become(s, at, req, out),
         UNCHANGED <<readers, writing>>,
         LET in == at \in {"exists", "exec", "delete", "query", "reply", "leave"}
         IN (Inside(s) /\ in /\ req = thread[s].req) \/ (~Inside(s) /\ ~in)
  PROVE  LockInv'
<1>1. /\ thread'[s].at = at /\ thread'[s].req = req
      /\ \A u \in Sessions : u # s => thread'[u] = thread[u]
  BY Becomes DEF IsolationInv, SoundInv
<1>2. \A u \in Sessions : Inside(u)' <=> Inside(u)
  BY <1>1 DEF Inside
<1>3. \A u \in Sessions : Inside(u) => Kind(u)' = Kind(u)
  BY <1>1 DEF Inside, Kind, get_synchro_type
<1> QED BY <1>2, <1>3 DEF IsolationInv, LockInv

\* A statement is only refused for the reason the user is told, once
\* assert_existence has found what it refers to, and then changes nothing.
LEMMA RefusalReason ==
  ASSUME NEW d, Sound(d), NEW req, req.type \in Statements,
         req.type \in Asserted => Exists(d, req),
         Statement(d, req).rc # "SQLITE_OK"
  PROVE  /\ Statement(d, req).rc = "SQLITE_CONSTRAINT"
         /\ Statement(d, req).db = d
         /\ Taken(d, req)
<1>1. CASE req.type = "REQ_MOVIE_ADD"
  BY <1>1 DEF Statement, STMNT_ADD_MOVIE, Done, Refused, Taken
<1>2. CASE req.type = "REQ_MOVIE_DELETE"
  BY <1>2 DEF Statement, STMNT_DELETE_MOVIE, Done
<1>3. CASE req.type = "REQ_SCREENING_ADD"
  BY <1>3 DEF Statement, STMNT_ADD_SCREENING, Done, Refused, Taken, Asserted, Exists,
              QUERY_MOVIE_EXISTS
<1>4. CASE req.type = "REQ_SCREENING_DELETE"
  BY <1>4 DEF Statement, STMNT_DELETE_SCREENING, Done
<1>5. CASE req.type = "REQ_MAKE_RESERVATION"
  <2>1. req.res.proyeccionID \in Ids(d)
    BY <1>5 DEF Asserted, Exists, QUERY_SCREENING_EXISTS
  <2>2. /\ Statement(d, req) = Refused(d)
        /\ <<req.res.proyeccionID, req.res.asiento>> \in SeatsTaken(d)
    BY <1>5, <2>1 DEF Statement, STMNT_MAKE_RESERVATION, Done
  <2>3. req.res.asiento \in QUERY_OCCUPIED_SEATS(d, req.res.proyeccionID)
    BY <2>2 DEF SeatsTaken, QUERY_OCCUPIED_SEATS
  <2> QED BY <1>5, <2>2, <2>3 DEF Refused, Taken
<1>6. CASE req.type = "REQ_CANCEL_RESERVATION"
  <2>1. req.res \in d.reserva
    BY <1>6 DEF Asserted, Exists, QUERY_RESERVATION_EXISTS
  <2>2. req.res.proyeccionID \in Ids(d)
    BY <2>1 DEF Sound, Integrity, ReferencesExist
  <2> QED BY <1>6, <2>2 DEF Statement, CANCEL_INSERT, Done
<1> QED BY <1>1, <1>2, <1>3, <1>4, <1>5, <1>6 DEF Statements

\* The INSERT of a cancellation leaves the reservation for the DELETE.
LEMMA InsertLeavesReservation ==
  ASSUME NEW d, Sound(d), NEW req, req.type = "REQ_CANCEL_RESERVATION", Exists(d, req)
  PROVE  Exists(Statement(d, req).db, req)
<1>1. req.res \in d.reserva
  BY DEF Exists, QUERY_RESERVATION_EXISTS
<1>2. req.res.proyeccionID \in Ids(d)
  BY <1>1 DEF Sound, Integrity, ReferencesExist
<1>3. Statement(d, req).db.reserva = d.reserva
  BY <1>2 DEF Statement, CANCEL_INSERT, Done, Sound, WellFormed
<1> QED BY <1>1, <1>3 DEF Exists, QUERY_RESERVATION_EXISTS

\* A step that writes nothing and moves no thread, perhaps a failure.
LEMMA StillIsolated ==
  ASSUME IsolationInv, SoundInv', UNCHANGED <<db, thread, readers, writing>>,
         faults' \in {faults, faults + 1}
  PROVE  IsolationInv'
<1>1. faults' \in Nat /\ (faults' = 0 => faults = 0)
  BY DEF IsolationInv
<1>2. ASSUME NEW s \in Sessions PROVE ThreadKnows(s)'
  <2>1. Knows(db, thread[s].at, thread[s].req, thread[s].out, faults)
    BY DEF IsolationInv, ThreadKnows
  <2>2. Knows(db, thread[s].at, thread[s].req, thread[s].out, faults')
    BY <1>1, <2>1 DEF Knows, AnswerHolds
  <2> QED BY <2>2, ThreadKnowsPrime
<1>3. LockInv'
  BY DEF IsolationInv, LockInv, Inside, Kind, get_synchro_type
<1> QED BY <1>1, <1>2, <1>3 DEF IsolationInv

\* Every step of a thread of the server keeps the invariant.
LEMMA ThreadIsolated ==
  ASSUME IsolationInv, NEW s \in Sessions, Thread(s) \/ statement_fails(s)
  PROVE  IsolationInv'
<1> DEFINE q == thread[s].req
<1>a. SoundInv'
  BY ThreadSound DEF IsolationInv
<1>b. /\ thread[s].at = "exec" => q.type \in Statements
      /\ thread[s].at = "exec" /\ q.type \in Asserted => Exists(db, q)
      /\ thread[s].at = "delete" => q.type = "REQ_CANCEL_RESERVATION" /\ Exists(db, q)
      /\ thread[s].at = "reply" => AnswerHolds(db, q, thread[s].out, faults)
      /\ Sound(db) /\ faults \in Nat
  BY DEF IsolationInv, ThreadKnows, Knows, SoundInv, StepFits
<1>0. CASE wait_request(s) /\ UNCHANGED thread
  BY <1>a, <1>0, StillIsolated DEF wait_request
<1>1. CASE wait_request(s) /\ ~UNCHANGED thread
  <2>1. \E at \in {"enter", "off"} : \E req, out : Become(s, at, req, out)
    BY <1>1 DEF wait_request
  <2>2. /\ UNCHANGED <<db, readers, writing, faults>> /\ thread[s].at = "read"
    BY <1>1 DEF wait_request
  <2>3. PICK at, req, out : at \in {"enter", "off"} /\ Become(s, at, req, out)
    BY <2>1
  <2>4. Knows(db', at, req, out, faults')
    BY <2>3 DEF Knows
  <2>5. LockInv'
    BY <2>2, <2>3, LockKept DEF Inside
  <2>6. \A u \in Sessions : ThreadKnows(u)'
    BY <2>2, <2>3, <2>4, KnowledgeKept
  <2> QED BY <1>a, <1>b, <2>2, <2>5, <2>6 DEF IsolationInv
<1>2. CASE enter_critical(s)
  <2> DEFINE to == FirstStep(q.type)
  <2>1. to \in {"exists", "exec", "query"} /\ (to = "exec" => q.type \notin Asserted)
    BY DEF FirstStep
  <2>2. /\ Become(s, to, q, thread[s].out) /\ thread[s].at = "enter"
        /\ UNCHANGED <<db, faults>>
    BY <1>2 DEF enter_critical, At
  <2>3. \/ get_synchro_type(q.type) = "READER" /\ Lock!EnterReader(s)
        \/ get_synchro_type(q.type) = "WRITER" /\ Lock!EnterWriter(s)
    BY <1>2 DEF enter_critical, get_synchro_type
  <2> HIDE DEF to
  <2>4. Knows(db', to, q, thread[s].out, faults')
    BY <2>1 DEF Knows
  <2>5. \A u \in Sessions : ThreadKnows(u)'
    BY <2>2, <2>4, KnowledgeKept
  <2>6. /\ thread'[s].at = to /\ thread'[s].req = q
        /\ \A u \in Sessions : u # s => thread'[u] = thread[u]
    BY <2>2, Becomes DEF IsolationInv, SoundInv
  <2>7. /\ Inside(s)' /\ ~Inside(s) /\ Kind(s)' = get_synchro_type(q.type)
        /\ \A u \in Sessions : u # s => (Inside(u)' <=> Inside(u)) /\ Kind(u)' = Kind(u)
    BY <2>1, <2>2, <2>6 DEF Inside, Kind, get_synchro_type
  <2>8. LockInv'
    BY <2>3, <2>7 DEF IsolationInv, LockInv, Lock!EnterReader, Lock!EnterWriter
  <2> QED BY <1>a, <1>b, <2>2, <2>5, <2>8 DEF IsolationInv
<1>3. CASE assert_existence(s)
  <2>1. /\ UNCHANGED <<db, readers, writing, faults>> /\ thread[s].at = "exists"
        /\ \/ Exists(db, q) /\ Become(s, "exec", q, thread[s].out)
           \/ ~Exists(db, q) /\ Become(s, "reply", q, Reply("ERR_NO_SUCH_DATA"))
    BY <1>3 DEF assert_existence, At, Conclude
  <2>2. PICK at, out : /\ at \in {"exec", "reply"} /\ Become(s, at, q, out)
                      /\ Knows(db, at, q, out, faults)
    BY <2>1 DEF Knows, AnswerHolds, Reply
  <2>3. LockInv'
    BY <2>1, <2>2, LockKept DEF Inside
  <2>4. \A u \in Sessions : ThreadKnows(u)'
    BY <2>1, <2>2, KnowledgeKept
  <2> QED BY <1>a, <1>b, <2>1, <2>3, <2>4 DEF IsolationInv
<1>4. CASE execute_statements(s)
  <2> DEFINE res == Statement(db, q)
  <2>1. /\ thread[s].at = "exec" /\ db' = res.db /\ UNCHANGED <<readers, writing, faults>>
        /\ \/ /\ q.type = "REQ_CANCEL_RESERVATION" /\ res.rc = "SQLITE_OK"
              /\ Become(s, "delete", q, thread[s].out)
           \/ Become(s, "reply", q, Ack(res.rc))
    BY <1>4 DEF execute_statements, At, Conclude
  <2>2. res.rc # "SQLITE_OK" => res.rc = "SQLITE_CONSTRAINT" /\ res.db = db /\ Taken(db, q)
    BY <1>b, <2>1, RefusalReason
  <2>3. q.type = "REQ_CANCEL_RESERVATION" => Exists(res.db, q)
    BY <1>b, <2>1, InsertLeavesReservation DEF Asserted
  <2> HIDE DEF res
  <2>4. AnswerHolds(db', q, Ack(res.rc), faults')
    BY <2>1, <2>2 DEF AnswerHolds, Ack, Reply
  <2>5. PICK at, out : /\ at \in {"delete", "reply"} /\ Become(s, at, q, out)
                      /\ Knows(db', at, q, out, faults')
    BY <2>1, <2>3, <2>4 DEF Knows
  <2>6. LockInv'
    BY <2>1, <2>5, LockKept DEF Inside
  <2>7. \A u \in Sessions : ThreadKnows(u)'
    BY <2>1, <2>5, KnowledgeKept
  <2> QED BY <1>a, <1>b, <2>1, <2>6, <2>7 DEF IsolationInv
<1>5. CASE cancel_delete(s)
  <2>1. /\ thread[s].at = "delete" /\ UNCHANGED <<readers, writing, faults>>
        /\ Become(s, "reply", q, Reply("OK"))
    BY <1>5 DEF cancel_delete, Conclude, CANCEL_DELETE, Done, Ack
  <2>2. Knows(db', "reply", q, Reply("OK"), faults')
    BY DEF Knows, AnswerHolds, Reply
  <2>3. LockInv'
    BY <2>1, LockKept DEF Inside
  <2>4. \A u \in Sessions : ThreadKnows(u)'
    BY <2>1, <2>2, KnowledgeKept
  <2> QED BY <1>a, <1>b, <2>1, <2>3, <2>4 DEF IsolationInv
<1>6. CASE do_query(s)
  <2>1. /\ thread[s].at = "query" /\ UNCHANGED <<db, readers, writing>>
        /\ \/ UNCHANGED faults /\ Become(s, "reply", q, List(Rows(db, q)))
           \/ /\ faults' = faults + 1
              /\ \E rows \in SUBSET Rows(db, q) : Become(s, "reply", q, List(rows))
    BY <1>6 DEF do_query, Conclude
  <2>2. PICK rows : /\ rows \subseteq Rows(db, q) /\ (faults' = 0 => rows = Rows(db, q))
                    /\ Become(s, "reply", q, List(rows))
    BY <1>b, <2>1
  <2>3. Knows(db', "reply", q, List(rows), faults')
    BY <2>1, <2>2 DEF Knows, AnswerHolds, List
  <2>4. LockInv'
    BY <2>1, <2>2, LockKept DEF Inside
  <2>5. \A u \in Sessions : ThreadKnows(u)'
    BY <2>1, <2>2, <2>3, KnowledgeKept
  <2> QED BY <1>a, <1>b, <2>1, <2>4, <2>5 DEF IsolationInv
<1>7. CASE reply(s)
  <2>1. /\ thread[s].at = "reply" /\ UNCHANGED <<db, readers, writing, faults>>
        /\ Become(s, "leave", q, thread[s].out)
    BY <1>7 DEF reply, At
  <2>2. Knows(db', "leave", q, thread[s].out, faults')
    BY DEF Knows
  <2>3. LockInv'
    BY <2>1, LockKept DEF Inside
  <2>4. \A u \in Sessions : ThreadKnows(u)'
    BY <2>1, <2>2, KnowledgeKept
  <2> QED BY <1>a, <1>b, <2>1, <2>3, <2>4 DEF IsolationInv
<1>8. CASE leave_critical(s)
  <2>1. /\ thread[s].at = "leave" /\ UNCHANGED <<db, faults>>
        /\ Become(s, "read", NoRequest, NoReply)
    BY <1>8 DEF leave_critical
  <2>2. \/ get_synchro_type(q.type) = "READER" /\ Lock!LeaveReader(s)
        \/ get_synchro_type(q.type) = "WRITER" /\ Lock!LeaveWriter(s)
    BY <1>8 DEF leave_critical, get_synchro_type
  <2>3. Knows(db', "read", NoRequest, NoReply, faults')
    BY DEF Knows
  <2>4. \A u \in Sessions : ThreadKnows(u)'
    BY <2>1, <2>3, KnowledgeKept
  <2>5. /\ thread'[s].at = "read" /\ \A u \in Sessions : u # s => thread'[u] = thread[u]
    BY <2>1, Becomes DEF IsolationInv, SoundInv
  <2>6. /\ Inside(s) /\ ~Inside(s)' /\ Kind(s) = get_synchro_type(q.type)
        /\ \A u \in Sessions : u # s => (Inside(u)' <=> Inside(u)) /\ Kind(u)' = Kind(u)
    BY <2>1, <2>5 DEF Inside, Kind, get_synchro_type
  <2>7. LockInv'
    BY <2>2, <2>6 DEF IsolationInv, LockInv, Lock!LeaveReader, Lock!LeaveWriter
  <2> QED BY <1>a, <1>b, <2>1, <2>4, <2>7 DEF IsolationInv
<1>9. CASE statement_fails(s)
  <2>1. /\ thread[s].at \in {"exec", "delete"} /\ UNCHANGED <<db, readers, writing>>
        /\ faults' = faults + 1 /\ Become(s, "reply", q, Reply("ERR_UNKNOWN"))
    BY <1>9 DEF statement_fails, Conclude, Ack
  <2>2. Knows(db', "reply", q, Reply("ERR_UNKNOWN"), faults')
    BY DEF Knows, AnswerHolds, Reply
  <2>3. LockInv'
    BY <2>1, LockKept DEF Inside
  <2>4. \A u \in Sessions : ThreadKnows(u)'
    BY <2>1, <2>2, KnowledgeKept
  <2> QED BY <1>a, <1>b, <2>1, <2>3, <2>4 DEF IsolationInv
<1> QED BY <1>0, <1>1, <1>2, <1>3, <1>4, <1>5, <1>6, <1>7, <1>8, <1>9 DEF Thread

\* Nobody has read anything at the start.
LEMMA InitIsolated == Init => IsolationInv
<1> SUFFICES ASSUME Init PROVE IsolationInv
  OBVIOUS
<1>1. \A s \in Sessions : thread[s].at = "off"
  BY DEF Init, Off
<1>2. LockInv
  BY <1>1 DEF Init, LockInv, Inside, Lock!RWInit
<1>3. \A s \in Sessions : ThreadKnows(s)
  BY <1>1 DEF ThreadKnows, Knows
<1> QED BY <1>2, <1>3, InitSound DEF Init, IsolationInv

\* Clients, new connections and a restart do not disturb the threads inside;
\* when the server dies there are none.
LEMMA NextIsolated == IsolationInv /\ [Next]_vars => IsolationInv'
<1> SUFFICES ASSUME IsolationInv, [Next]_vars PROVE IsolationInv'
  OBVIOUS
<1>a. SoundInv'
  BY NextSound DEF IsolationInv
<1>b. ASSUME UNCHANGED <<db, thread, readers, writing>>, faults' \in {faults, faults + 1}
      PROVE  IsolationInv'
  BY <1>a, <1>b, StillIsolated
<1>1. ASSUME NEW s \in Sessions, new_client(s) PROVE IsolationInv'
  <2>1. /\ UNCHANGED <<db, readers, writing>> /\ thread[s].at = "off"
        /\ faults' \in {faults, faults + 1}
        /\ \E at \in {"read", "unserved"} : Become(s, at, NoRequest, NoReply)
    BY <1>1 DEF new_client
  <2>2. PICK at \in {"read", "unserved"} : Become(s, at, NoRequest, NoReply)
    BY <2>1
  <2>3. Knows(db', at, NoRequest, NoReply, faults')
    BY DEF Knows
  <2>4. LockInv'
    BY <2>1, <2>2, LockKept DEF Inside
  <2>5. \A u \in Sessions : ThreadKnows(u)'
    BY <2>1, <2>2, <2>3, KnowledgeKept
  <2> QED BY <1>a, <2>1, <2>4, <2>5 DEF IsolationInv
<1>2. ASSUME NEW s \in Sessions, choose_option(s) \/ client_exit(s) \/ Client(s)
      PROVE  IsolationInv'
  <2>1. UNCHANGED <<db, thread, readers, writing, faults>>
    BY <1>2 DEF choose_option, client_exit, Client, got_movies, got_screenings, got_hall,
                got_tickets, wait_ack, connection_closed, Answered, ServerSide
  <2> QED BY <1>b, <2>1
<1>3. CASE server_dies
  <2>1. /\ readers' = {} /\ writing' = {} /\ faults' = faults + 1
        /\ \A s \in Sessions : thread'[s].at = "off"
    BY <1>3 DEF server_dies, Off
  <2>2. LockInv'
    BY <2>1 DEF LockInv, Inside
  <2>3. \A s \in Sessions : ThreadKnows(s)'
    BY <2>1 DEF ThreadKnows, Knows
  <2> QED BY <1>a, <2>1, <2>2, <2>3 DEF IsolationInv
<1>4. CASE server_starts \/ log_stalls \/ log_moves
  BY <1>4, <1>b DEF server_starts, log_stalls, log_moves
<1>5. CASE UNCHANGED vars
  BY <1>5, <1>b DEF vars
<1> QED BY <1>1, <1>2, <1>3, <1>4, <1>5, ThreadIsolated DEF Next

\* A list is what the database holds until the last packet of it is sent,
\* however the threads interleave: writers wait (enter_critical).
THEOREM ListsAreCurrent == Spec => []ListCurrent
<1>1. IsolationInv => ListCurrent
  BY DEF IsolationInv, ThreadKnows, Knows, AnswerHolds, ListCurrent
<1> QED BY <1>1, InitIsolated, NextIsolated, PTL DEF Spec

\* The reason a user is given for an error is true when it is sent.
THEOREM ErrorsAreTruthful == Spec => []ErrorsTruthful
<1>1. IsolationInv => ErrorsTruthful
  BY DEF IsolationInv, ThreadKnows, Knows, AnswerHolds, Taken, ErrorsTruthful
<1> QED BY <1>1, InitIsolated, NextIsolated, PTL DEF Spec
============================================================================
