--------------------------- MODULE MCCinemaServer ---------------------------
(***************************************************************************)
(* Instances of CinemaServer for TLC.                                      *)
(***************************************************************************)
EXTENDS CinemaServer, TLC

Symmetry == Permutations(Sessions) \cup Permutations(Clients)
              \cup Permutations(Turnos) \cup Permutations(Seats)

CustomerOptions == {"RESERVE_MOVIE", "VIEW_RESERVATIONS", "CANCEL_RESERVATION"}
CatalogueOptions == {"RESERVE_MOVIE", "ADD_MOVIE", "ADD_SCREENING", "DEL_MOVIE", "DEL_SCREENING"}
AllOptions == CustomerOptions \cup CatalogueOptions \cup {"SHOW_MOVIES", "SHOW_SCREENING"}

\* One movie with one screening; nothing sold.
Showing == {[EmptyDB EXCEPT !.pelicula = {m}, !.seqProyeccion = 1,
               !.proyeccion = {[id |-> 1, nombrePelicula |-> m, turno |-> k]}] :
              m \in Movies, k \in Turnos}

\* The same with one ticket sold.
OneSold == {[d EXCEPT !.reserva = {[cliente |-> n, proyeccionID |-> 1, asiento |-> a]}] :
              d \in Showing, n \in Clients, a \in Seats}

Nothing == {EmptyDB}
EmptyOrShowing == Nothing \cup Showing
ShowingOrSold == Showing \cup OneSold
=============================================================================
