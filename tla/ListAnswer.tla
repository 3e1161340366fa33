----------------------------- MODULE ListAnswer -----------------------------
(***************************************************************************)
(* What a list request promises, and what CinemaServer takes it to be: the *)
(* client gets the whole list, once, or nothing at all; the server's       *)
(* thread is inside the critical zone until it is done with the client.    *)
(***************************************************************************)
CONSTANT NoList

VARIABLES list,      \* the rows the query returned
          inside,    \* the thread has not called leave_critical yet
          received   \* what get_movies, get_screenings or get_tickets returned

answerVars == <<list, inside, received>>

AnswerInit == inside = TRUE /\ received = NoList

Deliver == /\ received = NoList
           /\ received' = list
           /\ UNCHANGED <<list, inside>>

Finish == inside /\ inside' = FALSE /\ UNCHANGED <<list, received>>

AnswerSpec == AnswerInit /\ [][Deliver \/ Finish]_answerVars
=============================================================================
