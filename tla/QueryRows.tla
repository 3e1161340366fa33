----------------------------- MODULE QueryRows -----------------------------
(***************************************************************************)
(* How the rows of a query become a list: QueryData (database.c), the      *)
(* vector of rows that SQLite's callback fills and next_row reads; ListADT *)
(* and its iterator (utilities.c); and the loops of get_screening_list,    *)
(* get_movie_list, get_ticket_list (server.c) between the two.             *)
(*                                                                         *)
(* A row is one value: its columns, and the struct made of them, are only  *)
(* copied.  Slots of the vector are numbered from 0 as in C, addresses of  *)
(* list nodes from 1; NULL is 0.  heap holds what has been allocated and   *)
(* not freed, the error messages of sqlite3_exec included.                 *)
(***************************************************************************)
EXTENDS Integers, Sequences, FiniteSets

CONSTANTS INITIAL_CAPACITY,   \* slots of a new vector, 10 in the code
          Rows,               \* rows of a query
          Results,            \* the rows, in order, that a query for a list may have
          NoRow,              \* what an unused slot holds
          MaxFailures         \* bound: queries that fail

ASSUME CapacityAssumption == INITIAL_CAPACITY \in Nat \ {0}
ASSUME FailuresAssumption == MaxFailures \in Nat
ASSUME ResultsAssumption == NoRow \notin Rows /\ \A r \in Results : r \in Seq(Rows)

VARIABLES
  at,      \* the step the server's thread is at
  result,  \* the rows SQLite has for the query
  q,       \* QueryData: [rows, cursor, capacity, data]
  list,    \* ListADT: [first, last, length]
  node,    \* the list's nodes by address: [data, next]
  ptr,     \* the iterator
  got,     \* history: what the iterator has given
  heap,    \* live allocations
  failures \* history: queries that have failed

vars == <<at, result, q, list, node, ptr, got, heap, failures>>

NULL == 0
NoQuery == [rows |-> 0, cursor |-> 0, capacity |-> 0, data |-> <<>>]
NoList == [first |-> NULL, last |-> NULL, length |-> 0]

Init == /\ at = "idle" /\ result = <<>> /\ q = NoQuery
        /\ list = NoList /\ node = <<>> /\ ptr = NULL /\ got = <<>> /\ heap = {}
        /\ failures = 0

Empty(capacity) == [i \in 0..(capacity - 1) |-> NoRow]

-----------------------------------------------------------------------------
(* QueryData.                                                              *)

\* new_query, and do_query as far as sqlite3_exec.
new_query(rows) ==
  /\ at = "idle" /\ at' = "exec" /\ result' = rows
  /\ q' = [rows |-> 0, cursor |-> 0, capacity |-> INITIAL_CAPACITY, data |-> Empty(INITIAL_CAPACITY)]
  /\ heap' = heap \cup {<<"data">>}
  /\ UNCHANGED <<list, node, ptr, got, failures>>

\* realloc keeps what the vector held.
increase_capacity(c, data) ==
  [i \in 0..(2 * c - 1) |-> IF i < c THEN data[i] ELSE NoRow]

\* Mutant: the vector is only grown once a row has been written past it.
callback_Late ==
  /\ at = "exec" /\ q.rows < Len(result)
  /\ LET full == q.rows >= q.capacity + 1
         data == IF full THEN increase_capacity(q.capacity, q.data) ELSE q.data
     IN q' = [rows |-> q.rows + 1, cursor |-> q.cursor,
              capacity |-> IF full THEN 2 * q.capacity ELSE q.capacity,
              data |-> [data EXCEPT ![q.rows] = result[q.rows + 1]]]
  /\ heap' = heap \cup {<<"row", q.rows>>}
  /\ UNCHANGED <<at, result, list, node, ptr, got, failures>>

\* SQLite calls back with the next row.
callback ==
  /\ at = "exec" /\ q.rows < Len(result)
  /\ LET full == q.rows >= q.capacity - 1
         data == IF full THEN increase_capacity(q.capacity, q.data) ELSE q.data
     IN q' = [rows |-> q.rows + 1, cursor |-> q.cursor,
              capacity |-> IF full THEN 2 * q.capacity ELSE q.capacity,
              data |-> [data EXCEPT ![q.rows] = result[q.rows + 1]]]
  /\ heap' = heap \cup {<<"row", q.rows>>}
  /\ UNCHANGED <<at, result, list, node, ptr, got, failures>>

\* sqlite3_exec returns after the last row, or with an error after any row: then
\* it has allocated the text err_msg points to, which do_query logs and nobody
\* frees.  do_query's result is not looked at; the caller allocates cell.
exec_returns(cell) ==
  \/ /\ q.rows = Len(result)
     /\ heap' = heap \cup {cell} /\ UNCHANGED failures
  \/ /\ failures < MaxFailures /\ failures' = failures + 1
     /\ heap' = heap \cup {cell, <<"err_msg", failures + 1>>}

\* do_query for a list; the caller makes its list.
do_query == /\ at = "exec" /\ at' = "rows"
            /\ list' = NoList /\ node' = <<>> /\ got' = <<>>
            /\ exec_returns(<<"list">>)
            /\ UNCHANGED <<result, q, ptr>>

\* next_row: the row at the cursor; the cursor moves on.
HasRow == q.cursor < q.rows
Row == q.data[q.cursor]
next_row == q' = [q EXCEPT !.cursor = @ + 1]

\* Mutant: the last row is not freed.
destroy_query_data_Short == heap \ ({<<"data">>} \cup {<<"row", i>> : i \in 0..(q.rows - 2)})

\* What is left allocated.
destroy_query_data == heap \ ({<<"data">>} \cup {<<"row", i>> : i \in 0..(q.rows - 1)})

-----------------------------------------------------------------------------
(* ListADT.                                                                *)

\* Mutant: last is not moved to the new node.
add_to_list_Stuck(data) ==
  LET a == list.length + 1
      new == [data |-> data, next |-> NULL]
  IN /\ node' = IF list.first = NULL THEN node \o <<new>>
                ELSE [node EXCEPT ![list.last] = [data |-> @.data, next |-> a]] \o <<new>>
     /\ list' = [list EXCEPT !.first = IF @ = NULL THEN a ELSE @,
                             !.last = IF @ = NULL THEN a ELSE @, !.length = @ + 1]
     /\ heap' = heap \cup {<<"node", a>>}

\* add_to_list: a new node, linked behind the last one or as the first.
add_to_list(data) ==
  LET a == list.length + 1
      new == [data |-> data, next |-> NULL]
  IN /\ node' = IF list.first = NULL THEN node \o <<new>>
                ELSE [node EXCEPT ![list.last] = [data |-> @.data, next |-> a]] \o <<new>>
     /\ list' = [first |-> IF list.first = NULL THEN a ELSE list.first, last |-> a, length |-> a]
     /\ heap' = heap \cup {<<"node", a>>}

\* One turn of the loop of get_*_list: next_row, add_to_list, free(row).
list_row == /\ at = "rows" /\ HasRow
            /\ next_row /\ add_to_list(Row)
            /\ UNCHANGED <<at, result, ptr, got, failures>>

\* The rows are used up: destroy_query_data; send_* takes an iterator.
list_done == /\ at = "rows" /\ ~HasRow /\ at' = "iterate"
             /\ ptr' = list.first /\ heap' = destroy_query_data \cup {<<"iter">>}
             /\ UNCHANGED <<result, q, list, node, got, failures>>

iter_has_next == ptr # NULL

\* iter_get_next, called while iter_has_next.
iter_get_next == /\ at = "iterate" /\ iter_has_next
                 /\ got' = Append(got, node[ptr].data) /\ ptr' = node[ptr].next
                 /\ UNCHANGED <<at, result, q, list, node, heap, failures>>

\* send_* ends, after the last item or because the client is gone:
\* destroy_iterator.
send_ends == /\ at = "iterate" /\ at' = "destroy" /\ heap' = heap \ {<<"iter">>}
             /\ UNCHANGED <<result, q, list, node, ptr, got, failures>>

\* What has been freed is forgotten.
Forget == /\ result' = <<>> /\ q' = NoQuery /\ list' = NoList
          /\ node' = <<>> /\ ptr' = NULL /\ got' = <<>>

\* destroy_list frees node by node, then the header.
destroy_list ==
  /\ at = "destroy"
  /\ \/ /\ list.first # NULL
        /\ list' = [list EXCEPT !.first = node[list.first].next]
        /\ heap' = heap \ {<<"node", list.first>>}
        /\ UNCHANGED <<at, result, q, node, ptr, got, failures>>
     \/ /\ list.first = NULL
        /\ heap' = heap \ {<<"list">>} /\ at' = "idle" /\ Forget /\ UNCHANGED failures

-----------------------------------------------------------------------------
RowSteps == callback \/ do_query
ListSteps == list_row \/ list_done \/ iter_get_next \/ send_ends \/ destroy_list

Next == (\E rows \in Results : new_query(rows)) \/ RowSteps \/ ListSteps

Spec == Init /\ [][Next]_vars

-----------------------------------------------------------------------------
(* Properties.                                                             *)

\* "rows <= capacity en todo momento; data tiene reservado capacity" slots
\* (database.c:74), and each row SQLite delivered is in its slot: no row is
\* written past the vector, none is lost when it is doubled.
RowsStored == /\ q.cursor <= q.rows /\ q.rows <= q.capacity
              /\ DOMAIN q.data = 0..(q.capacity - 1)
              /\ \A i \in 0..(q.rows - 1) : q.data[i] = result[i + 1]

\* What send_* takes from the iterator is the query's rows, in SQLite's order,
\* and all that were delivered when the iterator is used up (get_*_list,
\* add_to_list, iter_get_next).
ListIsRows ==
  at = "iterate" => /\ got = SubSeq(result, 1, Len(got)) /\ Len(got) <= q.rows
                    /\ ~iter_has_next => Len(got) = q.rows

\* The messages of the queries that have failed.
Leaked == {<<"err_msg", i>> : i \in 1..failures}

\* A request for a list or a hall frees all that it allocated, wherever its query
\* fails or its client goes (destroy_query_data, destroy_iterator, destroy_list),
\* except the one message of each query that failed: do_query does not call the
\* sqlite3_free that sqlite3.h:362 asks for.
AllFreed == at = "idle" => heap = Leaked
=============================================================================
