-------------------------- MODULE QueryRowsProofs --------------------------
(***************************************************************************)
(* The vector of rows and the list made of it, for every INITIAL_CAPACITY  *)
(* and results of every length.                                            *)
(***************************************************************************)
EXTENDS QueryRows, TLAPS

USE CapacityAssumption, ResultsAssumption, FailuresAssumption

(***************************************************************************)
(* The vector.                                                             *)
(***************************************************************************)

\* QueryData while a query is being made and read; before and after there is
\* none.  rows stays below capacity, so that the slot it names exists.
VectorInv ==
  /\ result \in Seq(Rows)
  /\ q = [rows |-> q.rows, cursor |-> q.cursor, capacity |-> q.capacity, data |-> q.data]
  /\ q.rows \in Nat /\ q.cursor \in Nat /\ q.capacity \in Nat
  /\ q.rows <= Len(result)
  /\ q = NoQuery \/ q.rows < q.capacity
  /\ RowsStored
  /\ at = "exec" => q # NoQuery

\* new_query makes an empty vector.
LEMMA NewQueryVector ==
  ASSUME NEW rows \in Seq(Rows), new_query(rows) PROVE VectorInv'
BY DEF new_query, VectorInv, RowsStored, Empty, NoQuery

\* A callback writes into a slot of the vector, which it has doubled if it had
\* to, and keeps the other rows (callback, increase_capacity).
LEMMA CallbackVector ==
  ASSUME VectorInv, callback PROVE VectorInv'
<1> DEFINE full == q.rows >= q.capacity - 1
           c == IF full THEN 2 * q.capacity ELSE q.capacity
           data == IF full THEN increase_capacity(q.capacity, q.data) ELSE q.data
<1>1. /\ q.rows \in Nat /\ q.cursor \in Nat /\ q.rows < q.capacity
      /\ c \in Nat /\ q.rows + 1 < c
  BY DEF VectorInv, callback, NoQuery
<1>2. /\ DOMAIN data = 0..(c - 1)
      /\ \A i \in 0..(q.rows - 1) : data[i] = result[i + 1]
  BY <1>1 DEF VectorInv, increase_capacity, RowsStored
<1>3. q' = [rows |-> q.rows + 1, cursor |-> q.cursor, capacity |-> c,
            data |-> [data EXCEPT ![q.rows] = result[q.rows + 1]]]
  BY Zenon DEF callback
<1>4. /\ at' = at /\ result' = result /\ result \in Seq(Rows)
      /\ q.rows < Len(result) /\ q.cursor <= q.rows
  BY DEF VectorInv, RowsStored, callback
<1> HIDE DEF c, data, full
<1>5. DOMAIN q'.data = 0..(c - 1)
  BY <1>2, <1>3
<1>6. \A i \in 0..q.rows : q'.data[i] = result[i + 1]
  <2> TAKE i \in 0..q.rows
  <2>1. CASE i = q.rows
    BY <2>1, <1>1, <1>2, <1>3
  <2>2. CASE i # q.rows
    BY <2>2, <1>1, <1>2, <1>3
  <2> QED BY <2>1, <2>2
<1>7. RowsStored'
  BY <1>1, <1>3, <1>4, <1>5, <1>6 DEF RowsStored
<1> QED BY <1>1, <1>3, <1>4, <1>7 DEF NoQuery, VectorInv

\* Reading a row moves the cursor only.
LEMMA NextRowVector ==
  ASSUME VectorInv, HasRow, next_row, UNCHANGED <<at, result>> PROVE VectorInv'
BY DEF VectorInv, HasRow, next_row, RowsStored, NoQuery

\* A step that leaves the vector alone, or forgets it.
LEMMA OtherVector ==
  ASSUME VectorInv,
         \/ UNCHANGED <<result, q>> /\ (at' = "exec" => at = "exec")
         \/ Forget /\ at' = "idle"
  PROVE  VectorInv'
<1>1. CASE UNCHANGED <<result, q>> /\ (at' = "exec" => at = "exec")
  BY <1>1 DEF VectorInv, RowsStored
<1>2. CASE Forget /\ at' = "idle"
  BY <1>2 DEF Forget, VectorInv, RowsStored, NoQuery
<1> QED BY <1>1, <1>2

\* The vector holds what SQLite delivered after every step.
LEMMA NextVector == VectorInv /\ [Next]_vars => VectorInv'
<1> SUFFICES ASSUME VectorInv, [Next]_vars PROVE VectorInv'
  OBVIOUS
<1>1. ASSUME NEW rows \in Results, new_query(rows) PROVE VectorInv'
  BY <1>1, NewQueryVector
<1>2. CASE callback
  BY <1>2, CallbackVector
<1>3. CASE list_row
  BY <1>3, NextRowVector DEF list_row
<1>4. CASE do_query \/ list_done \/ iter_get_next \/ send_ends \/ destroy_list \/ UNCHANGED vars
  BY <1>4, OtherVector DEF do_query, list_done, iter_get_next, send_ends, destroy_list, vars
<1> QED BY <1>1, <1>2, <1>3, <1>4 DEF Next, RowSteps, ListSteps

\* At the start there is no vector.
LEMMA InitVector == Init => VectorInv
BY DEF Init, VectorInv, RowsStored, NoQuery

\* No row is written past the vector or lost when it grows, for any
\* INITIAL_CAPACITY and however many rows a query has (callback).
THEOREM RowsAlwaysStored == Spec => []RowsStored
<1>1. VectorInv => RowsStored
  BY DEF VectorInv
<1> QED BY <1>1, InitVector, NextVector, PTL DEF Spec

(***************************************************************************)
(* The list.                                                               *)
(***************************************************************************)

\* The nodes are chained in the order of their addresses, from first to last,
\* and hold the rows that next_row has given so far.
Chain ==
  /\ node \in Seq([data : Rows, next : Nat])
  /\ list = [first |-> IF Len(node) = 0 THEN NULL ELSE 1, last |-> Len(node), length |-> Len(node)]
  /\ Len(node) = q.cursor
  /\ \A i \in 1..Len(node) : /\ node[i].data = result[i]
                             /\ node[i].next = IF i = Len(node) THEN NULL ELSE i + 1

\* The iterator is at the node behind those whose data it has given.
Iterated ==
  /\ q.cursor = q.rows
  /\ got \in Seq(Rows) /\ Len(got) <= q.rows
  /\ \A i \in 1..Len(got) : got[i] = result[i]
  /\ ptr = IF Len(got) = q.rows THEN NULL ELSE Len(got) + 1

ListInv == /\ VectorInv
           /\ at = "exec" => q.cursor = 0
           /\ at = "rows" => Chain /\ got = <<>>
           /\ at = "iterate" => Chain /\ Iterated

\* A new list is an empty chain.
LEMMA NewList == ASSUME ListInv, do_query PROVE ListInv'
<1>1. VectorInv'
  BY OtherVector DEF do_query, ListInv
<1>2. Chain'
  BY DEF do_query, ListInv, Chain, NoList, NULL
<1> QED BY <1>1, <1>2 DEF do_query, ListInv

\* Updating one element of a sequence.
LEMMA SeqUpdate ==
  ASSUME NEW S, NEW s \in Seq(S), NEW k \in 1..Len(s), NEW v \in S
  PROVE  /\ [s EXCEPT ![k] = v] \in Seq(S) /\ Len([s EXCEPT ![k] = v]) = Len(s)
         /\ \A i \in 1..Len(s) : [s EXCEPT ![k] = v][i] = IF i = k THEN v ELSE s[i]
OBVIOUS

\* Putting one element behind a sequence.
LEMMA SeqPut ==
  ASSUME NEW S, NEW s \in Seq(S), NEW v \in S
  PROVE  /\ s \o <<v>> \in Seq(S) /\ Len(s \o <<v>>) = Len(s) + 1
         /\ (s \o <<v>>)[Len(s) + 1] = v
         /\ \A i \in 1..Len(s) : (s \o <<v>>)[i] = s[i]
OBVIOUS

\* add_to_list puts the row behind the last one.
LEMMA AddToList == ASSUME ListInv, list_row PROVE ListInv'
<1>1. VectorInv'
  BY NextRowVector DEF list_row, ListInv
<1>2. Chain'
  <2> DEFINE Node == [data : Rows, next : Nat]
             n == Len(node)
             new == [data |-> Row, next |-> NULL]
             link == [data |-> node[n].data, next |-> n + 1]
             linked == [node EXCEPT ![n] = link]
  <2>1. /\ Chain /\ n \in Nat /\ n = q.cursor /\ n < q.rows /\ node \in Seq(Node)
        /\ Row = result[n + 1] /\ Row \in Rows /\ result' = result /\ q'.cursor = n + 1
        /\ \A i \in 1..n : result[i] \in Rows
    BY DEF ListInv, list_row, HasRow, Row, Chain, VectorInv, RowsStored, next_row
  <2>2. /\ node' = IF n = 0 THEN node \o <<new>> ELSE linked \o <<new>>
        /\ list' = [first |-> 1, last |-> n + 1, length |-> n + 1]
    BY <2>1 DEF list_row, add_to_list, Chain, NULL
  <2>3. new \in Node /\ new.data = result[n + 1] /\ new.next = NULL
    BY <2>1 DEF NULL
  <2>4. \A i \in 1..n : node[i].data = result[i] /\ (i # n => node[i].next = i + 1)
    BY <2>1 DEF Chain
  <2>5. n # 0 => link \in Node /\ link.data = result[n] /\ link.next = n + 1
    BY <2>1, <2>4
  <2> HIDE DEF Node, new, link
  <2>6. n # 0 => /\ linked \in Seq(Node) /\ Len(linked) = n
                 /\ \A i \in 1..n : linked[i] = IF i = n THEN link ELSE node[i]
    BY <2>1, <2>5, SeqUpdate
  <2> HIDE DEF linked
  <2>7. PICK s \in Seq(Node) : /\ Len(s) = n /\ node' = s \o <<new>>
                               /\ \A i \in 1..n : s[i] = IF i = n THEN link ELSE node[i]
    <3>1. CASE n = 0
      <4>1. node' = node \o <<new>> /\ 1..n = {}
        BY <3>1, <2>2
      <4> QED BY <4>1, <2>1, Zenon
    <3>2. CASE n # 0
      BY <3>2, <2>2, <2>6, Zenon
    <3> QED BY <3>1, <3>2
  <2> HIDE DEF n
  <2>8. /\ node' \in Seq(Node) /\ Len(node') = n + 1 /\ node'[n + 1] = new
        /\ \A i \in 1..n : node'[i] = IF i = n THEN link ELSE node[i]
    BY <2>3, <2>7, SeqPut
  <2>9. ASSUME NEW i \in 1..(n + 1)
        PROVE  node'[i].data = result[i] /\ node'[i].next = IF i = n + 1 THEN NULL ELSE i + 1
    <3>1. CASE i = n + 1
      BY <3>1, <2>3, <2>8
    <3>2. CASE i = n
      <4>1. i \in 1..n /\ n # 0 /\ i # n + 1
        BY <3>2, <2>1
      <4>2. node'[i] = link
        BY <3>2, <4>1, <2>8, Zenon
      <4> QED BY <3>2, <4>1, <4>2, <2>5, Zenon
    <3>3. CASE i \in 1..(n - 1)
      <4>1. i \in 1..n /\ i # n /\ i # n + 1
        BY <3>3, <2>1
      <4>2. node'[i] = node[i]
        BY <4>1, <2>8, Zenon
      <4> QED BY <4>1, <4>2, <2>4, Zenon
    <3> QED BY <3>1, <3>2, <3>3, <2>1
  <2>10. list' = [first |-> IF Len(node') = 0 THEN NULL ELSE 1, last |-> Len(node'), length |-> Len(node')]
    BY <2>1, <2>2, <2>8
  <2>11. \A i \in 1..Len(node') : /\ node'[i].data = result'[i]
                                 /\ node'[i].next = IF i = Len(node') THEN NULL ELSE i + 1
    BY <2>1, <2>8, <2>9, Zenon
  <2> QED BY <2>1, <2>8, <2>10, <2>11, Zenon DEF Chain, Node, NULL
<1> QED BY <1>1, <1>2 DEF list_row, ListInv

\* The iterator starts at the first node.
LEMMA StartIterator == ASSUME ListInv, list_done PROVE ListInv'
<1>1. VectorInv'
  BY OtherVector DEF list_done, ListInv
<1>2. Chain' /\ Iterated'
  BY DEF list_done, ListInv, Chain, Iterated, HasRow, VectorInv, RowsStored, NULL
<1> QED BY <1>1, <1>2 DEF list_done, ListInv

\* iter_get_next gives the next row of the query.
LEMMA GetNext == ASSUME ListInv, iter_get_next PROVE ListInv'
<1>1. VectorInv'
  BY OtherVector DEF iter_get_next, ListInv
<1>2. Chain'
  BY DEF iter_get_next, ListInv, Chain
<1>3. Iterated'
  <2>1. /\ Len(got) \in Nat /\ Len(got) < q.rows /\ ptr = Len(got) + 1 /\ got \in Seq(Rows)
        /\ Len(node) = q.rows /\ q.rows \in Nat /\ q.rows <= Len(result) /\ result \in Seq(Rows)
    BY DEF iter_get_next, iter_has_next, ListInv, Iterated, Chain, VectorInv, NULL
  <2>2. node[ptr].data = result[ptr] /\ node[ptr].next = IF ptr = q.rows THEN NULL ELSE ptr + 1
    <3>1. ptr \in 1..Len(node) /\ Chain
      BY <2>1 DEF iter_get_next, ListInv
    <3> QED BY <3>1, <2>1, Zenon DEF Chain
  <2>3. got' = Append(got, result[ptr]) /\ ptr' = IF ptr = q.rows THEN NULL ELSE ptr + 1
    BY <2>2 DEF iter_get_next
  <2>4. /\ got' \in Seq(Rows) /\ Len(got') = Len(got) + 1
        /\ \A i \in 1..Len(got') : got'[i] = result[i]
    BY <2>1, <2>3 DEF iter_get_next, ListInv, Iterated
  <2> QED BY <2>1, <2>3, <2>4 DEF iter_get_next, ListInv, Iterated, NULL
<1> QED BY <1>1, <1>2, <1>3 DEF iter_get_next, ListInv

\* The list and its iterator follow the query's rows after every step.
LEMMA NextList == ListInv /\ [Next]_vars => ListInv'
<1> SUFFICES ASSUME ListInv, [Next]_vars PROVE ListInv'
  OBVIOUS
<1>1. VectorInv'
  BY NextVector DEF ListInv
<1>2. ASSUME NEW rows \in Results, new_query(rows) PROVE ListInv'
  BY <1>1, <1>2 DEF new_query, ListInv
<1>3. CASE callback
  BY <1>1, <1>3, Zenon DEF callback, ListInv
<1>4. CASE send_ends \/ destroy_list
  BY <1>1, <1>4 DEF send_ends, destroy_list, ListInv
<1>5. CASE UNCHANGED vars
  BY <1>1, <1>5 DEF vars, ListInv, Chain, Iterated
<1> QED BY <1>2, <1>3, <1>4, <1>5, NewList, AddToList, StartIterator, GetNext
        DEF Next, RowSteps, ListSteps

\* ListInv says of the iterator what ListIsRows does.
LEMMA ListInvRows == ListInv => ListIsRows
<1> SUFFICES ASSUME ListInv, at = "iterate"
             PROVE  /\ got = SubSeq(result, 1, Len(got)) /\ Len(got) <= q.rows
                    /\ ~iter_has_next => Len(got) = q.rows
  BY DEF ListIsRows
<1>1. /\ got \in Seq(Rows) /\ result \in Seq(Rows) /\ Len(got) <= Len(result)
      /\ \A i \in 1..Len(got) : got[i] = result[i]
  BY DEF ListInv, Iterated, VectorInv
<1>2. got = SubSeq(result, 1, Len(got))
  BY <1>1
<1> QED BY <1>2 DEF ListInv, Iterated, VectorInv, iter_has_next, NULL

\* What the iterator gives is a beginning of the query's rows, and all of them
\* at its end, however long the list is (get_*_list, add_to_list,
\* iter_get_next).
THEOREM ListAlwaysRows == Spec => []ListIsRows
<1>1. Init => ListInv
  BY InitVector DEF Init, ListInv
<1> QED BY <1>1, ListInvRows, NextList, PTL DEF Spec

(***************************************************************************)
(* What is allocated.                                                      *)
(***************************************************************************)

\* The rows of a vector, the nodes of a list.
RowCells(n) == {<<"row", i>> : i \in 0..(n - 1)}
NodeCells(a, b) == {<<"node", i>> : i \in a..b}

\* destroy_list is at a node of the chain, or behind its last one, and what is
\* allocated is what it has not reached.
Freeing ==
  /\ list = [first |-> list.first, last |-> list.last, length |-> list.length]
  /\ list.first \in 0..Len(node) /\ Len(node) \in Nat
  /\ \A i \in 1..Len(node) : node[i].next = IF i = Len(node) THEN NULL ELSE i + 1
  /\ heap = Leaked \cup {<<"list">>}
            \cup IF list.first = NULL THEN {} ELSE NodeCells(list.first, Len(node))

\* At each step of a query for a list, exactly what that step still needs, and
\* the messages of the queries that failed.
Allocated ==
  /\ failures \in Nat
  /\ at = "idle" => heap = Leaked
  /\ at = "exec" => heap = Leaked \cup {<<"data">>} \cup RowCells(q.rows)
  /\ at = "rows" => heap = Leaked \cup {<<"data">>, <<"list">>} \cup RowCells(q.rows)
                            \cup NodeCells(1, Len(node))
  /\ at = "iterate" => heap = Leaked \cup {<<"list">>, <<"iter">>} \cup NodeCells(1, Len(node))
  /\ at = "destroy" => Freeing

\* A query that does not fail leaves no message; one that fails leaves one more.
LEMMA LeakedSame == ASSUME failures' = failures PROVE Leaked' = Leaked
BY DEF Leaked

LEMMA LeakedMore ==
  ASSUME failures \in Nat, failures' = failures + 1
  PROVE  Leaked' = Leaked \cup {<<"err_msg", failures + 1>>}
<1>1. 1..(failures + 1) = 1..failures \cup {failures + 1}
  OBVIOUS
<1> QED BY <1>1 DEF Leaked

\* What exec_returns does to the heap: the caller's cell, and the messages.
LEMMA ExecHeap ==
  ASSUME failures \in Nat, NEW cell, NEW held, heap = Leaked \cup held, exec_returns(cell)
  PROVE  heap' = Leaked' \cup held \cup {cell} /\ failures' \in Nat
BY LeakedSame, LeakedMore DEF exec_returns

\* One row more, one node more.
LEMMA OneCellMore ==
  ASSUME NEW n \in Nat
  PROVE  /\ RowCells(n + 1) = RowCells(n) \cup {<<"row", n>>}
         /\ NodeCells(1, n + 1) = NodeCells(1, n) \cup {<<"node", n + 1>>}
<1>1. 0..((n + 1) - 1) = 0..(n - 1) \cup {n} /\ 1..(n + 1) = 1..n \cup {n + 1}
  OBVIOUS
<1> QED BY <1>1 DEF RowCells, NodeCells

\* One node less.
LEMMA OneCellLess ==
  ASSUME NEW n \in Nat, NEW a \in 1..n
  PROVE  NodeCells(a, n) \ {<<"node", a>>} = IF a = n THEN {} ELSE NodeCells(a + 1, n)
<1>1. \A i \in a..n : i = a \/ i \in (a + 1)..n
  OBVIOUS
<1>2. \A i \in (a + 1)..n : i \in a..n /\ i # a
  OBVIOUS
<1>3. \A i, j : <<"node", i>> = <<"node", j>> => i = j
  OBVIOUS
<1>4. a = n => (a + 1)..n = {}
  OBVIOUS
<1> QED BY <1>1, <1>2, <1>3, <1>4 DEF NodeCells

\* The cells of a query, of a list and of its nodes are different.
LEMMA CellsApart ==
  ASSUME NEW n, NEW a, NEW b
  PROVE  /\ <<"data">> \notin RowCells(n) \cup NodeCells(a, b)
         /\ <<"list">> \notin RowCells(n) \cup NodeCells(a, b)
         /\ <<"iter">> \notin RowCells(n) \cup NodeCells(a, b)
         /\ <<"seats">> \notin RowCells(n) \cup NodeCells(a, b)
         /\ RowCells(n) \cap NodeCells(a, b) = {}
         /\ <<"data">> # <<"list">> /\ <<"data">> # <<"iter">> /\ <<"list">> # <<"iter">>
         /\ <<"data">> # <<"seats">>
<1>1. \A i : Len(<<"row", i>>) = 2 /\ Len(<<"node", i>>) = 2
  OBVIOUS
<1>2. /\ Len(<<"data">>) = 1 /\ Len(<<"list">>) = 1 /\ Len(<<"iter">>) = 1
      /\ Len(<<"seats">>) = 1
  OBVIOUS
<1>3. \A i, j : <<"row", i>> # <<"node", j>>
  OBVIOUS
<1> QED BY <1>1, <1>2, <1>3 DEF RowCells, NodeCells

\* No message is one of them.
LEMMA LeakedApart ==
  ASSUME NEW n, NEW a, NEW b
  PROVE  /\ Leaked \cap (RowCells(n) \cup NodeCells(a, b)) = {}
         /\ Leaked \cap {<<"data">>, <<"list">>, <<"iter">>, <<"seats">>} = {}
         /\ \A i : <<"node", i>> \notin Leaked
<1>1. \A i : Len(<<"err_msg", i>>) = 2
  OBVIOUS
<1>2. /\ Len(<<"data">>) = 1 /\ Len(<<"list">>) = 1 /\ Len(<<"iter">>) = 1
      /\ Len(<<"seats">>) = 1
  OBVIOUS
<1>3. \A i, j : <<"row", i>> # <<"err_msg", j>> /\ <<"node", i>> # <<"err_msg", j>>
  OBVIOUS
<1> QED BY <1>1, <1>2, <1>3 DEF RowCells, NodeCells, Leaked

\* new_query, callback and do_query.
LEMMA RowsAllocated ==
  ASSUME ListInv, Allocated, (\E rows : new_query(rows)) \/ callback \/ do_query
  PROVE  Allocated'
<1>0. failures \in Nat
  BY DEF Allocated
<1>1. CASE \E rows : new_query(rows)
  <2>1. /\ at = "idle" /\ at' = "exec" /\ heap' = heap \cup {<<"data">>} /\ q'.rows = 0
        /\ failures' = failures
    BY <1>1 DEF new_query
  <2>2. RowCells(0) = {}
    BY DEF RowCells
  <2>3. heap' = Leaked' \cup {<<"data">>} \cup RowCells(0)
    BY <2>1, <2>2, LeakedSame DEF Allocated
  <2> QED BY <1>0, <2>1, <2>3 DEF Allocated, RowCells
<1>2. CASE callback
  <2>1. /\ at = "exec" /\ at' = "exec" /\ q'.rows = q.rows + 1
        /\ heap' = heap \cup {<<"row", q.rows>>} /\ failures' = failures
    BY <1>2, Zenon DEF callback
  <2>2. q.rows \in Nat
    BY DEF ListInv, VectorInv
  <2>3. heap' = Leaked' \cup {<<"data">>} \cup RowCells(q.rows + 1)
    BY <2>1, <2>2, OneCellMore, LeakedSame DEF Allocated
  <2> QED BY <1>0, <2>1, <2>3 DEF Allocated, RowCells
<1>3. CASE do_query
  <2>1. /\ at = "exec" /\ at' = "rows" /\ node' = <<>> /\ q' = q
        /\ exec_returns(<<"list">>)
    BY <1>3 DEF do_query
  <2>2. NodeCells(1, 0) = {} /\ Len(<<>>) = 0
    BY DEF NodeCells
  <2> DEFINE held == {<<"data">>} \cup RowCells(q.rows)
  <2>3. heap = Leaked \cup held
    BY <2>1 DEF Allocated
  <2> HIDE DEF held
  <2>4. heap' = Leaked' \cup held \cup {<<"list">>} /\ failures' \in Nat
    BY <1>0, <2>1, <2>3, ExecHeap
  <2>5. heap' = Leaked' \cup {<<"data">>, <<"list">>} \cup RowCells(q.rows)
                  \cup NodeCells(1, Len(node'))
    BY <2>1, <2>2, <2>4 DEF held
  <2> QED BY <2>1, <2>4, <2>5 DEF Allocated, RowCells, NodeCells
<1> QED BY <1>1, <1>2, <1>3

\* The loop of get_*_list, and the iterator.
LEMMA ListAllocated ==
  ASSUME ListInv, Allocated, list_row \/ list_done \/ iter_get_next
  PROVE  Allocated'
<1>0. failures \in Nat /\ failures' = failures /\ Leaked' = Leaked
  BY LeakedSame DEF Allocated, list_row, list_done, iter_get_next
<1>1. CASE list_row
  <2>1. at = "rows" /\ at' = "rows" /\ Chain /\ Chain'
    BY <1>1, AddToList DEF list_row, ListInv
  <2>2. q'.rows = q.rows /\ q'.cursor = q.cursor + 1
    BY <1>1 DEF list_row, next_row, ListInv, VectorInv
  <2>3. /\ Len(node) = q.cursor /\ Len(node') = q'.cursor /\ list.length = Len(node)
        /\ q.cursor \in Nat
    BY <2>1 DEF Chain, ListInv, VectorInv
  <2>4. heap' = heap \cup {<<"node", Len(node) + 1>>}
    BY <1>1, <2>3 DEF list_row, add_to_list
  <2>5. heap' = Leaked \cup {<<"data">>, <<"list">>} \cup RowCells(q.rows)
                  \cup NodeCells(1, Len(node) + 1)
    BY <2>1, <2>3, <2>4, OneCellMore DEF Allocated
  <2>6. Len(node') = Len(node) + 1
    BY <2>2, <2>3
  <2> QED BY <1>0, <2>1, <2>2, <2>5, <2>6 DEF Allocated, RowCells, NodeCells
<1>2. CASE list_done
  <2>1. /\ at = "rows" /\ at' = "iterate" /\ node' = node
        /\ heap' = (heap \ ({<<"data">>} \cup RowCells(q.rows))) \cup {<<"iter">>}
    BY <1>2 DEF list_done, destroy_query_data, RowCells
  <2>2. heap' = Leaked \cup {<<"list">>, <<"iter">>} \cup NodeCells(1, Len(node))
    BY <2>1, CellsApart, LeakedApart DEF Allocated
  <2> QED BY <1>0, <2>1, <2>2 DEF Allocated, NodeCells
<1>3. CASE iter_get_next
  BY <1>0, <1>3 DEF iter_get_next, Allocated, NodeCells
<1> QED BY <1>1, <1>2, <1>3

\* The end of send_*, and destroy_list.
LEMMA ListFreed ==
  ASSUME ListInv, Allocated, send_ends \/ destroy_list
  PROVE  Allocated'
<1>0. failures \in Nat /\ failures' = failures /\ Leaked' = Leaked
  BY LeakedSame DEF Allocated, send_ends, destroy_list
<1>1. CASE send_ends
  <2>1. /\ at = "iterate" /\ at' = "destroy" /\ heap' = heap \ {<<"iter">>}
        /\ UNCHANGED <<list, node>> /\ Chain
    BY <1>1 DEF send_ends, ListInv
  <2>2. heap' = Leaked \cup {<<"list">>} \cup NodeCells(1, Len(node))
    BY <2>1, CellsApart, LeakedApart DEF Allocated
  <2>3. Len(node) \in Nat /\ list.first = IF Len(node) = 0 THEN NULL ELSE 1
    BY <2>1 DEF Chain
  <2>4. Len(node) = 0 => NodeCells(1, Len(node)) = {}
    BY DEF NodeCells
  <2>5. heap' = Leaked \cup {<<"list">>} \cup IF list.first = NULL THEN {} ELSE NodeCells(list.first, Len(node))
    BY <2>2, <2>3, <2>4 DEF NULL
  <2>6. /\ list = [first |-> list.first, last |-> list.last, length |-> list.length]
        /\ list.first \in 0..Len(node)
        /\ \A i \in 1..Len(node) : node[i].next = IF i = Len(node) THEN NULL ELSE i + 1
    BY <2>1, <2>3 DEF Chain, NULL
  <2>7. Freeing'
    BY <1>0, <2>1, <2>3, <2>5, <2>6 DEF Freeing, NodeCells
  <2> QED BY <1>0, <2>1, <2>7 DEF Allocated
<1>2. CASE destroy_list /\ list.first # NULL
  <2> DEFINE a == list.first
             next == IF a = Len(node) THEN NULL ELSE a + 1
  <2>1. /\ at = "destroy" /\ at' = "destroy" /\ heap' = heap \ {<<"node", a>>} /\ node' = node
        /\ list' = [list EXCEPT !.first = node[a].next]
    BY <1>2 DEF destroy_list
  <2>2. Freeing
    BY <2>1 DEF Allocated
  <2>3. Len(node) \in Nat /\ a \in 1..Len(node) /\ node[a].next = next
    BY <1>2, <2>2 DEF Freeing, NULL
  <2>4. list' = [first |-> next, last |-> list.last, length |-> list.length]
    BY <2>1, <2>2, <2>3 DEF Freeing
  <2>5. heap' = Leaked \cup {<<"list">>} \cup (NodeCells(a, Len(node)) \ {<<"node", a>>})
    <3>1. <<"node", a>> # <<"list">> /\ <<"node", a>> \notin Leaked
      BY LeakedApart
    <3> QED BY <1>2, <2>1, <2>2, <3>1 DEF Freeing
  <2>6. heap' = Leaked \cup {<<"list">>} \cup IF next = NULL THEN {} ELSE NodeCells(next, Len(node))
    BY <2>3, <2>5, OneCellLess DEF NULL
  <2>7. next \in 0..Len(node)
    BY <2>3 DEF NULL
  <2> HIDE DEF next
  <2>8. list'.first = next /\ list'.last = list.last /\ list'.length = list.length
    BY <2>4
  <2>9. Freeing'
    BY <1>0, <2>1, <2>2, <2>4, <2>6, <2>7, <2>8 DEF Freeing, NodeCells
  <2> QED BY <1>0, <2>1, <2>9 DEF Allocated
<1>3. CASE destroy_list /\ list.first = NULL
  <2>1. at = "destroy" /\ at' = "idle" /\ heap' = heap \ {<<"list">>}
    BY <1>3 DEF destroy_list
  <2>2. heap = Leaked \cup {<<"list">>}
    BY <1>3, <2>1 DEF Allocated, Freeing
  <2>3. heap' = Leaked
    BY <2>1, <2>2, LeakedApart
  <2> QED BY <1>0, <2>1, <2>3 DEF Allocated
<1> QED BY <1>1, <1>2, <1>3

\* When a request for a list has been answered nothing is left allocated but the
\* message of each query that failed, wherever it failed or the client went and
\* however many rows it had (destroy_query_data, destroy_iterator, destroy_list,
\* do_query).
THEOREM ListsAreFreed == Spec => []AllFreed
<1>1. Init => ListInv /\ Allocated
  BY InitVector DEF Init, ListInv, Allocated, Leaked
<1>2. ListInv /\ Allocated /\ [Next]_vars => Allocated'
  <2> SUFFICES ASSUME ListInv, Allocated, [Next]_vars PROVE Allocated'
    OBVIOUS
  <2>1. CASE UNCHANGED vars
    BY <2>1 DEF vars, Allocated, Freeing, RowCells, NodeCells, Leaked
  <2> QED BY <2>1, RowsAllocated, ListAllocated, ListFreed DEF Next, RowSteps, ListSteps
<1>3. Allocated => AllFreed
  BY DEF Allocated, AllFreed
<1> QED BY <1>1, <1>2, <1>3, NextList, PTL DEF Spec
=============================================================================
