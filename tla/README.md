# A TLA+ verification of ipcinema

ipcinema is a ticket office in C: client programs talk over TCP to a server that
runs one thread per connection and keeps movies, screenings and reservations in
SQLite. This project models its concurrency, its protocol and its database
statements, model-checks them with TLC, and proves the main safety properties
with TLAPS.

## 1. Inventory

| Part | Sources | State | Operations |
|---|---|---|---|
| readers-writers lock | `synchronization.c` | mutexes `w_mtx`, `r_mtx`, `g_mtx`, semaphores `shortwait`, `longwait`, counters `writers`, `readcount` | `synchro_init`, `enter_critical`, `leave_critical` |
| request handling | `server.c` | the threads, the global `database` | `thread_work`, `process_request`, one handler per request, `assert_existence`, `do_stmnt_and_ack` |
| database | `database.c`, `includes/queries.h` | `cine.db`: `Pelicula`, `Proyeccion`, `Reserva`, `Canceladas`; the rows of a query (`QueryData`) | `db_init`, `do_query`, `execute_statements`, the statements and queries |
| request packets | `server_marshalling.c`, `request_builder.c`, `includes/protocol.h` | a 512-byte packet | `wait_request`, the `req_*` builders, `client_send_ok`, `client_send_error` |
| list transfer | `server_marshalling.c`, `client_marshalling.c` | the packet buffer at each end, the list and its iterator | `send_movies`, `send_screenings`, `send_tickets` against `get_movies`, `get_screenings`, `get_tickets` |
| client requests | `client_marshalling.c`, `client.c` | the connection, one packet buffer | `add_movie`, `make_reservation`, ..., `wait_ack`, `client_send`, `client_rcv` |
| user interface | `ui.c` | the lists last received, what the user chose | `startClient`, `startAdministrator` and their options, the dialogue `showSeats` |
| lists | `utilities.c` | linked list, iterator | `new_list`, `add_to_list`, `get_from_list`, `iter_get_next`, `destroy_list` |
| sockets | `sockets.c` | TCP connections | `send_message`, `receive_message` |
| logging | `server_logging.c`, `logger.c` | a System V message queue, a child process | `set_log`, `srv_log`, the logger's `main` and `signal_handler` |
| lock exerciser | `syncrotest/` | a copy of the lock with `printf` | stress test |

**How the parts interact.** A client's menu option is a sequence of requests:
each one is sent, answered, and its answer shown to the user, who chooses what
the next request is about. The server's thread for the connection reads a packet,
builds a request, enters the critical zone as reader or writer according to the
type of the request (`get_synchro_type`), runs the checks and statements of the
handler, sends the answer *inside* the critical zone, and leaves. All threads
share the database and the lock. A list is sent item by item, each one on the
client's `NEXT`, while the lock is held. Every thread logs, inside and outside
the critical zone, by sending to a message queue that a child process of the
server reads and is to remove when the server goes.

**What is hard in it.**

* The lock is a hand-made writer-preference algorithm with two semaphores, three
  mutexes and two counters; `g_mtx` is unlocked by a different thread than the
  one that locked it.
* Handlers check with one SQL statement and act with another; a cancellation is
  two statements without a transaction. Only the lock and the order of the
  statements keep the tables right, and the server may die or a statement may
  fail between any two of them.
* Everything the user chooses from is stale by the time it is sent.
* Neither `send` nor `receive` results are looked at on the server; a client may
  die in the middle of a list the server is sending under the lock.
* Nothing has a timeout.
* The logger is told of its server's death by a signal that it has to ask for, and
  that may come while it is still starting; the queue has a fixed key, so servers
  that overlap share it.
* A packet is 512 bytes of a stream, read with a single `read`.
* A seat is a row and a column, an index, a `char`, a row of a query, an index into
  a map, a byte of a packet, and a row and a column again.

The hazards, with their lines and the properties that would catch them, are in
`PROJECT.json`.

**What makes each part correct.** The lock: exclusion, no blocking while holding
the queues of the others, matched releases, no deadlock, and the priority of
writers. The database: its references and keys hold in every state it can be
found in. Request handling: no ticket is lost or invented, errors say the true
reason, a list is the database's while it is sent, every request is answered. The
transfer: all or nothing, in order, and it ends. The rows of a query: none lost,
none past the vector, all freed but the messages of failed queries. A purchase: the seat that was typed, shown free,
inside the hall. Logging: each message in one place, nobody stuck in `msgsnd`, no
queue and no logger left behind, as far as the logger is not killed.

## 2. Modules

| Module | Models |
|---|---|
| `ReadWriteLock` | what the lock promises: a set of readers, a set of at most one writer |
| `Synchronization` | `synchronization.c`, one action per mutex, semaphore or counter operation |
| `SynchronizationProofs` | its theorems |
| `CinemaDB` | the schema, and every statement and query as an operator on a database value |
| `CinemaServer` | clients, server threads, database, failures and restarts; the lock is `Lock == INSTANCE ReadWriteLock` |
| `CinemaServerProofs` | the database stays sound; what a handler reads under the lock stays true |
| `CinemaTicketsProofs` | extends it: the accounts of the tickets |
| `CinemaSessionsProofs` | extends that: the conversation of a client with its thread, and types |
| `ListAnswer` | what a list transfer promises: the whole list or nothing |
| `Transfer` | `send_*` against `get_*`, packet by packet |
| `TransferProofs` | its theorems |
| `QueryRows` | `QueryData`, the linked list and its iterator, and the loops between them |
| `QueryRowsProofs` | its theorems |
| `Hall` | extends `QueryRows`: the map of a hall from the query to the screen, and the seat from the keyboard to the table |
| `HallProofs` | its theorems |
| `Logging` | `server_logging.c` and `logger.c`: servers, their loggers, the message queue, signals |
| `LoggingProofs` | its theorems |
| `Framing` | packets as parts of a TCP stream |
| `MCCinemaServer`, `MCTransfer`, `MCHall` | instances for TLC |

The composition is by layers. `Synchronization` implements `ReadWriteLock`
(property `Implements`, checked and proved), so `CinemaServer` uses the abstract
lock. `Transfer` implements `ListAnswer` (property `AllOrNothing`, checked and proved), so
`CinemaServer` lets a list travel as one answer. `QueryRows` and `Hall` look
inside one query of one thread, where `CinemaServer` has a set of rows and a user's
choice; `Logging` looks at the processes around the server. `Framing` shows what
the packets that `Transfer` and `CinemaServer` take as whole rest on: a `read` that
returns all of a packet, as it does in practice for 512 bytes on one machine.

### Synchronization

`pc[t]` is the next operation of thread `t`: `ew_*` are the operations of
`enter_writer`, `lw_*` of `leave_writer`, `er_*` of `enter_reader`, `lr_*` of
`leave_reader`; `w_crit` and `r_crit` are the critical zone. The counters are
changed while their mutex is held, so the increment and the test that follows are
one action. The mutexes have no owner: the last reader releases `g_mtx` for the
first. POSIX leaves that undefined for a default mutex; glibc, which the build
uses, performs a plain release, and that is what is modelled.

### CinemaDB and CinemaServer

A database is a record of the four tables and the `AUTOINCREMENT` counter of
`Proyeccion`. A row of `Proyeccion` has its id, its movie and a `turno`, which
stands for the hall together with the time slot (`UNIQUE (dia, mes, slot, sala)`).
A statement returns the new database and SQLite's result code. `Cascade` is the
`ON DELETE CASCADE` of the foreign keys (which the session switches on).
`STMNT_CANCEL_AND_DELETE` is two statements, `CANCEL_INSERT` and `CANCEL_DELETE`.
A row of `Canceladas` gets a number of its own, because that table has no key and
keeps repeated rows apart.

A *session* is one connection. `client[s]` is the program at one end: the menu
option it is in, the name logged in, the packet it waits an answer for, and the
screening the user chose. `thread[s]` is the server's thread: where it is, its
request and its answer. `c2s` and `s2c` hold the packet on its way.

| Actions | Code |
|---|---|
| `new_client` | `wait_client`, `new_thread`; without a thread the session is `unserved` |
| `choose_option`, `client_exit`, `connection_closed` | `client.c`, the menus of `ui.c`, `client_send`/`client_rcv` |
| `got_movies`, `got_screenings`, `got_hall`, `got_tickets`, `wait_ack` | an answer arrives, the user chooses, the next packet is sent |
| `wait_request` | `wait_request` with the builder of the request, an error of `receive`, or the end of the connection |
| `enter_critical`, `leave_critical` | `process_request`, with `get_synchro_type` |
| `assert_existence` | the check of a handler and its early return |
| `execute_statements`, `cancel_delete`, `statement_fails` | `do_stmnt_and_ack` and `execute_statements` |
| `do_query` | the query of a list handler, with the rows that came before an error |
| `reply` | `client_send_ok`, `client_send_error`, `send_*` |
| `server_dies`, `server_starts` | the process ends anywhere; `main` and `db_init` on the `cine.db` left behind |
| `log_stalls`, `log_moves` | the `msgsnd` of `srv_log` starts or ceases to wait for ever |

`sold` and `torn` are history variables: the bag of reservations that were
committed, and the bag of tickets whose cancellation was broken off between its
INSERT and its DELETE, by an error of the DELETE or the death of the server.

`stuck` is what `Logging` can do to the server: the queue is full and nobody reads
it. Every step before which or in which the code calls `srv_log` then waits: `main`
does not accept, and a thread does not close its connection, does not enter the
critical zone, and inside it does not get past a query or an `sqlite3_exec`, with the
lock in its hands.

What is abstracted: a list is the set of its rows (order and repetition are only
displayed); names are values that SQL quotes as they are; the user's thinking time
is the time the answer stays in `s2c`; layout and wording are left out. A packet
arrives whole (`Framing` has the others), so its code is one `wait_request` knows, and
its strings, whose lengths `client_marshalling.h` bounds, are accepted by
`check_packet_bound`: neither of the two ways in which a packet that is read becomes no
request can be taken by these clients.

### Transfer

`spc` and `cpc` are the positions of `send_*` and `get_*`. `sbuf` is `buf[0]` of
the server, which is both the packet sent last and the packet received last: the
loop's condition reads it after a `receive_message` that may have failed, so the
model keeps it. The three pairs of functions differ only in how an item is packed.
A packet arrives whole.

### QueryRows and Hall

`q` is the `QueryData`, with its slots numbered from 0, `list`, `node` and `ptr`
the linked list by address, and `heap` what has been allocated and not freed (a row
with its strings, a node with its data, an error message of SQLite). `callback` is one
row from SQLite, `do_query` the return of `sqlite3_exec`, after the last row or after an
error (`exec_returns`), which allocates the text that `err_msg` points to; `failures`
counts these;
`list_row` is one turn of the loops of `get_screening_list`, `get_movie_list` and
`get_ticket_list`; `send_ends` is the end of `send_*`, which may come before the
last item. A row is one value: its columns are only copied.

`Hall` adds `send_seating_info` (`hall_query`, `mark_seat`, `hall_sent`), the
client's `get_hall`, and the dialogue: `showSeats(n, row, col)` is one turn of its
loop, whose `scanf` has read `n` numbers; what it has not read is uninitialised,
so any value. `typed` remembers the input that ended the loop. `others` is every
other customer. The database is `reserved`, the seats of one screening;
`CinemaServer` has the rest.

### Logging

A member of `Servers` is one run of the server program and the child it forks.
The kernel's queue is `queue`, with an identifier that is never given twice; a
server and a logger hold the identifier they opened. `set_log` and `fork` are the
start of a server; a thread is in `msgsnd` from `srv_log` until there is room or
the queue is gone. The logger goes through `prctl`, `set_handlers`, `open_queue`,
`fopen`, `header` and `ready` before it loops, and `deliver` may happen between any
two of them: before `set_handlers` a signal kills it, before `ready` the handler
returns. Each call that can fail may fail. A child whose `execl` fails goes on as a
second server on the same queue, without a logger (`copy`). `killed` is the end of a
logger, at any point, without its handler: by `SIGTERM`, which `logger.c:55` says it
does not handle, by `SIGKILL` or by a crash.

### Framing

The stream's bytes in each direction; a read returns at least one byte and at most
a packet. A packet is its code and zeros.

## 3. Runs

| Run | Instance | What it shows |
|---|---|---|
| `lock` | 4 threads, `FairSpec` | exclusion, no reader blocks at `g_mtx`, one reader and one writer at most at `shortwait`, matched releases, the proofs' invariant; no queueing reader gets in while writers have `shortwait`; the abstract lock is implemented; the threads never all wait for one another; with queues, every writer enters, and every reader once writers stop |
| `sync_readers` | 3 threads, `QueueSpec` | **violated**: a reader may wait for ever |
| `booking` | 2 sessions, 2 customers, 2 seats, 1 screening sold or not, 3 menu options, 2 failures | database sound, no ticket lost or invented, errors true, lists current |
| `catalogue` | 2 sessions, 2 movies, 2 slots, 1 ticket sold, 4 menu options, 1 failure | database sound under cascades, ids never rebound, errors true |
| `answered` | 2 sessions, all options, 2 of them, 2 failures, `FairSpec` | every wait of a client for an answer ends, unless the log is stuck for ever |
| `index_bounds` | 1 session, no movies | **violated**: the fatal index check is reached |
| `transfer` | lists of up to 3 of 2 items, `FairSpec` | all or nothing, in order, one packet at a time, a dead client is not served on; the lock is given back, the client's call returns |
| `logging` | 2 servers, a queue of 1, 2 threads, 2 messages, 1 interrupt or kill, `FairSpec` | each message in one place while the queue exists; unless the logger is killed, `msgsnd` returns once it is set up and the queue of a dead server is closed |
| `logger_orphan` | 1 server, `FairSpec` | **violated**: a logger outlives its server |
| `hall` | lists of up to 5 rows, hall of 2 x 3, vector of 2 slots, map of 7, 2 failed queries | rows stored, lists complete and in order, everything freed but one message per failed query, only seats of the hall reserved, the map is the query, the ticket is what was typed |
| `seat_cancel` | as `hall` | **violated**: a purchase is cancelled without a 0 |
| `short_read` | packets of 4 bytes, 2 requests | **violated**: a request nobody sent is handled |

**Why the bounds are enough.** The lock's algorithm tells apart the first, a
middle and the last of each kind; four threads give three of one kind with one of
the other, or two and two, and the theorems cover every number. In `booking`, three options let
two users race for one seat and a third action (a cancellation, a second
purchase by the same user) meet the outcome, and two failures can fall between
any two steps, so that one of them breaks off a cancellation and the other meets the
ticket it left, or a stall of the log is followed by a death; two seats tell "another seat" from "the same seat". In `catalogue`
four options are what it takes to delete a screening, add another in its place
and have both ids in users' hands, while a customer books. A list of three items
has a first, a middle and a last one. In `hall` five or six rows double a vector of
two slots twice, a hall that is not square tells rows from columns, and what is
typed goes one past the hall on every side. In `logging` two messages overfill a
queue of one, two servers are one before the other or overlapping, and the one
interrupt, or kill, comes on top of the `SIGHUP` of each death. In `hall` the second of
two failed queries is one that finds the message of another (`MaxFailures`). `MaxOps` and `MaxFaults` are guards of
`choose_option` and of the failure actions only; with them used up everything
under way still goes on to its end. Deadlock checking is off where users may stop
(`CinemaServer`) or the transfer ends (`Transfer`), servers
stay dead (`Logging`) or a client has no more requests (`Framing`); it is on for the
lock and the hall, where it is part of what is checked.

**Fairness.** `Synchronization!FairSpec` is weak fairness of each thread's steps
once it has called `enter_critical`: the operating system runs threads that can
run, and a handler leaves the critical zone. That is what `ServerLeaves` establishes
for the longest ones, as far as the client goes; it also takes a `srv_log` that
returns, which is `SendReturns`. Nobody is obliged to call `enter_critical`.
Under weak fairness a thread may be overtaken for ever at a mutex; `Queues`
is strong fairness of the waits, which is what mutexes and semaphores that
serve their waiters in order give, and which the comments of
`synchronization.c` take for granted. It is a hypothesis of `WriterEnters` and
`ReaderEntersWhenWritersStop`, and part of `QueueSpec` in `sync_readers`;
`SomeoneEnters` does without it.
`CinemaServer!FairSpec` is weak fairness of each thread, and of a client program whose
connection is closed. Users are not obliged to read an answer or to choose, and nothing
is asked of failures, restarts and the log: `RequestAnswered` has `[]<>~stuck` as its
hypothesis, since a thread that waits in `msgsnd` for ever keeps its client, and in the
critical zone everybody, waiting. Weak fairness of `enter_critical` is enough
there because finitely many options are taken (`MaxOps`): starvation by an
endless stream of other requests is the lock's question, answered by `lock` and
`sync_readers`. `Transfer!FairSpec` is weak fairness of both processes: inside
`get_*` the client never waits for its user. A client that is stopped and not
dead would keep the lock for ever; nothing in the code bounds that (hazards).
`Logging!FairSpec` is weak fairness of the start of a server, of each logger and of
the delivery of signals, and strong fairness of `msgsnd`: Linux wakes the senders
that wait for room in their order, so none is overtaken for ever. Nobody has to
start, to die or to log.

**The violated runs** are disagreements between the code and what it says of
itself:

* `sync_readers`: the comment of `enter_reader` says readers queue *until that
  writer finishes*; a group of writers that keeps being joined never posts
  `shortwait`. The weaker `ReaderEntersWhenWritersStop` holds.
* `index_bounds`: two administrator options pass `showMovies`' -1 for an empty
  list to `get_from_list`, which ends the program.
* `logger_orphan`: the logger subscribes to the death of its parent, which may have
  died by then, as a server does whose port is taken; a `SIGHUP` before `q_set` is 1
  is lost as well.
* `seat_cancel`: the user is told that a 0 cancels, and `row` and `col` have been
  decremented when they are compared with 0.
* `short_read`: the first byte read is taken for a request code also when it is in
  the middle of a packet; the zeros that pad a packet are `MOVIE_ADD`.

Four more disagreements, which no run is spent on because a passing property states
what holds instead, or because nothing follows from them:

* `synchronization.c:58` says that at `shortwait` there is *at most one reader waiting
  (and many writers)*. The half about readers is right; only one writer ever waits
  there, the first, which holds `w_mtx` while it does (lines 33-39), and the others
  wait for `w_mtx`. `ShortQueue`, checked and proved, is what holds of both.
* `sqlite3.h:362` asks the application to free the error messages of `sqlite3_exec`.
  `db_init` does (`database.c:103`); `do_query` and `execute_statements` do not, so each
  failed query, and each refused seat, movie or slot, leaks its message. `AllFreed`,
  checked and proved, counts those of the queries: one per failure, and nothing else.
* `get_synchro_type` does not list `REQ_CANCELLED_LIST`, which the option *View my
  tickets* sends, so its default "that should never be entered" is entered, and the
  read runs alone as `WRITER` (`server.c:164`).
* The length that `BEGIN` announces is one `char`, which wraps above 127 and which no
  client reads.

## 4. Theorems

All proofs are checked by TLAPS from the modules' named assumptions only.

**`SynchronizationProofs`**, for any finite set of threads (`ThreadsFinite`).
Exclusion is not inductive: it depends on who holds which mutex and semaphore and
on what the counters count. The inductive invariant `IInv` says, for each of
them, which positions of `pc` hold it: a mutex is 1 exactly when one thread is
between its lock and its unlock (`MutexInv`); a semaphore is 0 exactly when a
thread is in the region that took it or, for `shortwait`, when a group of writers
has it (`SemaphoreInv`); `writers` and `readcount` are the cardinalities of the
threads counted (`CountInv`, which needs the finite-set theorems for one
thread more or less); and `g_mtx` is held by a writer in the zone or by the
readers counted (`GlobalInv`). `lock` checks the same `IInv`. From it:

* `TypeCorrect`, `Holders`: `[]TypeOK`, `[]IInv`;
* `MutualExclusion`: a writer in the zone is alone;
* `NoBlockingInside`: the first reader never waits at `g_mtx`;
* `ReleasesMatch`, `OneInShortQueue`: releases match acquisitions; at most one
  reader and one writer wait at `shortwait`;
* `WritersFirst`: no queueing reader gets in while a group of writers has `shortwait`;
* `Refinement`: `Spec => ReadWriteLock!RWSpec` with readers and writers mapped to
  the threads inside, each step being a step or a stutter.

**`CinemaServerProofs`, `CinemaTicketsProofs`, `CinemaSessionsProofs`**, for any
sessions, clients, movies, slots, seats, options and any number of failures and
restarts, from `InitialDBsSound` (the server starts on a sound `cine.db`) and
`ServerBounds` (the bounds are numbers). Four layers:

* *The database.* `DatabaseStaysSound`, i.e. `[]DatabaseSound`. The inductive
  invariant `SoundInv` adds to it that a thread about to check or to run a statement
  has a request of a type with that check or statement (`StepFits`). Each statement
  has a lemma (`AddScreeningSound`, `CascadeSound`, ...) that it preserves
  `Integrity`, whatever the argument; no exclusion is needed, since each statement by
  itself is atomic in SQLite.
* *Isolation.* `ErrorsAreTruthful` and `ListsAreCurrent` speak of what one step read
  and a later step sends, and that does need the lock. `IsolationInv` adds that
  `readers` and `writing` are the threads between `enter_critical` and
  `leave_critical` whose request is of that class, a writer being alone (`LockInv`),
  and what each thread knows at each place (`Knows`): the row it looked for exists
  while it runs its statements, and its answer is true of the database while it is
  sent. `WriterAlone` is the step that matters: a thread that writes is the only one
  that knows anything, so nobody else's knowledge is lost (`KnowledgeKept`).
* *Accounts.* `NoTicketLost` and `NoPhantomTicket` are inequalities that do not bear
  the two statements of a cancellation, or a second cancellation of the same ticket.
  `TicketInv` has one account per ticket, `Owed`: the rows of `Canceladas` for it and
  its row of `Reserva` are at most, and as long as its screening exists exactly, its
  sales plus its cancellations that are between INSERT and DELETE plus those that were
  broken off there (`torn`, a bag: a failure elsewhere, or in the cancellation of
  another ticket, excuses nothing).
  Sales name ids that `sqlite_sequence` has given out (`SoldBefore`), so a new
  screening has none, and isolation gives that at most one thread is between INSERT
  and DELETE. From it `TicketsAreNotLost`, `TicketsAreNotInvented` and
  `TicketsBalance`: the books are equal in every state.
* *Conversations.* `HandlesNeverRebound` is about a screening that a user has in hand
  and that came in an answer, to a packet sent earlier, of an older database.
  `SessionInv` says that at most one end of a connection has something to do for the
  other, that a thread at work has the request the client waits for, that an answer
  has rows of the kind that was asked for (`Turns`), and that a screening once seen is
  `Known`: its id was given out, and names that screening or nothing. The database
  only moves to a `Later` one. From it `ScreeningsKeepTheirIds` and, for every
  variable, `ServerTypes`.

**`TransferProofs`**, for lists of any length over any items (`ListsAssumption`).
`AllOrNothing` needs to know that END only ever meets a client that has every
item. `Inv` says so by listing, for each place of the client, which packet can be
between the two and how far the iterator is ahead of the client's list: an item on
its way (`ItemOnItsWay`), a NEXT on its way or read (`NextOnItsWay`,
`NextArrived`), END on its way with the list complete (`EndOnItsWay`), or the
server dead and nothing on its way (`Lost`). It also says that `buf[0]` is not
`NEXT` when the server waits, which is what stops it from serving a dead client.
`TransferInvariant` proves `[]Inv`, action by action; `OnePacketInFlight`,
`TransferTypes`, `InOrder`, `DeadClientNotServed` and `TransferRefinement` follow.

**`QueryRowsProofs`**, for any initial capacity of at least 1 (`CapacityAssumption`)
and results of any length over any rows (`ResultsAssumption`). `VectorInv`
strengthens `RowsStored` by `rows < capacity`, which is what makes the slot of the
next row exist: the vector is doubled one row before it is full. `ListInv` adds
that the nodes are chained in the order they were added and hold the rows read so
far (`Chain`), and that the iterator is behind the nodes it has given (`Iterated`):
`RowsAlwaysStored` and `ListAlwaysRows`. `AllFreed` holds at the end of a request only
because exactly the right things are allocated before: `Allocated` gives the heap at
each step, the messages of the failed queries (`Leaked`) included, down to the nodes that `destroy_list` has not reached (`Freeing`), which
needs `Chain`: `ListsAreFreed`.

**`HallProofs`**, for any hall whose seats fit in the map, in the packet and in a
signed `char` (`HallAssumption`; 8 x 8, 300 and 512 in the code). `HallInv` adds to
`VectorInv` that the map marks the rows read so far, which are seats (`Marked`), and
that a chosen seat is a seat. `SeatIndex` is the arithmetic: the index of a row and a
column is a seat and divides into them again. From it `OnlySeats`, `HallIsRows`,
`TicketAsTyped` and `HallIsTyped`. `HallRowsStored`, `HallListsAreRows` and
`EverythingIsFreed` are the results of `QueryRowsProofs` for the specification that the
run `hall` checks, in which requests for halls, with a map of their own on the heap,
come between those for lists.

**`LoggingProofs`**, for any servers, threads, messages, signals and any length of the
queue of at least 1 (`LoggingConstants`). `Types` is `TypeOK` by itself inductive:
`LoggingTypes`. `Accounted` says that a message of a server whose queue exists has
exactly one place. `LogInv` splits that: no message is twice in the queue, in the
buffers of the loggers or in what was printed (`Once`), none is in two of these or
also with its thread (`Apart`), what is in one of them was logged, so that a new
message is nowhere yet (`Logged`), and a message of a live server is somewhere
(`Somewhere`). The last one survives the removal of a queue and the creation of
another because a server that logs has opened a queue, and an identifier is not given
twice (`Control`, `OpenedQueue`); messages then move only in `msgsnd`, `msgrcv` and
`print`, one lemma each, and every other step, the kill of a logger included, is an
instance of `NobodyMoves`: `MessagesAccounted`.

`IsolationInv`, `TicketInv`, `SessionInv`, `Allocated` and `LogInv` were model-checked
on the instances of the runs before they were proved.

**Only model-checked:** all liveness (`SomeoneEnters`, `WriterEnters`,
`ReaderEntersWhenWritersStop`, `RequestAnswered`, `ServerLeaves`,
`ClientReturns`, `SendReturns`, `QueueClosed`), which TLAPS does not reach. Every
invariant, action property and refinement of the passing runs has a theorem.

## 5. Not modelled

* **The layout of strings in a packet** and their lengths: names are values. The
  `NULL` that a `req_*` builder returns for a string without an end, and
  `wait_request` for an unknown code, need a packet that these clients do not send or
  that was not read whole; `Framing` has the unknown codes.
* **The race on `session->err_msg`** between two readers whose queries fail: its outcome,
  the death of the server, may happen at any point.
* **Printing, and the other input loops of `ui.c`** (menus, dates, names): they ask
  again until the input is valid, and are a choice among the valid ones in
  `CinemaServer`. End of file on the input is not modelled.
* **`destroy_log`, `log_socket`, `end_session`** and a few other functions that
  nothing calls.
* **Opening, binding and listening** in `sockets.c`: system calls without state of
  their own. That a server may exit there is part of `Logging`.
* **SQLite**: external; `CinemaDB` states what the schema asks of it.
  `includes/sqlite3.h` is its vendored header, 10500 of the repository's 14000
  lines of C, of which the program uses five functions; measured over all of them
  the mapped share can only be small. Of the program's own code the larger part is
  mapped, and what is left is mostly printing and packing.
* **`syncrotest/`**: a copy of the lock that prints.

## 6. Plan

Done: lock, abstract lock, refinement and proofs; database, server, clients,
failures, with proofs of soundness, isolation, accounts and conversations; transfer
with its refinement and proofs; rows, lists and hall with proofs; logging with proofs;
framing.

Left, all of it proofs:

1. That `CinemaServer` implements an abstract ticket office in which each request is
   one step, by the isolation that `IsolationInv` states.
2. Action properties of the accounts: which steps may change `Canceladas` and `sold`.
3. That a message is printed in the order of its queue (`Logging`), which `Accounted`
   does not say.
