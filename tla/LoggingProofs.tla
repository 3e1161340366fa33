--------------------------- MODULE LoggingProofs ---------------------------
(***************************************************************************)
(* The log of the server, for any number of server runs, threads, messages *)
(* and any length of the queue: every variable keeps its type, and while   *)
(* the queue a server opened exists each of its messages is in exactly one *)
(* place.                                                                  *)
(***************************************************************************)
EXTENDS Logging, TLAPS

-----------------------------------------------------------------------------
(* Types.                                                                  *)

LoggerAts == {"none", "forked", "copy", "main", "handlers", "open", "fopen", "header", "ready",
              "loop", "print", "exited", "killed"}

QueueRecords(n) == [id : 0..n, msgs : Seq(Messages)]
ServerRecords(n) == [at : {"off", "fork", "run", "dead"}, msqid : 0..n, log_set : {0, 1}]
LoggerRecords(n) == [at : LoggerAts, pdeathsig : BOOLEAN, msqid : 0..n, q_set : {0, 1},
                     logfile : BOOLEAN, buf : Seq(Messages)]

\* TypeOK with the records that hold the variables named.
Types ==
  /\ lastId \in Nat
  /\ queue \in QueueRecords(lastId) /\ Len(queue.msgs) <= QueueLength
  /\ server \in [Servers -> ServerRecords(lastId)]
  /\ calls \in Seq(Servers) /\ Len(calls) <= MaxMsgs /\ sending \subseteq DOMAIN calls
  /\ logger \in [Servers -> LoggerRecords(lastId)]
  /\ pending \in [Servers -> SUBSET {"SIGHUP", "SIGINT"}]
  /\ signals \in 0..MaxSignals
  /\ printed \in [Servers -> Seq(Messages)]

\* Types is TypeOK, and more.
LEMMA TypesImplyTypeOK == Types => TypeOK
<1> SUFFICES ASSUME Types PROVE TypeOK
  OBVIOUS
<1>1. queue.id \in 0..lastId /\ queue.msgs \in Seq(Messages)
  BY DEF Types, QueueRecords
<1> QED BY <1>1 DEF Types, TypeOK, ServerRecords, LoggerRecords, LoggerAts

\* Init: no queue, no server, no message.
LEMMA InitTypes == Init => Types
<1> SUFFICES ASSUME Init PROVE Types
  OBVIOUS
<1>1. lastId = 0 /\ queue \in QueueRecords(0) /\ Len(queue.msgs) = 0
  BY DEF Init, QueueRecords
<1>2. server \in [Servers -> ServerRecords(0)]
  BY DEF Init, ServerRecords
<1>3. logger \in [Servers -> LoggerRecords(0)]
  BY DEF Init, LoggerRecords, LoggerAts
<1>4. pending \in [Servers -> SUBSET {"SIGHUP", "SIGINT"}] /\ printed \in [Servers -> Seq(Messages)]
  BY DEF Init
<1>5. calls \in Seq(Servers) /\ Len(calls) = 0 /\ sending \subseteq DOMAIN calls
  BY DEF Init
<1>6. signals \in 0..MaxSignals
  BY LoggingConstants DEF Init
<1> QED BY <1>1, <1>2, <1>3, <1>4, <1>5, <1>6, LoggingConstants DEF Types

\* g is f with logger p moved to a place of its program, with a buffer.
Moves(f, g, n, p, to, buf) ==
  /\ g \in [Servers -> LoggerRecords(n)]
  /\ g[p].at = to /\ g[p].buf = buf
  /\ \A q \in Servers \ {p} : g[q] = f[q]

\* A logger whose record is replaced by another of the type.
LEMMA LoggerReplaced ==
  ASSUME NEW n \in Nat, NEW f \in [Servers -> LoggerRecords(n)], NEW p \in Servers,
         NEW r \in LoggerRecords(n)
  PROVE  Moves(f, [f EXCEPT ![p] = r], n, p, r.at, r.buf)
BY DEF Moves

\* The updates the logger's actions make: where it is, and one more field.
LEMMA LoggerUpdates ==
  ASSUME NEW n \in Nat, NEW f \in [Servers -> LoggerRecords(n)], NEW p \in Servers
  PROVE  /\ \A to \in LoggerAts : Moves(f, [f EXCEPT ![p].at = to], n, p, to, f[p].buf)
         /\ \A to \in LoggerAts, x \in BOOLEAN :
              Moves(f, [f EXCEPT ![p].at = to, ![p].pdeathsig = x], n, p, to, f[p].buf)
         /\ \A to \in LoggerAts, x \in 0..n :
              Moves(f, [f EXCEPT ![p].at = to, ![p].msqid = x], n, p, to, f[p].buf)
         /\ \A to \in LoggerAts, x \in {0, 1} :
              Moves(f, [f EXCEPT ![p].at = to, ![p].q_set = x], n, p, to, f[p].buf)
         /\ \A to \in LoggerAts, x \in BOOLEAN :
              Moves(f, [f EXCEPT ![p].at = to, ![p].logfile = x], n, p, to, f[p].buf)
         /\ \A to \in LoggerAts, x \in Seq(Messages) :
              Moves(f, [f EXCEPT ![p].at = to, ![p].buf = x], n, p, to, x)
         /\ \A x \in BOOLEAN : Moves(f, [f EXCEPT ![p].logfile = x], n, p, f[p].at, f[p].buf)
<1>1. f[p] \in LoggerRecords(n)
  OBVIOUS
<1>2. ASSUME NEW to \in LoggerAts
      PROVE  Moves(f, [f EXCEPT ![p].at = to], n, p, to, f[p].buf)
  <2> DEFINE r == [f[p] EXCEPT !.at = to]
  <2>1. [f EXCEPT ![p].at = to] = [f EXCEPT ![p] = r]
    OBVIOUS
  <2>2. r \in LoggerRecords(n) /\ r.at = to /\ r.buf = f[p].buf
    BY <1>1 DEF LoggerRecords
  <2> HIDE DEF r
  <2>3. Moves(f, [f EXCEPT ![p] = r], n, p, r.at, r.buf)
    BY <2>2, LoggerReplaced
  <2> QED BY <2>1, <2>2, <2>3, Zenon
<1>3. ASSUME NEW to \in LoggerAts, NEW x \in BOOLEAN
      PROVE  Moves(f, [f EXCEPT ![p].at = to, ![p].pdeathsig = x], n, p, to, f[p].buf)
  <2> DEFINE r == [f[p] EXCEPT !.at = to, !.pdeathsig = x]
  <2>1. [f EXCEPT ![p].at = to, ![p].pdeathsig = x] = [f EXCEPT ![p] = r]
    OBVIOUS
  <2>2. r \in LoggerRecords(n) /\ r.at = to /\ r.buf = f[p].buf
    BY <1>1 DEF LoggerRecords
  <2> HIDE DEF r
  <2>3. Moves(f, [f EXCEPT ![p] = r], n, p, r.at, r.buf)
    BY <2>2, LoggerReplaced
  <2> QED BY <2>1, <2>2, <2>3, Zenon
<1>4. ASSUME NEW to \in LoggerAts, NEW x \in 0..n
      PROVE  Moves(f, [f EXCEPT ![p].at = to, ![p].msqid = x], n, p, to, f[p].buf)
  <2> DEFINE r == [f[p] EXCEPT !.at = to, !.msqid = x]
  <2>1. [f EXCEPT ![p].at = to, ![p].msqid = x] = [f EXCEPT ![p] = r]
    OBVIOUS
  <2>2. r \in LoggerRecords(n) /\ r.at = to /\ r.buf = f[p].buf
    BY <1>1 DEF LoggerRecords
  <2> HIDE DEF r
  <2>3. Moves(f, [f EXCEPT ![p] = r], n, p, r.at, r.buf)
    BY <2>2, LoggerReplaced
  <2> QED BY <2>1, <2>2, <2>3, Zenon
<1>5. ASSUME NEW to \in LoggerAts, NEW x \in {0, 1}
      PROVE  Moves(f, [f EXCEPT ![p].at = to, ![p].q_set = x], n, p, to, f[p].buf)
  <2> DEFINE r == [f[p] EXCEPT !.at = to, !.q_set = x]
  <2>1. [f EXCEPT ![p].at = to, ![p].q_set = x] = [f EXCEPT ![p] = r]
    OBVIOUS
  <2>2. r \in LoggerRecords(n) /\ r.at = to /\ r.buf = f[p].buf
    BY <1>1 DEF LoggerRecords
  <2> HIDE DEF r
  <2>3. Moves(f, [f EXCEPT ![p] = r], n, p, r.at, r.buf)
    BY <2>2, LoggerReplaced
  <2> QED BY <2>1, <2>2, <2>3, Zenon
<1>6. ASSUME NEW to \in LoggerAts, NEW x \in BOOLEAN
      PROVE  Moves(f, [f EXCEPT ![p].at = to, ![p].logfile = x], n, p, to, f[p].buf)
  <2> DEFINE r == [f[p] EXCEPT !.at = to, !.logfile = x]
  <2>1. [f EXCEPT ![p].at = to, ![p].logfile = x] = [f EXCEPT ![p] = r]
    OBVIOUS
  <2>2. r \in LoggerRecords(n) /\ r.at = to /\ r.buf = f[p].buf
    BY <1>1 DEF LoggerRecords
  <2> HIDE DEF r
  <2>3. Moves(f, [f EXCEPT ![p] = r], n, p, r.at, r.buf)
    BY <2>2, LoggerReplaced
  <2> QED BY <2>1, <2>2, <2>3, Zenon
<1>7. ASSUME NEW to \in LoggerAts, NEW x \in Seq(Messages)
      PROVE  Moves(f, [f EXCEPT ![p].at = to, ![p].buf = x], n, p, to, x)
  <2> DEFINE r == [f[p] EXCEPT !.at = to, !.buf = x]
  <2>1. [f EXCEPT ![p].at = to, ![p].buf = x] = [f EXCEPT ![p] = r]
    OBVIOUS
  <2>2. r \in LoggerRecords(n) /\ r.at = to /\ r.buf = x
    BY <1>1 DEF LoggerRecords
  <2> HIDE DEF r
  <2>3. Moves(f, [f EXCEPT ![p] = r], n, p, r.at, r.buf)
    BY <2>2, LoggerReplaced
  <2> QED BY <2>1, <2>2, <2>3, Zenon
<1>8. ASSUME NEW x \in BOOLEAN
      PROVE  Moves(f, [f EXCEPT ![p].logfile = x], n, p, f[p].at, f[p].buf)
  <2> DEFINE r == [f[p] EXCEPT !.logfile = x]
  <2>1. [f EXCEPT ![p].logfile = x] = [f EXCEPT ![p] = r]
    OBVIOUS
  <2>2. r \in LoggerRecords(n) /\ r.at = f[p].at /\ r.buf = f[p].buf
    BY <1>1 DEF LoggerRecords
  <2> HIDE DEF r
  <2>3. Moves(f, [f EXCEPT ![p] = r], n, p, r.at, r.buf)
    BY <2>2, LoggerReplaced
  <2> QED BY <2>1, <2>2, <2>3, Zenon
<1> QED BY <1>2, <1>3, <1>4, <1>5, <1>6, <1>7, <1>8

\* g is f with a server p that has another record.
Replaces(f, g, n, p, at, msqid, log_set) ==
  /\ g \in [Servers -> ServerRecords(n)]
  /\ g[p].at = at /\ g[p].msqid = msqid /\ g[p].log_set = log_set
  /\ \A q \in Servers \ {p} : g[q] = f[q]

\* The updates the server's actions make.
LEMMA ServerUpdates ==
  ASSUME NEW n \in Nat, NEW f \in [Servers -> ServerRecords(n)], NEW p \in Servers,
         NEW at \in {"off", "fork", "run", "dead"}
  PROVE  /\ Replaces(f, [f EXCEPT ![p].at = at], n, p, at, f[p].msqid, f[p].log_set)
         /\ \A id \in 0..n :
              Replaces(f, [f EXCEPT ![p].at = at, ![p].msqid = id], n, p, at, id, f[p].log_set)
         /\ \A bit \in {0, 1} :
              Replaces(f, [f EXCEPT ![p].at = at, ![p].log_set = bit], n, p, at, f[p].msqid, bit)
<1>1. f[p] \in ServerRecords(n)
  OBVIOUS
<1>2. Replaces(f, [f EXCEPT ![p].at = at], n, p, at, f[p].msqid, f[p].log_set)
  <2> DEFINE r == [f[p] EXCEPT !.at = at]
  <2>1. [f EXCEPT ![p].at = at] = [f EXCEPT ![p] = r]
    OBVIOUS
  <2>2. r \in ServerRecords(n) /\ <<r.at, r.msqid, r.log_set>> = <<at, f[p].msqid, f[p].log_set>>
    BY <1>1 DEF ServerRecords
  <2> HIDE DEF r
  <2> QED BY <2>1, <2>2 DEF Replaces
<1>3. ASSUME NEW id \in 0..n
      PROVE  Replaces(f, [f EXCEPT ![p].at = at, ![p].msqid = id], n, p, at, id, f[p].log_set)
  <2> DEFINE r == [f[p] EXCEPT !.at = at, !.msqid = id]
  <2>1. [f EXCEPT ![p].at = at, ![p].msqid = id] = [f EXCEPT ![p] = r]
    OBVIOUS
  <2>2. r \in ServerRecords(n) /\ <<r.at, r.msqid, r.log_set>> = <<at, id, f[p].log_set>>
    BY <1>1 DEF ServerRecords
  <2> HIDE DEF r
  <2> QED BY <2>1, <2>2 DEF Replaces
<1>4. ASSUME NEW bit \in {0, 1}
      PROVE  Replaces(f, [f EXCEPT ![p].at = at, ![p].log_set = bit], n, p, at, f[p].msqid, bit)
  <2> DEFINE r == [f[p] EXCEPT !.at = at, !.log_set = bit]
  <2>1. [f EXCEPT ![p].at = at, ![p].log_set = bit] = [f EXCEPT ![p] = r]
    OBVIOUS
  <2>2. r \in ServerRecords(n) /\ <<r.at, r.msqid, r.log_set>> = <<at, f[p].msqid, bit>>
    BY <1>1 DEF ServerRecords
  <2> HIDE DEF r
  <2> QED BY <2>1, <2>2 DEF Replaces
<1> QED BY <1>2, <1>3, <1>4

-----------------------------------------------------------------------------
(* The invariant.                                                          *)

\* What the places of the processes' programs say of their variables: a server
\* that logs has opened a queue, and a logger holds a message only between
\* msgrcv and print, or when it ended there.
Control ==
  /\ \A p \in Servers :
       /\ server[p].at = "fork" \/ server[p].log_set = 1 => server[p].msqid >= 1
       /\ server[p].log_set = 1 => server[p].at \in {"run", "dead"}
       /\ server[p].at \in {"off", "fork"} => logger[p].at = "none"
       /\ logger[p].at \notin {"print", "exited", "killed"} => logger[p].buf = <<>>
       /\ Len(logger[p].buf) <= 1
  /\ \A k \in DOMAIN calls : server[calls[k]].log_set = 1

Queued(m) == \E i \in DOMAIN queue.msgs : queue.msgs[i] = m
Buffered(m) == \E p \in Servers : logger[p].buf = <<m>>
Printed(m) == \E p \in Servers : \E i \in DOMAIN printed[p] : printed[p][i] = m

\* No message is twice in the queue, in the buffers or in what was printed.
Once ==
  /\ \A i, j \in DOMAIN queue.msgs : queue.msgs[i] = queue.msgs[j] => i = j
  /\ \A p, q \in Servers : \A m \in Messages :
       logger[p].buf = <<m>> /\ logger[q].buf = <<m>> => p = q
  /\ \A p, q \in Servers : \A i \in DOMAIN printed[p], j \in DOMAIN printed[q] :
       printed[p][i] = printed[q][j] => p = q /\ i = j

\* No message is in two of them.
Apart ==
  \A m \in Messages :
    /\ m \in sending => ~Queued(m) /\ ~Buffered(m) /\ ~Printed(m)
    /\ Queued(m) => ~Buffered(m) /\ ~Printed(m)
    /\ Buffered(m) => ~Printed(m)

\* What is in one of them was logged.
Logged == \A m \in Messages : Queued(m) \/ Buffered(m) \/ Printed(m) => m \in DOMAIN calls

\* The server of message k runs and the queue it opened exists.
Live(k) == server[calls[k]].at = "run" /\ queue.id = server[calls[k]].msqid

\* The messages of such a server are in one of them.
Somewhere ==
  \A k \in DOMAIN calls : Live(k) => k \in sending \/ Queued(k) \/ Buffered(k) \/ Printed(k)

Located == Once /\ Apart /\ Logged /\ Somewhere

\* The inductive invariant.
LogInv == Types /\ Control /\ Located

-----------------------------------------------------------------------------
(* What the steps of a logger do to its record.                            *)

\* Logger p moves and its buffer does not change.
Quiet(p) ==
  /\ logger' \in [Servers -> LoggerRecords(lastId)]
  /\ logger'[p].buf = logger[p].buf
  /\ \A q \in Servers \ {p} : logger'[q] = logger[q]
  /\ logger[p].at # "none"
  /\ logger[p].at \in {"print", "exited", "killed"} => logger'[p].at \in {"print", "exited", "killed"}

\* A move that keeps the buffer is quiet, unless it leaves print.
LEMMA MovesAreQuiet ==
  ASSUME NEW p \in Servers, NEW to, Moves(logger, logger', lastId, p, to, logger[p].buf),
         logger[p].at # "none",
         logger[p].at \in {"print", "exited", "killed"} => to \in {"print", "exited", "killed"}
  PROVE  Quiet(p)
BY DEF Moves, Quiet

\* The steps of the logger's main up to its loop are quiet.
LEMMA StartIsQuiet ==
  ASSUME Types, NEW p \in Servers,
         \/ execl(p) \/ prctl(p) \/ set_handlers(p) \/ open_queue(p) \/ fopen(p)
         \/ header(p) \/ ready(p)
  PROVE  Quiet(p) /\ UNCHANGED <<queue, lastId, serverVars, pending, signals, printed>>
<1>1. lastId \in Nat /\ logger \in [Servers -> LoggerRecords(lastId)] /\ queue.id \in 0..lastId
  BY DEF Types, QueueRecords
<1>2. logger[p].buf \in Seq(Messages)
  BY <1>1 DEF LoggerRecords
<1>3. ASSUME NEW from, NEW to \in LoggerAts, LoggerGoes(p, from, to),
             from \notin {"none", "print", "exited", "killed"}
      PROVE  Quiet(p)
  <2>1. Moves(logger, logger', lastId, p, to, logger[p].buf)
    BY <1>1, <1>2, <1>3, LoggerUpdates DEF LoggerGoes
  <2> QED BY <2>1, <1>3, MovesAreQuiet DEF LoggerGoes
<1>4. CASE execl(p)
  BY <1>3, <1>4 DEF execl, LoggerAts
<1>5. CASE prctl(p)
  <2>1. Moves(logger, logger', lastId, p, "handlers", logger[p].buf)
    BY <1>1, <1>2, <1>5, LoggerUpdates DEF prctl, LoggerAts
  <2> QED BY <2>1, <1>5, MovesAreQuiet DEF prctl
<1>6. CASE set_handlers(p)
  BY <1>3, <1>6 DEF set_handlers, LoggerAts
<1>7. CASE open_queue(p)
  <2>1. ASSUME logger' = [logger EXCEPT ![p].at = "exited"]
        PROVE  Moves(logger, logger', lastId, p, "exited", logger[p].buf)
    BY <1>1, <2>1, LoggerUpdates DEF LoggerAts
  <2>2. ASSUME logger' = [logger EXCEPT ![p].at = "fopen", ![p].msqid = queue.id]
        PROVE  Moves(logger, logger', lastId, p, "fopen", logger[p].buf)
    BY <1>1, <2>2, LoggerUpdates DEF LoggerAts
  <2> QED BY <2>1, <2>2, <1>7, MovesAreQuiet DEF open_queue
<1>8. CASE fopen(p)
  <2>1. ASSUME logger' = [logger EXCEPT ![p].at = "header", ![p].logfile = TRUE]
        PROVE  Moves(logger, logger', lastId, p, "header", logger[p].buf)
    BY <1>1, <2>1, LoggerUpdates DEF LoggerAts
  <2>2. ASSUME logger' = [logger EXCEPT ![p].at = "ready"]
        PROVE  Moves(logger, logger', lastId, p, "ready", logger[p].buf)
    BY <1>1, <2>2, LoggerUpdates DEF LoggerAts
  <2> QED BY <2>1, <2>2, <1>8, MovesAreQuiet DEF fopen
<1>9. CASE header(p)
  BY <1>3, <1>9 DEF header, LoggerAts
<1>10. CASE ready(p)
  <2>1. Moves(logger, logger', lastId, p, "loop", logger[p].buf)
    BY <1>1, <1>2, <1>10, LoggerUpdates DEF ready, LoggerAts
  <2> QED BY <2>1, <1>10, MovesAreQuiet DEF ready
<1> QED BY <1>4, <1>5, <1>6, <1>7, <1>8, <1>9, <1>10

\* msgrcv that fails is quiet; otherwise the logger takes the head of the queue.
LEMMA ReceiveMoves ==
  ASSUME Types, NEW p \in Servers, msgrcv(p)
  PROVE  \/ Quiet(p) /\ queue' = queue
         \/ /\ Moves(logger, logger', lastId, p, "print", <<Head(queue.msgs)>>)
            /\ queue.msgs # <<>> /\ queue' = [queue EXCEPT !.msgs = Tail(@)]
            /\ logger[p].at = "loop"
<1>1. lastId \in Nat /\ logger \in [Servers -> LoggerRecords(lastId)] /\ queue.msgs \in Seq(Messages)
  BY DEF Types, QueueRecords
<1>2. CASE queue.id # logger[p].msqid
  <2>1. logger' = [logger EXCEPT ![p].at = "exited"] /\ queue' = queue /\ logger[p].at = "loop"
    BY <1>2 DEF msgrcv
  <2>2. Moves(logger, logger', lastId, p, "exited", logger[p].buf)
    BY <1>1, <2>1, LoggerUpdates DEF LoggerAts
  <2> QED BY <2>1, <2>2, MovesAreQuiet
<1>3. CASE queue.id = logger[p].msqid
  <2>1. /\ logger[p].at = "loop" /\ queue.msgs # <<>>
        /\ logger' = [logger EXCEPT ![p].at = "print", ![p].buf = <<Head(queue.msgs)>>]
        /\ queue' = [queue EXCEPT !.msgs = Tail(@)]
    BY <1>3 DEF msgrcv
  <2>2. <<Head(queue.msgs)>> \in Seq(Messages)
    BY <1>1, <2>1
  <2>3. Moves(logger, logger', lastId, p, "print", <<Head(queue.msgs)>>)
    BY <1>1, <2>1, <2>2, LoggerUpdates DEF LoggerAts
  <2> QED BY <2>1, <2>3
<1> QED BY <1>2, <1>3

\* A signal is quiet for the logger, and removes the queue or leaves it.
LEMMA DeliverIsQuiet ==
  ASSUME Types, NEW p \in Servers, deliver(p)
  PROVE  Quiet(p) /\ queue' \in {queue, [id |-> 0, msgs |-> <<>>]}
<1>1. lastId \in Nat /\ logger \in [Servers -> LoggerRecords(lastId)]
  BY DEF Types
<1>2. logger[p].at \notin {"none", "exited", "killed"}
  BY DEF deliver, Alive
<1>3. \/ logger' = [logger EXCEPT ![p].at = "exited"] /\ queue' = queue
      \/ /\ logger' = [logger EXCEPT ![p].at = "exited", ![p].q_set = 0]
         /\ queue' = Removed(p)
      \/ logger' = [logger EXCEPT ![p].logfile = FALSE] /\ queue' = queue
  BY DEF deliver, signal_handler
<1>4. CASE logger' = [logger EXCEPT ![p].at = "exited"] /\ queue' = queue
  <2>1. Moves(logger, logger', lastId, p, "exited", logger[p].buf)
    BY <1>1, <1>4, LoggerUpdates DEF LoggerAts
  <2> QED BY <1>2, <1>4, <2>1, MovesAreQuiet
<1>5. CASE logger' = [logger EXCEPT ![p].at = "exited", ![p].q_set = 0] /\ queue' = Removed(p)
  <2>1. Moves(logger, logger', lastId, p, "exited", logger[p].buf)
    BY <1>1, <1>5, LoggerUpdates DEF LoggerAts
  <2> QED BY <1>2, <1>5, <2>1, MovesAreQuiet DEF Removed
<1>6. CASE logger' = [logger EXCEPT ![p].logfile = FALSE] /\ queue' = queue
  <2>1. Moves(logger, logger', lastId, p, logger[p].at, logger[p].buf)
    BY <1>1, <1>6, LoggerUpdates
  <2> QED BY <1>2, <1>6, <2>1, MovesAreQuiet
<1> QED BY <1>3, <1>4, <1>5, <1>6

\* A logger that is killed leaves everything else as it was.
LEMMA KilledIsQuiet ==
  ASSUME Types, NEW p \in Servers, killed(p)
  PROVE  Quiet(p) /\ UNCHANGED <<queue, lastId, serverVars, pending, printed>>
<1>1. Moves(logger, logger', lastId, p, "killed", logger[p].buf)
  BY LoggerUpdates DEF Types, killed, LoggerAts
<1> QED BY <1>1, MovesAreQuiet DEF killed, Alive

-----------------------------------------------------------------------------
(* Types and Control.                                                      *)

\* Types in the next state.
LEMMA TypesPrime ==
  ASSUME lastId' \in Nat,
         queue' \in QueueRecords(lastId'), Len(queue'.msgs) <= QueueLength,
         server' \in [Servers -> ServerRecords(lastId')],
         calls' \in Seq(Servers), Len(calls') <= MaxMsgs, sending' \subseteq DOMAIN calls',
         logger' \in [Servers -> LoggerRecords(lastId')],
         pending' \in [Servers -> SUBSET {"SIGHUP", "SIGINT"}],
         signals' \in 0..MaxSignals,
         printed' \in [Servers -> Seq(Messages)]
  PROVE  Types'
BY DEF Types, QueueRecords, ServerRecords, LoggerRecords, LoggerAts, Messages

\* A queue that loses its head, or is removed, keeps its type.
LEMMA QueueShrinks ==
  ASSUME Types, \/ queue' \in {queue, [id |-> 0, msgs |-> <<>>]}
                \/ queue.msgs # <<>> /\ queue' = [queue EXCEPT !.msgs = Tail(@)]
  PROVE  queue' \in QueueRecords(lastId) /\ Len(queue'.msgs) <= QueueLength
<1>1. /\ lastId \in Nat /\ queue \in QueueRecords(lastId) /\ Len(queue.msgs) <= QueueLength
      /\ queue.msgs \in Seq(Messages)
  BY DEF Types, QueueRecords
<1>2. CASE queue' = queue
  BY <1>1, <1>2
<1>3. CASE queue' = [id |-> 0, msgs |-> <<>>]
  BY <1>1, <1>3, LoggingConstants DEF QueueRecords
<1>4. CASE queue.msgs # <<>> /\ queue' = [queue EXCEPT !.msgs = Tail(@)]
  <2>1. /\ Tail(queue.msgs) \in Seq(Messages) /\ Len(queue.msgs) \in Nat
        /\ Len(Tail(queue.msgs)) = Len(queue.msgs) - 1
    BY <1>1, <1>4
  <2>2. queue'.msgs = Tail(queue.msgs) /\ queue' \in QueueRecords(lastId)
    BY <1>1, <1>4, <2>1 DEF QueueRecords
  <2> QED BY <1>1, <2>1, <2>2, LoggingConstants
<1> QED BY <1>2, <1>3, <1>4

\* The steps of a logger keep the types.
LEMMA LoggerTypes ==
  ASSUME Types, NEW p \in Servers, LoggerStep(p) \/ deliver(p)
  PROVE  Types'
<1> USE DEF serverVars
<1>1. ASSUME logger' \in [Servers -> LoggerRecords(lastId)],
             \/ queue' \in {queue, [id |-> 0, msgs |-> <<>>]}
             \/ queue.msgs # <<>> /\ queue' = [queue EXCEPT !.msgs = Tail(@)],
             pending' \in [Servers -> SUBSET {"SIGHUP", "SIGINT"}],
             printed' \in [Servers -> Seq(Messages)],
             UNCHANGED <<lastId, serverVars, signals>>
      PROVE  Types'
  <2>1. queue' \in QueueRecords(lastId') /\ Len(queue'.msgs) <= QueueLength
    BY <1>1, QueueShrinks
  <2>2. /\ lastId' \in Nat /\ server' \in [Servers -> ServerRecords(lastId')]
        /\ calls' \in Seq(Servers) /\ Len(calls') <= MaxMsgs /\ sending' \subseteq DOMAIN calls'
        /\ signals' \in 0..MaxSignals /\ logger' \in [Servers -> LoggerRecords(lastId')]
    BY <1>1 DEF Types
  <2> QED BY <1>1, <2>1, <2>2, TypesPrime
<1>2. pending \in [Servers -> SUBSET {"SIGHUP", "SIGINT"}] /\ printed \in [Servers -> Seq(Messages)]
  BY DEF Types
<1>3. CASE execl(p) \/ prctl(p) \/ set_handlers(p) \/ open_queue(p) \/ fopen(p)
             \/ header(p) \/ ready(p)
  <2>1. Quiet(p) /\ UNCHANGED <<queue, lastId, serverVars, pending, signals, printed>>
    BY <1>3, StartIsQuiet
  <2> QED BY <2>1, <1>1, <1>2 DEF Quiet
<1>4. CASE msgrcv(p)
  <2>1. UNCHANGED <<lastId, serverVars, pending, signals, printed>>
    BY <1>4 DEF msgrcv
  <2> QED BY <2>1, <1>1, <1>2, <1>4, ReceiveMoves DEF Quiet, Moves
<1>5. CASE print(p)
  <2>1. /\ UNCHANGED <<queue, lastId, serverVars, pending, signals>>
        /\ printed' = [printed EXCEPT ![p] = printed[p] \o logger[p].buf]
        /\ logger' = [logger EXCEPT ![p].at = "loop", ![p].buf = <<>>]
    BY <1>5 DEF print
  <2>2. lastId \in Nat /\ logger \in [Servers -> LoggerRecords(lastId)]
    BY DEF Types
  <2>3. logger[p].buf \in Seq(Messages)
    BY <2>2 DEF LoggerRecords
  <2>4. Moves(logger, logger', lastId, p, "loop", <<>>)
    <3>1. "loop" \in LoggerAts /\ <<>> \in Seq(Messages)
      BY DEF LoggerAts
    <3> QED BY <2>1, <2>2, <3>1, LoggerUpdates
  <2>5. printed' \in [Servers -> Seq(Messages)]
    BY <1>2, <2>1, <2>3
  <2> QED BY <2>1, <2>4, <2>5, <1>1, <1>2 DEF Moves
<1>6. CASE deliver(p)
  <2>1. UNCHANGED <<lastId, serverVars, signals, printed>>
    BY <1>6 DEF deliver
  <2>2. pending' \in [Servers -> SUBSET {"SIGHUP", "SIGINT"}]
    BY <1>2, <1>6 DEF deliver
  <2> QED BY <2>1, <2>2, <1>1, <1>2, <1>6, DeliverIsQuiet DEF Quiet
<1> QED BY <1>3, <1>4, <1>5, <1>6 DEF LoggerStep

\* A thread that enters msgsnd, leaves it, and a signal that is sent or kills.
LEMMA SendTypes ==
  ASSUME Types,
         \/ \E p \in Servers : srv_log(p) \/ sigint(p) \/ killed(p)
         \/ \E k \in 1..MaxMsgs : msgsnd(k)
  PROVE  Types'
<1> USE DEF serverVars, loggerVars
<1>1. /\ lastId \in Nat /\ queue \in QueueRecords(lastId) /\ Len(queue.msgs) <= QueueLength
      /\ server \in [Servers -> ServerRecords(lastId)]
      /\ calls \in Seq(Servers) /\ Len(calls) <= MaxMsgs /\ sending \subseteq DOMAIN calls
      /\ logger \in [Servers -> LoggerRecords(lastId)]
      /\ pending \in [Servers -> SUBSET {"SIGHUP", "SIGINT"}]
      /\ signals \in 0..MaxSignals /\ printed \in [Servers -> Seq(Messages)]
  BY DEF Types
<1>2. ASSUME NEW p \in Servers, srv_log(p)
      PROVE  Types'
  <2>1. /\ calls' = Append(calls, p) /\ Len(calls) < MaxMsgs
        /\ sending' = sending \cup {Len(calls) + 1}
        /\ UNCHANGED <<queue, lastId, server, loggerVars>>
    BY <1>2 DEF srv_log
  <2>2. calls' \in Seq(Servers) /\ Len(calls') <= MaxMsgs /\ DOMAIN calls' = 1..(Len(calls) + 1)
    BY <1>1, <2>1, LoggingConstants
  <2>3. sending' \subseteq DOMAIN calls'
    BY <1>1, <2>1, <2>2
  <2> QED BY <1>1, <2>1, <2>2, <2>3, TypesPrime
<1>3. ASSUME NEW p \in Servers, sigint(p)
      PROVE  Types'
  <2>1. /\ signals < MaxSignals /\ signals' = signals + 1
        /\ pending' = [pending EXCEPT ![p] = pending[p] \cup {"SIGINT"}]
        /\ UNCHANGED <<queue, lastId, serverVars, logger, printed>>
    BY <1>3 DEF sigint
  <2>2. signals' \in 0..MaxSignals
    BY <1>1, <2>1, LoggingConstants
  <2>3. pending' \in [Servers -> SUBSET {"SIGHUP", "SIGINT"}]
    BY <1>1, <2>1
  <2> QED BY <1>1, <2>1, <2>2, <2>3, TypesPrime
<1>4. ASSUME NEW k \in 1..MaxMsgs, msgsnd(k)
      PROVE  Types'
  <2>1. /\ sending' = sending \ {k} /\ UNCHANGED <<lastId, server, calls, loggerVars>>
        /\ \/ queue' = queue
           \/ Len(queue.msgs) < QueueLength /\ queue' = [queue EXCEPT !.msgs = Append(@, k)]
    BY <1>4 DEF msgsnd
  <2>2. queue' \in QueueRecords(lastId) /\ Len(queue'.msgs) <= QueueLength
    <3>1. queue.msgs \in Seq(Messages) /\ k \in Messages
      BY <1>1 DEF QueueRecords, Messages
    <3>2. /\ Append(queue.msgs, k) \in Seq(Messages)
          /\ Len(Append(queue.msgs, k)) = Len(queue.msgs) + 1
      BY <3>1
    <3>3. CASE queue' = queue
      BY <1>1, <3>3
    <3>4. CASE Len(queue.msgs) < QueueLength /\ queue' = [queue EXCEPT !.msgs = Append(@, k)]
      <4>1. queue' \in QueueRecords(lastId) /\ queue'.msgs = Append(queue.msgs, k)
        BY <1>1, <3>2, <3>4 DEF QueueRecords
      <4> QED BY <3>1, <3>2, <3>4, <4>1, LoggingConstants
    <3> QED BY <2>1, <3>3, <3>4
  <2> QED BY <1>1, <2>1, <2>2, TypesPrime
<1>5. ASSUME NEW p \in Servers, killed(p)
      PROVE  Types'
  <2>1. signals < MaxSignals /\ signals' = signals + 1
    BY <1>5 DEF killed
  <2>2. signals' \in 0..MaxSignals
    BY <1>1, <2>1, LoggingConstants
  <2>3. Quiet(p) /\ UNCHANGED <<queue, lastId, serverVars, pending, printed>>
    BY <1>5, KilledIsQuiet
  <2>4. logger' \in [Servers -> LoggerRecords(lastId')]
    BY <2>3 DEF Quiet
  <2> QED BY <1>1, <2>2, <2>3, <2>4, TypesPrime
<1> QED BY <1>2, <1>3, <1>4, <1>5
\* A type with room for one identifier more.
LEMMA Wider ==
  ASSUME NEW n \in Nat
  PROVE  /\ \A f \in [Servers -> ServerRecords(n)] : f \in [Servers -> ServerRecords(n + 1)]
         /\ \A f \in [Servers -> LoggerRecords(n)] : f \in [Servers -> LoggerRecords(n + 1)]
<1>1. 0..n \subseteq 0..(n + 1)
  OBVIOUS
<1>2. ServerRecords(n) \subseteq ServerRecords(n + 1)
  BY <1>1 DEF ServerRecords
<1>3. LoggerRecords(n) \subseteq LoggerRecords(n + 1)
  BY <1>1 DEF LoggerRecords
<1> QED BY <1>2, <1>3

\* set_log fails, opens the queue or creates it with a new identifier.
LEMMA SetLogReplaces ==
  ASSUME Types, NEW p \in Servers, set_log(p)
  PROVE  \/ /\ UNCHANGED <<queue, lastId>>
            /\ Replaces(server, server', lastId, p, "run", server[p].msqid, server[p].log_set)
         \/ /\ UNCHANGED <<queue, lastId>> /\ queue.id # 0
            /\ Replaces(server, server', lastId, p, "fork", queue.id, server[p].log_set)
         \/ /\ lastId' = lastId + 1 /\ queue' = [id |-> lastId + 1, msgs |-> <<>>]
            /\ Replaces(server, server', lastId + 1, p, "fork", lastId + 1, server[p].log_set)
<1>1. lastId \in Nat /\ queue.id \in 0..lastId /\ server \in [Servers -> ServerRecords(lastId)]
  BY DEF Types, QueueRecords
<1>2. server \in [Servers -> ServerRecords(lastId + 1)]
  BY <1>1, Wider
<1>3. \/ server' = [server EXCEPT ![p].at = "run"] /\ UNCHANGED <<queue, lastId>>
      \/ /\ server' = [server EXCEPT ![p].at = "fork", ![p].msqid = queue.id]
         /\ UNCHANGED <<queue, lastId>> /\ queue.id # 0
      \/ /\ server' = [server EXCEPT ![p].at = "fork", ![p].msqid = lastId + 1]
         /\ lastId' = lastId + 1 /\ queue' = [id |-> lastId + 1, msgs |-> <<>>]
  BY DEF set_log
<1>4. ASSUME server' = [server EXCEPT ![p].at = "run"]
      PROVE  Replaces(server, server', lastId, p, "run", server[p].msqid, server[p].log_set)
  BY <1>1, <1>4, ServerUpdates
<1>5. ASSUME server' = [server EXCEPT ![p].at = "fork", ![p].msqid = queue.id]
      PROVE  Replaces(server, server', lastId, p, "fork", queue.id, server[p].log_set)
  BY <1>1, <1>5, ServerUpdates
<1>6. ASSUME server' = [server EXCEPT ![p].at = "fork", ![p].msqid = lastId + 1]
      PROVE  Replaces(server, server', lastId + 1, p, "fork", lastId + 1, server[p].log_set)
  <2>1. lastId + 1 \in Nat /\ lastId + 1 \in 0..(lastId + 1)
    BY <1>1
  <2> DEFINE n == lastId + 1
  <2> HIDE DEF n
  <2>2. /\ n \in Nat /\ n \in 0..n /\ server \in [Servers -> ServerRecords(n)]
        /\ server' = [server EXCEPT ![p].at = "fork", ![p].msqid = n]
    BY <1>2, <1>6, <2>1 DEF n
  <2>3. Replaces(server, server', n, p, "fork", n, server[p].log_set)
    BY <2>2, ServerUpdates
  <2> QED BY <2>3 DEF n
<1> QED BY <1>3, <1>4, <1>5, <1>6

\* fork ends set_log in the server and starts the logger, or fails to.
LEMMA ForkReplaces ==
  ASSUME Types, NEW p \in Servers, fork(p)
  PROVE  /\ Replaces(server, server', lastId, p, "run", server[p].msqid, 1)
         /\ logger' = logger \/ Moves(logger, logger', lastId, p, "forked", logger[p].buf)
<1>1. /\ lastId \in Nat /\ server \in [Servers -> ServerRecords(lastId)]
      /\ logger \in [Servers -> LoggerRecords(lastId)]
  BY DEF Types
<1>2. /\ server' = [server EXCEPT ![p].at = "run", ![p].log_set = 1]
      /\ logger' = logger \/ logger' = [logger EXCEPT ![p].at = "forked"]
  BY DEF fork
<1>3. Replaces(server, server', lastId, p, "run", server[p].msqid, 1)
  BY <1>1, <1>2, ServerUpdates
<1>4. ASSUME logger' = [logger EXCEPT ![p].at = "forked"]
      PROVE  Moves(logger, logger', lastId, p, "forked", logger[p].buf)
  BY <1>1, <1>4, LoggerUpdates DEF LoggerAts
<1> QED BY <1>2, <1>3, <1>4

\* The death of a server.
LEMMA DiesReplaces ==
  ASSUME Types, NEW p \in Servers, server_dies(p)
  PROVE  Replaces(server, server', lastId, p, "dead", server[p].msqid, server[p].log_set)
BY ServerUpdates DEF server_dies, Types

\* The steps of a server up to its loop, and its death, keep the types.
LEMMA ServerTypes ==
  ASSUME Types, NEW p \in Servers, set_log(p) \/ fork(p) \/ server_dies(p)
  PROVE  Types'
<1> USE DEF serverVars, loggerVars
<1>1. /\ lastId \in Nat /\ queue \in QueueRecords(lastId) /\ Len(queue.msgs) <= QueueLength
      /\ server \in [Servers -> ServerRecords(lastId)]
      /\ calls \in Seq(Servers) /\ Len(calls) <= MaxMsgs /\ sending \subseteq DOMAIN calls
      /\ logger \in [Servers -> LoggerRecords(lastId)]
      /\ pending \in [Servers -> SUBSET {"SIGHUP", "SIGINT"}]
      /\ signals \in 0..MaxSignals /\ printed \in [Servers -> Seq(Messages)]
  BY DEF Types
<1>2. CASE set_log(p)
  <2>1. UNCHANGED <<sending, calls, loggerVars>>
    BY <1>2 DEF set_log
  <2>2. CASE UNCHANGED <<queue, lastId>> /\ server' \in [Servers -> ServerRecords(lastId)]
    BY <1>1, <2>1, <2>2, TypesPrime
  <2>3. CASE /\ lastId' = lastId + 1 /\ queue' = [id |-> lastId + 1, msgs |-> <<>>]
             /\ server' \in [Servers -> ServerRecords(lastId + 1)]
    <3>1. queue' \in QueueRecords(lastId') /\ Len(queue'.msgs) <= QueueLength
      <4>1. lastId + 1 \in 0..lastId' /\ <<>> \in Seq(Messages) /\ Len(<<>>) <= QueueLength
        BY <1>1, <2>3, LoggingConstants
      <4> QED BY <2>3, <4>1 DEF QueueRecords
    <3>2. lastId' \in Nat /\ logger' \in [Servers -> LoggerRecords(lastId')]
      <4>1. logger \in [Servers -> LoggerRecords(lastId + 1)]
        BY <1>1, Wider
      <4> QED BY <1>1, <2>1, <2>3, <4>1
    <3> QED BY <1>1, <2>1, <2>3, <3>1, <3>2, TypesPrime
  <2> QED BY <1>2, <2>2, <2>3, SetLogReplaces DEF Replaces
<1>3. CASE fork(p)
  <2>1. UNCHANGED <<queue, lastId, sending, calls, pending, signals, printed>>
    BY <1>3 DEF fork
  <2>2. server' \in [Servers -> ServerRecords(lastId)] /\ logger' \in [Servers -> LoggerRecords(lastId)]
    BY <1>1, <1>3, ForkReplaces DEF Replaces, Moves
  <2> QED BY <1>1, <2>1, <2>2, TypesPrime
<1>4. CASE server_dies(p)
  <2>1. UNCHANGED <<queue, lastId, calls, logger, signals, printed>> /\ sending' \subseteq sending
    BY <1>4 DEF server_dies
  <2>2. server' \in [Servers -> ServerRecords(lastId)]
    BY <1>4, DiesReplaces DEF Replaces
  <2>3. pending' \in [Servers -> SUBSET {"SIGHUP", "SIGINT"}]
    BY <1>1, <1>4 DEF server_dies
  <2> QED BY <1>1, <2>1, <2>2, <2>3, TypesPrime
<1> QED BY <1>2, <1>3, <1>4

\* A step that changes nothing.
LEMMA StutterTypes ==
  ASSUME Types, UNCHANGED vars
  PROVE  Types'
BY DEF Types, vars, QueueRecords, ServerRecords, LoggerRecords, LoggerAts, Messages

\* Every step keeps the types.
LEMMA NextTypes ==
  ASSUME Types, [Next]_vars
  PROVE  Types'
BY LoggerTypes, SendTypes, ServerTypes, StutterTypes DEF Next

\* Every variable keeps its type: the identifiers are ones the kernel gave, the
\* queue never holds more than its length and no thread sends what was not
\* logged (server_logging.c, logger.c).
THEOREM LoggingTypes == Spec => []TypeOK
<1>1. Init => Types
  BY InitTypes
<1>2. Types /\ [Next]_vars => Types'
  BY NextTypes
<1> QED BY <1>1, <1>2, TypesImplyTypeOK, PTL DEF Spec

\* Control depends on these three variables.
LEMMA SameControl ==
  ASSUME Control, UNCHANGED <<server, logger, calls>>
  PROVE  Control'
BY DEF Control

\* A quiet step of a logger keeps Control.
LEMMA QuietControl ==
  ASSUME Control, NEW p \in Servers, Quiet(p), UNCHANGED <<server, calls>>
  PROVE  Control'
BY DEF Control, Quiet

\* So do the two steps that are not.
LEMMA MessageControl ==
  ASSUME Control, NEW p \in Servers, NEW n, NEW m, UNCHANGED <<server, calls>>,
         \/ logger[p].at = "loop" /\ Moves(logger, logger', n, p, "print", <<m>>)
         \/ logger[p].at = "print" /\ Moves(logger, logger', n, p, "loop", <<>>)
  PROVE  Control'
<1>1. Len(<<m>>) <= 1 /\ Len(<<>>) <= 1
  OBVIOUS
<1> QED BY <1>1 DEF Control, Moves

\* What the logger prints is its buffer, which it empties.
LEMMA PrintMoves ==
  ASSUME Types, NEW p \in Servers, print(p)
  PROVE  logger[p].at = "print" /\ Moves(logger, logger', lastId, p, "loop", <<>>)
<1>1. /\ lastId \in Nat /\ logger \in [Servers -> LoggerRecords(lastId)]
      /\ "loop" \in LoggerAts /\ <<>> \in Seq(Messages)
  BY DEF Types, LoggerAts
<1>2. logger' = [logger EXCEPT ![p].at = "loop", ![p].buf = <<>>] /\ logger[p].at = "print"
  BY DEF print
<1> QED BY <1>1, <1>2, LoggerUpdates

\* The messages logged are messages of servers.
LEMMA CallsServers ==
  ASSUME Types
  PROVE  /\ DOMAIN calls = 1..Len(calls) /\ Len(calls) \in Nat
         /\ \A k \in DOMAIN calls : calls[k] \in Servers /\ k \in Messages
BY LoggingConstants DEF Types, Messages

\* The steps of a server keep Control.
LEMMA ServerControl ==
  ASSUME Types, Control, NEW p \in Servers,
         set_log(p) \/ fork(p) \/ srv_log(p) \/ server_dies(p)
  PROVE  Control'
<1> USE DEF loggerVars
<1>1. lastId \in Nat /\ queue.id \in 0..lastId
  BY DEF Types, QueueRecords
<1>2. CASE set_log(p)
  <2>1. server[p].at = "off" /\ UNCHANGED <<calls, logger>>
    BY <1>2 DEF set_log
  <2>2. server[p].log_set # 1 /\ \A k \in DOMAIN calls : calls[k] \in Servers \ {p}
    BY <2>1, CallsServers DEF Control
  <2>3. ASSUME NEW n, NEW id \in Nat, id >= 1,
               Replaces(server, server', n, p, "fork", id, server[p].log_set)
        PROVE  Control'
    BY <2>1, <2>2, <2>3 DEF Control, Replaces
  <2>4. /\ server[p].msqid \in Nat /\ lastId + 1 \in Nat /\ lastId + 1 >= 1
        /\ queue.id \in Nat /\ (queue.id # 0 => queue.id >= 1)
    BY <1>1 DEF Types, ServerRecords
  <2>5. CASE Replaces(server, server', lastId, p, "run", server[p].msqid, server[p].log_set)
    BY <2>1, <2>2, <2>5 DEF Control, Replaces
  <2>6. CASE /\ queue.id # 0
             /\ Replaces(server, server', lastId, p, "fork", queue.id, server[p].log_set)
    BY <2>3, <2>4, <2>6
  <2>7. CASE Replaces(server, server', lastId + 1, p, "fork", lastId + 1, server[p].log_set)
    BY <2>3, <2>4, <2>7
  <2> QED BY <1>2, <2>5, <2>6, <2>7, SetLogReplaces
<1>3. CASE fork(p)
  <2>1. server[p].at = "fork" /\ UNCHANGED calls
    BY <1>3 DEF fork
  <2>2. logger[p].at = "none" /\ logger[p].buf = <<>> /\ server[p].msqid >= 1
    BY <2>1 DEF Control
  <2>3. \A k \in DOMAIN calls : calls[k] \in Servers
    BY CallsServers
  <2> QED BY <1>3, <2>1, <2>2, <2>3, ForkReplaces DEF Control, Replaces, Moves
<1>4. CASE srv_log(p)
  <2>1. server[p].log_set = 1 /\ calls' = Append(calls, p) /\ UNCHANGED <<server, logger>>
    BY <1>4 DEF srv_log
  <2>2. \A k \in DOMAIN calls' : (k \in DOMAIN calls /\ calls'[k] = calls[k]) \/ calls'[k] = p
    BY <2>1 DEF Types
  <2> QED BY <2>1, <2>2 DEF Control
<1>5. CASE server_dies(p)
  <2>1. UNCHANGED <<calls, logger>> /\ server[p].at \in {"fork", "run"}
    BY <1>5 DEF server_dies
  <2>2. \A k \in DOMAIN calls : calls[k] \in Servers
    BY CallsServers
  <2> QED BY <1>5, <2>1, <2>2, DiesReplaces DEF Control, Replaces
<1> QED BY <1>2, <1>3, <1>4, <1>5

\* Every step keeps Control.
LEMMA NextControl ==
  ASSUME Types, Control, [Next]_vars
  PROVE  Control'
<1> USE DEF serverVars, loggerVars
<1>1. ASSUME NEW p \in Servers, set_log(p) \/ fork(p) \/ srv_log(p) \/ server_dies(p)
      PROVE  Control'
  BY <1>1, ServerControl
<1>2. ASSUME NEW p \in Servers,
             \/ execl(p) \/ prctl(p) \/ set_handlers(p) \/ open_queue(p) \/ fopen(p)
             \/ header(p) \/ ready(p)
      PROVE  Control'
  BY <1>2, StartIsQuiet, QuietControl
<1>3. ASSUME NEW p \in Servers, msgrcv(p)
      PROVE  Control'
  <2>1. UNCHANGED <<server, calls>>
    BY <1>3 DEF msgrcv
  <2> QED BY <1>3, <2>1, ReceiveMoves, QuietControl, MessageControl
<1>4. ASSUME NEW p \in Servers, print(p)
      PROVE  Control'
  <2>1. UNCHANGED <<server, calls>>
    BY <1>4 DEF print
  <2> QED BY <1>4, <2>1, PrintMoves, MessageControl
<1>5. ASSUME NEW p \in Servers, deliver(p)
      PROVE  Control'
  <2>1. UNCHANGED <<server, calls>>
    BY <1>5 DEF deliver
  <2> QED BY <1>5, <2>1, DeliverIsQuiet, QuietControl
<1>6. ASSUME UNCHANGED vars \/ (\E p \in Servers : sigint(p)) \/ (\E k \in 1..MaxMsgs : msgsnd(k))
      PROVE  Control'
  BY <1>6, SameControl DEF vars, sigint, msgsnd
<1>7. ASSUME NEW p \in Servers, killed(p)
      PROVE  Control'
  BY <1>7, KilledIsQuiet, QuietControl
<1> QED BY <1>1, <1>2, <1>3, <1>4, <1>5, <1>6, <1>7 DEF Next, LoggerStep

-----------------------------------------------------------------------------
(* Where the messages are.                                                 *)

\* The sequences the messages are in.
LEMMA MessageSequences ==
  ASSUME Types
  PROVE  /\ queue.msgs \in Seq(Messages)
         /\ \A p \in Servers : logger[p].buf \in Seq(Messages) /\ printed[p] \in Seq(Messages)
<1>1. queue.msgs \in Seq(Messages)
  BY DEF Types, QueueRecords
<1>2. \A p \in Servers : logger[p].buf \in Seq(Messages)
  BY DEF Types, LoggerRecords
<1> QED BY <1>1, <1>2 DEF Types

\* Messages leave the queue or msgsnd only when their queue is not the server's
\* any more; they move nowhere else.
LEMMA NobodyMoves ==
  ASSUME Located, UNCHANGED <<calls, printed>>, sending' \subseteq sending,
         queue'.msgs = queue.msgs \/ queue'.msgs = <<>>,
         \A p \in Servers : logger'[p].buf = logger[p].buf,
         \A k \in DOMAIN calls :
           Live(k)' => /\ Live(k) /\ queue'.msgs = queue.msgs
                       /\ k \in sending => k \in sending'
  PROVE  Located'
<1>1. DOMAIN queue'.msgs \subseteq DOMAIN queue.msgs
      /\ \A i \in DOMAIN queue'.msgs : queue'.msgs[i] = queue.msgs[i]
  OBVIOUS
<1>2. ASSUME NEW m
      PROVE  /\ Queued(m)' => Queued(m)
             /\ Buffered(m)' <=> Buffered(m)
             /\ Printed(m)' <=> Printed(m)
  BY <1>1 DEF Queued, Buffered, Printed
<1>3. Once'
  BY <1>1 DEF Located, Once
<1>4. Apart' /\ Logged'
  BY <1>2 DEF Located, Apart, Logged
<1>5. Somewhere'
  <2> SUFFICES ASSUME NEW k \in DOMAIN calls, Live(k)'
               PROVE  (k \in sending \/ Queued(k) \/ Buffered(k) \/ Printed(k))'
    BY DEF Somewhere
  <2>1. Live(k) /\ queue'.msgs = queue.msgs /\ (k \in sending => k \in sending')
    OBVIOUS
  <2>2. k \in sending \/ Queued(k) \/ Buffered(k) \/ Printed(k)
    BY <2>1 DEF Located, Somewhere
  <2>3. Queued(k)' <=> Queued(k)
    BY <2>1 DEF Queued
  <2> QED BY <1>2, <2>1, <2>2, <2>3
<1> QED BY <1>3, <1>4, <1>5 DEF Located

\* srv_log: a new message, with the thread that sends it.
LEMMA LogMoves ==
  ASSUME Types, Control, Located, NEW p \in Servers, srv_log(p)
  PROVE  Located'
<1> DEFINE n == Len(calls) + 1
<1>1. /\ calls' = Append(calls, p) /\ sending' = sending \cup {n} /\ Len(calls) < MaxMsgs
      /\ UNCHANGED <<queue, server, logger, printed>>
  BY DEF srv_log, loggerVars
<1>2. calls \in Seq(Servers) /\ Len(calls) \in Nat /\ DOMAIN calls = 1..Len(calls)
  BY CallsServers DEF Types
<1>3. /\ DOMAIN calls' = DOMAIN calls \cup {n} /\ n \notin DOMAIN calls /\ n \in Messages
      /\ \A k \in DOMAIN calls : calls'[k] = calls[k]
  BY <1>1, <1>2, LoggingConstants DEF Messages
<1> HIDE DEF n
<1>4. ASSUME NEW m
      PROVE  (Queued(m)' <=> Queued(m)) /\ (Buffered(m)' <=> Buffered(m)) /\ (Printed(m)' <=> Printed(m))
  BY <1>1 DEF Queued, Buffered, Printed
<1>5. Once'
  BY <1>1 DEF Located, Once
<1>6. ~Queued(n) /\ ~Buffered(n) /\ ~Printed(n)
  BY <1>3 DEF Located, Logged
<1>7. Apart'
  BY <1>1, <1>4, <1>6 DEF Located, Apart
<1>8. Logged'
  BY <1>3, <1>4 DEF Located, Logged
<1>9. Somewhere'
  <2> SUFFICES ASSUME NEW k \in DOMAIN calls', Live(k)'
               PROVE  (k \in sending \/ Queued(k) \/ Buffered(k) \/ Printed(k))'
    BY DEF Somewhere
  <2>1. CASE k = n
    BY <1>1, <2>1
  <2>2. CASE k \in DOMAIN calls
    <3>1. Live(k)
      BY <1>1, <1>3, <2>2 DEF Live
    <3>2. k \in sending \/ Queued(k) \/ Buffered(k) \/ Printed(k)
      BY <2>2, <3>1 DEF Located, Somewhere
    <3> QED BY <1>1, <1>4, <3>2
  <2> QED BY <1>3, <2>1, <2>2
<1> QED BY <1>5, <1>7, <1>8, <1>9 DEF Located

\* msgsnd that has room: the message goes from its thread to the end of the queue.
LEMMA SendMoves ==
  ASSUME Types, Located, NEW k \in sending, sending' = sending \ {k},
         queue' = [queue EXCEPT !.msgs = Append(@, k)], UNCHANGED <<server, calls, logger, printed>>
  PROVE  Located'
<1>1. k \in Messages /\ k \in DOMAIN calls /\ queue.msgs \in Seq(Messages)
  BY CallsServers, MessageSequences DEF Types
<1>2. queue'.msgs = Append(queue.msgs, k) /\ queue'.id = queue.id
  BY DEF Types, QueueRecords
<1>3. /\ DOMAIN queue'.msgs = DOMAIN queue.msgs \cup {Len(queue.msgs) + 1}
      /\ \A i \in DOMAIN queue.msgs : queue'.msgs[i] = queue.msgs[i]
      /\ queue'.msgs[Len(queue.msgs) + 1] = k
  BY <1>1, <1>2
<1>4. ~Queued(k) /\ ~Buffered(k) /\ ~Printed(k)
  BY <1>1 DEF Located, Apart
<1>5. ASSUME NEW m
      PROVE  /\ Queued(m)' <=> Queued(m) \/ m = k
             /\ Buffered(m)' <=> Buffered(m)
             /\ Printed(m)' <=> Printed(m)
  BY <1>3 DEF Queued, Buffered, Printed
<1>6. Once'
  <2>1. \A i, j \in DOMAIN queue'.msgs : queue'.msgs[i] = queue'.msgs[j] => i = j
    BY <1>3, <1>4 DEF Located, Once, Queued
  <2> QED BY <2>1 DEF Located, Once
<1>7. Apart'
  BY <1>4, <1>5 DEF Located, Apart
<1>8. Logged'
  BY <1>1, <1>5 DEF Located, Logged
<1>9. Somewhere'
  BY <1>2, <1>5 DEF Located, Somewhere, Live
<1> QED BY <1>6, <1>7, <1>8, <1>9 DEF Located

\* msgrcv: the message goes from the head of the queue to the buffer.
LEMMA ReceiveLocated ==
  ASSUME Types, Control, Located, NEW p \in Servers, queue.msgs # <<>>, logger[p].at = "loop",
         Moves(logger, logger', lastId, p, "print", <<Head(queue.msgs)>>),
         queue' = [queue EXCEPT !.msgs = Tail(@)], UNCHANGED <<server, calls, sending, printed>>
  PROVE  Located'
<1> DEFINE h == Head(queue.msgs)
<1>1. queue.msgs \in Seq(Messages) /\ Len(queue.msgs) \in Nat \ {0}
  BY MessageSequences
<1>2. /\ h = queue.msgs[1] /\ h \in Messages /\ 1 \in DOMAIN queue.msgs
      /\ logger[p].buf = <<>> /\ logger'[p].buf = <<h>>
      /\ \A q \in Servers \ {p} : logger'[q].buf = logger[q].buf
  BY <1>1 DEF Control, Moves
<1> HIDE DEF h
<1>3. queue'.msgs = Tail(queue.msgs) /\ queue'.id = queue.id
  BY DEF Types, QueueRecords
<1>4. /\ \A i \in DOMAIN queue'.msgs : i + 1 \in DOMAIN queue.msgs /\ queue'.msgs[i] = queue.msgs[i + 1]
      /\ \A i \in DOMAIN queue.msgs : i = 1 \/ i - 1 \in DOMAIN queue'.msgs
      /\ \A i \in DOMAIN queue'.msgs : i \in Nat \ {0}
      /\ \A i \in DOMAIN queue.msgs : i \in Nat \ {0}
  BY <1>1, <1>3
<1>5. \A i, j \in DOMAIN queue.msgs : queue.msgs[i] = queue.msgs[j] => i = j
  BY DEF Located, Once
<1>6. Queued(h) /\ ~Buffered(h) /\ ~Printed(h) /\ h \notin sending
  BY <1>2 DEF Located, Apart, Queued
<1>7. ASSUME NEW m
      PROVE  /\ Queued(m)' <=> Queued(m) /\ m # h
             /\ Buffered(m)' <=> Buffered(m) \/ m = h
             /\ Printed(m)' <=> Printed(m)
  <2>1. ASSUME Queued(m)' PROVE Queued(m) /\ m # h
    <3>1. PICK i \in DOMAIN queue'.msgs : queue'.msgs[i] = m
      BY <2>1 DEF Queued
    <3>2. i + 1 \in DOMAIN queue.msgs /\ queue.msgs[i + 1] = m /\ i + 1 # 1
      BY <1>4, <3>1
    <3> QED BY <1>2, <1>5, <3>2 DEF Queued
  <2>2. ASSUME Queued(m), m # h PROVE Queued(m)'
    <3>1. PICK i \in DOMAIN queue.msgs : queue.msgs[i] = m
      BY <2>2 DEF Queued
    <3>2. i - 1 \in DOMAIN queue'.msgs /\ (i - 1) + 1 = i
      BY <1>2, <1>4, <2>2, <3>1
    <3>3. queue'.msgs[i - 1] = m
      BY <1>4, <3>1, <3>2
    <3> QED BY <3>2, <3>3 DEF Queued
  <2>3. Buffered(m)' <=> Buffered(m) \/ m = h
    BY <1>2 DEF Buffered
  <2> QED BY <2>1, <2>2, <2>3 DEF Printed
<1>8. Once'
  <2>1. ASSUME NEW i \in DOMAIN queue'.msgs, NEW j \in DOMAIN queue'.msgs,
               queue'.msgs[i] = queue'.msgs[j]
        PROVE  i = j
    <3>1. i + 1 = j + 1
      BY <1>4, <1>5, <2>1
    <3> QED BY <1>4, <3>1
  <2>2. \A q, r \in Servers : \A m \in Messages :
          logger'[q].buf = <<m>> /\ logger'[r].buf = <<m>> => q = r
    BY <1>2, <1>6 DEF Located, Once, Buffered
  <2> QED BY <2>1, <2>2 DEF Located, Once
<1>9. Apart'
  BY <1>6, <1>7 DEF Located, Apart
<1>10. Logged'
  BY <1>6, <1>7 DEF Located, Logged
<1>11. Somewhere'
  BY <1>3, <1>7 DEF Located, Somewhere, Live
<1> QED BY <1>8, <1>9, <1>10, <1>11 DEF Located

\* A sequence that is not empty and no longer than one.
LEMMA OneMessage ==
  ASSUME NEW s \in Seq(Messages), s # <<>>, Len(s) <= 1
  PROVE  s = <<s[1]>> /\ s[1] \in Messages
<1>1. Len(s) \in Nat \ {0}
  OBVIOUS
<1>2. \A n \in Nat \ {0} : n <= 1 => n = 1
  OBVIOUS
<1>3. Len(s) = 1
  BY <1>1, <1>2
<1> QED BY <1>3

\* print: the message goes from the buffer to what was printed.
LEMMA PrintLocated ==
  ASSUME Types, Control, Located, NEW p \in Servers, print(p)
  PROVE  Located'
<1>1. /\ printed' = [printed EXCEPT ![p] = printed[p] \o logger[p].buf]
      /\ UNCHANGED <<queue, server, calls, sending>>
  BY DEF print, serverVars
<1>2. /\ logger[p].buf \in Seq(Messages) /\ printed[p] \in Seq(Messages)
      /\ printed \in [Servers -> Seq(Messages)] /\ Len(logger[p].buf) <= 1
  BY MessageSequences DEF Types, Control
<1>3. logger'[p].buf = <<>> /\ \A q \in Servers \ {p} : logger'[q].buf = logger[q].buf
  BY PrintMoves DEF Moves
<1>4. CASE logger[p].buf = <<>>
  <2>1. printed' = printed
    <3>1. printed[p] \o logger[p].buf = printed[p]
      BY <1>2, <1>4
    <3> QED BY <1>1, <1>2, <3>1
  <2>2. \A q \in Servers : logger'[q].buf = logger[q].buf
    BY <1>3, <1>4
  <2>3. \A k \in DOMAIN calls : Live(k)' => Live(k)
    BY <1>1 DEF Live
  <2> QED BY <1>1, <2>1, <2>2, <2>3, NobodyMoves
<1>5. CASE logger[p].buf # <<>>
  <2> DEFINE m == logger[p].buf[1]
             n == Len(printed[p]) + 1
  <2>1. logger[p].buf = <<m>> /\ m \in Messages
    BY <1>2, <1>5, OneMessage
  <2>2. printed'[p] = Append(printed[p], m) /\ \A q \in Servers \ {p} : printed'[q] = printed[q]
    <3> HIDE DEF m
    <3>1. printed[p] \o <<m>> = Append(printed[p], m)
      BY <1>2, <2>1
    <3> QED BY <1>1, <1>2, <2>1, <3>1
  <2> HIDE DEF m
  <2>3. /\ DOMAIN printed'[p] = DOMAIN printed[p] \cup {n} /\ n \notin DOMAIN printed[p]
        /\ printed'[p][n] = m
        /\ \A i \in DOMAIN printed[p] : printed'[p][i] = printed[p][i]
    BY <1>2, <2>1, <2>2
  <2> HIDE DEF n
  <2>4. Buffered(m) /\ ~Queued(m) /\ ~Printed(m) /\ m \notin sending
    BY <2>1 DEF Located, Apart, Buffered
  <2>5. \A q \in Servers : logger[q].buf = <<m>> => q = p
    BY <2>1 DEF Located, Once
  <2>6. ASSUME NEW x \in Messages
        PROVE  /\ Queued(x)' <=> Queued(x)
               /\ Buffered(x)' <=> Buffered(x) /\ x # m
               /\ Printed(x)' <=> Printed(x) \/ x = m
    <3>1. Queued(x)' <=> Queued(x)
      BY <1>1 DEF Queued
    <3>2. Buffered(x)' <=> Buffered(x) /\ x # m
      <4>1. <<x>> # <<>> /\ (<<x>> = <<m>> <=> x = m)
        OBVIOUS
      <4> QED BY <1>3, <2>1, <2>5, <4>1 DEF Buffered
    <3>3. Printed(x)' <=> Printed(x) \/ x = m
      BY <2>2, <2>3 DEF Printed
    <3> QED BY <3>1, <3>2, <3>3
  <2>7. Once'
    <3>1. \A q, r \in Servers : \A x \in Messages :
            logger'[q].buf = <<x>> /\ logger'[r].buf = <<x>> => q = r
      BY <1>3 DEF Located, Once
    <3>2. ASSUME NEW q \in Servers, NEW r \in Servers, NEW i \in DOMAIN printed'[q],
                 NEW j \in DOMAIN printed'[r], printed'[q][i] = printed'[r][j]
          PROVE  q = r /\ i = j
      <4>1. ASSUME NEW t \in Servers, NEW l \in DOMAIN printed'[t]
            PROVE  \/ t = p /\ l = n /\ printed'[t][l] = m
                   \/ l \in DOMAIN printed[t] /\ printed'[t][l] = printed[t][l] /\ printed[t][l] # m
        BY <2>2, <2>3, <2>4 DEF Printed
      <4> QED BY <3>2, <4>1 DEF Located, Once
    <3>3. \A i, j \in DOMAIN queue'.msgs : queue'.msgs[i] = queue'.msgs[j] => i = j
      BY <1>1 DEF Located, Once
    <3> QED BY <3>1, <3>2, <3>3 DEF Once
  <2>8. Apart'
    BY <1>1, <2>4, <2>6 DEF Located, Apart
  <2>9. Logged'
    BY <1>1, <2>4, <2>6 DEF Located, Logged
  <2>10. Somewhere'
    BY <1>1, <2>4, <2>6, CallsServers DEF Located, Somewhere, Live
  <2> QED BY <2>7, <2>8, <2>9, <2>10 DEF Located
<1> QED BY <1>4, <1>5

\* A server that has logged has opened a queue, and none after the last one.
LEMMA OpenedQueue ==
  ASSUME Types, Control, NEW k \in DOMAIN calls
  PROVE  /\ calls[k] \in Servers /\ server[calls[k]].log_set = 1
         /\ server[calls[k]].msqid \in 1..lastId /\ server[calls[k]].at \in {"run", "dead"}
<1>1. calls[k] \in Servers /\ server[calls[k]].log_set = 1
  BY CallsServers DEF Control
<1>2. server[calls[k]].msqid \in 0..lastId /\ server[calls[k]].msqid >= 1
  BY <1>1 DEF Types, ServerRecords, Control
<1>3. server[calls[k]].at \in {"run", "dead"}
  BY <1>1 DEF Control
<1> QED BY <1>1, <1>2, <1>3 DEF Types

\* The steps of a server other than srv_log move no message of a live server.
LEMMA ServerLocated ==
  ASSUME Types, Control, Located, NEW p \in Servers, set_log(p) \/ fork(p) \/ server_dies(p)
  PROVE  Located'
<1> USE DEF loggerVars
<1>0. lastId \in Nat
  BY DEF Types
<1>1. CASE set_log(p)
  <2>1. UNCHANGED <<calls, sending, logger, printed>> /\ server[p].at = "off"
    BY <1>1 DEF set_log
  <2>2. \A q \in Servers \ {p} : server'[q] = server[q]
    BY <1>1, SetLogReplaces DEF Replaces
  <2>3. queue' = queue \/ queue' = [id |-> lastId + 1, msgs |-> <<>>]
    BY <1>1, SetLogReplaces
  <2>4. ASSUME NEW k \in DOMAIN calls, Live(k)'
        PROVE  Live(k) /\ queue'.msgs = queue.msgs
    <3>1. server'[calls[k]] = server[calls[k]] /\ server[calls[k]].msqid \in 1..lastId
      BY <2>1, <2>2, OpenedQueue
    <3>2. queue'.id = server[calls[k]].msqid
      BY <2>1, <2>4, <3>1 DEF Live
    <3>3. queue' = queue
      BY <1>0, <2>3, <3>1, <3>2
    <3> QED BY <2>1, <2>4, <3>1, <3>3 DEF Live
  <2>5. queue'.msgs = queue.msgs \/ queue'.msgs = <<>>
    BY <2>3
  <2> QED BY <2>1, <2>4, <2>5, NobodyMoves
<1>2. CASE fork(p)
  <2>1. UNCHANGED <<calls, sending, queue, printed>> /\ server[p].at = "fork"
    BY <1>2 DEF fork
  <2>2. /\ \A q \in Servers \ {p} : server'[q] = server[q]
        /\ \A q \in Servers : logger'[q].buf = logger[q].buf
    BY <1>2, ForkReplaces DEF Replaces, Moves
  <2>3. \A k \in DOMAIN calls : server'[calls[k]] = server[calls[k]]
    BY <2>1, <2>2, OpenedQueue
  <2>4. \A k \in DOMAIN calls : Live(k)' => Live(k)
    BY <2>1, <2>3 DEF Live
  <2> QED BY <2>1, <2>2, <2>4, NobodyMoves
<1>3. CASE server_dies(p)
  <2>1. UNCHANGED <<calls, queue, printed, logger>> /\ sending' = sending \ Sending(p)
    BY <1>3 DEF server_dies
  <2>2. server'[p].at = "dead" /\ \A q \in Servers \ {p} : server'[q] = server[q]
    BY <1>3, DiesReplaces DEF Replaces
  <2>3. ASSUME NEW k \in DOMAIN calls, Live(k)'
        PROVE  Live(k) /\ (k \in sending => k \in sending')
    <3>1. calls[k] \in Servers \ {p}
      BY <2>1, <2>2, <2>3, OpenedQueue DEF Live
    <3> QED BY <2>1, <2>2, <2>3, <3>1 DEF Live, Sending
  <2> QED BY <2>1, <2>3, NobodyMoves
<1> QED BY <1>1, <1>2, <1>3

\* So do the quiet steps of a logger: a queue that goes leaves no server live.
LEMMA QuietLocated ==
  ASSUME Types, Control, Located, NEW p \in Servers, Quiet(p),
         UNCHANGED <<server, calls, sending, printed>>,
         queue' \in {queue, [id |-> 0, msgs |-> <<>>]}
  PROVE  Located'
<1>1. \A q \in Servers : logger'[q].buf = logger[q].buf
  BY DEF Quiet
<1>2. ASSUME NEW k \in DOMAIN calls, Live(k)'
      PROVE  Live(k) /\ queue'.msgs = queue.msgs
  <2>1. server[calls[k]].msqid # 0
    BY OpenedQueue
  <2>2. queue' = queue
    BY <1>2, <2>1 DEF Live
  <2> QED BY <1>2, <2>2 DEF Live
<1>3. queue'.msgs = queue.msgs \/ queue'.msgs = <<>>
  OBVIOUS
<1> QED BY <1>1, <1>2, <1>3, NobodyMoves

\* msgsnd: the message goes to the queue or, if its queue is gone, away.
LEMMA SendLocated ==
  ASSUME Types, Control, Located, NEW k \in 1..MaxMsgs, msgsnd(k)
  PROVE  Located'
<1>1. k \in sending /\ sending' = sending \ {k} /\ UNCHANGED <<server, calls, logger, printed>>
  BY DEF msgsnd, loggerVars
<1>2. CASE queue' = [queue EXCEPT !.msgs = Append(@, k)]
  BY <1>1, <1>2, SendMoves
<1>3. CASE queue.id # server[calls[k]].msqid /\ queue' = queue
  <2>1. \A j \in DOMAIN calls : Live(j)' => Live(j) /\ j # k
    BY <1>1, <1>3 DEF Live
  <2> QED BY <1>1, <1>3, <2>1, NobodyMoves
<1> QED BY <1>2, <1>3 DEF msgsnd

\* At the start there is no message.
LEMMA InitLog == Init => LogInv
<1> SUFFICES ASSUME Init PROVE LogInv
  OBVIOUS
<1>1. Types
  BY InitTypes
<1>2. Control
  <2>1. \A p \in Servers : /\ server[p].at = "off" /\ server[p].log_set = 0
                            /\ logger[p].at = "none" /\ logger[p].buf = <<>>
    BY DEF Init
  <2>2. calls = <<>> /\ DOMAIN calls = {} /\ Len(<<>>) <= 1
    BY DEF Init
  <2> QED BY <2>1, <2>2 DEF Control
<1>3. /\ queue.msgs = <<>> /\ DOMAIN queue.msgs = {}
      /\ \A p \in Servers : logger[p].buf = <<>> /\ DOMAIN printed[p] = {}
  BY DEF Init
<1>4. ASSUME NEW m PROVE ~Queued(m) /\ ~Buffered(m) /\ ~Printed(m)
  <2>1. Len(<<m>>) = 1 /\ Len(<<>>) = 0
    OBVIOUS
  <2>2. <<m>> # <<>>
    BY <2>1
  <2> QED BY <1>3, <2>2 DEF Queued, Buffered, Printed
<1>5. Once
  BY <1>3, <1>4 DEF Once, Buffered
<1>6. Apart /\ Logged /\ Somewhere
  BY <1>4 DEF Init, Apart, Logged, Somewhere
<1> QED BY <1>1, <1>2, <1>5, <1>6 DEF LogInv, Located

\* Every step keeps the invariant.
LEMMA NextLog == LogInv /\ [Next]_vars => LogInv'
<1> SUFFICES ASSUME LogInv, [Next]_vars PROVE LogInv'
  OBVIOUS
<1>0. Types /\ Control /\ Located
  BY DEF LogInv
<1>1. Types' /\ Control'
  BY <1>0, NextTypes, NextControl
<1>2. ASSUME NEW p \in Servers, set_log(p) \/ fork(p) \/ srv_log(p) \/ server_dies(p)
      PROVE  Located'
  BY <1>0, <1>2, ServerLocated, LogMoves
<1>3. ASSUME NEW p \in Servers,
             \/ execl(p) \/ prctl(p) \/ set_handlers(p) \/ open_queue(p) \/ fopen(p)
             \/ header(p) \/ ready(p)
      PROVE  Located'
  BY <1>0, <1>3, StartIsQuiet, QuietLocated DEF serverVars
<1>4. ASSUME NEW p \in Servers, msgrcv(p)
      PROVE  Located'
  <2>1. UNCHANGED <<server, calls, sending, printed>>
    BY <1>4 DEF msgrcv, serverVars
  <2>2. CASE Quiet(p) /\ queue' = queue
    BY <1>0, <2>1, <2>2, QuietLocated
  <2>3. CASE /\ Moves(logger, logger', lastId, p, "print", <<Head(queue.msgs)>>)
             /\ queue.msgs # <<>> /\ queue' = [queue EXCEPT !.msgs = Tail(@)]
             /\ logger[p].at = "loop"
    BY <1>0, <2>1, <2>3, ReceiveLocated
  <2> QED BY <1>0, <1>4, <2>2, <2>3, ReceiveMoves
<1>5. ASSUME NEW p \in Servers, print(p)
      PROVE  Located'
  BY <1>0, <1>5, PrintLocated
<1>6. ASSUME NEW p \in Servers, deliver(p)
      PROVE  Located'
  <2>1. UNCHANGED <<server, calls, sending, printed>>
    BY <1>6 DEF deliver, serverVars
  <2> QED BY <1>0, <1>6, <2>1, DeliverIsQuiet, QuietLocated
<1>7. ASSUME NEW k \in 1..MaxMsgs, msgsnd(k)
      PROVE  Located'
  BY <1>0, <1>7, SendLocated
<1>8. ASSUME UNCHANGED vars \/ (\E p \in Servers : sigint(p))
      PROVE  Located'
  <2>1. UNCHANGED <<queue, server, calls, sending, logger, printed>>
    BY <1>8 DEF vars, sigint, serverVars
  <2>2. \A k \in DOMAIN calls : Live(k)' => Live(k)
    BY <2>1 DEF Live
  <2> QED BY <1>0, <2>1, <2>2, NobodyMoves
<1>9. ASSUME NEW p \in Servers, killed(p)
      PROVE  Located'
  BY <1>0, <1>9, KilledIsQuiet, QuietLocated DEF serverVars
<1>10. Located'
  BY <1>2, <1>3, <1>4, <1>5, <1>6, <1>7, <1>8, <1>9 DEF Next, LoggerStep
<1> QED BY <1>1, <1>10 DEF LogInv

\* The places of a message, by kind.
LEMMA PlacesOf ==
  ASSUME NEW m
  PROVE  /\ m \in sending \/ Queued(m) \/ Buffered(m) \/ Printed(m) => Places(m) # {}
         /\ \A place \in Places(m) :
              \/ place = <<"sending">> /\ m \in sending
              \/ \E i \in DOMAIN queue.msgs : place = <<"queue", i>> /\ queue.msgs[i] = m
              \/ \E p \in Servers : place = <<"buf", p>> /\ logger[p].buf = <<m>>
              \/ \E p \in Servers : \E i \in DOMAIN printed[p] :
                   place = <<"printed", p, i>> /\ printed[p][i] = m
<1>1. m \in sending => <<"sending">> \in Places(m)
  BY DEF Places
<1>2. \A i \in DOMAIN queue.msgs : queue.msgs[i] = m => <<"queue", i>> \in Places(m)
  BY DEF Places
<1>3. \A p \in Servers : logger[p].buf = <<m>> => <<"buf", p>> \in Places(m)
  BY DEF Places
<1>4. \A p \in Servers : \A i \in DOMAIN printed[p] :
        printed[p][i] = m => <<"printed", p, i>> \in Places(m)
  BY DEF Places
<1>5. m \in sending \/ Queued(m) \/ Buffered(m) \/ Printed(m) => Places(m) # {}
  BY <1>1, <1>2, <1>3, <1>4 DEF Queued, Buffered, Printed
<1>6. ASSUME NEW place \in Places(m)
      PROVE  \/ place = <<"sending">> /\ m \in sending
             \/ \E i \in DOMAIN queue.msgs : place = <<"queue", i>> /\ queue.msgs[i] = m
             \/ \E p \in Servers : place = <<"buf", p>> /\ logger[p].buf = <<m>>
             \/ \E p \in Servers : \E i \in DOMAIN printed[p] :
                  place = <<"printed", p, i>> /\ printed[p][i] = m
  BY DEF Places
<1> QED BY <1>5, <1>6

\* Messages that are apart, and each once, have at most one place.
LEMMA OnePlace ==
  ASSUME Once, Apart, NEW m \in Messages, NEW a \in Places(m), NEW b \in Places(m)
  PROVE  a = b
<1> DEFINE InQueue(x) == \E i \in DOMAIN queue.msgs : x = <<"queue", i>> /\ queue.msgs[i] = m
           InBuffer(x) == \E p \in Servers : x = <<"buf", p>> /\ logger[p].buf = <<m>>
           InPrinted(x) == \E p \in Servers : \E i \in DOMAIN printed[p] :
                             x = <<"printed", p, i>> /\ printed[p][i] = m
<1>1. \A x \in Places(m) : \/ x = <<"sending">> /\ m \in sending
                           \/ InQueue(x) \/ InBuffer(x) \/ InPrinted(x)
  BY PlacesOf
<1>2. \A x : /\ InQueue(x) => Queued(m)
             /\ InBuffer(x) => Buffered(m)
             /\ InPrinted(x) => Printed(m)
  BY DEF Queued, Buffered, Printed
<1>3. InQueue(a) /\ InQueue(b) => a = b
  BY DEF Once
<1>4. InBuffer(a) /\ InBuffer(b) => a = b
  BY DEF Once
<1>5. InPrinted(a) /\ InPrinted(b) => a = b
  BY DEF Once
<1> HIDE DEF InQueue, InBuffer, InPrinted
<1> QED BY <1>1, <1>2, <1>3, <1>4, <1>5 DEF Apart

\* Every message of a server whose queue exists is in exactly one place.
LEMMA LogAccounted == LogInv => Accounted
<1> SUFFICES ASSUME LogInv, NEW k \in DOMAIN calls,
                    server[calls[k]].at = "run" /\ queue.id = server[calls[k]].msqid
             PROVE  \E place \in Places(k) : Places(k) = {place}
  BY DEF Accounted
<1>1. k \in Messages /\ Once /\ Apart
  BY CallsServers DEF LogInv, Located
<1>2. Places(k) # {}
  BY PlacesOf DEF LogInv, Located, Somewhere, Live
<1>3. \A a, b \in Places(k) : a = b
  BY <1>1, OnePlace
<1> QED BY <1>2, <1>3

\* While the queue a server opened exists, each message its threads gave to
\* srv_log is in exactly one place: with its thread, in the queue, in the buffer
\* of one logger or printed once, for any number of servers, loggers and threads
\* and any length of the queue (server_logging.c srv_log, logger.c main).
THEOREM MessagesAccounted == Spec => []Accounted
BY InitLog, NextLog, LogAccounted, PTL DEF Spec
=============================================================================
