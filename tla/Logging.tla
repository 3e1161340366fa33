------------------------------ MODULE Logging ------------------------------
(***************************************************************************)
(* server_logging.c and logger.c: the server's threads send their log      *)
(* messages to a System V message queue; a child process, the logger,      *)
(* prints them and is to close the queue when the server goes.             *)
(*                                                                         *)
(* A member of Servers is one run of server.bin, with the child it forks.  *)
(* Runs follow one another and may overlap: a second one, started while    *)
(* the port is taken, calls set_log before it finds that out and exits.    *)
(* The key of the queue is the same for all of them (ftok), so they all    *)
(* open the one queue that exists.  The kernel never gives the identifier  *)
(* of a removed queue again.                                               *)
(***************************************************************************)
EXTENDS Integers, Sequences, FiniteSets

CONSTANTS Servers,      \* runs of server.bin
          QueueLength,  \* messages of MAX_MSG_LEN that fit in the queue
          NThreads,     \* threads of a server that may be in srv_log
          MaxMsgs,      \* bound: messages logged in a behaviour
          MaxSignals    \* bound: signals users send to loggers

ASSUME LoggingConstants == /\ QueueLength \in Nat \ {0} /\ NThreads \in Nat \ {0}
                           /\ MaxMsgs \in Nat /\ MaxSignals \in Nat

VARIABLES
  queue,    \* the kernel's queue: [id, msgs]; id 0 when there is none
  lastId,   \* identifiers given so far
  server,   \* [at, msqid, log_set] of each server
  calls,    \* history: calls[k] is the server whose thread logged message k
  sending,  \* messages whose thread is in msgsnd
  logger,   \* [at, pdeathsig, msqid, q_set, logfile, buf] of its child
  pending,  \* signals on their way to the child
  signals,  \* signals users have sent
  printed   \* what each logger has printed

vars == <<queue, lastId, server, calls, sending, logger, pending, signals, printed>>

serverVars == <<server, calls, sending>>
loggerVars == <<logger, pending, signals, printed>>

Init == /\ queue = [id |-> 0, msgs |-> <<>>] /\ lastId = 0
        /\ server = [p \in Servers |-> [at |-> "off", msqid |-> 0, log_set |-> 0]]
        /\ calls = <<>> /\ sending = {}
        /\ logger = [p \in Servers |-> [at |-> "none", pdeathsig |-> FALSE, msqid |-> 0,
                                        q_set |-> 0, logfile |-> FALSE, buf |-> <<>>]]
        /\ pending = [p \in Servers |-> {}]
        /\ signals = 0
        /\ printed = [p \in Servers |-> <<>>]

Sending(p) == {k \in sending : calls[k] = p}
Alive(p) == logger[p].at \notin {"none", "copy", "exited", "killed"}

-----------------------------------------------------------------------------
(* The server.                                                             *)

\* set_log up to the fork: msgget opens the queue, or creates it.
set_log(p) ==
  /\ server[p].at = "off"
  /\ \/ /\ server' = [server EXCEPT ![p].at = "run"]          \* ftok or msgget fails
        /\ UNCHANGED <<queue, lastId>>
     \/ /\ queue.id # 0
        /\ server' = [server EXCEPT ![p].at = "fork", ![p].msqid = queue.id]
        /\ UNCHANGED <<queue, lastId>>
     \/ /\ queue.id = 0
        /\ lastId' = lastId + 1
        /\ queue' = [id |-> lastId + 1, msgs |-> <<>>]
        /\ server' = [server EXCEPT ![p].at = "fork", ![p].msqid = lastId + 1]
  /\ UNCHANGED <<sending, calls, loggerVars>>

\* fork, whose failure nobody looks at, and the rest of set_log.
fork(p) ==
  /\ server[p].at = "fork"
  /\ server' = [server EXCEPT ![p].at = "run", ![p].log_set = 1]
  /\ \/ logger' = [logger EXCEPT ![p].at = "forked"]
     \/ UNCHANGED logger
  /\ UNCHANGED <<queue, lastId, sending, calls, pending, signals, printed>>

\* A thread calls srv_log.  Without log_set it returns at once.
srv_log(p) ==
  /\ server[p].at = "run" /\ server[p].log_set = 1
  /\ Cardinality(Sending(p)) < NThreads /\ Len(calls) < MaxMsgs
  /\ calls' = Append(calls, p)
  /\ sending' = sending \cup {Len(calls) + 1}
  /\ UNCHANGED <<queue, lastId, server, loggerVars>>

\* Mutant: msgsnd with IPC_NOWAIT, its result ignored as now.
msgsnd_NoWait(k) ==
  /\ k \in sending /\ sending' = sending \ {k}
  /\ queue' = IF queue.id = server[calls[k]].msqid /\ Len(queue.msgs) < QueueLength
              THEN [queue EXCEPT !.msgs = Append(@, k)] ELSE queue
  /\ UNCHANGED <<lastId, server, calls, loggerVars>>

\* msgsnd waits for room in the queue; it fails if the queue has been removed,
\* also while it waits, and srv_log ignores that.
msgsnd(k) ==
  /\ k \in sending /\ sending' = sending \ {k}
  /\ \/ /\ queue.id = server[calls[k]].msqid /\ Len(queue.msgs) < QueueLength
        /\ queue' = [queue EXCEPT !.msgs = Append(@, k)]
     \/ /\ queue.id # server[calls[k]].msqid
        /\ UNCHANGED queue
  /\ UNCHANGED <<lastId, server, calls, loggerVars>>

\* The server exits or is killed.  The kernel sends SIGHUP to a child that has
\* asked for it.
server_dies(p) ==
  /\ server[p].at \in {"fork", "run"}
  /\ server' = [server EXCEPT ![p].at = "dead"]
  /\ sending' = sending \ Sending(p)
  /\ pending' = IF Alive(p) /\ logger[p].pdeathsig
                THEN [pending EXCEPT ![p] = @ \cup {"SIGHUP"}] ELSE pending
  /\ UNCHANGED <<queue, lastId, calls, logger, signals, printed>>

-----------------------------------------------------------------------------
(* The logger.                                                             *)

LoggerGoes(p, from, to) == logger[p].at = from /\ logger' = [logger EXCEPT ![p].at = to]

\* If execl fails the child goes on as a second server on the same queue.  One
\* of the two gets the port, the other exits; p stands for the one that stays,
\* and nobody reads the queue.
execl(p) == /\ \/ LoggerGoes(p, "forked", "main")
               \/ LoggerGoes(p, "forked", "copy")
            /\ UNCHANGED <<queue, lastId, serverVars, pending, signals, printed>>

\* Mutant: the death of the parent is not asked for.
prctl_Missing(p) == /\ LoggerGoes(p, "main", "handlers")
                    /\ UNCHANGED <<queue, lastId, serverVars, pending, signals, printed>>

\* prctl(PR_SET_PDEATHSIG, SIGHUP).  If the server is dead already, the kernel
\* will not tell.
prctl(p) == /\ logger[p].at = "main"
            /\ logger' = [logger EXCEPT ![p].at = "handlers", ![p].pdeathsig = TRUE]
            /\ UNCHANGED <<queue, lastId, serverVars, pending, signals, printed>>

\* signal(SIGHUP, signal_handler), signal(SIGINT, signal_handler)
set_handlers(p) == /\ LoggerGoes(p, "handlers", "open")
                   /\ UNCHANGED <<queue, lastId, serverVars, pending, signals, printed>>

\* Mutant: the exit(1) after a failed msgget is missing.
open_queue_NoExit(p) ==
  /\ logger[p].at = "open"
  /\ logger' = [logger EXCEPT ![p].at = "fopen", ![p].msqid = IF queue.id # 0 THEN queue.id ELSE -1]
  /\ UNCHANGED <<queue, lastId, serverVars, pending, signals, printed>>

\* msgget without IPC_CREAT: exit(1) if it fails, as it does without a queue.
open_queue(p) ==
  /\ logger[p].at = "open"
  /\ \/ logger' = [logger EXCEPT ![p].at = "exited"]
     \/ queue.id # 0 /\ logger' = [logger EXCEPT ![p].at = "fopen", ![p].msqid = queue.id]
  /\ UNCHANGED <<queue, lastId, serverVars, pending, signals, printed>>

fopen(p) ==
  /\ logger[p].at = "fopen"
  /\ \/ logger' = [logger EXCEPT ![p].at = "header", ![p].logfile = TRUE]
     \/ logger' = [logger EXCEPT ![p].at = "ready"]          \* goes on without a file
  /\ UNCHANGED <<queue, lastId, serverVars, pending, signals, printed>>

\* The header is written to logfile, which the handler may have closed since it
\* was tested: undefined, the process dies or goes on.
header(p) ==
  /\ \/ LoggerGoes(p, "header", "ready")
     \/ ~logger[p].logfile /\ LoggerGoes(p, "header", "exited")
  /\ UNCHANGED <<queue, lastId, serverVars, pending, signals, printed>>

ready(p) ==
  /\ logger[p].at = "ready"
  /\ logger' = [logger EXCEPT ![p].at = "loop", ![p].q_set = 1]
  /\ UNCHANGED <<queue, lastId, serverVars, pending, signals, printed>>

\* msgrcv: a message, or exit(2) when the queue is gone.
msgrcv(p) ==
  /\ logger[p].at = "loop"
  /\ \/ /\ queue.id = logger[p].msqid /\ queue.msgs # <<>>
        /\ logger' = [logger EXCEPT ![p].at = "print", ![p].buf = <<Head(queue.msgs)>>]
        /\ queue' = [queue EXCEPT !.msgs = Tail(@)]
     \/ /\ queue.id # logger[p].msqid
        /\ logger' = [logger EXCEPT ![p].at = "exited"]
        /\ UNCHANGED queue
  /\ UNCHANGED <<lastId, serverVars, pending, signals, printed>>

print(p) ==
  /\ logger[p].at = "print"
  /\ printed' = [printed EXCEPT ![p] = @ \o logger[p].buf]
  /\ logger' = [logger EXCEPT ![p].at = "loop", ![p].buf = <<>>]
  /\ UNCHANGED <<queue, lastId, serverVars, pending, signals>>

\* The user interrupts the logger, alone or with the server (Ctrl-C).
sigint(p) ==
  /\ Alive(p) /\ signals < MaxSignals
  /\ signals' = signals + 1
  /\ pending' = [pending EXCEPT ![p] = @ \cup {"SIGINT"}]
  /\ UNCHANGED <<queue, lastId, serverVars, logger, printed>>

Removed(p) == IF queue.id = logger[p].msqid THEN [id |-> 0, msgs |-> <<>>] ELSE queue

\* Mutant: the handler exits and leaves the queue.
signal_handler_Leaves(p) ==
  /\ logger' = [logger EXCEPT ![p].at = "exited", ![p].q_set = 0]
  /\ UNCHANGED queue

\* signal_handler: with q_set it removes the queue and exits; before, it closes
\* the file and returns, and the logger goes on.
signal_handler(p) ==
  \/ /\ logger[p].q_set = 1
     /\ queue' = Removed(p)
     /\ logger' = [logger EXCEPT ![p].at = "exited", ![p].q_set = 0]
  \/ /\ logger[p].q_set = 0
     /\ logger' = [logger EXCEPT ![p].logfile = FALSE]
     /\ UNCHANGED queue

\* A signal reaches the logger.  Before set_handlers it kills it.
deliver(p) ==
  /\ Alive(p)
  /\ \E s \in pending[p] : pending' = [pending EXCEPT ![p] = @ \ {s}]
  /\ IF logger[p].at \in {"forked", "main", "handlers"}
     THEN logger' = [logger EXCEPT ![p].at = "exited"] /\ UNCHANGED queue
     ELSE signal_handler(p)
  /\ UNCHANGED <<lastId, serverVars, signals, printed>>

\* The logger is killed, wherever it is: by SIGTERM, which it says it does not
\* handle, by SIGKILL or by a crash.  Nothing of signal_handler runs, so the
\* queue stays, and with it whoever waits in msgsnd.
killed(p) ==
  /\ Alive(p) /\ signals < MaxSignals
  /\ signals' = signals + 1
  /\ logger' = [logger EXCEPT ![p].at = "killed"]
  /\ UNCHANGED <<queue, lastId, serverVars, pending, printed>>

LoggerStep(p) == \/ execl(p) \/ prctl(p) \/ set_handlers(p) \/ open_queue(p) \/ fopen(p)
                 \/ header(p) \/ ready(p) \/ msgrcv(p) \/ print(p)

-----------------------------------------------------------------------------
Next == \/ \E p \in Servers : \/ set_log(p) \/ fork(p) \/ srv_log(p) \/ server_dies(p)
                              \/ LoggerStep(p) \/ sigint(p) \/ deliver(p) \/ killed(p)
        \/ \E k \in 1..MaxMsgs : msgsnd(k)

Spec == Init /\ [][Next]_vars

\* Processes that can run do run, and signals reach them.  A thread that waits
\* in msgsnd is not overtaken for ever: the kernel wakes the senders that wait.
\* Nobody has to start a server, kill one or log anything.
FairSpec == /\ Spec
            /\ \A p \in Servers : WF_vars(fork(p)) /\ WF_vars(LoggerStep(p)) /\ WF_vars(deliver(p))
            /\ \A k \in 1..MaxMsgs : SF_vars(msgsnd(k))

-----------------------------------------------------------------------------
(* Properties.                                                             *)

Messages == 1..MaxMsgs

TypeOK ==
  /\ lastId \in Nat /\ queue.id \in 0..lastId
  /\ queue.msgs \in Seq(Messages) /\ Len(queue.msgs) <= QueueLength
  /\ server \in [Servers -> [at : {"off", "fork", "run", "dead"}, msqid : 0..lastId, log_set : {0, 1}]]
  /\ calls \in Seq(Servers) /\ Len(calls) <= MaxMsgs /\ sending \subseteq DOMAIN calls
  /\ logger \in [Servers -> [at : {"none", "forked", "copy", "main", "handlers", "open", "fopen",
                                   "header", "ready", "loop", "print", "exited", "killed"},
                             pdeathsig : BOOLEAN, msqid : 0..lastId, q_set : {0, 1},
                             logfile : BOOLEAN, buf : Seq(Messages)]]
  /\ pending \in [Servers -> SUBSET {"SIGHUP", "SIGINT"}]
  /\ signals \in 0..MaxSignals
  /\ printed \in [Servers -> Seq(Messages)]

\* Where a message can be: with the thread that sends it, in the queue, in the
\* buffer of a logger, printed.  A place is named so that two are told apart.
Places(m) ==
  {<<"sending">> : x \in {m} \cap sending}
    \cup {<<"queue", i>> : i \in {j \in DOMAIN queue.msgs : queue.msgs[j] = m}}
    \cup {<<"buf", p>> : p \in {q \in Servers : logger[q].buf = <<m>>}}
    \cup UNION {{<<"printed", p, i>> : i \in {j \in DOMAIN printed[p] : printed[p][j] = m}} : p \in Servers}

\* While the queue a server opened exists, every message its threads have given
\* to srv_log is in exactly one place: none is lost or printed twice, with a
\* full queue, several servers and several loggers on it, SIGINT and SIGHUP at any
\* point and loggers killed.  The buffer of a logger that ended while it printed
\* counts as a place: that one message went with it (server_logging.c:57,
\* logger.c main).
Accounted ==
  \A k \in DOMAIN calls :
    server[calls[k]].at = "run" /\ queue.id = server[calls[k]].msqid =>
      \E place \in Places(k) : Places(k) = {place}

\* A thread that called srv_log, perhaps inside the critical zone, gets out of
\* msgsnd once the logger of its server is set up: the logger makes room or, if
\* it ends by itself or by a signal it handles, takes the queue with it
\* (signal_handler).  A logger that is killed keeps neither promise, and then the
\* thread may wait for ever.
SendReturns ==
  \A k \in 1..MaxMsgs :
    k \in sending /\ logger[calls[k]].q_set = 1 ~>
      k \notin sending \/ logger[calls[k]].at = "killed"

\* "Logging process will close message queue and exit" (signal_handler): if the
\* server goes after its logger was set up, the queue is closed, not left to
\* the next server with what it held, unless the logger was killed without its
\* handler (logger.c:55).
QueueClosed ==
  \A p \in Servers :
    [](server[p].at = "run" /\ logger[p].q_set = 1 =>
         [](server[p].at = "dead" => <>(queue.id # logger[p].msqid \/ logger[p].at = "killed")))

\* "Control de orfandad: me suscribo a la muerte de mi padre" (logger.c:50): a
\* logger does not outlive its server.
OrphanEnds == \A p \in Servers : server[p].at = "dead" ~> ~Alive(p)
=============================================================================
