--------------------------- MODULE ReadWriteLock ---------------------------
(***************************************************************************)
(* What enter_critical and leave_critical (synchronization.c) promise to   *)
(* process_request (server.c): any number of readers, or one writer.       *)
(* Synchronization.tla implements this specification with two mutex-       *)
(* protected counters, one global mutex and two semaphores.                *)
(***************************************************************************)
EXTENDS FiniteSets

CONSTANT Threads      \* the threads of the server, one per connected client

VARIABLES readers,    \* threads inside the critical zone as READER
          writing     \* threads inside the critical zone as WRITER

rwVars == <<readers, writing>>

RWInit == readers = {} /\ writing = {}

\* enter_critical(READER) returns.
EnterReader(t) == /\ t \notin readers
                  /\ writing = {}
                  /\ readers' = readers \cup {t}
                  /\ UNCHANGED writing

\* enter_critical(WRITER) returns.
EnterWriter(t) == /\ readers = {} /\ writing = {}
                  /\ writing' = {t}
                  /\ UNCHANGED readers

\* leave_critical(READER).
LeaveReader(t) == /\ t \in readers
                  /\ readers' = readers \ {t}
                  /\ UNCHANGED writing

\* leave_critical(WRITER).
LeaveWriter(t) == /\ t \in writing
                  /\ writing' = writing \ {t}
                  /\ UNCHANGED readers

RWNext == \E t \in Threads : \/ EnterReader(t) \/ EnterWriter(t)
                             \/ LeaveReader(t) \/ LeaveWriter(t)

RWSpec == RWInit /\ [][RWNext]_rwVars
=============================================================================
