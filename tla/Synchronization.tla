-------------------------- MODULE Synchronization --------------------------
(***************************************************************************)
(* synchronization.c: the readers-writers lock every request of the server *)
(* passes through.  A thread is in at most one of enter_writer,            *)
(* leave_writer, enter_reader and leave_reader; pc[t] names the next       *)
(* operation it will perform there, and one action is one operation on a   *)
(* mutex, a semaphore or a counter.  A mutex is 0 when unlocked and 1 when *)
(* locked.  It has no owner: g_mtx is locked by the first reader and       *)
(* unlocked by the last one, a different thread, which glibc's default     *)
(* mutex performs as a plain release.                                      *)
(***************************************************************************)
EXTENDS Integers, FiniteSets

CONSTANT Threads      \* the server's threads, one per connected client

ASSUME ThreadsFinite == IsFiniteSet(Threads)

VARIABLES
  w_mtx,      \* guards writers
  writers,    \* writers that asked to enter and have not left
  r_mtx,      \* guards readcount
  readcount,  \* readers inside
  g_mtx,      \* the critical zone
  shortwait,  \* semaphore: one reader, or the group of writers
  longwait,   \* semaphore: the readers queue here
  pc          \* next operation of each thread

vars == <<w_mtx, writers, r_mtx, readcount, g_mtx, shortwait, longwait, pc>>

Goto(t, from, to) == pc[t] = from /\ pc' = [pc EXCEPT ![t] = to]

\* synchro_init
Init == /\ w_mtx = 0 /\ r_mtx = 0 /\ g_mtx = 0
        /\ shortwait = 1 /\ longwait = 1
        /\ writers = 0 /\ readcount = 0
        /\ pc = [t \in Threads |-> "idle"]

-----------------------------------------------------------------------------
(* enter_critical is called: process_request has got a request.            *)

enter_critical(t) == /\ \/ Goto(t, "idle", "ew_lock")
                        \/ Goto(t, "idle", "er_long")
                     /\ UNCHANGED <<w_mtx, writers, r_mtx, readcount, g_mtx, shortwait, longwait>>

-----------------------------------------------------------------------------
(* enter_writer *)

ew_lock(t) == /\ Goto(t, "ew_lock", "ew_count")
              /\ w_mtx = 0 /\ w_mtx' = 1
              /\ UNCHANGED <<writers, r_mtx, readcount, g_mtx, shortwait, longwait>>

ew_count(t) == /\ Goto(t, "ew_count", IF writers + 1 = 1 THEN "ew_short" ELSE "ew_unlock")
               /\ writers' = writers + 1
               /\ UNCHANGED <<w_mtx, r_mtx, readcount, g_mtx, shortwait, longwait>>

ew_short(t) == /\ Goto(t, "ew_short", "ew_unlock")
               /\ shortwait > 0 /\ shortwait' = shortwait - 1
               /\ UNCHANGED <<w_mtx, writers, r_mtx, readcount, g_mtx, longwait>>

ew_unlock(t) == /\ Goto(t, "ew_unlock", "ew_global")
                /\ w_mtx' = 0
                /\ UNCHANGED <<writers, r_mtx, readcount, g_mtx, shortwait, longwait>>

ew_global(t) == /\ Goto(t, "ew_global", "w_crit")
                /\ g_mtx = 0 /\ g_mtx' = 1
                /\ UNCHANGED <<w_mtx, writers, r_mtx, readcount, shortwait, longwait>>

(* leave_writer, called in the critical zone *)

lw_global(t) == /\ Goto(t, "w_crit", "lw_lock")
                /\ g_mtx' = 0
                /\ UNCHANGED <<w_mtx, writers, r_mtx, readcount, shortwait, longwait>>

lw_lock(t) == /\ Goto(t, "lw_lock", "lw_count")
              /\ w_mtx = 0 /\ w_mtx' = 1
              /\ UNCHANGED <<writers, r_mtx, readcount, g_mtx, shortwait, longwait>>

\* Mutants: every writer posts shortwait; the last one is tested for before
\* the decrement and so never found.
lw_count_Always(t) == /\ Goto(t, "lw_count", "lw_post")
                      /\ writers' = writers - 1
                      /\ UNCHANGED <<w_mtx, r_mtx, readcount, g_mtx, shortwait, longwait>>
lw_count_Late(t) == /\ Goto(t, "lw_count", IF writers = 0 THEN "lw_post" ELSE "lw_unlock")
                    /\ writers' = writers - 1
                    /\ UNCHANGED <<w_mtx, r_mtx, readcount, g_mtx, shortwait, longwait>>

lw_count(t) == /\ Goto(t, "lw_count", IF writers - 1 = 0 THEN "lw_post" ELSE "lw_unlock")
               /\ writers' = writers - 1
               /\ UNCHANGED <<w_mtx, r_mtx, readcount, g_mtx, shortwait, longwait>>

lw_post(t) == /\ Goto(t, "lw_post", "lw_unlock")
              /\ shortwait' = shortwait + 1
              /\ UNCHANGED <<w_mtx, writers, r_mtx, readcount, g_mtx, longwait>>

lw_unlock(t) == /\ Goto(t, "lw_unlock", "idle")
                /\ w_mtx' = 0
                /\ UNCHANGED <<writers, r_mtx, readcount, g_mtx, shortwait, longwait>>

-----------------------------------------------------------------------------
(* enter_reader *)

\* Mutants: the reader does not queue at longwait; it skips shortwait.
er_long_NoQueue(t) == /\ Goto(t, "er_long", "er_short")
                      /\ UNCHANGED <<w_mtx, writers, r_mtx, readcount, g_mtx, shortwait, longwait>>
er_long_SkipShort(t) == /\ Goto(t, "er_long", "er_lock")
                        /\ longwait > 0 /\ longwait' = longwait - 1
                        /\ UNCHANGED <<w_mtx, writers, r_mtx, readcount, g_mtx, shortwait>>

er_long(t) == /\ Goto(t, "er_long", "er_short")
              /\ longwait > 0 /\ longwait' = longwait - 1
              /\ UNCHANGED <<w_mtx, writers, r_mtx, readcount, g_mtx, shortwait>>

er_short(t) == /\ Goto(t, "er_short", "er_lock")
               /\ shortwait > 0 /\ shortwait' = shortwait - 1
               /\ UNCHANGED <<w_mtx, writers, r_mtx, readcount, g_mtx, longwait>>

er_lock(t) == /\ Goto(t, "er_lock", "er_count")
              /\ r_mtx = 0 /\ r_mtx' = 1
              /\ UNCHANGED <<w_mtx, writers, readcount, g_mtx, shortwait, longwait>>

\* Mutant: the first reader is tested for before the increment.
er_count_Early(t) == /\ Goto(t, "er_count", IF readcount = 1 THEN "er_global" ELSE "er_unlock")
                     /\ readcount' = readcount + 1
                     /\ UNCHANGED <<w_mtx, writers, r_mtx, g_mtx, shortwait, longwait>>

er_count(t) == /\ Goto(t, "er_count", IF readcount + 1 = 1 THEN "er_global" ELSE "er_unlock")
               /\ readcount' = readcount + 1
               /\ UNCHANGED <<w_mtx, writers, r_mtx, g_mtx, shortwait, longwait>>

er_global(t) == /\ Goto(t, "er_global", "er_unlock")
                /\ g_mtx = 0 /\ g_mtx' = 1
                /\ UNCHANGED <<w_mtx, writers, r_mtx, readcount, shortwait, longwait>>

er_unlock(t) == /\ Goto(t, "er_unlock", "er_post_short")
                /\ r_mtx' = 0
                /\ UNCHANGED <<w_mtx, writers, readcount, g_mtx, shortwait, longwait>>

er_post_short(t) == /\ Goto(t, "er_post_short", "er_post_long")
                    /\ shortwait' = shortwait + 1
                    /\ UNCHANGED <<w_mtx, writers, r_mtx, readcount, g_mtx, longwait>>

er_post_long(t) == /\ Goto(t, "er_post_long", "r_crit")
                   /\ longwait' = longwait + 1
                   /\ UNCHANGED <<w_mtx, writers, r_mtx, readcount, g_mtx, shortwait>>

(* leave_reader, called in the critical zone *)

lr_lock(t) == /\ Goto(t, "r_crit", "lr_count")
              /\ r_mtx = 0 /\ r_mtx' = 1
              /\ UNCHANGED <<w_mtx, writers, readcount, g_mtx, shortwait, longwait>>

\* Mutant: the last reader is tested for before the decrement.
lr_count_Late(t) == /\ Goto(t, "lr_count", IF readcount = 0 THEN "lr_global" ELSE "lr_unlock")
                    /\ readcount' = readcount - 1
                    /\ UNCHANGED <<w_mtx, writers, r_mtx, g_mtx, shortwait, longwait>>

lr_count(t) == /\ Goto(t, "lr_count", IF readcount - 1 = 0 THEN "lr_global" ELSE "lr_unlock")
               /\ readcount' = readcount - 1
               /\ UNCHANGED <<w_mtx, writers, r_mtx, g_mtx, shortwait, longwait>>

lr_global(t) == /\ Goto(t, "lr_global", "lr_unlock")
                /\ g_mtx' = 0
                /\ UNCHANGED <<w_mtx, writers, r_mtx, readcount, shortwait, longwait>>

lr_unlock(t) == /\ Goto(t, "lr_unlock", "idle")
                /\ r_mtx' = 0
                /\ UNCHANGED <<w_mtx, writers, readcount, g_mtx, shortwait, longwait>>

-----------------------------------------------------------------------------
enter_writer(t) == ew_lock(t) \/ ew_count(t) \/ ew_short(t) \/ ew_unlock(t) \/ ew_global(t)
leave_writer(t) == lw_global(t) \/ lw_lock(t) \/ lw_count(t) \/ lw_post(t) \/ lw_unlock(t)
enter_reader(t) == \/ er_long(t) \/ er_short(t) \/ er_lock(t) \/ er_count(t) \/ er_global(t)
                   \/ er_unlock(t) \/ er_post_short(t) \/ er_post_long(t)
leave_reader(t) == lr_lock(t) \/ lr_count(t) \/ lr_global(t) \/ lr_unlock(t)

Step(t) == enter_writer(t) \/ leave_writer(t) \/ enter_reader(t) \/ leave_reader(t)

Next == \E t \in Threads : enter_critical(t) \/ Step(t)

Spec == Init /\ [][Next]_vars

\* The operating system runs every thread that can run.  Whether a request
\* arrives is the client's choice, so enter_critical is not fair.
FairSpec == Spec /\ \A t \in Threads : WF_vars(Step(t))

\* "Los semaforos actuan como colas" (synchronization.c:16): a thread that
\* waits at a mutex or a semaphore is not overtaken for ever.
Queues == \A t \in Threads : SF_vars(Step(t))
QueueSpec == Spec /\ Queues

-----------------------------------------------------------------------------
(* Regions of the code, as sets of program counters.                       *)

Labels == {"idle",
           "ew_lock", "ew_count", "ew_short", "ew_unlock", "ew_global", "w_crit",
           "lw_lock", "lw_count", "lw_post", "lw_unlock",
           "er_long", "er_short", "er_lock", "er_count", "er_global", "er_unlock",
           "er_post_short", "er_post_long", "r_crit",
           "lr_count", "lr_global", "lr_unlock"}

\* Between pthread_mutex_lock and pthread_mutex_unlock of w_mtx, of r_mtx.
HoldsW == {"ew_count", "ew_short", "ew_unlock", "lw_count", "lw_post", "lw_unlock"}
HoldsR == {"er_count", "er_global", "er_unlock", "lr_count", "lr_global", "lr_unlock"}

\* Counted in writers, in readcount.
CountedW == {"ew_short", "ew_unlock", "ew_global", "w_crit", "lw_lock", "lw_count"}
CountedR == {"er_global", "er_unlock", "er_post_short", "er_post_long", "r_crit", "lr_count"}

\* Between sem_wait and sem_post of longwait; of shortwait, as the reader that
\* took it or as a member of the group of writers that took it.
HoldsLong == {"er_short", "er_lock", "er_count", "er_global", "er_unlock",
              "er_post_short", "er_post_long"}
ReaderHoldsShort == {"er_lock", "er_count", "er_global", "er_unlock", "er_post_short"}
WriterHoldsShort == {"ew_unlock", "ew_global", "w_crit", "lw_lock", "lw_count", "lw_post"}

\* Readers that are inside: the first one locked g_mtx, the others found it
\* locked for them.  The last one still has g_mtx when it is about to unlock it.
InsideR == {"er_unlock", "er_post_short", "er_post_long", "r_crit", "lr_count"}
HoldsGlobalR == InsideR \cup {"lr_global"}

At(region) == {t \in Threads : pc[t] \in region}

AtMostOne(region) == \A t, u \in At(region) : t = u

-----------------------------------------------------------------------------
(* Safety.                                                                 *)

\* Every variable keeps its type; the semaphores never exceed their initial 1.
TypeOK == /\ w_mtx \in {0, 1} /\ r_mtx \in {0, 1} /\ g_mtx \in {0, 1}
          /\ shortwait \in {0, 1} /\ longwait \in {0, 1}
          /\ writers \in Nat /\ readcount \in Nat
          /\ pc \in [Threads -> Labels]

\* Zona critica: a writer in the critical zone is there alone, whatever the
\* order in which the threads run (enter_critical, synchronization.c).
Exclusion == \A t, u \in Threads :
                pc[t] = "w_crit" /\ t # u => pc[u] \notin {"w_crit", "r_crit"}

\* The first reader locks g_mtx while it holds r_mtx and both semaphores, where
\* blocking would stop every later reader and writer: it never has to wait,
\* because whoever could hold g_mtx would hold shortwait or r_mtx too.
FirstReaderNeverBlocks == \A t \in Threads : pc[t] = "er_global" => g_mtx = 0

\* "Aca a lo sumo hay un lector esperando (y muchos escritores)"
\* (synchronization.c:58).  At most one reader waits at shortwait, as it says.
\* Against what it says, at most one writer does as well: it waits there holding
\* w_mtx (lines 33-39), where the others wait, so that whoever is next in the
\* short queue has at most one thread ahead of it.
ShortQueue == AtMostOne({"er_short"}) /\ AtMostOne({"ew_short"})

\* No mutex is unlocked and no semaphore posted unless it is taken: every
\* release in enter_* and leave_* matches an acquisition of the same episode,
\* also when it is another thread that releases (g_mtx, shortwait).
ReleaseMatched ==
  \A t \in Threads : /\ pc[t] \in {"ew_unlock", "lw_unlock"} => w_mtx = 1
                     /\ pc[t] \in {"er_unlock", "lr_unlock"} => r_mtx = 1
                     /\ pc[t] \in {"w_crit", "lr_global"} => g_mtx = 1
                     /\ pc[t] \in {"lw_post", "er_post_short"} => shortwait = 0
                     /\ pc[t] = "er_post_long" => longwait = 0

\* "El resto de los lectores se encolaran hasta que termine ese"
\* (synchronization.c:69): from the moment a writer has shortwait until the last
\* writer of its group gives it back, no reader that is still queueing gets in.
WritersBarReaders ==
  [][At(WriterHoldsShort) # {} =>
       At(InsideR)' \subseteq At(InsideR)]_vars

\* The lock implements ReadWriteLock: a reader is inside from the moment it
\* is counted with g_mtx locked until it is no longer counted, a writer while
\* it has g_mtx.
RW == INSTANCE ReadWriteLock WITH readers <- At(InsideR), writing <- At({"w_crit"})
Implements == RW!RWSpec

-----------------------------------------------------------------------------
(* The inductive invariant: who holds what.                                *)

MutexInv == /\ AtMostOne(HoldsW) /\ (w_mtx = 1 <=> At(HoldsW) # {})
            /\ AtMostOne(HoldsR) /\ (r_mtx = 1 <=> At(HoldsR) # {})

CountInv == /\ writers = Cardinality(At(CountedW))
            /\ readcount = Cardinality(At(CountedR))
            /\ \A t \in Threads : /\ pc[t] = "ew_short" => At(CountedW) = {t}
                                  /\ pc[t] = "lw_post" => At(CountedW) = {}
                                  /\ pc[t] = "er_global" => At(CountedR) = {t}
                                  /\ pc[t] = "lr_global" => At(CountedR) = {}

SemaphoreInv == /\ AtMostOne(HoldsLong) /\ (longwait = 0 <=> At(HoldsLong) # {})
                /\ AtMostOne(ReaderHoldsShort)
                /\ At(ReaderHoldsShort) = {} \/ At(WriterHoldsShort) = {}
                /\ shortwait = 0 <=> At(ReaderHoldsShort \cup WriterHoldsShort) # {}

GlobalInv == /\ AtMostOne({"w_crit"})
             /\ At({"w_crit"}) = {} \/ At(HoldsGlobalR) = {}
             /\ g_mtx = 1 <=> At(HoldsGlobalR \cup {"w_crit"}) # {}

\* Each mutex and semaphore is taken exactly while some thread is in its
\* region, the counters count the threads in theirs, and a writer and a reader
\* never share shortwait or g_mtx (synchronization.c, all four functions).
IInv == TypeOK /\ MutexInv /\ CountInv /\ SemaphoreInv /\ GlobalInv

-----------------------------------------------------------------------------
(* Liveness.                                                               *)

Entering(t) == pc[t] \in {"ew_lock", "ew_count", "ew_short", "ew_unlock", "ew_global",
                          "er_long", "er_short", "er_lock", "er_count", "er_global",
                          "er_unlock", "er_post_short", "er_post_long"}
Inside(t) == pc[t] \in {"w_crit", "r_crit"}

\* Whenever threads are in enter_critical, some thread gets into the critical
\* zone: they never all wait for one another.
SomeoneEnters == (\E t \in Threads : Entering(t)) ~> (\E t \in Threads : Inside(t))

\* If mutexes and semaphores are queues, a writer that called enter_writer
\* enters, however many readers and writers keep arriving: the readers give way
\* at shortwait.
WriterEnters == Queues => \A t \in Threads : pc[t] = "ew_lock" ~> pc[t] = "w_crit"

\* If they are queues, a reader that called enter_reader enters if writers stop
\* coming: only a stream of writers that never dries up keeps it at shortwait.
ReaderEntersWhenWritersStop ==
  Queues /\ <>[](\A t \in Threads : pc[t] # "ew_lock") =>
     \A t \in Threads : pc[t] = "er_long" ~> pc[t] = "r_crit"

\* "El resto de los lectores se encolaran hasta que termine ese"
\* (synchronization.c:69-70): a reader waits for the writer ahead of it to
\* finish, and then enters.
ReaderEnters == \A t \in Threads : pc[t] = "er_long" ~> pc[t] = "r_crit"
=============================================================================
