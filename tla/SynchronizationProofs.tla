----------------------- MODULE SynchronizationProofs -----------------------
(***************************************************************************)
(* Proofs about Synchronization for every finite set of threads.           *)
(***************************************************************************)
EXTENDS Synchronization, FiniteSetTheorems, TLAPS

\* The set of threads in a region is finite, so its cardinality is a number.
LEMMA RegionFinite ==
  ASSUME NEW R
  PROVE  /\ IsFiniteSet(At(R))
         /\ Cardinality(At(R)) \in Nat
         /\ Cardinality(At(R)) = 0 <=> At(R) = {}
<1>1. At(R) \in SUBSET Threads
  BY DEF At
<1>2. IsFiniteSet(At(R))
  BY <1>1, ThreadsFinite, FS_Subset
<1> QED
  BY <1>2, FS_CardinalityType, FS_EmptySet

\* A thread that enters a region adds one to its cardinality.
LEMMA EnterRegion ==
  ASSUME NEW S, IsFiniteSet(S), NEW t, t \notin S
  PROVE  Cardinality(S \cup {t}) = Cardinality(S) + 1
BY FS_AddElement

\* A thread that leaves a region takes one from its cardinality.
LEMMA LeaveRegion ==
  ASSUME NEW S, IsFiniteSet(S), NEW t \in S
  PROVE  Cardinality(S \ {t}) = Cardinality(S) - 1
BY FS_RemoveElement

\* synchro_init establishes the invariant: nobody holds anything.
LEMMA InitIInv == Init => IInv
<1> SUFFICES ASSUME Init PROVE IInv
  OBVIOUS
<1>2. TypeOK
  BY DEF Init, TypeOK, Labels
<1>3. /\ At(HoldsW) = {} /\ At(HoldsR) = {} /\ At(CountedW) = {} /\ At(CountedR) = {}
      /\ At(HoldsLong) = {} /\ At(ReaderHoldsShort) = {} /\ At(WriterHoldsShort) = {}
      /\ At(HoldsGlobalR) = {} /\ At({"w_crit"}) = {}
      /\ At(ReaderHoldsShort \cup WriterHoldsShort) = {}
      /\ At(HoldsGlobalR \cup {"w_crit"}) = {}
  BY DEF Init, At, HoldsW, HoldsR, CountedW, CountedR, HoldsLong, ReaderHoldsShort,
         WriterHoldsShort, HoldsGlobalR, InsideR
<1>4. MutexInv /\ SemaphoreInv /\ GlobalInv
  BY <1>3 DEF Init, MutexInv, SemaphoreInv, GlobalInv, AtMostOne
<1>5. CountInv
  BY <1>3, FS_EmptySet DEF Init, CountInv
<1> QED
  BY <1>2, <1>4, <1>5 DEF IInv

\* How a step of one thread from label a to label b changes a region.
LEMMA MoveRegion ==
  ASSUME TypeOK, NEW t \in Threads, NEW a, NEW b, Goto(t, a, b), NEW R
  PROVE  /\ At(R)' = IF b \in R THEN At(R) \cup {t} ELSE At(R) \ {t}
         /\ t \in At(R) <=> a \in R
<1>1. pc' = [pc EXCEPT ![t] = b] /\ pc[t] = a /\ pc \in [Threads -> Labels]
  BY DEF Goto, TypeOK
<1> QED
  BY <1>1 DEF At

\* A step that neither enters nor leaves a counted region, and does not arrive
\* at one of the four labels that depend on a counter's test, keeps CountInv.
LEMMA CountKept ==
  ASSUME TypeOK, CountInv, NEW t \in Threads, NEW a, NEW b, Goto(t, a, b),
         a \in CountedW <=> b \in CountedW, a \in CountedR <=> b \in CountedR,
         b \notin {"ew_short", "lw_post", "er_global", "lr_global"},
         UNCHANGED <<writers, readcount>>
  PROVE  CountInv'
<1>1. At(CountedW)' = At(CountedW)
  BY MoveRegion
<1>2. At(CountedR)' = At(CountedR)
  BY MoveRegion
<1>3. \A u \in Threads : pc'[u] = pc[u] \/ (u = t /\ pc'[u] = b)
  BY DEF Goto, TypeOK
<1> QED
  BY <1>1, <1>2, <1>3 DEF CountInv

-----------------------------------------------------------------------------
(* The four steps that change a counter: here the invariant needs the      *)
(* counter to be the number of threads in its region.                      *)

\* enter_writer: only the first writer of a group goes to wait at shortwait.
LEMMA CountWriterIn ==
  ASSUME IInv, NEW t \in Threads, ew_count(t)
  PROVE  IInv'
<1> USE DEF IInv
<1> DEFINE b == IF writers + 1 = 1 THEN "ew_short" ELSE "ew_unlock"
<1>1. Goto(t, "ew_count", b) /\ writers' = writers + 1
  BY DEF ew_count
<1>2. At(CountedW)' = At(CountedW) \cup {t} /\ t \notin At(CountedW)
  BY <1>1, MoveRegion DEF CountedW
<1>3. At(CountedR)' = At(CountedR)
  <2>1. At(CountedR)' = At(CountedR) \ {t} /\ t \notin At(CountedR)
    BY <1>1, MoveRegion DEF CountedR
  <2> QED
    BY <2>1
<1>4. Cardinality(At(CountedW)') = writers + 1
  BY <1>2, RegionFinite, EnterRegion DEF CountInv
<1>5. writers = 0 <=> At(CountedW) = {}
  BY RegionFinite DEF CountInv
<1>6. \A u \in Threads : u # t => pc'[u] = pc[u] /\ pc[u] \notin HoldsW
  BY <1>1 DEF Goto, TypeOK, MutexInv, AtMostOne, At, HoldsW
<1>7. TypeOK'
  BY DEF ew_count, Goto, TypeOK, Labels
<1>8. MutexInv'
  BY DEF ew_count, Goto, TypeOK, Labels, MutexInv, AtMostOne, At, HoldsW, HoldsR
<1>9. CountInv'
  <2>1. pc'[t] = b
    BY <1>1 DEF Goto, TypeOK
  <2>2. b = "ew_short" => At(CountedW)' = {t}
    BY <1>2, <1>5 DEF TypeOK
  <2>3. \A u \in Threads : u # t => pc'[u] \notin {"ew_short", "lw_post"}
    BY <1>6 DEF HoldsW
  <2> QED
    BY <1>3, <1>4, <1>6, <2>1, <2>2, <2>3 DEF CountInv, ew_count
<1>10. SemaphoreInv'
  <2>1. CASE writers = 0
    BY <2>1 DEF ew_count, Goto, TypeOK, Labels, SemaphoreInv, AtMostOne, At, HoldsLong,
                ReaderHoldsShort, WriterHoldsShort
  <2>2. CASE writers # 0
    <3>1. PICK u \in At(CountedW) : TRUE
      BY <1>5, <2>2
    <3>2. u \in At(WriterHoldsShort) /\ u # t
      BY <1>2, <1>6, <3>1 DEF At, CountedW, WriterHoldsShort, HoldsW
    <3> QED
      BY <2>2, <3>2 DEF ew_count, Goto, TypeOK, Labels, SemaphoreInv, AtMostOne, At, HoldsLong,
                        ReaderHoldsShort, WriterHoldsShort
  <2> QED
    BY <2>1, <2>2
<1>11. GlobalInv'
  BY DEF ew_count, Goto, TypeOK, Labels, GlobalInv, AtMostOne, At, InsideR, HoldsGlobalR
<1> QED
  BY <1>7, <1>8, <1>9, <1>10, <1>11

\* leave_writer: only the last writer of the group goes to post shortwait.
LEMMA CountWriterOut ==
  ASSUME IInv, NEW t \in Threads, lw_count(t)
  PROVE  IInv'
<1> USE DEF IInv
<1> DEFINE b == IF writers - 1 = 0 THEN "lw_post" ELSE "lw_unlock"
<1>1. Goto(t, "lw_count", b) /\ writers' = writers - 1
  BY DEF lw_count
<1>2. At(CountedW)' = At(CountedW) \ {t} /\ t \in At(CountedW)
  BY <1>1, MoveRegion DEF CountedW
<1>3. At(CountedR)' = At(CountedR)
  <2>1. At(CountedR)' = At(CountedR) \ {t} /\ t \notin At(CountedR)
    BY <1>1, MoveRegion DEF CountedR
  <2> QED
    BY <2>1
<1>4. /\ Cardinality(At(CountedW) \ {t}) = writers - 1
      /\ IsFiniteSet(At(CountedW) \ {t})
  BY <1>2, RegionFinite, LeaveRegion, FS_RemoveElement DEF CountInv
<1>5. writers - 1 \in Nat /\ (writers - 1 = 0 <=> At(CountedW) \ {t} = {})
  BY <1>4, FS_CardinalityType, FS_EmptySet
<1>6. \A u \in Threads : u # t => pc'[u] = pc[u] /\ pc[u] \notin HoldsW
  BY <1>1 DEF Goto, TypeOK, MutexInv, AtMostOne, At, HoldsW
<1>7. TypeOK'
  BY <1>5 DEF lw_count, Goto, TypeOK, Labels
<1>8. MutexInv'
  BY DEF lw_count, Goto, TypeOK, Labels, MutexInv, AtMostOne, At, HoldsW, HoldsR
<1>9. CountInv'
  <2>1. pc'[t] = b
    BY <1>1 DEF Goto, TypeOK
  <2>2. b = "lw_post" => At(CountedW)' = {}
    BY <1>2, <1>5
  <2>3. \A u \in Threads : u # t => pc'[u] \notin {"ew_short", "lw_post"}
    BY <1>6 DEF HoldsW
  <2> QED
    BY <1>2, <1>3, <1>4, <1>6, <2>1, <2>2, <2>3 DEF CountInv, lw_count
<1>10. SemaphoreInv'
  <2>1. CASE writers - 1 = 0
    BY <2>1 DEF lw_count, Goto, TypeOK, Labels, SemaphoreInv, AtMostOne, At, HoldsLong,
                ReaderHoldsShort, WriterHoldsShort
  <2>2. CASE writers - 1 # 0
    <3>1. PICK u \in At(CountedW) : u # t
      BY <1>5, <2>2
    <3>2. u \in At(WriterHoldsShort)
      BY <1>6, <3>1 DEF At, CountedW, WriterHoldsShort, HoldsW
    <3> QED
      BY <2>2, <3>1, <3>2 DEF lw_count, Goto, TypeOK, Labels, SemaphoreInv, AtMostOne, At,
                              HoldsLong, ReaderHoldsShort, WriterHoldsShort
  <2> QED
    BY <2>1, <2>2
<1>11. GlobalInv'
  BY DEF lw_count, Goto, TypeOK, Labels, GlobalInv, AtMostOne, At, InsideR, HoldsGlobalR
<1> QED
  BY <1>7, <1>8, <1>9, <1>10, <1>11

\* enter_reader: only the first reader goes to lock g_mtx; any other one finds
\* it locked by the readers inside.
LEMMA CountReaderIn ==
  ASSUME IInv, NEW t \in Threads, er_count(t)
  PROVE  IInv'
<1> USE DEF IInv
<1> DEFINE b == IF readcount + 1 = 1 THEN "er_global" ELSE "er_unlock"
<1>1. Goto(t, "er_count", b) /\ readcount' = readcount + 1
  BY DEF er_count
<1>2. At(CountedR)' = At(CountedR) \cup {t} /\ t \notin At(CountedR)
  BY <1>1, MoveRegion DEF CountedR
<1>3. At(CountedW)' = At(CountedW)
  <2>1. At(CountedW)' = At(CountedW) \ {t} /\ t \notin At(CountedW)
    BY <1>1, MoveRegion DEF CountedW
  <2> QED
    BY <2>1
<1>4. Cardinality(At(CountedR)') = readcount + 1
  BY <1>2, RegionFinite, EnterRegion DEF CountInv
<1>5. readcount = 0 <=> At(CountedR) = {}
  BY RegionFinite DEF CountInv
<1>6. \A u \in Threads : u # t => pc'[u] = pc[u] /\ pc[u] \notin HoldsR
  BY <1>1 DEF Goto, TypeOK, MutexInv, AtMostOne, At, HoldsR
<1>7. TypeOK'
  BY DEF er_count, Goto, TypeOK, Labels
<1>8. MutexInv'
  BY DEF er_count, Goto, TypeOK, Labels, MutexInv, AtMostOne, At, HoldsW, HoldsR
<1>9. CountInv'
  <2>1. pc'[t] = b
    BY <1>1 DEF Goto, TypeOK
  <2>2. b = "er_global" => At(CountedR)' = {t}
    BY <1>2, <1>5 DEF TypeOK
  <2>3. \A u \in Threads : u # t => pc'[u] \notin {"er_global", "lr_global"}
    BY <1>6 DEF HoldsR
  <2> QED
    BY <1>3, <1>4, <1>6, <2>1, <2>2, <2>3 DEF CountInv, er_count
<1>10. SemaphoreInv'
  BY DEF er_count, Goto, TypeOK, Labels, SemaphoreInv, AtMostOne, At, HoldsLong,
         ReaderHoldsShort, WriterHoldsShort
<1>11. GlobalInv'
  <2>1. CASE readcount = 0
    BY <2>1 DEF er_count, Goto, TypeOK, Labels, GlobalInv, AtMostOne, At, InsideR, HoldsGlobalR
  <2>2. CASE readcount # 0
    <3>1. PICK u \in At(CountedR) : TRUE
      BY <1>5, <2>2
    <3>2. u \in At(HoldsGlobalR) /\ u # t
      BY <1>2, <1>6, <3>1 DEF At, CountedR, HoldsGlobalR, InsideR, HoldsR
    <3> QED
      BY <2>2, <3>2 DEF er_count, Goto, TypeOK, Labels, GlobalInv, AtMostOne, At, InsideR,
                        HoldsGlobalR
  <2> QED
    BY <2>1, <2>2
<1> QED
  BY <1>7, <1>8, <1>9, <1>10, <1>11

\* leave_reader: only the last reader goes to unlock g_mtx.
LEMMA CountReaderOut ==
  ASSUME IInv, NEW t \in Threads, lr_count(t)
  PROVE  IInv'
<1> USE DEF IInv
<1> DEFINE b == IF readcount - 1 = 0 THEN "lr_global" ELSE "lr_unlock"
<1>1. Goto(t, "lr_count", b) /\ readcount' = readcount - 1
  BY DEF lr_count
<1>2. At(CountedR)' = At(CountedR) \ {t} /\ t \in At(CountedR)
  BY <1>1, MoveRegion DEF CountedR
<1>3. At(CountedW)' = At(CountedW)
  <2>1. At(CountedW)' = At(CountedW) \ {t} /\ t \notin At(CountedW)
    BY <1>1, MoveRegion DEF CountedW
  <2> QED
    BY <2>1
<1>4. /\ Cardinality(At(CountedR) \ {t}) = readcount - 1
      /\ IsFiniteSet(At(CountedR) \ {t})
  BY <1>2, RegionFinite, LeaveRegion, FS_RemoveElement DEF CountInv
<1>5. readcount - 1 \in Nat /\ (readcount - 1 = 0 <=> At(CountedR) \ {t} = {})
  BY <1>4, FS_CardinalityType, FS_EmptySet
<1>6. \A u \in Threads : u # t => pc'[u] = pc[u] /\ pc[u] \notin HoldsR
  BY <1>1 DEF Goto, TypeOK, MutexInv, AtMostOne, At, HoldsR
<1>7. TypeOK'
  BY <1>5 DEF lr_count, Goto, TypeOK, Labels
<1>8. MutexInv'
  BY DEF lr_count, Goto, TypeOK, Labels, MutexInv, AtMostOne, At, HoldsW, HoldsR
<1>9. CountInv'
  <2>1. pc'[t] = b
    BY <1>1 DEF Goto, TypeOK
  <2>2. b = "lr_global" => At(CountedR)' = {}
    BY <1>2, <1>5
  <2>3. \A u \in Threads : u # t => pc'[u] \notin {"er_global", "lr_global"}
    BY <1>6 DEF HoldsR
  <2> QED
    BY <1>2, <1>3, <1>4, <1>6, <2>1, <2>2, <2>3 DEF CountInv, lr_count
<1>10. SemaphoreInv'
  BY DEF lr_count, Goto, TypeOK, Labels, SemaphoreInv, AtMostOne, At, HoldsLong,
         ReaderHoldsShort, WriterHoldsShort
<1>11. GlobalInv'
  <2>1. CASE readcount - 1 = 0
    BY <2>1 DEF lr_count, Goto, TypeOK, Labels, GlobalInv, AtMostOne, At, InsideR, HoldsGlobalR
  <2>2. CASE readcount - 1 # 0
    <3>1. PICK u \in At(CountedR) : u # t
      BY <1>5, <2>2
    <3>2. u \in At(InsideR)
      BY <1>6, <3>1 DEF At, CountedR, InsideR, HoldsR
    <3> QED
      BY <2>2, <3>1, <3>2 DEF lr_count, Goto, TypeOK, Labels, GlobalInv, AtMostOne, At,
                              InsideR, HoldsGlobalR
  <2> QED
    BY <2>1, <2>2
<1> QED
  BY <1>7, <1>8, <1>9, <1>10, <1>11

-----------------------------------------------------------------------------
(* Every other step moves a thread between regions and takes or gives      *)
(* exactly the mutex or semaphore that separates them.                     *)

\* enter_writer keeps who holds what.
LEMMA EnterWriterStep ==
  ASSUME IInv, NEW t \in Threads, enter_writer(t)
  PROVE  IInv'
<1> USE DEF IInv
<1>1. CASE ew_lock(t)
  <2>1. CountInv'
    <3>1. Goto(t, "ew_lock", "ew_count") /\ UNCHANGED <<writers, readcount>>
      BY <1>1 DEF ew_lock
    <3> QED
      BY <3>1, CountKept DEF CountedW, CountedR
  <2>2. TypeOK' /\ MutexInv' /\ SemaphoreInv'
    BY <1>1 DEF ew_lock, Goto, TypeOK, Labels, MutexInv, SemaphoreInv, AtMostOne, At,
                  HoldsW, HoldsR, HoldsLong, ReaderHoldsShort, WriterHoldsShort
  <2>3. GlobalInv'
    BY <1>1 DEF ew_lock, Goto, TypeOK, Labels, GlobalInv, AtMostOne, At,
                  InsideR, HoldsGlobalR
  <2> QED
    BY <2>1, <2>2, <2>3
<1>2. CASE ew_count(t)
  BY <1>2, CountWriterIn
<1>3. CASE ew_short(t)
  <2>1. CountInv'
    <3>1. Goto(t, "ew_short", "ew_unlock") /\ UNCHANGED <<writers, readcount>>
      BY <1>3 DEF ew_short
    <3> QED
      BY <3>1, CountKept DEF CountedW, CountedR
  <2>2. TypeOK' /\ MutexInv' /\ SemaphoreInv'
    BY <1>3 DEF ew_short, Goto, TypeOK, Labels, MutexInv, SemaphoreInv, AtMostOne, At,
                  HoldsW, HoldsR, HoldsLong, ReaderHoldsShort, WriterHoldsShort
  <2>3. GlobalInv'
    BY <1>3 DEF ew_short, Goto, TypeOK, Labels, GlobalInv, AtMostOne, At,
                  InsideR, HoldsGlobalR
  <2> QED
    BY <2>1, <2>2, <2>3
<1>4. CASE ew_unlock(t)
  <2>1. CountInv'
    <3>1. Goto(t, "ew_unlock", "ew_global") /\ UNCHANGED <<writers, readcount>>
      BY <1>4 DEF ew_unlock
    <3> QED
      BY <3>1, CountKept DEF CountedW, CountedR
  <2>2. TypeOK' /\ MutexInv' /\ SemaphoreInv'
    BY <1>4 DEF ew_unlock, Goto, TypeOK, Labels, MutexInv, SemaphoreInv, AtMostOne, At,
                  HoldsW, HoldsR, HoldsLong, ReaderHoldsShort, WriterHoldsShort
  <2>3. GlobalInv'
    BY <1>4 DEF ew_unlock, Goto, TypeOK, Labels, GlobalInv, AtMostOne, At,
                  InsideR, HoldsGlobalR
  <2> QED
    BY <2>1, <2>2, <2>3
<1>5. CASE ew_global(t)
  <2>1. CountInv'
    <3>1. Goto(t, "ew_global", "w_crit") /\ UNCHANGED <<writers, readcount>>
      BY <1>5 DEF ew_global
    <3> QED
      BY <3>1, CountKept DEF CountedW, CountedR
  <2>2. TypeOK' /\ MutexInv' /\ SemaphoreInv'
    BY <1>5 DEF ew_global, Goto, TypeOK, Labels, MutexInv, SemaphoreInv, AtMostOne, At,
                  HoldsW, HoldsR, HoldsLong, ReaderHoldsShort, WriterHoldsShort
  <2>3. GlobalInv'
    BY <1>5 DEF ew_global, Goto, TypeOK, Labels, GlobalInv, AtMostOne, At,
                  InsideR, HoldsGlobalR
  <2> QED
    BY <2>1, <2>2, <2>3
<1> QED
  BY <1>1, <1>2, <1>3, <1>4, <1>5 DEF enter_writer

\* leave_writer keeps who holds what.
LEMMA LeaveWriterStep ==
  ASSUME IInv, NEW t \in Threads, leave_writer(t)
  PROVE  IInv'
<1> USE DEF IInv
<1>1. CASE lw_global(t)
  <2>1. CountInv'
    <3>1. Goto(t, "w_crit", "lw_lock") /\ UNCHANGED <<writers, readcount>>
      BY <1>1 DEF lw_global
    <3> QED
      BY <3>1, CountKept DEF CountedW, CountedR
  <2>2. TypeOK' /\ MutexInv' /\ SemaphoreInv'
    BY <1>1 DEF lw_global, Goto, TypeOK, Labels, MutexInv, SemaphoreInv, AtMostOne, At,
                  HoldsW, HoldsR, HoldsLong, ReaderHoldsShort, WriterHoldsShort
  <2>3. GlobalInv'
    BY <1>1 DEF lw_global, Goto, TypeOK, Labels, GlobalInv, AtMostOne, At,
                  InsideR, HoldsGlobalR
  <2> QED
    BY <2>1, <2>2, <2>3
<1>2. CASE lw_lock(t)
  <2>1. CountInv'
    <3>1. Goto(t, "lw_lock", "lw_count") /\ UNCHANGED <<writers, readcount>>
      BY <1>2 DEF lw_lock
    <3> QED
      BY <3>1, CountKept DEF CountedW, CountedR
  <2>2. TypeOK' /\ MutexInv' /\ SemaphoreInv'
    BY <1>2 DEF lw_lock, Goto, TypeOK, Labels, MutexInv, SemaphoreInv, AtMostOne, At,
                  HoldsW, HoldsR, HoldsLong, ReaderHoldsShort, WriterHoldsShort
  <2>3. GlobalInv'
    BY <1>2 DEF lw_lock, Goto, TypeOK, Labels, GlobalInv, AtMostOne, At,
                  InsideR, HoldsGlobalR
  <2> QED
    BY <2>1, <2>2, <2>3
<1>3. CASE lw_count(t)
  BY <1>3, CountWriterOut
<1>4. CASE lw_post(t)
  <2>1. CountInv'
    <3>1. Goto(t, "lw_post", "lw_unlock") /\ UNCHANGED <<writers, readcount>>
      BY <1>4 DEF lw_post
    <3> QED
      BY <3>1, CountKept DEF CountedW, CountedR
  <2>2. TypeOK' /\ MutexInv' /\ SemaphoreInv'
    BY <1>4 DEF lw_post, Goto, TypeOK, Labels, MutexInv, CountInv, SemaphoreInv, AtMostOne, At,
                  CountedW, HoldsW, HoldsR, HoldsLong, ReaderHoldsShort, WriterHoldsShort
  <2>3. GlobalInv'
    BY <1>4 DEF lw_post, Goto, TypeOK, Labels, GlobalInv, AtMostOne, At,
                  InsideR, HoldsGlobalR
  <2> QED
    BY <2>1, <2>2, <2>3
<1>5. CASE lw_unlock(t)
  <2>1. CountInv'
    <3>1. Goto(t, "lw_unlock", "idle") /\ UNCHANGED <<writers, readcount>>
      BY <1>5 DEF lw_unlock
    <3> QED
      BY <3>1, CountKept DEF CountedW, CountedR
  <2>2. TypeOK' /\ MutexInv' /\ SemaphoreInv'
    BY <1>5 DEF lw_unlock, Goto, TypeOK, Labels, MutexInv, SemaphoreInv, AtMostOne, At,
                  HoldsW, HoldsR, HoldsLong, ReaderHoldsShort, WriterHoldsShort
  <2>3. GlobalInv'
    BY <1>5 DEF lw_unlock, Goto, TypeOK, Labels, GlobalInv, AtMostOne, At,
                  InsideR, HoldsGlobalR
  <2> QED
    BY <2>1, <2>2, <2>3
<1> QED
  BY <1>1, <1>2, <1>3, <1>4, <1>5 DEF leave_writer

\* enter_reader keeps who holds what.
LEMMA EnterReaderStep ==
  ASSUME IInv, NEW t \in Threads, enter_reader(t)
  PROVE  IInv'
<1> USE DEF IInv
<1>1. CASE er_long(t)
  <2>1. CountInv'
    <3>1. Goto(t, "er_long", "er_short") /\ UNCHANGED <<writers, readcount>>
      BY <1>1 DEF er_long
    <3> QED
      BY <3>1, CountKept DEF CountedW, CountedR
  <2>2. TypeOK' /\ MutexInv' /\ SemaphoreInv'
    BY <1>1 DEF er_long, Goto, TypeOK, Labels, MutexInv, SemaphoreInv, AtMostOne, At,
                  HoldsW, HoldsR, HoldsLong, ReaderHoldsShort, WriterHoldsShort
  <2>3. GlobalInv'
    BY <1>1 DEF er_long, Goto, TypeOK, Labels, GlobalInv, AtMostOne, At,
                  InsideR, HoldsGlobalR
  <2> QED
    BY <2>1, <2>2, <2>3
<1>2. CASE er_short(t)
  <2>1. CountInv'
    <3>1. Goto(t, "er_short", "er_lock") /\ UNCHANGED <<writers, readcount>>
      BY <1>2 DEF er_short
    <3> QED
      BY <3>1, CountKept DEF CountedW, CountedR
  <2>2. TypeOK' /\ MutexInv' /\ SemaphoreInv'
    BY <1>2 DEF er_short, Goto, TypeOK, Labels, MutexInv, SemaphoreInv, AtMostOne, At,
                  HoldsW, HoldsR, HoldsLong, ReaderHoldsShort, WriterHoldsShort
  <2>3. GlobalInv'
    BY <1>2 DEF er_short, Goto, TypeOK, Labels, GlobalInv, AtMostOne, At,
                  InsideR, HoldsGlobalR
  <2> QED
    BY <2>1, <2>2, <2>3
<1>3. CASE er_lock(t)
  <2>1. CountInv'
    <3>1. Goto(t, "er_lock", "er_count") /\ UNCHANGED <<writers, readcount>>
      BY <1>3 DEF er_lock
    <3> QED
      BY <3>1, CountKept DEF CountedW, CountedR
  <2>2. TypeOK' /\ MutexInv' /\ SemaphoreInv'
    BY <1>3 DEF er_lock, Goto, TypeOK, Labels, MutexInv, SemaphoreInv, AtMostOne, At,
                  HoldsW, HoldsR, HoldsLong, ReaderHoldsShort, WriterHoldsShort
  <2>3. GlobalInv'
    BY <1>3 DEF er_lock, Goto, TypeOK, Labels, GlobalInv, AtMostOne, At,
                  InsideR, HoldsGlobalR
  <2> QED
    BY <2>1, <2>2, <2>3
<1>4. CASE er_count(t)
  BY <1>4, CountReaderIn
<1>5. CASE er_global(t)
  <2>1. CountInv'
    <3>1. Goto(t, "er_global", "er_unlock") /\ UNCHANGED <<writers, readcount>>
      BY <1>5 DEF er_global
    <3> QED
      BY <3>1, CountKept DEF CountedW, CountedR
  <2>2. TypeOK' /\ MutexInv' /\ SemaphoreInv'
    BY <1>5 DEF er_global, Goto, TypeOK, Labels, MutexInv, SemaphoreInv, AtMostOne, At,
                  HoldsW, HoldsR, HoldsLong, ReaderHoldsShort, WriterHoldsShort
  <2>3. GlobalInv'
    BY <1>5 DEF er_global, Goto, TypeOK, Labels, GlobalInv, AtMostOne, At,
                  InsideR, HoldsGlobalR
  <2> QED
    BY <2>1, <2>2, <2>3
<1>6. CASE er_unlock(t)
  <2>1. CountInv'
    <3>1. Goto(t, "er_unlock", "er_post_short") /\ UNCHANGED <<writers, readcount>>
      BY <1>6 DEF er_unlock
    <3> QED
      BY <3>1, CountKept DEF CountedW, CountedR
  <2>2. TypeOK' /\ MutexInv' /\ SemaphoreInv'
    BY <1>6 DEF er_unlock, Goto, TypeOK, Labels, MutexInv, SemaphoreInv, AtMostOne, At,
                  HoldsW, HoldsR, HoldsLong, ReaderHoldsShort, WriterHoldsShort
  <2>3. GlobalInv'
    BY <1>6 DEF er_unlock, Goto, TypeOK, Labels, GlobalInv, AtMostOne, At,
                  InsideR, HoldsGlobalR
  <2> QED
    BY <2>1, <2>2, <2>3
<1>7. CASE er_post_short(t)
  <2>1. CountInv'
    <3>1. Goto(t, "er_post_short", "er_post_long") /\ UNCHANGED <<writers, readcount>>
      BY <1>7 DEF er_post_short
    <3> QED
      BY <3>1, CountKept DEF CountedW, CountedR
  <2>2. TypeOK' /\ MutexInv' /\ SemaphoreInv'
    BY <1>7 DEF er_post_short, Goto, TypeOK, Labels, MutexInv, SemaphoreInv, AtMostOne, At,
                  HoldsW, HoldsR, HoldsLong, ReaderHoldsShort, WriterHoldsShort
  <2>3. GlobalInv'
    BY <1>7 DEF er_post_short, Goto, TypeOK, Labels, GlobalInv, AtMostOne, At,
                  InsideR, HoldsGlobalR
  <2> QED
    BY <2>1, <2>2, <2>3
<1>8. CASE er_post_long(t)
  <2>1. CountInv'
    <3>1. Goto(t, "er_post_long", "r_crit") /\ UNCHANGED <<writers, readcount>>
      BY <1>8 DEF er_post_long
    <3> QED
      BY <3>1, CountKept DEF CountedW, CountedR
  <2>2. TypeOK' /\ MutexInv' /\ SemaphoreInv'
    BY <1>8 DEF er_post_long, Goto, TypeOK, Labels, MutexInv, SemaphoreInv, AtMostOne, At,
                  HoldsW, HoldsR, HoldsLong, ReaderHoldsShort, WriterHoldsShort
  <2>3. GlobalInv'
    BY <1>8 DEF er_post_long, Goto, TypeOK, Labels, GlobalInv, AtMostOne, At,
                  InsideR, HoldsGlobalR
  <2> QED
    BY <2>1, <2>2, <2>3
<1> QED
  BY <1>1, <1>2, <1>3, <1>4, <1>5, <1>6, <1>7, <1>8 DEF enter_reader

\* leave_reader keeps who holds what.
LEMMA LeaveReaderStep ==
  ASSUME IInv, NEW t \in Threads, leave_reader(t)
  PROVE  IInv'
<1> USE DEF IInv
<1>1. CASE lr_lock(t)
  <2>1. CountInv'
    <3>1. Goto(t, "r_crit", "lr_count") /\ UNCHANGED <<writers, readcount>>
      BY <1>1 DEF lr_lock
    <3> QED
      BY <3>1, CountKept DEF CountedW, CountedR
  <2>2. TypeOK' /\ MutexInv' /\ SemaphoreInv'
    BY <1>1 DEF lr_lock, Goto, TypeOK, Labels, MutexInv, SemaphoreInv, AtMostOne, At,
                  HoldsW, HoldsR, HoldsLong, ReaderHoldsShort, WriterHoldsShort
  <2>3. GlobalInv'
    BY <1>1 DEF lr_lock, Goto, TypeOK, Labels, GlobalInv, AtMostOne, At,
                  InsideR, HoldsGlobalR
  <2> QED
    BY <2>1, <2>2, <2>3
<1>2. CASE lr_count(t)
  BY <1>2, CountReaderOut
<1>3. CASE lr_global(t)
  <2>1. CountInv'
    <3>1. Goto(t, "lr_global", "lr_unlock") /\ UNCHANGED <<writers, readcount>>
      BY <1>3 DEF lr_global
    <3> QED
      BY <3>1, CountKept DEF CountedW, CountedR
  <2>2. TypeOK' /\ MutexInv' /\ SemaphoreInv'
    BY <1>3 DEF lr_global, Goto, TypeOK, Labels, MutexInv, SemaphoreInv, AtMostOne, At,
                  HoldsW, HoldsR, HoldsLong, ReaderHoldsShort, WriterHoldsShort
  <2>3. GlobalInv'
    BY <1>3 DEF lr_global, Goto, TypeOK, Labels, MutexInv, CountInv, HoldsR, CountedR, GlobalInv, AtMostOne, At,
                  InsideR, HoldsGlobalR
  <2> QED
    BY <2>1, <2>2, <2>3
<1>4. CASE lr_unlock(t)
  <2>1. CountInv'
    <3>1. Goto(t, "lr_unlock", "idle") /\ UNCHANGED <<writers, readcount>>
      BY <1>4 DEF lr_unlock
    <3> QED
      BY <3>1, CountKept DEF CountedW, CountedR
  <2>2. TypeOK' /\ MutexInv' /\ SemaphoreInv'
    BY <1>4 DEF lr_unlock, Goto, TypeOK, Labels, MutexInv, SemaphoreInv, AtMostOne, At,
                  HoldsW, HoldsR, HoldsLong, ReaderHoldsShort, WriterHoldsShort
  <2>3. GlobalInv'
    BY <1>4 DEF lr_unlock, Goto, TypeOK, Labels, GlobalInv, AtMostOne, At,
                  InsideR, HoldsGlobalR
  <2> QED
    BY <2>1, <2>2, <2>3
<1> QED
  BY <1>1, <1>2, <1>3, <1>4 DEF leave_reader

\* A thread calls enter_critical: nobody holds anything more.
LEMMA CallStep ==
  ASSUME IInv, NEW t \in Threads, enter_critical(t)
  PROVE  IInv'
<1> USE DEF IInv
<1>1. PICK b \in {"ew_lock", "er_long"} : Goto(t, "idle", b)
  BY DEF enter_critical
<1>2. UNCHANGED <<w_mtx, writers, r_mtx, readcount, g_mtx, shortwait, longwait>>
  BY DEF enter_critical
<1>3. CountInv'
  BY <1>1, <1>2, CountKept DEF CountedW, CountedR
<1>4. TypeOK' /\ MutexInv' /\ SemaphoreInv'
  BY <1>1, <1>2 DEF Goto, TypeOK, Labels, MutexInv, SemaphoreInv, AtMostOne, At,
                    HoldsW, HoldsR, HoldsLong, ReaderHoldsShort, WriterHoldsShort
<1>5. GlobalInv'
  BY <1>1, <1>2 DEF Goto, TypeOK, Labels, GlobalInv, AtMostOne, At, InsideR, HoldsGlobalR
<1> QED
  BY <1>3, <1>4, <1>5

\* A stuttering step changes nothing the invariant speaks of.
LEMMA StutterIInv == IInv /\ UNCHANGED vars => IInv'
BY DEF IInv, vars, TypeOK, MutexInv, CountInv, SemaphoreInv, GlobalInv, AtMostOne, At

\* The invariant is inductive.
LEMMA NextIInv == IInv /\ [Next]_vars => IInv'
<1> SUFFICES ASSUME IInv, [Next]_vars PROVE IInv'
  OBVIOUS
<1>1. ASSUME NEW t \in Threads, enter_critical(t) PROVE IInv'
  BY <1>1, CallStep
<1>2. ASSUME NEW t \in Threads, Step(t) PROVE IInv'
  BY <1>2, EnterWriterStep, LeaveWriterStep, EnterReaderStep, LeaveReaderStep DEF Step
<1>3. CASE UNCHANGED vars
  BY <1>3, StutterIInv
<1> QED
  BY <1>1, <1>2, <1>3 DEF Next

-----------------------------------------------------------------------------
(* The theorems.                                                           *)

\* Each mutex and semaphore of synchronization.c is taken exactly while some
\* thread is between its acquisition and its release, and the counters are
\* exact, in every reachable state and for any number of threads.
THEOREM Holders == Spec => []IInv
BY InitIInv, NextIInv, PTL DEF Spec

\* The types hold; in particular the semaphores stay binary.
THEOREM TypeCorrect == Spec => []TypeOK
<1>1. IInv => TypeOK
  BY DEF IInv
<1> QED
  BY <1>1, Holders, PTL

\* A writer is alone in the critical zone, for any number of threads.
THEOREM MutualExclusion == Spec => []Exclusion
<1>1. IInv => Exclusion
  BY DEF IInv, GlobalInv, AtMostOne, At, HoldsGlobalR, InsideR, Exclusion
<1> QED
  BY <1>1, Holders, PTL

\* The first reader takes g_mtx without ever waiting for it, although it
\* holds r_mtx and both semaphores there.
THEOREM NoBlockingInside == Spec => []FirstReaderNeverBlocks
<1>1. IInv => FirstReaderNeverBlocks
  <2> SUFFICES ASSUME IInv, NEW t \in Threads, pc[t] = "er_global" PROVE g_mtx = 0
    BY DEF FirstReaderNeverBlocks
  <2>1. At({"w_crit"}) = {}
    BY DEF IInv, SemaphoreInv, At, ReaderHoldsShort, WriterHoldsShort
  <2>2. At(InsideR) = {}
    <3>1. At(CountedR) = {t}
      BY DEF IInv, CountInv
    <3> QED
      BY <3>1 DEF At, InsideR, CountedR
  <2>3. At({"lr_global"}) = {}
    BY DEF IInv, MutexInv, AtMostOne, At, HoldsR
  <2> QED
    BY <2>1, <2>2, <2>3 DEF IInv, TypeOK, GlobalInv, At, HoldsGlobalR
<1> QED
  BY <1>1, Holders, PTL

\* Every unlock and every post releases something that is taken.
THEOREM ReleasesMatch == Spec => []ReleaseMatched
<1>1. IInv => ReleaseMatched
  BY DEF IInv, ReleaseMatched, MutexInv, SemaphoreInv, GlobalInv, At, HoldsW, HoldsR, HoldsLong,
         ReaderHoldsShort, WriterHoldsShort, HoldsGlobalR
<1> QED
  BY <1>1, Holders, PTL

\* At most one reader and at most one writer wait at shortwait, so a new group
\* of writers contends with a single reader (the second sem_wait of
\* enter_reader and the one of enter_writer).
THEOREM OneInShortQueue == Spec => []ShortQueue
<1>1. IInv => ShortQueue
  BY DEF IInv, MutexInv, SemaphoreInv, AtMostOne, At, HoldsLong, HoldsW, ShortQueue
<1> QED
  BY <1>1, Holders, PTL

-----------------------------------------------------------------------------
(* Refinement of ReadWriteLock.                                            *)

\* A step that crosses neither border of the two abstract regions is a
\* stuttering step of ReadWriteLock.
LEMMA QuietStep ==
  ASSUME TypeOK, NEW t \in Threads, NEW a, NEW b, Goto(t, a, b),
         a \in InsideR <=> b \in InsideR, a = "w_crit" <=> b = "w_crit"
  PROVE  UNCHANGED <<At(InsideR), At({"w_crit"})>>
<1>1. At(InsideR)' = At(InsideR)
  BY MoveRegion
<1>2. At({"w_crit"})' = At({"w_crit"})
  BY MoveRegion
<1> QED
  BY <1>1, <1>2

\* A reader gets in when it is counted and readers already have g_mtx, or when
\* it locks g_mtx as the first one.
LEMMA ReaderGetsIn ==
  ASSUME IInv, NEW t \in Threads, NEW a \in {"er_count", "er_global"},
         Goto(t, a, "er_unlock")
  PROVE  RW!EnterReader(t)
<1>1. TypeOK
  BY DEF IInv
<1>2. At(InsideR)' = At(InsideR) \cup {t} /\ t \notin At(InsideR)
  BY <1>1, MoveRegion DEF InsideR
<1>3. t \in At(ReaderHoldsShort)
  BY <1>1, MoveRegion DEF ReaderHoldsShort
<1>4. At(WriterHoldsShort) = {}
  BY <1>3 DEF IInv, SemaphoreInv
<1>5. At({"w_crit"}) = {}
  BY <1>4 DEF At, WriterHoldsShort
<1>6. At({"w_crit"})' = At({"w_crit"}) \ {t}
  BY <1>1, MoveRegion
<1> QED
  BY <1>2, <1>5, <1>6 DEF RW!EnterReader

\* A writer gets in when it locks g_mtx: nobody is inside.
LEMMA WriterGetsIn ==
  ASSUME IInv, NEW t \in Threads, ew_global(t)
  PROVE  RW!EnterWriter(t)
<1>1. TypeOK /\ Goto(t, "ew_global", "w_crit") /\ g_mtx = 0
  BY DEF IInv, ew_global
<1>2. At(HoldsGlobalR \cup {"w_crit"}) = {}
  BY <1>1 DEF IInv, GlobalInv
<1>3. At(InsideR) = {} /\ At({"w_crit"}) = {}
  BY <1>2 DEF At, HoldsGlobalR
<1>4. At({"w_crit"})' = At({"w_crit"}) \cup {t} /\ At(InsideR)' = At(InsideR) \ {t}
  BY <1>1, MoveRegion DEF InsideR
<1> QED
  BY <1>3, <1>4 DEF RW!EnterWriter

\* A reader is out when it is no longer counted, a writer when it unlocks g_mtx.
LEMMA ThreadGetsOut ==
  ASSUME IInv, NEW t \in Threads
  PROVE  /\ lr_count(t) => RW!LeaveReader(t)
         /\ lw_global(t) => RW!LeaveWriter(t)
<1>1. TypeOK
  BY DEF IInv
<1>2. ASSUME lr_count(t) PROVE RW!LeaveReader(t)
  <2>1. PICK b \in {"lr_global", "lr_unlock"} : Goto(t, "lr_count", b)
    BY <1>2 DEF lr_count
  <2>2. At(InsideR)' = At(InsideR) \ {t} /\ t \in At(InsideR)
    BY <1>1, <2>1, MoveRegion DEF InsideR
  <2>3. At({"w_crit"})' = At({"w_crit"}) \ {t} /\ t \notin At({"w_crit"})
    BY <1>1, <2>1, MoveRegion
  <2> QED
    BY <2>2, <2>3 DEF RW!LeaveReader
<1>3. ASSUME lw_global(t) PROVE RW!LeaveWriter(t)
  <2>1. Goto(t, "w_crit", "lw_lock")
    BY <1>3 DEF lw_global
  <2>2. At({"w_crit"})' = At({"w_crit"}) \ {t} /\ t \in At({"w_crit"})
    BY <1>1, <2>1, MoveRegion
  <2>3. At(InsideR)' = At(InsideR) \ {t} /\ t \notin At(InsideR)
    BY <1>1, <2>1, MoveRegion DEF InsideR
  <2> QED
    BY <2>2, <2>3 DEF RW!LeaveWriter
<1> QED
  BY <1>2, <1>3

\* Every step of a thread is one of those four, or stutters.
LEMMA StepImplements ==
  ASSUME IInv, [Next]_vars
  PROVE  [RW!RWNext]_(RW!rwVars)
<1> DEFINE Quiet == UNCHANGED <<At(InsideR), At({"w_crit"})>>
<1>1. TypeOK
  BY DEF IInv
<1>2. ASSUME NEW t \in Threads, enter_critical(t) PROVE Quiet
  <2>1. PICK b \in {"ew_lock", "er_long"} : Goto(t, "idle", b)
    BY <1>2 DEF enter_critical
  <2> QED
    BY <1>1, <2>1, QuietStep DEF InsideR
<1>3. ASSUME NEW t \in Threads, enter_writer(t) PROVE Quiet \/ RW!EnterWriter(t)
  <2>1. CASE ew_global(t)
    BY <2>1, WriterGetsIn
  <2>2. CASE ~ew_global(t)
    <3>1. PICK a \in {"ew_lock", "ew_count", "ew_short", "ew_unlock"},
               b \in {"ew_count", "ew_short", "ew_unlock", "ew_global"} : Goto(t, a, b)
      BY <1>3, <2>2 DEF enter_writer, ew_lock, ew_count, ew_short, ew_unlock
    <3> QED
      BY <1>1, <3>1, QuietStep DEF InsideR
  <2> QED
    BY <2>1, <2>2
<1>4. ASSUME NEW t \in Threads, leave_writer(t) PROVE Quiet \/ RW!LeaveWriter(t)
  <2>1. CASE lw_global(t)
    BY <2>1, ThreadGetsOut
  <2>2. CASE ~lw_global(t)
    <3>1. PICK a \in {"lw_lock", "lw_count", "lw_post", "lw_unlock"},
               b \in {"lw_count", "lw_post", "lw_unlock", "idle"} : Goto(t, a, b)
      BY <1>4, <2>2 DEF leave_writer, lw_lock, lw_count, lw_post, lw_unlock
    <3> QED
      BY <1>1, <3>1, QuietStep DEF InsideR
  <2> QED
    BY <2>1, <2>2
<1>5. ASSUME NEW t \in Threads, enter_reader(t) PROVE Quiet \/ RW!EnterReader(t)
  <2>1. CASE \E a \in {"er_count", "er_global"} : Goto(t, a, "er_unlock")
    BY <2>1, ReaderGetsIn
  <2>2. CASE ~\E a \in {"er_count", "er_global"} : Goto(t, a, "er_unlock")
    <3>1. PICK a, b : /\ Goto(t, a, b)
                      /\ <<a, b>> \in {<<"er_long", "er_short">>, <<"er_short", "er_lock">>,
                                       <<"er_lock", "er_count">>, <<"er_count", "er_global">>,
                                       <<"er_unlock", "er_post_short">>,
                                       <<"er_post_short", "er_post_long">>,
                                       <<"er_post_long", "r_crit">>}
      BY <1>5, <2>2 DEF enter_reader, er_long, er_short, er_lock, er_count, er_global, er_unlock,
                        er_post_short, er_post_long
    <3> QED
      BY <1>1, <3>1, QuietStep DEF InsideR
  <2> QED
    BY <2>1, <2>2
<1>6. ASSUME NEW t \in Threads, leave_reader(t) PROVE Quiet \/ RW!LeaveReader(t)
  <2>1. CASE lr_count(t)
    BY <2>1, ThreadGetsOut
  <2>2. CASE ~lr_count(t)
    <3>1. PICK a, b : /\ Goto(t, a, b)
                      /\ <<a, b>> \in {<<"r_crit", "lr_count">>, <<"lr_global", "lr_unlock">>,
                                       <<"lr_unlock", "idle">>}
      BY <1>6, <2>2 DEF leave_reader, lr_lock, lr_global, lr_unlock
    <3> QED
      BY <1>1, <3>1, QuietStep DEF InsideR
  <2> QED
    BY <2>1, <2>2
<1>7. ASSUME UNCHANGED vars PROVE Quiet
  BY <1>7 DEF vars, At
<1> QED
  BY <1>2, <1>3, <1>4, <1>5, <1>6, <1>7 DEF Next, Step, RW!RWNext, RW!rwVars

\* Seen from process_request, the lock of synchronization.c is a readers-writers
\* lock that is entered and left in one step, for any number of threads.
THEOREM Refinement == Spec => Implements
<1>1. Init => RW!RWInit
  BY DEF Init, RW!RWInit, At, InsideR
<1>2. IInv /\ [Next]_vars => [RW!RWNext]_(RW!rwVars)
  BY StepImplements
<1> QED
  BY <1>1, <1>2, Holders, PTL DEF Spec, Implements, RW!RWSpec

\* While the writers have shortwait no reader that is still queueing gets in.
THEOREM WritersFirst == Spec => WritersBarReaders
<1>1. IInv /\ [Next]_vars => [At(WriterHoldsShort) # {} => At(InsideR)' \subseteq At(InsideR)]_vars
  <2> SUFFICES ASSUME IInv, Next, At(WriterHoldsShort) # {}
               PROVE  At(InsideR)' \subseteq At(InsideR)
    OBVIOUS
  <2>1. TypeOK /\ At(ReaderHoldsShort) = {}
    BY DEF IInv, SemaphoreInv
  <2>2. PICK t \in Threads : enter_critical(t) \/ Step(t)
    BY DEF Next
  <2>3. PICK a, b : Goto(t, a, b) /\ (b \in InsideR => a \in InsideR \cup ReaderHoldsShort)
    BY <2>2 DEF enter_critical, Step, enter_writer, ew_lock, ew_count, ew_short, ew_unlock, ew_global,
                leave_writer, lw_global, lw_lock, lw_count, lw_post, lw_unlock,
                enter_reader, er_long, er_short, er_lock, er_count, er_global, er_unlock,
                er_post_short, er_post_long, leave_reader, lr_lock, lr_count, lr_global, lr_unlock,
                InsideR, ReaderHoldsShort
  <2>4. pc[t] = a /\ \A u \in At(InsideR)' : u \in Threads /\ (u = t \/ pc[u] \in InsideR) 
    BY <2>1, <2>3 DEF Goto, TypeOK, At
  <2>5. b \notin InsideR => t \notin At(InsideR)'
    BY <2>1, <2>3 DEF Goto, TypeOK, At
  <2> QED
    BY <2>1, <2>3, <2>4, <2>5 DEF At
<1> QED
  BY <1>1, Holders, PTL DEF Spec, WritersBarReaders
=============================================================================
