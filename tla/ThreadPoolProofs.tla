-------------------------- MODULE ThreadPoolProofs --------------------------
(***************************************************************************)
(* Proofs about ThreadPool for every set of workers, producers and jobs.   *)
(***************************************************************************)
EXTENDS ThreadPool, FiniteSetTheorems, TLAPS

LEMMA NType == N \in Nat /\ N >= 1
<1>1. N \in Nat
  BY WorkersAssumption, FS_CardinalityType DEF N
<1>2. N # 0
  BY WorkersAssumption, FS_EmptySet DEF N
<1> QED BY <1>1, <1>2

LEMMA WrapInSlot == \A i \in Slot : Wrap(i) \in Slot
BY NType DEF Slot, Wrap

LEMMA InitTypeOK == Init => TypeOK
<1> SUFFICES ASSUME Init PROVE TypeOK
  OBVIOUS
<1>1. 0 \in Slot /\ 0 \in 0 .. N /\ NULL \in Pointer
  BY NType DEF Slot, Pointer
<1>2. call \in [Slot -> Pointer] /\ arg \in [Slot -> Pointer]
  BY <1>1 DEF Init
<1>3. pidx \in [Producers -> Slot] /\ widx \in [Workers -> Slot]
  BY <1>1 DEF Init
<1>4. ppc \in [Producers -> {"idle", "reserve", "arg", "call", "post"}]
      /\ \A p \in Producers : ppc[p] = "idle"
  BY DEF Init
<1>5. wpc \in [Workers -> {"none", "sleep", "wait", "wake", "test", "invoke",
                          "load", "running", "clear", "cleararg", "post", "check",
                          "exited"}]
      /\ \A w \in Workers : wpc[w] = "none"
  BY DEF Init
<1>6. /\ pjob \in [Producers -> Jobs \cup {NULL}]
      /\ wjob \in [Workers -> Pointer]
      /\ runs \in [Jobs -> Nat]
  BY DEF Init, Pointer
<1>7. push_index \in Slot /\ pop_index \in Slot /\ dposts \in 0 .. N
  BY <1>1 DEF Init
<1>8. is_quit \in BOOLEAN /\ q_live \in BOOLEAN /\ wild \in BOOLEAN
  BY DEF Init
<1>9. /\ phase = "raw" /\ created = {} /\ job_free_sem = 0 /\ job_valid_sem = 0
      /\ sleep_thread_num = 0 /\ dpc = "none"
      /\ todo = Jobs /\ posted = {} /\ done = {}
  BY DEF Init
<1> QED
  BY <1>2, <1>3, <1>4, <1>5, <1>6, <1>7, <1>8, <1>9 DEF TypeOK

LEMMA NextTypeOK == TypeOK /\ [Next]_vars => TypeOK'
<1> SUFFICES ASSUME TypeOK, [Next]_vars PROVE TypeOK'
  OBVIOUS
<1> USE DEF TypeOK
<1>1. CASE InitPool
  BY <1>1, NType DEF InitPool, Slot, Pointer, prods, works, hist
<1>2. CASE InitMallocFail
  BY <1>2 DEF InitMallocFail, ring, sems, prods, works, hist
<1>3. CASE CreateFail
  BY <1>3 DEF CreateFail, ring, sems, prods, works, hist
<1>4. ASSUME NEW w \in Workers, CreateWorker(w) PROVE TypeOK'
  BY <1>4 DEF CreateWorker, ring, sems, prods, hist
<1>5. ASSUME NEW p \in Producers, NEW j \in Jobs, AddJob(p, j) PROVE TypeOK'
  BY <1>5 DEF AddJob, ring, sems, works, life, hist
<1>6. ASSUME NEW p \in Producers, GetFreeJobIndex(p) PROVE TypeOK'
  BY <1>6, WrapInSlot DEF GetFreeJobIndex, works, life, hist
<1>7. ASSUME NEW p \in Producers, WriteArg(p) PROVE TypeOK'
  BY <1>7 DEF WriteArg, Pointer, sems, works, life, hist
<1>8. ASSUME NEW p \in Producers, WriteCall(p) PROVE TypeOK'
  BY <1>8 DEF WriteCall, Pointer, sems, works, life, hist
<1>9. ASSUME NEW p \in Producers, PostJobValid(p) PROVE TypeOK'
  BY <1>9 DEF PostJobValid, ring, works, life
<1>10. ASSUME NEW w \in Workers, Sleep(w) PROVE TypeOK'
  BY <1>10 DEF Sleep, WorkerStep, ring, sems, prods, life, hist
<1>11. ASSUME NEW w \in Workers, GetValidJobIndex(w) PROVE TypeOK'
  BY <1>11, WrapInSlot DEF GetValidJobIndex, WorkerStep, prods, life, hist
<1>12. ASSUME NEW w \in Workers, Wakeup(w) PROVE TypeOK'
  BY <1>12 DEF Wakeup, WorkerStep, ring, sems, prods, life, hist
<1>13. ASSUME NEW w \in Workers, TestCall(w) PROVE TypeOK'
  BY <1>13 DEF TestCall, ring, sems, prods, life, hist
<1>14. ASSUME NEW w \in Workers, LoadCall(w) \/ Invoke(w) PROVE TypeOK'
  <2>1. CASE LoadCall(w)
    <3>1. PICK c \in Loads(call, widx[w]) : wjob' = [wjob EXCEPT ![w] = c]
      BY <2>1 DEF LoadCall
    <3>2. c \in Pointer
      BY <3>1 DEF Loads, Pointer
    <3>3. wjob' \in [Workers -> Pointer]
      BY <3>1, <3>2
    <3>4. \A v \in Workers : wpc'[v] = "running" => wpc[v] = "running" /\ wjob'[v] = wjob[v]
      BY <2>1, <3>1 DEF LoadCall, WorkerStep
    <3> QED BY <2>1, <3>3, <3>4 DEF LoadCall, WorkerStep, ring, sems, prods, life, hist
  <2>2. CASE Invoke(w)
    <3>1. CASE wild' = TRUE /\ UNCHANGED <<wpc, runs>>
      BY <2>2, <3>1 DEF Invoke, ring, sems, prods, life
    <3>2. CASE /\ wjob[w] \in Jobs /\ WorkerStep(w, "load", "running")
               /\ runs' = [runs EXCEPT ![wjob[w]] = @ + 1] /\ UNCHANGED wild
      BY <2>2, <3>2 DEF Invoke, WorkerStep, ring, sems, prods, life
    <3> QED BY <2>2, <3>1, <3>2 DEF Invoke
  <2> QED BY <1>14, <2>1, <2>2
<1>15. ASSUME NEW w \in Workers, JobReturns(w) PROVE TypeOK'
  BY <1>15 DEF JobReturns, WorkerStep, ring, sems, prods, life
<1>16. ASSUME NEW w \in Workers, ClearCall(w) \/ ClearArg(w) PROVE TypeOK'
  BY <1>16 DEF ClearCall, ClearArg, WorkerStep, Pointer, sems, prods, life, hist
<1>17. ASSUME NEW w \in Workers, PostJobFree(w) PROVE TypeOK'
  BY <1>17 DEF PostJobFree, WorkerStep, ring, prods, life, hist
<1>18. ASSUME NEW w \in Workers, CheckQuit(w) PROVE TypeOK'
  BY <1>18 DEF CheckQuit, WorkerStep, ring, sems, prods, life, hist
<1>19. CASE SetQuit
  BY <1>19 DEF SetQuit, ring, sems, prods, works, hist
<1>20. CASE DestroyPost
  BY <1>20, NType DEF DestroyPost, ring, prods, works, hist
<1>21. CASE DestroyFree
  BY <1>21 DEF DestroyFree, ring, sems, prods, works, hist
<1>22. CASE UNCHANGED vars
  BY <1>22 DEF vars, ring, sems, prods, works, life, hist
<1> QED
  BY <1>1, <1>2, <1>3, <1>4, <1>5, <1>6, <1>7, <1>8, <1>9, <1>10, <1>11, <1>12,
     <1>13, <1>14, <1>15, <1>16, <1>17, <1>18, <1>19, <1>20, <1>21, <1>22
  DEF Next, Setup, Producer, Worker, Destroy

(* Every field of the pool and every local keeps its type, whatever the    *)
(* number of threads and jobs and however they interleave.                 *)
THEOREM TypeCorrect == Spec => []TypeOK
BY InitTypeOK, NextTypeOK, PTL DEF Spec

-----------------------------------------------------------------------------
(* Counting the threads in a set when one of them joins or leaves it.      *)
LEMMA Joins ==
  ASSUME NEW S, IsFiniteSet(S), NEW x, x \notin S
  PROVE  Cardinality(S) \in Nat /\ Cardinality(S \cup {x}) = Cardinality(S) + 1
BY FS_AddElement, FS_CardinalityType

LEMMA Leaves ==
  ASSUME NEW S, IsFiniteSet(S), NEW x \in S
  PROVE  Cardinality(S) \in Nat /\ Cardinality(S \ {x}) = Cardinality(S) - 1
BY FS_RemoveElement, FS_CardinalityType

LEMMA ThreadSetsFinite ==
  /\ IsFiniteSet(Filling) /\ Cardinality(Filling) \in Nat
  /\ IsFiniteSet(Draining) /\ Cardinality(Draining) \in Nat
<1>1. Filling \in SUBSET Producers /\ Draining \in SUBSET Workers
  BY DEF Filling, Draining
<1> QED
  BY <1>1, WorkersAssumption, ProducersAssumption, FS_Subset, FS_CardinalityType

(* The facts proved together: Conservation is not inductive alone.         *)
IInv == TypeOK /\ Lifecycle /\ Conservation

LEMMA InitIInv == Init => IInv
<1> SUFFICES ASSUME Init PROVE IInv
  OBVIOUS
<1>1. TypeOK
  BY InitTypeOK
<1>2. Lifecycle /\ Conservation
  BY DEF Init, Lifecycle, Conservation
<1> QED BY <1>1, <1>2 DEF IInv

LEMMA NextLifecycle == IInv /\ [Next]_vars => Lifecycle'
<1> SUFFICES ASSUME IInv, [Next]_vars PROVE Lifecycle'
  OBVIOUS
<1> USE DEF IInv, TypeOK, Lifecycle
<1>1. CASE Setup
  BY <1>1 DEF Setup, InitPool, InitMallocFail, CreateFail, CreateWorker, prods, works
<1>2. ASSUME NEW p \in Producers, NEW j \in Jobs, AddJob(p, j) PROVE Lifecycle'
  BY <1>2 DEF AddJob, works, life
<1>3. ASSUME NEW p \in Producers, Producer(p) PROVE Lifecycle'
  BY <1>3 DEF Producer, GetFreeJobIndex, WriteArg, WriteCall, PostJobValid, works, life
<1>4. ASSUME NEW w \in Workers, Worker(w) PROVE Lifecycle'
  <2>1. w \in created
    BY <1>4 DEF Worker, WorkerStep, Sleep, GetValidJobIndex, Wakeup, TestCall, LoadCall, Invoke,
                JobReturns, ClearCall, ClearArg, PostJobFree, CheckQuit
  <2>2. \A v \in Workers : v # w => wpc'[v] = wpc[v]
    BY <1>4 DEF Worker, WorkerStep, Sleep, GetValidJobIndex, Wakeup, TestCall, LoadCall, Invoke,
                JobReturns, ClearCall, ClearArg, PostJobFree, CheckQuit
  <2>3. UNCHANGED <<phase, created, dposts, ppc>>
    BY <1>4 DEF Worker, Sleep, GetValidJobIndex, Wakeup, TestCall, LoadCall, Invoke,
                JobReturns, ClearCall, ClearArg, PostJobFree, CheckQuit, life, prods
  <2> QED BY <2>1, <2>2, <2>3
<1>5. CASE SetQuit \/ Destroy
  BY <1>5, NType DEF SetQuit, Destroy, DestroyPost, DestroyFree, prods, works
<1>6. CASE UNCHANGED vars
  BY <1>6 DEF vars, prods, works, life
<1> QED
  BY <1>1, <1>2, <1>3, <1>4, <1>5, <1>6 DEF Next

(* What a step does to the sets of threads that hold a slot.               *)
LEMMA NextConservation == IInv /\ [Next]_vars => Conservation'
<1> SUFFICES ASSUME IInv, [Next]_vars PROVE Conservation'
  OBVIOUS
<1>t. TypeOK /\ Lifecycle /\ Conservation
  BY DEF IInv
<1>n. N \in Nat /\ dposts \in Nat /\ job_free_sem \in Nat /\ job_valid_sem \in Nat
      /\ sleep_thread_num \in Int
  BY <1>t, NType DEF TypeOK
<1>f. /\ IsFiniteSet(Filling) /\ Cardinality(Filling) \in Nat
      /\ IsFiniteSet(Draining) /\ Cardinality(Draining) \in Nat
      BY ThreadSetsFinite
<1>1. CASE InitPool
  <2>1. Filling' = {} /\ Draining' = {}
    BY <1>1, <1>t DEF InitPool, Lifecycle, Filling, Draining, prods, works
  <2>2. job_free_sem' = N /\ job_valid_sem' = 0 /\ dposts' = 0
    BY <1>1, <1>t DEF InitPool, Lifecycle
  <2>3. Conservation'
    BY <2>1, <2>2, <1>n, FS_EmptySet DEF Conservation, N
  <2> QED BY <2>3
<1>2. CASE InitMallocFail \/ CreateFail
  BY <1>2, <1>t DEF InitMallocFail, CreateFail, Conservation, works
<1>3. ASSUME NEW w \in Workers, CreateWorker(w) PROVE Conservation'
  <2>1. wpc[w] = "none"
    BY <1>3, <1>t DEF CreateWorker, Lifecycle
  <2>2. Filling' = Filling /\ Draining' = Draining
    BY <1>3, <1>t, <2>1 DEF CreateWorker, TypeOK, Filling, Draining, prods
  <2> QED
    BY <1>3, <1>t, <2>2 DEF CreateWorker, Conservation, sems, N
<1>4. ASSUME NEW p \in Producers, NEW j \in Jobs, AddJob(p, j)
      PROVE  Conservation'
  <2>1. Filling' = Filling /\ Draining' = Draining
    BY <1>4, <1>t DEF AddJob, TypeOK, Filling, Draining, works
  <2> QED
    BY <1>4, <1>t, <2>1 DEF AddJob, Conservation, sems, works, life, N
<1>5. ASSUME NEW p \in Producers, GetFreeJobIndex(p) PROVE Conservation'
  <2>1. Filling' = Filling \cup {p} /\ p \notin Filling
    BY <1>5, <1>t DEF GetFreeJobIndex, TypeOK, Filling
  <2>2. Draining' = Draining
    BY <1>5 DEF GetFreeJobIndex, Draining, works
  <2>3. Cardinality(Filling') = Cardinality(Filling) + 1
    BY <2>1, <1>f, Joins
  <2>4. /\ job_free_sem' = job_free_sem - 1 /\ job_valid_sem' = job_valid_sem
        /\ phase' = phase /\ dposts' = dposts
    BY <1>5 DEF GetFreeJobIndex, works, life
  <2> QED
    BY <1>t, <1>n, <1>f, <2>2, <2>3, <2>4 DEF Conservation, N
<1>6. ASSUME NEW p \in Producers, WriteArg(p) \/ WriteCall(p)
      PROVE  Conservation'
  <2>1. Filling' = Filling /\ Draining' = Draining
    BY <1>6, <1>t DEF WriteArg, WriteCall, TypeOK, Filling, Draining, works
  <2> QED
    BY <1>6, <1>t, <2>1 DEF WriteArg, WriteCall, Conservation, sems, works, life, N
<1>7. ASSUME NEW p \in Producers, PostJobValid(p) PROVE Conservation'
  <2>1. Filling' = Filling \ {p} /\ p \in Filling
    BY <1>7, <1>t DEF PostJobValid, TypeOK, Filling
  <2>2. Draining' = Draining
    BY <1>7 DEF PostJobValid, Draining, works
  <2>3. Cardinality(Filling') = Cardinality(Filling) - 1
    BY <2>1, <1>f, Leaves
  <2>4. /\ job_free_sem' = job_free_sem /\ job_valid_sem' = job_valid_sem + 1
        /\ phase' = phase /\ dposts' = dposts
    BY <1>7 DEF PostJobValid, works, life
  <2> QED
    BY <1>t, <1>n, <1>f, <2>2, <2>3, <2>4 DEF Conservation, N
<1>8. ASSUME NEW w \in Workers, Sleep(w) \/ Wakeup(w) PROVE Conservation'
  <2>1. Filling' = Filling /\ Draining' = Draining
    BY <1>8, <1>t DEF Sleep, Wakeup, WorkerStep, TypeOK, Filling, Draining, prods
  <2>2. UNCHANGED <<job_free_sem, job_valid_sem, phase, dposts>>
    BY <1>8 DEF Sleep, Wakeup, sems, life
  <2> QED BY <1>t, <2>1, <2>2 DEF Conservation, N
<1>9. ASSUME NEW w \in Workers, GetValidJobIndex(w) PROVE Conservation'
  <2>1. Draining' = Draining \cup {w} /\ w \notin Draining
    BY <1>9, <1>t DEF GetValidJobIndex, WorkerStep, TypeOK, Draining
  <2>2. Filling' = Filling
    BY <1>9, <1>t DEF GetValidJobIndex, WorkerStep, TypeOK, Filling, prods
  <2>3. Cardinality(Draining') = Cardinality(Draining) + 1
    BY <2>1, <1>f, Joins
  <2>4. /\ job_free_sem' = job_free_sem /\ job_valid_sem' = job_valid_sem - 1
        /\ phase' = phase /\ dposts' = dposts
    BY <1>9 DEF GetValidJobIndex, life
  <2> QED
    BY <1>t, <1>n, <1>f, <2>2, <2>3, <2>4 DEF Conservation, N
<1>11. ASSUME NEW w \in Workers,
              \/ TestCall(w) \/ LoadCall(w) \/ Invoke(w) \/ JobReturns(w)
              \/ ClearCall(w) \/ ClearArg(w) \/ CheckQuit(w)
       PROVE  Conservation'
  <2>1. Draining' = Draining
    BY <1>11, <1>t DEF TestCall, LoadCall, Invoke, JobReturns, ClearCall, ClearArg, CheckQuit, WorkerStep,
                       TypeOK, Draining
  <2>2. UNCHANGED <<ppc, job_free_sem, job_valid_sem, phase, dposts, sleep_thread_num>>
    BY <1>11 DEF TestCall, LoadCall, Invoke, JobReturns, ClearCall, ClearArg, CheckQuit, prods, sems, life
  <2> QED
    BY <1>t, <2>1, <2>2 DEF Conservation, Filling, N
<1>12. ASSUME NEW w \in Workers, PostJobFree(w) PROVE Conservation'
  <2>1. Draining' = Draining \ {w} /\ w \in Draining
    BY <1>12, <1>t DEF PostJobFree, WorkerStep, TypeOK, Draining
  <2>2. Filling' = Filling
    BY <1>12, <1>t DEF PostJobFree, WorkerStep, TypeOK, Filling, prods
  <2>3. Cardinality(Draining') = Cardinality(Draining) - 1
    BY <2>1, <1>f, Leaves
  <2>4. /\ job_free_sem' = job_free_sem + 1 /\ job_valid_sem' = job_valid_sem
        /\ phase' = phase /\ dposts' = dposts
    BY <1>12 DEF PostJobFree, life
  <2> QED
    BY <1>t, <1>n, <1>f, <2>2, <2>3, <2>4 DEF Conservation, N
<1>13. CASE SetQuit \/ DestroyFree
  BY <1>13, <1>t DEF SetQuit, DestroyFree, Conservation, Filling, Draining,
                     sems, prods, works, N
<1>14. CASE DestroyPost
  <2>1. Filling' = Filling /\ Draining' = Draining
    BY <1>14 DEF DestroyPost, Filling, Draining, prods, works
  <2>2. /\ job_free_sem' = job_free_sem /\ job_valid_sem' = job_valid_sem + 1
        /\ phase' = phase /\ dposts' = dposts + 1
    BY <1>14 DEF DestroyPost, works
  <2> QED
    BY <1>t, <1>n, <1>f, <2>1, <2>2 DEF Conservation, N
<1>15. CASE UNCHANGED vars
  BY <1>15, <1>t DEF vars, ring, sems, prods, works, life, Conservation,
                     Filling, Draining, N
<1> QED
  BY <1>1, <1>2, <1>3, <1>4, <1>5, <1>6, <1>7, <1>8, <1>9, <1>11, <1>12, <1>13,
     <1>14, <1>15
  DEF Next, Setup, Producer, Worker, Destroy

LEMMA NextIInv == IInv /\ [Next]_vars => IInv'
BY NextTypeOK, NextLifecycle, NextConservation DEF IInv

LEMMA IInvHolds == Spec => []IInv
BY InitIInv, NextIInv, PTL DEF Spec

(* No job slot of the ring is ever lost or handed out twice over, for any  *)
(* number of workers, producers and jobs and with destroy at any moment.   *)
THEOREM SlotsConserved == Spec => []Conservation
<1>1. IInv => Conservation
  BY DEF IInv
<1> QED BY <1>1, IInvHolds, PTL

-----------------------------------------------------------------------------
(* Who has which slot.  Pushed slots were reserved by producers so far,    *)
(* Popped taken by workers: the indices of the ring, had they not wrapped. *)
Reserving == {p \in Producers : ppc[p] = "reserve"}
Pushed == Cardinality(Jobs \ todo) - Cardinality(Reserving)
Popped == Pushed - Cardinality(Filling) - job_valid_sem

(* Nobody uses a pool that is not ready; only destroy posts without a job. *)
Started ==
  /\ phase # "ready" => /\ \A p \in Producers : ppc[p] = "idle"
                        /\ Draining = {} /\ job_valid_sem = 0 /\ ~is_quit /\ todo = Jobs
                        /\ push_index = 0 /\ pop_index = 0
  /\ ~is_quit => dpc = "none" /\ dposts = 0

(* One producer that never goes round the ring: slots are reserved and     *)
(* taken in their order, each of them once.                                *)
OneRound == /\ Cardinality(Producers) = 1
            /\ IsFiniteSet(Jobs) /\ Cardinality(Jobs) <= N
Unrolled(k) == IF k = N THEN 0 ELSE k
SlotsOnce ==
  OneRound /\ ~is_quit =>
    /\ Popped >= 0 /\ Pushed <= N
    /\ push_index = Unrolled(Pushed) /\ pop_index = Unrolled(Popped)
    /\ \A p \in Filling : pidx[p] = Pushed - 1
    /\ \A w \in Draining : widx[w] < Popped
    /\ \A w, v \in Draining : w # v => widx[w] # widx[v]


LEMMA InitStarted == Init => Started
BY DEF Init, Started, Draining

LEMMA NextStarted == IInv /\ Started /\ [Next]_vars => Started'
<1> SUFFICES ASSUME IInv, Started, [Next]_vars PROVE Started'
  OBVIOUS
<1>t. TypeOK /\ Lifecycle
  BY DEF IInv
<1>q. is_quit => phase = "ready"
  BY DEF Started
<1> USE DEF Started
<1>1. CASE InitPool \/ InitMallocFail \/ CreateFail
  BY <1>1, <1>t DEF InitPool, InitMallocFail, CreateFail, Lifecycle, Draining, prods, works, ring, sems
<1>2. ASSUME NEW w \in Workers, CreateWorker(w) PROVE Started'
  <2>1. Draining' = Draining
    BY <1>2, <1>t DEF CreateWorker, Lifecycle, TypeOK, Draining
  <2> QED BY <1>2, <2>1 DEF CreateWorker, prods, ring, sems
<1>3. ASSUME NEW p \in Producers, NEW j \in Jobs, AddJob(p, j) PROVE Started'
  BY <1>3 DEF AddJob, life
<1>4. ASSUME NEW p \in Producers, Producer(p) PROVE Started'
  <2>1. phase = "ready" /\ UNCHANGED life
    BY <1>4 DEF Producer, GetFreeJobIndex, WriteArg, WriteCall, PostJobValid
  <2> QED BY <2>1 DEF life
<1>5. ASSUME NEW w \in Workers, Worker(w) PROVE Started'
  <2>1. UNCHANGED life
    BY <1>5 DEF Worker, Sleep, GetValidJobIndex, Wakeup, TestCall, LoadCall, Invoke, JobReturns, ClearCall, ClearArg,
       PostJobFree, CheckQuit
  <2>2. CASE phase = "ready"
    BY <2>1, <2>2 DEF life
  <2>3. CASE phase # "ready"
    <3>1. Sleep(w) \/ CheckQuit(w)
      BY <1>5, <1>t, <2>3 DEF Worker, GetValidJobIndex, Wakeup, TestCall, LoadCall, Invoke, JobReturns,
         ClearCall, ClearArg, PostJobFree, WorkerStep, Draining
    <3>2. Draining' = Draining
      BY <1>t, <2>3, <3>1 DEF Sleep, CheckQuit, WorkerStep, TypeOK, Draining
    <3> QED BY <3>1, <3>2 DEF Sleep, CheckQuit, life, prods, ring, sems
  <2> QED BY <2>2, <2>3
<1>6. CASE SetQuit
  BY <1>6 DEF SetQuit
<1>7. CASE Destroy
  BY <1>7 DEF Destroy, DestroyPost, DestroyFree
<1>8. CASE UNCHANGED vars
  BY <1>8 DEF vars, Draining, ring, sems, prods, works, life
<1> QED
  BY <1>1, <1>2, <1>3, <1>4, <1>5, <1>6, <1>7, <1>8 DEF Next, Setup

(* Until destroy is called a pool that is ready has its ring.              *)
Standing == ~is_quit /\ phase \in {"creating", "ready"} => q_live

(* Until destroy is called no thread has a slot of a ring that is not      *)
(* allocated in its hands: the workers that a failed frame_threadpool_init *)
(* has already created stay in their wait and never touch the ring it      *)
(* frees under them, for any number of threads and jobs.                   *)
THEOREM FreedRingLeftAlone == Spec => []DeadRingUntouched
<1>0. Init => Standing
  BY DEF Init, Standing
<1>1. Started /\ Standing /\ [Next]_vars => Standing'
  BY DEF Started, Standing, Next, Setup, InitPool, InitMallocFail, CreateFail, CreateWorker, AddJob, Producer,
     GetFreeJobIndex, WriteArg, WriteCall, PostJobValid, Worker, Sleep, GetValidJobIndex, Wakeup,
     TestCall, LoadCall, Invoke, JobReturns, ClearCall, ClearArg, PostJobFree, CheckQuit, SetQuit, Destroy, DestroyPost,
     DestroyFree, vars, life
<1>2. Started /\ Standing => DeadRingUntouched
  BY DEF Started, Standing, DeadRingUntouched, Filling
<1> QED BY <1>0, <1>1, <1>2, IInvHolds, InitStarted, NextStarted, PTL DEF Spec

LEMMA OneProducer ==
  ASSUME Cardinality(Producers) = 1, NEW p \in Producers, NEW q \in Producers PROVE p = q
BY ProducersAssumption, FS_CardinalityType, FS_Singleton

(* The counts in a safe use, and that they are numbers.                    *)
LEMMA RoundCounts ==
  ASSUME OneRound, TypeOK
  PROVE  /\ IsFiniteSet(Jobs \ todo) /\ Cardinality(Jobs \ todo) \in Nat
         /\ Cardinality(Jobs \ todo) <= N
         /\ IsFiniteSet(Reserving) /\ Cardinality(Reserving) \in Nat
         /\ Pushed \in Int /\ Popped \in Int /\ Pushed <= N
<1>1. Jobs \ todo \in SUBSET Jobs /\ Reserving \in SUBSET Producers
  BY DEF Reserving
<1>2. /\ IsFiniteSet(Jobs \ todo) /\ Cardinality(Jobs \ todo) \in Nat
      /\ Cardinality(Jobs \ todo) <= Cardinality(Jobs) /\ Cardinality(Jobs) \in Nat
  BY <1>1, FS_Subset, FS_CardinalityType DEF OneRound
<1>3. IsFiniteSet(Reserving) /\ Cardinality(Reserving) \in Nat
  BY <1>1, ProducersAssumption, FS_Subset, FS_CardinalityType
<1>4. Cardinality(Jobs \ todo) <= N
  BY <1>2, NType DEF OneRound
<1>5. Pushed \in Int /\ Pushed <= N
  BY <1>2, <1>3, <1>4, NType DEF Pushed
<1>6. Popped \in Int
  BY <1>5, ThreadSetsFinite DEF Popped, TypeOK
<1> QED BY <1>2, <1>3, <1>4, <1>5, <1>6

LEMMA InitSlotsOnce == Init => SlotsOnce
<1> SUFFICES ASSUME Init PROVE SlotsOnce
  OBVIOUS
<1>1. Jobs \ todo = {} /\ Reserving = {} /\ Filling = {} /\ Draining = {}
  BY DEF Init, Reserving, Filling, Draining
<1>2. Pushed = 0
  BY <1>1, FS_EmptySet DEF Pushed
<1>3. Popped = 0
  BY <1>1, <1>2, FS_EmptySet DEF Popped, Init
<1> QED BY <1>1, <1>2, <1>3, NType DEF SlotsOnce, Unrolled, Init

LEMMA NextSlotsOnce == IInv /\ Started /\ SlotsOnce /\ [Next]_vars => SlotsOnce'
<1> SUFFICES ASSUME IInv, Started, SlotsOnce, [Next]_vars, OneRound, ~is_quit' PROVE SlotsOnce'
  BY DEF SlotsOnce, OneRound, N
<1>t. TypeOK /\ TypeOK'
  BY NextTypeOK DEF IInv
<1>r. OneRound'
  BY DEF OneRound, N
<1>0. ~is_quit
  BY DEF Next, Setup, InitPool, InitMallocFail, CreateFail, CreateWorker, AddJob, Producer,
     GetFreeJobIndex, WriteArg, WriteCall, PostJobValid, Worker, Sleep, GetValidJobIndex, Wakeup,
     TestCall, LoadCall, Invoke, JobReturns, ClearCall, ClearArg, PostJobFree, CheckQuit, SetQuit, Destroy, DestroyPost,
     DestroyFree, vars, life
<1>s. /\ Popped >= 0 /\ Pushed <= N
      /\ push_index = Unrolled(Pushed) /\ pop_index = Unrolled(Popped)
      /\ \A p \in Filling : pidx[p] = Pushed - 1
      /\ \A w \in Draining : widx[w] < Popped
      /\ \A w, v \in Draining : w # v => widx[w] # widx[v]
  BY <1>0 DEF SlotsOnce
<1>c. /\ IsFiniteSet(Jobs \ todo) /\ Cardinality(Jobs \ todo) \in Nat
      /\ Cardinality(Jobs \ todo) <= N
      /\ IsFiniteSet(Reserving) /\ Cardinality(Reserving) \in Nat
      /\ Pushed \in Int /\ Popped \in Int
  BY <1>t, RoundCounts
<1>f. /\ IsFiniteSet(Filling) /\ Cardinality(Filling) \in Nat
      /\ job_valid_sem \in Nat /\ N \in Nat
  BY <1>t, ThreadSetsFinite, NType DEF TypeOK
<1>d. Popped = Pushed - Cardinality(Filling) - job_valid_sem
  BY DEF Popped
<1>e. /\ Pushed' = Cardinality(Jobs \ todo') - Cardinality(Reserving')
      /\ Popped' = Pushed' - Cardinality(Filling') - job_valid_sem'
  BY DEF Pushed, Popped
<1>u. /\ Pushed = Cardinality(Jobs \ todo) - Cardinality(Reserving)
  BY DEF Pushed
<1>p. Pushed' <= N
  <2>1. (OneRound /\ TypeOK => Pushed <= N)'
    BY RoundCounts, PTL
  <2> QED BY <2>1, <1>t, <1>r DEF N
<1> HIDE DEF Pushed, Popped
<1>9. ASSUME UNCHANGED <<Pushed, Popped, push_index, pop_index, pidx, widx, Filling, Draining>>
      PROVE  SlotsOnce'
  BY <1>s, <1>9 DEF SlotsOnce, Unrolled, N
<1>8. ASSUME UNCHANGED <<todo, ppc, job_valid_sem>> PROVE UNCHANGED <<Pushed, Popped, Filling>>
  BY <1>8 DEF Pushed, Popped, Reserving, Filling
<1>1. CASE Setup
  <2>1. Filling' = Filling /\ Draining' = Draining
    <3>1. CASE InitPool \/ InitMallocFail \/ CreateFail
      BY <3>1 DEF InitPool, InitMallocFail, CreateFail, Filling, Draining, prods, works
    <3>2. ASSUME NEW w \in Workers, CreateWorker(w) PROVE Filling' = Filling /\ Draining' = Draining
      BY <3>2, <1>t DEF CreateWorker, IInv, Lifecycle, TypeOK, Filling, Draining, prods
    <3> QED BY <1>1, <3>1, <3>2 DEF Setup
  <2>2. UNCHANGED <<todo, ppc, job_valid_sem, push_index, pop_index, pidx, widx>>
    BY <1>1 DEF Setup, InitPool, InitMallocFail, CreateFail, CreateWorker, Started, prods, works,
       ring, sems
  <2> QED BY <1>8, <1>9, <2>1, <2>2
<1>2. ASSUME NEW p \in Producers, NEW j \in Jobs, AddJob(p, j) PROVE SlotsOnce'
  <2>1. /\ ppc[p] = "idle" /\ j \in todo /\ todo' = todo \ {j} /\ ppc' = [ppc EXCEPT ![p] = "reserve"]
        /\ UNCHANGED <<pidx, job_valid_sem, push_index, pop_index, wpc, widx>>
    BY <1>0, <1>2 DEF AddJob, ring, sems, works
  <2>2. Jobs \ todo' = (Jobs \ todo) \cup {j} /\ j \notin Jobs \ todo
    BY <2>1
  <2>3. Reserving' = Reserving \cup {p} /\ p \notin Reserving
    BY <2>1, <1>t DEF Reserving, TypeOK
  <2>4. Filling' = Filling /\ Draining' = Draining
    BY <2>1, <1>t DEF Filling, Draining, TypeOK
  <2>5. Cardinality(Jobs \ todo') = Cardinality(Jobs \ todo) + 1
    BY <2>2, <1>c, Joins
  <2>6. Cardinality(Reserving') = Cardinality(Reserving) + 1
    BY <2>3, <1>c, Joins
  <2>7. Pushed' = Pushed
    BY <1>c, <1>e, <1>u, <2>5, <2>6
  <2>8. Popped' = Popped
    BY <1>d, <1>e, <2>1, <2>4, <2>7
  <2> QED BY <1>9, <2>1, <2>4, <2>7, <2>8
<1>3. ASSUME NEW p \in Producers, GetFreeJobIndex(p) PROVE SlotsOnce'
  <2>1. /\ ppc[p] = "reserve" /\ ppc' = [ppc EXCEPT ![p] = "arg"] /\ pidx' = [pidx EXCEPT ![p] = push_index]
        /\ push_index' = Wrap(push_index)
        /\ UNCHANGED <<todo, job_valid_sem, pop_index, wpc, widx>>
    BY <1>3 DEF GetFreeJobIndex, works
  <2>2. Reserving' = Reserving \ {p} /\ p \in Reserving
    BY <2>1, <1>t DEF Reserving, TypeOK
  <2>3. Filling' = Filling \cup {p} /\ p \notin Filling /\ Draining' = Draining
    BY <2>1, <1>t DEF Filling, Draining, TypeOK
  <2>4. Cardinality(Reserving') = Cardinality(Reserving) - 1
    BY <2>2, <1>c, Leaves
  <2>5. Cardinality(Filling') = Cardinality(Filling) + 1
    BY <2>3, <1>f, Joins
  <2>6. Pushed' = Pushed + 1
    BY <1>c, <1>e, <1>u, <2>1, <2>4
  <2>7. Popped' = Popped
    BY <1>c, <1>d, <1>e, <1>f, <2>1, <2>5, <2>6
  <2>8. Pushed >= 0 /\ Pushed < N
    BY <1>c, <1>d, <1>f, <1>p, <1>s, <2>6
  <2>9. push_index = Pushed /\ push_index' = Unrolled(Pushed + 1)
    BY <1>c, <1>f, <1>s, <2>1, <2>8 DEF Unrolled, Wrap
  <2>10. ASSUME NEW q \in Filling' PROVE pidx'[q] = Pushed' - 1
    <3>1. q = p
      BY <2>3, OneProducer DEF OneRound, Filling
    <3>2. pidx'[p] = Pushed
      BY <1>t, <2>1, <2>9 DEF TypeOK
    <3> QED BY <1>c, <2>6, <3>1, <3>2
  <2> QED BY <1>p, <1>s, <2>1, <2>3, <2>6, <2>7, <2>9, <2>10 DEF SlotsOnce, Unrolled, N
<1>4. ASSUME NEW p \in Producers, WriteArg(p) \/ WriteCall(p) PROVE SlotsOnce'
  <2>1. Filling' = Filling /\ Reserving' = Reserving
    BY <1>4, <1>t DEF WriteArg, WriteCall, Filling, Reserving, TypeOK
  <2>2. UNCHANGED <<todo, job_valid_sem, push_index, pop_index, pidx, wpc, widx>>
    BY <1>4 DEF WriteArg, WriteCall, sems, works
  <2>3. UNCHANGED <<Pushed, Popped, Draining>>
    BY <2>1, <2>2 DEF Pushed, Popped, Draining
  <2> QED BY <1>9, <2>1, <2>2, <2>3
<1>5. ASSUME NEW p \in Producers, PostJobValid(p) PROVE SlotsOnce'
  <2>1. /\ ppc[p] = "post" /\ ppc' = [ppc EXCEPT ![p] = "idle"] /\ job_valid_sem' = job_valid_sem + 1
        /\ UNCHANGED <<todo, pidx, push_index, pop_index, wpc, widx>>
    BY <1>5 DEF PostJobValid, ring, works
  <2>2. Reserving' = Reserving /\ Draining' = Draining
    BY <2>1, <1>t DEF Reserving, Draining, TypeOK
  <2>3. Filling' = Filling \ {p} /\ p \in Filling
    BY <2>1, <1>t DEF Filling, TypeOK
  <2>4. Cardinality(Filling') = Cardinality(Filling) - 1
    BY <2>3, <1>f, Leaves
  <2>5. Pushed' = Pushed
    BY <1>e, <1>u, <2>1, <2>2
  <2>6. Popped' = Popped
    BY <1>c, <1>d, <1>e, <1>f, <2>1, <2>4, <2>5
  <2> QED BY <1>s, <2>1, <2>2, <2>3, <2>5, <2>6 DEF SlotsOnce, Unrolled, N
<1>6. ASSUME NEW w \in Workers, GetValidJobIndex(w) PROVE SlotsOnce'
  <2>1. /\ wpc[w] = "wait" /\ wpc' = [wpc EXCEPT ![w] = "wake"] /\ job_valid_sem > 0
        /\ job_valid_sem' = job_valid_sem - 1 /\ widx' = [widx EXCEPT ![w] = pop_index]
        /\ pop_index' = Wrap(pop_index)
        /\ UNCHANGED <<todo, ppc, pidx, push_index>>
    BY <1>6 DEF GetValidJobIndex, WorkerStep, prods
  <2>2. Reserving' = Reserving /\ Filling' = Filling
    BY <2>1 DEF Reserving, Filling
  <2>3. Draining' = Draining \cup {w} /\ w \notin Draining
    BY <2>1, <1>t DEF Draining, TypeOK
  <2>4. Pushed' = Pushed
    BY <1>e, <1>u, <2>1, <2>2
  <2>5. Popped' = Popped + 1
    BY <1>c, <1>d, <1>e, <1>f, <2>1, <2>2, <2>4
  <2>6. Popped < N
    BY <1>c, <1>d, <1>f, <1>s, <2>1
  <2>7. pop_index = Popped /\ pop_index' = Unrolled(Popped + 1)
    BY <1>c, <1>f, <1>s, <2>1, <2>6 DEF Unrolled, Wrap
  <2>8. \A v \in Draining : widx'[v] = widx[v] /\ widx[v] < Popped /\ widx[v] \in Int
    BY <1>s, <1>t, <2>1, <2>3, NType DEF TypeOK, Draining, Slot
  <2>9. widx'[w] = Popped
    BY <1>t, <2>1, <2>7 DEF TypeOK
  <2>10. \A v \in Draining' : widx'[v] < Popped'
    BY <1>c, <2>3, <2>5, <2>8, <2>9
  <2>11. \A u, v \in Draining' : u # v => widx'[u] # widx'[v]
    BY <1>c, <1>s, <2>3, <2>8, <2>9
  <2>12. Popped' >= 0
    BY <1>c, <1>s, <2>5
  <2> QED BY <1>p, <1>s, <2>1, <2>2, <2>4, <2>5, <2>7, <2>10, <2>11, <2>12 DEF SlotsOnce, Unrolled, N
<1>7. ASSUME NEW w \in Workers, Worker(w), ~GetValidJobIndex(w) PROVE SlotsOnce'
  <2>1. UNCHANGED <<todo, ppc, job_valid_sem, push_index, pop_index, pidx, widx>>
    BY <1>7 DEF Worker, Sleep, Wakeup, TestCall, LoadCall, Invoke, JobReturns, ClearCall, ClearArg, PostJobFree, CheckQuit,
       prods, ring, sems
  <2>2. Draining' \subseteq Draining
    BY <1>7, <1>t DEF Worker, WorkerStep, Sleep, Wakeup, TestCall, LoadCall, Invoke, JobReturns, ClearCall, ClearArg,
       PostJobFree, CheckQuit, Draining, TypeOK
  <2>3. UNCHANGED <<Pushed, Popped, Filling>>
    BY <1>8, <2>1
  <2> QED BY <1>s, <2>1, <2>2, <2>3 DEF SlotsOnce, Unrolled, N
<1>10. CASE SetQuit \/ Destroy
  BY <1>0, <1>10 DEF SetQuit, Destroy, DestroyPost, DestroyFree, Started
<1>11. CASE UNCHANGED vars
  <2>1. UNCHANGED <<todo, ppc, job_valid_sem, push_index, pop_index, pidx, wpc, widx>>
    BY <1>11 DEF vars, ring, sems, prods, works
  <2>2. UNCHANGED Draining
    BY <2>1 DEF Draining
  <2> QED BY <1>8, <1>9, <2>1, <2>2
<1> QED
  BY <1>1, <1>2, <1>3, <1>4, <1>5, <1>6, <1>7, <1>10, <1>11 DEF Next, Producer

(* With a single slot the count alone keeps the threads apart.             *)
LEMMA SingleSlot ==
  ASSUME IInv, Started, ~is_quit, N = 1
  PROVE  /\ \A p, q \in Filling : p = q
         /\ \A w, v \in Draining : w = v
         /\ Filling = {} \/ Draining = {}
<1>1. Cardinality(Filling) + Cardinality(Draining) <= 1
  <2>1. CASE phase = "ready"
    <3>1. job_free_sem + job_valid_sem + Cardinality(Filling) + Cardinality(Draining) = 1
      BY <2>1 DEF IInv, Conservation, Started
    <3>2. job_free_sem \in Nat /\ job_valid_sem \in Nat
      BY DEF IInv, TypeOK
    <3> QED BY <3>1, <3>2, ThreadSetsFinite
  <2>2. CASE phase # "ready"
    <3>1. Filling = {} /\ Draining = {}
      BY <2>2 DEF Started, Filling
    <3> QED BY <3>1, FS_EmptySet
  <2> QED BY <2>1, <2>2
<1>2. ASSUME NEW S, IsFiniteSet(S), Cardinality(S) <= 1, NEW x \in S, NEW y \in S PROVE x = y
  <2>1. Cardinality(S) \in Nat /\ Cardinality(S) # 0
    BY <1>2, FS_CardinalityType, FS_EmptySet
  <2>2. Cardinality(S) = 1
    BY <1>2, <2>1
  <2> QED BY <1>2, <2>2, FS_Singleton
<1>3. /\ IsFiniteSet(Filling) /\ Cardinality(Filling) \in Nat
      /\ IsFiniteSet(Draining) /\ Cardinality(Draining) \in Nat
  BY ThreadSetsFinite
<1>4. Cardinality(Filling) <= 1 /\ Cardinality(Draining) <= 1
  BY <1>1, <1>3
<1>5. Cardinality(Filling) = 0 \/ Cardinality(Draining) = 0
  BY <1>1, <1>3
<1> QED BY <1>2, <1>3, <1>4, <1>5, FS_EmptySet

LEMMA SlotsApart == IInv /\ Started /\ SlotsOnce => NoSharedSlot
<1> SUFFICES ASSUME IInv, Started, SlotsOnce, SafeUse, ~is_quit
             PROVE  /\ \A p, q \in Filling : p # q => pidx[p] # pidx[q]
                    /\ \A w, v \in Draining : w # v => widx[w] # widx[v]
                    /\ \A p \in Filling, w \in Draining : pidx[p] # widx[w]
  BY DEF NoSharedSlot
<1>1. CASE N = 1
  BY <1>1, SingleSlot
<1>2. CASE OneRound
  <2>1. TypeOK
    BY DEF IInv
  <2>2. Pushed \in Int /\ Popped \in Int /\ job_valid_sem \in Nat
    BY <1>2, <2>1, RoundCounts DEF TypeOK
  <2>3. \A p, q \in Filling : p = q
    BY <1>2, OneProducer DEF OneRound, Filling
  <2>4. ASSUME NEW p \in Filling, NEW w \in Draining PROVE pidx[p] # widx[w]
    <3>1. Cardinality(Filling) \in Nat /\ Cardinality(Filling) # 0
      BY ThreadSetsFinite, FS_EmptySet
    <3>2. Popped = Pushed - Cardinality(Filling) - job_valid_sem
      BY DEF Popped
    <3>3. Popped <= Pushed - 1
      <4>1. \A a \in Int, c \in Nat \ {0}, v \in Nat : a - c - v <= a - 1
        OBVIOUS
      <4> QED BY <2>2, <3>1, <3>2, <4>1
    <3>4. pidx[p] = Pushed - 1 /\ widx[w] < Popped /\ widx[w] \in Int
      BY <1>2, <2>1, NType DEF SlotsOnce, TypeOK, Draining, Slot
    <3> QED BY <2>2, <3>3, <3>4
  <2> QED BY <1>2, <2>3, <2>4 DEF SlotsOnce
<1> QED BY <1>1, <1>2 DEF SafeUse, OneRound

(* In a safe use - one slot, or one producer that does not go round the    *)
(* ring - no two threads ever have the same job slot in their hands until  *)
(* frame_threadpool_destroy is called, for any number of workers and jobs. *)
THEOREM SlotsNeverShared == Spec => []NoSharedSlot
<1>1. Init => Started /\ SlotsOnce
  BY InitStarted, InitSlotsOnce
<1>2. IInv /\ Started /\ SlotsOnce /\ [Next]_vars => Started' /\ SlotsOnce'
  BY NextStarted, NextSlotsOnce
<1> QED BY <1>1, <1>2, IInvHolds, SlotsApart, PTL DEF Spec


-----------------------------------------------------------------------------
(* What the slots hold.  The slots that have been published and not yet    *)
(* taken begin at pop_index; with those of the workers that have yet to    *)
(* call their job they are the ones somebody will read.                    *)
Ready == {s \in Slot : pop_index <= s /\ s < pop_index + job_valid_sem}
Early == {w \in Workers : wpc[w] \in {"wake", "test", "invoke", "load"}}
Published == Ready \cup {widx[w] : w \in Early}

(* A published slot holds a job that has not been run, no other slot the   *)
(* same one.                                                               *)
Full == /\ \A s \in Published : call[s] \in posted /\ arg[s] = call[s] /\ runs[call[s]] = 0
        /\ \A s, t \in Published : s # t => call[s] # call[t]

(* A producer's job is nobody else's, and is in its slot as far as written.*)
Hands ==
  /\ \A p \in Producers : ppc[p] # "idle" => pjob[p] \notin todo /\ pjob[p] \notin posted
  /\ \A p, q \in Producers : ppc[p] # "idle" /\ ppc[q] # "idle" /\ p # q => pjob[p] # pjob[q]
  /\ \A p \in Producers : ppc[p] \in {"call", "post"} => arg[pidx[p]] = pjob[p]
  /\ \A p \in Producers : ppc[p] = "post" => call[pidx[p]] = pjob[p]

(* What has been published, entered and left.                              *)
Books ==
  /\ todo \cap posted = {}
  /\ \A j \in Jobs : j \notin posted => runs[j] = 0
  /\ \A j \in done : runs[j] # 0

Running ==
  /\ \A w \in Workers : wpc[w] = "running" => runs[wjob[w]] = 1 /\ wjob[w] \notin done
  /\ \A w, v \in Workers : wpc[w] = "running" /\ wpc[v] = "running" /\ w # v => wjob[w] # wjob[v]

Alive == ~wild /\ (phase \in {"creating", "ready"} => q_live)

Contents == SafeUse /\ ~is_quit => Full /\ Hands /\ Books /\ Running /\ Alive

(* What a worker has loaded is still what its slot holds.                  *)
Loading == SafeUse /\ ~is_quit => \A w \in Workers : wpc[w] = "load" => wjob[w] = call[widx[w]]


(* In a safe use the published slots end before the slot being filled, and *)
(* no worker has one of them in its hands.                                 *)
LEMMA RingBounds ==
  ASSUME IInv, Started, SlotsOnce, SafeUse, ~is_quit
  PROVE  /\ job_valid_sem > 0 => pop_index + job_valid_sem <= N
         /\ \A p \in Filling : pidx[p] = pop_index + job_valid_sem
         /\ \A w \in Draining : widx[w] \notin Ready
<1>0. /\ TypeOK /\ job_valid_sem \in Nat /\ job_free_sem \in Nat /\ pop_index \in Nat /\ pop_index < N
      /\ N \in Nat /\ N >= 1
  BY NType DEF IInv, TypeOK, Slot
<1>1. /\ IsFiniteSet(Filling) /\ Cardinality(Filling) \in Nat
      /\ IsFiniteSet(Draining) /\ Cardinality(Draining) \in Nat
  BY ThreadSetsFinite
<1>2. CASE phase # "ready"
  <2>1. Filling = {} /\ Draining = {} /\ job_valid_sem = 0
    BY <1>2 DEF Started, Filling
  <2> QED BY <2>1
<1>3. CASE N = 1 /\ phase = "ready"
  <2>1. job_free_sem + job_valid_sem + Cardinality(Filling) + Cardinality(Draining) = 1
    BY <1>3 DEF IInv, Conservation, Started
  <2>2. pop_index = 0 /\ job_valid_sem <= 1
    BY <1>0, <1>1, <1>3, <2>1
  <2>3. ASSUME NEW p \in Filling PROVE pidx[p] = pop_index + job_valid_sem
    <3>1. Cardinality(Filling) # 0
      BY <1>1, FS_EmptySet
    <3>2. job_valid_sem = 0
      BY <1>0, <1>1, <2>1, <3>1
    <3>3. pidx[p] \in 0 .. 0
      BY <1>0, <1>3 DEF TypeOK, Slot, Filling
    <3> QED BY <2>2, <3>2, <3>3
  <2>4. ASSUME NEW w \in Draining PROVE widx[w] \notin Ready
    <3>1. Cardinality(Draining) # 0
      BY <1>1, FS_EmptySet
    <3>2. job_valid_sem = 0
      BY <1>0, <1>1, <2>1, <3>1
    <3> QED BY <1>0, <3>2 DEF Ready, Slot
  <2> QED BY <1>0, <1>3, <2>2, <2>3, <2>4
<1>4. CASE OneRound
  <2>1. /\ Popped >= 0 /\ Pushed <= N /\ pop_index = Unrolled(Popped)
        /\ \A p \in Filling : pidx[p] = Pushed - 1
        /\ \A w \in Draining : widx[w] < Popped
    BY <1>4 DEF SlotsOnce
  <2>2. Pushed \in Int /\ Popped \in Int
    BY <1>0, <1>4, RoundCounts
  <2>3. Popped = Pushed - Cardinality(Filling) - job_valid_sem
    BY DEF Popped
  <2> HIDE DEF Popped, Pushed
  <2> DEFINE c == Cardinality(Filling)
  <2> HIDE DEF c
  <2>4. Popped = Pushed - c - job_valid_sem /\ c \in Nat
    BY <1>1, <2>3 DEF c
  <2>5. job_valid_sem > 0 => Popped < N
    BY <1>0, <2>1, <2>2, <2>4
  <2>6. Popped + job_valid_sem <= N
    BY <1>0, <2>1, <2>2, <2>4
  <2>7. ASSUME NEW p \in Filling PROVE pidx[p] = pop_index + job_valid_sem
    <3>1. Filling = {p}
      BY <1>4, OneProducer DEF OneRound, Filling
    <3>2. c = 1
      BY <3>1, FS_Singleton DEF c
    <3>3. Popped < N /\ Pushed - 1 = Popped + job_valid_sem
      BY <1>0, <2>1, <2>2, <2>4, <3>2
    <3> QED BY <2>1, <3>3, <1>0, <2>2 DEF Unrolled
  <2>8. ASSUME NEW w \in Draining PROVE widx[w] \notin Ready
    <3>1. widx[w] < Popped /\ widx[w] \in Nat
      BY <1>0, <2>1 DEF TypeOK, Draining, Slot
    <3>2. CASE job_valid_sem > 0
      <4>1. pop_index = Popped
        BY <2>1, <2>5, <3>2, <1>0, <2>2 DEF Unrolled
      <4> QED BY <3>1, <4>1, <1>0 DEF Ready
    <3>3. CASE job_valid_sem = 0
      BY <3>3, <1>0 DEF Ready, Slot
    <3> QED BY <3>2, <3>3, <1>0
  <2> QED BY <1>0, <2>1, <2>2, <2>5, <2>6, <2>7, <2>8 DEF Unrolled
<1> QED BY <1>2, <1>3, <1>4 DEF SafeUse, OneRound

LEMMA InitContents == Init => Contents
<1> SUFFICES ASSUME Init PROVE Full /\ Hands /\ Books /\ Running /\ Alive
  BY DEF Contents
<1>1. Ready = {}
  BY NType DEF Init, Ready, Slot
<1>2. Early = {}
  BY DEF Init, Early
<1>3. Published = {}
  BY <1>1, <1>2 DEF Published
<1> QED BY <1>3 DEF Init, Full, Hands, Books, Running, Alive

(* Steps that leave the contents of the slots and the books as they are,   *)
(* by their effect on what is published and on the producers' steps.       *)
LEMMA QuietContents ==
  ASSUME Full, Hands, Books, Running, Published' \subseteq Published,
         UNCHANGED <<call, arg, posted, runs, done, wjob, ppc, pjob, pidx, todo>>,
         \A w \in Workers : wpc'[w] = "running" => wpc[w] = "running"
  PROVE  Full' /\ Hands' /\ Books' /\ Running'
<1>1. Full'
  BY DEF Full
<1>2. Hands' /\ Books'
  BY DEF Hands, Books
<1>3. Running'
  BY DEF Running
<1> QED BY <1>1, <1>2, <1>3


LEMMA NextContents ==
  IInv /\ Started /\ SlotsOnce /\ Contents /\ Loading /\ [Next]_vars => Contents'
<1> SUFFICES ASSUME IInv, Started, SlotsOnce, Contents, Loading, [Next]_vars, SafeUse, ~is_quit'
             PROVE  Full' /\ Hands' /\ Books' /\ Running' /\ Alive'
  BY DEF Contents, SafeUse, N
<1>0. ~is_quit
  BY DEF Next, Setup, InitPool, InitMallocFail, CreateFail, CreateWorker, AddJob, Producer,
     GetFreeJobIndex, WriteArg, WriteCall, PostJobValid, Worker, Sleep, GetValidJobIndex, Wakeup,
     TestCall, LoadCall, Invoke, JobReturns, ClearCall, ClearArg, PostJobFree, CheckQuit, SetQuit, Destroy, DestroyPost,
     DestroyFree, vars, life
<1>c. Full /\ Hands /\ Books /\ Running /\ Alive
  BY <1>0 DEF Contents
<1>l. \A w \in Workers : wpc[w] = "load" => wjob[w] = call[widx[w]]
  BY <1>0 DEF Loading
<1>t. TypeOK
  BY DEF IInv
<1>b. /\ job_valid_sem > 0 => pop_index + job_valid_sem <= N
      /\ \A p \in Filling : pidx[p] = pop_index + job_valid_sem
      /\ \A w \in Draining : widx[w] \notin Ready
  BY <1>0, RingBounds
<1>n. /\ \A p, q \in Filling : p # q => pidx[p] # pidx[q]
      /\ \A w, v \in Draining : w # v => widx[w] # widx[v]
      /\ \A p \in Filling, w \in Draining : pidx[p] # widx[w]
  BY <1>0, SlotsApart DEF NoSharedSlot
<1>i. /\ job_valid_sem \in Nat /\ pop_index \in Nat /\ pop_index < N /\ N \in Nat
      /\ \A p \in Producers : pidx[p] \in Slot
      /\ \A w \in Workers : widx[w] \in Slot
  BY <1>t, NType DEF TypeOK, Slot
<1>r. Slot = 0 .. N - 1
  BY DEF Slot
<1>e. Early \subseteq Draining
  BY DEF Early, Draining
(* What a producer writes is not published, nor in another thread's hands. *)
<1>f. ASSUME NEW p \in Filling PROVE pidx[p] \notin Published
  <2>1. pidx[p] \notin Ready
    BY <1>b, <1>i DEF Ready
  <2>2. \A w \in Early : widx[w] # pidx[p]
    BY <1>e, <1>n
  <2> QED BY <2>1, <2>2 DEF Published
(* The slot of a worker past the call is not published either.             *)
<1>g. ASSUME NEW w \in Draining, NEW v \in Early, v # w PROVE widx[v] # widx[w]
  BY <1>e, <1>g, <1>n
<1>1. CASE InitPool
  <2>1. /\ \A p \in Producers : ppc[p] = "idle"
        /\ Draining = {}
    BY <1>1 DEF Started, InitPool
  <2>2. Ready' = {}
    BY <1>1, <1>i, <1>r DEF InitPool, Ready
  <2>3. Early' = {} /\ \A w \in Workers : wpc'[w] # "running"
    BY <1>1, <2>1 DEF InitPool, Early, Draining, works
  <2>4. Published' = {}
    BY <2>2, <2>3 DEF Published
  <2>5. UNCHANGED <<ppc, todo, posted, runs, done, wild>> /\ q_live'
    BY <1>1 DEF InitPool, prods, hist
  <2> QED BY <1>c, <2>1, <2>3, <2>4, <2>5 DEF Full, Hands, Books, Running, Alive
<1>2. CASE InitMallocFail \/ CreateFail
  <2>1. /\ UNCHANGED <<call, arg, posted, runs, done, wjob, ppc, pjob, pidx, todo>>
        /\ UNCHANGED <<pop_index, job_valid_sem, wpc, widx, wild>> /\ phase' = "failed"
    BY <1>2 DEF InitMallocFail, CreateFail, ring, sems, prods, works, hist
  <2>2. Published' = Published
    BY <2>1 DEF Published, Ready, Early
  <2>3. Alive'
    BY <1>c, <2>1 DEF Alive
  <2> QED BY <1>c, <2>1, <2>2, <2>3, QuietContents
<1>3. ASSUME NEW w \in Workers, CreateWorker(w) PROVE Full' /\ Hands' /\ Books' /\ Running' /\ Alive'
  <2>1. /\ UNCHANGED <<call, arg, posted, runs, done, wjob, ppc, pjob, pidx, todo>>
        /\ UNCHANGED <<pop_index, job_valid_sem, widx, wild, q_live>>
        /\ phase = "creating" /\ wpc' = [wpc EXCEPT ![w] = "sleep"]
    BY <1>3 DEF CreateWorker, ring, sems, prods, hist
  <2>2. Early' \subseteq Early /\ \A v \in Workers : wpc'[v] = "running" => wpc[v] = "running"
    BY <2>1, <1>t DEF Early, TypeOK
  <2>3. Published' \subseteq Published
    BY <2>1, <2>2 DEF Published, Ready
  <2>4. Alive'
    BY <1>c, <2>1 DEF Alive
  <2> QED BY <1>c, <2>1, <2>2, <2>3, <2>4, QuietContents
<1>4. ASSUME NEW p \in Producers, NEW j \in Jobs, AddJob(p, j)
      PROVE  Full' /\ Hands' /\ Books' /\ Running' /\ Alive'
  <2>1. /\ UNCHANGED <<call, arg, posted, runs, done, wjob, pidx, pop_index, job_valid_sem, wpc, widx,
                       wild, q_live, phase>>
        /\ ppc[p] = "idle" /\ j \in todo /\ todo' = todo \ {j}
        /\ ppc' = [ppc EXCEPT ![p] = "reserve"] /\ pjob' = [pjob EXCEPT ![p] = j]
    BY <1>0, <1>4 DEF AddJob, ring, sems, works, life, hist
  <2>2. Published' = Published
    BY <2>1 DEF Published, Ready, Early
  <2>3. Full' /\ Running' /\ Alive'
    BY <1>c, <2>1, <2>2 DEF Full, Running, Alive
  <2>4. Books'
    BY <1>c, <2>1 DEF Books
  <2>5. /\ ppc'[p] = "reserve" /\ pjob'[p] = j
        /\ \A q \in Producers : q # p => ppc'[q] = ppc[q] /\ pjob'[q] = pjob[q]
    BY <2>1, <1>t DEF TypeOK
  <2>6. \A q \in Producers : ppc[q] # "idle" => pjob[q] # j
    BY <1>c, <2>1 DEF Hands
  <2>7. j \notin posted
    BY <1>c, <2>1 DEF Books
  <2>8. Hands'
    BY <1>c, <2>1, <2>5, <2>6, <2>7 DEF Hands
  <2> QED BY <2>3, <2>4, <2>8
<1>5. ASSUME NEW p \in Producers, GetFreeJobIndex(p)
      PROVE  Full' /\ Hands' /\ Books' /\ Running' /\ Alive'
  <2>1. /\ UNCHANGED <<call, arg, posted, runs, done, wjob, pjob, pop_index, job_valid_sem, wpc, widx,
                       wild, q_live, phase, todo>>
        /\ ppc[p] = "reserve" /\ ppc' = [ppc EXCEPT ![p] = "arg"]
        /\ pidx' = [pidx EXCEPT ![p] = push_index]
    BY <1>5 DEF GetFreeJobIndex, works, life, hist
  <2>2. Published' = Published
    BY <2>1 DEF Published, Ready, Early
  <2>3. Full' /\ Running' /\ Alive' /\ Books'
    BY <1>c, <2>1, <2>2 DEF Full, Running, Alive, Books
  <2>4. /\ ppc'[p] = "arg"
        /\ \A q \in Producers : q # p => ppc'[q] = ppc[q] /\ pidx'[q] = pidx[q]
    BY <2>1, <1>t DEF TypeOK
  <2>5. Hands'
    BY <1>c, <2>1, <2>4 DEF Hands
  <2> QED BY <2>3, <2>5
<1>6. ASSUME NEW p \in Producers, WriteArg(p) \/ WriteCall(p)
      PROVE  Full' /\ Hands' /\ Books' /\ Running' /\ Alive'
  <2>1. /\ UNCHANGED <<posted, runs, done, wjob, pjob, pidx, pop_index, job_valid_sem, wpc, widx,
                       wild, q_live, phase, todo>>
    BY <1>6 DEF WriteArg, WriteCall, sems, works, life, hist
  <2>2. /\ p \in Filling
        /\ \A q \in Producers : q # p => ppc'[q] = ppc[q]
        /\ \A s \in Slot : s # pidx[p] => call'[s] = call[s] /\ arg'[s] = arg[s]
        /\ ppc[p] # "idle" /\ ppc'[p] # "idle"
        /\ ppc'[p] \in {"call", "post"} /\ arg'[pidx[p]] = pjob[p]
        /\ ppc'[p] = "post" => call'[pidx[p]] = pjob[p]
    <3>1. CASE WriteArg(p)
      BY <3>1, <1>t, <1>i DEF WriteArg, Filling, TypeOK
    <3>2. CASE WriteCall(p)
      BY <3>2, <1>c, <1>t, <1>i DEF WriteCall, Filling, TypeOK, Hands
    <3> QED BY <1>6, <3>1, <3>2
  <2>3. Published' = Published /\ Published \subseteq Slot
    BY <2>1, <1>i DEF Published, Ready, Early
  <2>4. Full'
    BY <1>c, <1>f, <2>1, <2>2, <2>3 DEF Full
  <2>5. Running' /\ Alive' /\ Books'
    BY <1>c, <2>1 DEF Running, Alive, Books
  <2>6. \A q \in Producers : q # p /\ ppc[q] \in {"call", "post"} => pidx[q] \in Slot /\ pidx[q] # pidx[p]
    BY <1>i, <1>n, <2>2 DEF Filling
  <2>7. Hands'
    BY <1>c, <2>1, <2>2, <2>6 DEF Hands
  <2> QED BY <2>4, <2>5, <2>7
<1>7. ASSUME NEW p \in Producers, PostJobValid(p)
      PROVE  Full' /\ Hands' /\ Books' /\ Running' /\ Alive'
  <2> DEFINE j == pjob[p]
  <2>1. /\ UNCHANGED <<call, arg, runs, done, wjob, pjob, pidx, pop_index, wpc, widx,
                       wild, q_live, phase, todo>>
        /\ job_valid_sem' = job_valid_sem + 1 /\ posted' = posted \cup {j}
        /\ ppc[p] = "post" /\ ppc' = [ppc EXCEPT ![p] = "idle"]
    BY <1>7 DEF PostJobValid, ring, works, life
  <2>2. p \in Filling /\ j \in Jobs /\ j \notin posted /\ j \notin todo
        /\ call[pidx[p]] = j /\ arg[pidx[p]] = j
    BY <1>c, <1>t, <2>1 DEF Hands, Filling, TypeOK
  <2> HIDE DEF j
  <2>3. runs[j] = 0
    BY <1>c, <2>2 DEF Books
  <2>4. pidx[p] = pop_index + job_valid_sem
    BY <1>b, <2>2
  <2>5. \A s \in Ready' : s \in Ready \/ s = pidx[p]
    BY <2>1, <2>4, <1>i, <1>r DEF Ready
  <2>6. \A s \in Published' : s \in Published \/ s = pidx[p]
    BY <2>1, <2>5 DEF Published, Early
  <2>7. \A s \in Published : call[s] # j
    BY <1>c, <2>2 DEF Full
  <2>8. Full'
    BY <1>c, <2>1, <2>2, <2>3, <2>6, <2>7 DEF Full
  <2>9. /\ ppc'[p] = "idle"
        /\ \A q \in Producers : q # p => ppc'[q] = ppc[q]
    BY <2>1, <1>t DEF TypeOK
  <2>10. \A q \in Producers : q # p /\ ppc[q] # "idle" => pjob[q] # j
    BY <1>c, <2>1 DEF Hands, j
  <2>11. Hands'
    BY <1>c, <2>1, <2>9, <2>10 DEF Hands
  <2>12. Running' /\ Alive'
    BY <1>c, <2>1 DEF Running, Alive
  <2>13. Books'
    BY <1>c, <2>1, <2>2 DEF Books
  <2> QED BY <2>8, <2>11, <2>12, <2>13
<1>8. ASSUME NEW w \in Workers, Sleep(w) \/ Wakeup(w) \/ TestCall(w) \/ PostJobFree(w) \/ CheckQuit(w)
      PROVE  Full' /\ Hands' /\ Books' /\ Running' /\ Alive'
  <2>1. /\ UNCHANGED <<call, arg, posted, runs, done, wjob, ppc, pjob, pidx, todo>>
        /\ UNCHANGED <<pop_index, job_valid_sem, widx, wild, q_live, phase>>
    BY <1>8 DEF Sleep, Wakeup, TestCall, PostJobFree, CheckQuit, ring, sems, prods, life, hist
  <2>2. /\ \A v \in Workers : v # w => wpc'[v] = wpc[v]
        /\ wpc'[w] # "running" /\ (wpc'[w] \in {"wake", "test", "invoke", "load"} => w \in Early)
    BY <1>8, <1>t DEF Sleep, Wakeup, TestCall, PostJobFree, CheckQuit, WorkerStep, TypeOK, Early
  <2>3. Early' \subseteq Early
    BY <2>2 DEF Early
  <2>4. Published' \subseteq Published
    BY <2>1, <2>3 DEF Published, Ready
  <2>5. Alive'
    BY <1>c, <2>1 DEF Alive
  <2>6. \A v \in Workers : wpc'[v] = "running" => wpc[v] = "running"
    BY <2>2
  <2> QED BY <1>c, <2>1, <2>4, <2>5, <2>6, QuietContents
<1>9. ASSUME NEW w \in Workers, GetValidJobIndex(w)
      PROVE  Full' /\ Hands' /\ Books' /\ Running' /\ Alive'
  <2>1. /\ UNCHANGED <<call, arg, posted, runs, done, wjob, ppc, pjob, pidx, todo>>
        /\ UNCHANGED <<wild, q_live, phase>>
        /\ job_valid_sem > 0 /\ job_valid_sem' = job_valid_sem - 1
        /\ widx' = [widx EXCEPT ![w] = pop_index] /\ pop_index' = Wrap(pop_index)
        /\ wpc' = [wpc EXCEPT ![w] = "wake"]
    BY <1>9 DEF GetValidJobIndex, WorkerStep, prods, life, hist
  <2>2. pop_index + job_valid_sem <= N /\ pop_index \in Ready
    BY <1>b, <1>i, <1>r, <2>1 DEF Ready
  <2>3. Ready' \subseteq Ready
    <3>1. CASE pop_index + 1 = N
      <4>1. job_valid_sem' = 0 /\ pop_index' = 0
        BY <2>1, <2>2, <3>1, <1>i DEF Wrap
      <4> QED BY <4>1, <1>i, <1>r DEF Ready
    <3>2. CASE pop_index + 1 # N
      <4>1. pop_index' = pop_index + 1
        BY <2>1, <3>2 DEF Wrap
      <4> QED BY <2>1, <4>1, <1>i, <1>r DEF Ready
    <3> QED BY <3>1, <3>2
  <2>4. /\ \A v \in Workers : v # w => wpc'[v] = wpc[v] /\ widx'[v] = widx[v]
        /\ wpc'[w] = "wake" /\ widx'[w] = pop_index
    BY <2>1, <1>t DEF TypeOK
  <2>5. \A v \in Early' : (v = w /\ widx'[v] = pop_index) \/ (v \in Early /\ widx'[v] = widx[v])
    BY <2>4 DEF Early
  <2>6. Published' \subseteq Published
    BY <2>2, <2>3, <2>5 DEF Published
  <2>7. Alive'
    BY <1>c, <2>1 DEF Alive
  <2>8. \A v \in Workers : wpc'[v] = "running" => wpc[v] = "running"
    BY <2>4
  <2> QED BY <1>c, <2>1, <2>6, <2>7, <2>8, QuietContents
<1>10. ASSUME NEW w \in Workers, Invoke(w)
       PROVE  Full' /\ Hands' /\ Books' /\ Running' /\ Alive'
  <2> DEFINE c == call[widx[w]]
  <2>1. w \in Draining /\ w \in Early /\ widx[w] \in Published
    BY <1>10 DEF Invoke, Draining, Early, Published
  <2>p. wjob[w] = c
    BY <1>l, <1>10 DEF Invoke
  <2>2. c \in posted /\ arg[widx[w]] = c /\ runs[c] = 0 /\ c \in Jobs
    BY <1>c, <1>t, <2>1 DEF Full, TypeOK
  <2>3. q_live
    BY <1>c, <2>1 DEF Alive, Started
  <2>4. /\ wpc' = [wpc EXCEPT ![w] = "running"] /\ UNCHANGED wjob
        /\ runs' = [runs EXCEPT ![c] = @ + 1]
        /\ UNCHANGED <<call, arg, posted, done, pjob, ppc, pidx, pop_index, job_valid_sem, widx,
                       wild, q_live, phase, todo>>
    BY <1>10, <2>p, <2>2, <2>3 DEF Invoke, Loads, WorkerStep, ring, sems, prods, life
  <2> HIDE DEF c
  <2>5. /\ runs'[c] = 1 /\ \A j \in Jobs : j # c => runs'[j] = runs[j]
        /\ wpc'[w] = "running" /\ wjob'[w] = c
        /\ \A v \in Workers : v # w => wpc'[v] = wpc[v] /\ wjob'[v] = wjob[v]
    BY <1>t, <2>p, <2>2, <2>4 DEF TypeOK
  <2>6. Early' = Early \ {w}
    BY <2>1, <2>5 DEF Early
  <2>7. widx[w] \notin Ready /\ \A v \in Early' : widx[v] # widx[w]
    BY <1>b, <1>g, <2>1, <2>6
  <2>8. Published' \subseteq Published \ {widx[w]}
    BY <2>4, <2>6, <2>7 DEF Published, Ready
  <2>9. \A s \in Published' : s \in Published /\ call[s] # c
    BY <1>c, <2>1, <2>8 DEF Full, c
  <2>10. \A s \in Published : call[s] \in Jobs
    BY <1>c, <1>t DEF Full, TypeOK
  <2>11. Full'
    BY <1>c, <2>4, <2>5, <2>9, <2>10 DEF Full
  <2>12. Hands' /\ Alive'
    BY <1>c, <2>4 DEF Hands, Alive
  <2>13. Books'
    BY <1>c, <1>t, <2>2, <2>4, <2>5 DEF Books, TypeOK
  <2>14. c \notin done
    BY <1>c, <2>2 DEF Books
  <2>15. \A v \in Workers : wpc[v] = "running" => wjob[v] # c /\ wjob[v] \in Jobs
    BY <1>c, <1>t, <2>2 DEF Running, TypeOK
  <2>16. Running'
    BY <1>c, <2>4, <2>5, <2>14, <2>15 DEF Running
  <2> QED BY <2>11, <2>12, <2>13, <2>16
<1>11. ASSUME NEW w \in Workers, JobReturns(w)
       PROVE  Full' /\ Hands' /\ Books' /\ Running' /\ Alive'
  <2>1. /\ wpc[w] = "running" /\ wpc' = [wpc EXCEPT ![w] = "clear"] /\ done' = done \cup {wjob[w]}
        /\ UNCHANGED <<call, arg, posted, runs, wjob, pjob, ppc, pidx, pop_index, job_valid_sem, widx,
                       wild, q_live, phase, todo>>
    BY <1>11 DEF JobReturns, WorkerStep, ring, sems, prods, life
  <2>2. wpc'[w] = "clear" /\ \A v \in Workers : v # w => wpc'[v] = wpc[v]
    BY <1>t, <2>1 DEF TypeOK
  <2>3. Early' = Early
    BY <2>1, <2>2 DEF Early
  <2>4. Published' = Published
    BY <2>1, <2>3 DEF Published, Ready
  <2>5. Full' /\ Hands' /\ Alive'
    BY <1>c, <2>1, <2>4 DEF Full, Hands, Alive
  <2>6. Books'
    BY <1>c, <2>1 DEF Books, Running
  <2>7. Running'
    BY <1>c, <2>1, <2>2 DEF Running
  <2> QED BY <2>5, <2>6, <2>7
<1>12. ASSUME NEW w \in Workers, ClearCall(w) \/ ClearArg(w)
       PROVE  Full' /\ Hands' /\ Books' /\ Running' /\ Alive'
  <2> DEFINE to == IF wpc[w] = "clear" THEN "cleararg" ELSE "post"
  <2>1. /\ wpc[w] \in {"clear", "cleararg"} /\ wpc' = [wpc EXCEPT ![w] = to]
        /\ call' = call \/ call' = [call EXCEPT ![widx[w]] = NULL]
        /\ arg' = arg \/ arg' = [arg EXCEPT ![widx[w]] = NULL]
        /\ UNCHANGED <<posted, runs, done, wjob, pjob, ppc, pidx, pop_index, job_valid_sem, widx,
                       wild, q_live, phase, todo>>
    BY <1>12 DEF ClearCall, ClearArg, WorkerStep, sems, prods, life, hist
  <2>2. w \in Draining /\ w \notin Early
    BY <2>1 DEF Draining, Early
  <2>3. wpc'[w] \in {"cleararg", "post"} /\ \A v \in Workers : v # w => wpc'[v] = wpc[v]
    BY <1>t, <2>1 DEF TypeOK
  <2>4. Early' = Early
    BY <2>2, <2>3 DEF Early
  <2>5. Published' = Published /\ Published \subseteq Slot
    BY <1>i, <2>1, <2>4 DEF Published, Ready, Early
  <2>6. widx[w] \notin Published
    BY <1>b, <1>g, <2>2 DEF Published
  <2>7. \A s \in Slot : s # widx[w] => call'[s] = call[s] /\ arg'[s] = arg[s]
    BY <1>t, <2>1 DEF TypeOK
  <2>8. Full'
    BY <1>c, <2>1, <2>5, <2>6, <2>7 DEF Full
  <2>9. \A p \in Producers : ppc[p] \in {"call", "post"} => pidx[p] \in Slot /\ pidx[p] # widx[w]
    BY <1>i, <1>n, <2>2 DEF Filling
  <2>10. Hands'
    BY <1>c, <2>1, <2>7, <2>9 DEF Hands
  <2>11. Books' /\ Alive'
    BY <1>c, <2>1 DEF Books, Alive
  <2>12. Running'
    BY <1>c, <2>1, <2>3 DEF Running
  <2> QED BY <2>8, <2>10, <2>11, <2>12
<1>15. ASSUME NEW w \in Workers, LoadCall(w)
       PROVE  Full' /\ Hands' /\ Books' /\ Running' /\ Alive'
  <2>1. /\ UNCHANGED <<call, arg, posted, runs, done, ppc, pjob, pidx, todo>>
        /\ UNCHANGED <<pop_index, job_valid_sem, widx, wild, q_live, phase>>
        /\ wpc[w] = "invoke" /\ wpc' = [wpc EXCEPT ![w] = "load"]
        /\ \E c : wjob' = [wjob EXCEPT ![w] = c]
    BY <1>15 DEF LoadCall, WorkerStep, ring, sems, prods, life, hist
  <2>2. wpc'[w] = "load" /\ \A v \in Workers : v # w => wpc'[v] = wpc[v] /\ wjob'[v] = wjob[v]
    BY <1>t, <2>1 DEF TypeOK
  <2>3. Early' = Early
    BY <2>1, <2>2 DEF Early
  <2>4. Published' = Published
    BY <2>1, <2>3 DEF Published, Ready
  <2>5. Full' /\ Hands' /\ Alive' /\ Books'
    BY <1>c, <2>1, <2>4 DEF Full, Hands, Alive, Books
  <2>6. Running'
    BY <1>c, <2>1, <2>2 DEF Running
  <2> QED BY <2>5, <2>6
<1>13. ~SetQuit /\ ~Destroy
  BY <1>0 DEF SetQuit, Destroy, DestroyPost, DestroyFree, Started
<1>14. CASE UNCHANGED vars
  <2>1. /\ UNCHANGED <<call, arg, posted, runs, done, wjob, ppc, pjob, pidx, todo>>
        /\ UNCHANGED <<pop_index, job_valid_sem, widx, wpc, wild, q_live, phase>>
    BY <1>14 DEF vars, ring, sems, prods, works, life, hist
  <2>2. Published' = Published
    BY <2>1 DEF Published, Ready, Early
  <2>3. Alive'
    BY <1>c, <2>1 DEF Alive
  <2> QED BY <1>c, <2>1, <2>2, <2>3, QuietContents
<1> QED
  BY <1>1, <1>2, <1>3, <1>4, <1>5, <1>6, <1>7, <1>8, <1>9, <1>10, <1>11, <1>12, <1>13, <1>14,
     <1>15
  DEF Next, Setup, Producer, Worker


LEMMA NextLoading == IInv /\ Started /\ SlotsOnce /\ Contents /\ Loading /\ [Next]_vars => Loading'
<1> SUFFICES ASSUME IInv, Started, SlotsOnce, Contents, Loading, [Next]_vars, SafeUse, ~is_quit',
                    NEW w \in Workers, wpc'[w] = "load"
             PROVE  wjob'[w] = call'[widx'[w]]
  BY DEF Loading, SafeUse, N
<1>0. ~is_quit
  BY DEF Next, Setup, InitPool, InitMallocFail, CreateFail, CreateWorker, AddJob, Producer,
     GetFreeJobIndex, WriteArg, WriteCall, PostJobValid, Worker, Sleep, GetValidJobIndex, Wakeup,
     TestCall, LoadCall, Invoke, JobReturns, ClearCall, ClearArg, PostJobFree, CheckQuit, SetQuit, Destroy, DestroyPost,
     DestroyFree, vars, life
<1>t. TypeOK
  BY DEF IInv
<1>l. wpc[w] = "load" => w \in Draining /\ wjob[w] = call[widx[w]]
  BY <1>0 DEF Loading, Draining
<1>n. /\ \A v \in Draining : w \in Draining /\ w # v => widx[w] # widx[v]
      /\ \A p \in Filling : w \in Draining => pidx[p] # widx[w]
  BY <1>0, SlotsApart DEF NoSharedSlot
<1>1. CASE InitPool
  BY <1>1, <1>l DEF InitPool, Started, works
<1>2. CASE InitMallocFail \/ CreateFail \/ SetQuit \/ Destroy \/ UNCHANGED vars
  BY <1>2, <1>l DEF InitMallocFail, CreateFail, SetQuit, Destroy, DestroyPost, DestroyFree, vars, works, ring
<1>3. ASSUME NEW v \in Workers, CreateWorker(v) PROVE wjob'[w] = call'[widx'[w]]
  BY <1>3, <1>l, <1>t DEF CreateWorker, ring, TypeOK
<1>4. ASSUME NEW p \in Producers, NEW j \in Jobs, AddJob(p, j) PROVE wjob'[w] = call'[widx'[w]]
  BY <1>4, <1>l DEF AddJob, works, ring
<1>5. ASSUME NEW p \in Producers, Producer(p) PROVE wjob'[w] = call'[widx'[w]]
  <2>1. CASE WriteCall(p)
    <3>1. p \in Filling /\ wpc[w] = "load" /\ UNCHANGED <<wjob, widx>>
      BY <2>1 DEF WriteCall, Filling, works
    <3>2. widx[w] # pidx[p] /\ widx[w] \in Slot
      BY <1>l, <1>n, <1>t, <3>1 DEF TypeOK
    <3> QED BY <1>l, <1>t, <2>1, <3>1, <3>2 DEF WriteCall, TypeOK
  <2>2. CASE ~WriteCall(p)
    BY <1>5, <1>l, <2>2 DEF Producer, GetFreeJobIndex, WriteArg, PostJobValid, ring, works
  <2> QED BY <2>1, <2>2
<1>6. ASSUME NEW v \in Workers, Worker(v) PROVE wjob'[w] = call'[widx'[w]]
  <2>1. CASE LoadCall(v)
    <3>1. UNCHANGED <<call, widx>>
      BY <2>1 DEF LoadCall, ring
    <3>2. CASE v = w
      <4>1. q_live
        BY <1>0, <2>1, <3>2 DEF LoadCall, WorkerStep, Draining, Started, Contents, Alive
      <4> QED BY <1>t, <2>1, <3>1, <3>2, <4>1 DEF LoadCall, Loads, TypeOK
    <3>3. CASE v # w
      BY <1>l, <1>t, <2>1, <3>1, <3>3 DEF LoadCall, WorkerStep, TypeOK
    <3> QED BY <3>2, <3>3
  <2>2. CASE ClearCall(v)
    <3>1. v \in Draining /\ v # w /\ wpc[w] = "load" /\ UNCHANGED <<wjob, widx>>
      BY <1>t, <2>2 DEF ClearCall, WorkerStep, Draining, TypeOK
    <3>2. widx[w] # widx[v] /\ widx[w] \in Slot
      BY <1>l, <1>n, <1>t, <3>1 DEF TypeOK
    <3> QED BY <1>l, <1>t, <2>2, <3>1, <3>2 DEF ClearCall, TypeOK
  <2>3. CASE GetValidJobIndex(v)
    BY <1>l, <1>t, <2>3 DEF GetValidJobIndex, WorkerStep, TypeOK
  <2>4. CASE ~LoadCall(v) /\ ~ClearCall(v) /\ ~GetValidJobIndex(v)
    <3>1. UNCHANGED <<call, widx, wjob>>
      BY <1>6, <2>4 DEF Worker, Sleep, Wakeup, TestCall, LoadCall, Invoke, JobReturns, ClearArg, PostJobFree,
         CheckQuit, ring
    <3>2. wpc[w] = "load"
      BY <1>6, <1>t, <2>4 DEF Worker, Sleep, Wakeup, TestCall, LoadCall, Invoke, JobReturns, ClearArg, PostJobFree,
         CheckQuit, WorkerStep, TypeOK
    <3> QED BY <1>l, <3>1, <3>2
  <2> QED BY <2>1, <2>2, <2>3, <2>4
<1> QED BY <1>1, <1>2, <1>3, <1>4, <1>5, <1>6 DEF Next, Setup

PoolInv == IInv /\ Started /\ SlotsOnce /\ Contents /\ Loading

LEMMA PoolInvHolds == Spec => []PoolInv
<1>1. Init => PoolInv
  BY InitIInv, InitStarted, InitSlotsOnce, InitContents DEF PoolInv, Loading, Init
<1>2. PoolInv /\ [Next]_vars => PoolInv'
  BY NextIInv, NextStarted, NextSlotsOnce, NextContents, NextLoading DEF PoolInv
<1> QED BY <1>1, <1>2, PTL DEF Spec

(* What a step of the pool is for the callers: publishing, entering and    *)
(* leaving a job, destroying the pool, or nothing at all.                  *)
LEMMA StepServes ==
  ASSUME SafeUse, PoolInv, [Next]_vars
  PROVE  [Service!Next]_(Service!svars)
<1> USE DEF Service!svars
<1>t. TypeOK
  BY DEF PoolInv, IInv
<1>1. CASE is_quit
  <2>1. is_quit'
    BY <1>1, <1>t DEF Next, Setup, InitPool, InitMallocFail, CreateFail, CreateWorker, AddJob, Producer,
       GetFreeJobIndex, WriteArg, WriteCall, PostJobValid, Worker, Sleep, GetValidJobIndex, Wakeup,
       TestCall, LoadCall, Invoke, JobReturns, ClearCall, ClearArg, PostJobFree, CheckQuit, SetQuit, Destroy, DestroyPost,
       DestroyFree, vars, life
  <2> QED BY <1>1, <2>1 DEF Service!Next, Service!AfterStop
<1>2. CASE ~is_quit
  <2>c. Full /\ Hands /\ Books /\ Running /\ Alive /\ Started
    BY <1>2 DEF PoolInv, Contents
  <2>1. ASSUME NEW p \in Producers, PostJobValid(p) PROVE Service!Next
    <3>1. pjob[p] \in Jobs /\ pjob[p] \notin posted
      BY <1>t, <2>1, <2>c DEF PostJobValid, Hands, TypeOK
    <3>2. Service!Submit(pjob[p])
      BY <2>1, <3>1 DEF PostJobValid, Service!Submit, life
    <3> QED BY <3>1, <3>2 DEF Service!Next
  <2>2. ASSUME NEW w \in Workers, Invoke(w) PROVE Service!Next
    <3> DEFINE c == call[widx[w]]
    <3>1. w \in Draining /\ widx[w] \in Published
      BY <2>2 DEF Invoke, Draining, Early, Published
    <3>p. wjob[w] = c
      BY <1>2, <2>2 DEF Invoke, PoolInv, Loading
    <3>2. c \in posted /\ arg[widx[w]] = c /\ runs[c] = 0 /\ c \in Jobs
      BY <1>t, <2>c, <3>1 DEF Full, TypeOK
    <3>3. q_live
      BY <2>c, <3>1 DEF Alive, Started
    <3>4. runs' = [runs EXCEPT ![c] = @ + 1] /\ UNCHANGED <<is_quit, posted, done>>
      BY <2>2, <3>p, <3>2, <3>3 DEF Invoke, Loads, life
    <3> HIDE DEF c
    <3>5. runs' = [runs EXCEPT ![c] = 1]
      BY <1>t, <3>2, <3>4 DEF TypeOK
    <3>6. Service!Start(c)
      BY <1>2, <3>2, <3>4, <3>5 DEF Service!Start
    <3> QED BY <3>2, <3>6 DEF Service!Next
  <2>3. ASSUME NEW w \in Workers, JobReturns(w) PROVE Service!Next
    <3>1. wjob[w] \in Jobs /\ runs[wjob[w]] = 1 /\ wjob[w] \notin done
      BY <1>t, <2>3, <2>c DEF JobReturns, WorkerStep, Running, TypeOK
    <3>2. Service!Finish(wjob[w])
      BY <1>2, <2>3, <3>1 DEF JobReturns, Service!Finish, life
    <3> QED BY <3>1, <3>2 DEF Service!Next
  <2>4. CASE SetQuit
    BY <2>4 DEF SetQuit, Service!Next, Service!Stop, hist
  <2>5. CASE Setup
    BY <2>5 DEF Setup, InitPool, InitMallocFail, CreateFail, CreateWorker, hist
  <2>6. ASSUME NEW p \in Producers, NEW j \in Jobs, AddJob(p, j) PROVE UNCHANGED Service!svars
    BY <2>6 DEF AddJob, life, hist
  <2>7. ASSUME NEW p \in Producers, GetFreeJobIndex(p) \/ WriteArg(p) \/ WriteCall(p)
        PROVE  UNCHANGED Service!svars
    BY <2>7 DEF GetFreeJobIndex, WriteArg, WriteCall, life, hist
  <2>8. ASSUME NEW w \in Workers, \/ Sleep(w) \/ GetValidJobIndex(w) \/ Wakeup(w) \/ TestCall(w)
                                  \/ LoadCall(w) \/ ClearCall(w) \/ ClearArg(w)
                                  \/ PostJobFree(w) \/ CheckQuit(w)
        PROVE  UNCHANGED Service!svars
    BY <2>8 DEF Sleep, GetValidJobIndex, Wakeup, TestCall, LoadCall, ClearCall, ClearArg, PostJobFree, CheckQuit, life, hist
  <2>9. CASE Destroy
    BY <2>9 DEF Destroy, DestroyPost, DestroyFree, hist
  <2>10. CASE UNCHANGED vars
    BY <2>10 DEF vars, life, hist
  <2> QED
    BY <2>1, <2>2, <2>3, <2>4, <2>5, <2>6, <2>7, <2>8, <2>9, <2>10 DEF Next, Producer, Worker
<1> QED BY <1>1, <1>2

(* In a safe use the pool implements the safety part of JobService, for    *)
(* any number of workers, producers and jobs: until the pool is destroyed  *)
(* a job is only run after it was published, by one worker, and once.      *)
THEOREM ServesSafely ==
  ASSUME SafeUse
  PROVE  Spec => Service!Init /\ [][Service!Next]_(Service!svars)
<1>1. Init => Service!Init
  BY DEF Init, Service!Init
<1>2. PoolInv /\ [Next]_vars => [Service!Next]_(Service!svars)
  BY StepServes
<1> QED BY <1>1, <1>2, PoolInvHolds, PTL DEF Spec

(* In a safe use no worker of thread_routine calls a pointer that no       *)
(* producer handed over, or with another job's argument, before the pool   *)
(* is destroyed.                                                           *)
THEOREM CallsSound ==
  ASSUME SafeUse
  PROVE  Spec => [](~is_quit => NoWildCall)
<1>1. PoolInv => (~is_quit => NoWildCall)
  BY DEF PoolInv, Contents, Alive, NoWildCall
<1> QED BY <1>1, PoolInvHolds, PTL
=============================================================================
