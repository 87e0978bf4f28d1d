----------------------------- MODULE ThreadPool -----------------------------
(***************************************************************************)
(* module_function/frame_thread_pool.c: a fixed set of detached worker     *)
(* threads, a ring of as many job slots as there are workers, one counting *)
(* semaphore for free slots and one for filled slots.                      *)
(*                                                                         *)
(* One action per code step between two accesses to shared state.  Taking  *)
(* a semaphore and advancing the ring index under its lock are one action: *)
(* nobody else can observe a thread that has passed the semaphore and not  *)
(* yet moved the index.  The ring is malloc'ed and not cleared, so a slot  *)
(* starts with NULL or with Garbage in it; after frame_threadpool_destroy  *)
(* has freed the ring a read of it returns what was there, NULL or Garbage.*)
(* Calling through NULL or Garbage, or calling a job with the argument of  *)
(* another, ends the process (wild).                                       *)
(***************************************************************************)
EXTENDS Integers, FiniteSets

CONSTANTS
  Workers,     \* threads created by frame_threadpool_init
  Producers,   \* threads that call frame_add_job_queue
  Jobs,        \* the jobs handed over, each one once
  NULL,        \* a null pointer
  Garbage      \* a pointer read from memory nobody initialised

ASSUME WorkersAssumption == IsFiniteSet(Workers) /\ Workers # {}
ASSUME ProducersAssumption == IsFiniteSet(Producers)
ASSUME JobsAssumption == NULL \notin Jobs /\ Garbage \notin Jobs /\ NULL # Garbage

(* thread_size: the number of workers is also the number of ring slots.    *)
N == Cardinality(Workers)
Slot == 0 .. N - 1
Pointer == Jobs \cup {NULL, Garbage}

VARIABLES
  phase,             \* frame_threadpool_init: "raw", "creating", "ready", "failed"
  created,           \* workers whose pthread_create succeeded
  is_quit,
  q_live,            \* FALSE once q_head has been freed
  job_free_sem, job_valid_sem,
  push_index, pop_index,
  call, arg,         \* the two fields of every slot of q_head
  sleep_thread_num,
  ppc, pjob, pidx,   \* producers: step, job in hand, slot in hand
  wpc, widx, wjob,   \* workers: step, slot in hand, call as loaded last
  dpc, dposts,       \* frame_threadpool_destroy: step, posts made
  todo,              \* jobs no caller has submitted yet
  posted, runs, done,\* history: published, entered, returned
  wild               \* history: the process jumped to a wrong function

ring == <<push_index, pop_index, call, arg>>
sems == <<job_free_sem, job_valid_sem>>
prods == <<ppc, pjob, pidx, todo>>
works == <<wpc, widx, wjob, sleep_thread_num>>
life == <<phase, created, is_quit, q_live, dpc, dposts>>
hist == <<posted, runs, done, wild>>
vars == <<ring, sems, prods, works, life, hist>>

(* Mutant: the wrap is tested one step too late.                           *)
WrapLate(i) == IF i = N THEN 0 ELSE i + 1

(* Mutant: the index is never advanced.                                    *)
WrapStuck(i) == i

(* An index of the ring is advanced and wrapped.                           *)
Wrap(i) == IF i + 1 = N THEN 0 ELSE i + 1

-----------------------------------------------------------------------------
(* frame_threadpool_init                                                   *)

(* memset, both mallocs, sem_init and mutex_init; the slots keep whatever  *)
(* malloc returned.                                                        *)
InitPool ==
  /\ phase = "raw"
  /\ phase' = "creating"
  /\ q_live' = TRUE
  /\ call' \in [Slot -> {NULL, Garbage}]
  /\ arg' = [s \in Slot |-> Garbage]
  /\ push_index' = 0 /\ pop_index' = 0
  /\ job_valid_sem' = 0 /\ job_free_sem' = N
  /\ UNCHANGED <<created, is_quit, dpc, dposts, prods, works, hist>>

(* One of the two mallocs fails: -1.                                       *)
InitMallocFail ==
  /\ phase = "raw"
  /\ phase' = "failed"
  /\ UNCHANGED <<created, is_quit, q_live, dpc, dposts, ring, sems, prods, works, hist>>

(* pthread_create succeeds for the next worker; the last one ends the loop.*)
CreateWorker(w) ==
  /\ phase = "creating"
  /\ w \notin created
  /\ created' = created \cup {w}
  /\ phase' = IF created' = Workers THEN "ready" ELSE "creating"
  /\ wpc' = [wpc EXCEPT ![w] = "sleep"]
  /\ UNCHANGED <<is_quit, q_live, dpc, dposts, ring, sems, prods, widx, wjob,
                 sleep_thread_num, hist>>

(* Mutant: the failing init wakes the workers it has created, as destroy   *)
(* does.                                                                   *)
CreateFailWakes ==
  /\ phase = "creating"
  /\ phase' = "failed"
  /\ q_live' = FALSE
  /\ job_valid_sem' = Cardinality(created)
  /\ UNCHANGED <<created, is_quit, dpc, dposts, ring, job_free_sem, prods, works, hist>>

(* pthread_create fails: thread_id and q_head are freed although workers   *)
(* created before may be waiting; the caller is told -1.                   *)
CreateFail ==
  /\ phase = "creating"
  /\ phase' = "failed"
  /\ q_live' = FALSE
  /\ UNCHANGED <<created, is_quit, dpc, dposts, ring, sems, prods, works, hist>>

-----------------------------------------------------------------------------
(* frame_add_job_queue, called by producer p with job j                    *)

(* is_quit is looked at once, before the call may block.                   *)
AddJob(p, j) ==
  /\ phase = "ready"
  /\ ppc[p] = "idle" /\ j \in todo
  /\ todo' = todo \ {j}
  /\ IF is_quit
     THEN UNCHANGED <<ppc, pjob>>
     ELSE /\ ppc' = [ppc EXCEPT ![p] = "reserve"]
          /\ pjob' = [pjob EXCEPT ![p] = j]
  /\ UNCHANGED <<pidx, ring, sems, works, life, hist>>

(* Mutant: the producer does not wait for a free slot.                     *)
GetFreeJobIndexNoWait(p) ==
  /\ ppc[p] = "reserve"
  /\ job_free_sem' = IF job_free_sem > 0 THEN job_free_sem - 1 ELSE 0
  /\ pidx' = [pidx EXCEPT ![p] = push_index]
  /\ push_index' = Wrap(push_index)
  /\ ppc' = [ppc EXCEPT ![p] = "arg"]
  /\ UNCHANGED <<job_valid_sem, pop_index, call, arg, pjob, todo, works, life, hist>>

(* get_free_job_index *)
GetFreeJobIndex(p) ==
  /\ ppc[p] = "reserve"
  /\ job_free_sem > 0
  /\ job_free_sem' = job_free_sem - 1
  /\ pidx' = [pidx EXCEPT ![p] = push_index]
  /\ push_index' = Wrap(push_index)
  /\ ppc' = [ppc EXCEPT ![p] = "arg"]
  /\ UNCHANGED <<job_valid_sem, pop_index, call, arg, pjob, todo, works, life, hist>>

WriteArg(p) ==
  /\ ppc[p] = "arg"
  /\ arg' = [arg EXCEPT ![pidx[p]] = pjob[p]]
  /\ ppc' = [ppc EXCEPT ![p] = "call"]
  /\ UNCHANGED <<push_index, pop_index, call, sems, pjob, pidx, todo, works, life, hist>>

WriteCall(p) ==
  /\ ppc[p] = "call"
  /\ call' = [call EXCEPT ![pidx[p]] = pjob[p]]
  /\ ppc' = [ppc EXCEPT ![p] = "post"]
  /\ UNCHANGED <<push_index, pop_index, arg, sems, pjob, pidx, todo, works, life, hist>>

(* post_job_valid_num, then the call returns                               *)
PostJobValid(p) ==
  /\ ppc[p] = "post"
  /\ job_valid_sem' = job_valid_sem + 1
  /\ posted' = posted \cup {pjob[p]}
  /\ ppc' = [ppc EXCEPT ![p] = "idle"]
  /\ UNCHANGED <<job_free_sem, ring, pjob, pidx, todo, works, life, runs, done, wild>>

-----------------------------------------------------------------------------
(* thread_routine, run by worker w                                         *)

WorkerStep(w, from, to) == wpc[w] = from /\ wpc' = [wpc EXCEPT ![w] = to]

(* frame_threadpool_sleep *)
Sleep(w) ==
  /\ WorkerStep(w, "sleep", "wait")
  /\ sleep_thread_num' = sleep_thread_num + 1
  /\ UNCHANGED <<widx, wjob, ring, sems, prods, life, hist>>

(* get_valid_job_index *)
GetValidJobIndex(w) ==
  /\ WorkerStep(w, "wait", "wake")
  /\ job_valid_sem > 0
  /\ job_valid_sem' = job_valid_sem - 1
  /\ widx' = [widx EXCEPT ![w] = pop_index]
  /\ pop_index' = Wrap(pop_index)
  /\ UNCHANGED <<job_free_sem, push_index, call, arg, wjob, sleep_thread_num,
                 prods, life, hist>>

(* frame_threadpool_wakeup *)
Wakeup(w) ==
  /\ WorkerStep(w, "wake", "test")
  /\ sleep_thread_num' = sleep_thread_num - 1
  /\ UNCHANGED <<widx, wjob, ring, sems, prods, life, hist>>

(* What a worker may read from a field of slot s.                          *)
Loads(field, s) == IF q_live THEN {field[s]} ELSE {field[s], NULL, Garbage}

(* Mutant: a slot without a call goes straight to the test of is_quit and  *)
(* is not given back.                                                      *)
TestCallKeepsSlot(w) ==
  /\ wpc[w] = "test"
  /\ \E c \in Loads(call, widx[w]) :
       wpc' = [wpc EXCEPT ![w] = IF c = NULL THEN "check" ELSE "invoke"]
  /\ UNCHANGED <<widx, wjob, sleep_thread_num, ring, sems, prods, life, hist>>

(* if(curr_job->call): a null pointer skips the call.                      *)
TestCall(w) ==
  /\ wpc[w] = "test"
  /\ \E c \in Loads(call, widx[w]) :
       wpc' = [wpc EXCEPT ![w] = IF c = NULL THEN "clear" ELSE "invoke"]
  /\ UNCHANGED <<widx, wjob, sleep_thread_num, ring, sems, prods, life, hist>>

(* curr_job->call(curr_job->arg): call is loaded again, ...                *)
LoadCall(w) ==
  /\ WorkerStep(w, "invoke", "load")
  /\ \E c \in Loads(call, widx[w]) : wjob' = [wjob EXCEPT ![w] = c]
  /\ UNCHANGED <<widx, sleep_thread_num, ring, sems, prods, life, hist>>

(* ... then arg, and the function is entered.                              *)
Invoke(w) ==
  /\ wpc[w] = "load"
  /\ \E a \in Loads(arg, widx[w]) :
       IF wjob[w] \in Jobs /\ a = wjob[w]
       THEN /\ WorkerStep(w, "load", "running")
            /\ runs' = [runs EXCEPT ![wjob[w]] = @ + 1]
            /\ UNCHANGED wild
       ELSE /\ wild' = TRUE
            /\ UNCHANGED <<wpc, runs>>
  /\ UNCHANGED <<widx, wjob, sleep_thread_num, ring, sems, prods, life, posted, done>>

(* The job's function returns.                                             *)
JobReturns(w) ==
  /\ WorkerStep(w, "running", "clear")
  /\ done' = done \cup {wjob[w]}
  /\ UNCHANGED <<widx, wjob, sleep_thread_num, ring, sems, prods, life, posted, runs, wild>>

(* Mutant: the slot at pop_index is cleared, not the worker's own.         *)
ClearNextCall(w) ==
  /\ WorkerStep(w, "clear", "cleararg")
  /\ call' = [call EXCEPT ![pop_index] = NULL]
  /\ UNCHANGED <<push_index, pop_index, arg, widx, wjob, sleep_thread_num, sems, prods, life, hist>>

(* curr_job->call = NULL                                                   *)
ClearCall(w) ==
  /\ WorkerStep(w, "clear", "cleararg")
  /\ call' = [call EXCEPT ![widx[w]] = NULL]
  /\ UNCHANGED <<push_index, pop_index, arg, widx, wjob, sleep_thread_num, sems, prods, life, hist>>

(* curr_job->arg = NULL                                                    *)
ClearArg(w) ==
  /\ WorkerStep(w, "cleararg", "post")
  /\ arg' = [arg EXCEPT ![widx[w]] = NULL]
  /\ UNCHANGED <<push_index, pop_index, call, widx, wjob, sleep_thread_num, sems, prods, life, hist>>

(* post_job_free_num *)
PostJobFree(w) ==
  /\ WorkerStep(w, "post", "check")
  /\ job_free_sem' = job_free_sem + 1
  /\ UNCHANGED <<job_valid_sem, ring, widx, wjob, sleep_thread_num, prods, life, hist>>

(* if(is_quit) break, and pthread_exit                                     *)
CheckQuit(w) ==
  /\ WorkerStep(w, "check", IF is_quit THEN "exited" ELSE "sleep")
  /\ UNCHANGED <<widx, wjob, sleep_thread_num, ring, sems, prods, life, hist>>

-----------------------------------------------------------------------------
(* frame_threadpool_destroy                                                *)

SetQuit ==
  /\ phase = "ready" /\ dpc = "none"
  /\ is_quit' = TRUE
  /\ dpc' = "posting"
  /\ UNCHANGED <<phase, created, q_live, dposts, ring, sems, prods, works, hist>>

(* Mutant: one post for all the workers.                                   *)
DestroyPostOnce ==
  /\ dpc = "posting"
  /\ dposts < N
  /\ dposts' = N
  /\ job_valid_sem' = job_valid_sem + 1
  /\ UNCHANGED <<phase, created, is_quit, q_live, dpc, job_free_sem, ring, prods, works, hist>>

(* post_job_valid_num, job_queue_size times                                *)
DestroyPost ==
  /\ dpc = "posting"
  /\ dposts < N
  /\ dposts' = dposts + 1
  /\ job_valid_sem' = job_valid_sem + 1
  /\ UNCHANGED <<phase, created, is_quit, q_live, dpc, job_free_sem, ring, prods, works, hist>>

(* free(thread_id); free(q_head): nobody has been joined.                  *)
DestroyFree ==
  /\ dpc = "posting" /\ dposts = N
  /\ dpc' = "done"
  /\ q_live' = FALSE
  /\ UNCHANGED <<phase, created, is_quit, dposts, ring, sems, prods, works, hist>>

-----------------------------------------------------------------------------
Init ==
  /\ phase = "raw" /\ created = {} /\ is_quit = FALSE /\ q_live = FALSE
  /\ job_free_sem = 0 /\ job_valid_sem = 0
  /\ push_index = 0 /\ pop_index = 0
  /\ call = [s \in Slot |-> NULL] /\ arg = [s \in Slot |-> NULL]
  /\ sleep_thread_num = 0
  /\ ppc = [p \in Producers |-> "idle"]
  /\ pjob = [p \in Producers |-> NULL]
  /\ pidx = [p \in Producers |-> 0]
  /\ wpc = [w \in Workers |-> "none"]
  /\ widx = [w \in Workers |-> 0]
  /\ wjob = [w \in Workers |-> NULL]
  /\ dpc = "none" /\ dposts = 0
  /\ todo = Jobs /\ posted = {} /\ runs = [j \in Jobs |-> 0] /\ done = {}
  /\ wild = FALSE

Setup == \/ InitPool \/ InitMallocFail \/ CreateFail
         \/ \E w \in Workers : CreateWorker(w)

Producer(p) == \/ GetFreeJobIndex(p) \/ WriteArg(p) \/ WriteCall(p) \/ PostJobValid(p)

Worker(w) == \/ Sleep(w) \/ GetValidJobIndex(w) \/ Wakeup(w) \/ TestCall(w)
             \/ LoadCall(w) \/ Invoke(w) \/ JobReturns(w) \/ ClearCall(w)
             \/ ClearArg(w) \/ PostJobFree(w) \/ CheckQuit(w)

Destroy == DestroyPost \/ DestroyFree

Next == /\ ~wild
        /\ \/ Setup
           \/ \E p \in Producers, j \in Jobs : AddJob(p, j)
           \/ \E p \in Producers : Producer(p)
           \/ \E w \in Workers : Worker(w)
           \/ SetQuit
           \/ Destroy

(* Threads that can run do run, jobs return, and a destroy that has begun  *)
(* goes on; nobody has to call frame_add_job_queue or destroy.             *)
Fairness == /\ \A p \in Producers : WF_vars(~wild /\ Producer(p))
            /\ \A w \in Workers : WF_vars(~wild /\ Worker(w))
            /\ WF_vars(~wild /\ Destroy)

Spec == Init /\ [][Next]_vars
FairSpec == Spec /\ Fairness

-----------------------------------------------------------------------------
(* Threads that own a slot: a producer from its reservation to its post, a *)
(* worker from its pop to its post.                                        *)
Filling == {p \in Producers : ppc[p] \in {"arg", "call", "post"}}
Draining == {w \in Workers : wpc[w] \in {"wake", "test", "invoke", "load", "running",
                                        "clear", "cleararg", "post"}}

(* The uses in which the pool keeps its promise: a single slot, or one     *)
(* producer that never goes round the ring (es_test_function hands three   *)
(* jobs to a ring of four).                                                *)
SafeUse == \/ N = 1
           \/ /\ Cardinality(Producers) = 1
              /\ IsFiniteSet(Jobs) /\ Cardinality(Jobs) <= N

(* Type correctness of the pool's fields, of the semaphore counts and of   *)
(* every thread's locals (struct frame_thread_pool).                       *)
TypeOK ==
  /\ phase \in {"raw", "creating", "ready", "failed"}
  /\ created \in SUBSET Workers
  /\ is_quit \in BOOLEAN /\ q_live \in BOOLEAN
  /\ job_free_sem \in Nat /\ job_valid_sem \in Nat
  /\ push_index \in Slot /\ pop_index \in Slot
  /\ call \in [Slot -> Pointer] /\ arg \in [Slot -> Pointer]
  /\ sleep_thread_num \in Int
  /\ ppc \in [Producers -> {"idle", "reserve", "arg", "call", "post"}]
  /\ pjob \in [Producers -> Jobs \cup {NULL}]
  /\ \A p \in Producers : ppc[p] # "idle" => pjob[p] \in Jobs
  /\ pidx \in [Producers -> Slot]
  /\ wpc \in [Workers -> {"none", "sleep", "wait", "wake", "test", "invoke",
                          "load", "running", "clear", "cleararg", "post", "check",
                          "exited"}]
  /\ widx \in [Workers -> Slot]
  /\ wjob \in [Workers -> Pointer]
  /\ \A w \in Workers : wpc[w] = "running" => wjob[w] \in Jobs
  /\ dpc \in {"none", "posting", "done"} /\ dposts \in 0 .. N
  /\ todo \in SUBSET Jobs /\ posted \in SUBSET Jobs /\ done \in SUBSET Jobs
  /\ runs \in [Jobs -> Nat]
  /\ wild \in BOOLEAN

(* No slot is lost and none is handed out twice over: free slots, filled   *)
(* slots and slots in some thread's hands add up to the size of the ring,  *)
(* plus the posts frame_threadpool_destroy made to wake the workers        *)
(* (job_free_sem, job_valid_sem across all of frame_thread_pool.c).        *)
Conservation ==
  phase \in {"creating", "ready"} =>
    job_free_sem + job_valid_sem + Cardinality(Filling) + Cardinality(Draining)
      = N + dposts

(* Before frame_threadpool_init has run nobody uses the pool, and a worker *)
(* that was not created yet does nothing: what makes Conservation          *)
(* inductive.                                                              *)
Lifecycle ==
  /\ phase = "raw" => /\ created = {} /\ dpc = "none" /\ dposts = 0
                      /\ \A p \in Producers : ppc[p] = "idle"
  /\ \A w \in Workers \ created : wpc[w] = "none"

(* A ring that is not allocated is in nobody's hands until destroy begins: *)
(* when frame_threadpool_init fails after it has created some workers      *)
(* (line 151) it frees q_head under them, and they must stay in their wait *)
(* for ever rather than touch it.                                          *)
DeadRingUntouched == ~q_live /\ ~is_quit => Filling = {} /\ Draining = {}

(* In a safe use no two threads have the same slot in their hands, until   *)
(* frame_threadpool_destroy posts job_valid_sem without filling a slot.    *)
NoSharedSlot ==
  SafeUse /\ ~is_quit =>
    /\ \A p, q \in Filling : p # q => pidx[p] # pidx[q]
    /\ \A w, v \in Draining : w # v => widx[w] # widx[v]
    /\ \A p \in Filling, w \in Draining : pidx[p] # widx[w]

(* A worker only ever calls a function some producer handed over, with the *)
(* argument handed over with it (thread_routine lines 91-93).  It is not   *)
(* an invariant: destroy wakes a sleeping worker without filling a slot,   *)
(* and the worker tests and calls what malloc left there, or what is left  *)
(* of a ring that has been freed.                                          *)
NoWildCall == ~wild

(* After frame_threadpool_destroy every worker leaves thread_routine, or   *)
(* the process has died.                                                   *)
WorkersExit == is_quit ~> (wild \/ \A w \in Workers : wpc[w] = "exited")

Service == INSTANCE JobService WITH stopped <- is_quit

(* In a safe use the pool implements JobService: every job published runs  *)
(* exactly once and eventually, as long as nobody destroys the pool.       *)
ServesJobs == Service!Spec
=============================================================================
