----------------------------- MODULE JobService -----------------------------
(***************************************************************************)
(* What a caller of frame_add_job_queue expects of the thread pool until   *)
(* frame_threadpool_destroy is called: a job handed over is run once, by   *)
(* one worker, and it is run eventually.  Nothing is promised afterwards.  *)
(* ThreadPool.tla shows in which uses the code keeps this promise.         *)
(***************************************************************************)
EXTENDS Naturals

CONSTANT Jobs

VARIABLES
  stopped,  \* frame_threadpool_destroy has been called
  posted,   \* jobs whose frame_add_job_queue call has published them
  runs,     \* how many times each job's function has been entered
  done      \* jobs whose function has returned

svars == <<stopped, posted, runs, done>>

Init == /\ stopped = FALSE
        /\ posted = {}
        /\ runs = [j \in Jobs |-> 0]
        /\ done = {}

Submit(j) == /\ j \notin posted
             /\ posted' = posted \cup {j}
             /\ UNCHANGED <<stopped, runs, done>>

Start(j) == /\ ~stopped
            /\ j \in posted
            /\ runs[j] = 0
            /\ runs' = [runs EXCEPT ![j] = 1]
            /\ UNCHANGED <<stopped, posted, done>>

Finish(j) == /\ ~stopped
             /\ runs[j] = 1
             /\ j \notin done
             /\ done' = done \cup {j}
             /\ UNCHANGED <<stopped, posted, runs>>

Stop == /\ stopped' = TRUE
        /\ UNCHANGED <<posted, runs, done>>

AfterStop == stopped /\ stopped'

Next == Stop \/ AfterStop \/ \E j \in Jobs : Submit(j) \/ Start(j) \/ Finish(j)

(* A submitted job does not wait for ever, and a job that runs returns.    *)
Fairness == \A j \in Jobs : WF_svars(Start(j)) /\ WF_svars(Finish(j))

Spec == Init /\ [][Next]_svars /\ Fairness
=============================================================================
