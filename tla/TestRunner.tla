----------------------------- MODULE TestRunner -----------------------------
(***************************************************************************)
(* test.py: run_tests puts its jobs on a queue, the worker threads run     *)
(* them and put them on another, and run_tests counts what comes back.     *)
(* Ctrl-C sets thread_exit, on which the workers hand back the jobs that   *)
(* are left as they are.                                                   *)
(*                                                                         *)
(* The report and the texts written for each job are left out.             *)
(***************************************************************************)
EXTENDS Integers, Sequences, FiniteSets, SequencesExt

CONSTANTS
  Workers,   \* one per processor
  MaxTests   \* model bound on the jobs put on the queue

ASSUME TestAssumption == Workers # {} /\ IsFiniteSet(Workers) /\ MaxTests \in Nat

\* Return codes: passed, failed, valgrind error, anything else.
ReturnCodes == 0..3
Verdicts == {"PASS", "FAIL", "VALGR", "CRASH", "SKIP"}

(* A job of run_tests: which one it is, whether it is to be skipped, and   *)
(* whether it tells a worker to stop or comes back without a result; 0 is  *)
(* the job of no test.                                                     *)
Jobs == [test : 0..MaxTests, skip : BOOLEAN, break : BOOLEAN, rc : ReturnCodes]
Job(test, skip, break) == [test |-> test, skip |-> skip, break |-> break, rc |-> 0]
Idle == Job(0, FALSE, FALSE)
BreakJob == Job(0, FALSE, TRUE)

VARIABLES
  mainPc,      \* the main thread: "dispatch", "break", "collect", "join",
               \* "exited", or "raised": an exception left run_tests
  jobs,        \* jobs and total_tests: the jobs put on input_queue
  breaks,      \* break jobs put on input_queue
  input,       \* input_queue
  output,      \* output_queue
  workerPc,    \* each worker: "get", "check", "test", "gone"
  held,        \* the job of each worker
  threadExit,  \* thread_exit
  received,    \* jobs taken from output_queue
  tally,       \* the counters of run_tests
  exitCode,    \* what run_tests returns
  result       \* history: the outcome of each test, or "none"

mainVars == <<mainPc, jobs, breaks, received, tally, exitCode>>
workVars == <<workerPc, held, result>>
testVars == <<mainVars, workVars, input, output, threadExit>>

TestInit ==
  /\ mainPc = "dispatch" /\ jobs = 0 /\ breaks = 0 /\ received = 0
  /\ tally = [v \in Verdicts |-> 0] /\ exitCode = 1
  /\ input = <<>> /\ output = <<>>
  /\ workerPc = [w \in Workers |-> "get"] /\ held = [w \in Workers |-> Idle]
  /\ threadExit = FALSE
  /\ result = [t \in 1..MaxTests |-> "none"]

----------------------------------------------------------------------------
(* The main thread.                                                        *)

\* A job for a test suite or an example, also for one that is skipped; its
\* returncode is False, which equals 0.
Dispatch ==
  /\ mainPc = "dispatch" /\ jobs < MaxTests
  /\ \E skip \in BOOLEAN :
       input' = Append(input, Job(jobs + 1, skip, FALSE))
  /\ jobs' = jobs + 1
  /\ UNCHANGED <<mainPc, breaks, received, tally, exitCode, workVars, output, threadExit>>

\* Mutant: the workers are told to stop before their jobs are dispatched.
MayBreakEarly == mainPc \in {"dispatch", "break"}
MayBreak == mainPc = "break"

EndDispatch ==
  /\ mainPc = "dispatch" /\ mainPc' = "break"
  /\ UNCHANGED <<jobs, breaks, received, tally, exitCode, workVars, input, output, threadExit>>

DispatchBreak ==
  /\ MayBreak /\ breaks < Cardinality(Workers)
  /\ input' = Append(input, BreakJob)
  /\ breaks' = breaks + 1
  /\ UNCHANGED <<mainPc, jobs, received, tally, exitCode, workVars, output, threadExit>>

EndBreak ==
  /\ mainPc = "break" /\ breaks = Cardinality(Workers)
  /\ mainPc' = "collect"
  /\ UNCHANGED <<jobs, breaks, received, tally, exitCode, workVars, input, output, threadExit>>

Verdict(job) ==
  IF job.skip THEN "SKIP" ELSE <<"PASS", "FAIL", "VALGR", "CRASH">>[job.rc + 1]

\* A result without the file that the suite should have written ends run_tests.
NoResults(job) == ~job.break /\ ~job.skip /\ job.rc <= 2

\* Mutant: a job that comes back without a result is counted like one with one.
CountedAll(job) == TRUE
HasResult(job) == ~job.break

Collect ==
  /\ mainPc = "collect" /\ received < jobs /\ output # <<>>
  /\ output' = Tail(output) /\ received' = received + 1
  /\ LET job == Head(output)
     IN  /\ tally' = IF HasResult(job) THEN [tally EXCEPT ![Verdict(job)] = @ + 1]
                     ELSE tally
         /\ \/ UNCHANGED mainPc
            \/ NoResults(job) /\ mainPc' = "raised"
  /\ UNCHANGED <<jobs, breaks, exitCode, workVars, input, threadExit>>

EndCollect ==
  /\ mainPc = "collect" /\ received = jobs
  /\ mainPc' = "join"
  /\ UNCHANGED <<jobs, breaks, received, tally, exitCode, workVars, input, output, threadExit>>

\* Every worker is joined; the summary is printed.
Exit ==
  /\ mainPc = "join" /\ \A w \in Workers : workerPc[w] = "gone"
  /\ exitCode' = IF tally["PASS"] + tally["SKIP"] = jobs THEN 0 ELSE 1
  /\ mainPc' = "exited"
  /\ UNCHANGED <<jobs, breaks, received, tally, workVars, input, output, threadExit>>

\* sigint_hook runs in the main thread, which it cannot interrupt in a get that
\* blocks or in a join that does.
Interrupt ==
  /\ \/ mainPc \in {"dispatch", "break"}
     \/ mainPc = "collect" /\ (output # <<>> \/ received = jobs)
  /\ threadExit' = TRUE
  /\ UNCHANGED <<mainVars, workVars, input, output>>

----------------------------------------------------------------------------
(* worker_thread.run.                                                      *)

Get(w) ==
  /\ workerPc[w] = "get" /\ input # <<>>
  /\ held' = [held EXCEPT ![w] = Head(input)] /\ input' = Tail(input)
  /\ workerPc' = [workerPc EXCEPT ![w] = "check"]
  /\ UNCHANGED <<mainVars, output, threadExit, result>>

\* Mutant: on thread_exit the worker stops, its job is not handed back.
PutNone(w) == UNCHANGED output /\ workerPc' = [workerPc EXCEPT ![w] = "gone"]
PutBack(w) ==
  /\ output' = Append(output, [held[w] EXCEPT !.break = TRUE])
  /\ workerPc' = [workerPc EXCEPT ![w] = "get"]

Check(w) ==
  /\ workerPc[w] = "check"
  /\ \/ /\ held[w].break
        /\ workerPc' = [workerPc EXCEPT ![w] = "gone"]
        /\ UNCHANGED <<output, result>>
     \/ /\ ~held[w].break /\ threadExit
        /\ PutBack(w)
        /\ UNCHANGED result
     \/ /\ ~held[w].break /\ ~threadExit /\ held[w].skip
        /\ output' = Append(output, held[w])
        /\ workerPc' = [workerPc EXCEPT ![w] = "get"]
        /\ result' = [result EXCEPT ![held[w].test] = "SKIP"]
     \/ /\ ~held[w].break /\ ~threadExit /\ ~held[w].skip
        /\ workerPc' = [workerPc EXCEPT ![w] = "test"]
        /\ UNCHANGED <<output, result>>
  /\ held' = IF workerPc'[w] = "test" THEN held ELSE [held EXCEPT ![w] = Idle]
  /\ UNCHANGED <<mainVars, input, threadExit>>

\* run_job_synchronously returns.
Test(w) ==
  /\ workerPc[w] = "test"
  /\ \E rc \in ReturnCodes :
       LET job == [held[w] EXCEPT !.rc = rc]
       IN  /\ output' = Append(output, job)
           /\ result' = [result EXCEPT ![job.test] = Verdict(job)]
  /\ workerPc' = [workerPc EXCEPT ![w] = "get"]
  /\ held' = [held EXCEPT ![w] = Idle]
  /\ UNCHANGED <<mainVars, input, threadExit>>

MainNext ==
  \/ Dispatch \/ EndDispatch \/ DispatchBreak \/ EndBreak
  \/ Collect \/ EndCollect \/ Exit
WorkerNext(w) == Get(w) \/ Check(w) \/ Test(w)
TestNext == MainNext \/ Interrupt \/ \E w \in Workers : WorkerNext(w)

TestSpec == TestInit /\ [][TestNext]_testVars

----------------------------------------------------------------------------
(* Properties.                                                             *)

\* The tests in a queue or in a worker's hands.
InQueue(q) == {q[k].test : k \in DOMAIN q} \ {0}
InHand == {held[w].test : w \in Workers} \ {0}

\* No job is forgotten or done twice: every job put on the queue is in one
\* place, or was received, and a worker that stopped has left none behind.
JobsKept ==
  /\ Cardinality(InQueue(input)) + Cardinality(InHand)
       + Cardinality(InQueue(output)) + received = jobs
  /\ Cardinality(InQueue(input) \cup InHand \cup InQueue(output)) + received = jobs
  /\ (\E w \in Workers : workerPc[w] = "gone") => InQueue(input) = {}

\* test.py returns 0 if and only if every test was run and passed, or was to be
\* skipped, whenever it was interrupted.
ExitHonest ==
  mainPc = "exited" =>
    (exitCode = 0 <=> \A t \in 1..jobs : result[t] \in {"PASS", "SKIP"})

\* The process ends, also after Ctrl-C or an exception in the main thread.
Ended ==
  /\ mainPc \in {"exited", "raised"}
  /\ \A w \in Workers : workerPc[w] = "gone"
============================================================================
