----------------------------- MODULE ToolProofs -----------------------------
(***************************************************************************)
(* Proofs about test.py and the visualizer.                                *)
(*                                                                         *)
(* The inductive invariant of test.py, TestInv, says where each test is:   *)
(* in one place of one queue, in the hands of one worker, or received.     *)
(* The break jobs are behind all others, so a worker that has one has left *)
(* no test behind.  The counters count the outcomes of the received tests. *)
(***************************************************************************)
EXTENDS TestRunner, Visualizer, FiniteSetTheorems, TLAPS

----------------------------------------------------------------------------
(* Tests in queues and hands.                                              *)

\* No test is in q twice.
Distinct(q) ==
  \A j, k \in DOMAIN q : q[j].test = q[k].test /\ q[j].test # 0 => j = k

\* InHand, of any assignment of jobs to workers.
Hands(h) == {h[w].test : w \in Workers} \ {0}

\* No test is in two hands.
Single(h) ==
  \A v, w \in Workers : h[v].test = h[w].test /\ h[v].test # 0 => v = w

\* Queue.put.
LEMMA Put ==
  ASSUME NEW q \in Seq(Jobs), NEW job \in Jobs
  PROVE  /\ Append(q, job) \in Seq(Jobs)
         /\ Len(Append(q, job)) = Len(q) + 1
         /\ \A k \in 1..Len(q) : Append(q, job)[k] = q[k]
         /\ Append(q, job)[Len(q) + 1] = job
         /\ InQueue(Append(q, job)) = InQueue(q) \cup ({job.test} \ {0})
         /\ Distinct(q) /\ job.test \notin InQueue(q) => Distinct(Append(q, job))
<1>1. PICK u : u = Append(q, job)
  OBVIOUS
<1>2. /\ u \in Seq(Jobs) /\ Len(u) = Len(q) + 1 /\ Len(q) \in Nat
      /\ DOMAIN u = 1..Len(q) + 1 /\ DOMAIN q = 1..Len(q)
      /\ \A k \in 1..Len(q) : u[k] = q[k]
      /\ u[Len(q) + 1] = job
  BY <1>1
<1>3. \A k \in DOMAIN u : k \in DOMAIN q \/ k = Len(q) + 1
  BY <1>2
<1>4. \A k \in DOMAIN q : k \in DOMAIN u /\ k # Len(q) + 1
  BY <1>2
<1>5. Len(q) + 1 \in DOMAIN u
  BY <1>2
<1>6. InQueue(u) = InQueue(q) \cup ({job.test} \ {0})
  BY <1>2, <1>3, <1>4, <1>5 DEF InQueue
<1>7. Distinct(q) /\ job.test \notin InQueue(q) => Distinct(u)
  <2> SUFFICES ASSUME Distinct(q), job.test \notin InQueue(q),
                      NEW j \in DOMAIN u, NEW k \in DOMAIN u,
                      u[j].test = u[k].test, u[j].test # 0
               PROVE  j = k
    BY DEF Distinct
  <2>1. \A i \in DOMAIN q : q[i].test # 0 => q[i].test # job.test
    BY DEF InQueue
  <2> QED
    BY <2>1, <1>2, <1>3 DEF Distinct
<1> QED
  BY <1>1, <1>2, <1>6, <1>7

\* Queue.get.
LEMMA Taken ==
  ASSUME NEW q \in Seq(Jobs), q # <<>>
  PROVE  /\ Head(q) \in Jobs /\ Tail(q) \in Seq(Jobs)
         /\ Head(q) = q[1] /\ 1 \in DOMAIN q
         /\ \A k \in DOMAIN Tail(q) : k + 1 \in DOMAIN q /\ Tail(q)[k] = q[k + 1]
         /\ Distinct(q) => /\ InQueue(Tail(q)) = InQueue(q) \ {Head(q).test}
                           /\ Distinct(Tail(q))
<1>1. PICK u : u = Tail(q)
  OBVIOUS
<1>2. PICK job : job = Head(q)
  OBVIOUS
<1>3. /\ u \in Seq(Jobs) /\ job \in Jobs /\ job = q[1] /\ Len(q) \in Nat /\ Len(q) # 0
      /\ DOMAIN u = 1..Len(q) - 1 /\ DOMAIN q = 1..Len(q)
      /\ \A k \in 1..Len(q) - 1 : u[k] = q[k + 1]
  BY <1>1, <1>2
<1>4. 1 \in DOMAIN q /\ \A k \in DOMAIN u : k + 1 \in DOMAIN q /\ u[k] = q[k + 1] /\ k + 1 # 1
  BY <1>3
<1>5. \A k \in DOMAIN q : k # 1 => k - 1 \in DOMAIN u /\ u[k - 1] = q[k]
  <2> TAKE k \in DOMAIN q
  <2> HAVE k # 1
  <2>1. k - 1 \in 1..Len(q) - 1 /\ k - 1 + 1 = k
    BY <1>3
  <2> QED
    BY <2>1, <1>3
<1>6. ASSUME Distinct(q)
      PROVE  InQueue(u) = InQueue(q) \ {job.test} /\ Distinct(u)
  <2>1. \A t : t \in InQueue(u) => t \in InQueue(q) /\ t # job.test
    <3> TAKE t
    <3> HAVE t \in InQueue(u)
    <3>1. PICK k \in DOMAIN u : t = u[k].test /\ t # 0
      BY DEF InQueue
    <3> QED
      BY <1>3, <1>4, <1>6, <3>1 DEF InQueue, Distinct
  <2>2. \A t : t \in InQueue(q) /\ t # job.test => t \in InQueue(u)
    <3> TAKE t
    <3> HAVE t \in InQueue(q) /\ t # job.test
    <3>1. PICK k \in DOMAIN q : t = q[k].test /\ t # 0
      BY DEF InQueue
    <3>2. k # 1
      BY <1>3, <3>1
    <3>3. k - 1 \in DOMAIN u /\ u[k - 1] = q[k]
      BY <1>5, <3>2
    <3> QED
      BY <3>1, <3>3 DEF InQueue
  <2>3. Distinct(u)
    <3> SUFFICES ASSUME NEW j \in DOMAIN u, NEW k \in DOMAIN u,
                        u[j].test = u[k].test, u[j].test # 0
                 PROVE  j = k
      BY DEF Distinct
    <3>1. j + 1 = k + 1
      BY <1>4, <1>6 DEF Distinct
    <3> QED
      BY <1>3, <3>1
  <2> QED
    BY <2>1, <2>2, <2>3
<1> QED
  BY <1>1, <1>2, <1>3, <1>4, <1>6

\* A worker takes a job into its empty hands.
LEMMA Grasped ==
  ASSUME NEW h \in [Workers -> Jobs], NEW w \in Workers, h[w].test = 0,
         NEW job \in Jobs, Single(h), job.test \notin Hands(h)
  PROVE  /\ Hands([h EXCEPT ![w] = job]) = Hands(h) \cup ({job.test} \ {0})
         /\ Single([h EXCEPT ![w] = job])
<1>0. PICK g : g = [h EXCEPT ![w] = job]
  OBVIOUS
<1>1. g \in [Workers -> Jobs] /\ g[w] = job /\ \A v \in Workers : v # w => g[v] = h[v]
  BY <1>0
<1>2. Hands(g) = Hands(h) \cup ({job.test} \ {0})
  BY <1>1 DEF Hands
<1>3. \A v \in Workers : h[v].test = job.test => job.test = 0
  BY DEF Hands
<1>4. Single(g)
  BY <1>1, <1>3 DEF Single
<1> QED
  BY <1>0, <1>2, <1>4

\* A worker hands its job on.
LEMMA Released ==
  ASSUME NEW h \in [Workers -> Jobs], NEW w \in Workers, Single(h)
  PROVE  /\ Hands([h EXCEPT ![w] = Idle]) = Hands(h) \ {h[w].test}
         /\ Single([h EXCEPT ![w] = Idle])
<1>1. Idle \in Jobs /\ Idle.test = 0
  BY TestAssumption DEF Idle, Job, Jobs, ReturnCodes, TestAssumption
<1>0. PICK g : g = [h EXCEPT ![w] = Idle]
  OBVIOUS
<1>2. g \in [Workers -> Jobs] /\ g[w] = Idle /\ \A v \in Workers : v # w => g[v] = h[v]
  BY <1>0, <1>1
<1>3. \A t : t \in Hands(g) => t \in Hands(h) /\ t # h[w].test
  <2> TAKE t
  <2> HAVE t \in Hands(g)
  <2>1. PICK v \in Workers : t = g[v].test /\ t # 0
    BY DEF Hands
  <2>2. v # w
    BY <1>1, <1>2, <2>1
  <2> QED
    BY <1>2, <2>1, <2>2 DEF Hands, Single
<1>4. \A t : t \in Hands(h) /\ t # h[w].test => t \in Hands(g)
  <2> TAKE t
  <2> HAVE t \in Hands(h) /\ t # h[w].test
  <2>1. PICK v \in Workers : t = h[v].test /\ t # 0
    BY DEF Hands
  <2> QED
    BY <1>2, <2>1 DEF Hands
<1>5. Single(g)
  BY <1>1, <1>2 DEF Single
<1> QED
  BY <1>0, <1>3, <1>4, <1>5

----------------------------------------------------------------------------
(* The inductive invariant of test.py.                                     *)

TestTyped ==
  /\ mainPc \in {"dispatch", "break", "collect", "join", "exited", "raised"}
  /\ jobs \in 0..MaxTests /\ received \in Nat
  /\ input \in Seq(Jobs) /\ output \in Seq(Jobs)
  /\ workerPc \in [Workers -> {"get", "check", "test", "gone"}]
  /\ held \in [Workers -> Jobs]
  /\ tally \in [Verdicts -> Nat]
  /\ result \in [1..MaxTests -> Verdicts \cup {"none"}]

\* Every test is in one place, and only jobs that stop a worker are of no test.
Places ==
  /\ Distinct(input) /\ Distinct(output) /\ Single(held)
  /\ InQueue(input) \cap InHand = {} /\ InQueue(input) \cap InQueue(output) = {}
  /\ InHand \cap InQueue(output) = {}
  /\ InQueue(input) \cup InHand \cup InQueue(output) \subseteq 1..jobs
  /\ \A k \in DOMAIN output : output[k].test # 0
  /\ \A k \in DOMAIN input : input[k].break <=> input[k].test = 0
  /\ \A w \in Workers :
       /\ workerPc[w] \in {"get", "gone"} => held[w] = Idle
       /\ workerPc[w] = "check" => (held[w].break <=> held[w].test = 0)
       /\ workerPc[w] = "test" => held[w].test # 0 /\ ~held[w].break

\* The jobs that stop a worker are behind all tests.
Breaks ==
  /\ \A j, k \in DOMAIN input : j < k /\ input[j].break => input[k].break
  /\ mainPc = "dispatch" =>
       /\ \A k \in DOMAIN input : ~input[k].break
       /\ \A w \in Workers : ~(workerPc[w] = "gone" \/ held[w].break)
  /\ (\E w \in Workers : workerPc[w] = "gone" \/ held[w].break) => InQueue(input) = {}

\* The tests that run_tests has received, and those of them with outcome v.
Received == (1..jobs) \ (InQueue(input) \cup InHand \cup InQueue(output))
Counted(v) == {t \in Received : result[t] = v}

\* What comes back is what happened, and the counters count it.
Outcomes ==
  /\ \A t \in InQueue(input) \cup InHand : result[t] = "none"
  /\ \A t \in 1..MaxTests : t > jobs => result[t] = "none"
  /\ \A k \in DOMAIN output :
       result[output[k].test] = IF output[k].break THEN "none" ELSE Verdict(output[k])
  /\ received = Cardinality(Received)
  /\ \A v \in Verdicts : tally[v] = Cardinality(Counted(v))

\* The main thread leaves the loop when it has received all jobs.
Main ==
  /\ mainPc \in {"join", "exited"} => received = jobs
  /\ mainPc = "exited" =>
       exitCode = IF tally["PASS"] + tally["SKIP"] = jobs THEN 0 ELSE 1

TestInv == TestTyped /\ Places /\ Breaks /\ Outcomes /\ Main

\* At the start no job is anywhere.
LEMMA TestStarts == TestInit => TestInv
<1> SUFFICES ASSUME TestInit PROVE TestInv
  OBVIOUS
<1>1. Idle \in Jobs /\ Idle.test = 0 /\ ~Idle.break
  BY TestAssumption DEF Idle, Job, Jobs, ReturnCodes, TestAssumption
<1>2. TestTyped
  BY <1>1, TestAssumption DEF TestInit, TestTyped, TestAssumption
<1>3. /\ InQueue(input) = {} /\ InQueue(output) = {} /\ InHand = {}
      /\ DOMAIN input = {} /\ DOMAIN output = {}
  BY <1>1 DEF TestInit, InQueue, InHand
<1>4. Places
  BY <1>1, <1>3 DEF TestInit, Places, Distinct, Single
<1>5. Breaks
  BY <1>1, <1>3 DEF TestInit, Breaks
<1>6. Received = {} /\ \A v : Counted(v) = {}
  BY DEF TestInit, Received, Counted
<1>7. Outcomes
  BY <1>3, <1>6, FS_EmptySet DEF TestInit, Outcomes
<1>8. Main
  BY DEF TestInit, Main
<1> QED
  BY <1>2, <1>4, <1>5, <1>7, <1>8 DEF TestInv

\* Queues, hands and outcomes are left alone, and the main thread goes on.
LEMMA MainGoesOn ==
  ASSUME TestInv, UNCHANGED <<workVars, input, output, jobs, received, tally>>,
         mainPc' \in {"break", "collect", "join", "exited"} \/ mainPc' = mainPc,
         Main'
  PROVE  TestInv'
<1>1. TestTyped'
  BY DEF TestInv, TestTyped, workVars
<1>2. Places'
  <2>1. /\ input' = input /\ output' = output /\ jobs' = jobs
        /\ workerPc' = workerPc /\ held' = held
    BY DEF workVars
  <2>2. /\ InQueue(input)' = InQueue(input) /\ InQueue(output)' = InQueue(output)
        /\ InHand' = InHand /\ Distinct(input)' = Distinct(input)
        /\ Distinct(output)' = Distinct(output) /\ Single(held)' = Single(held)
    BY <2>1 DEF InHand, InQueue, Distinct, Single
  <2> QED
    BY <2>1, <2>2 DEF TestInv, Places
<1>3. Breaks'
  BY DEF TestInv, Breaks, workVars, InQueue
<1>4. Received' = Received /\ \A v : Counted(v)' = Counted(v)
  BY DEF Received, Counted, InHand, InQueue, workVars
<1>5. Outcomes'
  BY <1>4 DEF TestInv, Outcomes, workVars, InHand, InQueue
<1> QED
  BY <1>1, <1>2, <1>3, <1>5 DEF TestInv

\* A test is put on the queue behind the others.
LEMMA DispatchKeeps ==
  ASSUME TestInv, Dispatch
  PROVE  TestInv'
<1>0. /\ mainPc = "dispatch" /\ mainPc' = mainPc /\ jobs < MaxTests /\ jobs' = jobs + 1
      /\ UNCHANGED <<received, tally, exitCode, workerPc, held, result, output>>
      /\ input \in Seq(Jobs) /\ output \in Seq(Jobs) /\ jobs \in Nat /\ MaxTests \in Nat
  BY TestAssumption DEF Dispatch, workVars, TestInv, TestTyped, TestAssumption
<1>1. PICK job \in Jobs : /\ input' = Append(input, job)
                          /\ job.test = jobs + 1 /\ ~job.break
  <2>1. PICK skip \in BOOLEAN : input' = Append(input, Job(jobs + 1, skip, FALSE))
    BY DEF Dispatch
  <2>2. jobs + 1 \in 0..MaxTests /\ 0 \in ReturnCodes
    BY <1>0 DEF ReturnCodes
  <2>3. Job(jobs + 1, skip, FALSE) \in Jobs
    BY <2>2 DEF Jobs, Job
  <2> QED
    BY <2>1, <2>3 DEF Job
<1> DEFINE n == jobs + 1
<1>2. /\ n \in Nat /\ n # 0 /\ n \notin 1..jobs /\ n <= MaxTests
      /\ 1..n = (1..jobs) \cup {n}
  BY <1>0
<1>3. InQueue(input) \cup InHand \cup InQueue(output) \subseteq 1..jobs
  BY DEF TestInv, Places
<1> HIDE DEF n
<1>4. /\ input' \in Seq(Jobs) /\ Len(input') = Len(input) + 1
      /\ \A k \in 1..Len(input) : input'[k] = input[k]
      /\ input'[Len(input) + 1] = job
      /\ InQueue(input') = InQueue(input) \cup {n}
      /\ Distinct(input')
  <2>1. job.test \notin InQueue(input) /\ {job.test} \ {0} = {n}
    BY <1>1, <1>2, <1>3 DEF n
  <2>2. Distinct(input)
    BY DEF TestInv, Places
  <2> QED
    <3>1. PICK q \in Seq(Jobs) : q = Append(input, job)
      BY <1>0, <1>1, Put
    <3>2. /\ Len(q) = Len(input) + 1
          /\ \A k \in 1..Len(input) : q[k] = input[k]
          /\ q[Len(input) + 1] = job
      BY <1>0, <3>1
    <3>3. InQueue(q) = InQueue(input) \cup ({job.test} \ {0}) /\ Distinct(q)
      BY <1>0, <2>1, <2>2, <3>1, Put
    <3> QED
      BY <1>1, <2>1, <3>1, <3>2, <3>3
<1>5. \A k \in DOMAIN input' : \/ k \in DOMAIN input /\ input'[k] = input[k]
                               \/ k = Len(input) + 1
  BY <1>0, <1>4
<1>6. InHand' = InHand /\ InQueue(output)' = InQueue(output) /\ Distinct(output)' = Distinct(output)
  BY <1>0 DEF InHand, InQueue, Distinct
<1>7. TestTyped'
  BY <1>0, <1>2, <1>4 DEF TestInv, TestTyped, n
<1>8. Places'
  <2>1. \A k \in DOMAIN input' : input'[k].break <=> input'[k].test = 0
    BY <1>1, <1>2, <1>4, <1>5 DEF TestInv, Places, n
  <2>2. /\ InQueue(input') \cap InHand' = {} /\ InQueue(input') \cap InQueue(output') = {}
        /\ InQueue(input') \cup InHand' \cup InQueue(output') \subseteq 1..jobs'
    BY <1>0, <1>2, <1>3, <1>4, <1>6 DEF TestInv, Places, n
  <2>3. Single(held)' = Single(held)
    BY <1>0 DEF Single
  <2> QED
    BY <1>0, <1>4, <1>6, <2>1, <2>2, <2>3 DEF TestInv, Places
<1>9. Breaks'
  BY <1>0, <1>1, <1>4, <1>5 DEF TestInv, Breaks
<1>10. Received' = Received
  BY <1>0, <1>2, <1>3, <1>4, <1>6 DEF Received, n
<1>11. \A v : Counted(v)' = Counted(v)
  BY <1>0, <1>10 DEF Counted
<1>12. Outcomes'
  <2>1. result[n] = "none"
    BY <1>0, <1>2 DEF TestInv, Outcomes, n
  <2>2. \A t \in InQueue(input') \cup InHand' : result'[t] = "none"
    BY <1>0, <1>4, <1>6, <2>1 DEF TestInv, Outcomes
  <2>3. \A t \in 1..MaxTests : t > jobs' => result'[t] = "none"
    <3>1. \A t \in 1..MaxTests : t > jobs + 1 => t > jobs
      BY <1>0
    <3> QED
      BY <1>0, <3>1 DEF TestInv, Outcomes
  <2> QED
    BY <1>0, <1>10, <1>11, <2>2, <2>3 DEF TestInv, Outcomes
<1>13. Main'
  BY <1>0 DEF Main
<1> QED
  BY <1>7, <1>8, <1>9, <1>12, <1>13 DEF TestInv

\* A job that stops a worker is put behind the tests.
LEMMA DispatchBreakKeeps ==
  ASSUME TestInv, DispatchBreak
  PROVE  TestInv'
<1>0. /\ mainPc = "break" /\ mainPc' = mainPc
      /\ UNCHANGED <<jobs, received, tally, exitCode, workerPc, held, result, output>>
      /\ input \in Seq(Jobs) /\ Len(input) \in Nat /\ input' = Append(input, BreakJob)
  BY DEF DispatchBreak, MayBreak, workVars, TestInv, TestTyped
<1>1. BreakJob \in Jobs /\ BreakJob.test = 0 /\ BreakJob.break
  <2>1. BreakJob = [test |-> 0, skip |-> FALSE, break |-> TRUE, rc |-> 0]
    BY DEF BreakJob, Job
  <2>2. 0 \in 0..MaxTests /\ 0 \in ReturnCodes
    BY TestAssumption DEF ReturnCodes, TestAssumption
  <2> QED
    BY <2>1, <2>2 DEF Jobs
<1>2. /\ input' \in Seq(Jobs) /\ Len(input') = Len(input) + 1
      /\ \A k \in 1..Len(input) : input'[k] = input[k]
      /\ input'[Len(input) + 1] = BreakJob
      /\ InQueue(input') = InQueue(input)
      /\ Distinct(input')
  <2>1. BreakJob.test \notin InQueue(input) /\ {BreakJob.test} \ {0} = {}
    BY <1>1 DEF InQueue
  <2>2. Distinct(input)
    BY DEF TestInv, Places
  <2> QED
    <3>1. PICK q \in Seq(Jobs) : q = Append(input, BreakJob)
      BY <1>0, <1>1
    <3>2. /\ Len(q) = Len(input) + 1
          /\ \A k \in 1..Len(input) : q[k] = input[k]
          /\ q[Len(input) + 1] = BreakJob
      BY <1>0, <1>1, <3>1
    <3>3. InQueue(q) = InQueue(input) \cup ({BreakJob.test} \ {0}) /\ Distinct(q)
      BY <1>0, <1>1, <2>1, <2>2, <3>1, Put
    <3> QED
      BY <1>0, <2>1, <3>1, <3>2, <3>3
<1>3. \A k \in DOMAIN input' : \/ k \in DOMAIN input /\ input'[k] = input[k]
                               \/ k = Len(input) + 1 /\ input'[k] = BreakJob
  BY <1>0, <1>2
<1>4. InHand' = InHand /\ InQueue(output)' = InQueue(output) /\ Distinct(output)' = Distinct(output)
  BY <1>0 DEF InHand, InQueue, Distinct
<1>5. TestTyped'
  BY <1>0, <1>2 DEF TestInv, TestTyped
<1>6. Places'
  <2>1. \A k \in DOMAIN input' : input'[k].break <=> input'[k].test = 0
    BY <1>1, <1>3 DEF TestInv, Places
  <2>2. Single(held)' = Single(held)
    BY <1>0 DEF Single
  <2> QED
    BY <1>0, <1>2, <1>4, <2>1, <2>2 DEF TestInv, Places
<1>7. Breaks'
  <2>1. \A j, k \in DOMAIN input' : j < k /\ input'[j].break => input'[k].break
    <3> SUFFICES ASSUME NEW j \in DOMAIN input', NEW k \in DOMAIN input', j < k, input'[j].break
                 PROVE  input'[k].break
      OBVIOUS
    <3>1. j \in Nat /\ k \in Nat /\ k <= Len(input) + 1
      BY <1>2
    <3>2. j \in DOMAIN input
      BY <1>0, <1>3, <3>1
    <3> QED
      BY <1>0, <1>1, <1>2, <1>3, <3>2 DEF TestInv, Breaks
  <2> QED
    BY <1>0, <1>2, <2>1 DEF TestInv, Breaks
<1>8. Received' = Received /\ \A v : Counted(v)' = Counted(v)
  BY <1>0, <1>2, <1>4 DEF Received, Counted
<1>9. Outcomes'
  BY <1>0, <1>2, <1>4, <1>8 DEF TestInv, Outcomes
<1>10. Main'
  BY <1>0 DEF Main
<1> QED
  BY <1>5, <1>6, <1>7, <1>9, <1>10 DEF TestInv

\* A job comes back.
LEMMA CollectKeeps ==
  ASSUME TestInv, Collect
  PROVE  TestInv'
<1> DEFINE job == Head(output)
           t == job.test
<1>0. /\ mainPc = "collect" /\ mainPc' \in {"collect", "raised"} /\ received' = received + 1
      /\ UNCHANGED <<jobs, exitCode, workerPc, held, result, input>>
      /\ output \in Seq(Jobs) /\ output # <<>> /\ output' = Tail(output)
      /\ jobs \in 0..MaxTests /\ MaxTests \in Nat /\ received \in Nat
      /\ tally \in [Verdicts -> Nat]
      /\ tally' = IF ~job.break THEN [tally EXCEPT ![Verdict(job)] = @ + 1] ELSE tally
  BY TestAssumption DEF Collect, HasResult, workVars, TestInv, TestTyped, TestAssumption
<1>1. Distinct(output)
  BY DEF TestInv, Places
<1>2. /\ job \in Jobs /\ output' \in Seq(Jobs)
      /\ job = output[1] /\ 1 \in DOMAIN output
      /\ \A k \in DOMAIN output' : k + 1 \in DOMAIN output /\ output'[k] = output[k + 1]
      /\ InQueue(output') = InQueue(output) \ {t} /\ Distinct(output')
  BY <1>0, <1>1, Taken, Zenon
<1>3. t # 0 /\ t \in InQueue(output)
  BY <1>2 DEF TestInv, Places, InQueue
<1> HIDE DEF t
<1>4. /\ t \in 1..jobs /\ t \notin InQueue(input) /\ t \notin InHand
  BY <1>3 DEF TestInv, Places
<1>5. result[t] = IF job.break THEN "none" ELSE Verdict(job)
  BY <1>2 DEF TestInv, Outcomes, t
<1> HIDE DEF job
<1>6. Verdict(job) \in Verdicts
  <2>1. job.rc \in ReturnCodes
    BY <1>2 DEF Jobs
  <2> QED
    BY <2>1 DEF Verdict, Verdicts, ReturnCodes
<1>7. /\ InHand' = InHand /\ InQueue(input)' = InQueue(input)
      /\ Distinct(input)' = Distinct(input) /\ Single(held)' = Single(held)
  BY <1>0 DEF InHand, InQueue, Distinct, Single
<1>8. Received' = Received \cup {t} /\ t \notin Received
  BY <1>0, <1>2, <1>3, <1>4, <1>7 DEF Received
<1>9. IsFiniteSet(Received) /\ \A v : IsFiniteSet(Counted(v))
  <2>1. IsFiniteSet(1..jobs)
    BY <1>0, FS_Interval
  <2> QED
    BY <2>1, FS_Subset DEF Received, Counted
<1>10. received' = Cardinality(Received')
  BY <1>0, <1>8, <1>9, FS_AddElement DEF TestInv, Outcomes
<1>11. TestTyped'
  BY <1>0, <1>2, <1>6 DEF TestInv, TestTyped
<1>12. Places'
  <2>1. /\ InQueue(input') \cap InQueue(output') = {} /\ InHand' \cap InQueue(output') = {}
        /\ InQueue(input') \cap InHand' = {}
        /\ InQueue(input') \cup InHand' \cup InQueue(output') \subseteq 1..jobs'
    BY <1>0, <1>2, <1>7 DEF TestInv, Places
  <2>2. \A k \in DOMAIN output' : output'[k].test # 0
    BY <1>2 DEF TestInv, Places
  <2> QED
    BY <1>0, <1>2, <1>7, <2>1, <2>2 DEF TestInv, Places
<1>13. Breaks'
  BY <1>0, <1>7 DEF TestInv, Breaks
<1>14. ASSUME NEW v \in Verdicts
       PROVE  tally'[v] = Cardinality(Counted(v)')
  <2>1. Counted(v)' = IF result[t] = v THEN Counted(v) \cup {t} ELSE Counted(v)
    BY <1>0, <1>8 DEF Counted
  <2>2. t \notin Counted(v)
    BY <1>8 DEF Counted
  <2>3. tally[v] = Cardinality(Counted(v))
    BY DEF TestInv, Outcomes
  <2>4. Cardinality(Counted(v) \cup {t}) = Cardinality(Counted(v)) + 1
    BY <1>9, <2>2, FS_AddElement
  <2>5. "none" \notin Verdicts
    BY DEF Verdicts
  <2>6. CASE job.break
    BY <1>0, <1>5, <2>1, <2>3, <2>5, <2>6
  <2>7. CASE ~job.break
    BY <1>0, <1>5, <1>6, <2>1, <2>3, <2>4, <2>7
  <2> QED
    BY <2>6, <2>7
<1>15. Outcomes'
  <2>1. \A k \in DOMAIN output' :
          result'[output'[k].test] = IF output'[k].break THEN "none" ELSE Verdict(output'[k])
    BY <1>0, <1>2 DEF TestInv, Outcomes
  <2> QED
    BY <1>0, <1>7, <1>10, <1>14, <2>1 DEF TestInv, Outcomes
<1>16. Main'
  BY <1>0 DEF Main
<1> QED
  BY <1>11, <1>12, <1>13, <1>15, <1>16 DEF TestInv

\* A worker takes the next job.
LEMMA GetKeeps ==
  ASSUME TestInv, NEW w \in Workers, Get(w)
  PROVE  TestInv'
<1> DEFINE job == Head(input)
           t == job.test
<1>0. /\ UNCHANGED <<mainPc, jobs, received, tally, exitCode, result, output>>
      /\ input \in Seq(Jobs) /\ input # <<>> /\ input' = Tail(input)
      /\ held \in [Workers -> Jobs] /\ held' = [held EXCEPT ![w] = job]
      /\ workerPc \in [Workers -> {"get", "check", "test", "gone"}]
      /\ workerPc[w] = "get" /\ workerPc' = [workerPc EXCEPT ![w] = "check"]
  BY DEF Get, mainVars, TestInv, TestTyped
<1>1. Distinct(input) /\ Single(held) /\ held[w] = Idle /\ held[w].test = 0
  BY <1>0 DEF TestInv, Places, Idle, Job
<1>2. /\ job \in Jobs /\ input' \in Seq(Jobs)
      /\ job = input[1] /\ 1 \in DOMAIN input
      /\ \A k \in DOMAIN input' : k + 1 \in DOMAIN input /\ input'[k] = input[k + 1]
      /\ InQueue(input') = InQueue(input) \ {t} /\ Distinct(input')
  BY <1>0, <1>1, Taken, Zenon
<1>3. /\ job.break <=> t = 0
      /\ t # 0 => t \in InQueue(input)
      /\ job.break => \A k \in DOMAIN input : input[k].break
  <2>1. job.break <=> t = 0
    BY <1>2 DEF TestInv, Places
  <2>2. t # 0 => t \in InQueue(input)
    BY <1>2 DEF InQueue
  <2>3. \A k \in DOMAIN input : k = 1 \/ 1 < k
    BY <1>0
  <2>4. job.break => \A k \in DOMAIN input : input[k].break
    BY <1>2, <2>3 DEF TestInv, Breaks
  <2> QED
    BY <2>1, <2>2, <2>4
<1>4. job.break => InQueue(input) = {}
  BY <1>3 DEF TestInv, Places, InQueue
<1>5. InHand = Hands(held) /\ InHand' = Hands(held') /\ 0 \notin InHand
  BY DEF InHand, Hands
<1>6. t \notin Hands(held)
  BY <1>3, <1>5 DEF TestInv, Places
<1>7. Hands(held') = Hands(held) \cup ({t} \ {0}) /\ Single(held')
  BY <1>0, <1>1, <1>2, <1>6, Grasped, ZenonT(40)
<1> HIDE DEF t
<1>8. /\ InQueue(input') \cup InHand' = InQueue(input) \cup InHand
      /\ InQueue(input') \cap InHand' = {}
      /\ InQueue(input') \subseteq InQueue(input)
  BY <1>2, <1>3, <1>5, <1>7 DEF TestInv, Places
<1>9. InQueue(output)' = InQueue(output) /\ Distinct(output)' = Distinct(output)
  BY <1>0 DEF InQueue, Distinct
<1> HIDE DEF job
<1>10. \A v \in Workers : v # w => held'[v] = held[v] /\ workerPc'[v] = workerPc[v]
  BY <1>0
<1>11. held'[w] = job /\ workerPc'[w] = "check"
  BY <1>0
<1>12. TestTyped'
  BY <1>0, <1>2 DEF TestInv, TestTyped
<1>13. Places'
  <2>1. \A k \in DOMAIN input' : input'[k].break <=> input'[k].test = 0
    BY <1>2 DEF TestInv, Places
  <2>2. /\ InQueue(input') \cap InQueue(output') = {} /\ InHand' \cap InQueue(output') = {}
        /\ InQueue(input') \cup InHand' \cup InQueue(output') \subseteq 1..jobs'
    BY <1>0, <1>8, <1>9 DEF TestInv, Places
  <2>3. ASSUME NEW v \in Workers
        PROVE  /\ workerPc'[v] \in {"get", "gone"} => held'[v] = Idle
               /\ workerPc'[v] = "check" => (held'[v].break <=> held'[v].test = 0)
               /\ workerPc'[v] = "test" => held'[v].test # 0 /\ ~held'[v].break
    BY <1>3, <1>10, <1>11 DEF TestInv, Places, t
  <2>4. \A k \in DOMAIN output' : output'[k].test # 0
    BY <1>0 DEF TestInv, Places
  <2>5. Distinct(output')
    BY <1>0 DEF TestInv, Places
  <2> QED
    BY <1>2, <1>7, <1>8, <2>1, <2>2, <2>3, <2>4, <2>5 DEF Places
<1>14. Breaks'
  <2>1. \A j, k \in DOMAIN input' : j < k /\ input'[j].break => input'[k].break
    <3> SUFFICES ASSUME NEW j \in DOMAIN input', NEW k \in DOMAIN input', j < k, input'[j].break
                 PROVE  input'[k].break
      OBVIOUS
    <3>1. j \in Nat /\ k \in Nat
      BY <1>2
    <3>2. j + 1 < k + 1
      BY <3>1
    <3> QED
      BY <1>2, <3>2 DEF TestInv, Breaks
  <2>2. mainPc' = "dispatch" => /\ \A k \in DOMAIN input' : ~input'[k].break
                                /\ \A v \in Workers : ~(workerPc'[v] = "gone" \/ held'[v].break)
    BY <1>0, <1>2, <1>10, <1>11 DEF TestInv, Breaks
  <2>3. (\E v \in Workers : workerPc'[v] = "gone" \/ held'[v].break) => InQueue(input') = {}
    BY <1>4, <1>8, <1>10, <1>11 DEF TestInv, Breaks
  <2> QED
    BY <2>1, <2>2, <2>3 DEF Breaks
<1>15. Received' = Received
  BY <1>0, <1>8, <1>9 DEF Received
<1>16. \A v : Counted(v)' = Counted(v)
  BY <1>0, <1>15 DEF Counted
<1>17. Outcomes'
  BY <1>0, <1>8, <1>15, <1>16 DEF TestInv, Outcomes
<1>18. Main'
  BY <1>0 DEF TestInv, Main
<1> QED
  BY <1>12, <1>13, <1>14, <1>17, <1>18 DEF TestInv

\* A worker hands on the test it has, with its outcome or with none.
LEMMA HandsOn ==
  ASSUME TestInv, NEW w \in Workers, NEW job \in Jobs,
         workerPc[w] \in {"check", "test"},
         held[w].test # 0, job.test = held[w].test,
         output' = Append(output, job),
         held' = [held EXCEPT ![w] = Idle],
         workerPc' = [workerPc EXCEPT ![w] = "get"],
         result' = IF job.break THEN result ELSE [result EXCEPT ![job.test] = Verdict(job)],
         UNCHANGED <<mainVars, input>>
  PROVE  TestInv'
<1> DEFINE t == job.test
<1>0. /\ UNCHANGED <<mainPc, jobs, received, tally, exitCode, input>>
      /\ output \in Seq(Jobs) /\ Len(output) \in Nat
      /\ held \in [Workers -> Jobs] /\ result \in [1..MaxTests -> Verdicts \cup {"none"}]
      /\ workerPc \in [Workers -> {"get", "check", "test", "gone"}]
      /\ jobs \in 0..MaxTests /\ MaxTests \in Nat
  BY TestAssumption DEF mainVars, TestInv, TestTyped, TestAssumption
<1>1. InHand = Hands(held) /\ InHand' = Hands(held')
  BY DEF InHand, Hands
<1>2. /\ t # 0 /\ t \in InHand /\ t \in 1..jobs /\ t \in 1..MaxTests
      /\ t \notin InQueue(input) /\ t \notin InQueue(output)
  <2>1. t # 0 /\ t \in InHand
    BY DEF InHand
  <2>2. t \in 1..jobs /\ t \notin InQueue(input) /\ t \notin InQueue(output)
    BY <2>1 DEF TestInv, Places
  <2> QED
    BY <1>0, <2>1, <2>2
<1>3. Distinct(output) /\ Single(held)
  BY DEF TestInv, Places
<1>4. /\ output' \in Seq(Jobs) /\ Len(output') = Len(output) + 1
      /\ \A k \in 1..Len(output) : output'[k] = output[k]
      /\ output'[Len(output) + 1] = job
      /\ InQueue(output') = InQueue(output) \cup {t}
      /\ Distinct(output')
  <2>1. {t} \ {0} = {t}
    BY <1>2
  <2>2. PICK q \in Seq(Jobs) : q = Append(output, job)
    BY <1>0, Put
  <2>3. /\ Len(q) = Len(output) + 1
        /\ \A k \in 1..Len(output) : q[k] = output[k]
        /\ q[Len(output) + 1] = job
    BY <1>0, <2>2
  <2>4. InQueue(q) = InQueue(output) \cup ({t} \ {0}) /\ Distinct(q)
    BY <1>0, <1>2, <1>3, <2>2, Put
  <2> QED
    BY <2>1, <2>2, <2>3, <2>4
<1>5. InHand' = InHand \ {t} /\ Single(held')
  BY <1>0, <1>1, <1>3, Released
<1> HIDE DEF t
<1>6. /\ InQueue(input)' = InQueue(input) /\ Distinct(input)' = Distinct(input)
      /\ InHand' \cup InQueue(output') = InHand \cup InQueue(output)
      /\ InHand' \cap InQueue(output') = {} /\ InHand' \subseteq InHand
  <2>1. InQueue(input)' = InQueue(input) /\ Distinct(input)' = Distinct(input)
    BY <1>0 DEF InQueue, Distinct
  <2>2. InHand \cap InQueue(output) = {}
    BY DEF TestInv, Places
  <2> QED
    BY <1>2, <1>4, <1>5, <2>1, <2>2
<1>7. \A k \in DOMAIN output' : \/ k \in DOMAIN output /\ output'[k] = output[k]
                                \/ output'[k] = job
  BY <1>0, <1>4
<1>8. \A v \in Workers : v # w => held'[v] = held[v] /\ workerPc'[v] = workerPc[v]
  BY <1>0
<1>9. held'[w] = Idle /\ workerPc'[w] = "get" /\ ~Idle.break /\ Idle \in Jobs
  <2>1. 0 \in 0..MaxTests /\ 0 \in ReturnCodes
    BY <1>0 DEF ReturnCodes
  <2> QED
    BY <1>0, <2>1 DEF Idle, Job, Jobs
<1>10. Verdict(job) \in Verdicts
  <2>1. job.rc \in ReturnCodes
    BY DEF Jobs
  <2> QED
    BY <2>1 DEF Verdict, Verdicts, ReturnCodes
<1>11. /\ result' \in [1..MaxTests -> Verdicts \cup {"none"}]
       /\ result'[t] = IF job.break THEN result[t] ELSE Verdict(job)
       /\ \A s \in 1..MaxTests : s # t => result'[s] = result[s]
  BY <1>0, <1>2, <1>10 DEF t
<1>12. TestTyped'
  BY <1>0, <1>4, <1>9, <1>11 DEF TestInv, TestTyped
<1>13. Places'
  <2>1. \A k \in DOMAIN output' : output'[k].test # 0
    BY <1>2, <1>7 DEF TestInv, Places, t
  <2>2. /\ InQueue(input') \cap InHand' = {} /\ InQueue(input') \cap InQueue(output') = {}
        /\ InQueue(input') \cup InHand' \cup InQueue(output') \subseteq 1..jobs'
    BY <1>0, <1>2, <1>4, <1>6 DEF TestInv, Places
  <2>3. ASSUME NEW v \in Workers
        PROVE  /\ workerPc'[v] \in {"get", "gone"} => held'[v] = Idle
               /\ workerPc'[v] = "check" => (held'[v].break <=> held'[v].test = 0)
               /\ workerPc'[v] = "test" => held'[v].test # 0 /\ ~held'[v].break
    BY <1>8, <1>9 DEF TestInv, Places
  <2>4. \A k \in DOMAIN input' : input'[k].break <=> input'[k].test = 0
    BY <1>0 DEF TestInv, Places
  <2>5. Distinct(input')
    BY <1>0 DEF TestInv, Places
  <2> QED
    BY <1>4, <1>5, <1>6, <2>1, <2>2, <2>3, <2>4, <2>5 DEF Places
<1>14. Breaks'
  <2>1. \A v \in Workers : workerPc'[v] = "gone" \/ held'[v].break =>
                             workerPc[v] = "gone" \/ held[v].break
    BY <1>8, <1>9
  <2> QED
    BY <1>0, <1>6, <2>1 DEF TestInv, Breaks
<1>15. Received' = Received /\ t \notin Received
  <2>1. t \notin Received
    BY <1>2 DEF Received
  <2> QED
    BY <1>0, <1>6, <2>1 DEF Received
<1>16. \A s \in Received : s \in 1..MaxTests /\ result'[s] = result[s]
  <2>1. \A s \in Received : s \in 1..MaxTests
    BY <1>0 DEF Received
  <2> QED
    BY <1>11, <1>15, <2>1
<1>17. \A v : Counted(v)' = Counted(v)
  BY <1>15, <1>16 DEF Counted
<1>18. Outcomes'
  <2>1. InQueue(input) \cup InHand \cup InQueue(output) \subseteq 1..MaxTests
    <3>1. 1..jobs \subseteq 1..MaxTests
      BY <1>0
    <3> QED
      BY <3>1 DEF TestInv, Places
  <2>2. \A s \in InQueue(input') \cup InHand' : result'[s] = "none"
    <3>1. \A s \in InQueue(input') \cup InHand' :
            s \in InQueue(input) \cup InHand /\ s # t
      BY <1>2, <1>5, <1>6
    <3> QED
      BY <1>11, <2>1, <3>1 DEF TestInv, Outcomes
  <2>3. \A s \in 1..MaxTests : s > jobs' => result'[s] = "none"
    <3>1. \A s \in 1..MaxTests : s > jobs => s # t
      BY <1>0, <1>2
    <3> QED
      BY <1>0, <1>11, <3>1 DEF TestInv, Outcomes
  <2>4. ASSUME NEW k \in DOMAIN output'
        PROVE  result'[output'[k].test] =
                 IF output'[k].break THEN "none" ELSE Verdict(output'[k])
    <3>1. CASE k \in DOMAIN output /\ output'[k] = output[k]
      <4>1. output[k].test \in InQueue(output)
        BY <3>1 DEF TestInv, Places, InQueue
      <4>2. output[k].test # t /\ output[k].test \in 1..MaxTests
        BY <1>2, <2>1, <4>1
      <4> QED
        BY <1>11, <3>1, <4>2 DEF TestInv, Outcomes
    <3>2. CASE output'[k] = job
      <4>1. result[t] = "none"
        BY <1>2 DEF TestInv, Outcomes
      <4> QED
        BY <1>11, <3>2, <4>1 DEF t
    <3> QED
      BY <1>7, <3>1, <3>2
  <2> QED
    BY <1>0, <1>15, <1>17, <2>2, <2>3, <2>4 DEF TestInv, Outcomes
<1>19. Main'
  BY <1>0 DEF TestInv, Main
<1> QED
  BY <1>12, <1>13, <1>14, <1>18, <1>19 DEF TestInv

\* What a worker does with the job it took.
LEMMA CheckKeeps ==
  ASSUME TestInv, NEW w \in Workers, Check(w)
  PROVE  TestInv'
<1>0. /\ UNCHANGED <<mainPc, jobs, received, tally, exitCode, input>>
      /\ UNCHANGED <<mainVars, input>>
      /\ held \in [Workers -> Jobs] /\ held[w] \in Jobs
      /\ workerPc \in [Workers -> {"get", "check", "test", "gone"}]
      /\ workerPc[w] = "check"
      /\ held[w].break <=> held[w].test = 0
  BY DEF Check, mainVars, TestInv, TestTyped, Places
<1>1. CASE /\ held[w].break /\ workerPc' = [workerPc EXCEPT ![w] = "gone"]
           /\ UNCHANGED <<output, result>> /\ held' = [held EXCEPT ![w] = Idle]
  <2>1. /\ InHand = Hands(held) /\ InHand' = Hands(held') /\ 0 \notin InHand
    BY DEF InHand, Hands
  <2>2. InHand' = InHand /\ Single(held')
    <3>1. Single(held)
      BY DEF TestInv, Places
    <3>2. Hands(held') = Hands(held) \ {held[w].test} /\ Single(held')
      BY <1>0, <1>1, <3>1, Released
    <3>3. held[w].test = 0
      BY <1>0, <1>1
    <3> QED
      BY <2>1, <3>2, <3>3
  <2>3. /\ InQueue(input)' = InQueue(input) /\ InQueue(output)' = InQueue(output)
        /\ Distinct(input)' = Distinct(input) /\ Distinct(output)' = Distinct(output)
    BY <1>0, <1>1 DEF InQueue, Distinct
  <2>4. Idle \in Jobs /\ ~Idle.break
    <3>1. 0 \in 0..MaxTests /\ 0 \in ReturnCodes
      BY TestAssumption DEF ReturnCodes, TestAssumption
    <3> QED
      BY <3>1 DEF Idle, Job, Jobs
  <2>5. \A v \in Workers : v # w => held'[v] = held[v] /\ workerPc'[v] = workerPc[v]
    BY <1>0, <1>1
  <2>6. held'[w] = Idle /\ workerPc'[w] = "gone"
    BY <1>0, <1>1
  <2>7. TestTyped'
    BY <1>0, <1>1, <2>4 DEF TestInv, TestTyped
  <2>8. Places'
    <3>1. ASSUME NEW v \in Workers
          PROVE  /\ workerPc'[v] \in {"get", "gone"} => held'[v] = Idle
                 /\ workerPc'[v] = "check" => (held'[v].break <=> held'[v].test = 0)
                 /\ workerPc'[v] = "test" => held'[v].test # 0 /\ ~held'[v].break
      BY <2>5, <2>6 DEF TestInv, Places
    <3> QED
      BY <1>0, <1>1, <2>2, <2>3, <3>1 DEF TestInv, Places
  <2>9. Breaks'
    <3>1. InQueue(input) = {} /\ mainPc # "dispatch"
      BY <1>1 DEF TestInv, Breaks
    <3> QED
      BY <1>0, <2>3, <3>1 DEF TestInv, Breaks
  <2>10. Received' = Received /\ \A v : Counted(v)' = Counted(v)
    BY <1>0, <1>1, <2>2, <2>3 DEF Received, Counted
  <2>11. Outcomes'
    BY <1>0, <1>1, <2>2, <2>3, <2>10 DEF TestInv, Outcomes
  <2>12. Main'
    BY <1>0 DEF TestInv, Main
  <2> QED
    BY <2>7, <2>8, <2>9, <2>11, <2>12 DEF TestInv
<1>2. CASE /\ ~held[w].break /\ PutBack(w) /\ UNCHANGED result
           /\ held' = [held EXCEPT ![w] = Idle]
  <2>1. PICK job : job = [held[w] EXCEPT !.break = TRUE]
    OBVIOUS
  <2>2. job \in Jobs /\ job.test = held[w].test /\ job.break
    BY <1>0, <2>1 DEF Jobs
  <2>3. output' = Append(output, job) /\ workerPc' = [workerPc EXCEPT ![w] = "get"]
    BY <1>2, <2>1 DEF PutBack
  <2> QED
    BY <1>0, <1>2, <2>2, <2>3, HandsOn
<1>3. CASE /\ ~held[w].break /\ held[w].skip /\ output' = Append(output, held[w])
           /\ workerPc' = [workerPc EXCEPT ![w] = "get"]
           /\ result' = [result EXCEPT ![held[w].test] = "SKIP"]
           /\ held' = [held EXCEPT ![w] = Idle]
  <2>1. Verdict(held[w]) = "SKIP"
    BY <1>3 DEF Verdict
  <2> QED
    BY <1>0, <1>3, <2>1, HandsOn
<1>4. CASE /\ ~held[w].break /\ workerPc' = [workerPc EXCEPT ![w] = "test"]
           /\ UNCHANGED <<output, result, held>>
  <2>1. /\ InQueue(input)' = InQueue(input) /\ InQueue(output)' = InQueue(output)
        /\ Distinct(input)' = Distinct(input) /\ Distinct(output)' = Distinct(output)
        /\ InHand' = InHand /\ Single(held)' = Single(held)
    BY <1>0, <1>4 DEF InQueue, Distinct, InHand, Single
  <2>2. \A v \in Workers : v # w => workerPc'[v] = workerPc[v]
    BY <1>0, <1>4
  <2>3. workerPc'[w] = "test"
    BY <1>0, <1>4
  <2>4. TestTyped'
    BY <1>0, <1>4 DEF TestInv, TestTyped
  <2>5. Places'
    BY <1>0, <1>4, <2>1, <2>2, <2>3 DEF TestInv, Places
  <2>6. Breaks'
    <3>1. \A v \in Workers : workerPc'[v] = "gone" => workerPc[v] = "gone"
      BY <2>2, <2>3
    <3> QED
      BY <1>0, <1>4, <2>1, <3>1 DEF TestInv, Breaks
  <2>7. Received' = Received /\ \A v : Counted(v)' = Counted(v)
    BY <1>0, <1>4, <2>1 DEF Received, Counted
  <2>8. Outcomes'
    BY <1>0, <1>4, <2>1, <2>7 DEF TestInv, Outcomes
  <2>9. Main'
    BY <1>0 DEF TestInv, Main
  <2> QED
    BY <2>4, <2>5, <2>6, <2>8, <2>9 DEF TestInv
<1> QED
  <2>1. /\ workerPc' = [workerPc EXCEPT ![w] = "gone"] => workerPc'[w] # "test"
        /\ workerPc' = [workerPc EXCEPT ![w] = "get"] => workerPc'[w] # "test"
        /\ workerPc' = [workerPc EXCEPT ![w] = "test"] => workerPc'[w] = "test"
    BY <1>0
  <2>2. PutBack(w) => workerPc' = [workerPc EXCEPT ![w] = "get"]
    BY DEF PutBack
  <2> QED
    BY <1>1, <1>2, <1>3, <1>4, <2>1, <2>2 DEF Check

\* A test was run.
LEMMA TestKeeps ==
  ASSUME TestInv, NEW w \in Workers, Test(w)
  PROVE  TestInv'
<1>0. /\ UNCHANGED <<mainVars, input>> /\ held[w] \in Jobs /\ workerPc[w] = "test"
      /\ held[w].test # 0 /\ ~held[w].break
      /\ workerPc' = [workerPc EXCEPT ![w] = "get"] /\ held' = [held EXCEPT ![w] = Idle]
  BY DEF Test, TestInv, TestTyped, Places
<1>a. PICK rc \in ReturnCodes :
        LET job == [held[w] EXCEPT !.rc = rc]
        IN  /\ output' = Append(output, job)
            /\ result' = [result EXCEPT ![job.test] = Verdict(job)]
  BY DEF Test
<1>1. PICK job :
        /\ job = [held[w] EXCEPT !.rc = rc] /\ output' = Append(output, job)
        /\ result' = [result EXCEPT ![job.test] = Verdict(job)]
  BY <1>a
<1>2. job \in Jobs /\ job.test = held[w].test /\ ~job.break
  BY <1>0, <1>1 DEF Jobs
<1> QED
  BY <1>0, <1>1, <1>2, HandsOn

LEMMA TestStep == TestInv /\ [TestNext]_testVars => TestInv'
<1> SUFFICES ASSUME TestInv, [TestNext]_testVars PROVE TestInv'
  OBVIOUS
<1>1. CASE UNCHANGED testVars
  <2>1. UNCHANGED <<workVars, input, output, jobs, received, tally, mainPc>> /\ Main'
    BY <1>1 DEF testVars, mainVars, TestInv, Main
  <2> QED
    BY <2>1, MainGoesOn
<1>2. CASE Dispatch
  BY <1>2, DispatchKeeps
<1>3. CASE EndDispatch
  BY <1>3, MainGoesOn DEF EndDispatch, Main
<1>4. CASE DispatchBreak
  BY <1>4, DispatchBreakKeeps
<1>5. CASE EndBreak
  BY <1>5, MainGoesOn DEF EndBreak, Main
<1>6. CASE Collect
  BY <1>6, CollectKeeps
<1>7. CASE EndCollect
  BY <1>7, MainGoesOn DEF EndCollect, Main
<1>8. CASE Exit
  <2>1. mainPc = "join" /\ UNCHANGED <<workVars, input, output, jobs, received, tally>>
    BY <1>8 DEF Exit
  <2>2. Main'
    BY <1>8, <2>1 DEF Exit, TestInv, Main
  <2> QED
    BY <1>8, <2>1, <2>2, MainGoesOn DEF Exit
<1>9. CASE Interrupt
  <2>1. UNCHANGED <<workVars, input, output, jobs, received, tally, mainPc>> /\ Main'
    BY <1>9 DEF Interrupt, mainVars, TestInv, Main
  <2> QED
    BY <2>1, MainGoesOn
<1>10. ASSUME NEW w \in Workers, WorkerNext(w)
       PROVE  TestInv'
  BY <1>10, GetKeeps, CheckKeeps, TestKeeps DEF WorkerNext
<1> QED
  BY <1>1, <1>2, <1>3, <1>4, <1>5, <1>6, <1>7, <1>8, <1>9, <1>10 DEF TestNext, MainNext

LEMMA TestAlways == TestSpec => []TestInv
<1> QED
  BY TestStarts, TestStep, PTL DEF TestSpec

----------------------------------------------------------------------------
(* What follows of it.                                                     *)

\* The tests in the queues and in the hands of the workers are finitely many.
LEMMA FinitelyMany ==
  ASSUME TestInv
  PROVE  /\ IsFiniteSet(1..jobs) /\ Cardinality(1..jobs) = jobs
         /\ IsFiniteSet(InQueue(input)) /\ IsFiniteSet(InHand)
         /\ IsFiniteSet(InQueue(output)) /\ IsFiniteSet(Received)
<1>1. jobs \in Nat
  BY TestAssumption DEF TestInv, TestTyped, TestAssumption
<1>2. IsFiniteSet(1..jobs) /\ Cardinality(1..jobs) = jobs
  BY <1>1, FS_Interval
<1>3. /\ InQueue(input) \subseteq 1..jobs /\ InHand \subseteq 1..jobs
      /\ InQueue(output) \subseteq 1..jobs /\ Received \subseteq 1..jobs
  BY DEF TestInv, Places, Received
<1> QED
  BY <1>2, <1>3, FS_Subset

\* Sets with nothing in common add up.
LEMMA DisjointUnion ==
  ASSUME NEW S, IsFiniteSet(S), NEW T, IsFiniteSet(T), S \cap T = {}
  PROVE  IsFiniteSet(S \cup T) /\ Cardinality(S \cup T) = Cardinality(S) + Cardinality(T)
<1>1. IsFiniteSet(S \cup T)
  BY FS_Union
<1>2. Cardinality(S \cup T) = Cardinality(S) + Cardinality(T) - Cardinality(S \cap T)
  BY FS_Union
<1>3. Cardinality(S \cap T) = 0
  BY FS_EmptySet
<1>4. Cardinality(S) \in Nat /\ Cardinality(T) \in Nat
  BY FS_CardinalityType
<1> QED
  BY <1>1, <1>2, <1>3, <1>4

\* No job is forgotten or done twice, and a worker that has stopped has left
\* none behind (worker_thread.run, run_tests of test.py).
THEOREM EveryJobIsKept == TestSpec => []JobsKept
<1>1. ASSUME TestInv
      PROVE  JobsKept
  <2> DEFINE A == InQueue(input)
             B == InHand
             C == InQueue(output)
             D == Received
  <2>1. /\ IsFiniteSet(A) /\ IsFiniteSet(B) /\ IsFiniteSet(C) /\ IsFiniteSet(D)
        /\ Cardinality(1..jobs) = jobs
    BY <1>1, FinitelyMany
  <2>2. A \cap B = {} /\ A \cap C = {} /\ B \cap C = {} /\ received = Cardinality(D)
    BY <1>1 DEF TestInv, Places, Outcomes
  <2>3. (A \cup B \cup C) \cap D = {} /\ (A \cup B \cup C) \cup D = 1..jobs
    BY <1>1 DEF TestInv, Places, Received
  <2>4. (\E w \in Workers : workerPc[w] = "gone") => A = {}
    BY <1>1 DEF TestInv, Breaks
  <2> HIDE DEF A, B, C, D
  <2>5. IsFiniteSet(A \cup B) /\ Cardinality(A \cup B) = Cardinality(A) + Cardinality(B)
    BY <2>1, <2>2, DisjointUnion
  <2>6. (A \cup B) \cap C = {}
    BY <2>2
  <2>7. PICK U, V : U = A \cup B /\ V = U \cup C
    OBVIOUS
  <2>8. IsFiniteSet(V) /\ Cardinality(V) = Cardinality(U) + Cardinality(C)
    BY <2>1, <2>5, <2>6, <2>7, DisjointUnion
  <2>9. V \cap D = {} /\ V \cup D = 1..jobs
    BY <2>3, <2>7
  <2>10. Cardinality(V \cup D) = Cardinality(V) + Cardinality(D)
    BY <2>1, <2>8, <2>9, DisjointUnion
  <2>11. jobs = Cardinality(V) + Cardinality(D)
    BY <2>1, <2>9, <2>10
  <2>12. /\ Cardinality(A) + Cardinality(B) + Cardinality(C) + received = jobs
        /\ Cardinality(A \cup B \cup C) + received = jobs
    BY <2>2, <2>5, <2>7, <2>8, <2>11
  <2> QED
    BY <2>4, <2>12 DEF JobsKept, A, B, C
<1> QED
  BY <1>1, TestAlways, PTL

\* test.py returns 0 if and only if every test was run and passed or was to be
\* skipped, whatever was interrupted and whenever (the summary of run_tests).
THEOREM ExitCodeIsHonest == TestSpec => []ExitHonest
<1>1. ASSUME TestInv
      PROVE  ExitHonest
  <2> SUFFICES ASSUME mainPc = "exited"
               PROVE  exitCode = 0 <=> \A t \in 1..jobs : result[t] \in {"PASS", "SKIP"}
    BY DEF ExitHonest
  <2>1. /\ IsFiniteSet(1..jobs) /\ Cardinality(1..jobs) = jobs /\ Received \subseteq 1..jobs
        /\ Cardinality(Received) = jobs
    BY <1>1, FinitelyMany DEF Received, TestInv, Main, Outcomes
  <2>2. Received = 1..jobs
    BY <2>1, FS_Subset
  <2> DEFINE P == Counted("PASS")
             S == Counted("SKIP")
  <2>3. tally["PASS"] = Cardinality(P) /\ tally["SKIP"] = Cardinality(S)
    BY <1>1 DEF TestInv, Outcomes, Verdicts
  <2>4. /\ P \cap S = {} /\ P \cup S \subseteq 1..jobs
        /\ P \cup S = 1..jobs <=> \A t \in 1..jobs : result[t] \in {"PASS", "SKIP"}
    BY <2>2 DEF Counted
  <2> HIDE DEF P, S
  <2>5. IsFiniteSet(P) /\ IsFiniteSet(S)
    BY <2>1, <2>4, FS_Subset
  <2>6. Cardinality(P \cup S) = Cardinality(P) + Cardinality(S)
    <3>1. Cardinality(P \cup S) = Cardinality(P) + Cardinality(S) - Cardinality({})
      BY <2>4, <2>5, FS_Union
    <3> QED
      BY <2>5, <3>1, FS_EmptySet, FS_CardinalityType
  <2>7. Cardinality(P \cup S) = jobs <=> P \cup S = 1..jobs
    BY <2>1, <2>4, FS_Subset
  <2>8. exitCode = IF tally["PASS"] + tally["SKIP"] = jobs THEN 0 ELSE 1
    BY <1>1 DEF TestInv, Main
  <2> QED
    BY <2>3, <2>4, <2>6, <2>7, <2>8
<1> QED
  BY <1>1, TestAlways, PTL

----------------------------------------------------------------------------
(* The play button of the visualizer.                                      *)

\* While the play button is active there is a timer and _update_timeout_id names
\* it, wherever the button is pressed and released, the speed changed, and calls
\* of update_view_timeout return: in the loop of gtk.main or in the one inside of
\* a call (_on_play_button_toggled, _speed_changed, _start_update_timer,
\* update_view_timeout and _quit of core.py).
THEOREM PlayingIsTimed == VizSpec => []PlayHasTimer
<1>1. VizInit => PlayHasTimer
  BY DEF VizInit, PlayHasTimer
<1>2. ASSUME PlayHasTimer, [VizNext]_vizVars
      PROVE  PlayHasTimer'
  <2>1. CASE UNCHANGED <<play, timers, timerId, window>>
    BY <1>2, <2>1 DEF PlayHasTimer
  <2>2. CASE UNCHANGED vizVars
    BY <2>1, <2>2 DEF vizVars, viewVars
  <2>3. CASE SimNext
    BY <2>1, <2>3 DEF SimNext, LoopHead, Wait, Clear, QuitOrGo, Acquire, RunUntil, viewVars
  <2>4. CASE \E t \in timers : TimerFires(t)
    BY <2>1, <2>4 DEF TimerFires
  <2>5. CASE TryLock \/ NoneLeft \/ UpdateView
    BY <2>1, <2>5 DEF TryLock, NoneLeft, UpdateView
  <2>6. StartUpdateTimer => timerId' \in timers'
    BY DEF StartUpdateTimer
  <2>7. ASSUME NEW on \in BOOLEAN, Toggled(on)
        PROVE  PlayHasTimer'
    BY <2>6, <2>7 DEF Toggled, PlayHasTimer
  <2>8. CASE Pause
    BY <2>1, <2>7, <2>8 DEF Pause
  <2>9. CASE ReturnFromTimeout
    BY <1>2, <2>9 DEF ReturnFromTimeout, ReturnTrue, ReturnFalse, PlayHasTimer
  <2>10. CASE PlayButton
    BY <2>6, <2>10 DEF PlayButton, Toggled, PlayHasTimer
  <2>11. CASE SpeedChanged
    BY <2>6, <2>11 DEF SpeedChanged, PlayHasTimer
  <2>12. CASE Close
    BY <2>12 DEF Close, PlayHasTimer
  <2>13. CASE TellToQuit
    BY <1>2, <2>13 DEF TellToQuit, ToldFirst, PlayHasTimer, viewVars
  <2>14. CASE Join
    BY <2>14 DEF Join, PlayHasTimer
  <2> QED
    BY <1>2, <2>2, <2>3, <2>4, <2>5, <2>8, <2>9, <2>10, <2>11, <2>12, <2>13, <2>14
    DEF VizNext, ViewNext
<1> QED
  BY <1>1, <1>2, PTL DEF VizSpec

=============================================================================
