------------------------------ MODULE MCTools ------------------------------
(***************************************************************************)
(* The two Python tools around the simulator, test.py and the visualizer:  *)
(* a behaviour is one of either.                                           *)
(***************************************************************************)
EXTENDS TestRunner, Visualizer

VARIABLE tool  \* which of them runs

MCInit == TestInit /\ VizInit /\ tool \in {"test.py", "visualizer"}

Testing(A) == tool = "test.py" /\ A /\ UNCHANGED <<tool, vizVars>>
Viewing(A) == tool = "visualizer" /\ A /\ UNCHANGED <<tool, testVars>>

MCNext == Testing(TestNext) \/ Viewing(VizNext)

(* Threads are scheduled fairly and every test ends.  Between two calls of *)
(* its timer the view leaves the lock for a sample period to a thread that *)
(* waits for it, and the loop inside of a call runs out of pending events, *)
(* since a timer is due once in a sample period.  Ctrl-C and what the user *)
(* of the window does are not awaited.                                     *)
MCFairness ==
  LET mcVars == <<tool, testVars, vizVars>>
  IN  /\ WF_mcVars(Testing(MainNext))
      /\ \A w \in Workers : WF_mcVars(Testing(WorkerNext(w)))
      /\ WF_mcVars(Viewing(SimNext)) /\ SF_mcVars(Viewing(Acquire))
      /\ WF_mcVars(Viewing(ViewNext)) /\ SF_mcVars(Viewing(NoneLeft))

MCSpec == MCInit /\ [][MCNext]_<<tool, testVars, vizVars>> /\ MCFairness

\* Once nobody changes the speed any more, a view whose button is released comes
\* to rest: the timers _update_timeout_id has lost end by themselves.
PausedViewRests ==
  <>[][~SpeedChanged]_vizVars =>
    (tool = "visualizer" /\ ~play /\ window = "open"
       ~> timers = {} \/ play \/ window # "open")

\* test.py ends.
Terminates == tool = "test.py" ~> Ended
============================================================================
