----------------------------- MODULE Visualizer -----------------------------
(***************************************************************************)
(* The two threads of the visualizer.  The main one runs the GTK loop:     *)
(* update_view_timeout, the play button, the close of the window.  The     *)
(* other one, SimulationThread, runs the simulation for a sample period    *)
(* whenever it is told to go.                                              *)
(*                                                                         *)
(* While the simulation runs, update_view_timeout dispatches events of the *)
(* GTK loop itself, so the play button, the speed and the close button act *)
(* inside of it, and so does a timer started meanwhile.  What is shown,    *)
(* simulation time, and calls that hold the lock for a look at the model   *)
(* are left out.                                                           *)
(***************************************************************************)
EXTENDS Integers, Sequences, SequencesExt

CONSTANTS
  MaxCalls,   \* model bound on update_view_timeout calls inside each other
  MaxTimers,  \* model bound on the timers that live at a time
  NoTimer     \* _update_timeout_id = None

ASSUME VisualizerAssumption ==
  MaxCalls \in Nat \ {0} /\ MaxTimers \in Nat \ {0} /\ NoTimer \notin Nat

VARIABLES
  lock,      \* who holds simulation.lock: "free", "view", "sim"
  go,        \* simulation.go is set
  quit,      \* simulation.quit
  simPc,     \* SimulationThread: "head", "wait", "clear", "quit?", "acquire",
             \* "run", "done"
  messages,  \* simulation.pause_messages is not empty
  play,      \* the play button is active
  timers,    \* the timers of the GTK loop
  timerId,   \* _update_timeout_id
  calls,     \* calls of update_view_timeout, the innermost last:
             \* [timer, pc, paused]
  window     \* "open"; in _quit "quit", "go", "join"; "closed" after it

viewVars == <<play, timers, timerId, calls>>
vizVars == <<lock, go, quit, simPc, messages, viewVars, window>>

\* create_gui ends with a call of _speed_changed, so a timer waits for the loop
\* to start although the play button is released.
VizInit ==
  /\ lock = "free" /\ go = FALSE /\ quit = FALSE /\ messages = FALSE
  /\ simPc = "head"
  /\ play = FALSE /\ timers = {1} /\ timerId = 1 /\ calls = <<>>
  /\ window = "open"

----------------------------------------------------------------------------
(* SimulationThread.run.                                                   *)

SimStep(from, to) == simPc = from /\ simPc' = to

LoopHead ==
  /\ SimStep("head", IF quit THEN "done" ELSE "wait")
  /\ UNCHANGED <<lock, go, quit, messages, viewVars, window>>

Wait ==
  /\ go /\ SimStep("wait", "clear")
  /\ UNCHANGED <<lock, go, quit, messages, viewVars, window>>

Clear ==
  /\ SimStep("clear", "quit?") /\ go' = FALSE
  /\ UNCHANGED <<lock, quit, messages, viewVars, window>>

QuitOrGo ==
  /\ SimStep("quit?", IF quit THEN "done" ELSE "acquire")
  /\ UNCHANGED <<lock, go, quit, messages, viewVars, window>>

Acquire ==
  /\ lock = "free" /\ lock' = "sim" /\ SimStep("acquire", "run")
  /\ UNCHANGED <<go, quit, messages, viewVars, window>>

\* The simulation reaches target_time; a model may have left a pause message.
RunUntil ==
  /\ SimStep("run", "head") /\ lock' = "free"
  /\ messages' \in {messages, TRUE}
  /\ UNCHANGED <<go, quit, viewVars, window>>

SimNext ==
  LoopHead \/ Wait \/ Clear \/ QuitOrGo \/ Acquire \/ RunUntil

----------------------------------------------------------------------------
(* The GTK loop, or the one inside of update_view_timeout.                 *)

Quitting == window \in {"quit", "go", "join"}

\* The loop is free to dispatch an event: the one of gtk.main, which _quit ends,
\* or that of a call that waits for the lock.
Dispatching ==
  /\ ~Quitting
  /\ IF calls = <<>> THEN window = "open" ELSE Last(calls).pc = "nested"

Call(pc) == ~Quitting /\ calls # <<>> /\ Last(calls).pc = pc
CallStep(pc) == calls' = [calls EXCEPT ![Len(calls)].pc = pc]

\* GLib does not dispatch a source inside of itself.
TimerFires(t) ==
  /\ Dispatching /\ Len(calls) < MaxCalls
  /\ t \in timers /\ \A k \in DOMAIN calls : calls[k].timer # t
  /\ calls' = Append(calls, [timer |-> t, pc |-> "try", paused |-> FALSE])
  /\ UNCHANGED <<lock, go, quit, simPc, messages, play, timers, timerId, window>>

\* A number no source has: GLib gives none twice.
NewTimer ==
  CHOOSE t \in 1..(MaxTimers + MaxCalls + 1) :
    /\ t \notin timers \cup {timerId}
    /\ \A k \in DOMAIN calls : calls[k].timer # t

\* _start_update_timer.  source_remove of a timer that is gone does nothing; a
\* timer removed while it is dispatched does not return.
\* Mutant: no timer is started while _update_timeout_id names one.
StartIfNone ==
  IF timerId # NoTimer THEN UNCHANGED <<timers, timerId>>
  ELSE timers' = timers \cup {NewTimer} /\ timerId' = NewTimer
StartUpdateTimer ==
  /\ Cardinality(timers \ {timerId}) < MaxTimers
  /\ timers' = (timers \ {timerId}) \cup {NewTimer}
  /\ timerId' = NewTimer

\* _on_play_button_toggled: _update_timeout_id goes on naming the removed timer.
Toggled(on) ==
  /\ play' = on
  /\ IF on THEN StartUpdateTimer
     ELSE timers' = timers \ {timerId} /\ UNCHANGED timerId

PlayButton ==
  /\ Dispatching /\ window = "open"
  /\ Toggled(~play)
  /\ UNCHANGED <<lock, go, quit, simPc, messages, calls, window>>

\* _speed_changed: a timer of the new period, whether the button is active or not.
SpeedChanged ==
  /\ Dispatching /\ window = "open"
  /\ StartUpdateTimer
  /\ UNCHANGED <<lock, go, quit, simPc, messages, play, calls, window>>

----------------------------------------------------------------------------
(* update_view_timeout.                                                    *)

TryLock ==
  /\ Call("try")
  /\ IF lock = "free" THEN lock' = "view" /\ CallStep("view")
     ELSE CallStep("nested") /\ UNCHANGED lock
  /\ UNCHANGED <<go, quit, simPc, messages, play, timers, timerId, window>>

NoneLeft ==
  /\ Call("nested") /\ CallStep("try")
  /\ UNCHANGED <<lock, go, quit, simPc, messages, play, timers, timerId, window>>

\* update_view and the next target_time, with the lock held.
UpdateView ==
  /\ Call("view")
  /\ calls' = [calls EXCEPT ![Len(calls)] = [@ EXCEPT !.pc = "return", !.paused = messages]]
  /\ messages' = FALSE /\ lock' = "free"
  /\ UNCHANGED <<go, quit, simPc, play, timers, timerId, window>>

\* The dialog pops up and the play button is released; then the timer goes on,
\* or not, as the button says.
Pause ==
  /\ Call("return") /\ Last(calls).paused
  /\ calls' = [calls EXCEPT ![Len(calls)].paused = FALSE]
  /\ IF play THEN Toggled(FALSE) ELSE UNCHANGED <<play, timers, timerId>>
  /\ UNCHANGED <<lock, go, quit, simPc, messages, window>>

\* Mutants: the simulation is not told to go on when its timer goes on; the
\* timer goes on while the button is released.
ReturnTrueOnly == play /\ UNCHANGED <<go, timers, timerId>>
ReturnTrue == play /\ go' = TRUE /\ UNCHANGED <<timers, timerId>>

ReturnTrueAnyway == ~play /\ UNCHANGED <<go, timers, timerId>>
ReturnFalse ==
  /\ ~play /\ timerId' = NoTimer
  /\ timers' = timers \ {Last(calls).timer}
  /\ UNCHANGED go

ReturnFromTimeout ==
  /\ Call("return") /\ ~Last(calls).paused
  /\ ReturnTrue \/ ReturnFalse
  /\ calls' = Front(calls)
  /\ UNCHANGED <<lock, quit, simPc, messages, play, window>>

----------------------------------------------------------------------------
(* _quit, called when the window is closed: wherever the loop dispatches it *)
(* it waits for the simulation thread.                                     *)

Close ==
  /\ Dispatching /\ window = "open" /\ window' = "quit"
  /\ timers' = timers \ {timerId} /\ timerId' = NoTimer
  /\ UNCHANGED <<lock, go, quit, simPc, messages, play, calls>>

\* Mutant: the thread is woken up before it is told to quit.
WokenFirst ==
  \/ window = "quit" /\ window' = "go" /\ go' = TRUE /\ UNCHANGED quit
  \/ window = "go" /\ window' = "join" /\ quit' = TRUE /\ UNCHANGED go
ToldFirst ==
  \/ window = "quit" /\ window' = "go" /\ quit' = TRUE /\ UNCHANGED go
  \/ window = "go" /\ window' = "join" /\ go' = TRUE /\ UNCHANGED quit

TellToQuit ==
  /\ ToldFirst
  /\ UNCHANGED <<lock, simPc, messages, viewVars>>

Join ==
  /\ window = "join" /\ simPc = "done" /\ window' = "closed"
  /\ UNCHANGED <<lock, go, quit, simPc, messages, viewVars>>

\* What the main thread does without anybody touching the window.
ViewNext ==
  \/ \E t \in timers : TimerFires(t)
  \/ TryLock \/ NoneLeft \/ UpdateView \/ Pause \/ ReturnFromTimeout
  \/ TellToQuit \/ Join
VizNext == SimNext \/ ViewNext \/ PlayButton \/ SpeedChanged \/ Close

VizSpec == VizInit /\ [][VizNext]_vizVars

----------------------------------------------------------------------------
(* Properties.                                                             *)

\* While the play button is active a timer is there to call update_view_timeout,
\* and _update_timeout_id names it, so that releasing the button stops it: however
\* button, speed and returning calls follow each other, also inside of a call, and
\* although _update_timeout_id often names a timer that is gone.
PlayHasTimer ==
  play /\ window = "open" => timerId \in timers

\* While the button is active the simulation is run again and again.
RunsAgain ==
  play /\ window = "open" ~> simPc = "run" \/ ~play \/ window # "open"

\* Closing the window ends both threads, whatever they were doing: _quit returns,
\* and so do the calls of update_view_timeout it was called inside of.
QuitEnds ==
  window = "quit" ~> window = "closed" /\ simPc = "done" /\ calls = <<>>
============================================================================
