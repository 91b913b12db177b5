-------------------------------- MODULE Main --------------------------------
(***************************************************************************)
(* main of main.cpp: it installs two signal handlers, constructs the       *)
(* Terminal, which takes the tty over, runs frame after frame until the    *)
(* user interrupts it, and gives the tty back in Terminal's destructor.    *)
(* Interrupts come at any moment.  What a tick does is in the modules      *)
(* KeyInput, Game and Terminal; here it takes time, and may crash.         *)
(***************************************************************************)
EXTENDS Timing

CONSTANTS
  Late,                \* how much longer than it should a sleep may last
  Work,                \* how long a tick may take
  MaxFrames            \* bound on the frames

ASSUME MainAssumption == Late \subseteq Nat /\ Work \subseteq Nat /\ MaxFrames \in Nat

VARIABLES
  pc,                  \* where main is
  g_done,              \* an interrupt was caught
  view,                \* the terminal's screen and whether it shows the cursor
  lflag,               \* the tty's local modes
  overrun              \* history: the ticks begun after g_done was set

ttyVars == <<view, lflag>>

mainVars == <<timingVars, pc, g_done, ttyVars, overrun>>

Shell == [screen |-> "normal", cursor |-> TRUE]

Modes == {"ICANON", "ECHO"}

(* The shell left the tty in its usual modes.                              *)
Init ==
  /\ TimingInit
  /\ pc = "begin" /\ g_done = FALSE /\ overrun = 0
  /\ view = Shell /\ lflag = Modes

-----------------------------------------------------------------------------
(* The signals.  Before its handler is installed an interrupt kills the    *)
(* program; the other handler ends it by exit(1), which runs no destructor *)
(* of main's variables.                                                    *)
Ended == {"exited", "killed", "crashed"}

SigintDefault ==
  /\ pc = "begin"
  /\ pc' = "killed"
  /\ UNCHANGED <<timingVars, g_done, ttyVars, overrun>>

sigintHandler ==
  /\ pc \notin Ended \cup {"begin"}
  /\ g_done' = TRUE
  /\ UNCHANGED <<timingVars, pc, ttyVars, overrun>>

segfaultHandler ==
  /\ pc \in {"world", "tick"}
  /\ pc' = "crashed"
  /\ UNCHANGED <<timingVars, g_done, ttyVars, overrun>>

-----------------------------------------------------------------------------
(* main, step by step.  initTerminal prints its codes, then sets the modes.*)
InstallHandlers ==
  /\ pc = "begin"
  /\ pc' = "world"
  /\ UNCHANGED <<timingVars, g_done, ttyVars, overrun>>

(* Terminal's member io is constructed first, and with it the world.       *)
MakeWorld ==
  /\ pc = "world"
  /\ pc' = "enter"
  /\ UNCHANGED <<timingVars, g_done, ttyVars, overrun>>

EnterScreen ==
  /\ pc = "enter"
  /\ view' = [screen |-> "alternate", cursor |-> FALSE]
  /\ pc' = "raw"
  /\ UNCHANGED <<timingVars, g_done, lflag, overrun>>

EnterRaw ==
  /\ pc = "raw"
  /\ lflag' = lflag \ Modes
  /\ pc' = "loop"
  /\ UNCHANGED <<timingVars, g_done, view, overrun>>

GoesOnWithinRing == ~g_done \/ Slot # 0

GoesOnOnceStarted == ~g_done \/ index > 0

GoesOn == ~g_done

(* The loop's test, stats and block.                                       *)
Iterate(late) ==
  /\ pc = "loop"
  /\ GoesOn
  /\ index < MaxFrames
  /\ block(late)
  /\ pc' = "start"
  /\ UNCHANGED <<g_done, ttyVars, overrun>>

StartFrame ==
  /\ pc = "start"
  /\ start
  /\ pc' = "tick"
  /\ overrun' = IF g_done THEN overrun + 1 ELSE overrun
  /\ UNCHANGED <<g_done, ttyVars>>

EndFrame(work) ==
  /\ pc = "tick"
  /\ end(work)
  /\ pc' = "loop"
  /\ UNCHANGED <<g_done, ttyVars, overrun>>

LeaveScreen ==
  /\ pc = "loop"
  /\ ~GoesOn
  /\ view' = Shell
  /\ pc' = "cooked"
  /\ UNCHANGED <<timingVars, g_done, lflag, overrun>>

RestoreNothing == lflag

RestoredModes == lflag \cup Modes

LeaveRaw ==
  /\ pc = "cooked"
  /\ lflag' = RestoredModes
  /\ pc' = "exited"
  /\ UNCHANGED <<timingVars, g_done, view, overrun>>

Rest == pc \in Ended /\ UNCHANGED mainVars

Run ==
  \/ InstallHandlers \/ MakeWorld \/ EnterScreen \/ EnterRaw
  \/ \E late \in Late : Iterate(late)
  \/ StartFrame
  \/ \E work \in Work : EndFrame(work)
  \/ LeaveScreen \/ LeaveRaw

Next == Run \/ SigintDefault \/ sigintHandler \/ segfaultHandler \/ Rest

Spec == Init /\ [][Next]_mainVars

(* main is scheduled; nobody has to interrupt it.                          *)
FairSpec == Spec /\ WF_mainVars(Run)

-----------------------------------------------------------------------------
(* used is the time spent in the frames of the ring, although it is kept   *)
(* by subtracting the frame that leaves and adding the one that comes      *)
(* (main.cpp:217, 224); during a tick its frame is in neither.  So the     *)
(* unsigned subtraction never wraps.                                       *)
UsedMatchesRing == UsedBut(IF pc \in {"tick", "crashed"} THEN {Slot} ELSE {})

(* The CPU percentage stats gives is never above 100: what the ring's      *)
(* frames used fits in the time it spans, whatever the ticks took and      *)
(* however late the sleeps ended, from the first frame on.                 *)
LoadIsAtMostFull == pc = "loop" => used <= Total

(* Two frames never start closer than kNanosMinDelay, also after a stall,  *)
(* when block's delay is cut to kNanosPerFrame (main.cpp:202).             *)
FramesSpaced ==
  [][pc = "start" /\ pc' = "tick" =>
       frames'[Slot].first >= frames[Newest].first + kNanosMinDelay]_mainVars

(* Whenever main returns, and when it was killed before it began, the tty  *)
(* is as the shell had it: wherever interrupts came, in the constructor or *)
(* the destructor too.                                                     *)
GivesTheTtyBack == pc \in {"exited", "killed"} => view = Shell /\ lflag = Modes

(* After an interrupt at most one more tick begins.                        *)
StopsPromptly == overrun <= 1

(* An interrupt that was caught ends the program.                          *)
InterruptEnds == g_done ~> pc \in Ended
=============================================================================
