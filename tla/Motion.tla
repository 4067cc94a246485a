------------------------------- MODULE Motion -------------------------------
(***************************************************************************)
(* Motion detection (Motion.cpp): a thread gets one result per picture     *)
(* from the SDK, tells a script when motion starts and when it stops, and  *)
(* main stops the thread and starts it again, on the same object.  The     *)
(* calls that make and undo the SDK's objects are left out; initialisation *)
(* may fail.                                                               *)
(*                                                                         *)
(* Instants are kept as ages, in seconds and no further than matters.      *)
(***************************************************************************)
EXTENDS Integers

CONSTANTS
  Regions,        \* IMP_IVS_MOVE_MAX_ROI_CNT
  debounce_time, min_time, post_time, cooldown_time, init_time,
  MaxStarts,      \* bound on the times main starts the thread again
  MaxHeld         \* bound on the results counted in held

Settings == {debounce_time, min_time, post_time, cooldown_time, init_time}

ASSUME MotionAssumption ==
  /\ Regions \in Nat \ {0} /\ MaxStarts \in Nat /\ MaxHeld \in Nat \ {0}
  /\ Settings \subseteq Nat

VARIABLES
  thread,     \* "off", "born", "loop", "starting", "stopping" (a script runs), "release"
  signal,     \* global_motion_thread_signal
  scene,      \* regions in which something moves
  ignoreInitialPeriod,
  moving, indicator,
  debounce,   \* no further than debounce_time
  isInCooldown,
  age,        \* since startTime, motionEndTime and cooldownEndTime
  held,       \* results got from the SDK and not released
  recording,  \* history: calls of the script to start, less those to stop
  starts

settings == << signal, scene, starts >>
vars == << thread, settings, ignoreInitialPeriod, moving, indicator, debounce,
           isInCooldown, age, held, recording >>

Least(a, b) == IF a < b THEN a ELSE b
Longest == CHOOSE t \in Settings : \A u \in Settings : u <= t

Init ==
  /\ thread = "off" /\ signal = FALSE /\ scene = 0 /\ starts = 0
  /\ ignoreInitialPeriod = TRUE
  /\ moving = FALSE /\ indicator = FALSE /\ debounce = 0 /\ isInCooldown = FALSE
  /\ age = [start |-> 0, motion |-> 0, cooldown |-> 0]
  /\ held = 0 /\ recording = 0

Turn(from, to) == thread = from /\ thread' = to

-----------------------------------------------------------------------------
(* The thread.                                                             *)

(* What detect starts with is its own, but for moving and the initial      *)
(* period, which outlive it.                                               *)
InitSucceeds ==
  /\ Turn("born", "loop") /\ signal' = TRUE
  /\ debounce' = 0 /\ isInCooldown' = FALSE
  /\ age' = [start |-> 0, motion |-> 0, cooldown |-> 0]
  /\ UNCHANGED << scene, starts, ignoreInitialPeriod, moving, indicator, held,
                  recording >>

InitFails ==
  /\ Turn("born", "off")
  /\ UNCHANGED << settings, ignoreInitialPeriod, moving, indicator, debounce,
                  isInCooldown, age, held, recording >>

End ==
  /\ ~signal /\ Turn("loop", "off")
  /\ UNCHANGED << settings, ignoreInitialPeriod, moving, indicator, debounce,
                  isInCooldown, age, held, recording >>

TooEarly  == ignoreInitialPeriod /\ age.start < init_time
CoolsDown == isInCooldown /\ age.cooldown < cooldown_time
GotOne    == held' = Least(held + 1, MaxHeld)

(* A result of the initial period or of the cooldown: the loop goes on,    *)
(* and the result is not released.                                         *)
Discard ==
  /\ signal /\ thread = "loop" /\ (TooEarly \/ CoolsDown) /\ GotOne
  /\ ignoreInitialPeriod' = TooEarly
  /\ UNCHANGED << thread, settings, moving, indicator, debounce, isInCooldown,
                  age, recording >>

Considers(to) ==
  /\ signal /\ Turn("loop", to) /\ ~TooEarly /\ ~CoolsDown /\ GotOne
  /\ ignoreInitialPeriod' = FALSE /\ isInCooldown' = FALSE

Debounced == debounce + scene >= debounce_time

MutantStartMotion ==
  /\ scene > 0 /\ Debounced /\ Considers("starting")
  /\ debounce' = debounce_time /\ moving' = TRUE /\ recording' = recording + 1
  /\ UNCHANGED << settings, indicator, age >>

(* Enough regions in a row: every active region of a picture counts.       *)
StartMotion ==
  /\ scene > 0 /\ Debounced /\ ~moving /\ Considers("starting")
  /\ debounce' = debounce_time /\ moving' = TRUE /\ recording' = recording + 1
  /\ UNCHANGED << settings, indicator, age >>

(* The script has run; the last motion is of now.                          *)
Started ==
  /\ Turn("starting", "release") /\ indicator' = TRUE /\ age' = [age EXCEPT !.motion = 0]
  /\ UNCHANGED << settings, ignoreInitialPeriod, moving, debounce, isInCooldown,
                  held, recording >>

GoOnMoving ==
  /\ scene > 0 /\ Debounced /\ moving /\ Considers("release")
  /\ debounce' = debounce_time /\ indicator' = TRUE /\ age' = [age EXCEPT !.motion = 0]
  /\ UNCHANGED << settings, moving, recording >>

Debounce ==
  /\ scene > 0 /\ ~Debounced /\ Considers("release")
  /\ debounce' = debounce + scene
  /\ UNCHANGED << settings, moving, indicator, age, recording >>

IsOver == moving /\ age.motion >= min_time /\ age.motion >= post_time

MutantRest ==
  /\ scene = 0 /\ ~IsOver /\ Considers("release") /\ debounce' = 0
  /\ age' = [age EXCEPT !.motion = 0]
  /\ UNCHANGED << settings, moving, indicator, recording >>

Rest ==
  /\ scene = 0 /\ ~IsOver /\ Considers("release") /\ debounce' = 0
  /\ UNCHANGED << settings, moving, indicator, age, recording >>

StopMotion ==
  /\ scene = 0 /\ IsOver /\ Considers("stopping") /\ debounce' = 0
  /\ recording' = recording - 1
  /\ UNCHANGED << settings, moving, indicator, age >>

Stopped ==
  /\ Turn("stopping", "release") /\ moving' = FALSE /\ indicator' = FALSE
  /\ isInCooldown' = TRUE /\ age' = [age EXCEPT !.cooldown = 0]
  /\ UNCHANGED << settings, ignoreInitialPeriod, debounce, held, recording >>

Release ==
  /\ Turn("release", "loop") /\ held' = held - 1
  /\ UNCHANGED << settings, ignoreInitialPeriod, moving, indicator, debounce,
                  isInCooldown, age, recording >>

-----------------------------------------------------------------------------
(* Main, the scene and time.                                               *)

Start ==
  /\ Turn("off", "born") /\ ~signal /\ starts < MaxStarts /\ starts' = starts + 1
  /\ UNCHANGED << signal, scene, ignoreInitialPeriod, moving, indicator, debounce,
                  isInCooldown, age, held, recording >>

(* A thread that is in its loop is told to stop, and joined.               *)
TellToStop ==
  /\ signal /\ signal' = FALSE
  /\ UNCHANGED << thread, scene, starts, ignoreInitialPeriod, moving, indicator,
                  debounce, isInCooldown, age, held, recording >>

Changes ==
  /\ scene' \in 0 .. Regions /\ scene' # scene
  /\ UNCHANGED << thread, signal, starts, ignoreInitialPeriod, moving, indicator,
                  debounce, isInCooldown, age, held, recording >>

Tick ==
  /\ thread # "off"
  /\ age' = [x \in DOMAIN age |-> Least(age[x] + 1, Longest)] /\ age' # age
  /\ UNCHANGED << thread, settings, ignoreInitialPeriod, moving, indicator, debounce,
                  isInCooldown, held, recording >>

-----------------------------------------------------------------------------
Judge ==
  \/ Discard \/ StartMotion \/ GoOnMoving \/ Debounce \/ Rest \/ StopMotion

ThreadStep == InitSucceeds \/ InitFails \/ End \/ Judge \/ Started \/ Stopped \/ Release

Next == ThreadStep \/ Start \/ TellToStop \/ Changes \/ Tick

Spec == Init /\ [][Next]_vars

(* Pictures come, scripts end, and time passes.                            *)
FairSpec == Spec /\ WF_vars(ThreadStep) /\ WF_vars(Tick)

-----------------------------------------------------------------------------
(* Properties.                                                             *)

(* The fields keep their types.                                            *)
TypeOK ==
  /\ thread \in {"off", "born", "loop", "starting", "stopping", "release"}
  /\ signal \in BOOLEAN /\ ignoreInitialPeriod \in BOOLEAN /\ moving \in BOOLEAN
  /\ indicator \in BOOLEAN /\ isInCooldown \in BOOLEAN
  /\ scene \in 0 .. Regions /\ starts \in 0 .. MaxStarts
  /\ debounce \in 0 .. debounce_time
  /\ age \in [{"start", "motion", "cooldown"} -> 0 .. Longest]
  /\ held \in 0 .. MaxHeld

(* The script is told to start and to stop by turns, over any restart of   *)
(* the thread, and what it was told last is what moving says.              *)
ScriptFollowsMotion ==
  /\ recording \in {0, 1}
  /\ thread # "stopping" => (recording = 1 <=> moving)
  /\ thread \notin {"starting", "stopping"} => (indicator <=> moving)

(* When the scene is quiet the script is told so in the end, whatever      *)
(* happened before: motion that began just before a restart is ended by    *)
(* the next thread.                                                        *)
MotionEnds ==
  (moving /\ scene = 0 /\ thread = "loop") ~> (~moving \/ scene # 0 \/ ~signal)
=============================================================================
