------------------------- MODULE PresentationClock -------------------------
(***************************************************************************)
(* From the encoder's time stamps to the presentation times of RTP.  The   *)
(* video worker gives every NAL unit a time on a timeline of its own, which*)
(* restarts whenever viewers come back after there were none (and when the *)
(* worker itself is restarted); each RTSP source shifts that timeline so   *)
(* that its viewer begins near zero, and sees to it that it never runs     *)
(* back.                                                                   *)
(*                                                                         *)
(* What lies between the two, the ring, is modelled by StreamCore; here it *)
(* is a short queue per viewer that may lose its oldest element.  Which    *)
(* NAL units the worker withholds is RtspDelivery's subject; here any may  *)
(* be.                                                                     *)
(***************************************************************************)
EXTENDS Integers, Sequences, FiniteSets

CONSTANTS
  Viewers,
  Expected,     \* expected_frame_us and 1000000 / fps: one frame by the configuration
  Steps,        \* what may lie between two frames by the hardware clock: it may also jump back
  QueueSize,    \* bound: NAL units a viewer can be behind
  MaxFrames,    \* bound: number of frames encoded
  MaxResets     \* bound: joins and worker restarts

ASSUME ClockAssumption ==
  /\ Expected \in Nat \ {0}
  /\ Steps \subseteq Int
  /\ QueueSize \in Nat \ {0}
  /\ MaxFrames \in Nat
  /\ MaxResets \in Nat

VARIABLES
  raw,            \* the hardware clock at the latest frame
  frames,         \* number of frames so far (bound)
  lastRaw,        \* last_frame_timestamp_raw
  lastTimestamp,  \* last_timestamp_us
  hadSubscribers, \* had_subscribers of VideoWorker::run
  publishing,     \* its has_subscribers, as sampled at the head of the loop
  on,             \* the viewers registered with the ring
  queue,          \* what each viewer has still to read
  anchor,         \* presentationAnchorUs
  lastSource,     \* lastSourceFrameUs
  lastPresentation, \* lastPresentationFrameUs
  resets          \* number of joins and worker restarts so far (bound)

workerVars == <<raw, frames, lastRaw, lastTimestamp, hadSubscribers, publishing>>
sourceVars == <<anchor, lastSource, lastPresentation>>
vars == <<workerVars, on, queue, sourceVars, resets>>

(* The times the worker's timeline has: it begins one frame after zero.    *)
Time == {t \in Nat : t >= Expected}

Init ==
  /\ raw = 1
  /\ frames = 0
  /\ lastRaw = 0
  /\ lastTimestamp = 0
  /\ hadSubscribers = FALSE
  /\ publishing = FALSE
  /\ on = {}
  /\ queue = [v \in Viewers |-> << >>]
  /\ anchor = [v \in Viewers |-> 0]
  /\ lastSource = [v \in Viewers |-> 0]
  /\ lastPresentation = [v \in Viewers |-> 0]
  /\ resets = 0

-----------------------------------------------------------------------------
(* The worker.                                                             *)

(* The head of VideoWorker::run's loop: viewers where there were none      *)
(* restart the timeline.                                                   *)
Sample ==
  /\ publishing' = (on # {})
  /\ hadSubscribers' = (on # {})
  /\ IF on # {} /\ ~hadSubscribers
     THEN lastRaw' = 0 /\ lastTimestamp' = 0
     ELSE UNCHANGED <<lastRaw, lastTimestamp>>
  /\ UNCHANGED <<raw, frames, on, queue, sourceVars, resets>>

(* frame_timestamp_to_timeval, for a NAL unit the hardware stamped r (0    *)
(* when it did not).  Another unit of the same frame gets the same time.   *)
SameFrame(r) == r > 0 /\ r = lastRaw /\ lastTimestamp # 0

StepOf(r) ==
  IF r > 0 /\ lastRaw # 0 /\ r > lastRaw /\ r - lastRaw <= 10 * Expected
  THEN r - lastRaw ELSE Expected

Stamp(r) ==
  IF SameFrame(r) THEN lastTimestamp
  ELSE IF lastTimestamp = 0 THEN Expected ELSE lastTimestamp + StepOf(r)

Queued(q, unit) == Append(IF Len(q) >= QueueSize THEN Tail(q) ELSE q, unit)

(* One pack: every one is stamped, not every one is published.             *)
Pack(r, published) ==
  /\ lastRaw' = IF r > 0 THEN r ELSE lastRaw
  /\ lastTimestamp' = Stamp(r)
  /\ queue' = IF published /\ publishing
              THEN [v \in Viewers |->
                      IF v \in on THEN Queued(queue[v], Stamp(r)) ELSE queue[v]]
              ELSE queue
  /\ UNCHANGED <<hadSubscribers, publishing, on, sourceVars, resets>>

(* The clock is the sensor's: it may stand still, jump or run back.        *)
NextFrame == \E d \in Steps, published \in BOOLEAN :
               /\ frames < MaxFrames
               /\ raw + d \in Nat \ {0}   \* 0 is no time stamp
               /\ frames' = frames + 1
               /\ raw' = raw + d
               /\ Pack(raw + d, published)

SameFrameAgain == \E published \in BOOLEAN : Pack(raw, published) /\ UNCHANGED <<raw, frames>>

(* Some encoders do not stamp every pack.                                  *)
Unstamped == \E published \in BOOLEAN :
               /\ frames < MaxFrames
               /\ frames' = frames + 1
               /\ UNCHANGED raw
               /\ Pack(0, published)

(* Main restarts the worker: thread_entry clears the stream's clock, and   *)
(* run() starts over; the viewers and what they have queued stay.          *)
RestartWorker ==
  /\ resets < MaxResets
  /\ resets' = resets + 1
  /\ lastRaw' = 0
  /\ lastTimestamp' = 0
  /\ hadSubscribers' = FALSE
  /\ publishing' = FALSE
  /\ UNCHANGED <<raw, frames, on, queue, sourceVars>>

-----------------------------------------------------------------------------
(* The sources.                                                            *)

(* setCaptureEnabled(true): what is in the ring already is passed over.    *)
Join(v) ==
  /\ v \notin on
  /\ resets < MaxResets
  /\ resets' = resets + 1
  /\ on' = on \cup {v}
  /\ queue' = [queue EXCEPT ![v] = << >>]
  /\ anchor' = [anchor EXCEPT ![v] = 0]
  /\ lastSource' = [lastSource EXCEPT ![v] = 0]
  /\ lastPresentation' = [lastPresentation EXCEPT ![v] = 0]
  /\ UNCHANGED workerVars

Leave(v) ==
  /\ v \in on
  /\ on' = on \ {v}
  /\ queue' = [queue EXCEPT ![v] = << >>]
  /\ anchor' = [anchor EXCEPT ![v] = 0]
  /\ lastSource' = [lastSource EXCEPT ![v] = 0]
  /\ lastPresentation' = [lastPresentation EXCEPT ![v] = 0]
  /\ UNCHANGED <<workerVars, resets>>

(* deliverFrame's duration_us.                                             *)
Duration(v, source) ==
  IF lastSource[v] # 0 /\ source > lastSource[v] THEN source - lastSource[v] ELSE Expected

(* normalizePresentationTimeUs.  No source time is zero.                   *)
Repeats(v, source) == source = lastSource[v] /\ lastPresentation[v] # 0

MutantAnchorsAtSource(v, source) == IF anchor[v] # 0 THEN anchor[v] ELSE source

AnchorFor(v, source) ==
  IF anchor[v] # 0 THEN anchor[v]
  ELSE IF source > Duration(v, source) THEN source - Duration(v, source) ELSE 0

MutantWraps(v, source) == (source - AnchorFor(v, source)) % 2^20

Shifted(v, source) ==
  IF source >= AnchorFor(v, source) THEN source - AnchorFor(v, source) ELSE 0

MutantRunsBack(v, source) == Shifted(v, source)

Presentation(v, source) ==
  IF lastPresentation[v] # 0 /\ Shifted(v, source) <= lastPresentation[v]
  THEN lastPresentation[v] + Duration(v, source)
  ELSE Shifted(v, source)

Deliver(v) ==
  /\ v \in on
  /\ queue[v] # << >>
  /\ LET source == Head(queue[v])
     IN IF Repeats(v, source)
        THEN UNCHANGED <<anchor, lastSource, lastPresentation>>
        ELSE /\ anchor' = [anchor EXCEPT ![v] = AnchorFor(v, source)]
             /\ lastSource' = [lastSource EXCEPT ![v] = source]
             /\ lastPresentation' =
                  [lastPresentation EXCEPT ![v] = Presentation(v, source)]
  /\ queue' = [queue EXCEPT ![v] = Tail(queue[v])]
  /\ UNCHANGED <<workerVars, on, resets>>

-----------------------------------------------------------------------------
Next ==
  \/ Sample \/ NextFrame \/ SameFrameAgain \/ Unstamped \/ RestartWorker
  \/ \E v \in Viewers : Join(v) \/ Leave(v) \/ Deliver(v)

Spec == Init /\ [][Next]_vars

-----------------------------------------------------------------------------
(* The types of the stream's and the sources' clock fields.                *)
TypeOK ==
  /\ raw \in Nat
  /\ frames \in Nat
  /\ lastRaw \in Nat
  /\ lastTimestamp \in Time \cup {0}
  /\ hadSubscribers \in BOOLEAN
  /\ publishing \in BOOLEAN
  /\ on \subseteq Viewers
  /\ queue \in [Viewers -> Seq(Time)]
  /\ anchor \in [Viewers -> Nat]
  /\ lastSource \in [Viewers -> Time \cup {0}]
  /\ lastPresentation \in [Viewers -> Nat]
  /\ resets \in Nat

Continues(v) == v \in on /\ v \in on' /\ lastSource[v] # 0

(* While a viewer stays, its presentation time never runs back, and it     *)
(* stands still only for NAL units with the same source time, whatever the *)
(* worker's timeline does: it restarts, jumps, or loses frames.            *)
NeverBackwards ==
  [][\A v \in Viewers : Continues(v) =>
       /\ lastPresentation'[v] >= lastPresentation[v]
       /\ lastSource'[v] # lastSource[v] => lastPresentation'[v] > lastPresentation[v]]_vars

(* The first thing a viewer gets is presented one frame after zero, as the *)
(* comment on the anchor promises, wherever the timeline stands.           *)
FirstLandsAtDuration ==
  [][\A v \in Viewers :
       lastSource[v] = 0 /\ lastSource'[v] # 0 => lastPresentation'[v] = Expected]_vars

(* From one unit to the next the presentation time advances by no more     *)
(* than the source time did (one frame, when that did not advance): after  *)
(* a restart of the timeline, with the anchor far in the old one, the      *)
(* viewer is not made to wait.                                             *)
NeverLeaps ==
  [][\A v \in Viewers : Continues(v) =>
       lastPresentation'[v] - lastPresentation[v] <=
         IF lastSource'[v] > lastSource[v] THEN lastSource'[v] - lastSource[v]
                                           ELSE Expected]_vars
=============================================================================
