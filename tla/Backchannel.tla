---------------------------- MODULE Backchannel ----------------------------
(***************************************************************************)
(* Two-way audio.  The RTSP event loop runs one BackchannelSink per client *)
(* session; the sinks put data frames, and a stop frame when a client goes *)
(* silent or leaves, into one MsgChannel.  The BackchannelWorker thread    *)
(* sleeps until some sink is sending, takes frames from the queue and      *)
(* plays those of one "current" session through a pipe.  The main thread   *)
(* stops and recreates the worker when the audio configuration changes.    *)
(*                                                                         *)
(* Three threads share the queue (a mutex of its own), is_sending (atomic),*)
(* running and a condition variable that both signallers notify without    *)
(* holding its mutex.  Each access to one of these is a step.              *)
(***************************************************************************)
EXTENDS Integers, Sequences, FiniteSets

CONSTANTS
  Sessions,     \* client session ids; each has one sink in its life
  NoSession,    \* currentSessionId = 0
  QueueSize,    \* BACKCHANNEL_MSG_CHANNEL_SIZE
  MaxFrames,    \* bound: number of frames received by all sinks
  MaxRestarts   \* bound: number of audio restarts

ASSUME BackchannelAssumption ==
  /\ NoSession \notin Sessions
  /\ IsFiniteSet(Sessions)
  /\ QueueSize \in Nat \ {0}
  /\ MaxFrames \in Nat
  /\ MaxRestarts \in Nat

VARIABLES
  sink,        \* "none", "active" (fIsActive) or "gone" (destroyed)
  fIsSending,  \* the sinks that counted themselves in is_sending
  timer,       \* the sinks whose fTimeoutTask is scheduled
  job,         \* what is left of the event loop's current handler
  frames,      \* number of frames received so far (bound)
  queue,       \* inputQueue, oldest first
  is_sending,
  running,
  worker,      \* where the worker thread is
  inHand,      \* the frame it took from the queue
  current,     \* currentSessionId
  pipe,        \* fPipe != nullptr
  mainAt,      \* where the main thread is in its restart of the worker
  restarts,    \* number of restarts so far (bound)
  lostStops    \* history: sessions whose last frame was a stop the queue dropped

sinkVars   == <<sink, fIsSending, timer, frames>>
workerVars == <<worker, inHand, current, pipe>>
mainVars   == <<mainAt, restarts>>
vars == <<sink, fIsSending, timer, job, frames, queue, is_sending, running,
          worker, inHand, current, pipe, mainAt, restarts, lostStops>>

Frame == [session : Sessions, kind : {"data", "stop"}]
NoFrame == [session |-> NoSession, kind |-> "none"]
Idle == [stage |-> "idle", frame |-> NoFrame]
Job == {Idle} \cup [stage : {"write", "notify", "uncount"}, frame : Frame]

Data(s) == [session |-> s, kind |-> "data"]
Stop(s) == [session |-> s, kind |-> "stop"]

Init ==
  /\ sink = [s \in Sessions |-> "none"]
  /\ fIsSending = {}
  /\ timer = {}
  /\ job = Idle
  /\ frames = 0
  /\ queue = << >>
  /\ is_sending = 0
  /\ running = FALSE
  /\ worker = "created"
  /\ inHand = NoFrame
  /\ current = NoSession
  /\ pipe = FALSE
  /\ mainAt = "waits"
  /\ restarts = 0
  /\ lostStops = {}

-----------------------------------------------------------------------------
(* MsgChannel.write: the new message always goes in; when that makes one   *)
(* too many the oldest goes, and the caller is told FALSE.                 *)
Overflows == Len(queue) >= QueueSize

Written(frame) == Append(IF Overflows THEN Tail(queue) ELSE queue, frame)

(* Stops that no longer precede anything of their session in the queue.    *)
LostBy(frame) ==
  (lostStops \cup (IF Overflows /\ Head(queue).kind = "stop"
                   THEN {Head(queue).session} ELSE {}))
    \ {frame.session}

(* should_grab_frames.notify_one: only the worker ever waits on it.        *)
Notified == IF worker = "waits" THEN "checks" ELSE worker

-----------------------------------------------------------------------------
(* The event loop: handlers run one after the other.                       *)

(* startPlaying, for a sink just made by SETUP.                            *)
Play(s) ==
  /\ job = Idle
  /\ sink[s] = "none"
  /\ sink' = [sink EXCEPT ![s] = "active"]
  /\ UNCHANGED <<fIsSending, timer, job, frames, queue, is_sending, running,
                 workerVars, mainVars, lostStops>>

(* afterGettingFrame1 with a payload, up to the write of                   *)
(* sendBackchannelFrame.                                                   *)
ReceiveData(s) ==
  /\ job = Idle
  /\ sink[s] = "active"
  /\ frames < MaxFrames
  /\ frames' = frames + 1
  /\ is_sending' = IF s \in fIsSending THEN is_sending ELSE is_sending + 1
  /\ fIsSending' = fIsSending \cup {s}
  /\ timer' = timer \cup {s}
  /\ job' = [stage |-> "write", frame |-> Data(s)]
  /\ UNCHANGED <<sink, queue, running, workerVars, mainVars, lostStops>>

(* afterGettingFrame1 with an empty or a truncated frame: only the timer.  *)
ReceiveNothing(s) ==
  /\ job = Idle
  /\ sink[s] = "active"
  /\ frames < MaxFrames
  /\ frames' = frames + 1
  /\ timer' = timer \cup {s}
  /\ UNCHANGED <<sink, fIsSending, job, queue, is_sending, running,
                 workerVars, mainVars, lostStops>>

(* sendBackchannelStopFrame, up to its write.                              *)
SendStop(s) ==
  job' = IF s \in fIsSending THEN [stage |-> "write", frame |-> Stop(s)] ELSE Idle

(* timeoutCheck1: the 500 ms are over.                                     *)
MutantTimeoutDoesNothing(s) ==
  /\ job = Idle
  /\ s \in timer /\ sink[s] = "active"
  /\ timer' = timer \ {s}
  /\ UNCHANGED <<sink, fIsSending, job, frames, queue, is_sending, running,
                 workerVars, mainVars, lostStops>>

Timeout(s) ==
  /\ job = Idle
  /\ s \in timer /\ sink[s] = "active"
  /\ timer' = timer \ {s}
  /\ SendStop(s)
  /\ UNCHANGED <<sink, fIsSending, frames, queue, is_sending, running,
                 workerVars, mainVars, lostStops>>

(* The destructor leaves the task scheduled, so the timeout may run on a   *)
(* sink that is gone.  What it finds there is undefined: the memory as the *)
(* destructor left it, or something that makes it do nothing.              *)
TimeoutOfGone(s) ==
  /\ job = Idle
  /\ s \in timer /\ sink[s] = "gone"
  /\ timer' = timer \ {s}
  /\ SendStop(s) \/ UNCHANGED job
  /\ UNCHANGED <<sink, fIsSending, frames, queue, is_sending, running,
                 workerVars, mainVars, lostStops>>

(* ~BackchannelSink, when the session is torn down.                        *)
Destroy(s) ==
  /\ job = Idle
  /\ sink[s] = "active"
  /\ sink' = [sink EXCEPT ![s] = "gone"]
  /\ SendStop(s)
  /\ UNCHANGED <<fIsSending, timer, frames, queue, is_sending, running,
                 workerVars, mainVars, lostStops>>

(* inputQueue->write.  Whoever overflows the queue neither notifies nor,   *)
(* for a stop frame, takes back its count.                                 *)
Write ==
  /\ job.stage = "write"
  /\ queue' = Written(job.frame)
  /\ lostStops' = LostBy(job.frame)
  /\ job' = IF Overflows THEN Idle ELSE [stage |-> "notify", frame |-> job.frame]
  /\ UNCHANGED <<sinkVars, is_sending, running, workerVars, mainVars>>

Notify ==
  /\ job.stage = "notify"
  /\ worker' = Notified
  /\ job' = IF job.frame.kind = "stop"
            THEN [stage |-> "uncount", frame |-> job.frame] ELSE Idle
  /\ UNCHANGED <<sinkVars, queue, is_sending, running, inHand, current, pipe,
                 mainVars, lostStops>>

(* The end of sendBackchannelStopFrame.                                    *)
MutantCountsBelowZero ==
  /\ job.stage = "uncount"
  /\ is_sending' = is_sending - 1
  /\ job' = Idle
  /\ UNCHANGED <<sinkVars, queue, running, workerVars, mainVars, lostStops>>

Uncount ==
  /\ job.stage = "uncount"
  /\ fIsSending' = fIsSending \ {job.frame.session}
  /\ is_sending' = is_sending - 1
  /\ job' = Idle
  /\ UNCHANGED <<sink, timer, frames, queue, running, workerVars, mainVars, lostStops>>

-----------------------------------------------------------------------------
(* The worker thread.                                                      *)

(* thread_entry makes imp_backchannel; from here on main may stop us.      *)
WorkerStarts ==
  /\ worker = "created"
  /\ worker' = "ready"
  /\ current' = NoSession
  /\ UNCHANGED <<sinkVars, job, queue, is_sending, running, inHand, pipe,
                 mainVars, lostStops>>

WorkerRuns ==
  /\ worker = "ready"
  /\ running' = TRUE
  /\ worker' = "checks"
  /\ UNCHANGED <<sinkVars, job, queue, is_sending, inHand, current, pipe,
                 mainVars, lostStops>>

(* The head of the loop and the predicate of the wait, evaluated under the *)
(* mutex of the condition variable, which the signallers do not take.      *)
WorkerChecks ==
  /\ worker = "checks"
  /\ worker' = IF ~running THEN "exits"
               ELSE IF is_sending > 0 THEN "reads" ELSE "blocks"
  /\ UNCHANGED <<sinkVars, job, queue, is_sending, running, inHand, current, pipe,
                 mainVars, lostStops>>

(* Only now would a notification reach it.                                 *)
WorkerBlocks ==
  /\ worker = "blocks"
  /\ worker' = "waits"
  /\ UNCHANGED <<sinkVars, job, queue, is_sending, running, inHand, current, pipe,
                 mainVars, lostStops>>

SpuriousWakeup ==
  /\ worker = "waits"
  /\ worker' = "checks"
  /\ UNCHANGED <<sinkVars, job, queue, is_sending, running, inHand, current, pipe,
                 mainVars, lostStops>>

(* wait_read_for: the oldest frame, or nothing for 50 ms.                  *)
WorkerReads ==
  /\ worker = "reads" /\ queue # << >>
  /\ inHand' = Head(queue)
  /\ queue' = Tail(queue)
  /\ worker' = "handles"
  /\ UNCHANGED <<sinkVars, job, is_sending, running, current, pipe, mainVars, lostStops>>

WorkerReadsNothing ==
  /\ worker = "reads" /\ queue = << >>
  /\ worker' = "checks"
  /\ UNCHANGED <<sinkVars, job, queue, is_sending, running, inHand, current, pipe,
                 mainVars, lostStops>>

(* running is read again before the frame is looked at.                    *)
WorkerDiscards ==
  /\ worker = "handles" /\ ~running
  /\ worker' = "exits"
  /\ inHand' = NoFrame
  /\ UNCHANGED <<sinkVars, job, queue, is_sending, running, current, pipe,
                 mainVars, lostStops>>

(* A stop frame ends the current session; any other is ignored.            *)
MutantStopLeavesPipe ==
  /\ worker = "handles" /\ running
  /\ inHand.kind = "stop"
  /\ current' = IF inHand.session = current THEN NoSession ELSE current
  /\ worker' = "checks"
  /\ inHand' = NoFrame
  /\ UNCHANGED <<sinkVars, job, queue, is_sending, running, pipe, mainVars, lostStops>>

MutantIgnoresStop ==
  /\ worker = "handles" /\ running
  /\ inHand.kind = "stop"
  /\ worker' = "checks"
  /\ inHand' = NoFrame
  /\ UNCHANGED <<sinkVars, job, queue, is_sending, running, current, pipe,
                 mainVars, lostStops>>

HandleStop ==
  /\ worker = "handles" /\ running
  /\ inHand.kind = "stop"
  /\ IF inHand.session = current THEN pipe' = FALSE /\ current' = NoSession
                                 ELSE UNCHANGED <<pipe, current>>
  /\ worker' = "checks"
  /\ inHand' = NoFrame
  /\ UNCHANGED <<sinkVars, job, queue, is_sending, running, mainVars, lostStops>>

(* initPipe opens the pipe unless it is open, and may fail.                *)
InitPipe == IF pipe THEN {TRUE} ELSE BOOLEAN

(* processFrame decodes the frame, or drops it when it cannot, and writes  *)
(* it; FALSE when the pipe is found broken and closed.                     *)
ProcessFrame == BOOLEAN

(* A data frame of the current session, or of the one that becomes it.     *)
HandleData ==
  /\ worker = "handles" /\ running
  /\ inHand.kind = "data"
  /\ current \in {NoSession, inHand.session}
  /\ \E opened \in InitPipe, played \in ProcessFrame :
       /\ pipe' = (opened /\ played)
       /\ current' = IF opened /\ played THEN inHand.session ELSE NoSession
  /\ worker' = "checks"
  /\ inHand' = NoFrame
  /\ UNCHANGED <<sinkVars, job, queue, is_sending, running, mainVars, lostStops>>

HandleOther ==
  /\ worker = "handles" /\ running
  /\ inHand.kind = "data"
  /\ current \notin {NoSession, inHand.session}
  /\ worker' = "checks"
  /\ inHand' = NoFrame
  /\ UNCHANGED <<sinkVars, job, queue, is_sending, running, current, pipe,
                 mainVars, lostStops>>

(* closePipe, and the end of thread_entry, which clears imp_backchannel.   *)
WorkerExits ==
  /\ worker = "exits"
  /\ worker' = "ended"
  /\ pipe' = FALSE
  /\ UNCHANGED <<sinkVars, job, queue, is_sending, running, inHand, current,
                 mainVars, lostStops>>

-----------------------------------------------------------------------------
(* The main thread, on a restart of audio.                                 *)

MainStops ==
  /\ mainAt = "waits" /\ restarts < MaxRestarts
  /\ worker \notin {"created", "ended"}       \* imp_backchannel is set
  /\ restarts' = restarts + 1
  /\ running' = FALSE
  /\ mainAt' = "notifies"
  /\ UNCHANGED <<sinkVars, job, queue, is_sending, workerVars, lostStops>>

MainNotifies ==
  /\ mainAt = "notifies"
  /\ worker' = Notified
  /\ mainAt' = "joins"
  /\ UNCHANGED <<sinkVars, job, queue, is_sending, running, inHand, current, pipe,
                 restarts, lostStops>>

(* pthread_join, then, back at the top of main's loop, pthread_create.     *)
MainJoinsAndCreates ==
  /\ mainAt = "joins" /\ worker = "ended"
  /\ worker' = "created"
  /\ mainAt' = "waits"
  /\ UNCHANGED <<sinkVars, job, queue, is_sending, running, inHand, current, pipe,
                 restarts, lostStops>>

-----------------------------------------------------------------------------
EventLoop ==
  \/ \E s \in Sessions : \/ Play(s) \/ ReceiveData(s) \/ ReceiveNothing(s)
                         \/ Timeout(s) \/ TimeoutOfGone(s) \/ Destroy(s)
  \/ Write \/ Notify \/ Uncount

WorkerStep ==
  \/ WorkerStarts \/ WorkerRuns \/ WorkerChecks \/ WorkerBlocks
  \/ WorkerReads \/ WorkerReadsNothing \/ WorkerDiscards
  \/ HandleStop \/ HandleData \/ HandleOther \/ WorkerExits

MainStep == MainStops \/ MainNotifies \/ MainJoinsAndCreates

Next == EventLoop \/ WorkerStep \/ SpuriousWakeup \/ MainStep

Spec == Init /\ [][Next]_vars

(* Threads run; a handler that began finishes and a timer expires.  No     *)
(* client has to send or leave, nothing has to restart, and a condition    *)
(* variable need not wake anybody without being notified.                  *)
Fairness ==
  /\ WF_vars(Write \/ Notify \/ Uncount)
  /\ \A s \in Sessions : WF_vars(Timeout(s))
  /\ WF_vars(WorkerStep)
  /\ WF_vars(MainNotifies \/ MainJoinsAndCreates)

FairSpec == Spec /\ Fairness

-----------------------------------------------------------------------------
(* The types of the fields of backchannel_stream, the sinks and the worker.*)
TypeOK ==
  /\ sink \in [Sessions -> {"none", "active", "gone"}]
  /\ fIsSending \subseteq Sessions
  /\ timer \subseteq Sessions
  /\ job \in Job
  /\ frames \in 0 .. MaxFrames
  /\ queue \in Seq(Frame) /\ Len(queue) <= QueueSize
  /\ is_sending \in 0 .. Cardinality(Sessions)
  /\ running \in BOOLEAN
  /\ worker \in {"created", "ready", "checks", "blocks", "waits", "reads", "handles",
                 "exits", "ended"}
  /\ inHand \in Frame \cup {NoFrame}
  /\ current \in Sessions \cup {NoSession}
  /\ pipe \in BOOLEAN
  /\ mainAt \in {"waits", "notifies", "joins"}
  /\ restarts \in 0 .. MaxRestarts
  /\ lostStops \subseteq Sessions

(* The pipe to /bin/iac is open exactly while a session owns it, whichever *)
(* of opening, decoding and writing failed: no session plays into a closed *)
(* pipe and no pipe is left behind, so run()'s branch for a pipe that      *)
(* "closed unexpectedly" is never taken.                                   *)
PipeFollowsSession ==
  worker \notin {"created", "exits", "ended"} => (pipe <=> current # NoSession)

StopPending(s) ==
  \/ \E i \in DOMAIN queue : queue[i] = Stop(s)
  \/ inHand = Stop(s)
  \/ s \in lostStops

(* The worker never keeps a session whose sink has taken back its count    *)
(* without a stop frame on its way, except when the queue dropped it.      *)
StopIsOnItsWay ==
  worker \notin {"created", "exits", "ended"} =>
    \A s \in Sessions : current = s /\ s \notin fIsSending => StopPending(s)

(* A worker asleep while a sink counts as sending is about to be notified, *)
(* or will be by that sink's timeout, or the queue is full (then nobody    *)
(* notifies it any more).                                                  *)
SleepIsExplained ==
  worker = "waits" /\ is_sending > 0 =>
    \/ job # Idle
    \/ \E s \in fIsSending : s \in timer /\ sink[s] = "active"
    \/ Len(queue) = QueueSize

(* As long as the queue does not fill up, frames of a sending sink do not  *)
(* stay in it: the worker wakes up and works them off in spite of          *)
(* notifications that come while it is not yet waiting.                    *)
SendersAreServed ==
  [](Len(queue) < QueueSize) =>
    ((queue # << >> /\ is_sending > 0) ~> (queue = << >> \/ is_sending = 0 \/ ~running))
=============================================================================
