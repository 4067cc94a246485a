-------------------------- MODULE BackchannelProofs --------------------------
(***************************************************************************)
(* Proofs about Backchannel, for any number of sessions, any size of the   *)
(* queue and any number of restarts: its types, that the pipe follows the  *)
(* session that owns it, that the worker does not sleep on frames, and     *)
(* that a session which takes back its count has a stop frame on its way.  *)
(***************************************************************************)
EXTENDS Backchannel, FiniteSetTheorems, TLAPS

-----------------------------------------------------------------------------
(* Frames and jobs.                                                        *)

LEMMA FrameKinds ==
  /\ \A s \in Sessions : Data(s) \in Frame /\ Stop(s) \in Frame
  /\ \A s \in Sessions : Data(s).session = s /\ Data(s).kind = "data"
  /\ \A s \in Sessions : Stop(s).session = s /\ Stop(s).kind = "stop"
  /\ \A f \in Frame : f.session \in Sessions /\ f.kind \in {"data", "stop"}
  /\ \A f \in Frame : f.kind = "stop" <=> f = Stop(f.session)
  /\ \A f \in Frame : f.kind = "data" <=> f = Data(f.session)
BY DEF Frame, Data, Stop

LEMMA NoFrameIsNone == NoFrame \notin Frame /\ NoFrame.kind = "none"
BY BackchannelAssumption DEF NoFrame, Frame

LEMMA JobFields ==
  /\ Idle.stage = "idle" /\ Idle \in Job
  /\ \A j \in Job : j # Idle => /\ j.stage \in {"write", "notify", "uncount"}
                                /\ j.frame \in Frame
  /\ \A stage \in {"write", "notify", "uncount"}, f \in Frame :
       /\ [stage |-> stage, frame |-> f] \in Job \ {Idle}
       /\ [stage |-> stage, frame |-> f].stage = stage
       /\ [stage |-> stage, frame |-> f].frame = f
BY DEF Job, Idle

(* What the queue holds after a write: the new frame, and before it what   *)
(* it held, but for the oldest if that was one too many.                   *)
LEMMA WrittenQueue ==
  ASSUME queue \in Seq(Frame), Len(queue) <= QueueSize, NEW f \in Frame
  PROVE  LET d == IF Overflows THEN 1 ELSE 0
         IN /\ Written(f) \in Seq(Frame)
            /\ Len(Written(f)) = Len(queue) - d + 1 /\ Len(Written(f)) <= QueueSize
            /\ \A i \in 1 .. Len(queue) - d : Written(f)[i] = queue[i + d]
            /\ Written(f)[Len(Written(f))] = f
            /\ Overflows => Len(Written(f)) = QueueSize /\ queue # << >>
<1> USE BackchannelAssumption
<1>1. CASE Overflows
  <2>1. queue # << >>
    BY <1>1 DEF Overflows
  <2> DEFINE rest == Tail(queue)
  <2>2. /\ rest \in Seq(Frame) /\ Len(rest) = Len(queue) - 1
        /\ \A i \in 1 .. Len(queue) - 1 : rest[i] = queue[i + 1]
    BY <2>1
  <2>3. Written(f) = Append(rest, f)
    BY <1>1 DEF Written
  <2> HIDE DEF rest
  <2> QED
    BY <1>1, <2>1, <2>2, <2>3 DEF Overflows
<1>2. CASE ~Overflows
  BY <1>2 DEF Overflows, Written
<1> QED
  BY <1>1, <1>2

-----------------------------------------------------------------------------
(* The types.                                                              *)

Threads ==
  /\ sink \in [Sessions -> {"none", "active", "gone"}]
  /\ fIsSending \subseteq Sessions /\ timer \subseteq Sessions
  /\ job \in Job
  /\ worker \in {"created", "ready", "checks", "blocks", "waits", "reads", "handles",
                 "exits", "ended"}
  /\ mainAt \in {"waits", "notifies", "joins"}

Frames ==
  /\ queue \in Seq(Frame) /\ Len(queue) <= QueueSize
  /\ inHand \in Frame \cup {NoFrame}
  /\ current \in Sessions \cup {NoSession}
  /\ lostStops \subseteq Sessions

Flags == running \in BOOLEAN /\ pipe \in BOOLEAN
Bounds == frames \in 0 .. MaxFrames /\ restarts \in 0 .. MaxRestarts

(* is_sending counts the sinks that counted themselves; a frame on its way *)
(* into the queue is of one of these.                                      *)
Counted ==
  /\ is_sending = Cardinality(fIsSending)
  /\ job # Idle => job.frame.session \in fIsSending
  /\ job.stage = "uncount" => job.frame.kind = "stop"

Types == Threads /\ Frames /\ Flags /\ Bounds

LEMMA TypesInit == Init => Types /\ Counted
<1> SUFFICES ASSUME Init PROVE Types /\ Counted
  OBVIOUS
<1>1. Threads
  BY DEF Init, Threads, Job
<1>2. Frames /\ Bounds
  BY BackchannelAssumption DEF Init, Frames, Bounds
<1>3. Flags
  BY Zenon DEF Init, Flags
<1>4. Counted
  BY JobFields, FS_EmptySet DEF Init, Counted
<1> QED
  BY <1>1, <1>2, <1>3, <1>4 DEF Types

LEMMA ThreadsStep ==
  ASSUME Threads, [Next]_vars
  PROVE  Threads'
<1> USE FrameKinds, JobFields DEF Threads, sinkVars, workerVars, mainVars
<1>1. ASSUME NEW s \in Sessions, Play(s) \/ ReceiveData(s) \/ ReceiveNothing(s)
      PROVE  Threads'
  BY <1>1 DEF Play, ReceiveData, ReceiveNothing
<1>2. ASSUME NEW s \in Sessions, Timeout(s) \/ TimeoutOfGone(s) \/ Destroy(s)
      PROVE  Threads'
  BY <1>2 DEF Timeout, TimeoutOfGone, Destroy, SendStop
<1>3. CASE Write \/ Notify \/ Uncount
  <2>1. job # Idle /\ job.frame \in Frame
    BY <1>3 DEF Write, Notify, Uncount
  <2>2. \/ job' = Idle
        \/ \E stage \in {"notify", "uncount"} : job' = [stage |-> stage, frame |-> job.frame]
    BY <1>3 DEF Write, Notify, Uncount
  <2>3. job' \in Job
    BY <2>1, <2>2
  <2> QED
    BY <1>3, <2>3 DEF Write, Notify, Uncount, Notified
<1>4. CASE WorkerStep \/ SpuriousWakeup
  BY <1>4 DEF WorkerStep, WorkerStarts, WorkerRuns, WorkerChecks, WorkerBlocks, WorkerReads,
              WorkerReadsNothing, WorkerDiscards, HandleStop, HandleData, HandleOther,
              WorkerExits, SpuriousWakeup
<1>5. CASE MainStep
  BY <1>5 DEF MainStep, MainStops, MainNotifies, MainJoinsAndCreates, Notified
<1>6. CASE UNCHANGED vars
  BY <1>6 DEF vars
<1> QED
  BY <1>1, <1>2, <1>3, <1>4, <1>5, <1>6 DEF Next, EventLoop

LEMMA FramesStep ==
  ASSUME Threads, Frames, [Next]_vars
  PROVE  Frames'
<1> USE BackchannelAssumption DEF Frames, sinkVars, workerVars, mainVars
<1>1. CASE Write
  <2>1. job \in Job /\ job # Idle
    BY <1>1, JobFields DEF Write, Threads
  <2>2. job.frame \in Frame
    BY <2>1, JobFields
  <2>3. queue' \in Seq(Frame) /\ Len(queue') <= QueueSize
    BY <1>1, <2>2, WrittenQueue DEF Write
  <2>4. Overflows => Head(queue) \in Frame
    BY DEF Overflows
  <2>5. lostStops' \subseteq Sessions
    BY <1>1, <2>4, FrameKinds DEF Write, LostBy
  <2> QED
    BY <1>1, <2>3, <2>5 DEF Write
<1>2. CASE WorkerReads
  <2>1. /\ queue' = Tail(queue) /\ inHand' = Head(queue) /\ queue # << >>
        /\ UNCHANGED << current, lostStops >>
    BY <1>2 DEF WorkerReads
  <2>2. Tail(queue) \in Seq(Frame) /\ Len(Tail(queue)) = Len(queue) - 1
        /\ Head(queue) \in Frame
    BY <2>1
  <2> QED
    BY <2>1, <2>2
<1>3. CASE HandleData
  <2>1. inHand.session \in Sessions
    BY <1>3, NoFrameIsNone, FrameKinds DEF HandleData
  <2> QED
    BY <1>3, <2>1 DEF HandleData
<1>4. CASE WorkerStarts \/ WorkerDiscards \/ HandleStop \/ HandleOther
  BY <1>4 DEF WorkerStarts, WorkerDiscards, HandleStop, HandleOther
<1>5. CASE UNCHANGED << queue, inHand, current, lostStops >>
  BY <1>5
<1>6. ASSUME NEW s \in Sessions,
             Play(s) \/ ReceiveData(s) \/ ReceiveNothing(s) \/ Timeout(s)
               \/ TimeoutOfGone(s) \/ Destroy(s)
      PROVE  UNCHANGED << queue, inHand, current, lostStops >>
  BY <1>6 DEF Play, ReceiveData, ReceiveNothing, Timeout, TimeoutOfGone, Destroy
<1>7. CASE Notify \/ Uncount \/ WorkerRuns \/ WorkerChecks \/ WorkerBlocks
           \/ WorkerReadsNothing \/ WorkerExits \/ SpuriousWakeup \/ MainStep
           \/ UNCHANGED vars
  BY <1>7, <1>5 DEF Notify, Uncount, WorkerRuns, WorkerChecks, WorkerBlocks,
        WorkerReadsNothing, WorkerExits, SpuriousWakeup, MainStep, MainStops, MainNotifies,
        MainJoinsAndCreates, vars
<1> QED
  BY <1>1, <1>2, <1>3, <1>4, <1>5, <1>6, <1>7 DEF Next, EventLoop, WorkerStep

LEMMA FlagsStep ==
  ASSUME Flags, [Next]_vars
  PROVE  Flags'
<1> USE DEF Flags, sinkVars, workerVars, mainVars
<1>1. CASE HandleData
  BY Zenon, <1>1 DEF HandleData
<1>2. CASE WorkerRuns \/ HandleStop \/ WorkerExits \/ MainStops
  BY Zenon, <1>2 DEF WorkerRuns, HandleStop, WorkerExits, MainStops
<1>3. CASE UNCHANGED << running, pipe >>
  BY Zenon, <1>3
<1>4. ASSUME NEW s \in Sessions,
             Play(s) \/ ReceiveData(s) \/ ReceiveNothing(s) \/ Timeout(s)
               \/ TimeoutOfGone(s) \/ Destroy(s)
      PROVE  UNCHANGED << running, pipe >>
  BY <1>4 DEF Play, ReceiveData, ReceiveNothing, Timeout, TimeoutOfGone, Destroy
<1>5. CASE Write \/ Notify \/ Uncount \/ WorkerStarts \/ WorkerChecks \/ WorkerBlocks
           \/ WorkerReads \/ WorkerReadsNothing \/ WorkerDiscards \/ HandleOther
           \/ SpuriousWakeup \/ MainNotifies \/ MainJoinsAndCreates \/ UNCHANGED vars
  <2>1. UNCHANGED << running, pipe >>
    BY <1>5 DEF Write, Notify, Uncount, WorkerStarts, WorkerChecks, WorkerBlocks, WorkerReads,
          WorkerReadsNothing, WorkerDiscards, HandleOther, SpuriousWakeup, MainNotifies,
          MainJoinsAndCreates, vars
  <2> QED
    BY <2>1, <1>3
<1> QED
  BY <1>1, <1>2, <1>3, <1>4, <1>5 DEF Next, EventLoop, WorkerStep, MainStep

LEMMA BoundsStep ==
  ASSUME Bounds, [Next]_vars
  PROVE  Bounds'
<1> USE BackchannelAssumption DEF Bounds, sinkVars, workerVars, mainVars
<1>1. ASSUME NEW s \in Sessions,
             Play(s) \/ ReceiveData(s) \/ ReceiveNothing(s) \/ Timeout(s)
               \/ TimeoutOfGone(s) \/ Destroy(s)
      PROVE  Bounds'
  BY <1>1 DEF Play, ReceiveData, ReceiveNothing, Timeout, TimeoutOfGone, Destroy
<1>2. CASE Write \/ Notify \/ Uncount \/ WorkerStep \/ SpuriousWakeup \/ UNCHANGED vars
  <2>1. UNCHANGED << frames, restarts >>
    BY <1>2 DEF Write, Notify, Uncount, WorkerStep, WorkerStarts, WorkerRuns, WorkerChecks,
          WorkerBlocks, WorkerReads, WorkerReadsNothing, WorkerDiscards, HandleStop,
          HandleData, HandleOther, WorkerExits, SpuriousWakeup, vars
  <2> QED
    BY <2>1
<1>3. CASE MainStep
  BY <1>3 DEF MainStep, MainStops, MainNotifies, MainJoinsAndCreates
<1> QED
  BY <1>1, <1>2, <1>3 DEF Next, EventLoop

(* Sinks count themselves and take their count back one at a time.         *)
LEMMA CountedStep ==
  ASSUME Threads, Counted, [Next]_vars
  PROVE  Counted'
<1> USE DEF Counted, sinkVars, workerVars, mainVars
<1>1. IsFiniteSet(fIsSending)
  BY BackchannelAssumption, FS_Subset DEF Threads
<1>2. ASSUME NEW s \in Sessions, ReceiveData(s) PROVE Counted'
  <2>1. is_sending' = Cardinality(fIsSending')
    BY <1>1, <1>2, FS_AddElement DEF ReceiveData
  <2>2. job' = [stage |-> "write", frame |-> Data(s)] /\ s \in fIsSending'
    BY <1>2 DEF ReceiveData
  <2>3. job'.stage = "write" /\ job'.frame.session = s
    BY <2>2, FrameKinds, JobFields
  <2> QED
    BY <2>1, <2>2, <2>3
<1>3. ASSUME NEW s \in Sessions, Timeout(s) \/ TimeoutOfGone(s) \/ Destroy(s)
      PROVE  Counted'
  <2>1. UNCHANGED << is_sending, fIsSending >> /\ job = Idle /\ (SendStop(s) \/ UNCHANGED job)
    BY <1>3 DEF Timeout, TimeoutOfGone, Destroy
  <2>2. CASE s \in fIsSending /\ SendStop(s)
    <3>1. job'.stage = "write" /\ job'.frame.session = s
      BY <2>2, FrameKinds, JobFields DEF SendStop
    <3> QED
      BY <2>1, <2>2, <3>1
  <2>3. CASE job' = Idle
    BY <2>1, <2>3, JobFields
  <2> QED
    BY <2>1, <2>2, <2>3 DEF SendStop
<1>4. CASE Write
  <2>1. job \in Job /\ job # Idle /\ UNCHANGED << is_sending, fIsSending >>
    BY <1>4, JobFields DEF Write, Threads
  <2>2. job' = Idle \/ job' = [stage |-> "notify", frame |-> job.frame]
    BY <1>4, <2>1 DEF Write
  <2> QED
    BY <2>1, <2>2, JobFields
<1>5. CASE Notify
  <2>1. job \in Job /\ job # Idle /\ UNCHANGED << is_sending, fIsSending >>
    BY <1>5, JobFields DEF Notify, Threads
  <2>2. \/ job' = Idle
        \/ job' = [stage |-> "uncount", frame |-> job.frame] /\ job.frame.kind = "stop"
    BY <1>5, <2>1 DEF Notify
  <2> QED
    BY <2>1, <2>2, JobFields
<1>6. CASE Uncount
  <2>1. job # Idle /\ job' = Idle
    BY <1>6, JobFields DEF Uncount
  <2>2. is_sending' = Cardinality(fIsSending')
    BY <1>1, <1>6, <2>1, FS_RemoveElement DEF Uncount
  <2> QED
    BY <2>1, <2>2, JobFields
<1>7. CASE UNCHANGED << is_sending, fIsSending, job >>
  BY <1>7
<1>8. ASSUME NEW s \in Sessions, Play(s) \/ ReceiveNothing(s)
      PROVE  UNCHANGED << is_sending, fIsSending, job >>
  BY <1>8 DEF Play, ReceiveNothing
<1>9. CASE WorkerStep \/ SpuriousWakeup \/ MainStep \/ UNCHANGED vars
  <2>1. UNCHANGED << is_sending, fIsSending, job >>
    BY <1>9 DEF WorkerStep, WorkerStarts, WorkerRuns, WorkerChecks, WorkerBlocks, WorkerReads,
          WorkerReadsNothing, WorkerDiscards, HandleStop, HandleData, HandleOther,
          WorkerExits, SpuriousWakeup, MainStep, MainStops, MainNotifies,
          MainJoinsAndCreates, vars
  <2> QED
    BY <2>1, <1>7
<1> QED
  BY <1>2, <1>3, <1>4, <1>5, <1>6, <1>7, <1>8, <1>9 DEF Next, EventLoop

LEMMA TypesStep == Types /\ Counted /\ [Next]_vars => Types' /\ Counted'
BY ThreadsStep, FramesStep, FlagsStep, BoundsStep, CountedStep DEF Types

(* The fields keep their types, and the count its bounds.                  *)
THEOREM BackchannelTypes == Spec => []TypeOK
<1>1. Types /\ Counted => TypeOK
  <2> SUFFICES ASSUME Types, Counted PROVE TypeOK
    OBVIOUS
  <2>1. is_sending \in 0 .. Cardinality(Sessions)
    <3>1. fIsSending \in SUBSET Sessions /\ IsFiniteSet(Sessions)
      BY BackchannelAssumption DEF Types, Threads
    <3>2. Cardinality(fIsSending) <= Cardinality(Sessions) /\ IsFiniteSet(fIsSending)
      BY <3>1, FS_Subset
    <3>3. Cardinality(fIsSending) \in Nat /\ Cardinality(Sessions) \in Nat
      BY <3>1, <3>2, FS_CardinalityType
    <3> QED
      BY <3>2, <3>3 DEF Counted
  <2> QED
    BY <2>1 DEF Types, Threads, Frames, Flags, Bounds, TypeOK
<1> QED
  BY TypesInit, TypesStep, <1>1, PTL DEF Spec

-----------------------------------------------------------------------------
(* The pipe.  Between two lives of the worker it is closed; in between it  *)
(* is open while a session is current.                                     *)

PipeInv ==
  PipeFollowsSession /\ (worker \in {"created", "ended"} => ~pipe)

LEMMA PipeStep ==
  ASSUME Types, PipeInv, [Next]_vars
  PROVE  PipeInv'
<1> USE BackchannelAssumption DEF PipeInv, PipeFollowsSession, Types, Flags, sinkVars,
        workerVars, mainVars
<1>1. CASE HandleData
  <2>1. inHand.session \in Sessions
    BY <1>1, NoFrameIsNone, FrameKinds DEF HandleData, Frames
  <2>2. PICK opened \in (IF pipe THEN {TRUE} ELSE BOOLEAN), played \in BOOLEAN :
          /\ pipe' = (opened /\ played)
          /\ current' = IF opened /\ played THEN inHand.session ELSE NoSession
    BY <1>1 DEF HandleData
  <2>3. worker' = "checks"
    BY <1>1 DEF HandleData
  <2> QED
    BY <2>1, <2>2, <2>3
<1>2. CASE HandleStop
  BY <1>2 DEF HandleStop
<1>3. CASE WorkerStarts \/ WorkerExits
  BY <1>3 DEF WorkerStarts, WorkerExits
<1>4. CASE WorkerRuns \/ WorkerChecks \/ WorkerBlocks \/ WorkerReads \/ WorkerReadsNothing
           \/ WorkerDiscards \/ HandleOther \/ SpuriousWakeup
  BY <1>4 DEF WorkerRuns, WorkerChecks, WorkerBlocks, WorkerReads, WorkerReadsNothing,
              WorkerDiscards, HandleOther, SpuriousWakeup
<1>5. CASE Notify \/ MainNotifies
  BY <1>5 DEF Notify, MainNotifies, Notified
<1>6. CASE MainJoinsAndCreates
  BY <1>6 DEF MainJoinsAndCreates
<1>7. CASE UNCHANGED << worker, pipe, current >>
  BY <1>7
<1>8. ASSUME NEW s \in Sessions,
             Play(s) \/ ReceiveData(s) \/ ReceiveNothing(s) \/ Timeout(s)
               \/ TimeoutOfGone(s) \/ Destroy(s)
      PROVE  UNCHANGED << worker, pipe, current >>
  BY <1>8 DEF Play, ReceiveData, ReceiveNothing, Timeout, TimeoutOfGone, Destroy
<1>9. CASE Write \/ Uncount \/ MainStops \/ UNCHANGED vars
  <2>1. UNCHANGED << worker, pipe, current >>
    BY <1>9 DEF Write, Uncount, MainStops, vars
  <2> QED
    BY <2>1, <1>7
<1> QED
  BY <1>1, <1>2, <1>3, <1>4, <1>5, <1>6, <1>7, <1>8, <1>9
     DEF Next, EventLoop, WorkerStep, MainStep

(* No session plays into a closed pipe, and no pipe is left behind.        *)
THEOREM PipeCorrect == Spec => []PipeFollowsSession
<1>1. Init => PipeInv
  BY DEF Init, PipeInv, PipeFollowsSession
<1>2. PipeInv => PipeFollowsSession
  BY DEF PipeInv
<1> QED
  BY TypesInit, TypesStep, PipeStep, <1>1, <1>2, PTL DEF Spec

-----------------------------------------------------------------------------
(* The sleep.  The worker goes to sleep after it found nobody sending; a   *)
(* sink that counts itself since then has a timer, or is sending its stop, *)
(* or could not notify because the queue was full, and it still is.        *)

Explained(t) ==
  \/ t \in timer /\ sink[t] = "active"
  \/ job # Idle /\ job.frame = Stop(t)
  \/ Len(queue) = QueueSize

Asleep == worker \in {"blocks", "waits"} => \A t \in fIsSending : Explained(t)

LEMMA AsleepStep ==
  ASSUME Types, Counted, Asleep, [Next]_vars
  PROVE  Asleep'
<1> USE FrameKinds, JobFields DEF Asleep, Explained, Types, Threads, Counted, sinkVars,
        workerVars, mainVars
<1>1. ASSUME NEW s \in Sessions, ReceiveData(s) PROVE Asleep'
  BY <1>1 DEF ReceiveData
<1>2. ASSUME NEW s \in Sessions, Timeout(s) PROVE Asleep'
  BY <1>2 DEF Timeout, SendStop
<1>3. ASSUME NEW s \in Sessions, TimeoutOfGone(s) PROVE Asleep'
  BY <1>3 DEF TimeoutOfGone, SendStop
<1>4. ASSUME NEW s \in Sessions, Destroy(s) PROVE Asleep'
  BY <1>4 DEF Destroy, SendStop
<1>5. ASSUME NEW s \in Sessions, Play(s) \/ ReceiveNothing(s) PROVE Asleep'
  BY <1>5 DEF Play, ReceiveNothing
<1>6. CASE Write
  <2>1. job # Idle /\ job.frame \in Frame /\ UNCHANGED << worker, timer, sink, fIsSending >>
    BY <1>6 DEF Write
  <2>2. Overflows => Len(queue') = QueueSize
    BY <1>6, <2>1, WrittenQueue DEF Write, Frames
  <2>3. CASE Overflows
    BY <2>2, <2>3
  <2>4. CASE ~Overflows
    <3>1. job' # Idle /\ job'.frame = job.frame
      BY <1>6, <2>1, <2>4 DEF Write
    <3>2. Len(queue) # QueueSize
      BY <2>4, BackchannelAssumption DEF Overflows, Frames
    <3> QED
      BY <2>1, <3>1, <3>2
  <2> QED
    BY <2>3, <2>4
<1>7. CASE Notify
  <2>1. job # Idle /\ job.frame \in Frame
        /\ UNCHANGED << timer, sink, fIsSending, queue >>
    BY <1>7 DEF Notify
  <2>2. worker' \in {"blocks", "waits"} => worker = "blocks"
    BY <1>7 DEF Notify, Notified
  <2>3. job.frame.kind = "stop" => job' # Idle /\ job'.frame = job.frame
    BY <1>7, <2>1 DEF Notify
  <2>4. \A t \in fIsSending : job.frame = Stop(t) => job.frame.kind = "stop"
    OBVIOUS
  <2> QED
    BY <2>1, <2>2, <2>3, <2>4
<1>8. CASE Uncount
  <2>1. job # Idle /\ job.frame \in Frame /\ fIsSending' = fIsSending \ {job.frame.session}
        /\ UNCHANGED << worker, timer, sink, queue >>
    BY <1>8 DEF Uncount
  <2>2. \A t \in fIsSending' : job.frame # Stop(t)
    BY <2>1
  <2> QED
    BY <2>1, <2>2
<1>9. CASE WorkerChecks
  <2>1. fIsSending' = fIsSending /\ (worker' \in {"blocks", "waits"} => ~(is_sending > 0))
    BY <1>9 DEF WorkerChecks
  <2>2. IsFiniteSet(fIsSending)
    BY BackchannelAssumption, FS_Subset
  <2>3. ~(is_sending > 0) => fIsSending = {}
    BY <2>2, FS_EmptySet, FS_CardinalityType
  <2> QED
    BY <2>1, <2>3
<1>10. CASE WorkerBlocks
  BY <1>10 DEF WorkerBlocks
<1>11. CASE WorkerStarts \/ WorkerRuns \/ WorkerReads \/ WorkerReadsNothing
            \/ WorkerDiscards \/ HandleStop \/ HandleData \/ HandleOther
            \/ WorkerExits \/ SpuriousWakeup \/ MainJoinsAndCreates
  <2>1. worker' \notin {"blocks", "waits"}
    BY <1>11 DEF WorkerStarts, WorkerRuns, WorkerReads, WorkerReadsNothing,
          WorkerDiscards, HandleStop, HandleData, HandleOther, WorkerExits, SpuriousWakeup,
          MainJoinsAndCreates
  <2> QED
    BY <2>1
<1>12. CASE MainNotifies
  BY <1>12 DEF MainNotifies, Notified
<1>13. CASE MainStops \/ UNCHANGED vars
  BY <1>13 DEF MainStops, vars
<1> QED
  BY <1>1, <1>2, <1>3, <1>4, <1>5, <1>6, <1>7, <1>8, <1>9, <1>10, <1>11, <1>12, <1>13
     DEF Next, EventLoop, WorkerStep, MainStep

(* A worker asleep while a sink counts as sending is about to be notified, *)
(* or will be by the sink's timeout, or the queue is full.                 *)
THEOREM SleepCorrect == Spec => []SleepIsExplained
<1>1. Init => Asleep
  BY DEF Init, Asleep
<1>2. Types /\ Counted /\ Asleep => SleepIsExplained
  <2> SUFFICES ASSUME Types, Counted, Asleep, worker = "waits", is_sending > 0
               PROVE  \/ job # Idle
                      \/ \E s \in fIsSending : s \in timer /\ sink[s] = "active"
                      \/ Len(queue) = QueueSize
    BY DEF SleepIsExplained
  <2>1. fIsSending # {}
    BY FS_EmptySet DEF Counted
  <2> QED
    BY <2>1 DEF Asleep, Explained
<1> QED
  BY TypesInit, TypesStep, AsleepStep, <1>1, <1>2, PTL DEF Spec

-----------------------------------------------------------------------------
(* The stop frames.  Once a session has taken back its count, or is about  *)
(* to, whatever there is of it - frames in the queue, the frame in hand,   *)
(* the worker's current session - is followed by a stop frame, or that was *)
(* dropped.                                                                *)

InQueue(s) == \E j \in 1 .. Len(queue) : queue[j] = Stop(s)
Holds(s) == worker \notin {"created", "exits", "ended"} /\ current = s

Covered(s) ==
  \/ s \in lostStops
  \/ /\ \A i \in 1 .. Len(queue) :
          queue[i] = Data(s) => \E j \in (i + 1) .. Len(queue) : queue[j] = Stop(s)
     /\ inHand = Data(s) => InQueue(s)
     /\ Holds(s) => inHand = Stop(s) \/ InQueue(s)

Owed(s) ==
  s \notin fIsSending \/ (job.stage \in {"notify", "uncount"} /\ job.frame = Stop(s))

StopInv ==
  /\ worker # "handles" => inHand = NoFrame
  /\ \A s \in Sessions : Owed(s) => Covered(s)

LEMMA StopInit == Init => StopInv
BY BackchannelAssumption, NoFrameIsNone, FrameKinds
   DEF Init, StopInv, Owed, Covered, InQueue, Holds

(* Nothing more is owed, and the worker holds on to nothing more.          *)
LEMMA StopAlone ==
  ASSUME StopInv, UNCHANGED << queue, inHand, lostStops >>,
         worker' # "handles" => inHand = NoFrame,
         \A s \in Sessions : Owed(s)' => Owed(s),
         \A s \in Sessions : Holds(s)' => Holds(s)
  PROVE  StopInv'
<1>1. ASSUME NEW s \in Sessions, Owed(s)' PROVE Covered(s)'
  <2>1. Covered(s) /\ (Holds(s)' => Holds(s))
    BY <1>1 DEF StopInv
  <2> QED
    BY <2>1 DEF Covered, InQueue
<1> QED
  BY <1>1 DEF StopInv

(* A write pushes out at most the oldest frame, which is covered by what   *)
(* follows it, or is a stop that then counts as lost.                      *)
LEMMA StopWrite ==
  ASSUME Types, Counted, StopInv, Write
  PROVE  StopInv'
<1> DEFINE f == job.frame
           d == IF Overflows THEN 1 ELSE 0
           n == Len(queue)
<1>1. job \in Job /\ job # Idle /\ f \in Frame /\ job.stage = "write" /\ f.session \in fIsSending
  BY JobFields DEF Write, Types, Threads, Counted
<1>2. /\ UNCHANGED << fIsSending, worker, inHand, current >>
      /\ queue' = Written(f) /\ lostStops' = LostBy(f)
      /\ job' = IF Overflows THEN Idle ELSE [stage |-> "notify", frame |-> f]
  BY DEF Write, sinkVars, workerVars
<1>3. /\ queue \in Seq(Frame) /\ n \in Nat /\ d \in {0, 1}
      /\ Len(queue') = n - d + 1
      /\ \A i \in 1 .. n - d : queue'[i] = queue[i + d]
      /\ queue'[Len(queue')] = f
      /\ Overflows => n > 0
  <2>1. queue \in Seq(Frame) /\ n \in Nat /\ n <= QueueSize /\ d \in {0, 1}
    BY DEF Types, Frames
  <2>2. /\ Len(queue') = n - d + 1
        /\ \A i \in 1 .. n - d : queue'[i] = queue[i + d]
        /\ queue'[Len(queue')] = f
        /\ Overflows => queue # << >>
    BY <1>1, <1>2, <2>1, WrittenQueue
  <2>3. queue # << >> => n > 0
    BY <2>1
  <2> QED
    BY <2>1, <2>2, <2>3
<1> HIDE DEF n
<1>4. ASSUME NEW s \in Sessions, Owed(s)', s # f.session PROVE Covered(s)'
  <2>1. s \notin fIsSending
    <3>1. job'.stage \in {"notify", "uncount"} => job'.frame = f
      BY <1>1, <1>2, JobFields
    <3>2. f # Stop(s)
      BY <1>4, FrameKinds
    <3> QED
      BY <1>2, <1>4, <3>1, <3>2 DEF Owed
  <2>2. Covered(s) /\ Holds(s)' = Holds(s)
    BY <1>2, <2>1 DEF StopInv, Owed, Holds
  <2>3. CASE s \in lostStops
    BY <1>2, <1>4, <2>3 DEF Covered, LostBy
  <2>4. CASE Overflows /\ queue[1] = Stop(s)
    BY <1>2, <1>3, <1>4, <2>4, FrameKinds DEF Covered, LostBy
  <2>5. CASE s \notin lostStops /\ ~(Overflows /\ queue[1] = Stop(s))
    <3>1. InQueue(s) => InQueue(s)'
      <4> SUFFICES ASSUME NEW j \in 1 .. n, queue[j] = Stop(s) PROVE InQueue(s)'
        BY DEF InQueue, n
      <4>1. j - d \in 1 .. n - d
        BY <1>3, <2>5
      <4>2. queue'[j - d] = Stop(s) /\ j - d \in 1 .. Len(queue')
        BY <1>3, <4>1
      <4> QED
        BY <4>2 DEF InQueue
    <3>2. ASSUME NEW i \in 1 .. Len(queue'), queue'[i] = Data(s)
          PROVE  \E j \in (i + 1) .. Len(queue') : queue'[j] = Stop(s)
      <4>1. i # Len(queue')
        BY <1>3, <1>4, <3>2, FrameKinds
      <4>2. i + d \in 1 .. n /\ queue[i + d] = Data(s)
        BY <1>3, <3>2, <4>1
      <4>3. PICK j \in (i + d + 1) .. n : queue[j] = Stop(s)
        BY <2>2, <2>5, <4>2 DEF Covered, n
      <4>4. j - d \in (i + 1) .. Len(queue') /\ j - d \in 1 .. n - d
        BY <1>3, <4>2, <4>3
      <4>5. queue'[j - d] = Stop(s)
        BY <1>3, <4>3, <4>4
      <4> QED
        BY <4>4, <4>5
    <3>3. inHand' = inHand
      BY <1>2
    <3> QED
      BY <2>2, <2>5, <3>1, <3>2, <3>3 DEF Covered
  <2> QED
    BY <2>3, <2>4, <2>5
<1>5. ASSUME NEW s \in Sessions, Owed(s)', s = f.session PROVE Covered(s)'
  <2>1. f = Stop(s)
    BY <1>1, <1>2, <1>5, JobFields DEF Owed
  <2>2. Len(queue') \in 1 .. Len(queue') /\ queue'[Len(queue')] = Stop(s)
    BY <1>3, <2>1
  <2>3. InQueue(s)'
    BY <2>2 DEF InQueue
  <2>4. ASSUME NEW i \in 1 .. Len(queue'), queue'[i] = Data(s)
        PROVE  \E j \in (i + 1) .. Len(queue') : queue'[j] = Stop(s)
    <3>1. i # Len(queue')
      BY <2>2, <2>4, FrameKinds
    <3>2. Len(queue') \in (i + 1) .. Len(queue')
      BY <1>3, <3>1
    <3> QED
      BY <2>2, <3>2
  <2> QED
    BY <2>3, <2>4 DEF Covered
<1>6. worker' # "handles" => inHand' = NoFrame
  BY <1>2 DEF StopInv
<1> QED
  BY <1>4, <1>5, <1>6 DEF StopInv

(* What the worker takes into its hand was covered by what stays behind.   *)
LEMMA StopReads ==
  ASSUME Types, StopInv, WorkerReads
  PROVE  StopInv'
<1> DEFINE n == Len(queue)
<1>1. /\ worker = "reads" /\ worker' = "handles" /\ queue # << >> /\ inHand = NoFrame
      /\ inHand' = Head(queue) /\ queue' = Tail(queue)
      /\ UNCHANGED << fIsSending, job, current, lostStops >>
  BY DEF WorkerReads, StopInv, sinkVars
<1>2. /\ n \in Nat \ {0} /\ Len(queue') = n - 1 /\ inHand' = queue[1]
      /\ \A i \in 1 .. n - 1 : queue'[i] = queue[i + 1]
  BY <1>1 DEF Types, Frames
<1> HIDE DEF n
<1>3. ASSUME NEW s \in Sessions, Owed(s)', s \notin lostStops PROVE Covered(s)'
  <2>1. /\ \A i \in 1 .. n : queue[i] = Data(s) => \E j \in (i + 1) .. n : queue[j] = Stop(s)
        /\ Holds(s)' => InQueue(s)
    BY <1>1, <1>3, NoFrameIsNone, FrameKinds DEF StopInv, Owed, Covered, Holds, n
  <2>2. ASSUME NEW i \in 1 .. Len(queue'), queue'[i] = Data(s)
        PROVE  \E j \in (i + 1) .. Len(queue') : queue'[j] = Stop(s)
    <3>1. i + 1 \in 1 .. n /\ queue[i + 1] = Data(s)
      BY <1>2, <2>2
    <3>2. PICK j \in (i + 2) .. n : queue[j] = Stop(s)
      BY <2>1, <3>1
    <3>3. j - 1 \in (i + 1) .. Len(queue') /\ queue'[j - 1] = Stop(s)
      BY <1>2, <3>2
    <3> QED
      BY <3>3
  <2>3. ASSUME inHand' = Data(s) PROVE InQueue(s)'
    <3>1. PICK j \in (1 + 1) .. n : queue[j] = Stop(s)
      <4>1. 1 \in 1 .. n /\ queue[1] = Data(s)
        BY <1>2, <2>3
      <4> QED
        BY <2>1, <4>1
    <3>2. j - 1 \in 1 .. Len(queue') /\ queue'[j - 1] = Stop(s)
      BY <1>2, <3>1
    <3> QED
      BY <3>2 DEF InQueue
  <2>4. ASSUME Holds(s)' PROVE inHand' = Stop(s) \/ InQueue(s)'
    <3>1. PICK j \in 1 .. n : queue[j] = Stop(s)
      BY <2>1, <2>4 DEF InQueue, n
    <3>2. CASE j = 1
      BY <1>2, <3>1, <3>2
    <3>3. CASE j > 1
      <4>1. j - 1 \in 1 .. Len(queue') /\ queue'[j - 1] = Stop(s)
        BY <1>2, <3>1, <3>3
      <4> QED
        BY <4>1 DEF InQueue
    <3> QED
      BY <3>2, <3>3
  <2> QED
    BY <2>2, <2>3, <2>4 DEF Covered
<1> QED
  BY <1>1, <1>3 DEF StopInv, Covered

(* A frame is done with: what is current afterwards has its stop behind.   *)
LEMMA StopHandles ==
  ASSUME Types, StopInv, HandleStop \/ HandleData \/ HandleOther
  PROVE  StopInv'
<1>1. /\ inHand' = NoFrame /\ UNCHANGED << fIsSending, job, queue, lostStops >>
      /\ worker = "handles"
  BY DEF HandleStop, HandleData, HandleOther, sinkVars
<1>2. inHand \in Frame
  BY NoFrameIsNone DEF HandleStop, HandleData, HandleOther, Types, Frames
<1>3. ASSUME NEW s \in Sessions, Owed(s)', s \notin lostStops PROVE Covered(s)'
  <2>1. Covered(s)
    BY <1>1, <1>3 DEF StopInv, Owed
  <2>2. current' = s => InQueue(s)
    <3>1. CASE HandleStop
      BY <1>1, <1>2, <1>3, <2>1, <3>1, FrameKinds, BackchannelAssumption
         DEF HandleStop, Covered, Holds
    <3>2. CASE HandleData
      <4>1. current' = s => inHand = Data(s)
        BY <1>2, <3>2, FrameKinds, BackchannelAssumption DEF HandleData
      <4> QED
        BY <1>3, <2>1, <4>1 DEF Covered
    <3>3. CASE HandleOther
      BY <1>1, <1>2, <1>3, <2>1, <3>3, FrameKinds DEF HandleOther, Covered, Holds
    <3> QED
      BY <3>1, <3>2, <3>3
  <2>3. Holds(s)' => InQueue(s)
    BY <2>2 DEF Holds
  <2>4. inHand' # Data(s)
    BY <1>1, NoFrameIsNone, FrameKinds
  <2> QED
    BY <1>1, <1>3, <2>1, <2>3, <2>4 DEF Covered, InQueue
<1> QED
  BY <1>1, <1>3 DEF StopInv, Covered

LEMMA StopStep ==
  ASSUME Types, Counted, StopInv, [Next]_vars
  PROVE  StopInv'
<1> USE JobFields DEF sinkVars, workerVars, mainVars
<1>1. ASSUME NEW s \in Sessions,
             Play(s) \/ ReceiveData(s) \/ ReceiveNothing(s) \/ Timeout(s)
               \/ TimeoutOfGone(s) \/ Destroy(s)
      PROVE  StopInv'
  <2>1. UNCHANGED << queue, inHand, lostStops, worker, current >>
        /\ fIsSending \subseteq fIsSending' /\ job = Idle
    BY <1>1 DEF Play, ReceiveData, ReceiveNothing, Timeout, TimeoutOfGone, Destroy
  <2>2. \/ job' = Idle
        \/ \E f \in Frame : job' = [stage |-> "write", frame |-> f]
    BY <1>1, FrameKinds
       DEF Play, ReceiveData, ReceiveNothing, Timeout, TimeoutOfGone, Destroy, SendStop
  <2>3. job'.stage \notin {"notify", "uncount"}
    BY <2>2
  <2> QED
    BY <2>1, <2>3, StopAlone DEF StopInv, Owed, Holds
<1>2. CASE Write
  BY <1>2, StopWrite
<1>3. CASE Notify
  <2>1. job # Idle /\ job.stage = "notify" /\ job.frame \in Frame
    BY <1>3 DEF Notify, Types, Threads
  <2>2. UNCHANGED << queue, inHand, lostStops, current, fIsSending >>
    BY <1>3 DEF Notify
  <2>3. worker' = worker \/ (worker = "waits" /\ worker' = "checks")
    BY <1>3 DEF Notify, Notified
  <2>4. job' = Idle \/ job' = [stage |-> "uncount", frame |-> job.frame]
    BY <1>3 DEF Notify
  <2>5. job'.stage \in {"notify", "uncount"} => job'.frame = job.frame
    BY <2>1, <2>4
  <2> QED
    BY <2>1, <2>2, <2>3, <2>5, StopAlone DEF StopInv, Owed, Holds
<1>4. CASE Uncount
  <2>1. job # Idle /\ job.stage = "uncount" /\ job.frame = Stop(job.frame.session)
        /\ job'.stage = "idle"
    BY <1>4, FrameKinds DEF Uncount, Types, Threads, Counted
  <2>2. UNCHANGED << queue, inHand, lostStops, current, worker >>
        /\ fIsSending' = fIsSending \ {job.frame.session}
    BY <1>4 DEF Uncount
  <2> QED
    BY <2>1, <2>2, StopAlone DEF StopInv, Owed, Holds
<1>5. CASE WorkerStarts
  BY <1>5, BackchannelAssumption, StopAlone DEF WorkerStarts, StopInv, Owed, Holds
<1>6. CASE WorkerReads
  BY <1>6, StopReads
<1>7. CASE HandleStop \/ HandleData \/ HandleOther
  BY <1>7, StopHandles
<1>8. CASE WorkerDiscards
  <2>1. /\ inHand' = NoFrame /\ UNCHANGED << fIsSending, job, queue, lostStops >>
        /\ worker' = "exits"
    BY <1>8 DEF WorkerDiscards
  <2>2. \A s \in Sessions : ~Holds(s)' /\ inHand' # Data(s)
    BY <2>1, NoFrameIsNone, FrameKinds DEF Holds
  <2> QED
    BY <2>1, <2>2 DEF StopInv, Owed, Covered
<1>9. CASE WorkerRuns \/ WorkerChecks \/ WorkerBlocks \/ WorkerReadsNothing \/ WorkerExits
           \/ SpuriousWakeup \/ MainStep \/ UNCHANGED vars
  <2>1. UNCHANGED << queue, inHand, lostStops, current, fIsSending, job >>
    BY <1>9 DEF WorkerRuns, WorkerChecks, WorkerBlocks, WorkerReadsNothing, WorkerExits,
                SpuriousWakeup, MainStep, MainStops, MainNotifies, MainJoinsAndCreates, vars
  <2>2. /\ worker' \notin {"created", "exits", "ended"}
             => worker \notin {"created", "exits", "ended"}
        /\ worker' # "handles" => worker # "handles"
    BY <1>9 DEF WorkerRuns, WorkerChecks, WorkerBlocks, WorkerReadsNothing, WorkerExits,
                SpuriousWakeup, MainStep, MainStops, MainNotifies, MainJoinsAndCreates,
                Notified, vars
  <2> QED
    BY <2>1, <2>2, StopAlone DEF StopInv, Owed, Holds
<1> QED
  BY <1>1, <1>2, <1>3, <1>4, <1>5, <1>6, <1>7, <1>8, <1>9 DEF Next, EventLoop, WorkerStep

(* The worker never keeps a session whose sink has taken back its count    *)
(* without a stop frame on its way, except when the queue dropped it.      *)
THEOREM StopCorrect == Spec => []StopIsOnItsWay
<1>1. Types /\ StopInv => StopIsOnItsWay
  <2> SUFFICES ASSUME Types, StopInv, worker \notin {"created", "exits", "ended"},
                      NEW s \in Sessions, current = s /\ s \notin fIsSending
               PROVE  StopPending(s)
    BY DEF StopIsOnItsWay
  <2>1. Covered(s) /\ Holds(s)
    BY DEF StopInv, Owed, Holds
  <2> QED
    BY <2>1 DEF Covered, InQueue, StopPending, Types, Frames
<1> QED
  BY StopInit, TypesInit, TypesStep, StopStep, <1>1, PTL DEF Spec
=============================================================================
