--------------------------- MODULE AudioPipeline ---------------------------
(***************************************************************************)
(* AudioWorker: one thread takes frames of samples from the device, cuts   *)
(* them to the length the encoder wants (AAC through the reframer, Opus    *)
(* through an accumulator, other formats as they come), gives each encoder *)
(* frame its place on a time line counted in samples, and publishes it.    *)
(*                                                                         *)
(* Samples are numbered in the order the device captured them, so that a   *)
(* frame shows which samples it holds.  The subscribers come and go in the *)
(* RTSP thread; the worker looks at their number at the head of its loop   *)
(* and again at each publish.                                              *)
(***************************************************************************)
EXTENDS RingBuffer, FiniteSets

CONSTANTS
  Subscribers,       \* the audio sources of RTSP sessions
  Setups,            \* pairs of input_format and force_stereo
  DeviceFrames,      \* for each format the lengths of frames the device gives
  AacInput,          \* samples the reframer takes for a device frame (40 ms)
  AacOutput,         \* samples of an AAC frame (1024)
  OpusTarget,        \* samples of an Opus frame (20 ms)
  CapFrames,         \* buffer_cap_frames
  SampleRate,        \* samples per second
  Second,            \* units of time per second
  VideoTimes,        \* where the video time line may be when audio begins
  MaxCaptured,       \* bound on the samples captured
  MaxJoins,          \* bound on subscriptions
  MaxRestarts        \* bound on restarts of the worker

Formats == {"AAC", "OPUS", "PCM"}   \* PCM stands for the G.711 and G.726 too

ASSUME PipelineAssumption ==
  /\ Setups # {} /\ Setups \subseteq (Formats \X BOOLEAN)
  /\ DeviceFrames \in [Formats -> SUBSET (Nat \ {0})]
  /\ {AacInput, AacOutput, OpusTarget, SampleRate, Second} \subseteq Nat \ {0}
  /\ CapFrames \in Nat \ {0, 1}
  /\ VideoTimes # {} /\ VideoTimes \subseteq Nat
  /\ {MaxCaptured, MaxJoins, MaxRestarts} \subseteq Nat

(* The device was told the frame length the reframer expects (AAC: 40 ms), *)
(* or one the accumulator takes below its cap (Opus: 20 ms), and the frames*)
(* of every encoder last a unit of time at least.                          *)
ASSUME FrameAssumption ==
  /\ DeviceFrames["AAC"] \subseteq {AacInput}
  /\ \A n \in DeviceFrames["OPUS"] : n + OpusTarget <= CapFrames * OpusTarget + 1
  /\ \A n \in {AacOutput, OpusTarget} \cup DeviceFrames["PCM"] : n * Second >= SampleRate

VARIABLES
  subscribers,   \* those registered with the audio ring
  setup,         \* the format and channels of the worker that runs
  pc,            \* where it stands: "sample", "poll" or "emit"
  had,           \* had_subscribers, has_subscribers after the head of the loop
  reframer,      \* the AudioReframer of an AAC worker
  frameBuffer,   \* the accumulator of an Opus worker
  timeline,      \* sampleTimelineUs
  lastTime,      \* last_timestamp_us
  origin,        \* presentation_origin_us
  dropped,       \* bufferDropCount
  captured,      \* number of the last sample captured
  frames,        \* history: what went to the encoder since the last reset
  seen,          \* history: the last time each subscriber was given
  joins, restarts

loop   == << pc, had, reframer, frameBuffer, setup, dropped >>
clock  == << timeline, lastTime, origin, frames >>
others == << subscribers, joins, restarts >>
vars   == << loop, clock, captured, seen, others >>

Format   == setup[1]
Channels == IF setup[2] THEN 2 ELSE 1

FreshReframer == AudioReframer(AacInput, AacOutput, Channels)

Init ==
  /\ subscribers = {} /\ joins = 0 /\ restarts = 0
  /\ setup \in Setups
  /\ pc = "sample" /\ had = FALSE
  /\ reframer = FreshReframer
  /\ frameBuffer = << >> /\ dropped = 0
  /\ timeline = 0 /\ lastTime = 0 /\ origin = 0
  /\ captured = 0 /\ frames = << >>
  /\ seen = [s \in Subscribers |-> 0]

-----------------------------------------------------------------------------
(* The RTSP thread registers and unregisters audio sources.                *)

Join(s) ==
  /\ s \notin subscribers /\ joins < MaxJoins
  /\ subscribers' = subscribers \cup {s} /\ joins' = joins + 1
  /\ UNCHANGED << loop, clock, captured, seen, restarts >>

Leave(s) ==
  /\ s \in subscribers
  /\ subscribers' = subscribers \ {s}
  /\ seen' = [seen EXCEPT ![s] = 0]
  /\ UNCHANGED << loop, clock, captured, joins, restarts >>

-----------------------------------------------------------------------------
(* The head of the loop: the first subscriber begins a new time line and   *)
(* drops what was accumulated before.                                      *)

ResetTimeline ==
  /\ timeline' = 0 /\ lastTime' = 0 /\ origin' = 0 /\ frames' = << >>
  /\ frameBuffer' = << >> /\ reframer' = FreshReframer

MutantSampleResetsAlways ==
  /\ pc = "sample" /\ pc' = "poll"
  /\ had' = (subscribers # {})
  /\ IF subscribers # {} THEN ResetTimeline
                         ELSE UNCHANGED << clock, frameBuffer, reframer >>
  /\ UNCHANGED << setup, dropped, captured, seen, others >>

Sample ==
  /\ pc = "sample" /\ pc' = "poll"
  /\ had' = (subscribers # {})
  /\ IF had' /\ ~had THEN ResetTimeline
                     ELSE UNCHANGED << clock, frameBuffer, reframer >>
  /\ UNCHANGED << setup, dropped, captured, seen, others >>

(* No frame within the polling time, or the input is switched off.         *)
PollTimeout ==
  /\ pc = "poll" /\ pc' = "sample"
  /\ UNCHANGED << had, reframer, frameBuffer, setup, dropped, clock, captured,
                  seen, others >>

-----------------------------------------------------------------------------
(* process_audio_frame_direct: words is one frame for the encoder.  The    *)
(* first one of a time line starts where video is, or one frame after zero.*)
(* The time line moves on whether or not the frame could be encoded.       *)

(* input_frame_duration_us: whole units of time.                           *)
Ticks(samples) == (samples * Second) \div SampleRate
MutantDurationOfWords(words) == Larger(1, Ticks(Len(words)))

Duration(words) == Larger(1, Ticks(Len(words) \div Channels))

(* pick_audio_anchor_us and presentation_origin_us                         *)
OriginFor(words, video) ==
  IF origin = 0 THEN Larger(Duration(words), video) ELSE origin

TimeFor(words, video) ==
  LET wanted == IF timeline = 0 THEN OriginFor(words, video) ELSE timeline
  IN IF lastTime # 0 /\ wanted <= lastTime
     THEN lastTime + Duration(words) ELSE wanted

(* Stereo is made of mono by doubling every sample.                        *)
Upmixed(words) == [i \in 1 .. 2 * Len(words) |-> words[(i + 1) \div 2]]

Direct(words) ==
  \E video \in VideoTimes, encoded \in BOOLEAN :
    LET time == TimeFor(words, video)
    IN /\ origin' = OriginFor(words, video)
       /\ timeline' = time + Duration(words)
       /\ lastTime' = time
       /\ frames' = Append(frames, [words |-> words, time |-> time])
       /\ seen' = [s \in Subscribers |->
                     IF encoded /\ s \in subscribers THEN time ELSE seen[s]]

-----------------------------------------------------------------------------
(* A frame of the device, process_frame up to the first encoder frame.     *)

Captured(n) == [i \in 1 .. n |-> captured + i]

(* The accumulator gives up its oldest samples above the cap.  The loop of *)
(* the code is left after one turn: what it takes brings the prediction    *)
(* down to the cap.                                                        *)
Predicted(data) == Len(frameBuffer) \div Channels + Len(data) \div Channels

Overflows(data) == Predicted(data) > CapFrames * OpusTarget /\ frameBuffer # << >>

WordsDropped(data) ==
  LET excess == Larger(OpusTarget, Predicted(data) - CapFrames * OpusTarget) * Channels
  IN IF excess < Len(frameBuffer) THEN excess ELSE Len(frameBuffer)

Accumulated(data) ==
  IF Overflows(data)
  THEN SubSeq(frameBuffer, WordsDropped(data) + 1, Len(frameBuffer)) \o data
  ELSE frameBuffer \o data

(* addFrame throws when its ring is full, and the worker starts over.      *)
Reframe(data) ==
  reframer' = IF Fits(reframer.buffer, InputWords(reframer))
              THEN AddFrame(reframer, data) ELSE FreshReframer

(* IMP_AI_GetFrame after a successful poll, taken to succeed: the code goes *)
(* on without a frame, on memory nobody wrote, when it does not.           *)
GetFrame(n) ==
  /\ pc = "poll" /\ n \in DeviceFrames[Format] /\ captured + n <= MaxCaptured
  /\ captured' = captured + n
  /\ \/ /\ ~had /\ pc' = "sample"
        /\ UNCHANGED << clock, seen, reframer, frameBuffer, dropped >>
     \/ /\ had /\ Format = "AAC" /\ pc' = "emit" /\ Reframe(Captured(n))
        /\ UNCHANGED << clock, seen, frameBuffer, dropped >>
     \/ /\ had /\ Format = "OPUS" /\ pc' = "emit"
        /\ frameBuffer' = Accumulated(Captured(n))
        /\ dropped' = IF Overflows(Captured(n)) THEN dropped + 1 ELSE dropped
        /\ UNCHANGED << clock, seen, reframer >>
     \/ /\ had /\ Format = "PCM" /\ pc' = "sample"
        /\ Direct(IF Channels = 2 THEN Upmixed(Captured(n)) ELSE Captured(n))
        /\ UNCHANGED << reframer, frameBuffer, dropped >>
  /\ UNCHANGED << had, setup, others >>

-----------------------------------------------------------------------------
(* The loops that take encoder frames out of what was accumulated.         *)

OpusWords == OpusTarget * Channels
MoreOpus  == Len(frameBuffer) \div Channels >= OpusTarget

(* The reframed frame still says that it is mono, so it is doubled again.  *)
EmitAac ==
  /\ pc = "emit" /\ Format = "AAC" /\ HasMoreFrames(reframer)
  /\ LET words == ReframedFrame(reframer)
     IN Direct(IF Channels = 2 THEN Upmixed(words) ELSE words)
  /\ reframer' = AfterReframed(reframer)
  /\ UNCHANGED << pc, had, frameBuffer, setup, dropped, captured, others >>

MutantOneOpus ==
  /\ pc = "emit" /\ Format = "OPUS" /\ MoreOpus /\ pc' = "sample"
  /\ Direct(SubSeq(frameBuffer, 1, OpusWords))
  /\ frameBuffer' = SubSeq(frameBuffer, OpusWords + 1, Len(frameBuffer))
  /\ UNCHANGED << had, reframer, setup, dropped, captured, others >>

EmitOpus ==
  /\ pc = "emit" /\ Format = "OPUS" /\ MoreOpus
  /\ Direct(SubSeq(frameBuffer, 1, OpusWords))
  /\ frameBuffer' = SubSeq(frameBuffer, OpusWords + 1, Len(frameBuffer))
  /\ UNCHANGED << pc, had, reframer, setup, dropped, captured, others >>

EmitDone ==
  /\ pc = "emit" /\ pc' = "sample"
  /\ Format = "AAC" => ~HasMoreFrames(reframer)
  /\ Format = "OPUS" => ~MoreOpus
  /\ UNCHANGED << had, reframer, frameBuffer, setup, dropped, clock, captured,
                  seen, others >>

-----------------------------------------------------------------------------
(* Main stops the worker, which sees it at the head of its loop, and       *)
(* starts another under the present configuration.  Subscribers stay; the  *)
(* new time line is another life, so what they have seen is forgotten.     *)
Restart(new) ==
  /\ pc = "sample" /\ restarts < MaxRestarts /\ restarts' = restarts + 1
  /\ setup' = new /\ had' = FALSE /\ dropped' = 0
  /\ timeline' = 0 /\ lastTime' = 0 /\ origin' = 0 /\ frames' = << >>
  /\ frameBuffer' = << >>
  /\ reframer' = AudioReframer(AacInput, AacOutput, IF new[2] THEN 2 ELSE 1)
  /\ seen' = [s \in Subscribers |-> 0]
  /\ UNCHANGED << pc, captured, subscribers, joins >>

Next ==
  \/ \E s \in Subscribers : Join(s) \/ Leave(s)
  \/ Sample \/ PollTimeout
  \/ \E n \in DeviceFrames[Format] : GetFrame(n)
  \/ EmitAac \/ EmitOpus \/ EmitDone
  \/ \E new \in Setups : Restart(new)

Spec == Init /\ [][Next]_vars

-----------------------------------------------------------------------------
(* Properties.                                                             *)

Words == Nat \cup {Stray}

(* The fields keep their types.                                            *)
TypeOK ==
  /\ subscribers \subseteq Subscribers /\ setup \in Setups
  /\ pc \in {"sample", "poll", "emit"} /\ had \in BOOLEAN
  /\ frameBuffer \in Seq(Words)
  /\ {timeline, lastTime, origin, dropped, captured, joins, restarts} \subseteq Nat
  /\ seen \in [Subscribers -> Nat]
  /\ reframer.samplesAccumulated \in Nat
  /\ LET ring == reframer.buffer
     IN /\ ring.size \in 0 .. ring.capacity
        /\ {ring.head, ring.tail} \subseteq 0 .. ring.capacity - 1
        /\ ring.cells \in [0 .. ring.capacity - 1 -> Words]
  /\ \A i \in DOMAIN frames : frames[i].words \in Seq(Words) /\ frames[i].time \in Nat

(* AudioReframer counts samples, its ring counts words: they never part,   *)
(* and before the next frame of the device both accumulators hold less     *)
(* than one frame of the encoder, so nothing is ever dropped or thrown.    *)
BacklogBelowOneFrame ==
  /\ reframer.buffer.size = reframer.samplesAccumulated * reframer.channelCount
  /\ pc # "emit" => ~HasMoreFrames(reframer) /\ ~MoreOpus
  /\ dropped = 0
  /\ Fits(reframer.buffer, InputWords(reframer)) \/ pc = "emit"

(* The encoder is given every sample once and in order, from the first     *)
(* frame of a time line on, however frames are cut.  (AAC in stereo is the *)
(* exception: the reframer reads twice the words the device delivered.)    *)
Copies == IF Format = "PCM" THEN Channels ELSE 1

SamplesInOrder ==
  setup # << "AAC", TRUE >> =>
    \A k \in DOMAIN frames :
      LET words == frames[k].words
          first == IF k = 1 THEN words[1]
                   ELSE frames[k - 1].words[Len(frames[k - 1].words)] + 1
      IN \A i \in DOMAIN words : words[i] = first + (i - 1) \div Copies

(* Published times follow the samples: between two frames of a time line   *)
(* pass as many units as the samples between them take, up to one unit per *)
(* frame for rounding.                                                     *)
KeepsPace ==
  \A k \in DOMAIN frames :
    LET passed == frames[k].time - frames[1].time
        due    == Ticks(frames[k].words[1] - frames[1].words[1])
    IN passed <= due /\ due < passed + k

PaceOfMono == (setup[2] => Format = "PCM") => KeepsPace

(* A subscriber that stays is never given a time that is not later than    *)
(* the last one, whoever else comes and goes.                              *)
NeverBackInTime ==
  [][\A s \in Subscribers :
       seen[s] # 0 /\ seen'[s] \notin {0, seen[s]} => seen'[s] > seen[s]]_vars
=============================================================================
