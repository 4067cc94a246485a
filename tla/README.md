# TLA+ models of the Prudynt-SE streamer

Prudynt-SE is the streaming daemon of an IP camera: encoder threads fill ring
buffers, RTSP sessions read them, and a main thread starts, stops and restarts
all of it on request.  The program's own code is `src/src/`; `src/include`
holds vendored SDK headers and is left aside, and so are the vendor SDK (`IMP_*`)
and the RTSP library (live555), which enter only through how the code uses them.

The repository has no tests of its own for this code.  The models are written
from the source; the documents and comments are quoted only where a run shows
that the code does something else.

## The system

Threads: the **main** thread (supervisor); one **video worker** per stream, one
**audio worker**, one **JPEG worker** per snapshot stream, the **OSD**, **motion**
and **backchannel** threads; the **RTSP** thread, which runs live555's event loop
with the sources, sinks and sessions; and the **configuration watcher**, the
**WebSocket/HTTP** and the **IPC** threads, which make requests.

| component | state | operations | talks to | what is hard |
|---|---|---|---|---|
| StreamCore (`StreamCore.hpp`) | ring, sequence numbers, drop count, callbacks, cursors | register, unregister, publish, read | one worker, many sources | callbacks run outside the lock; overtaken cursors |
| RTSP delivery (`IMPDeviceSource`, `IMP*ServerMediaSubsession`) | cursor, awaiting, event trigger, session-ready map | PLAY, PAUSE, TEARDOWN, next frame, event | rings, live555 | events, requests and publishes interleave; audio waits for video; sources deleted |
| Presentation clock (`VideoWorker.cpp`, `IMPDeviceSource.cpp`) | time of the last frame; anchor and last times per source | stamp, normalise | worker to source | the timeline restarts under its viewers, clock jumps |
| Video worker (`VideoWorker.cpp`) | running, has_subscribers, keyframe seen, parameter cache | loop, init, deinit, retry | encoder SDK, ring, main | sampled subscriber count, restarts |
| Audio pipeline (`AudioWorker`, `AudioReframer`, `RingBuffer`, `Opus`, `AAC*`, `TimestampManager`) | sample buffer, time line | read, reframe, encode, publish | SDK, ring | remainders, time of a reframed frame |
| JPEG snapshots (`JPEGWorker.cpp`) | active, last request, releases, buffer, snapshot file | request, wake, encode, rename | WS, video worker | activation semaphores, shared file |
| Supervisor (`main.cpp`, `ConfigWatcher.cpp`, restarts in `WS.cpp`) | restart flags, threads, handles | start, wait, stop, join; requests | all threads | requests at any time, flags read twice, failing threads |
| Backchannel (`BackchannelSink`, `BackchannelWorker`, `MsgChannel`) | queue, is_sending, timers, current session, pipe | receive, time out, destroy, play | event loop, worker, main | overflow, notifications without the mutex |
| Backchannel session (`Backchannel*Subsession`, `BackchannelStreamState`) | sockets, RTP source, RTCP | SETUP, PLAY, TEARDOWN | live555 | repeated PLAY, several tracks of one session |
| RTSP bootstrap (`RTSP.cpp`) | parameter sets waited for | start, add subsession | video worker cache | timeouts, restart while waiting |
| WebSocket/HTTP (`WS.cpp`) | sessions, tokens | JSON get/set, actions, snapshots | configuration, main | restart requests, per-session state |
| IPC server (`IPCServer.cpp`) | client descriptors and threads | accept, handle, stop | prudyntctl | descriptors reused after close |
| Configuration (`Config.cpp`) | settings | load, get, set, save | everybody, unlocked | unsynchronised reload |
| Status files (`RTSPStatus.cpp`) | files per stream | write, remove | workers | written after removal |
| Motion (`Motion.cpp`) | detection counters, cooldown | poll, script | SDK | results not released, debounce |
| OSD (`OSD.cpp`) | regions, fonts | draw | encoders of active streams | encoders deleted under it |
| SDK wrappers, SPS patch, logger, sensor | | | | |

`PROJECT.json` lists every component with its status, and every hazard at its line.

What makes each correct, in one line each: the ring loses only its oldest frames and
wakes every reader; a viewer starts on a fresh keyframe and audio follows video; a
presentation clock never runs back or leaps; a restart stops what it starts, once, and
comes to an end (with the exceptions below); the pipe of the
backchannel is open exactly while a session owns it, and the worker does not sleep on
frames; a stream is offered with parameter sets of one run of its encoder and no stream keeps
the server from coming up; a session of the backchannel holds all it needs or nothing; a
request to the API is answered once; a script is told of the end of every motion it was told
the beginning of.

## Modules

**StreamRing** - the deque and the cursor of `StreamCore.hpp` as operators on values.
The loops of the code ("first entry such that ...") are relations on the index they stop
at, so nothing is recursive and everything can be expanded in a proof.

**LiveFeed** - what a live feed promises without a ring: frames in order, none twice,
loss only outside a window or for want of a sync frame.

**StreamCore** - the class: `Register`, `Unregister`, `Publish`, `InvokeCallback` (the
calls after the lock), `Read`, `ReadEmpty`.  Everything done under `mutex_` is one step.
`cursor` is the `Cursor` each subscriber owns, `calling` the local copy of the callbacks
in `publish`.  `log` and `out` are history; `woken` says that a subscriber was called
since it last found nothing.  `ImplementsLiveFeed` is the refinement.

**RtspDelivery** - uses StreamRing for a video and an audio ring and adds what surrounds
them: the video worker's sampled subscriber count and keyframe gate (`VideoSample`,
`VideoPack`, `VideoRestart`), the audio worker (`AudioFrame`), and the event loop with
`Setup`, `Play`, `Pause`, `Teardown`, `GetNextFrame` (a sink asks) and `HandleEvent` (a
trigger fires).  Handlers of the event loop are atomic with respect to each other, as in
live555; the workers' publishes and callbacks come between them.  `awaiting` is
`isCurrentlyAwaitingData`, `events` the triggers set, `ready` is `gSessionVideoReady`.

**PresentationClock** - the arithmetic of times, from `frame_timestamp_to_timeval` to
`normalizePresentationTimeUs`, one viewer's queue standing for the ring.  Times are small
numbers, `Expected` is one frame.  The raw clock of the sensor may stand still, jump or run back
(`Steps`); a restart of the worker clears what the stream remembers of it.  The wrap of 64-bit microseconds is out of reach of any
run of the program and left out.

**Backchannel** - `BackchannelSink` (event loop), `MsgChannel`, `BackchannelWorker` and
main's restart of it.  The handler of the event loop is cut where the worker can see the
difference: after counting, after the write, after the notification (`job`).  The wait of
the worker is cut between its predicate and its sleep (`WorkerChecks`, `WorkerBlocks`),
because the signallers do not hold the mutex.

**Supervisor** - main's loop as a walk through the components in the order of the code
(`StartOrder`, `StopOrder`), the life of every thread (`ComeUp`, `Fail`, `End`), and the
requests: the watcher's full restart, WebSocket restarts with their "dropped" answer,
settings that set a flag without the mutex, settings that only change what is enabled.
An order to stop may reach the backchannel worker between its predicate and its sleep
(`asleep`); only a client who begins or ends to talk wakes it then (`RouseBackchannel`).

**RingBuffer** - the byte ring of `RingBuffer.hpp` and the reframer on top of it, as operators
on values; the unit is a 16-bit sample.

**AudioPipeline** - the loop of `AudioWorker`: `Sample` (the head of the loop, with the reset
for the first subscriber), `GetFrame` (a frame of the device goes into the reframer or the
accumulator, or straight on), `EmitAac`/`EmitOpus` (one turn of the loops that take encoder
frames out), `Direct` (the time line and the publish), `Restart`.  `Join` and `Leave` are the
RTSP thread between any two of them.  Samples are numbered as captured, so a frame shows what
it holds.  `frames` and `seen` are history.

**JpegWorker** - the threads of `JPEGWorker.cpp`, their clients and main's stop of them.  The
wait is cut between its predicate and its sleep (`Evaluate`, `Sleep`), since clients (`Look`)
and main (`Tell`) notify without the mutex; a picture is cut into `Capture`, `OpenTemp`,
`Write` and `Rename`, between which the other channel may do the same.  Files are names for
inodes, `content` the channels whose data they hold.  `is_activated` is a count looked at up to
`MaxTokens`: the code releases it beyond its maximum of one.  Three times are taken as long
enough: main's 250 ms for the workers to start (`Settle`), the second a request lasts for the
way from a client's request to the notification, and from the wakeup to the encoder (`Expire`).
Only the activation of the video stream is an input (`SourceActive`): it never goes back.

**RtspBootstrap** - `RTSP::start` with `addSubsession` and `wait_for_bootstrap` (`CreateServer`,
`Announce`, `Load`, `Wait`, `GiveUp`, `Offer`, `Serve`, `Cleanup`, `CloseServer`), the video
worker as far as keyframes and parameter sets go (`Begin`, `ResetCache`, `Receive`, `LoopHead`,
`Pack`, `Retry`, `Report`), the status files both write, and main's restarts of either.  A set in
the cache is known by the run of the encoder it came from.  The wait is cut between reading the
cache (`Load`), and looking at the deadline (`Wait`), since the worker fills and empties the cache
in between.  `idr` says that the encoder owes a keyframe; `LoopHead` may lose it, as
`IMPEncoder::flush` asks for one before it discards what is queued; `FallsSilent` is an encoder
that delivers nothing any more.  A viewer is known by how its cursor stands to the keyframe that is
due to it (`viewer`): one past the next frame if the ring has never held one (`filled`), and handed
the keyframe only when the event loop gets to it (`Deliver`), before the ring of 512 units wraps.
The branch `keep_warm` of the worker is dead code, as `fsChn` is always `sourceChn`
(`globals.hpp:51-63`), and is left out.  Main does not restart the server during its bootstrap here: the
second RTSP thread that makes is `doubled` in Supervisor.

**BackchannelSession** - `getStreamParameters` step by step (`Setup`, `OpenRtp`, `OpenRtcp`,
`OpenDummies`, `CreateSource`), since other programs (`Others`) take and free ports during the
search, then `Play` and `Teardown`.  A port number has `PortNumbers` values and comes round to zero.
`report` is `rtcpInstance`; `orphans` is history, instances a second PLAY has lost.

**WsSession** - `ws_callback` for one connection, one action per callback and outcome.  Texts are
sequences of response numbers and separators (a response whose value contains a semicolon is cut
in two by `getline`, and so are its two messages here, see `Parts`); `tx`, `flags` and `sul` are `tx_message`, the bits
of `flag` and the timer.  What the keys of a request do is not modelled, restarts are in
Supervisor.  `HTTP_SEND_INVALID` is set by the code but never read, and left out.

**Motion** - `Motion::detect`: every picture takes one of `Discard`, `StartMotion`, `GoOnMoving`,
`Debounce`, `Rest` and `StopMotion`; scripts take time (`Started`, `Stopped`), in which main may
tell the thread to stop.  `moving` and `ignoreInitialPeriod` outlive the thread.  `recording` is
history, the calls of the script.

`*Proofs` hold the theorems; `MC*` and the `.cfg` files are the instances for TLC.

## Runs

| run | shows | bounds, and why they are enough |
|---|---|---|
| `core` | ring = numbered tail of the log; no lost wakeup; refinement of LiveFeed; catching up | ring of 2, 4 frames: it wraps twice; 2 subscribers, 2 joins: both at once, or one that comes back |
| `delivery` | no frame waits for the next; fresh keyframe first; audio after video; audio held back is delivered | 2 sessions, one with sound; video ring of 2 and 3 frames (wraps), audio ring of 2 and 2 frames (one whose event was used up before the video ran, and one after it); 2 PLAYs (a session pauses and plays again, or two play) |
| `clock` | clock never back, starts at one frame, never leaps | 2 viewers, steps of the clock from back beyond the frame before to more than ten frames ahead, 2 joins or restarts, 4 frames |
| `backchannel` | pipe follows session; stops on their way; sleep explained; senders served | 2 sinks, queue of 3 that 3 frames and 2 stops may overflow, 1 restart |
| `supervisor` | one thread per worker; main is woken; every restart ends, unless main joins a backchannel worker that slept through its order, and then once a client wakes that | 2 requests of any kind, 2 configurations, failures main survives |
| `audio` | ring and reframer never part, nothing overflows; every sample once and in order; times follow the samples; nobody is sent back in time | every format, mono and stereo; 2 subscribers, 3 joins, 1 restart; 25 samples, so the AAC ring of 16 words wraps and its remainders go through a whole cycle of 5 into 8 |
| `jpeg` | a whole picture at the path; the worker can be stopped; a picture is taken while somebody asks | one channel (two are `jpeg_shared`), 2 clients who ask without end, 1 restart, 1 change of the idle rate or spurious wakeup: enough for a wakeup, a stop or a change at every step of falling asleep |
| `bootstrap` | sets of one run; keyframes asked for only while somebody waits; the server comes up; viewers are handed a keyframe | one stream in H265 (three sets), 2 restarts of the server, the worker or both: the cache is emptied under a wait, and a viewer rejoins a restarted server |
| `backchannel_session` | all or nothing; an RTCP instance ends with its stream; the search ends | 2 sessions, 3 pairs of ports (either half may be taken, and both sessions compete), 3 SETUPs, 3 PLAYs of a session |
| `ws` | types and the limit of the queue; a preview is on its way; one response per message and in order; every request answered | 4 requests, so that a preview overlaps with another and with plain ones while the queue of 5 elements is emptied; bodies of 2 pieces |
| `motion` | the script follows the motion; motion ends | 2 regions, debounce of 3, times that differ from each other, 2 lives of the thread |

A counter with a `Max...` constant is bounded in the guard of its action; nothing else is.
Type invariants that no run lists (`TypeOK` of RtspDelivery, Supervisor, AudioPipeline,
RtspBootstrap, Motion, `JpegTypeOK`) document the variables; those of PresentationClock and Motion
are proved.

One run expects a violation, where code and documents disagree; it is the finding in
`PROJECT.json`: in `jpeg_shared` two JPEG workers share `/tmp/snapshot.tmp`, and a path gets an
empty file or the other channel's picture.

## Where the properties make exceptions

The properties of the passing runs hold in spite of what follows, and say so where they must:

- An order to stop the backchannel worker clears `running` and notifies without the mutex
  (`main.cpp:412`), so it may come between the predicate and the wait
  (`BackchannelWorker.cpp:299-306`), and main joins a worker that sleeps.  `RestartCompletes` excepts
  that (`asleep`) until a client wakes the worker, which nothing promises; `SendersAreServed` ends
  with `running`.  A worker that only starts would overwrite the order as well
  (`BackchannelWorker.cpp:296`), if the 250 ms main gives it (`Settle`) did not suffice.
- `WaitingMainIsWoken` and `OneThreadPerWorker` except a request that intruded on a restart: main
  clears the flags after it started threads, so what comes meanwhile is forgotten.  A setting that
  raises a flag without the mutex and without notifying main (`WS.cpp:1238`) leaves main asleep, and
  every request that finds it raised is dropped as "already in progress" (`WsIsDropped`).
- `PaceOfMono` and `SamplesInOrder` except stereo: Opus with `force_stereo` counts the samples of the
  mono device as stereo, and its time line runs at half speed; in AAC the reframer reads twice the
  words the device delivered.
- `NeverLeaps` allows the second frame of a viewer to land late by less than it: the anchor 0 counts
  as "not set" (`IMPDeviceSource.cpp:102`), so that frame is anchored anew.
- `StopIsOnItsWay` excepts a stop the queue dropped, and a worker that sleeps with the stop frame
  unread and the pipe open; `SleepIsExplained` a full queue (`MsgChannel` reports an overflow as
  failure although the frame is in, so nobody is notified).
- `StartsOnFreshKeyframe` allows the viewer of an empty ring to skip the keyframe requested for it,
  and `ViewersSeeKeyframe` excepts it: its cursor is one past the next frame (`StreamCore.hpp:178`,
  `IMPDeviceSource.cpp:287`), and with that keyframe published `producer_has_keyframe` is true and
  nobody asks again (`VideoWorker.cpp:582`).  It sees the next keyframe the encoder makes of itself.
  A silent encoder is excepted too.
- `PictureIsTaken` excepts a video stream that is not active, whose activation nobody signals.
- `MayFail` leaves out a video thread whose initialisation fails: it returns without telling main,
  which waits for ever.
- `ServerComesUp` says nothing of the streams: one whose sets arrive with the deadline is given up
  all the same (`RTSP.cpp:136`), for as long as the server runs.  The status files come back when a worker reports
  after the server removed them (`Report` after `Cleanup`).
- `OneResponseAtATime` excepts the greeting, which is not separated from the first response, and
  `EveryRequestAnswered` the responses to overlapping previews, those of an emptied queue, and a POST
  without a length.  A response with a semicolon in a value arrives in pieces.
- `ReportsEndWithStream` excepts a session that played twice: its first RTCP instance is lost.
- Motion keeps results of the initial period and of the cooldown without releasing them (`held`).

Deadlock is checked in `bootstrap` and `backchannel_session`, which never come to rest.  The
others rest when their bounded inputs are used up, and a thread waiting for ever in them is what
the liveness properties are about.

## Fairness

Threads of the program are scheduled, so a step a thread can take by itself is weakly
fair: callbacks of a publish that began, handlers of triggers that are set, the steps of
workers and of main.  A timer that was scheduled expires.
The JPEG clients and main get the mutex in the end though others take it in between, the
encoder of an active stream has a picture now and then, and a client that was given none asks
again; these are strongly fair, as the waits they stand for are bounded in the code.  So are, in
RtspBootstrap, the retry of a keyframe by a worker that waits for one (250 ms), the keyframe an
encoder owes, and its other frames, as long as it is not silent; the deadline of the RTSP thread
passes.  In Motion pictures come and time passes; in WsSession timers fire, sockets become
writable and announced bodies come; in BackchannelSession the event loop goes on with the SETUP it
is in, whatever other programs do, and in RtspBootstrap it hands viewers what the ring holds for
them.  No fairness is assumed of other clients (the one who would wake a backchannel worker that
slept through its order among them), of publishing, of requests, of failures, or of spurious wakeups.

## Proofs

*StreamCoreProofs*, for every set of subscribers and frames, every capacity and bound:
`TypeCorrect`, `RingCorrect`, `EdgeCorrect`, `WakeupCorrect` and `Refinement`.  The
invariant `IInv` joins to types and ring that cursors stay near the edge (needed where a
read looks for its index below the next sequence number) and that an active cursor has a
callback (needed for the next publish to reach it); with it every step of the ring maps to
a step of LiveFeed or stutters.

*PresentationClockProofs*, for any number of viewers, frame length and hardware clock, which may
jump, stand still or run back:
`ClockTypes`, `TimeNeverRunsBack`, `TimeBeginsAtDuration`, `TimeNeverLeaps`.  The invariant
is `SourcesKeep`: a source's presentation time is never below its source time minus its
anchor.  Without it the subtraction in `Shifted` could exceed what the source advanced.

*RtspDeliveryProofs*, for any sessions, tracks and capacities: `NoFrameWaits`,
`ViewersStartFresh`, `AudioWaitsForVideo`, the safety properties of `delivery`.  `IInv` adds to
the types that entries are numbered up to the latest frame (`Numbered`: a viewer that starts
behind the last entry has nothing to read), that only sessions that are set up capture
(`SetUp`: a callback that finds its source deleted wakes nobody who waits), that a video cursor
lies beyond what there was when it registered and still demands a keyframe (`Gated`), and that a
ready session whose audio plays has seen something (`Seen`: `ready` alone survives a pause).
`DeliverOutcome` says once what a delivery does; every step of the event loop uses it.

*BackchannelProofs*, for any sessions, queue and number of restarts: `BackchannelTypes`,
`PipeCorrect`, `SleepCorrect`, `StopCorrect`.  The types need `Counted`, what a sink's state
and its job say of the count.  The pipe is closed before the worker's first and after its last
step (`PipeInv`).  For the sleep it is the predicate evaluated in `WorkerChecks` that has to be
carried to the sleep (`Asleep`), and for the stop frames the frames of a session in the queue, in
hand and current, each with a stop behind it (`Covered`), from the write of the stop on (`Owed`).

*SupervisorProofs*, for any configurations, failures and number of requests:
`WorkersAreSingle`, `RequestsAreHeard`.  The two orders of main become ranks.  `Where` says in
which part of its round main may be, `Known` that every living thread is one main knows of, and
`Stopped` that what main has passed on its way through the stops is off until it passes it on the
way through the starts; `Pending` that a request is on the flags, with main not yet past its group.

*AudioPipelineProofs*, for any number of subscribers, one channel or two, any lengths of device
and encoder frames, sample rate and clock: `BacklogStaysBelowOneFrame`, `EncoderGetsSamplesInOrder`,
`TimesKeepPace`, `NobodyGoesBackInTime`.  Lemmas on `push`, `fetch`, `peek` and the reframer say what
they do to the numbered words in the ring, also where it wraps (`Holds`), and lemmas on `Ticks`
that two runs of samples last as long as they do together, up to one unit.  `IInv` adds to the
properties that the ring is one (`Types`), that outside the loop over encoder frames there is less
than one of them in it (`Backlog`: hence a device frame always fits), that ring, accumulator and
frame in hand hold the samples that come next, without a gap (`Contiguous`), and how far the time
line is ahead of what was published and of the samples since its beginning (`Times`, `OnPace`:
without the latter rounding could add up from frame to frame).

*RtspServerProofs* extends RtspBootstrap and BackchannelSession and holds the proofs of both.  For
any number of streams and restarts:
`OfferedSetsOfOneRun`, `AskedOnlyWhileWaiting`.  What a cache holds is of one run, and of the
present one unless the worker is about to empty it (`CacheOf`).  The second needs that main starts
the server's thread only when the old one has ended (`SignalOfThread`, `ThreadIsOff`).
For any finite set of sessions and even number of port numbers: `SessionHoldsAllOrNothing`,
`RtcpEndsWithStream`.  `Progress` and `Holdings` say how far a SETUP has come and what it holds by
then; `Unshared` that two sessions share no port but those the system gives.

*ServicesProofs* extends Motion, JpegWorker and WsSession and holds the proofs of the three.
- Motion, for all times, regions and restarts: `ScriptAlternates` (and the types).  The script is
  told by turns because what `moving` says is fixed while the script runs (`ScriptRuns`).
- JpegWorker with one channel, for any number of clients, restarts and changes of the idle rate:
  `FileOfOneChannelIsWhole`.  The invariant is about the temporary file (`TempFile`): it is there
  only while the worker writes it, the worker has it open, and it is not the file at the path, so
  neither opening it nor writing to it touches what others read.  It needs that main starts a worker
  only when the one before has ended (`StartsWhenOff`).  The hypothesis of one channel is needed:
  `jpeg_shared` shows the property violated with two.
- WsSession, for any limits: `QueueKeepsItsLimit`, `PromisedPreviewIsOnItsWay`,
  `ResponsesComeOneByOne`.  The first holds because the queue is looked at before a response is
  added to it (`QueuedFits`).  The second needs only that a connection that was not taken yet
  promised nothing.  For the third the queue holds responses in order, two of them never without a
  separator between them, and none when the flag does not say so (`AnswerText`: this is what makes
  the separator depend on the flag and not on the text); then a part of it is a run of positions
  without a separator (`PartIsRun`), which holds one response.

Modules that are proved about together share no name, so the standard names carry a prefix in
some of them (`BootInit`, `JpegSpec`, `ApiNext`, `ApiTypeOK`).

The assumptions are the named ASSUMEs of the modules, which TLC evaluates in every run, and the
one hypothesis that JpegWorker has one channel.  `FrameAssumption` of AudioPipeline is what the code sets up: `IMPAudio.cpp` tells the device to deliver frames of the
length the reframer was made for, or for Opus frames that fit below the cap of the accumulator, and
a frame of any encoder lasts a microsecond at least.

Induction is used in one form, that a set of numbers which is not empty has a least one
(`LeastExists`), where a text is cut into parts.  What a recursive definition computes is not
proved anywhere: loops of the code are relations on the place where they stop.

Model-checked only: liveness (fairness and ENABLED are out of the prover's reach), that is
`CatchesUp`, `AudioIsDelivered`, `SendersAreServed`, `RestartCompletes`, `StopCompletes`,
`PictureIsTaken`, `ServerComesUp`, `ViewersSeeKeyframe`, `EveryRequestAnswered`, `MotionEnds` and
`SetupEnds`.  Every safety property that a passing run checks is proved.

## Not modelled, and why

- `src/include`, `src/overrides` and the libraries: vendored headers of the SDK, which hold nine
  tenths of the repository's lines and no code of its own.
- Encoding, SDP, sockets, drawing, logging, the vendor SDK: data or library.  The SDK wrappers and
  the set-up of motion detection are sequences of calls whose effect is in the SDK.
- The IPC server: its answers are those of JpegWorker's clients; its slots and threads are not
  modelled yet.
- The configuration: a tree of settings with ranges, read by a library; what matters of it here, its
  reload under running threads, is in Supervisor.
- The keys of JSON requests: some hundred callbacks that read or write one setting each.
- The SPS patch: bit-level arithmetic on the bytes of one NAL unit.
- `stopPlaying` of the backchannel sink is never called by the code.  Several format tracks of one
  session that share its id are left out.
- A failure of `IMP_AI_GetFrame` after a successful poll (`AudioWorker.cpp:424-432`): the loop goes
  on with a frame nobody filled, which is undefined behaviour.
- A timeout of a deleted sink and a callback of a deleted source are undefined behaviour;
  the models let them do nothing, and the former also what the memory left behind makes it do.
- `jpeg` in Supervisor stands for stream2; stream3 has a thread of the same shape.

## Plan

1. done: StreamRing, LiveFeed, StreamCore and proofs; Backchannel; Supervisor;
   PresentationClock and proofs; RtspDelivery; AudioPipeline; JpegWorker.
2. done: RtspBootstrap, BackchannelSession, WsSession, Motion.
3. IPCServer (slots, threads, its clients of JpegWorker); MediaPipeline (create, enable, bind and
   destroy of the SDK wrappers under partial failure); the SPS patch as a pure algorithm.
4. done: proofs of RtspDelivery, Backchannel, Supervisor, RtspBootstrap, BackchannelSession,
   Motion, AudioPipeline, JpegWorker and WsSession.  Open: the type invariants no run lists.
