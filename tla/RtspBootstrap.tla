---------------------------- MODULE RtspBootstrap ----------------------------
(***************************************************************************)
(* How a stream gets into the RTSP server: the RTSP thread asks the video  *)
(* worker for parameter sets (wait_for_bootstrap in RTSP.cpp), waits for   *)
(* them five seconds per stream, and offers the stream or goes on without  *)
(* it; the video worker takes the sets from the encoder into a cache that  *)
(* it empties whenever it starts (VideoWorker.cpp); both write the files   *)
(* of RTSPStatus.cpp; and main restarts either or both.                    *)
(*                                                                         *)
(* The encoder is external.  It is taken to make keyframes, with their     *)
(* parameter sets, only when it is asked to or when it pleases.  Main does *)
(* not restart the RTSP server during its bootstrap here: the second       *)
(* server it starts then is the subject of Supervisor.                     *)
(***************************************************************************)
EXTENDS Integers, Sequences

CONSTANTS
  LastStream,   \* streams are 0 .. LastStream
  H265,         \* streams in this format, which needs a third set
  MaxRestarts   \* bound on the restarts of main

Streams == 0 .. LastStream
Kinds   == {"vps", "sps", "pps"}

ASSUME BootstrapAssumption ==
  /\ LastStream \in Nat /\ MaxRestarts \in Nat
  /\ H265 \subseteq Streams

VARIABLES
  worker,    \* [Streams -> what the thread does]
  packs,     \* [Streams -> packs of the present frame still to be taken]
  running,
  run,       \* [Streams -> which run of the encoder this is]
  idr,       \* [Streams -> the encoder owes a keyframe]
  silent,    \* streams whose encoder delivers nothing any more
  cache,     \* [Streams -> [Kinds -> run the set is of, 0 if not held]]
  key,       \* producer_has_keyframe
  asked,     \* bootstrap_requested
  viewer,    \* [Streams -> how the stream's viewer stands, see Standings]
  filled,    \* the stream's ring has held a frame: it never runs empty again
  had,       \* had_subscribers
  sampled,   \* [Streams -> has_subscribers, and whether a keyframe is waited for]
  rtsp,      \* what the RTSP thread does, and for which stream
  signal,    \* global_rtsp_thread_signal # 0
  late,      \* the deadline of the present wait has passed
  offered,   \* [Streams -> sets of the stream's subsession, none if not offered]
  status,    \* [Streams -> content of the file "state"]
  runtime,   \* [Streams -> files of publish_video_runtime_status exist]
  main, groups, restarts

workerVars == << worker, packs, running, run, key, had, sampled, filled, silent >>
serverVars == << rtsp, signal, late, offered, status >>
mainVars   == << main, groups, restarts >>
bootVars == << workerVars, serverVars, mainVars, idr, cache, asked, viewer, runtime >>

At(what, c) == [at |-> what, stream |-> c]

(* A viewer's cursor: there is no viewer; its cursor is one past the next  *)
(* frame, or a keyframe is due to it, or it passed over the one it asked   *)
(* for; a keyframe lies ahead of it in the ring; it was handed one.        *)
Standings == {"none", "past", "due", "skipped", "ahead", "seen"}

(* subscriberCount() > 0 *)
Viewed(c) == viewer[c] # "none"

NoSets == [k \in Kinds |-> 0]
Needed(c) == IF c \in H265 THEN Kinds ELSE {"sps", "pps"}
Holds(sets, c) == \A k \in Needed(c) : sets[k] # 0

BootInit ==
  /\ worker = [c \in Streams |-> "off"] /\ packs = [c \in Streams |-> << >>]
  /\ running = [c \in Streams |-> FALSE] /\ run = [c \in Streams |-> 0]
  /\ silent = {} /\ idr = [c \in Streams |-> FALSE] /\ cache = [c \in Streams |-> NoSets]
  /\ key = [c \in Streams |-> FALSE] /\ asked = [c \in Streams |-> FALSE]
  /\ viewer = [c \in Streams |-> "none"] /\ had = [c \in Streams |-> FALSE]
  /\ sampled = [c \in Streams |-> [viewers |-> FALSE, waits |-> FALSE]]
  /\ filled = [c \in Streams |-> FALSE]
  /\ rtsp = At("off", 0) /\ signal = TRUE /\ late = FALSE
  /\ offered = [c \in Streams |-> NoSets]
  /\ status = [c \in Streams |-> "none"] /\ runtime = [c \in Streams |-> FALSE]
  /\ main = At("start", 0) /\ groups = {"rtsp", "video"} /\ restarts = 0

Go(c, from, to) == worker[c] = from /\ worker' = [worker EXCEPT ![c] = to]

-----------------------------------------------------------------------------
(* The video worker.                                                       *)

(* thread_entry, up to the mutex of the cache.                             *)
Begin(c) ==
  /\ Go(c, "born", "reset")
  /\ key' = [key EXCEPT ![c] = FALSE] /\ asked' = [asked EXCEPT ![c] = FALSE]
  /\ UNCHANGED << silent, packs, running, run, had, sampled, filled, idr, cache, viewer,
                  runtime, serverVars, mainVars >>

MutantKeepsPps(c) ==
  /\ Go(c, "reset", "receive")
  /\ cache' = [cache EXCEPT ![c] = [NoSets EXCEPT !["pps"] = cache[c]["pps"]]]
  /\ UNCHANGED << silent, packs, running, run, key, had, sampled, filled, idr, asked,
                  viewer, runtime, serverVars, mainVars >>

ResetCache(c) ==
  /\ Go(c, "reset", "receive")
  /\ cache' = [cache EXCEPT ![c] = NoSets]
  /\ UNCHANGED << silent, packs, running, run, key, had, sampled, filled, idr, asked,
                  viewer, runtime, serverVars, mainVars >>

Receive(c) ==
  /\ Go(c, "receive", "head")
  /\ idr' = [idr EXCEPT ![c] = TRUE] /\ running' = [running EXCEPT ![c] = TRUE]
  /\ had' = [had EXCEPT ![c] = FALSE]
  /\ UNCHANGED << silent, packs, run, key, sampled, filled, cache, asked, viewer,
                  runtime, serverVars, mainVars >>

End(c) ==
  /\ ~running[c] /\ Go(c, "head", "off")
  /\ UNCHANGED << silent, packs, running, run, key, had, sampled, filled, idr, cache, asked,
                  viewer, runtime, serverVars, mainVars >>

(* The head of the loop.  For a first viewer flush asks for a keyframe and *)
(* discards what the encoder has queued, that keyframe perhaps included.   *)
LoopHead(c) ==
  /\ running[c] /\ Go(c, "head", "poll")
  /\ had' = [had EXCEPT ![c] = Viewed(c)]
  /\ LET first == Viewed(c) /\ ~had[c]
         has   == key[c] /\ ~first
     IN /\ key' = [key EXCEPT ![c] = has]
        /\ sampled' = [sampled EXCEPT ![c] =
             [viewers |-> Viewed(c),
              waits   |-> (Viewed(c) \/ asked[c]) /\ ~has]]
        /\ \E owed \in BOOLEAN :
             /\ first \/ owed = idr[c]
             /\ idr' = [idr EXCEPT ![c] = owed]
  /\ UNCHANGED << silent, packs, running, run, filled, cache, asked, viewer, runtime,
                  serverVars, mainVars >>

(* Polling times out.                                                      *)
NoFrame(c) ==
  /\ Go(c, "poll", "head")
  /\ UNCHANGED << silent, packs, running, run, key, had, sampled, filled, idr, cache, asked,
                  viewer, runtime, serverVars, mainVars >>

Keyframe(c) == (IF c \in H265 THEN << "vps" >> ELSE << >>) \o << "sps", "pps", "idr" >>

Frame(c, frame) ==
  /\ c \notin silent /\ Go(c, "poll", "packs")
  /\ packs' = [packs EXCEPT ![c] = frame]
  /\ idr' = [idr EXCEPT ![c] = @ /\ frame # Keyframe(c)]
  /\ UNCHANGED << silent, running, run, key, had, sampled, filled, cache, asked, viewer,
                  runtime, serverVars, mainVars >>

(* Where a frame that is published leaves a viewer.                        *)
Published(standing, pack) ==
  CASE standing = "past" -> IF pack = "idr" THEN "skipped" ELSE "due"
    [] standing \in {"due", "skipped"} /\ pack = "idr" -> "ahead"
    [] OTHER -> standing

(* update_parameter_cache: a parameter set goes into the cache.            *)
Cached(c, pack) == IF pack \in Kinds THEN [cache EXCEPT ![c][pack] = run[c]] ELSE cache

(* A keyframe opens the stream; what is published is what comes from the   *)
(* keyframe on, if there were viewers at the head of the loop.             *)
Pack(c) ==
  /\ worker[c] = "packs" /\ packs[c] # << >>
  /\ packs' = [packs EXCEPT ![c] = Tail(@)]
  /\ LET pack == Head(packs[c])
     IN /\ cache' = Cached(c, pack)
        /\ key' = [key EXCEPT ![c] = @ \/ pack = "idr"]
        /\ IF sampled[c].viewers /\ (key[c] \/ pack = "idr")
           THEN /\ filled' = [filled EXCEPT ![c] = TRUE]
                /\ viewer' = [viewer EXCEPT ![c] = Published(@, pack)]
           ELSE UNCHANGED << filled, viewer >>
  /\ UNCHANGED << silent, worker, running, run, had, sampled, idr, asked, runtime,
                  serverVars, mainVars >>

NextRound(c) ==
  /\ packs[c] = << >> /\ Go(c, "packs", "head")
  /\ UNCHANGED << silent, packs, running, run, key, had, sampled, filled, idr, cache, asked,
                  viewer, runtime, serverVars, mainVars >>

(* The encoder stops delivering, until it is made anew.                    *)
FallsSilent(c) ==
  /\ running[c] /\ c \notin silent /\ silent' = silent \cup {c}
  /\ UNCHANGED << worker, packs, running, run, key, had, sampled, filled, idr, cache,
                  asked, viewer, runtime, serverVars, mainVars >>

MutantRetriesAfter(c) ==
  /\ packs[c] = << >> /\ Go(c, "packs", "head")
  /\ sampled[c].waits /\ key[c]
  /\ idr' = [idr EXCEPT ![c] = TRUE]
  /\ UNCHANGED << silent, packs, running, run, key, had, sampled, filled, cache, asked,
                  viewer, runtime, serverVars, mainVars >>

(* Still no keyframe: it is asked for again, every 250 ms.                 *)
Retry(c) ==
  /\ packs[c] = << >> /\ Go(c, "packs", "head")
  /\ sampled[c].waits /\ ~key[c]
  /\ idr' = [idr EXCEPT ![c] = TRUE]
  /\ UNCHANGED << silent, packs, running, run, key, had, sampled, filled, cache, asked,
                  viewer, runtime, serverVars, mainVars >>

(* publish_video_runtime_status writes its files, whatever they contain.   *)
PublishRuntimeStatus(c) == runtime' = [runtime EXCEPT ![c] = TRUE]

(* Once a second: the status files, and maybe one of the two keyframes of  *)
(* idr_fix.                                                                *)
Report(c) ==
  /\ packs[c] = << >> /\ Go(c, "packs", "head")
  /\ \E owed \in BOOLEAN : idr' = [idr EXCEPT ![c] = @ \/ owed]
  /\ PublishRuntimeStatus(c)
  /\ UNCHANGED << silent, packs, running, run, key, had, sampled, filled, cache, asked,
                  viewer, serverVars, mainVars >>

-----------------------------------------------------------------------------
(* The RTSP thread.                                                        *)

Says(state, c) == status' = [status EXCEPT ![c] = state]
NextStream(c) == IF c = LastStream THEN At("up", 0) ELSE At("announce", c + 1)

(* Without a server the thread ends, and the signal stays set.             *)
CreateServer ==
  /\ rtsp = At("create", 0) /\ rtsp' \in {At("announce", 0), At("off", 0)}
  /\ UNCHANGED << signal, late, offered, status, workerVars, mainVars, idr, cache,
                  asked, viewer, runtime >>

(* addSubsession, up to the wait.                                          *)
Announce(c) ==
  /\ rtsp = At("announce", c) /\ rtsp' = At("load", c)
  /\ asked' = [asked EXCEPT ![c] = TRUE] /\ Says("initializing", c)
  /\ late' = FALSE
  /\ UNCHANGED << signal, offered, workerVars, mainVars, idr, cache, viewer, runtime >>

(* load_cached_parameter_sets copies what the cache holds, or nothing.     *)
Load(c) ==
  /\ rtsp = At("load", c)
  /\ IF Holds(cache[c], c)
     THEN rtsp' = At("offer", c) /\ offered' = [offered EXCEPT ![c] = cache[c]]
     ELSE rtsp' = At("wait", c) /\ UNCHANGED offered
  /\ UNCHANGED << signal, late, status, workerVars, mainVars, idr, cache, asked,
                  viewer, runtime >>

MutantWaitsOn(c) ==
  /\ rtsp = At("wait", c)
  /\ idr' \in {idr, [idr EXCEPT ![c] = TRUE]}
  /\ rtsp' = At("load", c)
  /\ UNCHANGED << signal, late, offered, status, workerVars, mainVars, cache, asked,
                  viewer, runtime >>

(* At most 500 ms on the condition variable, then a request for a keyframe *)
(* if the last one is 250 ms old, then a look at the deadline.             *)
Wait(c) ==
  /\ rtsp = At("wait", c)
  /\ idr' \in {idr, [idr EXCEPT ![c] = TRUE]}
  /\ rtsp' = At(IF late THEN "giveup" ELSE "load", c)
  /\ UNCHANGED << signal, late, offered, status, workerVars, mainVars, cache, asked,
                  viewer, runtime >>

Deadline ==
  /\ rtsp.at \in {"load", "wait"} /\ ~late /\ late' = TRUE
  /\ UNCHANGED << rtsp, signal, offered, status, workerVars, mainVars, idr, cache,
                  asked, viewer, runtime >>

MutantStaysAsked(c) ==
  /\ rtsp = At("giveup", c) /\ rtsp' = NextStream(c) /\ Says("error", c)
  /\ UNCHANGED << signal, late, offered, workerVars, mainVars, idr, cache, asked,
                  viewer, runtime >>

GiveUp(c) ==
  /\ rtsp = At("giveup", c) /\ rtsp' = NextStream(c) /\ Says("error", c)
  /\ asked' = [asked EXCEPT ![c] = FALSE]
  /\ UNCHANGED << signal, late, offered, workerVars, mainVars, idr, cache, viewer,
                  runtime >>

(* The session with its subsessions, made of the copies.                   *)
Offer(c) ==
  /\ rtsp = At("offer", c) /\ rtsp' = NextStream(c) /\ Says("ready", c)
  /\ asked' = [asked EXCEPT ![c] = FALSE]
  /\ UNCHANGED << signal, late, offered, workerVars, mainVars, idr, cache, viewer,
                  runtime >>

Serve ==
  /\ rtsp = At("up", 0) /\ rtsp' = At("serve", 0) /\ signal' = FALSE
  /\ UNCHANGED << late, offered, status, workerVars, mainVars, idr, cache, asked,
                  viewer, runtime >>

(* The event loop: a source of the stream is switched on or off.  Its      *)
(* cursor is one past the next frame if the ring is empty (LiveEdge is the *)
(* next frame then, not the latest, and the source adds one).              *)
Join(c) ==
  /\ rtsp = At("serve", 0) /\ ~signal /\ offered[c] # NoSets /\ ~Viewed(c)
  /\ viewer' = [viewer EXCEPT ![c] = IF filled[c] THEN "due" ELSE "past"]
  /\ idr' = [idr EXCEPT ![c] = TRUE]
  /\ UNCHANGED << workerVars, serverVars, mainVars, cache, asked, runtime >>

(* deliverFrame comes to the keyframe, in time: the ring holds 512 units.  *)
Deliver(c) ==
  /\ rtsp = At("serve", 0) /\ viewer[c] = "ahead"
  /\ viewer' = [viewer EXCEPT ![c] = "seen"]
  /\ UNCHANGED << workerVars, serverVars, mainVars, idr, cache, asked, runtime >>

Leave(c) ==
  /\ rtsp = At("serve", 0) /\ ~signal /\ Viewed(c)
  /\ viewer' = [viewer EXCEPT ![c] = "none"]
  /\ UNCHANGED << workerVars, serverVars, mainVars, idr, cache, asked, runtime >>

(* The loop ends when it sees the signal; the files go first, the server   *)
(* with its sessions and their sources next.                               *)
Cleanup ==
  /\ rtsp = At("serve", 0) /\ signal /\ rtsp' = At("close", 0)
  /\ status' = [c \in Streams |-> "none"] /\ runtime' = [c \in Streams |-> FALSE]
  /\ UNCHANGED << signal, late, offered, workerVars, mainVars, idr, cache, asked,
                  viewer >>

CloseServer ==
  /\ rtsp = At("close", 0) /\ rtsp' = At("off", 0)
  /\ offered' = [c \in Streams |-> NoSets]
  /\ viewer' = [c \in Streams |-> "none"]
  /\ UNCHANGED << signal, late, status, workerVars, mainVars, idr, cache, asked,
                  runtime >>

-----------------------------------------------------------------------------
(* Main, as far as these threads see it.                                   *)

Waiting == At("waits", 0)
Starting == At("start", 0)

Request ==
  /\ main = Waiting /\ restarts < MaxRestarts /\ restarts' = restarts + 1
  /\ \E wanted \in (SUBSET {"rtsp", "video"}) \ {{}} :
       /\ "rtsp" \in wanted => rtsp.at \in {"off", "serve"}
       /\ groups' = wanted
  /\ main' = At("rtsp", 0)
  /\ UNCHANGED << workerVars, serverVars, idr, cache, asked, viewer, runtime >>

AfterRtsp == IF "video" \in groups THEN At("tell", LastStream) ELSE Starting

(* The thread is told and joined if it is in its loop.                     *)
StopRtsp ==
  /\ main = At("rtsp", 0)
  /\ IF "rtsp" \in groups /\ ~signal
     THEN signal' = TRUE /\ main' = At("joinrtsp", 0)
     ELSE main' = AfterRtsp /\ UNCHANGED signal
  /\ UNCHANGED << rtsp, late, offered, status, groups, restarts, workerVars, idr,
                  cache, asked, viewer, runtime >>

JoinRtsp ==
  /\ main = At("joinrtsp", 0) /\ rtsp = At("off", 0) /\ main' = AfterRtsp
  /\ UNCHANGED << groups, restarts, workerVars, serverVars, idr, cache, asked,
                  viewer, runtime >>

TellVideo(c) ==
  /\ main = At("tell", c) /\ main' = At("join", c)
  /\ running' = [running EXCEPT ![c] = FALSE]
  /\ UNCHANGED << silent, worker, packs, run, key, had, sampled, filled, groups, restarts,
                  serverVars, idr, cache, asked, viewer, runtime >>

JoinVideo(c) ==
  /\ main = At("join", c) /\ worker[c] = "off"
  /\ main' = IF c = 0 THEN Starting ELSE At("tell", c - 1)
  /\ UNCHANGED << groups, restarts, workerVars, serverVars, idr, cache, asked,
                  viewer, runtime >>

(* The encoder is made anew, and the thread with it: whatever its viewer   *)
(* has had, a keyframe of the new run is due.                              *)
StartVideo(c) ==
  /\ main = At("start", c) /\ "video" \in groups /\ main' = At("await", c)
  /\ worker' = [worker EXCEPT ![c] = "born"]
  /\ silent' = silent \ {c}
  /\ run' = [run EXCEPT ![c] = @ + 1]
  /\ idr' = [idr EXCEPT ![c] = FALSE]
  /\ viewer' = [viewer EXCEPT ![c] = IF @ \in {"none", "past"} THEN @ ELSE "due"]
  /\ UNCHANGED << packs, running, key, had, sampled, filled, groups, restarts,
                  serverVars, cache, asked, runtime >>

AwaitVideo(c) ==
  /\ main = At("await", c) /\ running[c]
  /\ main' = IF c = LastStream THEN At("server", 0) ELSE At("start", c + 1)
  /\ UNCHANGED << groups, restarts, workerVars, serverVars, idr, cache, asked,
                  viewer, runtime >>

StartRtsp ==
  /\ \/ main = At("server", 0)
     \/ main = Starting /\ "video" \notin groups
  /\ main' = Waiting
  /\ rtsp' = IF "rtsp" \in groups /\ signal THEN At("create", 0) ELSE rtsp
  /\ UNCHANGED << groups, restarts, signal, late, offered, status, workerVars, idr,
                  cache, asked, viewer, runtime >>

-----------------------------------------------------------------------------
GetsKeyframe(c) == Frame(c, Keyframe(c))

WorkerStep(c) ==
  \/ Begin(c) \/ ResetCache(c) \/ Receive(c) \/ End(c) \/ LoopHead(c)
  \/ NoFrame(c) \/ GetsKeyframe(c) \/ Frame(c, << "slice" >>) \/ Pack(c)
  \/ NextRound(c) \/ Retry(c) \/ Report(c)

RtspStep ==
  \/ CreateServer \/ Serve \/ Cleanup \/ CloseServer
  \/ \E c \in Streams : Announce(c) \/ Load(c) \/ Wait(c) \/ GiveUp(c) \/ Offer(c)

MainStep ==
  \/ StopRtsp \/ JoinRtsp \/ StartRtsp
  \/ \E c \in Streams : TellVideo(c) \/ JoinVideo(c) \/ StartVideo(c) \/ AwaitVideo(c)

BootNext ==
  \/ \E c \in Streams : \/ WorkerStep(c) \/ FallsSilent(c)
                        \/ Join(c) \/ Deliver(c) \/ Leave(c)
  \/ RtspStep \/ Deadline \/ MainStep \/ Request

BootSpec == BootInit /\ [][BootNext]_bootVars

(* Threads are scheduled, time passes, and a worker that waits gets to its *)
(* retry; a keyframe that is owed comes in the end, unless it is flushed   *)
(* or the encoder falls silent; the event loop delivers.                   *)
BootFairSpec ==
  /\ BootSpec /\ WF_bootVars(RtspStep) /\ WF_bootVars(Deadline) /\ WF_bootVars(MainStep)
  /\ \A c \in Streams :
       /\ WF_bootVars(WorkerStep(c)) /\ SF_bootVars(Retry(c)) /\ WF_bootVars(Deliver(c))
       /\ SF_bootVars(idr[c] /\ GetsKeyframe(c)) /\ SF_bootVars(Frame(c, << "slice" >>))

-----------------------------------------------------------------------------
(* Properties.                                                             *)

WorkerStates == {"off", "born", "reset", "receive", "head", "poll", "packs"}
Runs == 0 .. MaxRestarts + 1

(* The fields keep their types.                                            *)
TypeOK ==
  /\ worker \in [Streams -> WorkerStates]
  /\ {running, idr, key, asked, had, filled, runtime} \subseteq [Streams -> BOOLEAN]
  /\ run \in [Streams -> Runs] /\ silent \subseteq Streams
  /\ {cache[c] : c \in Streams} \cup {offered[c] : c \in Streams} \subseteq [Kinds -> Runs]
  /\ viewer \in [Streams -> Standings]
  /\ sampled \in [Streams -> [viewers : BOOLEAN, waits : BOOLEAN]]
  /\ status \in [Streams -> {"none", "initializing", "ready", "error"}]
  /\ {signal, late} \subseteq BOOLEAN
  /\ rtsp.stream \in Streams /\ main.stream \in Streams
  /\ groups \subseteq {"rtsp", "video"} /\ restarts \in 0 .. MaxRestarts

(* A stream is offered with parameter sets that all come from one run of   *)
(* its encoder, however the worker is restarted while the RTSP thread      *)
(* waits.                                                                  *)
SetsOfOneRun ==
  \A c \in Streams : \A j, k \in Needed(c) : offered[c][j] = offered[c][k]

(* The worker is asked for keyframes only while the RTSP thread waits for  *)
(* parameter sets, whatever the outcome of the wait.                       *)
AskedWhileWaiting ==
  \A c \in Streams : asked[c] => rtsp \in {At(p, c) : p \in {"load", "wait", "giveup", "offer"}}

(* The server comes up although an encoder may fall silent before or under *)
(* the wait, or its worker be restarted: no stream keeps it waiting.       *)
ServerComesUp == (rtsp.at = "create") ~> (rtsp.at \in {"serve", "off"})

(* A viewer is handed a keyframe, of each run of the encoder it lives to   *)
(* see, though the sample of the viewers at the head of the loop is old    *)
(* when a frame comes, the keyframe it asked for may have been dropped or  *)
(* flushed, and the encoder is restarted.  Two cases are excepted: the     *)
(* encoder falls silent; and the first viewer of all passes over the one   *)
(* keyframe it asked for, since its cursor is beyond that and, with a      *)
(* keyframe published, nobody asks again.                                  *)
ViewersSeeKeyframe ==
  \A c \in Streams :
    Viewed(c) ~> (viewer[c] \in {"seen", "skipped", "none"} \/ c \in silent)
=============================================================================
