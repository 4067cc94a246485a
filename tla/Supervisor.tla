----------------------------- MODULE Supervisor -----------------------------
(***************************************************************************)
(* The main thread as supervisor: it starts the worker threads, waits for  *)
(* a restart request, stops the requested group in one order, starts it    *)
(* again in another, and so on.  Requests come from the configuration      *)
(* watcher (a full restart) and from WebSocket clients (a chosen group, or *)
(* an audio setting that needs one).                                       *)
(*                                                                         *)
(* main takes mutex_main only to clear the flags and to wait; while it     *)
(* stops and starts threads, requests go on changing the flags it reads.   *)
(* The groups' flags are global_restart_rtsp, _video and _audio.           *)
(***************************************************************************)
EXTENDS Integers, Sequences, FiniteSets

CONSTANTS
  Configs,            \* the sets of components a configuration may enable
  MayFail,            \* components whose initialisation may fail
  Stream1NeedsStream0,\* stream_depends_on(1, 0)
  MaxRequests         \* bound: number of requests of any kind

Groups == {"rtsp", "video", "audio"}

(* jpeg is stream2; stream3 has a thread of the same shape.                *)
VideoBlock == {"video0", "video1", "jpeg", "osd", "motion"}
Components == VideoBlock \cup {"rtsp", "audio", "back"}

Group(c) == IF c = "rtsp" THEN "rtsp"
            ELSE IF c \in {"audio", "back"} THEN "audio" ELSE "video"

ASSUME SupervisorAssumption ==
  /\ Configs \subseteq SUBSET (Components \ {"rtsp"})
  /\ MayFail \subseteq Components
  /\ Stream1NeedsStream0 \in BOOLEAN
  /\ MaxRequests \in Nat

VARIABLES
  mainAt,    \* where main is, and with which component
  startup,
  flags,     \* the global_restart_* flags that are set
  enabled,   \* the components the configuration enables
  watcher,   \* the configuration watcher between load() and its request
  phase,     \* of the component's thread: "off", "starting" or "up"
  fresh,     \* threads created and not yet joined
  stopping,  \* threads told to stop (running = false, or their signal)
  mark,      \* components main takes for running: imp_audio, imp_backchannel
             \* or imp_encoder set, osd or motion signal true, rtsp signal 0
  ready,     \* StartHelper::has_started, released by these threads
  asleep,    \* the backchannel worker fell asleep as it was told to stop
  requests,  \* number of requests so far (bound)
  pending,   \* history: groups asked for, with notification, and not yet stopped
  intruded,  \* history: a request came while main was not waiting
  doubled    \* history: components started while their thread was alive

threadVars  == <<phase, fresh, stopping, mark, ready, asleep, doubled>>
requestVars == <<enabled, watcher, requests, pending, intruded>>
vars == <<mainAt, startup, flags, threadVars, requestVars>>

At(point, c) == [at |-> point, c |-> c]
There(point) == At(point, "main")

Init ==
  /\ mainAt = At("start", "back")
  /\ startup = TRUE
  /\ flags = {}
  /\ enabled \in Configs
  /\ watcher = "idle"
  /\ phase = [c \in Components |-> "off"]
  /\ fresh = {}
  /\ stopping = {}
  /\ mark = {}
  /\ ready = {}
  /\ asleep = FALSE
  /\ requests = 0
  /\ pending = {}
  /\ intruded = FALSE
  /\ doubled = {}

-----------------------------------------------------------------------------
(* The order of main's loop.                                               *)
StartOrder == <<"back", "audio", "video0", "video1", "jpeg", "osd", "motion", "rtsp">>

StopOrder  == <<"rtsp", "audio", "back", "motion", "osd", "jpeg", "video1", "video0">>

Step(order, point, c, last) ==
  LET i == CHOOSE k \in DOMAIN order : order[k] = c
  IN IF i = Len(order) THEN last ELSE At(point, order[i + 1])

NextStart(c) == Step(StartOrder, "start", c, There("settle"))
NextStop(c)  == Step(StopOrder, "stop", c, At("start", StartOrder[1]))

Asked(g) == startup \/ g \in flags

(* The video block is entered, or skipped, as a whole: main reads its flag *)
(* once, on the way in.                                                    *)
SkipsStart(c) == c = StartOrder[3] /\ ~Asked("video")
SkipsStop(c)  == c = StopOrder[4] /\ "video" \notin flags

CanStart(c) ==
  /\ c \in enabled
  /\ c = "video1" /\ Stream1NeedsStream0 => "video0" \in enabled

StartsNow(c) ==
  CASE c = "rtsp"              -> c \notin mark /\ Asked("rtsp")
    [] c \in {"audio", "back"} -> c \in enabled /\ Asked("audio")
    [] OTHER                   -> CanStart(c)

(* These threads release a semaphore main waits for.                       *)
Awaited == {"audio", "video0", "video1", "jpeg"}

(* On entering the video block main makes the encoders itself, those that  *)
(* do not exist yet.                                                       *)
EncodersFor(c) ==
  IF c = "video0" THEN {v \in {"video0", "video1"} : CanStart(v)} ELSE {}

-----------------------------------------------------------------------------
(* main, starting threads.                                                 *)

Start(c) ==
  /\ mainAt = At("start", c)
  /\ ~SkipsStart(c)
  /\ mark' = mark \cup EncodersFor(c)
  /\ IF StartsNow(c)
     THEN /\ phase' = [phase EXCEPT ![c] = "starting"]
          /\ fresh' = fresh \cup {c}
          /\ doubled' = IF phase[c] = "off" THEN doubled ELSE doubled \cup {c}
          /\ mainAt' = IF c \in Awaited THEN At("await", c) ELSE NextStart(c)
     ELSE /\ mainAt' = NextStart(c)
          /\ UNCHANGED <<phase, fresh, doubled>>
  /\ UNCHANGED <<startup, flags, requestVars, stopping, ready, asleep>>

SkipVideoStart ==
  /\ mainAt = At("start", StartOrder[3]) /\ SkipsStart(mainAt.c)
  /\ mainAt' = At("start", "rtsp")
  /\ UNCHANGED <<startup, flags, threadVars, requestVars>>

(* has_started.acquire().                                                  *)
Await(c) ==
  /\ mainAt = At("await", c)
  /\ c \in ready
  /\ ready' = ready \ {c}
  /\ mainAt' = NextStart(c)
  /\ UNCHANGED <<startup, flags, requestVars, phase, fresh, stopping, mark,
                 asleep, doubled>>

(* The usleep "to ensure all services are up and running".  The RTSP       *)
(* thread is not among them: it waits seconds for parameter sets.          *)
Settle ==
  /\ mainAt = There("settle")
  /\ \A c \in Components \ {"rtsp"} : phase[c] # "starting"
  /\ mainAt' = There("clear")
  /\ UNCHANGED <<startup, flags, threadVars, requestVars>>

(* Under mutex_main from here until main waits.                            *)
Clear ==
  /\ mainAt = There("clear")
  /\ startup' = FALSE
  /\ flags' = {}
  /\ mainAt' = There("tests")
  /\ UNCHANGED <<threadVars, requestVars>>

Test ==
  /\ mainAt \in {There("tests"), There("woken")}
  /\ mainAt' = IF flags = {} THEN There("waits") ELSE At("stop", StopOrder[1])
  /\ UNCHANGED <<startup, flags, threadVars, requestVars>>

SpuriousWakeup ==
  /\ mainAt = There("waits")
  /\ mainAt' = There("woken")
  /\ UNCHANGED <<startup, flags, threadVars, requestVars>>

-----------------------------------------------------------------------------
(* main, stopping threads.                                                 *)

Served(c) ==
  IF c \in {"rtsp", "audio", StopOrder[4]} /\ Group(c) \in flags
  THEN pending \ {Group(c)} ELSE pending

StopsNow(c) == c \in mark /\ (c \in VideoBlock \/ Group(c) \in flags)

(* running = false and the notification, both without the worker's mutex,  *)
(* may fall between the backchannel worker's look at running and its sleep.*)
(* The jpeg worker looks at a flag main saw under its mutex, see JpegWorker*)
(* (StopCompletes); the others never sleep for long.                       *)
MayMissOrder(c) == c = "back" /\ StopsNow(c) /\ phase[c] = "up"

MutantSparesJpeg(c) ==
  /\ mainAt = At("stop", c)
  /\ ~SkipsStop(c)
  /\ pending' = Served(c)
  /\ IF StopsNow(c) /\ c # "jpeg"
     THEN /\ stopping' = stopping \cup {c}
          /\ mark' = IF c \in {"rtsp", "osd", "motion"} THEN mark \ {c} ELSE mark
          /\ mainAt' = At("join", c)
     ELSE /\ mainAt' = NextStop(c)
          /\ UNCHANGED <<stopping, mark>>
  /\ asleep' \in {FALSE, MayMissOrder(c)}
  /\ UNCHANGED <<startup, flags, enabled, watcher, requests, intruded, phase, fresh,
                 ready, doubled>>

MutantJoinsUntold(c) ==
  /\ mainAt = At("stop", c)
  /\ ~SkipsStop(c)
  /\ pending' = Served(c)
  /\ IF StopsNow(c)
     THEN /\ stopping' = stopping \cup ({c} \ {"jpeg"})
          /\ mark' = IF c \in {"rtsp", "osd", "motion"} THEN mark \ {c} ELSE mark
          /\ mainAt' = At("join", c)
     ELSE /\ mainAt' = NextStop(c)
          /\ UNCHANGED <<stopping, mark>>
  /\ asleep' \in {FALSE, MayMissOrder(c)}
  /\ UNCHANGED <<startup, flags, enabled, watcher, requests, intruded, phase, fresh,
                 ready, doubled>>

(* For rtsp, osd and motion the order to stop is the very signal that      *)
(* told main they were running.                                            *)
TellToStop(c) ==
  /\ mainAt = At("stop", c)
  /\ ~SkipsStop(c)
  /\ pending' = Served(c)
  /\ IF StopsNow(c)
     THEN /\ stopping' = stopping \cup {c}
          /\ mark' = IF c \in {"rtsp", "osd", "motion"} THEN mark \ {c} ELSE mark
          /\ mainAt' = At("join", c)
     ELSE /\ mainAt' = NextStop(c)
          /\ UNCHANGED <<stopping, mark>>
  /\ asleep' \in {FALSE, MayMissOrder(c)}
  /\ UNCHANGED <<startup, flags, enabled, watcher, requests, intruded, phase, fresh,
                 ready, doubled>>

SkipVideoStop ==
  /\ mainAt = At("stop", StopOrder[4]) /\ SkipsStop(mainAt.c)
  /\ mainAt' = At("start", StartOrder[1])
  /\ UNCHANGED <<startup, flags, threadVars, requestVars>>

(* pthread_join.  Of a thread joined before it is undefined; here it       *)
(* returns.                                                                *)
Join(c) ==
  /\ mainAt = At("join", c)
  /\ c \in fresh => phase[c] = "off"
  /\ fresh' = fresh \ {c}
  /\ mainAt' = NextStop(c)
  /\ UNCHANGED <<startup, flags, requestVars, phase, stopping, mark, ready, asleep,
                 doubled>>

-----------------------------------------------------------------------------
(* The threads.                                                            *)

(* The thread's initialisation succeeds.  All but osd, motion and rtsp set *)
(* running after main was told; those three set their signal.              *)
ComeUp(c) ==
  /\ phase[c] = "starting"
  /\ phase' = [phase EXCEPT ![c] = "up"]
  /\ mark' = mark \cup {c}
  /\ stopping' = stopping \ {c}
  /\ ready' = IF c \in Awaited THEN ready \cup {c} ELSE ready
  /\ UNCHANGED <<mainAt, startup, flags, requestVars, fresh, asleep, doubled>>

(* It fails and the thread returns: audio clears imp_audio and tells main, *)
(* jpeg had already told main and keeps its encoder, video does neither;   *)
(* motion and rtsp never set their signal.                                 *)
Fail(c) ==
  /\ phase[c] = "starting" /\ c \in MayFail
  /\ phase' = [phase EXCEPT ![c] = "off"]
  /\ mark' = CASE c = "audio" -> mark \ {c}
               [] c = "jpeg"  -> mark \cup {c}
               [] OTHER       -> mark
  /\ ready' = IF c \in {"audio", "jpeg"} THEN ready \cup {c} ELSE ready
  /\ UNCHANGED <<mainAt, startup, flags, requestVars, fresh, stopping, asleep, doubled>>

(* The thread's loop sees that it is to stop.  Backchannel, video and jpeg *)
(* threads clear the pointer main looks at, the audio thread does not.     *)
End(c) ==
  /\ phase[c] = "up" /\ c \in stopping
  /\ c = "back" => ~asleep
  /\ phase' = [phase EXCEPT ![c] = "off"]
  /\ stopping' = stopping \ {c}
  /\ mark' = IF c = "audio" THEN mark ELSE mark \ {c}
  /\ UNCHANGED <<mainAt, startup, flags, requestVars, fresh, ready, asleep, doubled>>

(* A client talks, or stops talking, and the sink notifies the backchannel *)
(* worker (it may also wake of itself).  Nobody owes it that.              *)
RouseBackchannel ==
  /\ asleep
  /\ asleep' = FALSE
  /\ UNCHANGED <<mainAt, startup, flags, requestVars, phase, fresh, stopping, mark,
                 ready, doubled>>

-----------------------------------------------------------------------------
(* Requests.  main holds mutex_main while it clears and tests the flags.   *)

MutexFree == mainAt # There("tests")

(* notify_one: only main waits on global_cv_worker_restart.                *)
MainNotified == IF mainAt = There("waits") THEN There("woken") ELSE mainAt

Intrusion == intruded \/ mainAt # There("waits")

(* The watched file changed: ConfigWatcher loads it.                       *)
LoadConfig ==
  /\ watcher = "idle" /\ requests < MaxRequests
  /\ requests' = requests + 1
  /\ enabled' \in Configs
  /\ watcher' = "loaded"
  /\ UNCHANGED <<mainAt, startup, flags, threadVars, pending, intruded>>

(* request_full_restart.                                                   *)
RequestFullRestart ==
  /\ watcher = "loaded" /\ MutexFree
  /\ flags' = Groups
  /\ pending' = Groups
  /\ intruded' = Intrusion
  /\ mainAt' = MainNotified
  /\ watcher' = "idle"
  /\ UNCHANGED <<startup, threadVars, enabled, requests>>

(* restart_threads_by_signal, when no flag is set (it answers "initiated").*)
MutantWsNotifiesNobody(which) ==
  /\ requests < MaxRequests /\ MutexFree
  /\ flags = {}
  /\ requests' = requests + 1
  /\ flags' = which
  /\ pending' = pending \cup which
  /\ intruded' = Intrusion
  /\ UNCHANGED <<mainAt, startup, threadVars, enabled, watcher>>

WsInitiates(which) ==
  /\ requests < MaxRequests /\ MutexFree
  /\ flags = {}
  /\ requests' = requests + 1
  /\ flags' = which
  /\ pending' = pending \cup which
  /\ intruded' = Intrusion
  /\ mainAt' = MainNotified
  /\ UNCHANGED <<startup, threadVars, enabled, watcher>>

(* The same when one is (it answers "dropped").                            *)
WsIsDropped ==
  /\ requests < MaxRequests /\ MutexFree
  /\ flags # {}
  /\ requests' = requests + 1
  /\ UNCHANGED <<mainAt, startup, flags, threadVars, enabled, watcher, pending, intruded>>

(* audio_callback, for a setting of the audio input: it raises the flag    *)
(* without the mutex and without notifying.                                *)
WsAudioSetting ==
  /\ requests < MaxRequests
  /\ requests' = requests + 1
  /\ flags' = flags \cup {"audio"}
  /\ intruded' = Intrusion
  /\ UNCHANGED <<mainAt, startup, threadVars, enabled, watcher, pending>>

(* The same when the audio output is switched: this concerns RTSP, too.    *)
WsAudioOutput ==
  /\ requests < MaxRequests
  /\ requests' = requests + 1
  /\ flags' = flags \cup {"audio", "rtsp"}
  /\ enabled' \in {e \in Configs : e \ {"back"} = enabled \ {"back"}}
  /\ intruded' = Intrusion
  /\ UNCHANGED <<mainAt, startup, threadVars, watcher, pending>>

(* Switching the audio input or a stream only changes the configuration.   *)
WsSwitch ==
  /\ requests < MaxRequests
  /\ requests' = requests + 1
  /\ enabled' \in Configs \ {enabled}
  /\ intruded' = Intrusion
  /\ UNCHANGED <<mainAt, startup, flags, threadVars, watcher, pending>>

(* What restart_thread can ask for: RTSP means all three.                  *)
WsChoices == {Groups, {"video"}, {"audio"}, {"video", "audio"}}

-----------------------------------------------------------------------------
MainStep ==
  \/ \E c \in Components : Start(c) \/ Await(c) \/ TellToStop(c) \/ Join(c)
  \/ SkipVideoStart \/ Settle \/ Clear \/ Test \/ SkipVideoStop

ThreadStep(c) == ComeUp(c) \/ Fail(c) \/ End(c)

Request ==
  \/ LoadConfig \/ RequestFullRestart
  \/ WsIsDropped \/ WsAudioSetting \/ WsAudioOutput \/ WsSwitch
  \/ \E which \in WsChoices : WsInitiates(which)

Next ==
  \/ MainStep \/ SpuriousWakeup \/ RouseBackchannel
  \/ \E c \in Components : ThreadStep(c)
  \/ Request

Spec == Init /\ [][Next]_vars

(* Threads run, and the watcher finishes what it began; nobody has to make *)
(* a request.                                                              *)
Fairness ==
  /\ WF_vars(MainStep)
  /\ \A c \in Components : WF_vars(ThreadStep(c))
  /\ WF_vars(RequestFullRestart)

FairSpec == Spec /\ Fairness

-----------------------------------------------------------------------------
(* The types of main's globals and of the bookkeeping.                     *)
TypeOK ==
  /\ mainAt \in [at : {"start", "await", "stop", "join"}, c : Components]
                \cup {There(p) : p \in {"settle", "clear", "tests", "waits", "woken"}}
  /\ startup \in BOOLEAN
  /\ flags \subseteq Groups
  /\ enabled \in Configs
  /\ watcher \in {"idle", "loaded"}
  /\ phase \in [Components -> {"off", "starting", "up"}]
  /\ fresh \subseteq Components
  /\ stopping \subseteq Components
  /\ mark \subseteq Components
  /\ ready \subseteq Awaited
  /\ asleep \in BOOLEAN
  /\ requests \in 0 .. MaxRequests
  /\ pending \subseteq Groups
  /\ intruded \in BOOLEAN
  /\ doubled \subseteq Components

(* When no request comes between the beginning of a restart and the next   *)
(* wait, main starts no worker whose thread is still alive, except that    *)
(* an RTSP thread still waiting for parameter sets is not seen as alive.   *)
OneThreadPerWorker == intruded \/ doubled \subseteq {"rtsp"}

(* A request made while main waits is not slept through: main is on its    *)
(* way to stop every group asked for.                                      *)
WaitingMainIsWoken ==
  mainAt = There("waits") /\ ~intruded => pending = {}

(* A restart comes to an end: main, joining threads that it told to stop   *)
(* and awaiting threads it created, gets back to its wait.  It does not    *)
(* when it joins a backchannel worker that slept through its order, until  *)
(* a client wakes that one; from then on it does again.                    *)
RestartCompletes ==
  (mainAt.at \in {"stop", "join"} /\ ~asleep)
    ~> (mainAt = There("waits") \/ asleep \/ doubled # {})
=============================================================================
