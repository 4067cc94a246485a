---------------------------- MODULE RtspDelivery ----------------------------
(***************************************************************************)
(* How one stream's frames get from the workers to its RTSP sessions.  The *)
(* video worker decides what to publish, the audio worker publishes what   *)
(* it reads; every session has a video and an audio source (IMPDeviceSource*)
(* both), each a subscriber of one ring.  The event loop delivers a frame  *)
(* when a sink asks for one and when a callback triggered an event; a      *)
(* session's audio waits for its video.                                    *)
(*                                                                         *)
(* Three threads: the two workers and the event loop, whose handlers run   *)
(* one after the other.  The rings are locked, see StreamCore; callbacks   *)
(* run outside the lock.                                                   *)
(***************************************************************************)
EXTENDS StreamRing, FiniteSets

CONSTANTS
  Sessions,     \* client session ids
  Tracks,       \* the tracks each session sets up
  Capacity,     \* the rings' capacities, by medium
  MaxPublished, \* bound: frames published, by medium
  MaxPlays      \* bound: number of PLAY requests

Media == {"video", "audio"}
Sources == {src \in Sessions \X Media : src[2] \in Tracks[src[1]]}

ASSUME DeliveryAssumption ==
  /\ Tracks \in [Sessions -> SUBSET Media]
  /\ Capacity \in [Media -> Nat \ {0}]
  /\ MaxPublished \in [Media -> Nat]
  /\ MaxPlays \in Nat

VARIABLES
  session,    \* "new", "set" (its sources exist) or "gone"
  ring,       \* entries_ of the two StreamCores
  last,       \* their lastSequence_
  calling,    \* callbacks the worker copied and has still to call, by medium
  cursor,     \* the sources' cursors; active means captureEnabled
  awaiting,   \* sources with isCurrentlyAwaitingData
  events,     \* sources whose event trigger is set
  ready,      \* gSessionVideoReady
  worker,     \* the video worker: has_subscribers, had_subscribers and
              \* producer_has_keyframe
  plays,      \* number of PLAY requests so far (bound)
  joinedAt    \* history: lastSequence_ when the source registered

vars == <<session, ring, last, calling, cursor, awaiting, events, ready, worker,
          plays, joinedAt>>

VideoFrames == {"key", "delta"}
Frames == VideoFrames \cup {"sound"}
Keys == {"key"}

NoCursor == [nextSequence |-> 1, overflowCount |-> 0, requireSync |-> FALSE,
             started |-> FALSE, active |-> FALSE]

Capturing == {src \in Sources : cursor[src].active}
Subscribed(m) == {src \in Capturing : src[2] = m}

Init ==
  /\ session = [s \in Sessions |-> "new"]
  /\ ring = [m \in Media |-> << >>]
  /\ last = [m \in Media |-> 0]
  /\ calling = [m \in Media |-> {}]
  /\ cursor = [src \in Sources |-> NoCursor]
  /\ awaiting = {}
  /\ events = {}
  /\ ready = {}
  /\ worker = [has |-> FALSE, had |-> FALSE, key |-> FALSE]
  /\ plays = 0
  /\ joinedAt = [src \in Sources |-> 0]

-----------------------------------------------------------------------------
(* The workers.                                                            *)

Publish(m, frame) ==
  /\ last[m] < MaxPublished[m]
  /\ calling[m] = {}
  /\ ring' = [ring EXCEPT
       ![m] = PushBack(@, Capacity[m], [sequence |-> last[m] + 1, frame |-> frame])]
  /\ last' = [last EXCEPT ![m] = @ + 1]
  /\ calling' = [calling EXCEPT ![m] = Subscribed(m)]

(* The head of VideoWorker::run's loop: viewers where there were none ask  *)
(* for a new keyframe.                                                     *)
VideoSample ==
  /\ calling["video"] = {}
  /\ LET has == Subscribed("video") # {}
     IN worker' = [has |-> has, had |-> has,
                   key |-> worker.key /\ ~(has /\ ~worker.had)]
  /\ UNCHANGED <<session, ring, last, calling, cursor, awaiting, events, ready,
                 plays, joinedAt>>

(* A NAL unit from the encoder: nothing goes out before a keyframe, and    *)
(* nothing while the sampled count was zero.                               *)
VideoPack(frame) ==
  /\ worker.key \/ frame \in Keys
  /\ worker' = [worker EXCEPT !.key = TRUE]
  /\ IF worker.has THEN Publish("video", frame)
     ELSE calling["video"] = {} /\ UNCHANGED <<ring, last, calling>>
  /\ UNCHANGED <<session, cursor, awaiting, events, ready, plays, joinedAt>>

(* Main restarts the video worker between two rounds of its loop.          *)
VideoRestart ==
  /\ calling["video"] = {}
  /\ worker' = [has |-> FALSE, had |-> FALSE, key |-> FALSE]
  /\ UNCHANGED <<session, ring, last, calling, cursor, awaiting, events, ready,
                 plays, joinedAt>>

(* The audio worker publishes only while somebody subscribes.  Frames it   *)
(* drops because it has not noticed yet come to frames not published.      *)
AudioFrame ==
  /\ Subscribed("audio") # {}
  /\ Publish("audio", "sound")
  /\ UNCHANGED <<session, cursor, awaiting, events, ready, worker, plays, joinedAt>>

(* on_data_available, outside the lock: the event is triggered.  Of a      *)
(* source deleted meanwhile this is undefined; here nothing happens.       *)
InvokeCallback(src) ==
  /\ src \in calling[src[2]]
  /\ calling' = [calling EXCEPT ![src[2]] = @ \ {src}]
  /\ events' = IF session[src[1]] = "set" THEN events \cup {src} ELSE events
  /\ UNCHANGED <<session, ring, last, cursor, awaiting, ready, worker, plays, joinedAt>>

-----------------------------------------------------------------------------
(* The event loop.                                                         *)

(* deliverFrame's early returns.                                           *)
MayRead(src) == src[2] = "audio" => src[1] \in ready

MutantNeverReady(src) == ready

(* A video frame handed on makes the session ready.                        *)
ReadyAfter(src) == IF src[2] = "video" THEN ready \cup {src[1]} ELSE ready

(* deliverFrame, for a source that awaits data: a frame goes to the sink,  *)
(* or there is none and the source goes on waiting.                        *)
Deliver(src) ==
  LET entries == ring[src[2]]
  IN IF ~MayRead(src) \/ entries = << >>
     THEN UNCHANGED <<cursor, ready>> /\ awaiting' = awaiting \cup {src}
     ELSE \E n \in 1 .. last[src[2]] + 2 :
            /\ ResumesAt(entries, cursor[src], Keys, n)
            /\ LET c == Normalized(entries, cursor[src], n)
               IN \/ \E i \in DOMAIN entries :
                       /\ DeliversAt(entries, c, Keys, i)
                       /\ cursor' = [cursor EXCEPT ![src] = AfterDelivery(c, entries[i])]
                       /\ awaiting' = awaiting \ {src}
                       /\ ready' = ReadyAfter(src)
                  \/ /\ NothingEligible(entries, c, Keys)
                     /\ cursor' = [cursor EXCEPT ![src] = AfterNothing(entries, c)]
                     /\ awaiting' = awaiting \cup {src}
                     /\ UNCHANGED ready

(* SETUP of all the session's tracks.                                      *)
Setup(s) ==
  /\ session[s] = "new"
  /\ session' = [session EXCEPT ![s] = "set"]
  /\ UNCHANGED <<ring, last, calling, cursor, awaiting, events, ready, worker, plays,
                 joinedAt>>

(* setCaptureEnabled(true).                                                *)
StartOf(src, n) == IF src[2] = "video" THEN ViewerCursor(n) ELSE NewCursor(LiveEdge, n)

MutantStaysReady(s) == ready

ReadyAtStart(s) == IF "video" \in Tracks[s] THEN ready \ {s} ELSE ready

(* PLAY: every sink asks its source for a frame, video before audio, and   *)
(* so has it register.  There is none to deliver yet: a video source       *)
(* passes over what the ring holds, and an audio source is not ready.      *)
Play(s) ==
  /\ session[s] = "set" /\ plays < MaxPlays
  /\ LET mine == {src \in Sources : src[1] = s}
     IN /\ mine \cap Capturing = {}
        /\ \E n \in [mine -> Nat \cap 1 .. last["video"] + last["audio"] + 1] :
             /\ \A src \in mine : StartsAt(ring[src[2]], last[src[2]], LiveEdge, Keys, n[src])
             /\ cursor' = [src \in Sources |->
                             IF src \in mine THEN StartOf(src, n[src]) ELSE cursor[src]]
        /\ awaiting' = awaiting \cup mine
        /\ joinedAt' = [src \in Sources |->
                          IF src \in mine THEN last[src[2]] ELSE joinedAt[src]]
  /\ ready' = ReadyAtStart(s)
  /\ plays' = plays + 1
  /\ UNCHANGED <<session, ring, last, calling, events, worker>>

(* The sink is done with a frame and asks for the next: doGetNextFrame.    *)
MutantOnlyAwaits(src) ==
  /\ src \in Capturing /\ src \notin awaiting
  /\ awaiting' = awaiting \cup {src}
  /\ UNCHANGED <<session, ring, last, calling, cursor, events, ready, worker, plays,
                 joinedAt>>

GetNextFrame(src) ==
  /\ src \in Capturing /\ src \notin awaiting
  /\ Deliver(src)
  /\ UNCHANGED <<session, ring, last, calling, events, worker, plays, joinedAt>>

(* deliverFrame0: the event is used up whether or not it delivers.         *)
HandleEvent(src) ==
  /\ src \in events
  /\ events' = events \ {src}
  /\ IF src \in awaiting THEN Deliver(src) ELSE UNCHANGED <<cursor, awaiting, ready>>
  /\ UNCHANGED <<session, ring, last, calling, worker, plays, joinedAt>>

Stopped(s) == [src \in Sources |-> IF src[1] = s THEN NoCursor ELSE cursor[src]]

OfOthers(set, s) == {src \in set : src[1] # s}

(* PAUSE: doStopGettingFrames.  A trigger that is set stays set.           *)
Pause(s) ==
  /\ \E src \in Capturing : src[1] = s
  /\ cursor' = Stopped(s)
  /\ awaiting' = OfOthers(awaiting, s)
  /\ UNCHANGED <<session, ring, last, calling, events, ready, worker, plays, joinedAt>>

(* TEARDOWN, or the session timed out: the sources are deleted, deinit.    *)
Teardown(s) ==
  /\ session[s] = "set"
  /\ session' = [session EXCEPT ![s] = "gone"]
  /\ cursor' = Stopped(s)
  /\ awaiting' = OfOthers(awaiting, s)
  /\ events' = OfOthers(events, s)
  /\ ready' = ready \ {s}
  /\ UNCHANGED <<ring, last, calling, worker, plays, joinedAt>>

-----------------------------------------------------------------------------
Next ==
  \/ VideoSample \/ VideoRestart \/ AudioFrame
  \/ \E f \in VideoFrames : VideoPack(f)
  \/ \E src \in Sources : InvokeCallback(src) \/ GetNextFrame(src) \/ HandleEvent(src)
  \/ \E s \in Sessions : Setup(s) \/ Play(s) \/ Pause(s) \/ Teardown(s)

Spec == Init /\ [][Next]_vars

(* The workers finish a publish they began, and the event loop handles the *)
(* events that are set.                                                    *)
Fairness ==
  \A src \in Sources : WF_vars(InvokeCallback(src)) /\ WF_vars(HandleEvent(src))

FairSpec == Spec /\ Fairness

-----------------------------------------------------------------------------
(* The types of the rings', the sources' and the worker's fields.          *)
TypeOK ==
  /\ session \in [Sessions -> {"new", "set", "gone"}]
  /\ ring \in [Media -> Seq(Entry(Frames))]
  /\ \A m \in Media : Len(ring[m]) <= Capacity[m]
  /\ last \in [Media -> Nat]
  /\ calling \in [Media -> SUBSET Sources]
  /\ cursor \in [Sources -> Cursor]
  /\ awaiting \subseteq Capturing
  /\ events \subseteq Sources
  /\ ready \subseteq Sessions
  /\ worker \in [has : BOOLEAN, had : BOOLEAN, key : BOOLEAN]
  /\ plays \in Nat
  /\ joinedAt \in [Sources -> Nat]

(* A video source that awaits data while the ring holds a frame for it has *)
(* its event set, or the worker is about to set it: no frame waits for the *)
(* next one to come, however requests, events and publishes interleave.    *)
AwaitingIsWoken ==
  \A src \in awaiting :
    (src[2] = "video" /\ \E i \in DOMAIN ring["video"] :
                            Eligible(cursor[src], Keys, ring["video"][i]))
      => src \in events \cup calling["video"]

Delivers(src) == src \in awaiting /\ src \notin awaiting' /\ cursor'[src].active

(* The first thing a viewer gets, at first and again after a pause, is a   *)
(* keyframe published after it asked, whatever was left in the ring and    *)
(* however much was dropped from it meanwhile.                             *)
StartsOnFreshKeyframe ==
  [][\A s \in Sessions : LET src == <<s, "video">> IN
       src \in Sources /\ Delivers(src) /\ ~cursor[src].started =>
         \E i \in DOMAIN ring["video"] :
           /\ ring["video"][i].sequence = cursor'[src].nextSequence - 1
           /\ ring["video"][i].sequence > joinedAt[src]
           /\ ring["video"][i].frame \in Keys]_vars

(* A session hears nothing before it sees something: also after a pause    *)
(* and with events of the time before it still set.                        *)
AudioFollowsVideo ==
  [][\A s \in Sessions :
       Tracks[s] = Media /\ Delivers(<<s, "audio">>) => cursor[<<s, "video">>].started]_vars

Unheard(src) == \E i \in DOMAIN ring["audio"] :
                  ring["audio"][i].sequence >= cursor[src].nextSequence

(* An audio frame that comes once its session's video runs brings a sink   *)
(* that awaits one its audio, although the events of the frames before it  *)
(* were used up without a delivery.                                        *)
AudioIsDelivered ==
  \A s \in Sessions : Tracks[s] = Media =>
    LET src == <<s, "audio">> IN
      (/\ cursor[<<s, "video">>].started
       /\ src \in awaiting /\ Unheard(src)
       /\ src \in calling["audio"] \cup events)
        ~> src \notin awaiting
=============================================================================
