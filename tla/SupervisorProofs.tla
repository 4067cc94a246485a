-------------------------- MODULE SupervisorProofs --------------------------
(***************************************************************************)
(* Proofs about Supervisor, for any set of configurations, any failures    *)
(* and any number of requests: main starts no worker whose thread is still *)
(* alive, and does not sleep through a request, unless a request came      *)
(* while main was at work.                                                 *)
(***************************************************************************)
EXTENDS Supervisor, TLAPS

-----------------------------------------------------------------------------
(* The two orders of main, as ranks.                                       *)

StartRank(c) ==
  CASE c = "back"   -> 1 [] c = "audio" -> 2 [] c = "video0" -> 3 [] c = "video1" -> 4
    [] c = "jpeg"   -> 5 [] c = "osd"   -> 6 [] c = "motion" -> 7 [] c = "rtsp"   -> 8

StopRank(c) ==
  CASE c = "rtsp"   -> 1 [] c = "audio" -> 2 [] c = "back"   -> 3 [] c = "motion" -> 4
    [] c = "osd"    -> 5 [] c = "jpeg"  -> 6 [] c = "video1" -> 7 [] c = "video0" -> 8

LEMMA ComponentNames ==
  Components = {"video0", "video1", "jpeg", "osd", "motion", "rtsp", "audio", "back"}
BY DEF Components, VideoBlock

LEMMA OrderEntries ==
  /\ StartOrder[1] = "back" /\ StartOrder[3] = "video0"
  /\ StopOrder[1] = "rtsp" /\ StopOrder[4] = "motion"
BY DEF StartOrder, StopOrder

(* Different components have different ranks.                              *)
LEMMA RanksApart ==
  \A c, d \in Components :
    /\ StartRank(c) \in 1 .. 8 /\ StopRank(c) \in 1 .. 8
    /\ StartRank(c) = StartRank(d) => c = d
    /\ StopRank(c) = StopRank(d) => c = d
BY ComponentNames DEF StartRank, StopRank

LEMMA AtFields == \A point, c : At(point, c).at = point /\ At(point, c).c = c
BY DEF At

(* The step from an entry that an order has once.                          *)
LEMMA StepFrom ==
  ASSUME NEW order, NEW point, NEW c, NEW last, NEW k \in DOMAIN order,
         order[k] = c, \A i \in DOMAIN order : order[i] = c => i = k
  PROVE  Step(order, point, c, last) =
           IF k = Len(order) THEN last ELSE At(point, order[k + 1])
<1>1. (CHOOSE i \in DOMAIN order : order[i] = c) = k
  OBVIOUS
<1> QED
  BY <1>1 DEF Step

(* An order is gone through one rank after the other.                      *)
LEMMA NextStarts ==
  ASSUME NEW c \in Components
  PROVE  IF c = "rtsp" THEN NextStart(c) = There("settle")
         ELSE \E d \in Components :
                NextStart(c) = At("start", d) /\ StartRank(d) = StartRank(c) + 1
<1> DEFINE k == StartRank(c)
<1>1. k \in 1 .. 8 /\ StartOrder[k] = c /\ \A i \in 1 .. 8 : StartOrder[i] = c => i = k
  BY ComponentNames DEF StartRank, StartOrder
<1>2. DOMAIN StartOrder = 1 .. 8 /\ Len(StartOrder) = 8
  BY DEF StartOrder
<1>3. k \in DOMAIN StartOrder /\ \A i \in DOMAIN StartOrder : StartOrder[i] = c => i = k
  BY <1>1, <1>2
<1>4. c = "rtsp" <=> k = 8
  BY ComponentNames DEF StartRank
<1>5. k # 8 => StartOrder[k + 1] \in Components /\ StartRank(StartOrder[k + 1]) = k + 1
  BY ComponentNames, SMTT(30) DEF StartRank, StartOrder
<1>6. k = StartRank(c)
  OBVIOUS
<1> HIDE DEF k
<1>7. NextStart(c) = IF k = 8 THEN There("settle") ELSE At("start", StartOrder[k + 1])
  <2>1. Step(StartOrder, "start", c, There("settle")) =
          IF k = Len(StartOrder) THEN There("settle") ELSE At("start", StartOrder[k + 1])
    BY <1>1, <1>3, StepFrom
  <2> QED
    BY <1>2, <2>1 DEF NextStart
<1> QED
  BY <1>4, <1>5, <1>6, <1>7

LEMMA NextStops ==
  ASSUME NEW c \in Components
  PROVE  IF c = "video0" THEN NextStop(c) = At("start", "back")
         ELSE \E d \in Components :
                NextStop(c) = At("stop", d) /\ StopRank(d) = StopRank(c) + 1
<1> DEFINE k == StopRank(c)
<1>1. k \in 1 .. 8 /\ StopOrder[k] = c /\ \A i \in 1 .. 8 : StopOrder[i] = c => i = k
  BY ComponentNames DEF StopRank, StopOrder
<1>2. DOMAIN StopOrder = 1 .. 8 /\ Len(StopOrder) = 8
  BY DEF StopOrder
<1>3. k \in DOMAIN StopOrder /\ \A i \in DOMAIN StopOrder : StopOrder[i] = c => i = k
  BY <1>1, <1>2
<1>4. c = "video0" <=> k = 8
  BY ComponentNames DEF StopRank
<1>5. k # 8 => StopOrder[k + 1] \in Components /\ StopRank(StopOrder[k + 1]) = k + 1
  BY ComponentNames, SMTT(30) DEF StopRank, StopOrder
<1>6. k = StopRank(c)
  OBVIOUS
<1> HIDE DEF k
<1>7. NextStop(c) = IF k = 8 THEN At("start", "back") ELSE At("stop", StopOrder[k + 1])
  <2>1. Step(StopOrder, "stop", c, At("start", StartOrder[1])) =
          IF k = Len(StopOrder) THEN At("start", StartOrder[1]) ELSE At("stop", StopOrder[k + 1])
    BY <1>1, <1>3, StepFrom
  <2> QED
    BY <1>2, <2>1, OrderEntries DEF NextStop
<1> QED
  BY <1>4, <1>5, <1>6, <1>7

-----------------------------------------------------------------------------
(* Where main is.  It is in the video block only if it was asked to be,    *)
(* and stops threads only once the start-up is over.                       *)

Where ==
  /\ mainAt.at \in {"start", "await", "stop", "join"} => mainAt.c \in Components
  /\ mainAt.at \in {"stop", "join", "tests", "waits", "woken"} => ~startup
  /\ mainAt.at = "start" /\ mainAt.c \in VideoBlock \ {"video0"} => Asked("video")
  /\ mainAt.at = "await" /\ mainAt.c \in VideoBlock => Asked("video")
  /\ mainAt.at = "stop" /\ mainAt.c \in VideoBlock \ {"motion"} => "video" \in flags
  /\ mainAt.at = "join" /\ mainAt.c \in VideoBlock => "video" \in flags

(* A thread that lives was created and not joined; one that is up is taken *)
(* for running, but for one main is about to join; and while main stops    *)
(* threads none but the RTSP thread is still coming up.                    *)
Known ==
  /\ phase \in [Components -> {"off", "starting", "up"}]
  /\ \A c \in Components :
       /\ phase[c] # "off" => c \in fresh
       /\ phase[c] = "up" => c \in mark \/ mainAt = At("join", c)
       /\ c # "rtsp" /\ mainAt.at \in {"clear", "tests", "waits", "woken", "stop", "join"}
            => phase[c] # "starting"

(* Of the groups asked for, what main has stopped is off until main starts *)
(* it again.                                                               *)
Stopped ==
  ~intruded =>
    \A c \in Components \ {"rtsp"} :
      /\ /\ mainAt.at \in {"stop", "join"} /\ Group(c) \in flags
         /\ StopRank(c) < StopRank(mainAt.c)
         => phase[c] = "off"
      /\ /\ Asked(Group(c))
         /\ \/ mainAt.at = "start" /\ StartRank(c) >= StartRank(mainAt.c)
            \/ mainAt.at = "await" /\ StartRank(c) > StartRank(mainAt.c)
         => phase[c] = "off"

IInv == Where /\ Known /\ Stopped /\ OneThreadPerWorker

LEMMA GroupOf ==
  /\ \A c \in VideoBlock : Group(c) = "video"
  /\ Group("rtsp") = "rtsp" /\ Group("audio") = "audio" /\ Group("back") = "audio"
  /\ VideoBlock \subseteq Components
  /\ \A c \in Components : c \in VideoBlock \/ c \in {"rtsp", "audio", "back"}
BY DEF Group, VideoBlock, Components

LEMMA InitOK == Init => IInv
<1> SUFFICES ASSUME Init PROVE IInv
  OBVIOUS
<1>1. mainAt.at = "start" /\ mainAt.c = "back" /\ "back" \in Components /\ "back" \notin VideoBlock
  BY AtFields, ComponentNames DEF Init, VideoBlock
<1> QED
  BY <1>1 DEF Init, IInv, Where, Known, Stopped, OneThreadPerWorker

-----------------------------------------------------------------------------
(* The threads.                                                            *)

LEMMA ThreadKeeps ==
  ASSUME IInv, NEW c \in Components, ThreadStep(c)
  PROVE  IInv'
<1> USE DEF IInv
<1>1. UNCHANGED << mainAt, startup, flags, intruded, doubled, fresh >>
  BY DEF ThreadStep, ComeUp, Fail, End, requestVars
<1>2. /\ \A d \in Components \ {c} : phase'[d] = phase[d] /\ (d \in mark => d \in mark')
      /\ phase[c] # "off"
      /\ phase' \in [Components -> {"off", "starting", "up"}]
      /\ phase'[c] \in {"off", "up"}
      /\ phase'[c] = "up" => c \in mark'
  BY DEF ThreadStep, ComeUp, Fail, End, Known
<1>3. phase'[c] = "up" => phase[c] = "starting"
  BY DEF ThreadStep, ComeUp, Fail, End, Known
<1>4. Where'
  BY <1>1 DEF Where, Asked
<1>5. Known'
  BY <1>1, <1>2 DEF Known
<1>6. Stopped'
  BY <1>1, <1>2 DEF Stopped, Asked
<1>7. OneThreadPerWorker'
  BY <1>1 DEF OneThreadPerWorker
<1> QED
  BY <1>4, <1>5, <1>6, <1>7

-----------------------------------------------------------------------------
(* Requests.                                                               *)

(* A request moves main at most out of its wait, and adds flags; one that  *)
(* does so while main is at work counts as an intrusion.                   *)
LEMMA RequestKeeps ==
  ASSUME IInv, Request
  PROVE  IInv'
<1> USE DEF IInv
<1>a. UNCHANGED << startup, phase, fresh, mark, doubled >>
  BY DEF Request, LoadConfig, RequestFullRestart, WsIsDropped, WsAudioSetting, WsAudioOutput,
         WsSwitch, WsInitiates, threadVars
<1>b. \/ mainAt' = mainAt
      \/ mainAt = There("waits") /\ mainAt' = There("woken")
  BY DEF Request, LoadConfig, RequestFullRestart, WsIsDropped, WsAudioSetting, WsAudioOutput,
         WsSwitch, WsInitiates, threadVars, MainNotified
<1>c. intruded' = intruded \/ intruded' = Intrusion
  BY Zenon DEF Request, LoadConfig, RequestFullRestart, WsIsDropped, WsAudioSetting,
         WsAudioOutput, WsSwitch, WsInitiates
<1>d. intruded => intruded'
  BY Zenon, <1>c DEF Intrusion
<1>1. /\ UNCHANGED << startup, phase, fresh, mark, doubled >>
      /\ intruded => intruded'
      /\ \/ mainAt' = mainAt
         \/ mainAt = There("waits") /\ mainAt' = There("woken")
  BY <1>a, <1>b, <1>d
<1>2. \/ flags' = flags
      \/ mainAt = There("waits") \/ intruded'
  BY DEF Request, LoadConfig, RequestFullRestart, WsIsDropped, WsAudioSetting, WsAudioOutput,
         WsSwitch, WsInitiates, Intrusion
<1>3. "video" \in flags => "video" \in flags'
  BY DEF Request, LoadConfig, RequestFullRestart, WsIsDropped, WsAudioSetting, WsAudioOutput,
         WsSwitch, WsInitiates, Groups, threadVars
<1>4. Where'
  BY <1>1, <1>3, AtFields DEF Where, Asked, There
<1>5. Known'
  BY <1>1, AtFields DEF Known, There
<1>6. Stopped'
  <2>1. CASE mainAt' = mainAt /\ flags' = flags
    BY <1>1, <2>1 DEF Stopped, Asked
  <2>2. CASE intruded'
    BY <2>2 DEF Stopped
  <2>3. CASE mainAt = There("waits")
    BY <1>1, <2>3, AtFields DEF Stopped, There
  <2>4. CASE mainAt = There("waits") /\ mainAt' = There("woken")
    BY <2>3, <2>4
  <2> QED
    BY <1>1, <1>2, <2>1, <2>2, <2>3
<1>7. OneThreadPerWorker'
  BY <1>1 DEF OneThreadPerWorker
<1> QED
  BY <1>4, <1>5, <1>6, <1>7

-----------------------------------------------------------------------------
(* main.                                                                   *)

(* main goes from one point to the next and touches no thread.             *)
LEMMA StartKeeps ==
  ASSUME IInv, NEW c \in Components, Start(c)
  PROVE  IInv'
<1> USE AtFields DEF IInv, There
<1>1. /\ mainAt.at = "start" /\ mainAt.c = c /\ mainAt = At("start", c) /\ ~SkipsStart(c)
      /\ UNCHANGED << startup, flags, intruded >> /\ mark \subseteq mark'
  BY DEF Start, requestVars
<1>2. mainAt' \in {NextStart(c), At("await", c)}
  BY DEF Start
<1>3. \/ mainAt' = At("await", c)
      \/ c = "rtsp" /\ mainAt' = At("settle", "main")
      \/ \E d \in Components : mainAt' = At("start", d) /\ StartRank(d) = StartRank(c) + 1
  BY <1>2, NextStarts
<1>4. c \in VideoBlock => Asked("video")
  BY <1>1, OrderEntries DEF Where, SkipsStart
<1>5. StartsNow(c) => Asked(Group(c))
  BY <1>4, GroupOf DEF StartsNow
<1>6. /\ phase' \in [Components -> {"off", "starting", "up"}] /\ fresh \subseteq fresh'
      /\ \A d \in Components \ {c} : phase'[d] = phase[d]
      /\ \/ phase' = phase
         \/ phase'[c] = "starting" /\ c \in fresh'
  BY DEF Start, Known
<1>7. Where'
  <2>1. \A d \in Components : StartRank(d) = StartRank(c) + 1 /\ d \in VideoBlock \ {"video0"}
          => c \in VideoBlock
    BY ComponentNames DEF StartRank, VideoBlock
  <2> QED
    BY <1>1, <1>3, <1>4, <2>1 DEF Where, Asked
<1>8. Known'
  BY <1>1, <1>3, <1>6 DEF Known
<1>9. Stopped'
  BY <1>1, <1>3, <1>6, RanksApart DEF Stopped, Asked
<1>10. OneThreadPerWorker'
  <2>1. doubled' = doubled \/ (StartsNow(c) /\ doubled' \subseteq doubled \cup {c})
    BY DEF Start
  <2>2. ~intruded /\ StartsNow(c) /\ c # "rtsp" => phase[c] = "off"
    BY <1>1, <1>5, RanksApart DEF Stopped
  <2>3. StartsNow(c) /\ phase[c] = "off" => doubled' = doubled
    BY DEF Start
  <2> QED
    BY <1>1, <2>1, <2>2, <2>3 DEF OneThreadPerWorker
<1> QED
  BY <1>7, <1>8, <1>9, <1>10

(* A thread told to stop, or not taken for running: the latter is off.     *)
LEMMA TellKeeps ==
  ASSUME IInv, NEW c \in Components, TellToStop(c)
  PROVE  IInv'
<1> USE AtFields DEF IInv, There
<1>1. /\ mainAt.at = "stop" /\ mainAt.c = c /\ ~SkipsStop(c)
      /\ UNCHANGED << startup, flags, intruded, phase, fresh, doubled >>
  BY DEF TellToStop
<1>2. c \in VideoBlock => "video" \in flags
  BY <1>1, OrderEntries DEF Where, SkipsStop
<1>3. \/ mainAt' = At("join", c) /\ mark \ {c} \subseteq mark'
      \/ mainAt' = NextStop(c) /\ ~StopsNow(c) /\ mark' = mark
  BY DEF TellToStop
<1>4. \/ mainAt' = At("join", c)
      \/ mainAt' = At("start", "back") /\ c = "video0"
      \/ \E d \in Components : mainAt' = At("stop", d) /\ StopRank(d) = StopRank(c) + 1
  BY <1>3, NextStops
<1>5. mainAt' # At("join", c) /\ c # "rtsp" /\ Group(c) \in flags => phase[c] = "off"
  BY <1>1, <1>3, GroupOf DEF StopsNow, Known
<1>6. Where'
  <2>1. \A d \in Components : StopRank(d) = StopRank(c) + 1 /\ d \in VideoBlock \ {"motion"}
          => c \in VideoBlock
    BY ComponentNames DEF StopRank, VideoBlock
  <2>2. "back" \in Components /\ "back" \notin VideoBlock
    BY ComponentNames DEF VideoBlock
  <2> QED
    BY <1>1, <1>2, <1>4, <2>1, <2>2 DEF Where, Asked
<1>7. Known'
  BY <1>1, <1>3, <1>4 DEF Known
<1>8. Stopped'
  <2>1. CASE mainAt' = At("join", c)
    BY <1>1, <2>1 DEF Stopped
  <2>2. CASE mainAt' = At("start", "back") /\ c = "video0"
    <3>1. \A d \in Components : StopRank(d) < StopRank(c) \/ d = c
      BY <2>2, ComponentNames DEF StopRank
    <3>2. mainAt' # At("join", c)
      BY <2>2
    <3> QED
      BY <1>1, <1>5, <2>2, <3>1, <3>2 DEF Stopped, Asked, Where
  <2>3. CASE \E d \in Components : mainAt' = At("stop", d) /\ StopRank(d) = StopRank(c) + 1
    <3>1. mainAt' # At("join", c)
      BY <2>3
    <3> QED
      BY <1>1, <1>5, <2>3, <3>1, RanksApart DEF Stopped
  <2> QED
    BY <1>4, <2>1, <2>2, <2>3
<1>9. OneThreadPerWorker'
  BY <1>1 DEF OneThreadPerWorker
<1> QED
  BY <1>6, <1>7, <1>8, <1>9

(* A thread that was joined is off.                                        *)
LEMMA JoinKeeps ==
  ASSUME IInv, NEW c \in Components, Join(c)
  PROVE  IInv'
<1> USE AtFields DEF IInv, There
<1>1. /\ mainAt.at = "join" /\ mainAt.c = c
      /\ UNCHANGED << startup, flags, intruded, phase, mark, doubled >>
      /\ fresh' = fresh \ {c} /\ phase[c] = "off" /\ mainAt' = NextStop(c)
  BY DEF Join, requestVars, Known
<1>2. \/ mainAt' = At("start", "back") /\ c = "video0"
      \/ \E d \in Components : mainAt' = At("stop", d) /\ StopRank(d) = StopRank(c) + 1
  BY <1>1, NextStops
<1>3. Where'
  <2>1. \A d \in Components : StopRank(d) = StopRank(c) + 1 /\ d \in VideoBlock \ {"motion"}
          => c \in VideoBlock
    BY ComponentNames DEF StopRank, VideoBlock
  <2>2. "back" \in Components /\ "back" \notin VideoBlock
    BY ComponentNames DEF VideoBlock
  <2> QED
    BY <1>1, <1>2, <2>1, <2>2 DEF Where, Asked
<1>4. Known'
  <2>1. \A d \in Components : mainAt = At("join", d) => d = c
    BY <1>1
  <2> QED
    BY <1>1, <1>2, <2>1 DEF Known
<1>5. Stopped'
  <2>1. CASE mainAt' = At("start", "back") /\ c = "video0"
    <3>1. \A d \in Components : StopRank(d) < StopRank(c) \/ d = c
      BY <2>1, ComponentNames DEF StopRank
    <3> QED
      BY <1>1, <2>1, <3>1 DEF Stopped, Asked, Where
  <2>2. CASE \E d \in Components : mainAt' = At("stop", d) /\ StopRank(d) = StopRank(c) + 1
    BY <1>1, <2>2, RanksApart DEF Stopped
  <2> QED
    BY <1>2, <2>1, <2>2
<1>6. OneThreadPerWorker'
  BY <1>1 DEF OneThreadPerWorker
<1> QED
  BY <1>3, <1>4, <1>5, <1>6

LEMMA AwaitKeeps ==
  ASSUME IInv, NEW c \in Components, Await(c)
  PROVE  IInv'
<1> USE AtFields DEF IInv, There
<1>1. /\ mainAt.at = "await" /\ mainAt.c = c /\ mainAt' = NextStart(c)
      /\ UNCHANGED << startup, flags, intruded, phase, fresh, mark, doubled >>
  BY DEF Await, requestVars
<1>2. \/ c = "rtsp" /\ mainAt' = At("settle", "main")
      \/ \E d \in Components : mainAt' = At("start", d) /\ StartRank(d) = StartRank(c) + 1
  BY <1>1, NextStarts
<1>3. Where'
  <2>1. \A d \in Components : StartRank(d) = StartRank(c) + 1 /\ d \in VideoBlock \ {"video0"}
          => c \in VideoBlock
    BY ComponentNames DEF StartRank, VideoBlock
  <2> QED
    BY <1>1, <1>2, <2>1 DEF Where, Asked
<1>4. Known'
  <2>1. \A d \in Components : mainAt # At("join", d)
    BY <1>1
  <2> QED
    BY <1>1, <1>2, <2>1 DEF Known
<1>5. Stopped'
  BY <1>1, <1>2, RanksApart DEF Stopped, Asked
<1>6. OneThreadPerWorker'
  BY <1>1 DEF OneThreadPerWorker
<1> QED
  BY <1>3, <1>4, <1>5, <1>6

(* The points between: the video block skipped, the wait and what leads    *)
(* to it and from it.                                                      *)
LEMMA PointsKeep ==
  ASSUME IInv,
         \/ SkipVideoStart \/ SkipVideoStop \/ Settle \/ Clear \/ Test \/ SpuriousWakeup
  PROVE  IInv'
<1> USE AtFields, OrderEntries, ComponentNames DEF IInv, There, threadVars, requestVars
<1>1. UNCHANGED << phase, fresh, mark, doubled, intruded >>
  BY DEF SkipVideoStart, SkipVideoStop, Settle, Clear, Test, SpuriousWakeup
<1>2. OneThreadPerWorker'
  BY <1>1 DEF OneThreadPerWorker
<1>3. CASE SkipVideoStart
  <2>1. mainAt' = At("start", "rtsp") /\ mainAt.at = "start" /\ UNCHANGED << startup, flags >>
    BY <1>3 DEF SkipVideoStart
  <2>2. \A c \in Components \ {"rtsp"} : StartRank(c) < StartRank("rtsp")
                                         /\ StartRank(c) \in 1 .. 8
    BY DEF StartRank
  <2>3. StartRank("rtsp") = 8 /\ "rtsp" \notin VideoBlock
    BY DEF StartRank, VideoBlock
  <2>4. Where' /\ Known'
    BY <1>1, <2>1, <2>3 DEF Where, Known, Asked
  <2>5. Stopped'
    BY <1>1, <2>1, <2>2, <2>3 DEF Stopped
  <2> QED
    BY <1>2, <2>4, <2>5
<1>4. CASE SkipVideoStop
  <2>1. /\ mainAt' = At("start", "back") /\ mainAt.at = "stop" /\ mainAt.c = "motion"
        /\ UNCHANGED << startup, flags >> /\ "video" \notin flags
    BY <1>4 DEF SkipVideoStop, SkipsStop
  <2>2. "back" \notin VideoBlock /\ \A c \in Components \ {"rtsp"} :
           c \in VideoBlock \/ StopRank(c) < StopRank("motion")
    BY DEF StopRank, VideoBlock
  <2>3. Where' /\ Known'
    BY <1>1, <2>1, <2>2 DEF Where, Known
  <2>4. Stopped'
    BY <1>1, <2>1, <2>2, GroupOf DEF Stopped, Asked, Where
  <2> QED
    BY <1>2, <2>3, <2>4
<1>5. CASE Settle
  <2>1. /\ mainAt' = At("clear", "main") /\ mainAt = At("settle", "main")
        /\ UNCHANGED << startup, flags >>
        /\ \A c \in Components \ {"rtsp"} : phase[c] # "starting"
    BY <1>5 DEF Settle
  <2>2. Where' /\ Known' /\ Stopped'
    BY <1>1, <2>1 DEF Where, Known, Stopped
  <2> QED
    BY <1>2, <2>2
<1>6. CASE Clear
  <2>1. mainAt' = At("tests", "main") /\ mainAt = At("clear", "main") /\ startup' = FALSE
    BY <1>6 DEF Clear
  <2>2. Where' /\ Known' /\ Stopped'
    BY <1>1, <2>1 DEF Where, Known, Stopped
  <2> QED
    BY <1>2, <2>2
<1>7. CASE Test
  <2>1. /\ mainAt.at \in {"tests", "woken"} /\ UNCHANGED << startup, flags >>
        /\ mainAt' = At("waits", "main") \/ mainAt' = At("stop", "rtsp")
    BY <1>7 DEF Test
  <2>2. StopRank("rtsp") = 1 /\ "rtsp" \notin VideoBlock
    BY DEF StopRank, VideoBlock
  <2>3. Where' /\ Known'
    BY <1>1, <2>1, <2>2 DEF Where, Known
  <2>4. Stopped'
    BY <1>1, <2>1, <2>2, RanksApart DEF Stopped
  <2> QED
    BY <1>2, <2>3, <2>4
<1>8. CASE SpuriousWakeup
  <2>1. /\ mainAt = At("waits", "main") /\ mainAt' = At("woken", "main")
        /\ UNCHANGED << startup, flags >>
    BY <1>8 DEF SpuriousWakeup
  <2>2. Where' /\ Known' /\ Stopped'
    BY <1>1, <2>1 DEF Where, Known, Stopped
  <2> QED
    BY <1>2, <2>2
<1> QED
  BY <1>3, <1>4, <1>5, <1>6, <1>7, <1>8

(* A worker that is woken is none of main's business.                      *)
LEMMA RouseKeeps ==
  ASSUME IInv, RouseBackchannel
  PROVE  IInv'
BY DEF RouseBackchannel, requestVars, IInv, Where, Known, Stopped, Asked, OneThreadPerWorker

LEMMA StepOK == IInv /\ [Next]_vars => IInv'
<1> SUFFICES ASSUME IInv, [Next]_vars PROVE IInv'
  OBVIOUS
<1>1. CASE UNCHANGED vars
  BY <1>1 DEF vars, threadVars, requestVars, IInv, Where, Known, Stopped, Asked,
              OneThreadPerWorker
<1> QED
  BY <1>1, ThreadKeeps, RequestKeeps, StartKeeps, TellKeeps, JoinKeeps, AwaitKeeps, PointsKeep,
     RouseKeeps
     DEF Next, MainStep

(* Unless a request came while main was at work, main starts no worker     *)
(* whose thread is alive, but for an RTSP thread that is still coming up.  *)
THEOREM WorkersAreSingle == Spec => []OneThreadPerWorker
<1>1. IInv => OneThreadPerWorker
  BY DEF IInv
<1> QED
  BY InitOK, StepOK, <1>1, PTL DEF Spec

-----------------------------------------------------------------------------
(* The groups asked for.  They are on the flags when main tests these, and *)
(* each until main has come to the first thread of its group.              *)

Ahead(c) ==
  \/ mainAt.at = "stop" /\ StopRank(mainAt.c) <= StopRank(c)
  \/ mainAt.at = "join" /\ StopRank(mainAt.c) < StopRank(c)

Pending ==
  /\ pending \subseteq Groups
  /\ ~intruded =>
       /\ mainAt.at \in {"start", "await", "settle", "clear", "waits"} => pending = {}
       /\ mainAt.at \in {"tests", "woken", "stop", "join"} => pending \subseteq flags
       /\ mainAt.at \in {"stop", "join"} =>
            /\ "rtsp" \in pending => Ahead("rtsp")
            /\ "audio" \in pending => Ahead("audio")
            /\ "video" \in pending => Ahead("motion")

LEMMA PendingInit == Init => Pending
BY AtFields DEF Init, Pending

LEMMA PendingRequest ==
  ASSUME Pending, Request
  PROVE  Pending'
<1> USE AtFields DEF Pending, There, Groups
<1>1. CASE LoadConfig
  BY <1>1 DEF LoadConfig, Ahead
<1>2. CASE WsIsDropped
  BY <1>2 DEF WsIsDropped, Ahead
<1>3. CASE WsAudioSetting \/ WsAudioOutput \/ WsSwitch
  <2>1. UNCHANGED << mainAt, pending >> /\ flags \subseteq flags'
        /\ intruded' = (intruded \/ mainAt # There("waits"))
    BY <1>3 DEF WsAudioSetting, WsAudioOutput, WsSwitch, Intrusion
  <2> QED
    BY <2>1 DEF Ahead
<1>4. ASSUME RequestFullRestart \/ \E which \in WsChoices : WsInitiates(which)
      PROVE  Pending'
  <2>1. /\ intruded' = (intruded \/ mainAt # There("waits"))
        /\ mainAt' = MainNotified
        /\ flags' \subseteq Groups
        /\ pending' = flags' \/ pending' = pending \cup flags'
    BY <1>4 DEF RequestFullRestart, WsInitiates, WsChoices, Intrusion
  <2>2. CASE intruded'
    BY <2>1, <2>2
  <2>3. CASE ~intruded'
    <3>1. ~intruded /\ mainAt = There("waits")
      BY Zenon, <2>1, <2>3
    <3>2. mainAt.at = "waits" /\ mainAt'.at = "woken"
      BY <2>1, <3>1 DEF MainNotified
    <3>3. pending' = flags' /\ flags' \subseteq Groups
      BY <2>1, <3>1, <3>2
    <3> QED
      BY <2>3, <3>2, <3>3
  <2> QED
    BY <2>2, <2>3
<1> QED
  BY <1>1, <1>2, <1>3, <1>4 DEF Request

LEMMA PendingTell ==
  ASSUME IInv, Pending, NEW c \in Components, TellToStop(c)
  PROVE  Pending'
<1> USE AtFields DEF Pending, There, Groups
<1>1. /\ mainAt.at = "stop" /\ mainAt.c = c /\ UNCHANGED << flags, intruded >>
      /\ pending' = Served(c) /\ pending' \subseteq pending
  BY DEF TellToStop, Served
<1>2. \/ mainAt' = At("join", c)
      \/ mainAt' = At("start", "back") /\ c = "video0"
      \/ \E d \in Components : mainAt' = At("stop", d) /\ StopRank(d) = StopRank(c) + 1
  BY NextStops DEF TellToStop
<1>3. ASSUME ~intruded PROVE \A d \in {"rtsp", "audio", "motion"} :
                               Group(d) \in pending' => StopRank(c) < StopRank(d)
  <2>1. ASSUME NEW d \in {"rtsp", "audio", "motion"}, Group(d) \in pending'
        PROVE  StopRank(c) <= StopRank(d)
    BY <1>1, <1>3, <2>1, GroupOf DEF Ahead, VideoBlock
  <2>2. c \in {"rtsp", "audio", "motion"} => Group(c) \notin pending'
    BY <1>1, <1>3, OrderEntries DEF Served
  <2> QED
    BY <2>1, <2>2, RanksApart, ComponentNames
<1>4. Group("rtsp") = "rtsp" /\ Group("audio") = "audio" /\ Group("motion") = "video"
  BY GroupOf DEF VideoBlock
<1>5. StopRank("video0") = 8 /\ StopRank("rtsp") = 1 /\ StopRank("audio") = 2
      /\ StopRank("motion") = 4
  BY DEF StopRank
<1>6. StopRank(c) \in 1 .. 8
  BY RanksApart
<1>7. CASE intruded
  BY <1>1, <1>7
<1>8. CASE ~intruded
  <2>1. /\ pending' \subseteq flags' /\ pending' \subseteq Groups
        /\ "rtsp" \in pending' => StopRank(c) < StopRank("rtsp")
        /\ "audio" \in pending' => StopRank(c) < StopRank("audio")
        /\ "video" \in pending' => StopRank(c) < StopRank("motion")
    BY <1>1, <1>3, <1>4, <1>8
  <2>2. CASE mainAt' = At("join", c)
    BY <2>1, <2>2 DEF Ahead
  <2>3. CASE mainAt' = At("start", "back") /\ c = "video0"
    <3>1. pending' = {}
      BY <1>5, <2>1, <2>3
    <3> QED
      BY <2>3, <3>1
  <2>4. CASE \E d \in Components : mainAt' = At("stop", d) /\ StopRank(d) = StopRank(c) + 1
    BY <1>5, <1>6, <2>1, <2>4 DEF Ahead
  <2> QED
    BY <1>2, <2>2, <2>3, <2>4
<1> QED
  BY <1>7, <1>8

LEMMA PendingJoin ==
  ASSUME IInv, Pending, NEW c \in Components, Join(c)
  PROVE  Pending'
<1> USE AtFields DEF Pending, There, Groups
<1>1. /\ mainAt.at = "join" /\ mainAt.c = c /\ UNCHANGED << flags, intruded, pending >>
  BY DEF Join, requestVars
<1>2. \/ mainAt' = At("start", "back") /\ c = "video0"
      \/ \E d \in Components : mainAt' = At("stop", d) /\ StopRank(d) = StopRank(c) + 1
  BY NextStops DEF Join
<1>3. StopRank("video0") = 8 /\ StopRank("rtsp") = 1 /\ StopRank("audio") = 2
      /\ StopRank("motion") = 4 /\ StopRank(c) \in 1 .. 8
  BY RanksApart DEF StopRank
<1>4. CASE mainAt' = At("start", "back") /\ c = "video0"
  <2>1. ~intruded => pending = {}
    BY <1>1, <1>3, <1>4 DEF Ahead
  <2> QED
    BY <1>1, <1>4, <2>1
<1>5. CASE \E d \in Components : mainAt' = At("stop", d) /\ StopRank(d) = StopRank(c) + 1
  BY <1>1, <1>3, <1>5 DEF Ahead
<1> QED
  BY <1>2, <1>4, <1>5

LEMMA PendingStep ==
  ASSUME IInv, Pending, [Next]_vars
  PROVE  Pending'
<1> USE AtFields DEF Pending, There, threadVars, requestVars
<1>1. ASSUME NEW c \in Components, ThreadStep(c) PROVE Pending'
  BY <1>1 DEF ThreadStep, ComeUp, Fail, End, Ahead
<1>2. ASSUME NEW c \in Components, Start(c) \/ Await(c) PROVE Pending'
  <2>1. /\ mainAt.at \in {"start", "await"} /\ UNCHANGED << flags, intruded, pending >>
        /\ mainAt' \in {NextStart(c), At("await", c)}
    BY <1>2 DEF Start, Await
  <2>2. mainAt'.at \in {"start", "await", "settle"}
    BY <2>1, NextStarts
  <2> QED
    BY <2>1, <2>2
<1>3. CASE SkipVideoStart \/ Settle
  <2>1. /\ mainAt.at \in {"start", "settle"} /\ mainAt'.at \in {"start", "clear"}
        /\ UNCHANGED << flags, intruded, pending >>
    BY <1>3 DEF SkipVideoStart, Settle
  <2> QED
    BY <2>1
<1>4. CASE Clear
  BY <1>4 DEF Clear
<1>5. CASE Test
  <2>1. /\ mainAt.at \in {"tests", "woken"} /\ UNCHANGED << flags, intruded, pending >>
        /\ \/ mainAt' = At("waits", "main") /\ flags = {}
           \/ mainAt' = At("stop", "rtsp")
    BY <1>5, OrderEntries DEF Test
  <2>2. StopRank("rtsp") = 1 /\ StopRank("audio") = 2 /\ StopRank("motion") = 4
    BY DEF StopRank
  <2> QED
    BY <2>1, <2>2 DEF Ahead
<1>6. CASE SpuriousWakeup
  BY <1>6 DEF SpuriousWakeup
<1>7. CASE SkipVideoStop
  <2>1. /\ mainAt = At("stop", "motion") /\ mainAt' = At("start", "back")
        /\ "video" \notin flags /\ UNCHANGED << flags, intruded, pending >>
    BY <1>7, OrderEntries DEF SkipVideoStop, SkipsStop
  <2>2. StopRank("rtsp") = 1 /\ StopRank("audio") = 2 /\ StopRank("motion") = 4
    BY DEF StopRank
  <2>3. ~intruded => pending = {}
    BY <2>1, <2>2 DEF Ahead, Groups
  <2> QED
    BY <2>1, <2>3
<1>8. CASE RouseBackchannel \/ UNCHANGED vars
  BY <1>8 DEF RouseBackchannel, vars, Ahead
<1> QED
  BY <1>1, <1>2, <1>3, <1>4, <1>5, <1>6, <1>7, <1>8, PendingRequest, PendingTell, PendingJoin
     DEF Next, MainStep

(* A request made while main waits is not slept through.                   *)
THEOREM RequestsAreHeard == Spec => []WaitingMainIsWoken
<1>1. Pending => WaitingMainIsWoken
  BY AtFields DEF Pending, WaitingMainIsWoken, There
<1> QED
  BY InitOK, StepOK, PendingInit, PendingStep, <1>1, PTL DEF Spec
=============================================================================
