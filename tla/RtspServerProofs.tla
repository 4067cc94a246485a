-------------------------- MODULE RtspServerProofs ---------------------------
(***************************************************************************)
(* Proofs about the two parts of the RTSP server that begin things:        *)
(* BackchannelSession, for any number of sessions and any even number of   *)
(* port numbers: a session holds all it needs or nothing, and its RTCP     *)
(* instance ends with its stream unless it played twice; and RtspBootstrap,*)
(* for any number of streams and restarts: a stream is offered with        *)
(* parameter sets of one run of its encoder, and the RTSP thread asks a    *)
(* worker for keyframes only while it waits.                               *)
(***************************************************************************)
EXTENDS RtspBootstrap, BackchannelSession, TLAPS

-----------------------------------------------------------------------------
(* BackchannelSession: port numbers.                                       *)

(* The next port number, and the one after it, if they do not come round.  *)
LEMMA NextPorts ==
  ASSUME NEW p \in Ports, p % 2 = 0
  PROVE  /\ Next2(p, 1) = p + 1 /\ p + 1 \in Ports
         /\ Next2(p, 2) = 0 \/ (Next2(p, 2) \in Ports /\ Next2(p, 2) % 2 = 0)
         /\ Next2(p + 1, 1) = Next2(p, 2)
<1>1. p \in Nat /\ p > 0 /\ p + 1 < PortNumbers /\ PortNumbers \in Nat
  BY SessionAssumption DEF Ports
<1>2. Next2(p, 1) = p + 1
  BY <1>1 DEF Next2
<1>3. Next2(p + 1, 1) = Next2(p, 2)
  BY <1>1 DEF Next2
<1>4. CASE p + 2 = PortNumbers
  <2>1. PortNumbers % PortNumbers = 0
    BY <1>1
  <2>2. Next2(p, 2) = 0
    BY <1>4, <2>1 DEF Next2
  <2> QED
    BY <1>1, <1>2, <1>3, <2>2, SessionAssumption DEF Ports
<1>5. CASE p + 2 < PortNumbers
  <2>1. Next2(p, 2) = p + 2
    BY <1>1, <1>5 DEF Next2
  <2> QED
    BY <1>1, <1>2, <1>3, <1>5, <2>1, SessionAssumption DEF Ports
<1> QED
  BY <1>1, <1>4, <1>5

LEMMA SystemIsNoPort == System \notin Ports /\ None \notin Ports /\ System # None
BY SessionAssumption DEF System, None, Ports

-----------------------------------------------------------------------------
(* What the sessions hold, and how far the SETUP at work has come with its *)
(* own.                                                                    *)

Busy == setup.does \in {"tcp", "rtp", "rtcp", "source"}

Pair(s) ==
  \/ rtp[s] = System /\ rtcp[s] = System
  \/ rtp[s] \in Ports /\ rtp[s] % 2 = 0 /\ rtcp[s] = rtp[s] + 1

Nothing(s) == rtp[s] = None /\ rtcp[s] = None

Types ==
  /\ rtp \in [Sessions -> Int] /\ rtcp \in [Sessions -> Int]
  /\ stream \subseteq Sessions

Progress ==
  /\ Busy <=> setup # Idle
  /\ Busy => setup.for \in Sessions \ stream
  /\ setup.does \in {"rtp", "rtcp"} => setup.port \in Ports /\ setup.port % 2 = 0

Holdings ==
  /\ source = stream
  /\ sink = IF Busy THEN stream \cup {setup.for} ELSE stream
  /\ \A s \in Sessions :
       CASE s \in stream \/ (s = setup.for /\ setup.does = "source") -> Pair(s)
         [] s \notin stream /\ s = setup.for /\ setup.does = "rtcp" ->
              rtp[s] = setup.port /\ rtcp[s] = None
         [] OTHER -> Nothing(s)

Unshared ==
  \A s, t \in Sessions : s # t /\ rtp[s] = rtp[t] => rtp[s] \in {System, None}

HoldInv == Types /\ Progress /\ Holdings /\ Unshared

(* A SETUP that has not begun holds nothing.                               *)
LEMMA IdleFields == Idle.does = "nothing"
BY DEF Idle

LEMMA DoesFields ==
  ASSUME NEW what, NEW s, NEW p, Does(what, s, p)
  PROVE  setup'.does = what /\ setup'.for = s /\ setup'.port = p
BY DEF Does

LEMMA HoldInit == Init => HoldInv
<1> SUFFICES ASSUME Init PROVE HoldInv
  OBVIOUS
<1>1. ~Busy /\ setup = Idle /\ setup.does = "nothing"
  BY IdleFields DEF Init, Busy
<1>2. Types
  BY DEF Init, Types, None
<1>3. Holdings
  BY <1>1 DEF Init, Holdings, Nothing
<1> QED
  BY <1>1, <1>2, <1>3 DEF Init, HoldInv, Progress, Unshared

(* What a step leaves alone of all that but the other programs.            *)
LEMMA HoldAlone ==
  ASSUME HoldInv, UNCHANGED << setup, sink, source, rtp, rtcp, stream >>
  PROVE  HoldInv'
BY DEF HoldInv, Types, Progress, Busy, Holdings, Pair, Nothing, Unshared

(* A SETUP begins with the sink.                                           *)
LEMMA HoldSetup ==
  ASSUME HoldInv, NEW s \in Sessions, NEW udp \in BOOLEAN, Setup(s, udp)
  PROVE  HoldInv'
<1> USE DEF HoldInv
<1>1. setup = Idle /\ ~Busy /\ s \notin stream
  BY DEF Setup, Progress
<1>2. /\ setup'.for = s /\ setup'.does \in {"rtp", "tcp"}
      /\ setup'.does = "rtp" => setup'.port = InitialPort
  BY DoesFields DEF Setup
<1>3. UNCHANGED << source, rtp, rtcp, stream >> /\ sink' = sink \cup {s}
  BY DEF Setup
<1>4. Busy' /\ setup' # Idle
  BY <1>2, IdleFields DEF Busy
<1>5. InitialPort \in Ports /\ InitialPort % 2 = 0
  BY SessionAssumption DEF Ports
<1>6. Types' /\ Unshared'
  BY <1>3 DEF Types, Unshared
<1>7. Progress'
  BY <1>1, <1>2, <1>3, <1>4, <1>5 DEF Progress
<1>8. \A t \in Sessions : IF t \in stream THEN Pair(t) ELSE Nothing(t)
  BY <1>1, IdleFields DEF Holdings
<1>9. Holdings'
  BY <1>1, <1>2, <1>3, <1>4, <1>8 DEF Holdings, Pair, Nothing
<1> QED
  BY <1>6, <1>7, <1>9

(* A SETUP ends without success: its session has no stream, and once the   *)
(* sockets are closed nothing but the sink, which goes too.                *)
LEMMA HoldFail ==
  ASSUME HoldInv, NEW s \in Sessions, Busy, setup.for = s, Fail(s),
         \A t \in Sessions \ {s} : rtp'[t] = rtp[t] /\ rtcp'[t] = rtcp[t],
         rtp' \in [Sessions -> Int], rtcp' \in [Sessions -> Int],
         rtp'[s] = None, rtcp'[s] = None, UNCHANGED << source, stream >>
  PROVE  HoldInv'
<1> USE DEF HoldInv
<1>1. s \notin stream /\ setup' = Idle /\ sink' = sink \ {s}
  BY DEF Progress, Fail
<1>2. setup'.does = "nothing" /\ ~Busy'
  BY <1>1, IdleFields DEF Busy
<1>3. Types' /\ Progress'
  BY <1>1, <1>2 DEF Types, Progress
<1>4. \A t \in Sessions \ {s} : IF t \in stream THEN Pair(t) ELSE Nothing(t)
  BY DEF Holdings
<1>5. Holdings'
  BY <1>1, <1>2, <1>4 DEF Holdings, Pair, Nothing
<1>6. Unshared'
  BY DEF Unshared
<1> QED
  BY <1>3, <1>5, <1>6

(* A SETUP goes on, and its session holds what that takes.                 *)
LEMMA HoldGoesOn ==
  ASSUME HoldInv, NEW s \in Sessions, Busy, setup.for = s,
         NEW what \in {"rtp", "rtcp", "source"}, NEW p, Does(what, s, p),
         what \in {"rtp", "rtcp"} => p \in Ports /\ p % 2 = 0,
         \A t \in Sessions \ {s} : rtp'[t] = rtp[t] /\ rtcp'[t] = rtcp[t],
         rtp' \in [Sessions -> Int], rtcp' \in [Sessions -> Int],
         CASE what = "rtp"    -> rtp'[s] = None /\ rtcp'[s] = None
           [] what = "rtcp"   -> rtp'[s] = p /\ rtcp'[s] = None
           [] what = "source" -> Pair(s)',
         \A t \in Sessions \ {s} : rtp[t] = rtp'[s] => rtp[t] \in {System, None},
         UNCHANGED << sink, source, stream >>
  PROVE  HoldInv'
<1> USE DEF HoldInv
<1>1. setup'.does = what /\ setup'.for = s /\ setup'.port = p
  BY DoesFields
<1>2. Busy' /\ setup' # Idle
  BY <1>1, IdleFields DEF Busy
<1>3. s \notin stream
  BY DEF Progress
<1>4. Types' /\ Progress'
  BY <1>1, <1>2, <1>3 DEF Types, Progress
<1>5. \A t \in Sessions \ {s} : IF t \in stream THEN Pair(t) ELSE Nothing(t)
  BY DEF Holdings
<1>6. \A t \in Sessions \ {s} : IF t \in stream THEN Pair(t)' ELSE Nothing(t)'
  BY <1>5 DEF Pair, Nothing
<1>7. Holdings'
  <2>1. source' = stream' /\ sink' = stream' \cup {setup'.for}
    BY <1>1 DEF Holdings
  <2>2. what = "source" => Pair(s)'
    OBVIOUS
  <2>3. what = "rtcp" => rtp'[s] = setup'.port /\ rtcp'[s] = None
    BY <1>1
  <2>4. what = "rtp" => Nothing(s)'
    BY DEF Nothing
  <2> QED
    BY <1>1, <1>2, <1>3, <1>6, <2>1, <2>2, <2>3, <2>4 DEF Holdings
<1>8. Unshared'
  BY DEF Unshared
<1> QED
  BY <1>4, <1>7, <1>8

(* At a port that is free no session has its socket.                       *)
LEMMA FreeIsUnshared ==
  ASSUME NEW p, Free(p), NEW t \in Sessions
  PROVE  rtp[t] # p
BY DEF Free

LEMMA HoldOpenRtp ==
  ASSUME HoldInv, NEW s \in Sessions, OpenRtp(s)
  PROVE  HoldInv'
<1> USE DEF HoldInv
<1>1. Busy /\ setup.for = s /\ setup.does = "rtp" /\ s \notin stream
  BY DEF OpenRtp, Doing, Busy, Progress
<1>2. setup.port \in Ports /\ setup.port % 2 = 0 /\ setup.port \in Int
  BY <1>1 DEF Progress, Ports
<1>3. rtp[s] = None /\ rtcp[s] = None
  BY <1>1 DEF Holdings, Nothing
<1>4. CASE Free(setup.port)
  <2>1. rtp' = [rtp EXCEPT ![s] = setup.port] /\ Does("rtcp", s, setup.port)
    BY <1>4 DEF OpenRtp
  <2>2. rtp'[s] = setup.port /\ rtp' \in [Sessions -> Int]
    BY <1>2, <2>1 DEF Types
  <2>3. \A t \in Sessions \ {s} : rtp'[t] = rtp[t] /\ rtp[t] # rtp'[s]
    BY <1>4, <2>1, <2>2, FreeIsUnshared DEF Types
  <2>4. UNCHANGED << rtcp, sink, source, stream >>
    BY <1>4 DEF OpenRtp
  <2> QED
    BY <1>1, <1>2, <1>3, <2>1, <2>2, <2>3, <2>4, HoldGoesOn DEF Types
<1>5. CASE ~Free(setup.port)
  <2>1. UNCHANGED << rtp, rtcp, source, stream >> /\ Continue(s, Next2(setup.port, 2))
    BY <1>5 DEF OpenRtp
  <2>2. CASE Next2(setup.port, 2) = 0
    BY <1>1, <1>3, <2>1, <2>2, HoldFail DEF Continue, Types
  <2>3. CASE Next2(setup.port, 2) # 0
    <3>1. Next2(setup.port, 2) \in Ports /\ Next2(setup.port, 2) % 2 = 0
      BY <1>2, <2>3, NextPorts
    <3>2. Does("rtp", s, Next2(setup.port, 2)) /\ UNCHANGED sink
      BY <2>1, <2>3 DEF Continue
    <3>3. \A t \in Sessions \ {s} : rtp[t] = None => rtp[t] \in {System, None}
      OBVIOUS
    <3> QED
      BY <1>1, <1>3, <2>1, <3>1, <3>2, <3>3, HoldGoesOn DEF Types
  <2> QED
    BY <2>2, <2>3
<1> QED
  BY <1>4, <1>5

LEMMA HoldOpenRtcp ==
  ASSUME HoldInv, NEW s \in Sessions, OpenRtcp(s)
  PROVE  HoldInv'
<1> USE DEF HoldInv
<1> DEFINE p == Next2(setup.port, 1)
           q == Next2(p, 1)
<1>1. Busy /\ setup.for = s /\ setup.does = "rtcp" /\ s \notin stream
  BY DEF OpenRtcp, Doing, Busy, Progress
<1>2. setup.port \in Ports /\ setup.port % 2 = 0
  BY <1>1 DEF Progress
<1>3. rtp[s] = setup.port /\ rtcp[s] = None
  BY <1>1 DEF Holdings
<1>4. p = setup.port + 1 /\ p \in Ports /\ p # 0
  BY <1>2, NextPorts, SystemIsNoPort DEF System
<1>5. q = 0 \/ (q \in Ports /\ q % 2 = 0)
  BY <1>2, <1>4, NextPorts
<1> HIDE DEF p, q
<1>6. CASE Free(p)
  <2>1. /\ rtcp' = [rtcp EXCEPT ![s] = p] /\ Does("source", s, 0)
        /\ UNCHANGED << rtp, sink, source, stream >>
    BY <1>4, <1>6 DEF OpenRtcp, p
  <2>2. rtcp'[s] = p /\ rtcp' \in [Sessions -> Int]
    BY <1>4, <2>1 DEF Types, Ports
  <2>3. \A t \in Sessions \ {s} : rtcp'[t] = rtcp[t] /\ rtp'[t] = rtp[t]
    BY <2>1 DEF Types
  <2>4. Pair(s)'
    BY <1>2, <1>3, <1>4, <2>1, <2>2 DEF Pair
  <2>5. \A t \in Sessions \ {s} : rtp[t] = rtp'[s] => rtp[t] \in {System, None}
    BY <2>1 DEF Unshared
  <2> QED
    BY <1>1, <2>1, <2>2, <2>3, <2>4, <2>5, HoldGoesOn DEF Types
<1>7. CASE ~Free(p)
  <2>1. /\ rtp' = [rtp EXCEPT ![s] = None] /\ UNCHANGED << rtcp, source, stream >>
        /\ Continue(s, q)
    BY <1>4, <1>7 DEF OpenRtcp, p, q
  <2>2. /\ rtp'[s] = None /\ rtp' \in [Sessions -> Int]
        /\ \A t \in Sessions \ {s} : rtp'[t] = rtp[t]
    BY <2>1 DEF Types, None
  <2>3. CASE q = 0
    BY <1>1, <1>3, <2>1, <2>2, <2>3, HoldFail DEF Continue, Types
  <2>4. CASE q # 0
    <3>1. Does("rtp", s, q) /\ UNCHANGED sink
      BY <2>1, <2>4 DEF Continue
    <3> QED
      BY <1>1, <1>3, <1>5, <2>1, <2>2, <2>4, <3>1, HoldGoesOn DEF Types
  <2> QED
    BY <2>3, <2>4
<1> QED
  BY <1>6, <1>7

LEMMA HoldOpenDummies ==
  ASSUME HoldInv, NEW s \in Sessions, OpenDummies(s)
  PROVE  HoldInv'
<1> USE DEF HoldInv
<1>1. Busy /\ setup.for = s /\ setup.does = "tcp" /\ s \notin stream
  BY DEF OpenDummies, Doing, Busy, Progress
<1>2. rtp[s] = None /\ rtcp[s] = None /\ UNCHANGED << source, stream >>
  BY <1>1 DEF Holdings, Nothing, OpenDummies
<1>3. CASE Fail(s) /\ UNCHANGED << rtp, rtcp >>
  BY <1>1, <1>2, <1>3, HoldFail DEF Types
<1>4. CASE /\ rtp' = [rtp EXCEPT ![s] = System] /\ rtcp' = [rtcp EXCEPT ![s] = System]
           /\ Does("source", s, 0) /\ UNCHANGED sink
  <2>1. /\ rtp'[s] = System /\ rtp' \in [Sessions -> Int]
        /\ rtcp'[s] = System /\ rtcp' \in [Sessions -> Int]
        /\ \A t \in Sessions \ {s} : rtp'[t] = rtp[t] /\ rtcp'[t] = rtcp[t]
    BY <1>4 DEF Types, System
  <2>2. Pair(s)'
    BY <2>1 DEF Pair
  <2>3. \A t \in Sessions \ {s} : rtp[t] = rtp'[s] => rtp[t] \in {System, None}
    BY <2>1
  <2> QED
    BY <1>1, <1>2, <1>4, <2>1, <2>2, <2>3, HoldGoesOn
<1> QED
  BY <1>3, <1>4 DEF OpenDummies

LEMMA HoldCreateSource ==
  ASSUME HoldInv, NEW s \in Sessions, CreateSource(s)
  PROVE  HoldInv'
<1> USE DEF HoldInv
<1>1. Busy /\ setup.for = s /\ setup.does = "source" /\ s \notin stream
  BY DEF CreateSource, Doing, Busy, Progress
<1>2. CASE Fail(s) /\ NoGroupsocks(s) /\ UNCHANGED << source, stream >>
  <2>1. /\ rtp'[s] = None /\ rtp' \in [Sessions -> Int]
        /\ rtcp'[s] = None /\ rtcp' \in [Sessions -> Int]
        /\ \A t \in Sessions \ {s} : rtp'[t] = rtp[t] /\ rtcp'[t] = rtcp[t]
    BY <1>2 DEF NoGroupsocks, Types, None
  <2> QED
    BY <1>1, <1>2, <2>1, HoldFail
<1>3. CASE /\ source' = source \cup {s} /\ stream' = stream \cup {s} /\ setup' = Idle
           /\ UNCHANGED << sink, rtp, rtcp >>
  <2>1. setup'.does = "nothing" /\ ~Busy'
    BY <1>3, IdleFields DEF Busy
  <2>2. Types' /\ Unshared'
    BY <1>3 DEF Types, Unshared
  <2>3. Progress'
    BY <1>3, <2>1 DEF Progress
  <2>4. source' = stream' /\ sink' = stream'
    BY <1>1, <1>3 DEF Holdings
  <2>5. \A t \in Sessions : IF t \in stream' THEN Pair(t) ELSE Nothing(t)
    BY <1>1, <1>3 DEF Holdings
  <2>6. \A t \in Sessions : IF t \in stream' THEN Pair(t)' ELSE Nothing(t)'
    BY <1>3, <2>5 DEF Pair, Nothing
  <2>7. Holdings'
    BY <2>1, <2>4, <2>6 DEF Holdings
  <2> QED
    BY <2>2, <2>3, <2>7
<1> QED
  BY <1>2, <1>3 DEF CreateSource

LEMMA HoldTeardown ==
  ASSUME HoldInv, NEW s \in Sessions, Teardown(s)
  PROVE  HoldInv'
<1> USE DEF HoldInv
<1>1. ~Busy /\ setup = Idle /\ setup' = setup
  BY DEF Teardown, Progress
<1>2. ~Busy' /\ setup'.does = "nothing"
  BY <1>1, IdleFields DEF Busy
<1>3. /\ source' = source \ {s} /\ sink' = sink \ {s} /\ stream' = stream \ {s}
      /\ rtp'[s] = None /\ rtp' \in [Sessions -> Int]
      /\ rtcp'[s] = None /\ rtcp' \in [Sessions -> Int]
      /\ \A t \in Sessions \ {s} : rtp'[t] = rtp[t] /\ rtcp'[t] = rtcp[t]
  BY DEF Teardown, NoGroupsocks, Types, None
<1>4. Types' /\ Progress'
  BY <1>1, <1>2, <1>3 DEF Types, Progress
<1>5. \A t \in Sessions : IF t \in stream THEN Pair(t) ELSE Nothing(t)
  BY <1>1, IdleFields DEF Holdings
<1>6. \A t \in Sessions : IF t \in stream' THEN Pair(t)' ELSE Nothing(t)'
  BY <1>3, <1>5 DEF Pair, Nothing
<1>7. Holdings'
  <2>1. source' = stream' /\ sink' = stream'
    BY <1>1, <1>3 DEF Holdings
  <2> QED
    BY <1>2, <1>6, <2>1 DEF Holdings
<1>8. Unshared'
  BY <1>3 DEF Unshared
<1> QED
  BY <1>4, <1>7, <1>8

LEMMA HoldStep == HoldInv /\ [Next]_vars => HoldInv'
<1> SUFFICES ASSUME HoldInv, [Next]_vars PROVE HoldInv'
  OBVIOUS
<1> USE DEF made
<1>1. CASE SetupStep
  BY <1>1, HoldOpenRtp, HoldOpenRtcp, HoldOpenDummies, HoldCreateSource DEF SetupStep
<1>2. CASE Others
  BY <1>2, HoldAlone DEF Others
<1>3. ASSUME NEW s \in Sessions, NEW udp \in BOOLEAN, Setup(s, udp) PROVE HoldInv'
  BY <1>3, HoldSetup
<1>4. ASSUME NEW s \in Sessions, SetupRefused(s) \/ Play(s) PROVE HoldInv'
  BY <1>4, HoldAlone DEF SetupRefused, Play
<1>5. ASSUME NEW s \in Sessions, Teardown(s) PROVE HoldInv'
  BY <1>5, HoldTeardown
<1>6. CASE UNCHANGED vars
  BY <1>6, HoldAlone DEF vars
<1> QED
  BY <1>1, <1>2, <1>3, <1>4, <1>5, <1>6 DEF Next

(* Between two handlers a session holds all it needs or nothing, for any   *)
(* number of sessions and whatever ports other programs take.              *)
THEOREM SessionHoldsAllOrNothing == Spec => []AllOrNothing
<1>1. HoldInv => AllOrNothing
  <2> SUFFICES ASSUME HoldInv, setup = Idle PROVE AllOrNothing
    BY DEF AllOrNothing
  <2>1. ~Busy /\ setup.does = "nothing"
    BY IdleFields DEF HoldInv, Progress
  <2>2. sink = stream /\ source = stream
    BY <2>1 DEF HoldInv, Holdings
  <2>3. \A s \in Sessions : IF s \in stream THEN Pair(s) ELSE Nothing(s)
    BY <2>1 DEF HoldInv, Holdings
  <2>4. \A s, t \in stream : s # t /\ rtp[s] = rtp[t] => rtp[s] = System
    BY <2>3, SystemIsNoPort DEF HoldInv, Types, Unshared, Pair
  <2> QED
    BY <2>2, <2>3, <2>4 DEF AllOrNothing, Pair, Nothing
<1> QED
  BY HoldInit, HoldStep, <1>1, PTL DEF Spec

-----------------------------------------------------------------------------
(* The RTCP instances: one that is set was made by a PLAY.                 *)

ReportInv ==
  /\ plays \in [Sessions -> Nat] /\ stream \subseteq Sessions
  /\ \A s \in report : s \in stream /\ plays[s] > 0
  /\ \A s \in orphans : s \in Sessions /\ plays[s] > 1

LEMMA ReportInit == Init => ReportInv
BY DEF Init, ReportInv

LEMMA ReportStep == ReportInv /\ [Next]_vars => ReportInv'
<1> SUFFICES ASSUME ReportInv, [Next]_vars PROVE ReportInv'
  OBVIOUS
<1> USE DEF ReportInv
<1>1. ASSUME NEW s \in Sessions, Play(s) PROVE ReportInv'
  <2>1. /\ plays' = [plays EXCEPT ![s] = @ + 1] /\ stream' = stream
        /\ report' \subseteq report \cup {s} /\ s \in stream
        /\ orphans' = IF s \in report THEN orphans \cup {s} ELSE orphans
    BY <1>1 DEF Play
  <2>2. /\ plays' \in [Sessions -> Nat] /\ plays'[s] = plays[s] + 1
        /\ \A t \in Sessions : plays'[t] >= plays[t]
    BY <2>1
  <2> QED
    BY <2>1, <2>2
<1>2. ASSUME NEW s \in Sessions, Teardown(s) PROVE ReportInv'
  BY <1>2 DEF Teardown
<1>3. ASSUME NEW s \in Sessions, CreateSource(s) PROVE ReportInv'
  BY <1>3 DEF CreateSource
<1>4. CASE UNCHANGED << stream, report, orphans, plays >>
  BY <1>4
<1>5. ASSUME NEW s \in Sessions,
             \/ OpenRtp(s) \/ OpenRtcp(s) \/ OpenDummies(s) \/ SetupRefused(s)
             \/ \E udp \in BOOLEAN : Setup(s, udp)
      PROVE  ReportInv'
  <2>1. UNCHANGED << stream, report, orphans, plays >>
    BY <1>5 DEF OpenRtp, OpenRtcp, OpenDummies, SetupRefused, Setup
  <2> QED
    BY <2>1
<1>6. CASE Others \/ UNCHANGED vars
  BY <1>4, <1>6 DEF Others, vars
<1> QED
  BY <1>1, <1>2, <1>3, <1>5, <1>6 DEF Next, SetupStep

(* An RTCP instance ends with its stream unless its session played twice.  *)
THEOREM RtcpEndsWithStream == Spec => []ReportsEndWithStream
<1>1. ReportInv => ReportsEndWithStream
  BY DEF ReportInv, ReportsEndWithStream
<1> QED
  BY ReportInit, ReportStep, <1>1, PTL DEF Spec

-----------------------------------------------------------------------------
(* RtspBootstrap: what the threads do next.                                *)

(* What the threads and main do next is a name and a stream.               *)
LEMMA AtFields == \A what, c : At(what, c).at = what /\ At(what, c).stream = c
BY DEF At

-----------------------------------------------------------------------------
(* The parameter sets.  While the thread of a worker is about to empty its *)
(* cache, what the cache holds is of an earlier run; else it is of the     *)
(* present one.                                                            *)

Uniform(sets) == \A j, k \in Kinds : sets[j] # 0 /\ sets[k] # 0 => sets[j] = sets[k]
OfRun(sets, n) == \A k \in Kinds : sets[k] # 0 => sets[k] = n

SetTypes ==
  /\ worker \in [Streams -> WorkerStates] /\ run \in [Streams -> Nat]
  /\ cache \in [Streams -> [Kinds -> Nat]] /\ offered \in [Streams -> [Kinds -> Nat]]

CacheOf(c) ==
  /\ Uniform(cache[c])
  /\ worker[c] \notin {"born", "reset"} => OfRun(cache[c], run[c])

SetsInv == SetTypes /\ (\A c \in Streams : CacheOf(c)) /\ SetsOfOneRun

LEMMA NeededKinds == \A c \in Streams : Needed(c) \subseteq Kinds
BY DEF Needed, Kinds

LEMMA NoSetsIsNothing == NoSets \in [Kinds -> Nat] /\ \A k \in Kinds : NoSets[k] = 0
BY DEF NoSets

LEMMA SetsInit == BootInit => SetsInv
<1> SUFFICES ASSUME BootInit PROVE SetsInv
  OBVIOUS
<1>1. SetTypes
  BY NoSetsIsNothing DEF BootInit, SetTypes, WorkerStates
<1>2. \A c \in Streams : CacheOf(c)
  BY NoSetsIsNothing DEF BootInit, CacheOf, Uniform, OfRun
<1>3. SetsOfOneRun
  BY NoSetsIsNothing, NeededKinds DEF BootInit, SetsOfOneRun
<1> QED
  BY <1>1, <1>2, <1>3 DEF SetsInv

(* The thread of a worker moves on, but not past the emptying of its cache.*)
LEMMA WorkerMoves ==
  ASSUME SetsInv, NEW c \in Streams, NEW to \in WorkerStates,
         worker' = [worker EXCEPT ![c] = to],
         worker[c] \in {"born", "reset"} => to \in {"born", "reset"},
         UNCHANGED << run, cache, offered >>
  PROVE  SetsInv'
<1> USE DEF SetsInv, SetTypes
<1>1. SetTypes'
  OBVIOUS
<1>2. ASSUME NEW d \in Streams PROVE CacheOf(d)'
  BY DEF CacheOf
<1>3. SetsOfOneRun'
  BY DEF SetsOfOneRun
<1> QED
  BY <1>1, <1>2, <1>3

(* Steps that touch neither a worker, its cache nor what is offered.       *)
LEMMA SetsAlone ==
  ASSUME SetsInv, UNCHANGED << worker, run, cache, offered >>
  PROVE  SetsInv'
BY DEF SetsInv, SetTypes, CacheOf, SetsOfOneRun

LEMMA SetsReset ==
  ASSUME SetsInv, NEW c \in Streams, ResetCache(c)
  PROVE  SetsInv'
<1> USE DEF SetsInv, SetTypes, ResetCache, Go, WorkerStates, serverVars
<1>1. SetTypes'
  BY NoSetsIsNothing
<1>2. ASSUME NEW d \in Streams PROVE CacheOf(d)'
  <2>1. CASE d = c
    <3>1. cache'[d] = NoSets
      BY <2>1
    <3> QED
      BY <3>1, NoSetsIsNothing DEF CacheOf, Uniform, OfRun
  <2>2. CASE d # c
    <3>1. cache'[d] = cache[d] /\ worker'[d] = worker[d] /\ run' = run
      BY <2>2
    <3> QED
      BY <3>1 DEF CacheOf
  <2> QED
    BY <2>1, <2>2
<1>3. SetsOfOneRun'
  BY DEF SetsOfOneRun
<1> QED
  BY <1>1, <1>2, <1>3

(* A set that comes in is of the run the others are of.                    *)
LEMMA SetsPack ==
  ASSUME SetsInv, NEW c \in Streams, Pack(c)
  PROVE  SetsInv'
<1> USE DEF SetsInv, SetTypes, serverVars
<1>1. worker[c] = "packs" /\ worker' = worker /\ run' = run /\ offered' = offered
  BY DEF Pack
<1>2. \/ cache' = cache
      \/ \E pack \in Kinds : cache' = [cache EXCEPT ![c][pack] = run[c]]
  BY DEF Pack, Cached
<1>3. SetTypes'
  <2>1. CASE cache' = cache
    BY <2>1, <1>1
  <2>2. ASSUME NEW pack \in Kinds, cache' = [cache EXCEPT ![c][pack] = run[c]]
        PROVE  SetTypes'
    <3>1. [cache[c] EXCEPT ![pack] = run[c]] \in [Kinds -> Nat]
      OBVIOUS
    <3>2. cache' = [cache EXCEPT ![c] = [cache[c] EXCEPT ![pack] = run[c]]]
      BY <2>2
    <3>3. cache' \in [Streams -> [Kinds -> Nat]]
      BY <3>1, <3>2
    <3> QED
      BY <3>3, <1>1
  <2> QED
    BY <2>1, <2>2, <1>2
<1>4. OfRun(cache[c], run[c])
  BY <1>1 DEF CacheOf
<1>5. OfRun(cache'[c], run[c])
  BY <1>2, <1>4 DEF OfRun
<1>6. ASSUME NEW d \in Streams PROVE CacheOf(d)'
  <2>1. CASE d = c
    BY <2>1, <1>1, <1>5 DEF CacheOf, OfRun, Uniform
  <2>2. CASE d # c
    <3>1. cache'[d] = cache[d]
      BY <2>2, <1>2
    <3> QED
      BY <3>1, <1>1 DEF CacheOf
  <2> QED
    BY <2>1, <2>2
<1>7. SetsOfOneRun'
  BY <1>1 DEF SetsOfOneRun
<1> QED
  BY <1>3, <1>6, <1>7

(* What the RTSP thread copies is complete, and so of one run.             *)
LEMMA SetsLoad ==
  ASSUME SetsInv, NEW c \in Streams, Load(c)
  PROVE  SetsInv'
<1> USE DEF SetsInv, SetTypes, workerVars
<1>1. UNCHANGED << worker, run, cache >>
  BY DEF Load
<1>2. \/ offered' = offered
      \/ Holds(cache[c], c) /\ offered' = [offered EXCEPT ![c] = cache[c]]
  BY DEF Load
<1>3. SetTypes'
  BY <1>1, <1>2
<1>4. ASSUME NEW d \in Streams PROVE CacheOf(d)'
  BY <1>1 DEF CacheOf
<1>5. SetsOfOneRun'
  <2>1. CASE offered' = offered
    BY <2>1 DEF SetsOfOneRun
  <2>2. CASE Holds(cache[c], c) /\ offered' = [offered EXCEPT ![c] = cache[c]]
    <3>1. \A j, k \in Needed(c) : cache[c][j] = cache[c][k]
      BY <2>2, NeededKinds DEF Holds, CacheOf, Uniform
    <3>2. offered'[c] = cache[c] /\ \A d \in Streams : d # c => offered'[d] = offered[d]
      BY <2>2
    <3> QED
      BY <3>1, <3>2 DEF SetsOfOneRun
  <2> QED
    BY <2>1, <2>2, <1>2
<1> QED
  BY <1>3, <1>4, <1>5

LEMMA SetsClose ==
  ASSUME SetsInv, CloseServer
  PROVE  SetsInv'
<1> USE DEF SetsInv, SetTypes, workerVars, CloseServer
<1>1. SetTypes'
  BY NoSetsIsNothing
<1>2. ASSUME NEW d \in Streams PROVE CacheOf(d)'
  BY DEF CacheOf
<1>3. SetsOfOneRun'
  BY NoSetsIsNothing, NeededKinds DEF SetsOfOneRun
<1> QED
  BY <1>1, <1>2, <1>3

(* A new run begins with a thread that has yet to empty the cache.         *)
LEMMA SetsStart ==
  ASSUME SetsInv, NEW c \in Streams, StartVideo(c)
  PROVE  SetsInv'
<1> USE DEF SetsInv, SetTypes, serverVars, StartVideo, WorkerStates
<1>1. SetTypes'
  OBVIOUS
<1>2. ASSUME NEW d \in Streams PROVE CacheOf(d)'
  BY DEF CacheOf
<1>3. SetsOfOneRun'
  BY DEF SetsOfOneRun
<1> QED
  BY <1>1, <1>2, <1>3

LEMMA SetsWorkerStep ==
  ASSUME SetsInv, NEW c \in Streams, WorkerStep(c)
  PROVE  SetsInv'
<1> USE DEF serverVars
<1>1. CASE ResetCache(c)
  BY <1>1, SetsReset
<1>2. CASE Pack(c)
  BY <1>2, SetsPack
<1>3. CASE \/ Begin(c) \/ Receive(c) \/ End(c) \/ LoopHead(c) \/ NoFrame(c)
           \/ GetsKeyframe(c) \/ Frame(c, << "slice" >>) \/ NextRound(c) \/ Retry(c)
           \/ Report(c)
  <2>1. UNCHANGED << run, cache, offered >>
    BY <1>3 DEF Begin, Receive, End, LoopHead, NoFrame, GetsKeyframe, Frame, NextRound,
                Retry, Report
  <2>2. \E to \in WorkerStates :
          /\ worker' = [worker EXCEPT ![c] = to]
          /\ worker[c] \in {"born", "reset"} => to \in {"born", "reset"}
    BY <1>3 DEF Begin, Receive, End, LoopHead, NoFrame, GetsKeyframe, Frame, NextRound,
                Retry, Report, Go, WorkerStates
  <2> QED
    BY <2>1, <2>2, WorkerMoves
<1> QED
  BY <1>1, <1>2, <1>3 DEF WorkerStep

LEMMA SetsStep == SetsInv /\ [BootNext]_bootVars => SetsInv'
<1> SUFFICES ASSUME SetsInv, [BootNext]_bootVars PROVE SetsInv'
  OBVIOUS
<1> USE DEF workerVars, serverVars
<1>1. ASSUME NEW c \in Streams, WorkerStep(c) PROVE SetsInv'
  BY <1>1, SetsWorkerStep
<1>2. ASSUME NEW c \in Streams, FallsSilent(c) \/ Join(c) \/ Deliver(c) \/ Leave(c)
      PROVE  SetsInv'
  BY <1>2, SetsAlone DEF FallsSilent, Join, Deliver, Leave
<1>3. CASE CloseServer
  BY <1>3, SetsClose
<1>4. ASSUME NEW c \in Streams, Load(c) PROVE SetsInv'
  BY <1>4, SetsLoad
<1>5. ASSUME NEW c \in Streams, Announce(c) \/ Wait(c) \/ GiveUp(c) \/ Offer(c)
      PROVE  SetsInv'
  BY <1>5, SetsAlone DEF Announce, Wait, GiveUp, Offer
<1>6. CASE CreateServer \/ Serve \/ Cleanup \/ Deadline \/ Request
  BY <1>6, SetsAlone DEF CreateServer, Serve, Cleanup, Deadline, Request
<1>7. ASSUME NEW c \in Streams, StartVideo(c) PROVE SetsInv'
  BY <1>7, SetsStart
<1>8. ASSUME NEW c \in Streams, TellVideo(c) \/ JoinVideo(c) \/ AwaitVideo(c)
      PROVE  SetsInv'
  BY <1>8, SetsAlone DEF TellVideo, JoinVideo, AwaitVideo
<1>9. CASE StopRtsp \/ JoinRtsp \/ StartRtsp
  <2>1. UNCHANGED << worker, run, cache, offered >>
    BY <1>9 DEF StopRtsp, JoinRtsp, StartRtsp
  <2> QED
    BY <2>1, SetsAlone
<1>10. CASE UNCHANGED bootVars
  BY <1>10, SetsAlone DEF bootVars
<1> QED
  BY <1>1, <1>2, <1>3, <1>4, <1>5, <1>6, <1>7, <1>8, <1>9, <1>10
     DEF BootNext, RtspStep, MainStep

(* For any number of streams and restarts, what a stream is offered with   *)
(* comes from one run of its encoder.                                      *)
THEOREM OfferedSetsOfOneRun == BootSpec => []SetsOfOneRun
<1>1. SetsInv => SetsOfOneRun
  BY DEF SetsInv
<1> QED
  BY SetsInit, SetsStep, <1>1, PTL DEF BootSpec

-----------------------------------------------------------------------------
(* The request for keyframes.  It stands while the thread is between the   *)
(* announcement of a stream and its answer; that main does not start the   *)
(* thread again in between follows from when the thread is told to stop.   *)

AskTypes == asked \in [Streams -> BOOLEAN]

Asked ==
  \A c \in Streams :
    asked[c] => \E what \in {"load", "wait", "giveup", "offer"} : rtsp = At(what, c)

(* The signal is clear only while the thread serves, and set again only    *)
(* when main goes on to wait for the thread.                               *)
SignalOfThread ==
  /\ ~signal => rtsp.at = "serve"
  /\ rtsp.at = "serve" /\ signal => main.at = "joinrtsp"

(* Main goes on to start the server only when its thread has ended.        *)
ThreadIsOff ==
  "rtsp" \in groups =>
    /\ main.at = "rtsp" => rtsp.at \in {"off", "serve"}
    /\ main.at \in {"tell", "join", "start", "await", "server"} => rtsp.at = "off"

AskInv == AskTypes /\ Asked /\ SignalOfThread /\ ThreadIsOff

LEMMA AskInit == BootInit => AskInv
BY AtFields DEF BootInit, AskInv, AskTypes, Asked, SignalOfThread, ThreadIsOff

LEMMA AskAlone ==
  ASSUME AskInv, UNCHANGED << asked, rtsp, signal, main, groups >>
  PROVE  AskInv'
BY DEF AskInv, AskTypes, Asked, SignalOfThread, ThreadIsOff

(* The thread moves on while nothing is asked of any worker.               *)
LEMMA AskRtspStep ==
  ASSUME AskInv, RtspStep
  PROVE  AskInv'
<1> USE AtFields DEF AskInv, AskTypes, Asked, SignalOfThread, ThreadIsOff, workerVars,
        mainVars
<1>1. CASE CreateServer
  BY <1>1 DEF CreateServer
<1>2. CASE Serve
  BY <1>2 DEF Serve
<1>3. CASE Cleanup
  BY <1>3 DEF Cleanup
<1>4. CASE CloseServer
  BY <1>4 DEF CloseServer
<1>5. ASSUME NEW c \in Streams, Announce(c) PROVE AskInv'
  BY <1>5 DEF Announce
<1>6. ASSUME NEW c \in Streams, Load(c) PROVE AskInv'
  BY <1>6 DEF Load
<1>7. ASSUME NEW c \in Streams, Wait(c) PROVE AskInv'
  BY <1>7 DEF Wait
<1>8. ASSUME NEW c \in Streams, GiveUp(c) PROVE AskInv'
  BY <1>8 DEF GiveUp, NextStream
<1>9. ASSUME NEW c \in Streams, Offer(c) PROVE AskInv'
  BY <1>9 DEF Offer, NextStream
<1> QED
  BY <1>1, <1>2, <1>3, <1>4, <1>5, <1>6, <1>7, <1>8, <1>9 DEF RtspStep

LEMMA AskMainStep ==
  ASSUME AskInv, MainStep \/ Request
  PROVE  AskInv'
<1> USE AtFields DEF AskInv, AskTypes, Asked, SignalOfThread, ThreadIsOff, workerVars,
        serverVars, Starting, Waiting
<1>1. CASE StopRtsp
  BY <1>1 DEF StopRtsp, AfterRtsp
<1>2. CASE JoinRtsp
  BY <1>2 DEF JoinRtsp, AfterRtsp
<1>3. CASE StartRtsp
  BY <1>3 DEF StartRtsp
<1>4. ASSUME NEW c \in Streams, TellVideo(c) PROVE AskInv'
  BY <1>4 DEF TellVideo
<1>5. ASSUME NEW c \in Streams, JoinVideo(c) PROVE AskInv'
  BY <1>5 DEF JoinVideo
<1>6. ASSUME NEW c \in Streams, StartVideo(c) PROVE AskInv'
  BY <1>6 DEF StartVideo
<1>7. ASSUME NEW c \in Streams, AwaitVideo(c) PROVE AskInv'
  BY <1>7 DEF AwaitVideo
<1>8. CASE Request
  BY <1>8 DEF Request
<1> QED
  BY <1>1, <1>2, <1>3, <1>4, <1>5, <1>6, <1>7, <1>8 DEF MainStep

LEMMA AskStep == AskInv /\ [BootNext]_bootVars => AskInv'
<1> SUFFICES ASSUME AskInv, [BootNext]_bootVars PROVE AskInv'
  OBVIOUS
<1> USE DEF workerVars, serverVars, mainVars
<1>1. ASSUME NEW c \in Streams, Begin(c) PROVE AskInv'
  BY <1>1 DEF Begin, AskInv, AskTypes, Asked, SignalOfThread, ThreadIsOff
<1>2. ASSUME NEW c \in Streams,
             \/ ResetCache(c) \/ Receive(c) \/ End(c) \/ LoopHead(c) \/ NoFrame(c)
             \/ GetsKeyframe(c) \/ Frame(c, << "slice" >>) \/ Pack(c) \/ NextRound(c)
             \/ Retry(c) \/ Report(c)
      PROVE  AskInv'
  <2>1. UNCHANGED << asked, rtsp, signal, main, groups >>
    BY <1>2 DEF ResetCache, Receive, End, LoopHead, NoFrame, GetsKeyframe, Frame, Pack,
                NextRound, Retry, Report
  <2> QED
    BY <2>1, AskAlone
<1>3. ASSUME NEW c \in Streams, FallsSilent(c) \/ Join(c) \/ Deliver(c) \/ Leave(c)
      PROVE  AskInv'
  BY <1>3, AskAlone DEF FallsSilent, Join, Deliver, Leave
<1>4. CASE Deadline
  BY <1>4, AskAlone DEF Deadline
<1>5. CASE UNCHANGED bootVars
  BY <1>5, AskAlone DEF bootVars
<1> QED
  BY <1>1, <1>2, <1>3, <1>4, <1>5, AskRtspStep, AskMainStep DEF BootNext, WorkerStep

(* A worker is asked for keyframes only while the RTSP thread waits for    *)
(* its parameter sets, or is about to answer.                              *)
THEOREM AskedOnlyWhileWaiting == BootSpec => []AskedWhileWaiting
<1>1. AskInv => AskedWhileWaiting
  BY DEF AskInv, Asked, AskedWhileWaiting
<1> QED
  BY AskInit, AskStep, <1>1, PTL DEF BootSpec

=============================================================================
