-------------------------- MODULE BackchannelSession --------------------------
(***************************************************************************)
(* The RTSP side of two-way audio: what SETUP makes for a session, over    *)
(* UDP or over the connection itself, what PLAY adds, and what TEARDOWN    *)
(* closes (BackchannelServerMediaSubsession, BackchannelStreamState).      *)
(*                                                                         *)
(* The handlers run one after the other in the RTSP event loop; SETUP is   *)
(* taken apart, because other programs take and free ports while it looks  *)
(* for a pair.  RTCP never shares the port of RTP, as the constructor has  *)
(* it.  live555 is external: it calls SETUP for a session without a        *)
(* stream, PLAY as often as the client likes, and TEARDOWN.                *)
(***************************************************************************)
EXTENDS Integers, FiniteSets

CONSTANTS
  Sessions,
  PortNumbers,   \* values of a portNumBits, 2 to its width
  InitialPort,   \* fInitialPortNum
  MaxSetups,     \* bound on the SETUPs of all sessions
  MaxPlays       \* bound on the PLAYs of one session

Ports == InitialPort .. PortNumbers - 1
None   == -1
System == 0     \* a port of the system's choice

ASSUME SessionAssumption ==
  /\ IsFiniteSet(Sessions) /\ PortNumbers \in Nat /\ PortNumbers % 2 = 0
  /\ InitialPort \in 2 .. PortNumbers - 1 /\ InitialPort % 2 = 0
  /\ MaxSetups \in Nat /\ MaxPlays \in Nat

VARIABLES
  others,   \* ports held by other programs
  setup,    \* the SETUP at work: what it does next, for whom, at which port
  sink, source,   \* sessions whose sink, whose source, is open
  rtp, rtcp,      \* [Sessions -> port of the groupsock, None if there is none]
  stream,   \* sessions with a BackchannelStreamState
  active,   \* sessions whose sink plays
  report,   \* sessions whose rtcpInstance is set
  orphans,  \* sessions with an RTCP instance nothing refers to any more
  plays, setups

made == << sink, source, rtp, rtcp >>
vars == << others, setup, made, stream, active, report, orphans, plays, setups >>

Idle == [does |-> "nothing", for |-> CHOOSE s \in Sessions : TRUE, port |-> 0]
Does(what, s, p) == setup' = [does |-> what, for |-> s, port |-> p]
Free(p) == p \notin others \cup {rtp[s] : s \in Sessions} \cup {rtcp[s] : s \in Sessions}
Next2(p, n) == (p + n) % PortNumbers

Init ==
  /\ others \in SUBSET Ports /\ setup = Idle
  /\ sink = {} /\ source = {} /\ stream = {} /\ active = {} /\ report = {}
  /\ rtp = [s \in Sessions |-> None] /\ rtcp = [s \in Sessions |-> None]
  /\ orphans = {} /\ plays = [s \in Sessions |-> 0] /\ setups = 0

-----------------------------------------------------------------------------
(* SETUP (getStreamParameters).                                            *)

(* A client that names neither a port nor a connection gets nothing.  The  *)
(* sink is made first.                                                     *)
Setup(s, udp) ==
  /\ setup = Idle /\ s \notin stream /\ setups < MaxSetups /\ setups' = setups + 1
  /\ sink' = sink \cup {s}
  /\ IF udp THEN Does("rtp", s, InitialPort) ELSE Does("tcp", s, System)
  /\ UNCHANGED << others, source, rtp, rtcp, stream, active, report, orphans, plays >>

SetupRefused(s) ==
  /\ setup = Idle /\ s \notin stream /\ setups < MaxSetups /\ setups' = setups + 1
  /\ UNCHANGED << others, setup, made, stream, active, report, orphans, plays >>

Doing(what, s) == setup.does = what /\ setup.for = s

(* No pair is left: the port number came round.                            *)
Fail(s) == setup' = Idle /\ sink' = sink \ {s}

Continue(s, p) ==
  IF p = 0 THEN Fail(s) ELSE Does("rtp", s, p) /\ UNCHANGED sink

(* allocateUdpPorts: the socket of RTP ...                                 *)
OpenRtp(s) ==
  /\ Doing("rtp", s)
  /\ IF Free(setup.port)
     THEN rtp' = [rtp EXCEPT ![s] = setup.port] /\ Does("rtcp", s, setup.port)
          /\ UNCHANGED sink
     ELSE Continue(s, Next2(setup.port, 2)) /\ UNCHANGED rtp
  /\ UNCHANGED << others, source, rtcp, stream, active, report, orphans, plays, setups >>

MutantKeepsRtp(s) ==
  /\ Doing("rtcp", s)
  /\ LET p == Next2(setup.port, 1)
     IN IF p # 0 /\ Free(p)
        THEN rtcp' = [rtcp EXCEPT ![s] = p] /\ Does("source", s, 0) /\ UNCHANGED << rtp, sink >>
        ELSE /\ UNCHANGED << rtp, rtcp >>
             /\ Continue(s, IF p = 0 THEN 0 ELSE Next2(p, 1))
  /\ UNCHANGED << others, source, stream, active, report, orphans, plays, setups >>

MutantRunsRound(s) ==
  /\ Doing("rtcp", s)
  /\ LET p == Next2(setup.port, 1)
     IN IF p # 0 /\ Free(p)
        THEN rtcp' = [rtcp EXCEPT ![s] = p] /\ Does("source", s, 0) /\ UNCHANGED << rtp, sink >>
        ELSE /\ rtp' = [rtp EXCEPT ![s] = None] /\ UNCHANGED << rtcp, sink >>
             /\ Does("rtp", s, IF p = 0 \/ Next2(p, 1) = 0 THEN InitialPort ELSE Next2(p, 1))
  /\ UNCHANGED << others, source, stream, active, report, orphans, plays, setups >>

(* ... and that of RTCP next to it, or both are given up.                  *)
OpenRtcp(s) ==
  /\ Doing("rtcp", s)
  /\ LET p == Next2(setup.port, 1)
     IN IF p # 0 /\ Free(p)
        THEN rtcp' = [rtcp EXCEPT ![s] = p] /\ Does("source", s, 0) /\ UNCHANGED << rtp, sink >>
        ELSE /\ rtp' = [rtp EXCEPT ![s] = None] /\ UNCHANGED rtcp
             /\ Continue(s, IF p = 0 THEN 0 ELSE Next2(p, 1))
  /\ UNCHANGED << others, source, stream, active, report, orphans, plays, setups >>

(* Over TCP two sockets stand in, each of which may fail.                  *)
OpenDummies(s) ==
  /\ Doing("tcp", s)
  /\ \/ /\ rtp' = [rtp EXCEPT ![s] = System] /\ rtcp' = [rtcp EXCEPT ![s] = System]
        /\ Does("source", s, 0) /\ UNCHANGED sink
     \/ Fail(s) /\ UNCHANGED << rtp, rtcp >>
  /\ UNCHANGED << others, source, stream, active, report, orphans, plays, setups >>

NoGroupsocks(s) ==
  rtp' = [rtp EXCEPT ![s] = None] /\ rtcp' = [rtcp EXCEPT ![s] = None]

(* The source, and with it the state of the stream; or all is closed.      *)
CreateSource(s) ==
  /\ Doing("source", s)
  /\ \/ /\ source' = source \cup {s} /\ stream' = stream \cup {s} /\ setup' = Idle
        /\ UNCHANGED << sink, rtp, rtcp >>
     \/ Fail(s) /\ NoGroupsocks(s) /\ UNCHANGED << source, stream >>
  /\ UNCHANGED << others, active, report, orphans, plays, setups >>

-----------------------------------------------------------------------------
(* PLAY (startPlaying): an RTCP instance is made each time, or fails to    *)
(* be; the sink starts once, and when it will not start again the instance *)
(* just made is closed, and not the one it replaced.                       *)
Play(s) ==
  /\ setup = Idle /\ s \in stream /\ plays[s] < MaxPlays
  /\ plays' = [plays EXCEPT ![s] = @ + 1]
  /\ active' = active \cup {s}
  /\ orphans' = IF s \in report THEN orphans \cup {s} ELSE orphans
  /\ \E created \in BOOLEAN :
       report' = IF created /\ s \notin active THEN report \cup {s} ELSE report \ {s}
  /\ UNCHANGED << others, setup, made, stream, setups >>

MutantTeardown(s) ==
  /\ setup = Idle /\ s \in stream
  /\ sink' = sink \ {s} /\ source' = source \ {s} /\ NoGroupsocks(s)
  /\ stream' = stream \ {s} /\ active' = active \ {s}
  /\ orphans' = orphans \cup (report \cap {s}) /\ report' = report \ {s}
  /\ UNCHANGED << others, setup, plays, setups >>

(* TEARDOWN (deleteStream): PAUSE does nothing.                            *)
Teardown(s) ==
  /\ setup = Idle /\ s \in stream
  /\ report' = report \ {s} /\ source' = source \ {s} /\ sink' = sink \ {s}
  /\ NoGroupsocks(s) /\ stream' = stream \ {s} /\ active' = active \ {s}
  /\ UNCHANGED << others, setup, orphans, plays, setups >>

(* Another program takes a port, or gives one back.                        *)
Others ==
  /\ \E p \in Ports :
       \/ Free(p) /\ others' = others \cup {p}
       \/ p \in others /\ others' = others \ {p}
  /\ UNCHANGED << setup, made, stream, active, report, orphans, plays, setups >>

SetupStep ==
  \E s \in Sessions : OpenRtp(s) \/ OpenRtcp(s) \/ OpenDummies(s) \/ CreateSource(s)

Next ==
  \/ SetupStep \/ Others
  \/ \E s \in Sessions :
       \/ \E udp \in BOOLEAN : Setup(s, udp)
       \/ SetupRefused(s) \/ Play(s) \/ Teardown(s)

Spec == Init /\ [][Next]_vars

(* The event loop goes on with the handler it is in.                       *)
FairSpec == Spec /\ WF_vars(SetupStep)

-----------------------------------------------------------------------------
(* Properties.                                                             *)

(* Between two handlers a session holds its sink, its source and a pair of *)
(* sockets if it has a stream, and nothing if it has none, whichever step  *)
(* of SETUP failed; over UDP the pair is an even port and the next, and no *)
(* two sessions share one.                                                 *)
AllOrNothing ==
  setup = Idle =>
    /\ sink = stream /\ source = stream
    /\ \A s \in Sessions :
         IF s \in stream
         THEN \/ rtp[s] = System /\ rtcp[s] = System
              \/ rtp[s] \in Ports /\ rtp[s] % 2 = 0 /\ rtcp[s] = rtp[s] + 1
         ELSE rtp[s] = None /\ rtcp[s] = None
    /\ \A s, t \in stream : s # t /\ rtp[s] = rtp[t] => rtp[s] = System

(* An RTCP instance lives no longer than its stream, unless the session    *)
(* played again: PLAY then loses the first instance, which goes on with    *)
(* the sockets and the source of a stream that may be gone.                *)
ReportsEndWithStream ==
  /\ report \subseteq stream
  /\ \A s \in orphans : plays[s] > 1

(* The search for a pair of ports ends, however other programs take and    *)
(* free them meanwhile.                                                    *)
SetupEnds == (setup # Idle) ~> (setup = Idle)
=============================================================================
