------------------------------ MODULE LiveFeed ------------------------------
(***************************************************************************)
(* What StreamCore promises to the subscribers of a live feed, without a   *)
(* ring, sequence numbers of its own or overflow counters:                 *)
(*                                                                         *)
(*   - frames reach a subscriber in the order they were published, none    *)
(*     twice;                                                              *)
(*   - a frame is lost to a subscriber only when it is no longer one of    *)
(*     the Window most recent ones, when the subscriber still waits for    *)
(*     its first sync frame, or when it resumes at a sync frame after      *)
(*     frames were lost;                                                   *)
(*   - a subscriber that asked for a sync frame gets one first.            *)
(***************************************************************************)
EXTENDS Integers, Sequences

CONSTANTS Subscribers, Frames, Keyframes, NoFrame,
          Window  \* how many of the most recent frames a reader can still get

VARIABLES log,      \* every frame ever published, in order
          on,       \* the subscribers that are being served
          pos,      \* the position in the log each gets next
          gated,    \* those that want a sync frame first
          started,  \* those that got a frame since they joined
          out       \* the frame each subscriber received last

vars == <<log, on, pos, gated, started, out>>

TypeOK == /\ log \in Seq(Frames)
          /\ on \subseteq Subscribers
          /\ gated \subseteq Subscribers
          /\ started \subseteq Subscribers
          /\ pos \in [Subscribers -> Nat \ {0}]
          /\ out \in [Subscribers -> Frames \cup {NoFrame}]

Gone(i) == i <= Len(log) - Window

(* Whether frame i may be withheld from s.                                 *)
MayMiss(s, i) ==
  \/ Gone(i)
  \/ s \in gated /\ log[i] \notin Keyframes /\ (s \notin started \/ Gone(pos[s]))

MissesOnly(s, to) == \A i \in pos[s] .. to - 1 : i \in 1 .. Len(log) => MayMiss(s, i)

Init == /\ log = << >>
        /\ on = {}
        /\ pos = [s \in Subscribers |-> 1]
        /\ gated = {}
        /\ started = {}
        /\ out = [s \in Subscribers |-> NoFrame]

Publish == /\ \E f \in Frames : log' = Append(log, f)
           /\ UNCHANGED <<on, pos, gated, started, out>>

(* A subscriber joins inside the window, at the next frame or one later.   *)
Join(s) == /\ s \notin on
           /\ on' = on \cup {s}
           /\ \E p \in 1 .. Len(log) + 2 : ~Gone(p) /\ pos' = [pos EXCEPT ![s] = p]
           /\ gated' \in {gated \cup {s}, gated \ {s}}
           /\ started' = started \ {s}
           /\ UNCHANGED <<log, out>>

Leave(s) == /\ s \in on
            /\ on' = on \ {s}
            /\ UNCHANGED <<log, pos, gated, started, out>>

Receive(s) ==
  /\ s \in on
  /\ \E i \in pos[s] .. Len(log) :
       /\ ~Gone(i)
       /\ s \in gated \ started => log[i] \in Keyframes
       /\ MissesOnly(s, i)
       /\ pos' = [pos EXCEPT ![s] = i + 1]
       /\ out' = [out EXCEPT ![s] = log[i]]
  /\ started' = started \cup {s}
  /\ UNCHANGED <<log, on, gated>>

(* Frames the subscriber will not get are passed over.                     *)
Miss(s) ==
  /\ s \in on
  /\ \E p \in pos[s] + 1 .. Len(log) + 1 :
       MissesOnly(s, p) /\ pos' = [pos EXCEPT ![s] = p]
  /\ UNCHANGED <<log, on, gated, started, out>>

Next == \/ Publish
        \/ \E s \in Subscribers : Join(s) \/ Leave(s) \/ Receive(s) \/ Miss(s)

Spec == Init /\ [][Next]_vars
=============================================================================
