----------------------------- MODULE StreamCore -----------------------------
(***************************************************************************)
(* StreamCore<FrameType> (src/src/StreamCore.hpp): one producer publishes  *)
(* frames into a bounded deque; any number of subscribers read it, each    *)
(* with a cursor of its own.                                               *)
(*                                                                         *)
(* Everything the class does under mutex_ is one step.  publish leaves the *)
(* lock before it calls the callbacks it copied, so the calls are steps of *)
(* their own and subscribers may register, unregister and read in between. *)
(***************************************************************************)
EXTENDS StreamRing, FiniteSets

CONSTANTS
  Subscribers,   \* owners of a cursor
  Frames,        \* the frames a producer may publish
  Keyframes,     \* those StreamCoreTraits::is_sync accepts
  NoFrame,       \* an empty std::optional<FrameType>
  Capacity,      \* capacity_
  MaxPublished,  \* bound: number of publish calls
  MaxJoins       \* bound: number of registrations

ASSUME CoreAssumption ==
  /\ Keyframes \subseteq Frames
  /\ NoFrame \notin Frames
  /\ Capacity \in Nat \ {0}      \* the constructor clamps it to 1
  /\ MaxPublished \in Nat
  /\ MaxJoins \in Nat

VARIABLES
  entries,            \* entries_
  lastSequence,       \* lastSequence_
  producerDropCount,  \* producerDropCount_
  latestFrame,        \* latestFrame_
  latestSyncFrame,    \* latestSyncFrame_
  callbacks,          \* callbacks_: the subscribers that have one
  calling,            \* publish's local copy: callbacks it has still to call
  cursor,             \* the Cursor each subscriber owns
  woken,              \* subscribers whose callback ran since their last empty read
  joins,              \* number of registrations so far (bound)
  log,                \* history: every frame published
  out                 \* history: the frame each subscriber read last

ringVars == <<entries, lastSequence, producerDropCount, latestFrame, latestSyncFrame, log>>
vars == <<entries, lastSequence, producerDropCount, latestFrame, latestSyncFrame,
          callbacks, calling, cursor, woken, joins, log, out>>

IdleCursor == [nextSequence |-> 1, overflowCount |-> 0, requireSync |-> FALSE,
               started |-> FALSE, active |-> FALSE]

Init ==
  /\ entries = << >>
  /\ lastSequence = 0
  /\ producerDropCount = 0
  /\ latestFrame = NoFrame
  /\ latestSyncFrame = NoFrame
  /\ callbacks = {}
  /\ calling = {}
  /\ cursor = [s \in Subscribers |-> IdleCursor]
  /\ woken = {}
  /\ joins = 0
  /\ log = << >>
  /\ out = [s \in Subscribers |-> NoFrame]

-----------------------------------------------------------------------------
(* registerSubscriber.  Only one registration per owner: every caller      *)
(* keeps its cursor until it unregisters.  The owner reads right after     *)
(* registering, hence woken.                                               *)
Register(s, policy) ==
  /\ joins < MaxJoins
  /\ ~cursor[s].active
  /\ \E n \in 1 .. lastSequence + 1 :
       /\ StartsAt(entries, lastSequence, policy, Keyframes, n)
       /\ cursor' = [cursor EXCEPT ![s] = NewCursor(policy, n)]
  /\ callbacks' = callbacks \cup {s}
  /\ woken' = woken \cup {s}
  /\ joins' = joins + 1
  /\ UNCHANGED <<ringVars, calling, out>>

(* registerSubscriber as an RTSP video source uses it.  Only the owner     *)
(* touches a cursor, so adjusting it after registering is one step with it.*)
RegisterViewer(s) ==
  /\ joins < MaxJoins
  /\ ~cursor[s].active
  /\ \E n \in 1 .. lastSequence + 1 :
       /\ StartsAt(entries, lastSequence, LiveEdge, Keyframes, n)
       /\ cursor' = [cursor EXCEPT ![s] = ViewerCursor(n)]
  /\ callbacks' = callbacks \cup {s}
  /\ woken' = woken \cup {s}
  /\ joins' = joins + 1
  /\ UNCHANGED <<ringVars, calling, out>>

(* unregisterSubscriber.                                                   *)
Unregister(s) ==
  /\ cursor[s].active
  /\ callbacks' = callbacks \ {s}
  /\ cursor' = [cursor EXCEPT ![s].active = FALSE]
  /\ UNCHANGED <<ringVars, calling, woken, joins, out>>

(* publish, the part under the lock.  One producer: it is not in publish   *)
(* again before its callbacks are done.                                    *)
Publish(f) ==
  /\ lastSequence < MaxPublished
  /\ calling = {}
  /\ entries' = PushBack(entries, Capacity, [sequence |-> lastSequence + 1, frame |-> f])
  /\ lastSequence' = lastSequence + 1
  /\ producerDropCount' =
       IF IsFull(entries, Capacity) THEN producerDropCount + 1 ELSE producerDropCount
  /\ latestFrame' = f
  /\ latestSyncFrame' = IF f \in Keyframes THEN f ELSE latestSyncFrame
  /\ calling' = callbacks
  /\ log' = Append(log, f)
  /\ UNCHANGED <<callbacks, cursor, woken, joins, out>>

(* publish, after the lock: the copied callbacks run in no particular      *)
(* order, whether or not their subscriber is still registered.             *)
MutantStopsAtFirst(s) ==
  /\ s \in calling
  /\ calling' = {}
  /\ woken' = woken \cup {s}
  /\ UNCHANGED <<ringVars, callbacks, cursor, joins, out>>

InvokeCallback(s) ==
  /\ s \in calling
  /\ calling' = calling \ {s}
  /\ woken' = woken \cup {s}
  /\ UNCHANGED <<ringVars, callbacks, cursor, joins, out>>

(* read, and waitReadFor, which does the same once its predicate (an       *)
(* entry at or after the cursor) holds.  An empty read is what sends the   *)
(* owner back to wait for its callback.                                    *)
Read(s) ==
  /\ cursor[s].active
  /\ entries # << >>
  /\ \E n \in 1 .. lastSequence + 2 :
       /\ ResumesAt(entries, cursor[s], Keyframes, n)
       /\ LET c == Normalized(entries, cursor[s], n)
          IN \/ \E i \in DOMAIN entries :
                  /\ DeliversAt(entries, c, Keyframes, i)
                  /\ cursor' = [cursor EXCEPT ![s] = AfterDelivery(c, entries[i])]
                  /\ out' = [out EXCEPT ![s] = entries[i].frame]
                  /\ UNCHANGED woken
             \/ /\ NothingEligible(entries, c, Keyframes)
                /\ cursor' = [cursor EXCEPT ![s] = AfterNothing(entries, c)]
                /\ woken' = woken \ {s}
                /\ UNCHANGED out
  /\ UNCHANGED <<ringVars, callbacks, calling, joins>>

(* read on an empty ring: nothing, not even the cursor, changes.           *)
ReadEmpty(s) ==
  /\ cursor[s].active
  /\ entries = << >>
  /\ woken' = woken \ {s}
  /\ UNCHANGED <<ringVars, callbacks, calling, cursor, joins, out>>

Next ==
  \/ \E f \in Frames : Publish(f)
  \/ \E s \in Subscribers :
       \/ \E p \in StreamStartPolicy : Register(s, p)
       \/ RegisterViewer(s)
       \/ Unregister(s)
       \/ InvokeCallback(s)
       \/ Read(s)
       \/ ReadEmpty(s)

(* The producer finishes the publish it began, and a subscriber that was   *)
(* woken reads: the event loop and the worker are threads that always run. *)
Fairness ==
  \A s \in Subscribers :
    /\ WF_vars(InvokeCallback(s))
    /\ WF_vars(s \in woken /\ (Read(s) \/ ReadEmpty(s)))

Spec == Init /\ [][Next]_vars
FairSpec == Spec /\ Fairness

-----------------------------------------------------------------------------
(* The types of the class's fields.                                        *)
TypeOK ==
  /\ entries \in Seq(Entry(Frames))
  /\ Len(entries) <= Capacity
  /\ lastSequence \in Nat
  /\ producerDropCount \in Nat
  /\ latestFrame \in Frames \cup {NoFrame}
  /\ latestSyncFrame \in Frames \cup {NoFrame}
  /\ callbacks \subseteq Subscribers
  /\ calling \subseteq Subscribers
  /\ cursor \in [Subscribers -> Cursor]
  /\ woken \subseteq Subscribers
  /\ joins \in Nat
  /\ log \in Seq(Frames)
  /\ out \in [Subscribers -> Frames \cup {NoFrame}]

(* The deque holds the most recent frames, all of them, in order and under *)
(* consecutive numbers, whatever was dropped before: the searches of read  *)
(* and the overflow arithmetic of normalizeCursorLocked rely on it, and so *)
(* do the depth and drop_count figures written to the runtime status.      *)
RingIsSuffixOfLog ==
  /\ lastSequence = Len(log)
  /\ lastSequence = producerDropCount + Len(entries)
  /\ producerDropCount > 0 => Len(entries) = Capacity
  /\ \A i \in 1 .. Len(entries) :
       /\ entries[i].sequence = producerDropCount + i
       /\ entries[i].frame = log[producerDropCount + i]

(* No cursor runs further ahead than one frame past the next one: a reader *)
(* never waits for more than one skipped frame beyond the live edge.       *)
CursorsNearEdge ==
  \A s \in Subscribers : cursor[s].nextSequence <= lastSequence + 2

(* The refinement: cursors are the positions of an ideal feed.             *)
Abstract == INSTANCE LiveFeed WITH
  Window  <- Capacity,
  on      <- {s \in Subscribers : cursor[s].active},
  pos     <- [s \in Subscribers |-> cursor[s].nextSequence],
  gated   <- {s \in Subscribers : cursor[s].requireSync},
  started <- {s \in Subscribers : cursor[s].started}

(* In-order, duplicate-free delivery that starts with a sync frame when    *)
(* one is required and loses only what the ring had to give up.            *)
ImplementsLiveFeed == Abstract!Spec

(* A subscriber with an unread frame is never left waiting: its callback   *)
(* ran or is about to run, however publish, registration and reads         *)
(* interleave around the unlocked part of publish.                         *)
NoLostWakeup ==
  \A s \in Subscribers :
    (cursor[s].active /\ cursor[s].nextSequence <= lastSequence)
      => s \in woken \cup calling

(* Every registered subscriber works off the frames it can still get.      *)
CatchesUp ==
  \A s \in Subscribers :
    (cursor[s].active /\ cursor[s].nextSequence <= lastSequence)
      ~> (~cursor[s].active \/ cursor[s].nextSequence > lastSequence)
=============================================================================
