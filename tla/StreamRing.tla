----------------------------- MODULE StreamRing -----------------------------
(***************************************************************************)
(* The bounded deque and the subscriber cursor of StreamCore (the fan-out  *)
(* buffer between one encoder worker and the RTSP sources that read it) as *)
(* operators on values.  StreamCore schedules them; RtspDelivery reuses    *)
(* them for the video and the audio ring.                                  *)
(*                                                                         *)
(* The searches of the code ("the first entry such that ...") are stated   *)
(* as relations on the index they stop at, so that no operator here is     *)
(* recursive and each can be expanded in a proof.                          *)
(***************************************************************************)
EXTENDS Integers, Sequences

LiveEdge   == "LiveEdge"
LatestSync == "LatestSync"
StreamStartPolicy == {LiveEdge, LatestSync}

(* One element of entries_: a frame and the number publish gave it.        *)
Entry(Frames) == [sequence : Nat \ {0}, frame : Frames]

(* subscriberId is left out: it is only the key of the callback map, and a *)
(* subscriber holds one registration at a time.                            *)
Cursor == [nextSequence  : Nat \ {0},
           overflowCount : Nat,
           requireSync   : BOOLEAN,
           started       : BOOLEAN,
           active        : BOOLEAN]

FrontSequence(entries) == entries[1].sequence
BackSequence(entries)  == entries[Len(entries)].sequence

-----------------------------------------------------------------------------
(* publish: the oldest entry makes room when the deque is full.            *)

MutantPopsLate(entries, capacity) == Len(entries) > capacity

IsFull(entries, capacity) == Len(entries) >= capacity

MutantKeepsOldest(entries, capacity, entry) ==
  IF IsFull(entries, capacity)
  THEN Append(SubSeq(entries, 1, Len(entries) - 1), entry)
  ELSE Append(entries, entry)

PushBack(entries, capacity, entry) ==
  Append(IF IsFull(entries, capacity) THEN Tail(entries) ELSE entries, entry)

-----------------------------------------------------------------------------
(* initialSequenceLocked: n is where a new cursor starts.  keys is the set *)
(* of sync frames.                                                         *)

NoSyncFrom(entries, first, keys) ==
  \A i \in first .. Len(entries) : entries[i].frame \notin keys

StartsAt(entries, lastSequence, policy, keys, n) ==
  \/ /\ entries = << >> \/ (policy = LatestSync /\ NoSyncFrom(entries, 1, keys))
     /\ n = lastSequence + 1
  \/ /\ entries # << >> /\ policy = LiveEdge
     /\ n = BackSequence(entries)
  \/ /\ policy = LatestSync
     /\ \E i \in DOMAIN entries : /\ entries[i].frame \in keys
                                  /\ NoSyncFrom(entries, i + 1, keys)
                                  /\ n = entries[i].sequence

(* What registerSubscriber returns.                                        *)
NewCursor(policy, n) ==
  [nextSequence  |-> n,
   overflowCount |-> 0,
   requireSync   |-> policy = LatestSync,
   started       |-> FALSE,
   active        |-> TRUE]

(* The cursor an RTSP video source makes of a LiveEdge registration: it    *)
(* moves one frame on and demands a sync frame.                            *)
MutantStaleViewerCursor(n) == NewCursor(LatestSync, n)

ViewerCursor(n) ==
  [nextSequence  |-> n + 1,
   overflowCount |-> 0,
   requireSync   |-> TRUE,
   started       |-> FALSE,
   active        |-> TRUE]

-----------------------------------------------------------------------------
(* normalizeCursorLocked: a cursor the ring has overtaken resumes at the   *)
(* oldest entry or, when it wants sync frames, at the oldest sync frame if *)
(* there is one.                                                           *)

Overtaken(entries, cursor) ==
  entries # << >> /\ cursor.nextSequence < FrontSequence(entries)

ResumesAt(entries, cursor, keys, n) ==
  IF ~Overtaken(entries, cursor) THEN n = cursor.nextSequence
  ELSE \/ /\ ~cursor.requireSync \/ NoSyncFrom(entries, 1, keys)
          /\ n = FrontSequence(entries)
       \/ /\ cursor.requireSync
          /\ \E i \in DOMAIN entries :
               /\ entries[i].frame \in keys
               /\ \A j \in 1 .. i - 1 : entries[j].frame \notin keys
               /\ n = entries[i].sequence

Normalized(entries, cursor, n) ==
  [cursor EXCEPT
     !.nextSequence  = n,
     !.overflowCount = @ + IF Overtaken(entries, cursor)
                           THEN FrontSequence(entries) - cursor.nextSequence
                           ELSE 0]

-----------------------------------------------------------------------------
(* readLocked: the first entry at or after the cursor; before the first    *)
(* delivery a cursor that requires sync passes over everything else.       *)

MutantForgetsGate(cursor, keys, entry) ==
  entry.sequence >= cursor.nextSequence

Eligible(cursor, keys, entry) ==
  /\ entry.sequence >= cursor.nextSequence
  /\ cursor.requireSync /\ ~cursor.started => entry.frame \in keys

DeliversAt(entries, cursor, keys, i) ==
  /\ Eligible(cursor, keys, entries[i])
  /\ \A j \in 1 .. i - 1 : ~Eligible(cursor, keys, entries[j])

NothingEligible(entries, cursor, keys) ==
  \A i \in DOMAIN entries : ~Eligible(cursor, keys, entries[i])

AfterDelivery(cursor, entry) ==
  [cursor EXCEPT !.nextSequence = entry.sequence + 1, !.started = TRUE]

MutantKeepsWaiting(entries, cursor) == cursor

(* The entries passed over for want of a sync frame stay behind the cursor.*)
AfterNothing(entries, cursor) ==
  IF /\ entries # << >>
     /\ cursor.requireSync /\ ~cursor.started
     /\ cursor.nextSequence <= BackSequence(entries)
  THEN [cursor EXCEPT !.nextSequence = BackSequence(entries) + 1]
  ELSE cursor
=============================================================================
