------------------------- MODULE RtspDeliveryProofs -------------------------
(***************************************************************************)
(* Proofs about RtspDelivery, for any sessions and tracks, any capacities  *)
(* and bounds: no source waits for a frame the ring holds, a viewer starts *)
(* on a keyframe published after it asked, and audio follows video.        *)
(***************************************************************************)
EXTENDS RtspDelivery, TLAPS

(* A source is a session and one of its tracks.                            *)
LEMMA SourceParts ==
  /\ \A src \in Sources :
       /\ src[1] \in Sessions /\ src[2] \in Media /\ src[2] \in Tracks[src[1]]
       /\ src = <<src[1], src[2]>>
  /\ \A s \in Sessions, m \in Media : m \in Tracks[s] => <<s, m>> \in Sources
BY DeliveryAssumption DEF Sources

-----------------------------------------------------------------------------
(* The ring and the cursors.                                               *)

(* The entries are numbered without a gap up to the latest frame.          *)
IsNumbered(entries, n) ==
  \A i \in DOMAIN entries : entries[i].sequence = n - Len(entries) + i

LEMMA PushBackNumbers ==
  ASSUME NEW es \in Seq(Entry(Frames)), NEW cap \in Nat \ {0}, NEW n \in Nat,
         NEW f \in Frames, Len(es) <= cap, IsNumbered(es, n)
  PROVE  LET t == PushBack(es, cap, [sequence |-> n + 1, frame |-> f])
         IN t \in Seq(Entry(Frames)) /\ Len(t) <= cap /\ IsNumbered(t, n + 1)
<1> DEFINE e == [sequence |-> n + 1, frame |-> f]
           rest == IF IsFull(es, cap) THEN Tail(es) ELSE es
<1>1. e \in Entry(Frames) /\ e.sequence = n + 1
  BY DEF Entry
<1>2. /\ rest \in Seq(Entry(Frames)) /\ Len(rest) < cap
      /\ \A i \in 1 .. Len(rest) : rest[i].sequence = n - Len(rest) + i
  <2>1. CASE IsFull(es, cap)
    <3>1. es # << >> /\ Len(es) = cap
      BY <2>1 DEF IsFull
    <3>2. /\ Tail(es) \in Seq(Entry(Frames)) /\ Len(Tail(es)) = cap - 1
          /\ \A i \in 1 .. cap - 1 : Tail(es)[i] = es[i + 1]
      BY <3>1
    <3> QED
      BY <2>1, <3>1, <3>2, SMTT(30) DEF IsNumbered
  <2>2. CASE ~IsFull(es, cap)
    BY <2>2 DEF IsFull, IsNumbered
  <2> QED
    BY <2>1, <2>2
<1> HIDE DEF rest, e
<1>3. /\ Append(rest, e) \in Seq(Entry(Frames)) /\ Len(Append(rest, e)) = Len(rest) + 1
      /\ \A i \in 1 .. Len(rest) : Append(rest, e)[i] = rest[i]
      /\ Append(rest, e)[Len(rest) + 1] = e
  BY <1>1, <1>2
<1>4. PushBack(es, cap, e) = Append(rest, e)
  BY DEF PushBack, rest
<1>5. IsNumbered(Append(rest, e), n + 1)
  <2> SUFFICES ASSUME NEW i \in 1 .. Len(rest) + 1
               PROVE  Append(rest, e)[i].sequence = n - Len(rest) + i
    BY <1>2, <1>3 DEF IsNumbered
  <2>1. CASE i = Len(rest) + 1
    BY <1>1, <1>2, <1>3, <2>1
  <2>2. CASE i # Len(rest) + 1
    BY <1>2, <1>3, <2>2
  <2> QED
    BY <2>1, <2>2
<1>6. /\ PushBack(es, cap, e) \in Seq(Entry(Frames)) /\ Len(PushBack(es, cap, e)) <= cap
      /\ IsNumbered(PushBack(es, cap, e), n + 1)
  BY <1>2, <1>3, <1>4, <1>5
<1> QED
  BY <1>6 DEF e

(* Where a read resumes, it has lost no more than the ring has.            *)
LEMMA ResumesForward ==
  ASSUME NEW es \in Seq(Entry(Frames)), NEW last0 \in Nat, IsNumbered(es, last0),
         NEW c \in Cursor, NEW n \in Nat \ {0}, ResumesAt(es, c, Keys, n)
  PROVE  /\ Normalized(es, c, n) \in Cursor
         /\ Normalized(es, c, n).nextSequence = n /\ n >= c.nextSequence
         /\ Normalized(es, c, n).requireSync = c.requireSync
         /\ Normalized(es, c, n).started = c.started
         /\ Normalized(es, c, n).active = c.active
<1>1. n >= c.nextSequence
  BY DEF ResumesAt, Overtaken, FrontSequence, IsNumbered, Cursor, Entry
<1>2. Overtaken(es, c) => FrontSequence(es) - c.nextSequence \in Nat
  <2>1. es # << >> => es[1] \in Entry(Frames)
    OBVIOUS
  <2> QED
    BY <2>1 DEF Overtaken, FrontSequence, Cursor, Entry
<1>3. c.overflowCount + (IF Overtaken(es, c) THEN FrontSequence(es) - c.nextSequence ELSE 0)
        \in Nat
  BY <1>2 DEF Cursor
<1> QED
  BY <1>1, <1>3 DEF Normalized, Cursor

LEMMA EntryFields ==
  ASSUME NEW es \in Seq(Entry(Frames)), NEW i \in DOMAIN es
  PROVE  es[i] \in Entry(Frames) /\ es[i].sequence \in Nat
<1>1. es[i] \in Entry(Frames)
  OBVIOUS
<1> QED
  BY <1>1 DEF Entry

LEMMA AfterDeliveryFields ==
  ASSUME NEW c \in Cursor, NEW e \in Entry(Frames)
  PROVE  /\ AfterDelivery(c, e) \in Cursor
         /\ AfterDelivery(c, e).nextSequence = e.sequence + 1
         /\ AfterDelivery(c, e).started = TRUE
         /\ AfterDelivery(c, e).requireSync = c.requireSync
         /\ AfterDelivery(c, e).active = c.active
<1> DEFINE next == e.sequence + 1
<1>1. next \in Nat \ {0}
  BY DEF Entry
<1>2. AfterDelivery(c, e) = [c EXCEPT !.nextSequence = next, !.started = TRUE]
  BY DEF AfterDelivery
<1> HIDE DEF next
<1>3. /\ AfterDelivery(c, e) \in Cursor /\ AfterDelivery(c, e).nextSequence = next
      /\ AfterDelivery(c, e).started = TRUE
      /\ AfterDelivery(c, e).requireSync = c.requireSync
      /\ AfterDelivery(c, e).active = c.active
  BY <1>1, <1>2 DEF Cursor
<1> QED
  BY <1>3 DEF next

(* A read that finds nothing leaves the cursor where there is nothing.     *)
LEMMA AfterNothingFields ==
  ASSUME NEW es \in Seq(Entry(Frames)), NEW c \in Cursor, NothingEligible(es, c, Keys)
  PROVE  /\ AfterNothing(es, c) \in Cursor
         /\ AfterNothing(es, c).nextSequence >= c.nextSequence
         /\ AfterNothing(es, c).started = c.started
         /\ AfterNothing(es, c).requireSync = c.requireSync
         /\ AfterNothing(es, c).active = c.active
         /\ NothingEligible(es, AfterNothing(es, c), Keys)
<1>1. es # << >> => BackSequence(es) \in Nat \ {0}
  <2>1. es # << >> => Len(es) \in DOMAIN es /\ es[Len(es)] \in Entry(Frames)
    OBVIOUS
  <2> QED
    BY <2>1 DEF BackSequence, Entry
<1>2. \A i \in DOMAIN es : es[i].sequence \in Nat
  <2>1. \A i \in DOMAIN es : es[i] \in Entry(Frames)
    OBVIOUS
  <2> QED
    BY <2>1 DEF Entry
<1> DEFINE d == AfterNothing(es, c)
<1>3. /\ d \in Cursor /\ d.nextSequence >= c.nextSequence /\ d.started = c.started
      /\ d.requireSync = c.requireSync /\ d.active = c.active
  BY <1>1 DEF AfterNothing, Cursor
<1>4. \A e : Eligible(d, Keys, e) /\ e.sequence \in Nat => Eligible(c, Keys, e)
  <2> HIDE DEF d
  <2> QED
    BY <1>3 DEF Eligible, Cursor
<1> QED
  BY <1>2, <1>3, <1>4 DEF NothingEligible

-----------------------------------------------------------------------------
(* The invariant: the rings are numbered, only sources of sessions that    *)
(* are set up capture, a video source has a cursor beyond what there was   *)
(* when it registered, and a session whose audio plays has seen something  *)
(* if it is ready.                                                         *)

Types ==
  /\ session \in [Sessions -> {"new", "set", "gone"}]
  /\ ring \in [Media -> Seq(Entry(Frames))]
  /\ \A m \in Media : Len(ring[m]) <= Capacity[m]
  /\ last \in [Media -> Nat]
  /\ calling \in [Media -> SUBSET Sources]
  /\ cursor \in [Sources -> Cursor]
  /\ awaiting \subseteq Capturing
  /\ joinedAt \in [Sources -> Nat]

Numbered == \A m \in Media : IsNumbered(ring[m], last[m])

SetUp == \A src \in Capturing : session[src[1]] = "set"

Gated ==
  \A src \in Capturing : src[2] = "video" =>
    cursor[src].requireSync /\ cursor[src].nextSequence > joinedAt[src]

Seen ==
  \A s \in ready : Tracks[s] = Media /\ <<s, "audio">> \in Capturing =>
    cursor[<<s, "video">>].started

IInv == Types /\ Numbered /\ SetUp /\ Gated /\ Seen /\ AwaitingIsWoken

(* What became of a source that awaited data: it has a frame, or there is  *)
(* none for its cursor.                                                    *)
Gets(src, d) ==
  /\ awaiting' = awaiting \ {src} /\ ready' = ReadyAfter(src)
  /\ d.started /\ MayRead(src)
  /\ \E i \in DOMAIN ring[src[2]] :
       /\ ring[src[2]][i].sequence = d.nextSequence - 1
       /\ ring[src[2]][i].sequence >= cursor[src].nextSequence
       /\ cursor[src].requireSync /\ ~cursor[src].started => ring[src[2]][i].frame \in Keys

Waits(src, d) ==
  /\ awaiting' = awaiting \cup {src} /\ ready' = ready
  /\ d.started = cursor[src].started
  /\ src[2] = "video" => NothingEligible(ring[src[2]], d, Keys)

LEMMA DeliverOutcome ==
  ASSUME Types, Numbered, NEW src \in Capturing, Deliver(src)
  PROVE  \E d \in Cursor :
           /\ cursor' = [cursor EXCEPT ![src] = d]
           /\ d.active /\ d.requireSync = cursor[src].requireSync
           /\ d.nextSequence >= cursor[src].nextSequence
           /\ Gets(src, d) \/ Waits(src, d)
<1> DEFINE es == ring[src[2]]
           old == cursor[src]
<1>1. /\ src \in Sources /\ src[2] \in Media /\ es \in Seq(Entry(Frames))
      /\ last[src[2]] \in Nat /\ old \in Cursor /\ old.active
      /\ IsNumbered(es, last[src[2]])
  BY SourceParts DEF Types, Numbered, Capturing
<1>2. CASE ~MayRead(src) \/ es = << >>
  <2>1. /\ cursor' = cursor /\ ready' = ready /\ awaiting' = awaiting \cup {src}
    BY <1>2 DEF Deliver
  <2>2. cursor' = [cursor EXCEPT ![src] = old]
    BY <2>1 DEF Types
  <2>3. src[2] = "video" => NothingEligible(es, old, Keys)
    BY <1>2 DEF MayRead, NothingEligible
  <2>4. old.nextSequence >= old.nextSequence
    BY <1>1 DEF Cursor
  <2> QED
    BY <1>1, <2>1, <2>2, <2>3, <2>4 DEF Waits
<1>3. CASE MayRead(src) /\ es # << >>
  <2>1. PICK n \in 1 .. last[src[2]] + 2 :
          /\ ResumesAt(es, old, Keys, n)
          /\ \/ \E i \in DOMAIN es :
                  /\ DeliversAt(es, Normalized(es, old, n), Keys, i)
                  /\ cursor' = [cursor EXCEPT
                                  ![src] = AfterDelivery(Normalized(es, old, n), es[i])]
                  /\ awaiting' = awaiting \ {src}
                  /\ ready' = ReadyAfter(src)
             \/ /\ NothingEligible(es, Normalized(es, old, n), Keys)
                /\ cursor' = [cursor EXCEPT ![src] = AfterNothing(es, Normalized(es, old, n))]
                /\ awaiting' = awaiting \cup {src}
                /\ ready' = ready
    BY <1>3 DEF Deliver
  <2> DEFINE c == Normalized(es, old, n)
  <2>2. /\ c \in Cursor /\ c.nextSequence >= old.nextSequence
        /\ c.requireSync = old.requireSync /\ c.started = old.started /\ c.active = old.active
    <3>1. n \in Nat \ {0}
      BY <1>1
    <3> HIDE DEF es, old
    <3>2. /\ Normalized(es, old, n) \in Cursor /\ Normalized(es, old, n).nextSequence = n
          /\ n >= old.nextSequence
          /\ Normalized(es, old, n).requireSync = old.requireSync
          /\ Normalized(es, old, n).started = old.started
          /\ Normalized(es, old, n).active = old.active
      BY <1>1, <2>1, <3>1, ResumesForward
    <3> QED
      BY <3>2
  <2> HIDE DEF c
  <2>3. ASSUME NEW i \in DOMAIN es, DeliversAt(es, c, Keys, i),
               cursor' = [cursor EXCEPT ![src] = AfterDelivery(c, es[i])],
               awaiting' = awaiting \ {src}, ready' = ReadyAfter(src)
        PROVE  \E d \in Cursor :
                 /\ cursor' = [cursor EXCEPT ![src] = d]
                 /\ d.active /\ d.requireSync = old.requireSync
                 /\ d.nextSequence >= old.nextSequence
                 /\ Gets(src, d)
    <3> DEFINE d == AfterDelivery(c, es[i])
    <3>1. es[i] \in Entry(Frames) /\ es[i].sequence \in Nat
      BY <1>1, EntryFields
    <3>2. /\ d \in Cursor /\ d.nextSequence = es[i].sequence + 1 /\ d.started
          /\ d.requireSync = c.requireSync /\ d.active = c.active
      BY <2>2, <3>1, AfterDeliveryFields
    <3> HIDE DEF d
    <3>3. /\ es[i].sequence >= c.nextSequence
          /\ c.requireSync /\ ~c.started => es[i].frame \in Keys
      BY <2>3 DEF DeliversAt, Eligible
    <3>4. es[i].sequence >= old.nextSequence /\ d.nextSequence >= old.nextSequence
          /\ es[i].sequence = d.nextSequence - 1
      <4>1. old.nextSequence \in Nat /\ c.nextSequence \in Nat
        BY <1>1, <2>2 DEF Cursor
      <4> QED
        BY <4>1, <2>2, <3>1, <3>2, <3>3
    <3>5. Gets(src, d)
      BY <1>3, <2>2, <2>3, <3>2, <3>3, <3>4 DEF Gets
    <3> QED
      BY <1>1, <2>2, <2>3, <3>2, <3>4, <3>5 DEF d
  <2>4. ASSUME NothingEligible(es, c, Keys),
               cursor' = [cursor EXCEPT ![src] = AfterNothing(es, c)],
               awaiting' = awaiting \cup {src}, ready' = ready
        PROVE  \E d \in Cursor :
                 /\ cursor' = [cursor EXCEPT ![src] = d]
                 /\ d.active /\ d.requireSync = old.requireSync
                 /\ d.nextSequence >= old.nextSequence
                 /\ Waits(src, d)
    <3> DEFINE d == AfterNothing(es, c)
    <3>1. /\ d \in Cursor /\ d.nextSequence >= c.nextSequence /\ d.started = c.started
          /\ d.requireSync = c.requireSync /\ d.active = c.active
          /\ NothingEligible(es, d, Keys)
      BY <1>1, <2>2, <2>4, AfterNothingFields
    <3> HIDE DEF d
    <3>2. d.nextSequence >= old.nextSequence
      BY <1>1, <2>2, <3>1 DEF Cursor
    <3>3. Waits(src, d)
      BY <2>2, <2>4, <3>1 DEF Waits
    <3> QED
      BY <1>1, <2>2, <2>4, <3>1, <3>2, <3>3 DEF d
  <2> QED
    BY <2>1, <2>3, <2>4 DEF c
<1> QED
  BY <1>2, <1>3

-----------------------------------------------------------------------------
(* Each kind of step keeps the invariant.                                  *)

LEMMA InitOK == Init => IInv
<1> SUFFICES ASSUME Init PROVE IInv
  OBVIOUS
<1> USE DeliveryAssumption
<1>1. NoCursor \in Cursor /\ ~NoCursor.active
  BY DEF NoCursor, Cursor
<1>2. Capturing = {}
  BY <1>1 DEF Init, Capturing
<1>3. << >> \in Seq(Entry(Frames)) /\ Len(<< >>) = 0 /\ DOMAIN << >> = {}
  OBVIOUS
<1>4. Types
  BY <1>1, <1>2, <1>3 DEF Init, Types
<1>5. Numbered
  BY <1>3 DEF Init, Numbered, IsNumbered
<1> QED
  BY <1>2, <1>4, <1>5 DEF Init, IInv, SetUp, Gated, Seen, AwaitingIsWoken

(* Nothing changes but the worker, what it has still to call, the events   *)
(* and a session that is set up.                                           *)
LEMMA InvAlone ==
  ASSUME IInv, UNCHANGED <<ring, last, cursor, awaiting, ready, joinedAt>>,
         session' \in [Sessions -> {"new", "set", "gone"}],
         \A s \in Sessions : session[s] = "set" => session'[s] = "set",
         calling' \in [Media -> SUBSET Sources],
         \A src \in awaiting : src \in events \cup calling["video"]
                                 => src \in events' \cup calling'["video"]
  PROVE  IInv'
<1>1. Capturing' = Capturing /\ \A src \in Capturing : src[1] \in Sessions
  BY SourceParts DEF Capturing
<1>2. Types' /\ Numbered'
  BY <1>1 DEF IInv, Types, Numbered
<1>3. SetUp' /\ Gated' /\ Seen'
  BY <1>1 DEF IInv, SetUp, Gated, Seen
<1>4. AwaitingIsWoken'
  BY DEF IInv, AwaitingIsWoken
<1> QED
  BY <1>2, <1>3, <1>4 DEF IInv

LEMMA InvPublish ==
  ASSUME IInv, NEW m \in Media, NEW f \in Frames, Publish(m, f),
         UNCHANGED <<session, cursor, awaiting, events, ready, joinedAt>>
  PROVE  IInv'
<1> USE DEF IInv
<1>1. Capturing' = Capturing
  BY DEF Capturing
<1> DEFINE t == PushBack(ring[m], Capacity[m], [sequence |-> last[m] + 1, frame |-> f])
<1>2. t \in Seq(Entry(Frames)) /\ Len(t) <= Capacity[m] /\ IsNumbered(t, last[m] + 1)
  BY PushBackNumbers, DeliveryAssumption DEF Types, Numbered
<1>3. /\ ring' = [ring EXCEPT ![m] = t] /\ last' = [last EXCEPT ![m] = last[m] + 1]
      /\ calling' = [calling EXCEPT ![m] = Subscribed(m)]
  BY DEF Publish
<1> HIDE DEF t
<1>4. Types'
  <2>1. Subscribed(m) \subseteq Sources
    BY DEF Subscribed, Capturing
  <2> QED
    BY <1>1, <1>2, <1>3, <2>1 DEF Types
<1>5. Numbered'
  BY <1>2, <1>3 DEF Numbered, Types
<1>6. SetUp' /\ Gated' /\ Seen'
  BY <1>1 DEF SetUp, Gated, Seen
<1>7. AwaitingIsWoken'
  <2>1. CASE m = "video"
    BY <1>3, <2>1 DEF AwaitingIsWoken, Types, Subscribed
  <2>2. CASE m # "video"
    <3>1. ring'["video"] = ring["video"] /\ calling'["video"] = calling["video"]
      BY <1>3, <2>2 DEF Types, Media
    <3> QED
      BY <3>1 DEF AwaitingIsWoken
  <2> QED
    BY <2>1, <2>2
<1> QED
  BY <1>4, <1>5, <1>6, <1>7

LEMMA InvDeliver ==
  ASSUME IInv, NEW src \in Capturing, Deliver(src),
         events \ {src} \subseteq events',
         UNCHANGED <<session, ring, last, calling, joinedAt>>
  PROVE  IInv'
<1> USE DEF IInv
<1>1. PICK d \in Cursor :
        /\ cursor' = [cursor EXCEPT ![src] = d]
        /\ d.active /\ d.requireSync = cursor[src].requireSync
        /\ d.nextSequence >= cursor[src].nextSequence
        /\ Gets(src, d) \/ Waits(src, d)
  BY DeliverOutcome
<1>2. src \in Sources /\ src[1] \in Sessions /\ src[2] \in Media /\ src = <<src[1], src[2]>>
  BY SourceParts DEF Capturing
<1>3. /\ \A other \in Sources : cursor'[other] = IF other = src THEN d ELSE cursor[other]
      /\ cursor' \in [Sources -> Cursor]
  BY <1>1, <1>2 DEF Types
<1>4. Capturing' = Capturing
  BY <1>1, <1>3 DEF Capturing
<1>5. awaiting' \ {src} = awaiting \ {src}
  BY <1>1 DEF Gets, Waits
<1>6. Types' /\ Numbered'
  BY <1>3, <1>4, <1>5 DEF Types, Numbered
<1>7. SetUp'
  BY <1>4 DEF SetUp
<1>8. Gated'
  <2>1. /\ \A other \in Sources : joinedAt[other] \in Nat /\ cursor[other].nextSequence \in Nat
        /\ d.nextSequence \in Nat
    BY DEF Types, Cursor
  <2> QED
    BY <1>1, <1>2, <1>3, <1>4, <2>1 DEF Gated, Capturing
<1>9. Seen'
  <2> SUFFICES ASSUME NEW s \in ready', Tracks[s] = Media, <<s, "audio">> \in Capturing
               PROVE  cursor'[<<s, "video">>].started
    BY <1>4 DEF Seen
  <2>1. s \in Sessions /\ <<s, "video">> \in Sources
    <3>1. s \in Sessions
      BY SourceParts DEF Capturing
    <3> QED
      BY <3>1, SourceParts DEF Media
  <2>2. CASE src = <<s, "video">> /\ Gets(src, d)
    BY <1>3, <2>1, <2>2 DEF Gets
  <2>3. CASE src = <<s, "video">> /\ Waits(src, d)
    BY <1>3, <2>1, <2>3 DEF Waits, Seen
  <2>4. CASE src # <<s, "video">>
    <3>1. s \in ready
      BY <1>1, <1>2, <2>4 DEF Gets, Waits, ReadyAfter
    <3> QED
      BY <1>3, <2>1, <2>4, <3>1 DEF Seen
  <2> QED
    BY <1>1, <2>2, <2>3, <2>4
<1>10. AwaitingIsWoken'
  <2> SUFFICES ASSUME NEW other \in awaiting', other[2] = "video",
                      NEW i \in DOMAIN ring["video"],
                      Eligible(cursor'[other], Keys, ring["video"][i])
               PROVE  other \in events' \cup calling["video"]
    BY DEF AwaitingIsWoken
  <2>1. CASE other = src
    <3>1. Waits(src, d)
      BY <1>1, <2>1 DEF Gets
    <3> QED
      BY <1>2, <1>3, <2>1, <3>1 DEF Waits, NothingEligible
  <2>2. CASE other # src
    <3>1. other \in awaiting /\ other \in Sources
      BY <1>5, <2>2 DEF Types, Capturing
    <3>2. other \in events \cup calling["video"]
      BY <1>3, <2>2, <3>1 DEF AwaitingIsWoken
    <3> QED
      BY <2>2, <3>2
  <2> QED
    BY <2>1, <2>2
<1> QED
  BY <1>6, <1>7, <1>8, <1>9, <1>10

(* Where a viewer starts lies behind everything there is.                  *)
LEMMA ViewerStartsBehind ==
  ASSUME NEW es \in Seq(Entry(Frames)), NEW last0 \in Nat, IsNumbered(es, last0),
         NEW n \in Nat \ {0}, StartsAt(es, last0, LiveEdge, Keys, n)
  PROVE  /\ n + 1 > last0 /\ ViewerCursor(n) \in Cursor
         /\ NothingEligible(es, ViewerCursor(n), Keys)
<1>1. n >= last0
  <2>1. CASE es = << >>
    BY <2>1 DEF StartsAt, LiveEdge, LatestSync
  <2>2. CASE es # << >>
    <3>1. Len(es) \in DOMAIN es /\ es[Len(es)].sequence = last0
      BY <2>2 DEF IsNumbered
    <3> QED
      BY <2>2, <3>1 DEF StartsAt, BackSequence, LiveEdge, LatestSync
  <2> QED
    BY <2>1, <2>2
<1>2. \A i \in DOMAIN es : es[i].sequence < n + 1
  BY <1>1 DEF IsNumbered
<1>3. ViewerCursor(n) \in Cursor /\ ViewerCursor(n).nextSequence = n + 1
  BY DEF ViewerCursor, Cursor
<1> HIDE DEF ViewerCursor
<1>4. \A i \in DOMAIN es : ~(es[i].sequence >= n + 1)
  BY <1>2, EntryFields
<1> QED
  BY <1>1, <1>3, <1>4 DEF NothingEligible, Eligible

LEMMA StartFields ==
  ASSUME NEW src \in Sources, NEW n \in Nat \ {0}
  PROVE  /\ StartOf(src, n) \in Cursor /\ StartOf(src, n).active
         /\ src[2] = "video" => /\ StartOf(src, n) = ViewerCursor(n)
                                /\ StartOf(src, n).requireSync
                                /\ StartOf(src, n).nextSequence = n + 1
BY DEF StartOf, ViewerCursor, NewCursor, Cursor, LiveEdge, LatestSync

LEMMA InvPlay ==
  ASSUME IInv, NEW s \in Sessions, Play(s)
  PROVE  IInv'
<1> USE DEF IInv
<1> DEFINE mine == {src \in Sources : src[1] = s}
<1>1. /\ session[s] = "set" /\ mine \cap Capturing = {}
      /\ awaiting' = awaiting \cup mine
      /\ joinedAt' = [src \in Sources |->
                        IF src \in mine THEN last[src[2]] ELSE joinedAt[src]]
      /\ ready' = ReadyAtStart(s)
      /\ UNCHANGED <<session, ring, last, calling, events>>
  BY DEF Play
<1>2. PICK n \in [mine -> Nat \cap 1 .. last["video"] + last["audio"] + 1] :
        /\ \A src \in mine : StartsAt(ring[src[2]], last[src[2]], LiveEdge, Keys, n[src])
        /\ cursor' = [src \in Sources |->
                        IF src \in mine THEN StartOf(src, n[src]) ELSE cursor[src]]
  BY DEF Play
<1>3. \A src \in mine : n[src] \in Nat \ {0} /\ src \in Sources
  <2>1. \A k \in Nat \cap 1 .. last["video"] + last["audio"] + 1 : k \in Nat \ {0}
    BY DEF Types, Media
  <2> QED
    BY <2>1
<1>4. cursor' \in [Sources -> Cursor]
  BY <1>2, <1>3, StartFields DEF Types
<1>5. Capturing' = Capturing \cup mine
  BY <1>2, <1>3, StartFields DEF Capturing
<1>6. Types' /\ Numbered'
  <2>1. joinedAt' \in [Sources -> Nat]
    BY <1>1, SourceParts DEF Types
  <2> QED
    BY <1>1, <1>4, <1>5, <2>1 DEF Types, Numbered
<1>7. SetUp'
  BY <1>1, <1>5 DEF SetUp
<1>8. \A src \in mine : src[2] = "video" =>
        /\ cursor'[src] = ViewerCursor(n[src]) /\ cursor'[src].requireSync
        /\ cursor'[src].nextSequence = n[src] + 1
        /\ n[src] + 1 > last["video"]
        /\ NothingEligible(ring["video"], cursor'[src], Keys)
  <2> SUFFICES ASSUME NEW src \in mine, src[2] = "video"
               PROVE  /\ cursor'[src] = ViewerCursor(n[src]) /\ cursor'[src].requireSync
                      /\ cursor'[src].nextSequence = n[src] + 1
                      /\ n[src] + 1 > last["video"]
                      /\ NothingEligible(ring["video"], cursor'[src], Keys)
    OBVIOUS
  <2>1. cursor'[src] = StartOf(src, n[src])
    BY <1>2
  <2>2. /\ ring["video"] \in Seq(Entry(Frames)) /\ last["video"] \in Nat
        /\ IsNumbered(ring["video"], last["video"])
        /\ StartsAt(ring["video"], last["video"], LiveEdge, Keys, n[src])
    BY <1>2 DEF Types, Numbered, Media
  <2>3. n[src] + 1 > last["video"] /\ NothingEligible(ring["video"], ViewerCursor(n[src]), Keys)
    BY <1>3, <2>2, ViewerStartsBehind
  <2> QED
    BY <1>3, <2>1, <2>3, StartFields
<1>9. Gated'
  <2> SUFFICES ASSUME NEW src \in Capturing', src[2] = "video"
               PROVE  cursor'[src].requireSync /\ cursor'[src].nextSequence > joinedAt'[src]
    BY DEF Gated
  <2>1. CASE src \in mine
    BY <1>1, <1>3, <1>8, <2>1
  <2>2. CASE src \notin mine
    BY <1>1, <1>2, <1>5, <2>2 DEF Gated, Capturing
  <2> QED
    BY <2>1, <2>2
<1>10. Seen'
  <2> SUFFICES ASSUME NEW r \in ready', Tracks[r] = Media, <<r, "audio">> \in Capturing'
               PROVE  cursor'[<<r, "video">>].started
    BY DEF Seen
  <2>1. r \in Sessions /\ <<r, "video">> \in Sources /\ <<r, "audio">> \in Sources
    <3>1. r \in Sessions
      BY SourceParts DEF Capturing
    <3> QED
      BY <3>1, SourceParts DEF Media
  <2>2. r # s /\ r \in ready
    BY <1>1 DEF ReadyAtStart, Media
  <2>3. <<r, "audio">> \in Capturing /\ <<r, "video">> \notin mine
    BY <1>5, <2>2
  <2> QED
    BY <1>2, <2>1, <2>2, <2>3 DEF Seen
<1>11. AwaitingIsWoken'
  <2> SUFFICES ASSUME NEW src \in awaiting', src[2] = "video",
                      NEW i \in DOMAIN ring["video"],
                      Eligible(cursor'[src], Keys, ring["video"][i])
               PROVE  src \in events \cup calling["video"]
    BY <1>1 DEF AwaitingIsWoken
  <2>1. src \notin mine
    BY <1>8 DEF NothingEligible
  <2>2. src \in awaiting /\ cursor'[src] = cursor[src]
    BY <1>1, <1>2, <2>1 DEF Types, Capturing
  <2> QED
    BY <2>2 DEF AwaitingIsWoken
<1> QED
  BY <1>6, <1>7, <1>9, <1>10, <1>11

(* A session stops: its sources capture no more, those of others go on.    *)
LEMMA InvStop ==
  ASSUME IInv, NEW s \in Sessions,
         cursor' = Stopped(s), awaiting' = OfOthers(awaiting, s),
         OfOthers(events, s) \subseteq events', ready' \subseteq ready,
         session' \in [Sessions -> {"new", "set", "gone"}],
         \A r \in Sessions \ {s} : session'[r] = session[r],
         UNCHANGED <<ring, last, calling, joinedAt>>
  PROVE  IInv'
<1> USE DEF IInv
<1>1. NoCursor \in Cursor /\ ~NoCursor.active
  BY DEF NoCursor, Cursor
<1>2. /\ cursor' \in [Sources -> Cursor]
      /\ \A src \in Sources : src[1] # s => cursor'[src] = cursor[src]
      /\ \A src \in Sources : src[1] = s => cursor'[src] = NoCursor
  BY <1>1 DEF Types, Stopped
<1>3. Capturing' = {src \in Capturing : src[1] # s}
  BY <1>1, <1>2 DEF Capturing
<1>4. Types' /\ Numbered'
  BY <1>2, <1>3 DEF Types, Numbered, OfOthers
<1>5. SetUp'
  BY <1>3, SourceParts DEF SetUp, Capturing
<1>6. Gated'
  BY <1>2, <1>3 DEF Gated, Capturing
<1>7. Seen'
  <2> SUFFICES ASSUME NEW r \in ready, Tracks[r] = Media, <<r, "audio">> \in Capturing'
               PROVE  cursor'[<<r, "video">>].started
    BY DEF Seen
  <2>1. r \in Sessions /\ r # s /\ <<r, "audio">> \in Capturing
    BY <1>3, SourceParts DEF Capturing
  <2>2. <<r, "video">> \in Sources
    BY <2>1, SourceParts DEF Media
  <2> QED
    BY <1>2, <2>1, <2>2 DEF Seen
<1>8. AwaitingIsWoken'
  BY <1>2 DEF AwaitingIsWoken, OfOthers, Types, Capturing
<1> QED
  BY <1>4, <1>5, <1>6, <1>7, <1>8

LEMMA StepOK == IInv /\ [Next]_vars => IInv'
<1> SUFFICES ASSUME IInv, [Next]_vars PROVE IInv'
  OBVIOUS
<1>0. session \in [Sessions -> {"new", "set", "gone"}] /\ calling \in [Media -> SUBSET Sources]
  BY DEF IInv, Types
<1>1. CASE VideoSample \/ VideoRestart \/ UNCHANGED vars
  BY <1>0, <1>1, InvAlone DEF VideoSample, VideoRestart, vars
<1>2. CASE AudioFrame
  BY <1>2, InvPublish DEF AudioFrame, Media, Frames
<1>3. ASSUME NEW f \in VideoFrames, VideoPack(f) PROVE IInv'
  <2>1. CASE worker.has
    BY <1>3, <2>1, InvPublish DEF VideoPack, Media, Frames
  <2>2. CASE ~worker.has
    BY <1>0, <1>3, <2>2, InvAlone DEF VideoPack
  <2> QED
    BY <2>1, <2>2
<1>4. ASSUME NEW src \in Sources, InvokeCallback(src) PROVE IInv'
  <2>1. src[1] \in Sessions /\ src[2] \in Media
    BY SourceParts
  <2>2. calling' = [calling EXCEPT ![src[2]] = calling[src[2]] \ {src}]
    BY <1>4 DEF InvokeCallback
  <2>3. calling' \in [Media -> SUBSET Sources]
    BY <1>0, <2>1, <2>2
  <2>4. ASSUME NEW other \in awaiting, other \in events \cup calling["video"]
        PROVE  other \in events' \cup calling'["video"]
    <3>1. session[other[1]] = "set"
      BY DEF IInv, Types, SetUp
    <3>2. CASE other = src
      BY <1>4, <3>1, <3>2 DEF InvokeCallback
    <3>3. CASE other # src
      <4>1. other \in calling["video"] => other \in calling'["video"]
        BY <1>0, <2>1, <2>2, <3>3 DEF Media
      <4>2. events \subseteq events'
        BY <1>4 DEF InvokeCallback
      <4> QED
        BY <2>4, <4>1, <4>2
    <3> QED
      BY <3>2, <3>3
  <2> QED
    BY <1>0, <1>4, <2>3, <2>4, InvAlone DEF InvokeCallback
<1>5. ASSUME NEW src \in Sources, GetNextFrame(src) PROVE IInv'
  BY <1>5, InvDeliver DEF GetNextFrame
<1>6. ASSUME NEW src \in Sources, HandleEvent(src) PROVE IInv'
  <2>1. CASE src \in awaiting
    <3>1. src \in Capturing
      BY <2>1 DEF IInv, Types
    <3> QED
      BY <1>6, <2>1, <3>1, InvDeliver DEF HandleEvent
  <2>2. CASE src \notin awaiting
    BY <1>0, <1>6, <2>2, InvAlone DEF HandleEvent
  <2> QED
    BY <2>1, <2>2
<1>7. ASSUME NEW s \in Sessions, Setup(s) PROVE IInv'
  BY <1>0, <1>7, InvAlone DEF Setup
<1>8. ASSUME NEW s \in Sessions, Pause(s) \/ Teardown(s) PROVE IInv'
  BY <1>0, <1>8, InvStop DEF Pause, Teardown, OfOthers
<1> QED
  BY <1>1, <1>2, <1>3, <1>4, <1>5, <1>6, <1>7, <1>8, InvPlay DEF Next

-----------------------------------------------------------------------------
(* No video source waits for the next frame while the ring holds one for   *)
(* it, for any sessions, capacities and interleaving of the three threads. *)
THEOREM NoFrameWaits == Spec => []AwaitingIsWoken
<1>1. IInv => AwaitingIsWoken
  BY DEF IInv
<1> QED
  BY InitOK, StepOK, <1>1, PTL DEF Spec

(* Only a delivery ends a wait without ending the capture.                 *)
LEMMA DeliveryIsOutcome ==
  ASSUME IInv, [Next]_vars, NEW src \in Sources, Delivers(src)
  PROVE  src \in Capturing /\ Deliver(src) /\ ring' = ring
<1>0. src \in Capturing /\ src \in awaiting /\ src \notin awaiting' /\ cursor'[src].active
  BY DEF Delivers, IInv, Types
<1>1. ASSUME NEW s \in Sessions, cursor' = Stopped(s), awaiting' = OfOthers(awaiting, s)
      PROVE  FALSE
  BY <1>0, <1>1 DEF Stopped, OfOthers, NoCursor
<1>2. ASSUME NEW other \in Sources, other # src, other \in Capturing, Deliver(other)
      PROVE  FALSE
  BY <1>0, <1>2, DeliverOutcome DEF IInv, Gets, Waits
<1>3. ASSUME NEW other \in Sources, GetNextFrame(other) \/ HandleEvent(other)
      PROVE  Deliver(src) /\ ring' = ring
  BY <1>0, <1>2, <1>3 DEF GetNextFrame, HandleEvent, IInv, Types
<1> QED
  BY <1>0, <1>1, <1>3
     DEF Next, vars, VideoSample, VideoRestart, AudioFrame, VideoPack, InvokeCallback,
         Setup, Play, Pause, Teardown

(* What a viewer gets first is a keyframe published after it asked.        *)
THEOREM ViewersStartFresh == Spec => StartsOnFreshKeyframe
<1> DEFINE Fresh ==
      \A s \in Sessions : LET src == <<s, "video">> IN
        src \in Sources /\ Delivers(src) /\ ~cursor[src].started =>
          \E i \in DOMAIN ring["video"] :
            /\ ring["video"][i].sequence = cursor'[src].nextSequence - 1
            /\ ring["video"][i].sequence > joinedAt[src]
            /\ ring["video"][i].frame \in Keys
<1>1. IInv /\ [Next]_vars => [Fresh]_vars
  <2> SUFFICES ASSUME IInv, [Next]_vars, NEW s \in Sessions, <<s, "video">> \in Sources,
                      Delivers(<<s, "video">>), ~cursor[<<s, "video">>].started
               PROVE  \E i \in DOMAIN ring["video"] :
                        /\ ring["video"][i].sequence = cursor'[<<s, "video">>].nextSequence - 1
                        /\ ring["video"][i].sequence > joinedAt[<<s, "video">>]
                        /\ ring["video"][i].frame \in Keys
    OBVIOUS
  <2> DEFINE src == <<s, "video">>
  <2>1. src \in Capturing /\ Deliver(src) /\ src \in awaiting /\ src \notin awaiting'
    BY DeliveryIsOutcome DEF Delivers
  <2>2. PICK d \in Cursor : cursor' = [cursor EXCEPT ![src] = d] /\ (Gets(src, d) \/ Waits(src, d))
    BY <2>1, DeliverOutcome DEF IInv
  <2>3. cursor'[src] = d /\ Gets(src, d)
    BY <2>1, <2>2 DEF Waits, IInv, Types
  <2>4. cursor[src].requireSync /\ cursor[src].nextSequence > joinedAt[src]
    BY <2>1 DEF IInv, Gated
  <2>5. /\ cursor[src].nextSequence \in Nat /\ joinedAt[src] \in Nat
        /\ ring["video"] \in Seq(Entry(Frames))
    BY <2>1 DEF IInv, Types, Cursor, Media
  <2>6. PICK i \in DOMAIN ring["video"] :
          /\ ring["video"][i].sequence = d.nextSequence - 1
          /\ ring["video"][i].sequence >= cursor[src].nextSequence
          /\ ring["video"][i].frame \in Keys
    BY <2>3, <2>4 DEF Gets
  <2>7. ring["video"][i].sequence \in Nat
    BY <2>5, EntryFields
  <2> QED
    BY <2>3, <2>4, <2>5, <2>6, <2>7
<1> QED
  BY InitOK, StepOK, <1>1, PTL DEF Spec, StartsOnFreshKeyframe

(* A session with both tracks hears nothing before it sees something.      *)
THEOREM AudioWaitsForVideo == Spec => AudioFollowsVideo
<1> DEFINE Follows ==
      \A s \in Sessions :
        Tracks[s] = Media /\ Delivers(<<s, "audio">>) => cursor[<<s, "video">>].started
<1>1. IInv /\ [Next]_vars => [Follows]_vars
  <2> SUFFICES ASSUME IInv, [Next]_vars, NEW s \in Sessions, Tracks[s] = Media,
                      Delivers(<<s, "audio">>)
               PROVE  cursor[<<s, "video">>].started
    OBVIOUS
  <2> DEFINE src == <<s, "audio">>
  <2>1. src \in Sources
    BY SourceParts DEF Media
  <2>2. src \in Capturing /\ Deliver(src) /\ src \in awaiting /\ src \notin awaiting'
    BY <2>1, DeliveryIsOutcome DEF Delivers
  <2>3. s \in ready
    BY <2>2, DeliverOutcome DEF IInv, Gets, Waits, MayRead
  <2> QED
    BY <2>2, <2>3 DEF IInv, Seen
<1> QED
  BY InitOK, StepOK, <1>1, PTL DEF Spec, AudioFollowsVideo
=============================================================================
