-------------------------- MODULE StreamCoreProofs --------------------------
(***************************************************************************)
(* Invariants of StreamCore for every set of subscribers and frames, every *)
(* capacity and every bound, and the proof that it implements LiveFeed.    *)
(***************************************************************************)
EXTENDS StreamCore, SequenceTheorems, TLAPS

(* What one publish does to the deque.                                     *)
LEMMA PushBackProperties ==
  ASSUME NEW S, NEW s \in Seq(S), NEW e \in S, NEW c \in Nat \ {0}, Len(s) <= c
  PROVE  LET t == PushBack(s, c, e)
             d == IF IsFull(s, c) THEN 1 ELSE 0
         IN /\ t \in Seq(S)
            /\ Len(t) = Len(s) - d + 1
            /\ Len(t) <= c
            /\ \A i \in 1 .. Len(t) - 1 : t[i] = s[i + d]
            /\ t[Len(t)] = e
<1>1. Len(s) \in Nat
  OBVIOUS
<1>2. CASE IsFull(s, c)
  <2>1. Len(s) = c /\ s # << >>
    BY <1>1, <1>2, EmptySeq DEF IsFull
  <2>2. /\ Tail(s) \in Seq(S)
        /\ Len(Tail(s)) = Len(s) - 1
        /\ \A i \in 1 .. Len(Tail(s)) : Tail(s)[i] = s[i + 1]
    BY <2>1, HeadTailProperties
  <2>3. PushBack(s, c, e) = Append(Tail(s), e)
    BY <1>2 DEF PushBack
  <2> QED
    BY <1>1, <1>2, <2>1, <2>2, <2>3, AppendProperties
<1>3. CASE ~IsFull(s, c)
  <2>1. PushBack(s, c, e) = Append(s, e)
    BY <1>3 DEF PushBack
  <2> QED
    BY <1>1, <1>3, <2>1, AppendProperties DEF IsFull
<1> QED
  BY <1>2, <1>3

(* What the three updates of a cursor in read leave in it.                 *)
LEMMA NormalizedFields ==
  ASSUME NEW es, NEW c \in Cursor, NEW n \in Nat \ {0},
         Overtaken(es, c) => FrontSequence(es) \in Nat
  PROVE  /\ Normalized(es, c, n) \in Cursor
         /\ Normalized(es, c, n).nextSequence = n
         /\ Normalized(es, c, n).requireSync = c.requireSync
         /\ Normalized(es, c, n).started = c.started
         /\ Normalized(es, c, n).active = c.active
<1> DEFINE d == IF Overtaken(es, c) THEN FrontSequence(es) - c.nextSequence ELSE 0
<1>1. d \in Nat
  BY DEF Overtaken, Cursor
<1>2. c.overflowCount + d \in Nat
  BY <1>1 DEF Cursor
<1>3. Normalized(es, c, n) =
        [c EXCEPT !.nextSequence = n, !.overflowCount = c.overflowCount + d]
  BY DEF Normalized
<1> HIDE DEF d
<1> DEFINE o == c.overflowCount + d
<1>4. o \in Nat
  BY <1>2
<1> HIDE DEF o
<1>5. Normalized(es, c, n) = [c EXCEPT !.nextSequence = n, !.overflowCount = o]
  BY <1>3 DEF o
<1> QED
  BY <1>4, <1>5 DEF Cursor

LEMMA AfterDeliveryFields ==
  ASSUME NEW c \in Cursor, NEW e, e.sequence \in Nat \ {0}
  PROVE  /\ AfterDelivery(c, e) \in Cursor
         /\ AfterDelivery(c, e).nextSequence = e.sequence + 1
         /\ AfterDelivery(c, e).requireSync = c.requireSync
         /\ AfterDelivery(c, e).started = TRUE
         /\ AfterDelivery(c, e).active = c.active
<1> DEFINE q == e.sequence + 1
<1>1. q \in Nat \ {0}
  OBVIOUS
<1>2. AfterDelivery(c, e) = [c EXCEPT !.nextSequence = q, !.started = TRUE]
  BY DEF AfterDelivery
<1> HIDE DEF q
<1>3. /\ AfterDelivery(c, e) \in Cursor
      /\ AfterDelivery(c, e).nextSequence = q
      /\ AfterDelivery(c, e).requireSync = c.requireSync
      /\ AfterDelivery(c, e).started = TRUE
      /\ AfterDelivery(c, e).active = c.active
  BY <1>1, <1>2 DEF Cursor
<1> QED
  BY <1>3 DEF q

LEMMA AfterNothingFields ==
  ASSUME NEW es, NEW c \in Cursor, es # << >> => BackSequence(es) \in Nat \ {0}
  PROVE  /\ AfterNothing(es, c) \in Cursor
         /\ AfterNothing(es, c).requireSync = c.requireSync
         /\ AfterNothing(es, c).started = c.started
         /\ AfterNothing(es, c).active = c.active
  BY DEF AfterNothing, Cursor

-----------------------------------------------------------------------------
(* Every action keeps the types.                                           *)
LEMMA TypeStep == TypeOK /\ [Next]_vars => TypeOK'
<1> SUFFICES ASSUME TypeOK, [Next]_vars PROVE TypeOK'
  OBVIOUS
<1> USE CoreAssumption
<1>1. ASSUME NEW f \in Frames, Publish(f) PROVE TypeOK'
  <2> DEFINE e == [sequence |-> lastSequence + 1, frame |-> f]
  <2>1. e \in Entry(Frames)
    BY DEF TypeOK, Entry
  <2>2. entries' \in Seq(Entry(Frames)) /\ Len(entries') <= Capacity
    BY <1>1, <2>1, PushBackProperties DEF TypeOK, Publish
  <2> QED
    BY <1>1, <2>2 DEF TypeOK, Publish
<1>2. ASSUME NEW s \in Subscribers, NEW p \in StreamStartPolicy, Register(s, p)
      PROVE  TypeOK'
  BY <1>2 DEF TypeOK, Register, ringVars, NewCursor, Cursor
<1>3. ASSUME NEW s \in Subscribers, RegisterViewer(s) PROVE TypeOK'
  BY <1>3 DEF TypeOK, RegisterViewer, ringVars, ViewerCursor, Cursor
<1>4. ASSUME NEW s \in Subscribers, Unregister(s) PROVE TypeOK'
  BY <1>4 DEF TypeOK, Unregister, ringVars, Cursor
<1>5. ASSUME NEW s \in Subscribers, InvokeCallback(s) PROVE TypeOK'
  BY <1>5 DEF TypeOK, InvokeCallback, ringVars
<1>6. ASSUME NEW s \in Subscribers, Read(s) PROVE TypeOK'
  <2>1. PICK n \in 1 .. lastSequence + 2 :
          LET c == Normalized(entries, cursor[s], n)
          IN \/ \E i \in DOMAIN entries :
                  /\ cursor' = [cursor EXCEPT ![s] = AfterDelivery(c, entries[i])]
                  /\ out' = [out EXCEPT ![s] = entries[i].frame]
                  /\ UNCHANGED woken
             \/ /\ cursor' = [cursor EXCEPT ![s] = AfterNothing(entries, c)]
                /\ woken' = woken \ {s}
                /\ UNCHANGED out
    BY <1>6 DEF Read
  <2> DEFINE c == Normalized(entries, cursor[s], n)
  <2>2. /\ entries # << >>
        /\ 1 \in DOMAIN entries
        /\ Len(entries) \in DOMAIN entries
        /\ \A i \in DOMAIN entries : /\ entries[i].sequence \in Nat \ {0}
                                     /\ entries[i].frame \in Frames
    <3>1. entries # << >>
      BY <1>6 DEF Read
    <3>2. /\ Len(entries) \in Nat \ {0}
          /\ DOMAIN entries = 1 .. Len(entries)
      BY <3>1, EmptySeq DEF TypeOK
    <3>3. \A i \in DOMAIN entries : entries[i] \in Entry(Frames)
      BY <3>2, ElementOfSeq DEF TypeOK
    <3> QED
      BY <3>1, <3>2, <3>3 DEF Entry
  <2>3. c \in Cursor
    <3>1. FrontSequence(entries) \in Nat /\ n \in Nat \ {0} /\ cursor[s] \in Cursor
      BY <2>2 DEF TypeOK, FrontSequence
    <3> QED
      BY <3>1, NormalizedFields
  <2>4. \A i \in DOMAIN entries : AfterDelivery(c, entries[i]) \in Cursor
    BY <2>2, <2>3, AfterDeliveryFields
  <2>5. AfterNothing(entries, c) \in Cursor
    BY <2>2, <2>3, AfterNothingFields DEF BackSequence
  <2>6. cursor' \in [Subscribers -> Cursor] /\ out' \in [Subscribers -> Frames \cup {NoFrame}]
        /\ woken' \subseteq Subscribers
    <3> HIDE DEF c
    <3> QED
      BY <2>1, <2>2, <2>4, <2>5 DEF TypeOK, c
  <2> QED
    BY <1>6, <2>6 DEF TypeOK, Read, ringVars
<1>7. ASSUME NEW s \in Subscribers, ReadEmpty(s) PROVE TypeOK'
  BY <1>7 DEF TypeOK, ReadEmpty, ringVars
<1>8. CASE UNCHANGED vars
  BY <1>8 DEF TypeOK, vars
<1> QED
  BY <1>1, <1>2, <1>3, <1>4, <1>5, <1>6, <1>7, <1>8 DEF Next

(* The fields keep their types, whatever is published, read or registered. *)
THEOREM TypeCorrect == Spec => []TypeOK
<1>1. Init => TypeOK
  BY CoreAssumption, EmptySeq DEF Init, TypeOK, IdleCursor, Cursor
<1> QED
  BY <1>1, TypeStep, PTL DEF Spec

-----------------------------------------------------------------------------
(* The deque is the suffix of the log: only publish touches either, and    *)
(* the entry it appends has the number of the frame's place in the log.    *)
LEMMA RingStep == TypeOK /\ RingIsSuffixOfLog /\ [Next]_vars => RingIsSuffixOfLog'
<1> SUFFICES ASSUME TypeOK, RingIsSuffixOfLog, [Next]_vars PROVE RingIsSuffixOfLog'
  OBVIOUS
<1> USE CoreAssumption
<1>1. ASSUME NEW f \in Frames, Publish(f) PROVE RingIsSuffixOfLog'
  <2> DEFINE e == [sequence |-> lastSequence + 1, frame |-> f]
             d == IF IsFull(entries, Capacity) THEN 1 ELSE 0
  <2>1. e \in Entry(Frames)
    BY DEF TypeOK, Entry
  <2>2. /\ Len(entries') = Len(entries) - d + 1
        /\ \A i \in 1 .. Len(entries') - 1 : entries'[i] = entries[i + d]
        /\ entries'[Len(entries')] = e
    BY <1>1, <2>1, PushBackProperties DEF TypeOK, Publish
  <2>3. /\ lastSequence' = lastSequence + 1
        /\ producerDropCount' = producerDropCount + d
    BY <1>1 DEF Publish, TypeOK
  <2>4. /\ Len(log') = Len(log) + 1
        /\ \A i \in 1 .. Len(log) : log'[i] = log[i]
        /\ log'[Len(log) + 1] = f
    BY <1>1, AppendProperties DEF TypeOK, Publish
  <2>5. d = 1 <=> Len(entries) = Capacity
    BY DEF IsFull, TypeOK
  <2>6. Len(entries) \in Nat /\ Len(log) \in Nat /\ d \in {0, 1}
    BY DEF TypeOK
  <2> HIDE DEF d
  <2>7. lastSequence' = Len(log')
    BY <2>3, <2>4, <2>6 DEF RingIsSuffixOfLog
  <2>8. lastSequence' = producerDropCount' + Len(entries')
    BY <2>2, <2>3, <2>6 DEF RingIsSuffixOfLog, TypeOK
  <2>9. producerDropCount' > 0 => Len(entries') = Capacity
    BY <2>2, <2>3, <2>5, <2>6 DEF RingIsSuffixOfLog, TypeOK
  <2>10. ASSUME NEW i \in 1 .. Len(entries')
         PROVE  /\ entries'[i].sequence = producerDropCount' + i
                /\ entries'[i].frame = log'[producerDropCount' + i]
    <3>1. CASE i = Len(entries')
      <4>1. producerDropCount' + i = lastSequence + 1
        BY <3>1, <2>3, <2>8 DEF TypeOK
      <4> QED
        BY <3>1, <4>1, <2>2, <2>4 DEF RingIsSuffixOfLog
    <3>2. CASE i # Len(entries')
      <4>1. /\ entries'[i] = entries[i + d]
            /\ i + d \in 1 .. Len(entries)
        BY <3>2, <2>2, <2>6
      <4>2. /\ entries[i + d].sequence = producerDropCount + (i + d)
            /\ entries[i + d].frame = log[producerDropCount + (i + d)]
        BY <4>1 DEF RingIsSuffixOfLog
      <4>3. /\ producerDropCount' + i = producerDropCount + (i + d)
            /\ producerDropCount + (i + d) \in 1 .. Len(log)
        BY <4>1, <2>3, <2>6 DEF RingIsSuffixOfLog, TypeOK
      <4> QED
        BY <4>1, <4>2, <4>3, <2>4
    <3> QED
      BY <3>1, <3>2
  <2> QED
    BY <2>7, <2>8, <2>9, <2>10 DEF RingIsSuffixOfLog
<1>2. CASE UNCHANGED ringVars
  BY <1>2 DEF ringVars, RingIsSuffixOfLog
<1> QED
  BY <1>1, <1>2 DEF Next, Register, RegisterViewer, Unregister, InvokeCallback,
                    Read, ReadEmpty, vars, ringVars

(* The deque always holds the most recent frames, in order and numbered    *)
(* consecutively, and the drop counter is what is missing from the log.    *)
THEOREM RingCorrect == Spec => []RingIsSuffixOfLog
<1>1. Init => RingIsSuffixOfLog
  BY EmptySeq DEF Init, RingIsSuffixOfLog
<1> QED
  BY <1>1, TypeCorrect, RingStep, PTL DEF Spec

-----------------------------------------------------------------------------
LEMMA SuffixArithmetic ==
  ASSUME NEW last \in Nat, NEW drop \in Nat, NEW len \in Nat, NEW cap \in Nat,
         last = drop + len, len <= cap, NEW i \in 1 .. len
  PROVE  drop + i \in 1 .. last /\ drop + i > last - cap
  OBVIOUS

(* The numbers the proofs below need about the ring.                       *)
LEMMA RingNumbers ==
  ASSUME TypeOK, RingIsSuffixOfLog
  PROVE  /\ Len(entries) \in Nat
         /\ Len(log) = lastSequence
         /\ DOMAIN entries = 1 .. Len(entries)
         /\ \A i \in DOMAIN entries :
              /\ entries[i].sequence = producerDropCount + i
              /\ entries[i].sequence \in 1 .. lastSequence
              /\ entries[i].frame = log[entries[i].sequence]
              /\ entries[i].frame \in Frames
              /\ entries[i].sequence > lastSequence - Capacity
         /\ entries # << >> => /\ FrontSequence(entries) = producerDropCount + 1
                               /\ BackSequence(entries) = lastSequence
                               /\ 1 \in DOMAIN entries
                               /\ Len(entries) \in DOMAIN entries
         /\ entries = << >> => lastSequence = 0
         /\ producerDropCount > 0 => producerDropCount = lastSequence - Capacity
<1> USE CoreAssumption
<1>1. Len(entries) \in Nat /\ DOMAIN entries = 1 .. Len(entries)
  BY DEF TypeOK
<1>2. \A i \in DOMAIN entries : entries[i].frame \in Frames
  <2>1. \A i \in DOMAIN entries : entries[i] \in Entry(Frames)
    BY <1>1, ElementOfSeq DEF TypeOK
  <2> QED
    BY <2>1 DEF Entry
<1>3. entries # << >> => Len(entries) > 0
  BY EmptySeq DEF TypeOK
<1>4. entries = << >> => Len(entries) = 0
  BY EmptySeq
<1>5. /\ lastSequence \in Nat /\ producerDropCount \in Nat
      /\ Len(entries) <= Capacity
      /\ Len(log) = lastSequence
      /\ lastSequence = producerDropCount + Len(entries)
      /\ producerDropCount > 0 => Len(entries) = Capacity
  BY DEF TypeOK, RingIsSuffixOfLog
<1>6. ASSUME NEW i \in DOMAIN entries
      PROVE  /\ entries[i].sequence = producerDropCount + i
             /\ entries[i].sequence \in 1 .. lastSequence
             /\ entries[i].frame = log[entries[i].sequence]
             /\ entries[i].sequence > lastSequence - Capacity
  <2>1. i \in 1 .. Len(entries)
    BY <1>1
  <2>2. /\ entries[i].sequence = producerDropCount + i
        /\ entries[i].frame = log[producerDropCount + i]
    BY <2>1 DEF RingIsSuffixOfLog
  <2>3. Capacity \in Nat
    OBVIOUS
  <2>4. producerDropCount + i \in 1 .. lastSequence
    BY <1>1, <1>5, <2>1, <2>3, SuffixArithmetic
  <2>5. producerDropCount + i > lastSequence - Capacity
    BY <1>1, <1>5, <2>1, <2>3, SuffixArithmetic
  <2> QED
    BY <2>2, <2>4, <2>5
<1>7. entries # << >> => /\ FrontSequence(entries) = producerDropCount + 1
                         /\ BackSequence(entries) = lastSequence
                         /\ 1 \in DOMAIN entries
                         /\ Len(entries) \in DOMAIN entries
  <2>1. SUFFICES ASSUME entries # << >>
                 PROVE  /\ entries[1].sequence = producerDropCount + 1
                        /\ entries[Len(entries)].sequence = lastSequence
                        /\ 1 \in DOMAIN entries
                        /\ Len(entries) \in DOMAIN entries
    BY DEF FrontSequence, BackSequence
  <2>2. 1 \in DOMAIN entries /\ Len(entries) \in DOMAIN entries
    BY <1>1, <1>3, <2>1
  <2> QED
    BY <1>5, <1>6, <2>2
<1>8. /\ entries = << >> => lastSequence = 0
      /\ producerDropCount > 0 => producerDropCount = lastSequence - Capacity
  <2>1. entries = << >> => lastSequence = 0
    BY <1>1, <1>4, <1>5, SMTT(20)
  <2>2. producerDropCount > 0 => producerDropCount = lastSequence - Capacity
    BY <1>1, <1>5, SMTT(20)
  <2> QED
    BY <2>1, <2>2
<1> QED
  BY <1>1, <1>2, <1>5, <1>6, <1>7, <1>8

(* What a read does once its cursor has been normalized to n.              *)
ReadOutcome(s, n) ==
  LET c == Normalized(entries, cursor[s], n)
  IN \/ \E i \in DOMAIN entries :
          /\ DeliversAt(entries, c, Keyframes, i)
          /\ cursor' = [cursor EXCEPT ![s] = AfterDelivery(c, entries[i])]
          /\ out' = [out EXCEPT ![s] = entries[i].frame]
          /\ woken' = woken
     \/ /\ NothingEligible(entries, c, Keyframes)
        /\ cursor' = [cursor EXCEPT ![s] = AfterNothing(entries, c)]
        /\ woken' = woken \ {s}
        /\ out' = out

LEMMA ReadCases ==
  ASSUME TypeOK, RingIsSuffixOfLog, NEW s \in Subscribers, Read(s)
  PROVE  \E n \in 1 .. lastSequence + 2 :
           /\ ResumesAt(entries, cursor[s], Keyframes, n)
           /\ ReadOutcome(s, n)
           /\ Normalized(entries, cursor[s], n) \in Cursor
           /\ Normalized(entries, cursor[s], n).nextSequence = n
           /\ Normalized(entries, cursor[s], n).requireSync = cursor[s].requireSync
           /\ Normalized(entries, cursor[s], n).started = cursor[s].started
           /\ Normalized(entries, cursor[s], n).active = TRUE
<1>1. PICK n \in 1 .. lastSequence + 2 :
        ResumesAt(entries, cursor[s], Keyframes, n) /\ ReadOutcome(s, n)
  BY DEF Read, ReadOutcome
<1>2. FrontSequence(entries) \in Nat /\ n \in Nat \ {0} /\ cursor[s] \in Cursor
  BY RingNumbers DEF Read, TypeOK
<1>3. cursor[s].active = TRUE
  BY DEF Read, TypeOK, Cursor
<1> QED
  BY <1>1, <1>2, <1>3, NormalizedFields

(* Normalizing never moves a cursor back, nor past the newest entry.       *)
LEMMA ResumesForward ==
  ASSUME TypeOK, RingIsSuffixOfLog, NEW s \in Subscribers, entries # << >>,
         NEW n \in 1 .. lastSequence + 2, ResumesAt(entries, cursor[s], Keyframes, n)
  PROVE  /\ cursor[s].nextSequence <= n
         /\ Overtaken(entries, cursor[s]) => n <= lastSequence
<1> USE RingNumbers
<1>1. cursor[s].nextSequence \in Nat
  BY DEF TypeOK, Cursor
<1>2. CASE ~Overtaken(entries, cursor[s])
  BY <1>1, <1>2 DEF ResumesAt
<1>3. CASE Overtaken(entries, cursor[s])
  <2>1. cursor[s].nextSequence < producerDropCount + 1
    BY <1>3 DEF Overtaken
  <2>2. producerDropCount \in Nat /\ lastSequence \in Nat
    BY DEF TypeOK
  <2>3. \E i \in DOMAIN entries : n = entries[i].sequence
    BY <1>3 DEF ResumesAt, FrontSequence
  <2> QED
    BY <1>1, <2>1, <2>2, <2>3
<1> QED
  BY <1>2, <1>3

(* After a read, what became of the reader's cursor: either it had an      *)
(* entry to look at, or it is past the newest one and waits.               *)
LEMMA ReadCursor ==
  ASSUME TypeOK, RingIsSuffixOfLog, NEW s \in Subscribers, Read(s)
  PROVE  /\ cursor'[s].nextSequence <= lastSequence + 2
         /\ \A t \in Subscribers \ {s} : cursor'[t] = cursor[t]
         /\ \/ /\ woken' = woken
               /\ cursor[s].nextSequence <= lastSequence
            \/ /\ woken' = woken \ {s}
               /\ cursor'[s].nextSequence > lastSequence
<1>1. PICK n \in 1 .. lastSequence + 2 :
         /\ ResumesAt(entries, cursor[s], Keyframes, n)
         /\ ReadOutcome(s, n)
         /\ Normalized(entries, cursor[s], n) \in Cursor
         /\ Normalized(entries, cursor[s], n).nextSequence = n
  BY ReadCases
<1>2. entries # << >>
  BY DEF Read
<1> DEFINE c == Normalized(entries, cursor[s], n)
<1>3. c \in Cursor /\ c.nextSequence = n
  BY <1>1
<1>4. cursor[s].nextSequence <= n /\ cursor[s].nextSequence \in Nat
  BY <1>1, <1>2, ResumesForward DEF TypeOK, Cursor
<1>5. lastSequence \in Nat /\ s \in DOMAIN cursor
  BY DEF TypeOK
<1>6. ASSUME NEW i \in DOMAIN entries,
             DeliversAt(entries, c, Keyframes, i),
             cursor' = [cursor EXCEPT ![s] = AfterDelivery(c, entries[i])],
             woken' = woken
      PROVE  /\ cursor'[s].nextSequence <= lastSequence + 2
             /\ cursor[s].nextSequence <= lastSequence
  <2>1. /\ entries[i].sequence \in 1 .. lastSequence
        /\ entries[i].sequence \in Nat \ {0}
    BY <1>5, RingNumbers
  <2>2. AfterDelivery(c, entries[i]).nextSequence = entries[i].sequence + 1
    BY <1>3, <2>1, AfterDeliveryFields
  <2>3. entries[i].sequence >= n
    BY <1>3, <1>6 DEF DeliversAt, Eligible
  <2> QED
    BY <1>4, <1>5, <1>6, <2>1, <2>2, <2>3
<1>7. ASSUME NothingEligible(entries, c, Keyframes),
             cursor' = [cursor EXCEPT ![s] = AfterNothing(entries, c)]
      PROVE  /\ cursor'[s].nextSequence <= lastSequence + 2
             /\ cursor'[s].nextSequence > lastSequence
  <2>1. cursor'[s] = AfterNothing(entries, c)
    BY <1>5, <1>7
  <2>2. BackSequence(entries) = lastSequence
    BY <1>2, RingNumbers
  <2>3. CASE c.requireSync /\ ~c.started /\ n <= lastSequence
    <3>1. AfterNothing(entries, c).nextSequence = lastSequence + 1
      BY <1>2, <1>3, <2>2, <2>3 DEF AfterNothing, Cursor
    <3> QED
      BY <1>5, <2>1, <3>1
  <2>4. CASE ~(c.requireSync /\ ~c.started /\ n <= lastSequence)
    <3>1. AfterNothing(entries, c) = c
      BY <1>3, <2>2, <2>4 DEF AfterNothing
    <3>2. n > lastSequence
      <4>1. entries[Len(entries)].sequence = lastSequence /\ Len(entries) \in DOMAIN entries
        BY <1>2, <2>2, RingNumbers DEF BackSequence
      <4> QED
        BY <1>3, <1>5, <1>7, <2>4, <4>1 DEF NothingEligible, Eligible
    <3> QED
      BY <1>3, <1>5, <2>1, <3>1, <3>2
  <2> QED
    BY <2>3, <2>4
<1>8. \A t \in Subscribers \ {s} : cursor'[t] = cursor[t]
  BY DEF Read, TypeOK
<1> HIDE DEF c
<1> QED
  BY <1>1, <1>6, <1>7, <1>8 DEF ReadOutcome, c

-----------------------------------------------------------------------------
(* The inductive invariant of the remaining theorems.  A subscriber with   *)
(* an active cursor has a callback registered: without it the next publish *)
(* would not reach it, and NoLostWakeup would not be inductive.            *)
ActiveHasCallback == \A s \in Subscribers : cursor[s].active => s \in callbacks

IInv == /\ TypeOK
        /\ RingIsSuffixOfLog
        /\ CursorsNearEdge
        /\ ActiveHasCallback
        /\ NoLostWakeup

(* Where a registration may start.                                         *)
LEMMA StartRange ==
  ASSUME TypeOK, RingIsSuffixOfLog, NEW p \in StreamStartPolicy,
         NEW n \in 1 .. lastSequence + 1,
         StartsAt(entries, lastSequence, p, Keyframes, n)
  PROVE  n > lastSequence - Capacity
<1> USE CoreAssumption
<1>1. lastSequence \in Nat /\ Capacity \in Nat \ {0}
  BY DEF TypeOK
<1>2. \/ n = lastSequence + 1
      \/ entries # << >> /\ n = BackSequence(entries)
      \/ \E i \in DOMAIN entries : n = entries[i].sequence
  BY DEF StartsAt
<1> QED
  BY <1>1, <1>2, RingNumbers

LEMMA EdgeStep == TypeOK /\ RingIsSuffixOfLog /\ CursorsNearEdge /\ [Next]_vars
                    => CursorsNearEdge'
<1> SUFFICES ASSUME TypeOK, RingIsSuffixOfLog, CursorsNearEdge, [Next]_vars
             PROVE  CursorsNearEdge'
  OBVIOUS
<1>0. /\ lastSequence \in Nat
      /\ DOMAIN cursor = Subscribers
      /\ \A s \in Subscribers : cursor[s].nextSequence \in Nat
  BY DEF TypeOK, Cursor
<1>1. ASSUME NEW f \in Frames, Publish(f) PROVE CursorsNearEdge'
  BY <1>0, <1>1 DEF Publish, CursorsNearEdge
<1>2. ASSUME NEW s \in Subscribers, NEW p \in StreamStartPolicy, Register(s, p)
      PROVE  CursorsNearEdge'
  BY <1>0, <1>2 DEF Register, ringVars, NewCursor, CursorsNearEdge
<1>3. ASSUME NEW s \in Subscribers, RegisterViewer(s) PROVE CursorsNearEdge'
  BY <1>0, <1>3 DEF RegisterViewer, ringVars, ViewerCursor, CursorsNearEdge
<1>4. ASSUME NEW s \in Subscribers, Unregister(s) PROVE CursorsNearEdge'
  <2>1. \A t \in Subscribers : cursor'[t].nextSequence = cursor[t].nextSequence
    BY <1>4 DEF Unregister, TypeOK, Cursor
  <2> QED
    BY <1>4, <2>1 DEF Unregister, ringVars, CursorsNearEdge
<1>5. ASSUME NEW s \in Subscribers, Read(s) PROVE CursorsNearEdge'
  <2>1. lastSequence' = lastSequence
    BY <1>5 DEF Read, ringVars
  <2> QED
    BY <1>5, <2>1, ReadCursor DEF CursorsNearEdge
<1>6. ASSUME NEW s \in Subscribers, InvokeCallback(s) \/ ReadEmpty(s)
      PROVE  CursorsNearEdge'
  BY <1>6 DEF InvokeCallback, ReadEmpty, ringVars, CursorsNearEdge
<1>7. CASE UNCHANGED vars
  BY <1>7 DEF vars, CursorsNearEdge
<1> QED
  BY <1>1, <1>2, <1>3, <1>4, <1>5, <1>6, <1>7 DEF Next

LEMMA CallbackStep == TypeOK /\ ActiveHasCallback /\ RingIsSuffixOfLog /\ [Next]_vars
                        => ActiveHasCallback'
<1> SUFFICES ASSUME TypeOK, RingIsSuffixOfLog, ActiveHasCallback, [Next]_vars
             PROVE  ActiveHasCallback'
  OBVIOUS
<1>1. ASSUME NEW f \in Frames, Publish(f) PROVE ActiveHasCallback'
  BY <1>1 DEF Publish, ActiveHasCallback
<1>2. ASSUME NEW s \in Subscribers,
             (\E p \in StreamStartPolicy : Register(s, p)) \/ RegisterViewer(s)
      PROVE  ActiveHasCallback'
  BY <1>2 DEF Register, RegisterViewer, ActiveHasCallback, TypeOK
<1>3. ASSUME NEW s \in Subscribers, Unregister(s) PROVE ActiveHasCallback'
  <2>1. \A t \in Subscribers : cursor'[t].active => cursor[t].active /\ t # s
    BY <1>3 DEF Unregister, TypeOK, Cursor
  <2> QED
    BY <1>3, <2>1 DEF Unregister, ActiveHasCallback
<1>4. ASSUME NEW s \in Subscribers, Read(s) PROVE ActiveHasCallback'
  <2>1. cursor[s].active /\ callbacks' = callbacks
    BY <1>4 DEF Read
  <2> QED
    BY <1>4, <2>1, ReadCursor DEF ActiveHasCallback
<1>5. ASSUME NEW s \in Subscribers, InvokeCallback(s) \/ ReadEmpty(s)
      PROVE  ActiveHasCallback'
  BY <1>5 DEF InvokeCallback, ReadEmpty, ringVars, ActiveHasCallback
<1>6. CASE UNCHANGED vars
  BY <1>6 DEF vars, ActiveHasCallback
<1> QED
  BY <1>1, <1>2, <1>3, <1>4, <1>5, <1>6 DEF Next

(* A wakeup is owed from the moment publish copied the callbacks; only a   *)
(* read that found nothing gives it up.                                    *)
LEMMA WakeupStep == IInv /\ [Next]_vars => NoLostWakeup'
<1> SUFFICES ASSUME IInv, [Next]_vars PROVE NoLostWakeup'
  OBVIOUS
<1> USE DEF IInv
<1>0. /\ lastSequence \in Nat
      /\ DOMAIN cursor = Subscribers
      /\ \A s \in Subscribers : cursor[s].nextSequence \in Nat \ {0}
  BY DEF TypeOK, Cursor
<1>1. ASSUME NEW f \in Frames, Publish(f) PROVE NoLostWakeup'
  BY <1>1 DEF Publish, ActiveHasCallback, NoLostWakeup
<1>2. ASSUME NEW s \in Subscribers,
             (\E p \in StreamStartPolicy : Register(s, p)) \/ RegisterViewer(s)
      PROVE  NoLostWakeup'
  BY <1>0, <1>2 DEF Register, RegisterViewer, ringVars, NoLostWakeup
<1>3. ASSUME NEW s \in Subscribers, Unregister(s) PROVE NoLostWakeup'
  <2>1. \A t \in Subscribers : cursor'[t].active => cursor'[t] = cursor[t]
    BY <1>3 DEF Unregister, TypeOK, Cursor
  <2> QED
    BY <1>3, <2>1 DEF Unregister, ringVars, NoLostWakeup
<1>4. ASSUME NEW s \in Subscribers, InvokeCallback(s) PROVE NoLostWakeup'
  BY <1>4 DEF InvokeCallback, ringVars, NoLostWakeup
<1>5. ASSUME NEW s \in Subscribers, Read(s) PROVE NoLostWakeup'
  <2>1. /\ lastSequence' = lastSequence
        /\ calling' = calling
        /\ cursor[s].active
    BY <1>5 DEF Read, ringVars
  <2>2. cursor'[s].nextSequence \in Nat
    BY <1>5, TypeStep DEF Next, TypeOK, Cursor
  <2>3. CASE woken' = woken /\ cursor[s].nextSequence <= lastSequence
    BY <1>5, <2>1, <2>3, ReadCursor DEF NoLostWakeup
  <2>4. CASE woken' = woken \ {s} /\ cursor'[s].nextSequence > lastSequence
    BY <1>0, <1>5, <2>1, <2>2, <2>4, ReadCursor DEF NoLostWakeup
  <2> QED
    BY <1>5, <2>3, <2>4, ReadCursor
<1>6. ASSUME NEW s \in Subscribers, ReadEmpty(s) PROVE NoLostWakeup'
  <2>1. lastSequence = 0
    BY <1>6, RingNumbers DEF ReadEmpty
  <2> QED
    BY <1>0, <1>6, <2>1 DEF ReadEmpty, ringVars, NoLostWakeup
<1>7. CASE UNCHANGED vars
  BY <1>7 DEF vars, NoLostWakeup
<1> QED
  BY <1>1, <1>2, <1>3, <1>4, <1>5, <1>6, <1>7 DEF Next

LEMMA InitIInv == Init => IInv
<1> SUFFICES ASSUME Init PROVE IInv
  OBVIOUS
<1>1. TypeOK
  BY CoreAssumption, EmptySeq DEF Init, TypeOK, IdleCursor, Cursor
<1>2. RingIsSuffixOfLog
  BY EmptySeq DEF Init, RingIsSuffixOfLog
<1>3. CursorsNearEdge /\ ActiveHasCallback /\ NoLostWakeup
  BY DEF Init, IdleCursor, CursorsNearEdge, ActiveHasCallback, NoLostWakeup
<1> QED
  BY <1>1, <1>2, <1>3 DEF IInv

LEMMA StepIInv == IInv /\ [Next]_vars => IInv'
BY TypeStep, RingStep, EdgeStep, CallbackStep, WakeupStep DEF IInv

(* The inductive invariant: types, the ring, the cursors' range, callbacks *)
(* of active cursors, and with them the wakeups.                           *)
THEOREM Inductive == Spec => []IInv
BY InitIInv, StepIInv, PTL DEF Spec

(* No cursor is ever more than one frame beyond the next one to come.      *)
THEOREM EdgeCorrect == Spec => []CursorsNearEdge
BY Inductive, PTL DEF IInv

(* No subscriber with an unread frame waits without a callback that ran or *)
(* is about to run, although publish calls them after it left the lock.    *)
THEOREM WakeupCorrect == Spec => []NoLostWakeup
BY Inductive, PTL DEF IInv

-----------------------------------------------------------------------------
(* The refinement.  Every step of the ring is a step of the ideal feed or  *)
(* changes nothing the feed shows.                                         *)

LEMMA InitFeed == Init => Abstract!Init
BY DEF Init, IdleCursor, Abstract!Init

(* The feed's view of one changed cursor.                                  *)
LEMMA FeedUpdate ==
  ASSUME TypeOK, NEW s \in Subscribers, NEW c, cursor' = [cursor EXCEPT ![s] = c]
  PROVE  /\ {t \in Subscribers : cursor'[t].active} =
              IF c.active THEN {t \in Subscribers : cursor[t].active} \cup {s}
                          ELSE {t \in Subscribers : cursor[t].active} \ {s}
         /\ [t \in Subscribers |-> cursor'[t].nextSequence] =
              [[t \in Subscribers |-> cursor[t].nextSequence] EXCEPT ![s] = c.nextSequence]
         /\ {t \in Subscribers : cursor'[t].requireSync} =
              IF c.requireSync THEN {t \in Subscribers : cursor[t].requireSync} \cup {s}
                               ELSE {t \in Subscribers : cursor[t].requireSync} \ {s}
         /\ {t \in Subscribers : cursor'[t].started} =
              IF c.started THEN {t \in Subscribers : cursor[t].started} \cup {s}
                           ELSE {t \in Subscribers : cursor[t].started} \ {s}
         /\ c.nextSequence = cursor[s].nextSequence =>
              [t \in Subscribers |-> cursor'[t].nextSequence] =
                [t \in Subscribers |-> cursor[t].nextSequence]
BY DEF TypeOK

(* The same for a delivery, which changes the position and whether the     *)
(* subscriber started.                                                     *)
LEMMA DeliveryUpdate ==
  ASSUME TypeOK, NEW s \in Subscribers, NEW d, cursor' = [cursor EXCEPT ![s] = d],
         NEW next, d.nextSequence = next, d.active, d.started,
         cursor[s].active, d.requireSync = cursor[s].requireSync
  PROVE  /\ {t \in Subscribers : cursor'[t].active} = {t \in Subscribers : cursor[t].active}
         /\ [t \in Subscribers |-> cursor'[t].nextSequence] =
              [[t \in Subscribers |-> cursor[t].nextSequence] EXCEPT ![s] = next]
         /\ {t \in Subscribers : cursor'[t].requireSync} =
              {t \in Subscribers : cursor[t].requireSync}
         /\ {t \in Subscribers : cursor'[t].started} =
              {t \in Subscribers : cursor[t].started} \cup {s}
<1>1. DOMAIN cursor = Subscribers
  BY DEF TypeOK
<1>2. cursor'[s] = d /\ \A t \in Subscribers \ {s} : cursor'[t] = cursor[t]
  BY <1>1
<1>3. {t \in Subscribers : cursor'[t].active} = {t \in Subscribers : cursor[t].active}
  BY <1>2
<1>4. [t \in Subscribers |-> cursor'[t].nextSequence] =
        [[t \in Subscribers |-> cursor[t].nextSequence] EXCEPT ![s] = next]
  <2> DEFINE f == [t \in Subscribers |-> cursor[t].nextSequence]
  <2>1. \A t \in Subscribers : cursor'[t].nextSequence = IF t = s THEN next ELSE f[t]
    BY <1>2
  <2>2. [f EXCEPT ![s] = next] = [t \in Subscribers |-> IF t = s THEN next ELSE f[t]]
    OBVIOUS
  <2> QED
    BY <2>1, <2>2
<1>5. {t \in Subscribers : cursor'[t].requireSync} =
        {t \in Subscribers : cursor[t].requireSync}
  BY <1>2
<1>6. {t \in Subscribers : cursor'[t].started} =
        {t \in Subscribers : cursor[t].started} \cup {s}
  BY <1>2
<1> QED
  BY <1>3, <1>4, <1>5, <1>6

LEMMA PublishRefines ==
  ASSUME NEW f \in Frames, Publish(f)
  PROVE  Abstract!Publish
BY DEF Publish, Abstract!Publish

LEMMA JoinRefines ==
  ASSUME IInv, NEW s \in Subscribers, ~cursor[s].active, UNCHANGED <<log, out>>,
         NEW c, cursor' = [cursor EXCEPT ![s] = c],
         c.active, ~c.started,
         c.nextSequence \in 1 .. lastSequence + 2,
         c.nextSequence > lastSequence - Capacity
  PROVE  Abstract!Join(s)
<1>1. Len(log) = lastSequence /\ lastSequence \in Nat /\ Capacity \in Nat
  BY CoreAssumption DEF IInv, TypeOK, RingIsSuffixOfLog
<1>2. /\ c.nextSequence \in 1 .. Len(log) + 2
      /\ ~(c.nextSequence <= Len(log) - Capacity)
  BY <1>1
<1>3. TypeOK
  BY DEF IInv
<1>4. s \notin {t \in Subscribers : cursor[t].active}
  OBVIOUS
<1> QED
  BY <1>2, <1>3, <1>4, FeedUpdate DEF Abstract!Join, Abstract!Gone

LEMMA RegisterRefines ==
  ASSUME IInv, NEW s \in Subscribers,
         (\E p \in StreamStartPolicy : Register(s, p)) \/ RegisterViewer(s)
  PROVE  Abstract!Join(s)
<1>1. lastSequence \in Nat /\ Capacity \in Nat
  BY CoreAssumption DEF IInv, TypeOK
<1>2. ASSUME NEW p \in StreamStartPolicy, Register(s, p)
      PROVE  Abstract!Join(s)
  <2>1. PICK n \in 1 .. lastSequence + 1 :
          /\ StartsAt(entries, lastSequence, p, Keyframes, n)
          /\ cursor' = [cursor EXCEPT ![s] = NewCursor(p, n)]
    BY <1>2 DEF Register
  <2>2. n > lastSequence - Capacity
    BY <2>1, StartRange DEF IInv
  <2>3. n \in 1 .. lastSequence + 2
    BY <1>1
  <2>4. /\ NewCursor(p, n).active
        /\ ~NewCursor(p, n).started
        /\ NewCursor(p, n).nextSequence = n
    BY DEF NewCursor
  <2>5. ~cursor[s].active /\ UNCHANGED <<log, out>>
    BY <1>2 DEF Register, ringVars
  <2> QED
    BY <2>1, <2>2, <2>3, <2>4, <2>5, JoinRefines
<1>3. ASSUME RegisterViewer(s)
      PROVE  Abstract!Join(s)
  <2>1. PICK n \in 1 .. lastSequence + 1 :
          /\ StartsAt(entries, lastSequence, LiveEdge, Keyframes, n)
          /\ cursor' = [cursor EXCEPT ![s] = ViewerCursor(n)]
    BY <1>3 DEF RegisterViewer
  <2>2. n > lastSequence - Capacity
    BY <2>1, StartRange DEF IInv, StreamStartPolicy
  <2>3. n + 1 > lastSequence - Capacity /\ n + 1 \in 1 .. lastSequence + 2
    BY <1>1, <2>2
  <2>4. /\ ViewerCursor(n).active
        /\ ~ViewerCursor(n).started
        /\ ViewerCursor(n).nextSequence = n + 1
    BY DEF ViewerCursor
  <2>5. ~cursor[s].active /\ UNCHANGED <<log, out>>
    BY <1>3 DEF RegisterViewer, ringVars
  <2> QED
    BY <2>1, <2>3, <2>4, <2>5, JoinRefines
<1> QED
  BY <1>2, <1>3

LEMMA UnregisterRefines ==
  ASSUME IInv, NEW s \in Subscribers, Unregister(s)
  PROVE  Abstract!Leave(s)
<1> DEFINE c == [cursor[s] EXCEPT !.active = FALSE]
<1>1. cursor' = [cursor EXCEPT ![s] = c]
  BY DEF Unregister, IInv, TypeOK
<1>2. cursor[s] \in Cursor
  BY DEF IInv, TypeOK
<1>3. /\ ~c.active
      /\ c.nextSequence = cursor[s].nextSequence
      /\ c.requireSync = cursor[s].requireSync
      /\ c.started = cursor[s].started
  BY <1>2 DEF Cursor
<1> HIDE DEF c
<1>4. cursor[s].active /\ UNCHANGED <<log, out>> /\ TypeOK
  BY DEF Unregister, ringVars, IInv
<1>5. {t \in Subscribers : cursor'[t].active} =
        {t \in Subscribers : cursor[t].active} \ {s}
  BY <1>1, <1>3, <1>4, FeedUpdate
<1>6. /\ [t \in Subscribers |-> cursor'[t].nextSequence] =
           [t \in Subscribers |-> cursor[t].nextSequence]
      /\ {t \in Subscribers : cursor'[t].requireSync} =
           {t \in Subscribers : cursor[t].requireSync}
      /\ {t \in Subscribers : cursor'[t].started} =
           {t \in Subscribers : cursor[t].started}
  BY <1>1, <1>3, <1>4, FeedUpdate
<1> QED
  BY <1>4, <1>5, <1>6 DEF Abstract!Leave

(* A frame that left the ring is gone for the feed too.                    *)
LEMMA DroppedIsGone ==
  ASSUME TypeOK, RingIsSuffixOfLog, NEW j \in Nat \ {0}, j <= producerDropCount
  PROVE  Abstract!Gone(j)
<1>1. /\ producerDropCount \in Nat /\ lastSequence \in Nat /\ Capacity \in Nat
      /\ Len(log) = lastSequence
      /\ producerDropCount > 0 => producerDropCount = lastSequence - Capacity
  BY CoreAssumption, RingNumbers DEF TypeOK
<1> QED
  BY <1>1 DEF Abstract!Gone

(* The entry that holds frame j, if the ring still does.                   *)
LEMMA EntryOf ==
  ASSUME TypeOK, RingIsSuffixOfLog, NEW j \in 1 .. lastSequence, j > producerDropCount
  PROVE  /\ j - producerDropCount \in DOMAIN entries
         /\ entries[j - producerDropCount].sequence = j
         /\ entries[j - producerDropCount].frame = log[j]
<1>1. /\ producerDropCount \in Nat /\ lastSequence \in Nat /\ Len(entries) \in Nat
      /\ lastSequence = producerDropCount + Len(entries)
      /\ DOMAIN entries = 1 .. Len(entries)
  BY RingNumbers DEF TypeOK, RingIsSuffixOfLog
<1>2. j - producerDropCount \in DOMAIN entries
  BY <1>1
<1>3. producerDropCount + (j - producerDropCount) = j
  BY <1>1
<1> QED
  BY <1>2, <1>3, RingNumbers

(* What normalizing a cursor to n leaves behind, the feed may miss.        *)
LEMMA NormalizingMisses ==
  ASSUME TypeOK, RingIsSuffixOfLog, NEW s \in Subscribers, entries # << >>,
         NEW n \in 1 .. lastSequence + 2, ResumesAt(entries, cursor[s], Keyframes, n),
         NEW j \in 1 .. lastSequence, cursor[s].nextSequence <= j, j < n
  PROVE  Abstract!MayMiss(s, j)
<1>0. /\ producerDropCount \in Nat /\ lastSequence \in Nat
      /\ cursor[s].nextSequence \in Nat \ {0}
      /\ FrontSequence(entries) = producerDropCount + 1
  BY RingNumbers DEF TypeOK, Cursor
<1>1. CASE j <= producerDropCount
  BY <1>1, DroppedIsGone DEF Abstract!MayMiss
<1>2. CASE j > producerDropCount
  <2>1. Overtaken(entries, cursor[s])
    BY <1>0 DEF ResumesAt
  <2>2. Abstract!Gone(cursor[s].nextSequence)
    BY <1>0, <2>1, DroppedIsGone DEF Overtaken
  <2>3. n # FrontSequence(entries)
    BY <1>0, <1>2
  <2>4. PICK i \in DOMAIN entries :
          /\ cursor[s].requireSync
          /\ \A m \in 1 .. i - 1 : entries[m].frame \notin Keyframes
          /\ n = entries[i].sequence
    BY <2>1, <2>3 DEF ResumesAt
  <2>5. n = producerDropCount + i /\ i \in Nat
    BY <2>4, RingNumbers
  <2>6. j - producerDropCount \in 1 .. i - 1
    BY <1>0, <1>2, <2>5
  <2>7. log[j] \notin Keyframes
    BY <1>2, <2>4, <2>6, EntryOf
  <2> QED
    BY <2>2, <2>4, <2>7 DEF Abstract!MayMiss
<1> QED
  BY <1>0, <1>1, <1>2

(* What a read does not find eligible, the feed may miss.                  *)
LEMMA IneligibleMisses ==
  ASSUME TypeOK, RingIsSuffixOfLog, NEW s \in Subscribers,
         NEW c, c.nextSequence \in Nat,
         c.requireSync = cursor[s].requireSync, c.started = cursor[s].started,
         NEW j \in 1 .. lastSequence, c.nextSequence <= j, j > producerDropCount,
         ~Eligible(c, Keyframes, entries[j - producerDropCount])
  PROVE  Abstract!MayMiss(s, j)
<1>1. log[j] \notin Keyframes /\ cursor[s].requireSync /\ ~cursor[s].started
  BY EntryOf DEF Eligible
<1> QED
  BY <1>1 DEF Abstract!MayMiss

LEMMA ReadRefines ==
  ASSUME IInv, NEW s \in Subscribers, Read(s)
  PROVE  Abstract!Receive(s) \/ Abstract!Miss(s) \/ UNCHANGED Abstract!vars
<1>1. PICK n \in 1 .. lastSequence + 2 :
         /\ ResumesAt(entries, cursor[s], Keyframes, n)
         /\ ReadOutcome(s, n)
         /\ Normalized(entries, cursor[s], n) \in Cursor
         /\ Normalized(entries, cursor[s], n).nextSequence = n
         /\ Normalized(entries, cursor[s], n).requireSync = cursor[s].requireSync
         /\ Normalized(entries, cursor[s], n).started = cursor[s].started
         /\ Normalized(entries, cursor[s], n).active = TRUE
  BY ReadCases DEF IInv
<1> DEFINE c == Normalized(entries, cursor[s], n)
<1>2. /\ c \in Cursor
      /\ c.nextSequence = n
      /\ c.requireSync = cursor[s].requireSync
      /\ c.started = cursor[s].started
      /\ c.active
      /\ cursor[s].active
  BY <1>1 DEF Read
<1>3. \/ \E i \in DOMAIN entries :
            /\ DeliversAt(entries, c, Keyframes, i)
            /\ cursor' = [cursor EXCEPT ![s] = AfterDelivery(c, entries[i])]
            /\ out' = [out EXCEPT ![s] = entries[i].frame]
      \/ /\ NothingEligible(entries, c, Keyframes)
         /\ cursor' = [cursor EXCEPT ![s] = AfterNothing(entries, c)]
         /\ out' = out
  BY <1>1 DEF ReadOutcome
<1> HIDE DEF c
<1>4. /\ TypeOK /\ RingIsSuffixOfLog /\ entries # << >> /\ log' = log
      /\ lastSequence \in Nat /\ producerDropCount \in Nat
      /\ cursor[s].nextSequence \in Nat \ {0}
      /\ Len(log) = lastSequence
      /\ DOMAIN cursor = Subscribers
  BY DEF IInv, Read, ringVars, TypeOK, Cursor, RingIsSuffixOfLog
<1>5. /\ cursor[s].nextSequence <= n
      /\ Overtaken(entries, cursor[s]) => n <= lastSequence
  BY <1>1, <1>4, ResumesForward
<1> DEFINE on == {t \in Subscribers : cursor[t].active}
           pos == [t \in Subscribers |-> cursor[t].nextSequence]
           gated == {t \in Subscribers : cursor[t].requireSync}
           started == {t \in Subscribers : cursor[t].started}
<1>6. on \cup {s} = on /\ pos[s] = cursor[s].nextSequence
  BY <1>2
<1>7. ASSUME NEW i \in DOMAIN entries,
             DeliversAt(entries, c, Keyframes, i),
             cursor' = [cursor EXCEPT ![s] = AfterDelivery(c, entries[i])],
             out' = [out EXCEPT ![s] = entries[i].frame]
      PROVE  Abstract!Receive(s)
  <2> DEFINE k == entries[i].sequence
  <2>1. /\ k = producerDropCount + i
        /\ k \in 1 .. lastSequence
        /\ entries[i].frame = log[k]
        /\ k > lastSequence - Capacity
        /\ i \in Nat
    BY <1>4, RingNumbers
  <2>2. /\ k >= n
        /\ cursor[s].requireSync /\ ~cursor[s].started => log[k] \in Keyframes
    BY <1>2, <1>7, <2>1 DEF DeliversAt, Eligible
  <2>3. k \in cursor[s].nextSequence .. Len(log)
    BY <1>1, <1>4, <1>5, <2>1, <2>2
  <2>4. ~Abstract!Gone(k)
    BY <1>4, <2>1, CoreAssumption DEF Abstract!Gone
  <2>5. ASSUME NEW j \in cursor[s].nextSequence .. k - 1
        PROVE  Abstract!MayMiss(s, j)
    <3>1. j \in 1 .. lastSequence /\ cursor[s].nextSequence <= j /\ j \in Nat \ {0}
      BY <1>4, <2>1
    <3>2. CASE j < n
      BY <1>1, <1>4, <3>1, <3>2, NormalizingMisses
    <3>3. CASE j >= n /\ j <= producerDropCount
      BY <1>4, <3>1, <3>3, DroppedIsGone DEF Abstract!MayMiss
    <3>4. CASE j >= n /\ j > producerDropCount
      <4>1. j - producerDropCount \in 1 .. i - 1
        BY <1>4, <2>1, <3>1, <3>4
      <4>2. ~Eligible(c, Keyframes, entries[j - producerDropCount])
        BY <1>7, <4>1 DEF DeliversAt
      <4> QED
        BY <1>2, <1>4, <3>1, <3>4, <4>2, IneligibleMisses
    <3> QED
      BY <1>4, <3>1, <3>2, <3>3, <3>4
  <2>6. /\ AfterDelivery(c, entries[i]).nextSequence = k + 1
        /\ AfterDelivery(c, entries[i]).requireSync = cursor[s].requireSync
        /\ AfterDelivery(c, entries[i]).started
        /\ AfterDelivery(c, entries[i]).active
    <3>1. entries[i].sequence \in Nat \ {0}
      BY <1>4, <2>1
    <3> QED
      BY <1>2, <3>1, AfterDeliveryFields
  <2> DEFINE d == AfterDelivery(c, entries[i])
  <2> HIDE DEF d
  <2>7. /\ cursor' = [cursor EXCEPT ![s] = d]
        /\ d.active /\ d.started /\ d.requireSync = cursor[s].requireSync
        /\ d.nextSequence = k + 1
    BY <1>7, <2>6 DEF d
  <2>8. /\ {t \in Subscribers : cursor'[t].active} = on
        /\ [t \in Subscribers |-> cursor'[t].nextSequence] = [pos EXCEPT ![s] = k + 1]
        /\ {t \in Subscribers : cursor'[t].requireSync} = gated
        /\ {t \in Subscribers : cursor'[t].started} = started \cup {s}
    BY <1>2, <1>4, <2>7, DeliveryUpdate
  <2>9. s \in gated \ started => log[k] \in Keyframes
    BY <2>2
  <2>10. out' = [out EXCEPT ![s] = log[k]]
    BY <1>7, <2>1
  <2>11. Abstract!MissesOnly(s, k)
    BY <1>6, <2>5 DEF Abstract!MissesOnly
  <2>12. s \in on
    BY <1>2
  <2>13. k \in pos[s] .. Len(log)
    BY <1>6, <2>3
  <2> HIDE DEF k
  <2> QED
    BY <1>4, <2>4, <2>8, <2>9, <2>10, <2>11, <2>12, <2>13 DEF Abstract!Receive
<1>8. ASSUME NothingEligible(entries, c, Keyframes),
             cursor' = [cursor EXCEPT ![s] = AfterNothing(entries, c)],
             out' = out
      PROVE  Abstract!Miss(s) \/ UNCHANGED Abstract!vars
  <2>1. BackSequence(entries) = lastSequence
    BY <1>4, RingNumbers
  <2> DEFINE d == AfterNothing(entries, c)
             skips == cursor[s].requireSync /\ ~cursor[s].started /\ n <= lastSequence
  <2>2. /\ d.requireSync = cursor[s].requireSync
        /\ d.started = cursor[s].started
        /\ d.active
    <3>1. entries # << >> => BackSequence(entries) \in Nat \ {0}
      BY <1>4, <2>1, RingNumbers DEF BackSequence
    <3> QED
      BY <1>2, <3>1, AfterNothingFields
  <2>3. d.nextSequence = IF skips THEN lastSequence + 1 ELSE n
    BY <1>2, <1>4, <2>1 DEF AfterNothing, Cursor
  <2> HIDE DEF d
  <2> DEFINE q == IF skips THEN lastSequence + 1 ELSE n
  <2>4. /\ {t \in Subscribers : cursor'[t].active} = on
        /\ [t \in Subscribers |-> cursor'[t].nextSequence] = [pos EXCEPT ![s] = q]
        /\ {t \in Subscribers : cursor'[t].requireSync} = gated
        /\ {t \in Subscribers : cursor'[t].started} = started
    <3>1. cursor' = [cursor EXCEPT ![s] = d]
      BY <1>8 DEF d
    <3>2. d.nextSequence = q
      BY <2>3
    <3> HIDE DEF q
    <3> QED
      BY <1>2, <1>4, <1>6, <2>2, <3>1, <3>2, FeedUpdate
  <2>5. q \in Nat /\ cursor[s].nextSequence <= q
    BY <1>4, <1>5
  <2>6. CASE q = cursor[s].nextSequence
    <3>1. [pos EXCEPT ![s] = q] = pos
      BY <1>4, <2>6
    <3> HIDE DEF q
    <3> QED
      BY <1>4, <1>8, <2>4, <3>1 DEF Abstract!vars
  <2>7. CASE q # cursor[s].nextSequence
    <3>1. q \in cursor[s].nextSequence + 1 .. Len(log) + 1
      <4>1. skips \/ Overtaken(entries, cursor[s])
        BY <1>1, <2>7 DEF ResumesAt
      <4> QED
        BY <1>4, <1>5, <2>5, <2>7, <4>1
    <3>2. ASSUME NEW j \in cursor[s].nextSequence .. q - 1, j \in 1 .. Len(log)
          PROVE  Abstract!MayMiss(s, j)
      <4>1. j \in 1 .. lastSequence /\ cursor[s].nextSequence <= j /\ j \in Nat \ {0}
        BY <1>4, <2>5, <3>2
      <4>2. CASE j < n
        BY <1>1, <1>4, <4>1, <4>2, NormalizingMisses
      <4>3. CASE j >= n /\ j <= producerDropCount
        BY <1>4, <4>1, <4>3, DroppedIsGone DEF Abstract!MayMiss
      <4>4. CASE j >= n /\ j > producerDropCount
        <5>1. ~Eligible(c, Keyframes, entries[j - producerDropCount])
          BY <1>4, <1>8, <4>1, <4>4, EntryOf DEF NothingEligible
        <5> QED
          BY <1>2, <1>4, <4>1, <4>4, <5>1, IneligibleMisses
      <4> QED
        BY <1>4, <4>1, <4>2, <4>3, <4>4
    <3> HIDE DEF q
    <3>3. Abstract!MissesOnly(s, q)
      BY <1>6, <3>2 DEF Abstract!MissesOnly
    <3>4. s \in on /\ q \in pos[s] + 1 .. Len(log) + 1
      BY <1>2, <1>6, <3>1
    <3> QED
      BY <1>4, <1>8, <2>4, <3>3, <3>4 DEF Abstract!Miss
  <2> QED
    BY <2>6, <2>7
<1> QED
  BY <1>3, <1>7, <1>8

LEMMA NextRefines == IInv /\ [Next]_vars => [Abstract!Next]_Abstract!vars
<1> SUFFICES ASSUME IInv, [Next]_vars
             PROVE  Abstract!Next \/ UNCHANGED Abstract!vars
  OBVIOUS
<1>1. ASSUME NEW f \in Frames, Publish(f) PROVE Abstract!Next
  BY <1>1, PublishRefines DEF Abstract!Next
<1>2. ASSUME NEW s \in Subscribers,
             (\E p \in StreamStartPolicy : Register(s, p)) \/ RegisterViewer(s)
      PROVE  Abstract!Next
  BY <1>2, RegisterRefines DEF Abstract!Next
<1>3. ASSUME NEW s \in Subscribers, Unregister(s) PROVE Abstract!Next
  BY <1>3, UnregisterRefines DEF Abstract!Next
<1>4. ASSUME NEW s \in Subscribers, Read(s)
      PROVE  Abstract!Next \/ UNCHANGED Abstract!vars
  BY <1>4, ReadRefines DEF Abstract!Next
<1>5. ASSUME NEW s \in Subscribers, InvokeCallback(s) \/ ReadEmpty(s)
      PROVE  UNCHANGED Abstract!vars
  BY <1>5 DEF InvokeCallback, ReadEmpty, ringVars, Abstract!vars
<1>6. CASE UNCHANGED vars
  BY <1>6 DEF vars, Abstract!vars
<1> QED
  BY <1>1, <1>2, <1>3, <1>4, <1>5, <1>6 DEF Next

(* The bounded ring delivers as the ideal feed does: in order, without     *)
(* duplicates, a sync frame first where one is required, and losing only   *)
(* what the ring had to give up.                                           *)
THEOREM Refinement == Spec => ImplementsLiveFeed
BY InitFeed, Inductive, NextRefines, PTL
DEF Spec, ImplementsLiveFeed, Abstract!Spec
=============================================================================
