---------------------- MODULE PresentationClockProofs ----------------------
(***************************************************************************)
(* Proofs about PresentationClock: for any number of viewers, any frame    *)
(* rate and any behaviour of the hardware clock, which may also stand      *)
(* still or run back, what a viewer is told starts one frame after zero,   *)
(* never runs back and never leaps.                                        *)
(***************************************************************************)
EXTENDS PresentationClock, SequenceTheorems, TLAPS

-----------------------------------------------------------------------------
(* Lemmas about the operators.                                             *)

(* Whatever the hardware stamped, the worker's time is at least one frame. *)
LEMMA StampIsTime ==
  ASSUME NEW r \in Nat, lastRaw \in Nat, lastTimestamp \in Time \cup {0}
  PROVE  Stamp(r) \in Time
BY ClockAssumption DEF Stamp, SameFrame, StepOf, Time

(* Queueing a unit leaves a queue of units.                                *)
LEMMA QueuedUnits ==
  ASSUME NEW q \in Seq(Time), NEW u \in Time
  PROVE  Queued(q, u) \in Seq(Time)
<1>1. CASE Len(q) >= QueueSize
  <2>1. q # << >>
    BY <1>1, ClockAssumption, EmptySeq
  <2>2. Tail(q) \in Seq(Time)
    BY <2>1, HeadTailProperties
  <2>3. Queued(q, u) = Append(Tail(q), u)
    BY <1>1 DEF Queued
  <2> QED
    BY <2>2, <2>3, AppendProperties
<1>2. CASE ~(Len(q) >= QueueSize)
  BY <1>2, AppendProperties DEF Queued
<1> QED
  BY <1>1, <1>2

(* A source keeps its presentation time no further behind zero than its    *)
(* source time is behind the anchor.                                       *)
Keeps(a, s, p) == /\ a \in Nat /\ p \in Nat
                  /\ s = 0 => a = 0 /\ p = 0
                  /\ s # 0 => p > 0 /\ p >= s - a

(* One normalizePresentationTimeUs: the invariant is kept, and the time    *)
(* moves on by at most the duration.                                       *)
LEMMA NormalizeStep ==
  ASSUME NEW v \in Viewers, NEW source \in Time, lastSource[v] \in Time \cup {0},
         Keeps(anchor[v], lastSource[v], lastPresentation[v])
  PROVE  /\ Keeps(AnchorFor(v, source), source, Presentation(v, source))
         /\ ~Repeats(v, source) /\ lastSource[v] # 0 =>
              /\ Presentation(v, source) > lastPresentation[v]
              /\ Presentation(v, source) - lastPresentation[v] <= Duration(v, source)
         /\ lastSource[v] = 0 => Presentation(v, source) = Expected
<1>1. Duration(v, source) \in Nat /\ Duration(v, source) > 0
  BY ClockAssumption DEF Duration, Time
<1>2. CASE lastSource[v] = 0
  BY <1>2, ClockAssumption
     DEF Keeps, AnchorFor, Presentation, Shifted, Duration, Repeats, Time
<1>3. CASE lastSource[v] # 0 /\ source > lastSource[v]
  BY <1>3, ClockAssumption
     DEF Keeps, AnchorFor, Presentation, Shifted, Duration, Repeats, Time
<1>4. CASE lastSource[v] # 0 /\ ~(source > lastSource[v])
  BY <1>4, ClockAssumption
     DEF Keeps, AnchorFor, Presentation, Shifted, Duration, Repeats, Time
<1> QED
  BY <1>2, <1>3, <1>4

-----------------------------------------------------------------------------
(* Type correctness.                                                       *)

(* A pack keeps the worker's clock and the queues in their types.          *)
LEMMA PackTypes ==
  ASSUME TypeOK, NEW r \in Nat, NEW published \in BOOLEAN, Pack(r, published)
  PROVE  /\ lastRaw' \in Nat
         /\ lastTimestamp' \in Time \cup {0}
         /\ queue' \in [Viewers -> Seq(Time)]
<1>1. Stamp(r) \in Time
  BY StampIsTime DEF TypeOK
<1>3. \A v \in Viewers : Queued(queue[v], Stamp(r)) \in Seq(Time)
  BY <1>1, QueuedUnits DEF TypeOK
<1> DEFINE u == Stamp(r)
<1>4. queue' \in [Viewers -> Seq(Time)]
  <2>1. CASE published /\ publishing
    <3>1. queue' = [v \in Viewers |-> IF v \in on THEN Queued(queue[v], u) ELSE queue[v]]
      BY <2>1 DEF Pack
    <3> QED
      BY <1>3, <3>1 DEF TypeOK
  <2>2. CASE ~(published /\ publishing)
    BY <2>2 DEF Pack, TypeOK
  <2> QED
    BY <2>1, <2>2
<1> QED
  BY <1>1, <1>4 DEF Pack, TypeOK

(* What a viewer reads next has a time.                                    *)
LEMMA HeadUnit ==
  ASSUME TypeOK, NEW v \in Viewers, queue[v] # << >>
  PROVE  /\ Head(queue[v]) \in Time
         /\ Head(queue[v]) \in Nat
         /\ Tail(queue[v]) \in Seq(Time)
<1>1. queue[v] \in Seq(Time)
  BY DEF TypeOK
<1>2. Head(queue[v]) \in Time /\ Tail(queue[v]) \in Seq(Time)
  BY <1>1, HeadTailProperties
<1> QED
  BY <1>2 DEF Time

(* The invariant about every source that makes the others inductive.       *)
SourcesKeep ==
  \A v \in Viewers : Keeps(anchor[v], lastSource[v], lastPresentation[v])

IInv == TypeOK /\ SourcesKeep

(* A delivery, seen from its viewer.                                       *)
LEMMA DeliverEffect ==
  ASSUME IInv, NEW v \in Viewers, Deliver(v)
  PROVE  /\ anchor'[v] \in Nat
         /\ lastSource'[v] \in Time
         /\ lastPresentation'[v] \in Nat
         /\ Keeps(anchor'[v], lastSource'[v], lastPresentation'[v])
         /\ lastSource[v] # 0 =>
              /\ lastPresentation'[v] >= lastPresentation[v]
              /\ lastSource'[v] # lastSource[v] => lastPresentation'[v] > lastPresentation[v]
              /\ lastPresentation'[v] - lastPresentation[v] <=
                   IF lastSource'[v] > lastSource[v] THEN lastSource'[v] - lastSource[v]
                                                     ELSE Expected
         /\ lastSource[v] = 0 => lastPresentation'[v] = Expected
<1> DEFINE source == Head(queue[v])
<1>1. source \in Time
  BY HeadUnit DEF IInv, Deliver
<1>2. /\ anchor \in [Viewers -> Nat]
      /\ lastSource \in [Viewers -> Time \cup {0}]
      /\ lastPresentation \in [Viewers -> Nat]
      /\ Keeps(anchor[v], lastSource[v], lastPresentation[v])
  BY DEF IInv, TypeOK, SourcesKeep
<1>3. CASE Repeats(v, source)
  <2>1. UNCHANGED <<anchor, lastSource, lastPresentation>>
    BY <1>3 DEF Deliver
  <2>2. lastSource[v] = source /\ lastPresentation[v] # 0
    BY <1>3 DEF Repeats
  <2>3. source \in Nat /\ source > 0 /\ Expected \in Nat
    BY <1>1, ClockAssumption DEF Time
  <2> HIDE DEF source
  <2> QED
    BY <1>1, <1>2, <2>1, <2>2, <2>3
<1>4. CASE ~Repeats(v, source)
  <2>1. /\ anchor' = [anchor EXCEPT ![v] = AnchorFor(v, source)]
        /\ lastSource' = [lastSource EXCEPT ![v] = source]
        /\ lastPresentation' = [lastPresentation EXCEPT ![v] = Presentation(v, source)]
    BY <1>4 DEF Deliver
  <2> HIDE DEF source
  <2>2. /\ anchor'[v] = AnchorFor(v, source)
        /\ lastSource'[v] = source
        /\ lastPresentation'[v] = Presentation(v, source)
    BY <1>2, <2>1
  <2>3. /\ Keeps(AnchorFor(v, source), source, Presentation(v, source))
        /\ lastSource[v] # 0 =>
             /\ Presentation(v, source) > lastPresentation[v]
             /\ Presentation(v, source) - lastPresentation[v] <= Duration(v, source)
        /\ lastSource[v] = 0 => Presentation(v, source) = Expected
    BY <1>1, <1>2, <1>4, NormalizeStep
  <2>4. lastSource[v] # 0 => Duration(v, source) =
          IF source > lastSource[v] THEN source - lastSource[v] ELSE Expected
    BY DEF Duration
  <2>5. AnchorFor(v, source) \in Nat /\ Presentation(v, source) \in Nat
    BY <2>3 DEF Keeps
  <2>6. lastPresentation[v] \in Nat
    BY <1>2
  <2> QED
    BY <1>1, <2>2, <2>3, <2>4, <2>5, <2>6
<1> QED
  BY <1>3, <1>4

(* And from the others.                                                    *)
LEMMA DeliverFrame ==
  ASSUME TypeOK, NEW v \in Viewers, Deliver(v), NEW w \in Viewers, w # v
  PROVE  /\ anchor'[w] = anchor[w]
         /\ lastSource'[w] = lastSource[w]
         /\ lastPresentation'[w] = lastPresentation[w]
BY DEF Deliver, TypeOK

(* Coming and going puts a source's clock back to zero.                    *)
LEMMA ComingAndGoing ==
  ASSUME TypeOK, NEW v \in Viewers, Join(v) \/ Leave(v), NEW w \in Viewers
  PROVE  /\ anchor'[w] = IF w = v THEN 0 ELSE anchor[w]
         /\ lastSource'[w] = IF w = v THEN 0 ELSE lastSource[w]
         /\ lastPresentation'[w] = IF w = v THEN 0 ELSE lastPresentation[w]
         /\ v \in on => v \notin on'
BY DEF Join, Leave, TypeOK

LEMMA TypeStep == IInv /\ [Next]_vars => TypeOK'
<1> SUFFICES ASSUME IInv, [Next]_vars PROVE TypeOK'
  OBVIOUS
<1>0. TypeOK
  BY DEF IInv
<1>1. CASE Sample
  BY <1>0, <1>1 DEF Sample, TypeOK, sourceVars
<1>2. CASE NextFrame
  <2>1. PICK d \in Steps, published \in BOOLEAN :
          /\ raw + d \in Nat \ {0}
          /\ frames' = frames + 1
          /\ raw' = raw + d
          /\ Pack(raw + d, published)
    BY <1>2 DEF NextFrame
  <2>2. raw + d \in Nat
    BY <2>1
  <2>3. /\ lastRaw' \in Nat
        /\ lastTimestamp' \in Time \cup {0}
        /\ queue' \in [Viewers -> Seq(Time)]
    BY <1>0, <2>1, <2>2, PackTypes
  <2> QED
    BY <1>0, <2>1, <2>2, <2>3 DEF Pack, TypeOK, sourceVars
<1>3. CASE SameFrameAgain
  <2>1. PICK published \in BOOLEAN : Pack(raw, published) /\ UNCHANGED <<raw, frames>>
    BY <1>3 DEF SameFrameAgain
  <2>2. raw \in Nat
    BY <1>0 DEF TypeOK
  <2>3. /\ lastRaw' \in Nat
        /\ lastTimestamp' \in Time \cup {0}
        /\ queue' \in [Viewers -> Seq(Time)]
    BY <1>0, <2>1, <2>2, PackTypes
  <2> QED
    BY <1>0, <2>1, <2>3 DEF Pack, TypeOK, sourceVars
<1>4. CASE Unstamped
  <2>1. PICK published \in BOOLEAN :
          frames' = frames + 1 /\ UNCHANGED raw /\ Pack(0, published)
    BY <1>4 DEF Unstamped
  <2>2. /\ lastRaw' \in Nat
        /\ lastTimestamp' \in Time \cup {0}
        /\ queue' \in [Viewers -> Seq(Time)]
    BY <1>0, <2>1, PackTypes
  <2> QED
    BY <1>0, <2>1, <2>2 DEF Pack, TypeOK, sourceVars
<1>5. CASE RestartWorker
  <2>1. hadSubscribers' \in BOOLEAN /\ publishing' \in BOOLEAN
    BY <1>5, Zenon DEF RestartWorker
  <2>2. resets' \in Nat
    BY <1>0, <1>5 DEF RestartWorker, TypeOK
  <2>3. lastRaw' \in Nat /\ lastTimestamp' \in Time \cup {0}
    BY <1>5 DEF RestartWorker
  <2>4. UNCHANGED <<raw, frames, on, queue, sourceVars>>
    BY <1>5 DEF RestartWorker
  <2> QED
    BY <1>0, <2>1, <2>2, <2>3, <2>4 DEF TypeOK, sourceVars
<1>6. ASSUME NEW v \in Viewers, Join(v) PROVE TypeOK'
  <2>1. << >> \in Seq(Time)
    BY EmptySeq
  <2> QED
    BY <1>0, <1>6, <2>1 DEF Join, TypeOK, workerVars
<1>7. ASSUME NEW v \in Viewers, Leave(v) PROVE TypeOK'
  <2>1. << >> \in Seq(Time)
    BY EmptySeq
  <2> QED
    BY <1>0, <1>7, <2>1 DEF Leave, TypeOK, workerVars
<1>8. ASSUME NEW v \in Viewers, Deliver(v) PROVE TypeOK'
  <2>1. /\ anchor'[v] \in Nat
        /\ lastSource'[v] \in Time
        /\ lastPresentation'[v] \in Nat
    BY <1>8, DeliverEffect
  <2>2. Tail(queue[v]) \in Seq(Time) /\ Head(queue[v]) \in Nat
    BY <1>0, <1>8, HeadUnit DEF Deliver
  <2>3. /\ anchor' \in [Viewers -> Nat]
        /\ lastSource' \in [Viewers -> Time \cup {0}]
        /\ lastPresentation' \in [Viewers -> Nat]
    <3>1. CASE Repeats(v, Head(queue[v]))
      BY <1>0, <1>8, <3>1 DEF Deliver, TypeOK
    <3>2. CASE ~Repeats(v, Head(queue[v]))
      BY <1>0, <1>8, <2>1, <3>2 DEF Deliver, TypeOK
    <3> QED
      BY <3>1, <3>2
  <2>4. queue' \in [Viewers -> Seq(Time)]
    BY <1>0, <1>8, <2>2 DEF Deliver, TypeOK
  <2> QED
    BY <1>0, <1>8, <2>3, <2>4 DEF Deliver, TypeOK, workerVars
<1>9. CASE UNCHANGED vars
  BY <1>0, <1>9 DEF TypeOK, vars, workerVars, sourceVars
<1> QED
  BY <1>1, <1>2, <1>3, <1>4, <1>5, <1>6, <1>7, <1>8, <1>9 DEF Next

(* Only viewers' own steps touch the sources' clocks.                      *)
LEMMA OthersLeaveClocks ==
  ASSUME \/ Sample \/ NextFrame \/ SameFrameAgain \/ Unstamped \/ RestartWorker
         \/ UNCHANGED vars
  PROVE  UNCHANGED <<anchor, lastSource, lastPresentation>>
BY DEF Sample, NextFrame, SameFrameAgain, Unstamped, RestartWorker, Pack, vars, sourceVars

LEMMA SourcesStep == IInv /\ [Next]_vars => SourcesKeep'
<1> SUFFICES ASSUME IInv, [Next]_vars, NEW w \in Viewers
             PROVE  Keeps(anchor'[w], lastSource'[w], lastPresentation'[w])
  BY DEF SourcesKeep
<1>0. TypeOK /\ Keeps(anchor[w], lastSource[w], lastPresentation[w])
  BY DEF IInv, SourcesKeep
<1>1. CASE \/ Sample \/ NextFrame \/ SameFrameAgain \/ Unstamped \/ RestartWorker
           \/ UNCHANGED vars
  BY <1>0, <1>1, OthersLeaveClocks
<1>2. ASSUME NEW v \in Viewers, Join(v) \/ Leave(v)
      PROVE  Keeps(anchor'[w], lastSource'[w], lastPresentation'[w])
  <2>1. CASE w = v
    BY <1>0, <1>2, <2>1, ComingAndGoing DEF Keeps
  <2>2. CASE w # v
    BY <1>0, <1>2, <2>2, ComingAndGoing
  <2> QED
    BY <2>1, <2>2
<1>3. ASSUME NEW v \in Viewers, Deliver(v)
      PROVE  Keeps(anchor'[w], lastSource'[w], lastPresentation'[w])
  <2>1. CASE w = v
    BY <1>3, <2>1, DeliverEffect
  <2>2. CASE w # v
    BY <1>0, <1>3, <2>2, DeliverFrame
  <2> QED
    BY <2>1, <2>2
<1> QED
  BY <1>1, <1>2, <1>3 DEF Next

LEMMA InitIInv == Init => IInv
<1> SUFFICES ASSUME Init PROVE IInv
  OBVIOUS
<1>1. TypeOK
  BY EmptySeq DEF Init, TypeOK
<1>2. SourcesKeep
  BY DEF Init, SourcesKeep, Keeps
<1> QED
  BY <1>1, <1>2 DEF IInv

(* The invariant: types, and no source's clock behind its anchor.          *)
THEOREM ClockInductive == Spec => []IInv
<1>1. IInv /\ [Next]_vars => IInv'
  BY TypeStep, SourcesStep DEF IInv
<1> QED
  BY InitIInv, <1>1, PTL DEF Spec

(* The fields of the stream's and the sources' clocks have their types: no *)
(* time is ever negative, so the unsigned subtractions do not wrap.        *)
THEOREM ClockTypes == Spec => []TypeOK
BY ClockInductive, PTL DEF IInv

-----------------------------------------------------------------------------
(* The three promises about a viewer's presentation time.                  *)

Steady(v) ==
  Continues(v) =>
    /\ lastPresentation'[v] >= lastPresentation[v]
    /\ lastSource'[v] # lastSource[v] => lastPresentation'[v] > lastPresentation[v]
    /\ lastPresentation'[v] - lastPresentation[v] <=
         IF lastSource'[v] > lastSource[v] THEN lastSource'[v] - lastSource[v]
                                           ELSE Expected

Begins(v) == lastSource[v] = 0 /\ lastSource'[v] # 0 => lastPresentation'[v] = Expected

LEMMA SteadyStep ==
  ASSUME IInv, [Next]_vars, NEW w \in Viewers
  PROVE  Steady(w) /\ Begins(w)
<1>0. /\ TypeOK
      /\ lastPresentation[w] \in Nat
      /\ lastSource[w] \in Nat
      /\ Expected \in Nat
  BY ClockAssumption DEF IInv, TypeOK, Time
<1>1. CASE UNCHANGED <<anchor[w], lastSource[w], lastPresentation[w]>>
  BY <1>0, <1>1 DEF Steady, Begins
<1>2. CASE \/ Sample \/ NextFrame \/ SameFrameAgain \/ Unstamped \/ RestartWorker
           \/ UNCHANGED vars
  BY <1>1, <1>2, OthersLeaveClocks
<1>3. ASSUME NEW v \in Viewers, Join(v) \/ Leave(v) PROVE Steady(w) /\ Begins(w)
  <2>1. CASE w = v
    <3>1. lastSource'[w] = 0
      BY <1>0, <1>3, <2>1, ComingAndGoing
    <3>2. ~(w \in on /\ w \in on')
      BY <1>0, <1>3, <2>1, ComingAndGoing
    <3> QED
      BY <3>1, <3>2 DEF Steady, Begins, Continues
  <2>2. CASE w # v
    BY <1>0, <1>1, <1>3, <2>2, ComingAndGoing
  <2> QED
    BY <2>1, <2>2
<1>4. ASSUME NEW v \in Viewers, Deliver(v) PROVE Steady(w) /\ Begins(w)
  <2>1. CASE w = v
    BY <1>4, <2>1, DeliverEffect DEF Steady, Begins, Continues
  <2>2. CASE w # v
    BY <1>0, <1>1, <1>4, <2>2, DeliverFrame
  <2> QED
    BY <2>1, <2>2
<1> QED
  BY <1>2, <1>3, <1>4 DEF Next

(* While a viewer stays, its time never runs back, and stands still only   *)
(* between units of the same source time.                                  *)
THEOREM TimeNeverRunsBack == Spec => NeverBackwards
<1>1. IInv /\ [Next]_vars =>
        [\A v \in Viewers : Continues(v) =>
           /\ lastPresentation'[v] >= lastPresentation[v]
           /\ lastSource'[v] # lastSource[v] => lastPresentation'[v] > lastPresentation[v]]_vars
  BY SteadyStep DEF Steady
<1> QED
  BY ClockInductive, <1>1, PTL DEF Spec, NeverBackwards

(* A viewer's first unit is presented one frame after zero.                *)
THEOREM TimeBeginsAtDuration == Spec => FirstLandsAtDuration
<1>1. IInv /\ [Next]_vars =>
        [\A v \in Viewers :
           lastSource[v] = 0 /\ lastSource'[v] # 0 => lastPresentation'[v] = Expected]_vars
  BY SteadyStep DEF Begins
<1> QED
  BY ClockInductive, <1>1, PTL DEF Spec, FirstLandsAtDuration

(* A viewer's time advances by no more than the source time.               *)
THEOREM TimeNeverLeaps == Spec => NeverLeaps
<1>1. IInv /\ [Next]_vars =>
        [\A v \in Viewers : Continues(v) =>
           lastPresentation'[v] - lastPresentation[v] <=
             IF lastSource'[v] > lastSource[v] THEN lastSource'[v] - lastSource[v]
                                               ELSE Expected]_vars
  BY SteadyStep DEF Steady
<1> QED
  BY ClockInductive, <1>1, PTL DEF Spec, NeverLeaps
=============================================================================
