------------------------ MODULE AudioPipelineProofs ------------------------
(***************************************************************************)
(* Proofs about AudioPipeline, for any lengths of frames, sample rate and  *)
(* number of subscribers: the ring and the reframer never part and nothing *)
(* overflows, every sample reaches the encoder once and in order, the      *)
(* times keep pace with the samples, and nobody is sent back in time.      *)
(***************************************************************************)
EXTENDS AudioPipeline, SequenceTheorems, TLAPS

-----------------------------------------------------------------------------
(* The invariant.  A ring is of a type, and its tail is where its head and *)
(* its size say.                                                           *)

Wrapped(i, capacity) == IF i < capacity THEN i ELSE i - capacity

Rings(capacity) ==
  [cells : [0 .. capacity - 1 -> Words], capacity : {capacity},
   head : 0 .. capacity - 1, tail : 0 .. capacity - 1, size : 0 .. capacity]

IsLinked(ring) == ring.tail = Wrapped(ring.head + ring.size, ring.capacity)

(* The ring holds the samples from number n on.                            *)
Holds(ring, n) ==
  \A j \in 0 .. ring.size - 1 : ring.cells[Wrapped(ring.head + j, ring.capacity)] = n + j

RingSize(channels) == 2 * Larger(AacInput, AacOutput) * channels

Reframers(channels) ==
  [inputSamplesPerFrame : {AacInput}, outputSamplesPerFrame : {AacOutput},
   channelCount : {channels}, samplesAccumulated : Nat,
   buffer : Rings(RingSize(channels))]

(* It counts as many samples as its ring holds.                            *)
Agrees(r, channels) ==
  /\ r \in Reframers(channels) /\ IsLinked(r.buffer)
  /\ r.buffer.size = r.samplesAccumulated * channels

Frame == [words : Seq(Words) \ {<< >>}, time : Nat]

Types ==
  /\ setup \in Setups /\ pc \in {"sample", "poll", "emit"} /\ had \in BOOLEAN
  /\ Agrees(reframer, Channels)
  /\ frameBuffer \in Seq(Words)
  /\ timeline \in Nat /\ lastTime \in Nat /\ origin \in Nat /\ captured \in Nat
  /\ frames \in Seq(Frame)
  /\ seen \in [Subscribers -> Nat]

(* Outside of the loop that takes encoder frames out there is less than    *)
(* one of them.                                                            *)
Backlog ==
  /\ pc # "emit" \/ Format # "AAC" => ~HasMoreFrames(reframer)
  /\ pc # "emit" \/ Format # "OPUS" => ~MoreOpus
  /\ dropped = 0

(* The number of the sample the encoder is given next.                     *)
NextWord ==
  CASE Format = "AAC"  -> captured - reframer.buffer.size + 1
    [] Format = "OPUS" -> captured - Len(frameBuffer) + 1
    [] OTHER           -> captured + 1

LastWord(frame) == frame.words[Len(frame.words)]

(* What was captured and not given to the encoder yet is what it is given  *)
(* next, right after what it was given last.                               *)
Contiguous ==
  had /\ setup # << "AAC", TRUE >> =>
    /\ Format = "AAC" => Holds(reframer.buffer, NextWord)
    /\ Format = "OPUS" => \A i \in DOMAIN frameBuffer : frameBuffer[i] = NextWord + i - 1
    /\ frames # << >> => LastWord(frames[Len(frames)]) = NextWord - 1

(* The time line begins with its first frame, and is ahead of what anybody *)
(* was given.                                                              *)
Times ==
  /\ pc = "emit" => had
  /\ frames = << >> => timeline = 0 /\ lastTime = 0 /\ origin = 0
  /\ frames # << >> => timeline > lastTime /\ lastTime > 0
  /\ \A s \in Subscribers : seen[s] <= lastTime
  /\ \A s \in Subscribers : s \notin subscribers \/ ~had => seen[s] = 0

(* Where the time line stands against the samples given since it began.    *)
IsPaced == setup[2] => Format = "PCM"

OnPace ==
  had /\ IsPaced /\ frames # << >> =>
    LET passed == timeline - frames[1].time
        given  == NextWord - frames[1].words[1]
    IN /\ frames[1].words[1] \in Int /\ given \in Nat
       /\ passed <= Ticks(given) /\ Ticks(given) <= passed + Len(frames)

IInv ==
  /\ Types /\ Backlog /\ Contiguous /\ Times /\ OnPace
  /\ SamplesInOrder /\ PaceOfMono

-----------------------------------------------------------------------------
(* Arithmetic.                                                             *)

LEMMA Division ==
  ASSUME NEW a \in Int, NEW d \in Nat \ {0}
  PROVE  /\ a \div d \in Int /\ a % d \in 0 .. d - 1
         /\ a = d * (a \div d) + (a % d)
OBVIOUS

(* Division of the parts and of the whole differ by one at most.           *)
LEMMA DivAdd ==
  ASSUME NEW a \in Nat, NEW b \in Nat, NEW d \in Nat \ {0}
  PROVE  /\ a \div d \in Nat /\ b \div d \in Nat
         /\ (a \div d) + (b \div d) <= (a + b) \div d
         /\ (a + b) \div d <= (a \div d) + (b \div d) + 1
OBVIOUS

(* Two runs of samples last as long as they do together, up to one unit.   *)
LEMMA TicksAdd ==
  ASSUME NEW a \in Nat, NEW b \in Nat
  PROVE  /\ Ticks(a) \in Nat
         /\ Ticks(a) + Ticks(b) <= Ticks(a + b)
         /\ Ticks(a + b) <= Ticks(a) + Ticks(b) + 1
<1>1. SampleRate \in Nat \ {0} /\ Second \in Nat \ {0}
  BY PipelineAssumption
<1>2. a * Second \in Nat /\ b * Second \in Nat /\ (a + b) * Second = a * Second + b * Second
  BY <1>1
<1> QED
  BY <1>1, <1>2, DivAdd DEF Ticks

LEMMA TicksType ==
  ASSUME NEW a \in Nat
  PROVE  Ticks(a) \in Nat
<1>1. Ticks(a) + Ticks(0) <= Ticks(a + 0) /\ Ticks(a) \in Nat
  BY TicksAdd
<1> QED
  BY <1>1

(* A frame of the encoder lasts one unit at least.                         *)
LEMMA TicksOfFrame ==
  ASSUME NEW n \in Nat, n * Second >= SampleRate
  PROVE  Ticks(n) \in Nat \ {0}
<1>1. SampleRate \in Nat \ {0} /\ Second \in Nat \ {0} /\ n * Second \in Nat
  BY PipelineAssumption
<1> DEFINE m == n * Second
<1>2. m \div SampleRate \in Nat \ {0}
  <2> HIDE DEF m
  <2>1. m \in Nat /\ m >= SampleRate
    BY <1>1 DEF m
  <2> QED
    BY <1>1, <2>1, Division
<1> QED
  BY <1>2 DEF Ticks

(* Positions in a ring are taken modulo its capacity.                      *)
LEMMA WrappedIsMod ==
  ASSUME NEW c \in Nat \ {0}, NEW x \in 0 .. 2 * c - 1
  PROVE  x % c = Wrapped(x, c)
<1>1. CASE x < c
  BY <1>1 DEF Wrapped
<1>2. CASE x >= c
  BY <1>2 DEF Wrapped
<1> QED
  BY <1>1, <1>2

(* Where pushed words go: next to what the ring holds, and not onto it.    *)
LEMMA PlacesOfPush ==
  ASSUME NEW c \in Nat \ {0}, NEW h \in 0 .. c - 1, NEW s \in 0 .. c,
         NEW w \in Nat, w <= c - s, NEW j \in 0 .. s + w - 1
  PROVE  LET t == Wrapped(h + s, c)
             k == Wrapped(h + j, c)
         IN /\ k \in 0 .. c - 1
            /\ j < s => ~(t <= k /\ k < t + w) /\ ~(k < w - (c - t))
            /\ j >= s =>
                 \/ t <= k /\ k < t + w /\ k - t + 1 = j - s + 1
                 \/ ~(t <= k /\ k < t + w) /\ k < w - (c - t) /\ (c - t) + k + 1 = j - s + 1
BY DEF Wrapped

(* push keeps a ring a ring.  When the data continues the numbers of the   *)
(* samples in the ring, they stay numbered.                                *)
LEMMA PushKeeps ==
  ASSUME NEW c \in Nat \ {0}, NEW ring \in Rings(c), IsLinked(ring),
         NEW w \in Nat, NEW data \in [1 .. w -> Words], Len(data) = w, Fits(ring, w)
  PROVE  /\ Push(ring, data) \in Rings(c) /\ IsLinked(Push(ring, data))
         /\ Push(ring, data).head = ring.head /\ Push(ring, data).size = ring.size + w
         /\ \A n \in Int :
              Holds(ring, n) /\ (\A i \in 1 .. w : data[i] = n + ring.size + i - 1)
                => Holds(Push(ring, data), n)
<1> DEFINE h == ring.head
           s == ring.size
           t == ring.tail
           cells == [i \in 0 .. c - 1 |->
                       IF t <= i /\ i < t + w THEN data[i - t + 1]
                       ELSE IF i < w - (c - t) THEN data[(c - t) + i + 1]
                       ELSE ring.cells[i]]
           new == Push(ring, data)
<1>1. /\ ring.capacity = c /\ h \in 0 .. c - 1 /\ t \in 0 .. c - 1
      /\ s \in 0 .. c /\ ring.cells \in [0 .. c - 1 -> Words]
      /\ DOMAIN ring.cells = 0 .. c - 1
  BY DEF Rings
<1>2. w <= c - s /\ t = Wrapped(h + s, c)
  BY <1>1 DEF Fits, IsLinked
<1> HIDE DEF h, s, t
<1>3. (t + w) % c = Wrapped(t + w, c) /\ Wrapped(t + w, c) \in 0 .. c - 1
  <2>1. t + w \in 0 .. 2 * c - 1
    BY <1>1, <1>2
  <2>2. (t + w) % c = Wrapped(t + w, c)
    BY <2>1, WrappedIsMod
  <2>3. Wrapped(t + w, c) \in 0 .. c - 1
    BY <1>1, <1>2 DEF Wrapped
  <2> QED
    BY <2>2, <2>3
<1>4. Wrapped(t + w, c) = Wrapped(h + (s + w), c)
  BY <1>1, <1>2 DEF Wrapped
<1>5. new = [ring EXCEPT !.cells = cells, !.tail = Wrapped(t + w, c), !.size = s + w]
  BY <1>1, <1>3 DEF Push, h, s, t
<1>6. \A i \in 0 .. c - 1 :
        cells[i] = IF t <= i /\ i < t + w THEN data[i - t + 1]
                   ELSE IF i < w - (c - t) THEN data[(c - t) + i + 1]
                   ELSE ring.cells[i]
  OBVIOUS
<1>7. cells \in [0 .. c - 1 -> Words]
  <2> SUFFICES ASSUME NEW i \in 0 .. c - 1
               PROVE  cells[i] \in Words
    OBVIOUS
  <2>1. CASE t <= i /\ i < t + w
    BY <2>1, <1>1
  <2>2. CASE ~(t <= i /\ i < t + w) /\ i < w - (c - t)
    BY <2>2, <1>1, <1>2
  <2>3. CASE ~(t <= i /\ i < t + w) /\ ~(i < w - (c - t))
    BY <2>3, <1>1, <1>2
  <2> QED
    BY <2>1, <2>2, <2>3
<1>8. s + w \in 0 .. c
  BY <1>1, <1>2
<1> HIDE DEF cells, new
<1>9. /\ new \in Rings(c) /\ new.cells = cells /\ new.capacity = c
      /\ new.head = h /\ new.tail = Wrapped(t + w, c) /\ new.size = s + w
  BY <1>3, <1>5, <1>7, <1>8 DEF Rings, h
<1>10. IsLinked(new)
  BY <1>4, <1>9 DEF IsLinked
<1>11. ASSUME NEW n \in Int, Holds(ring, n), \A i \in 1 .. w : data[i] = n + ring.size + i - 1
       PROVE  Holds(new, n)
  <2> SUFFICES ASSUME NEW j \in 0 .. s + w - 1
               PROVE  cells[Wrapped(h + j, c)] = n + j
    BY <1>1, <1>9 DEF Holds
  <2> DEFINE k == Wrapped(h + j, c)
  <2>1. /\ k \in 0 .. c - 1
        /\ j < s => ~(t <= k /\ k < t + w) /\ ~(k < w - (c - t))
        /\ j >= s =>
             \/ t <= k /\ k < t + w /\ k - t + 1 = j - s + 1
             \/ ~(t <= k /\ k < t + w) /\ k < w - (c - t) /\ (c - t) + k + 1 = j - s + 1
    <3> HIDE DEF k
    <3>1. /\ h \in 0 .. c - 1 /\ s \in 0 .. c /\ w <= c - s
          /\ t = Wrapped(h + s, c) /\ k = Wrapped(h + j, c)
      BY <1>1, <1>2 DEF k
    <3> QED
      BY <3>1, PlacesOfPush
  <2>2. CASE j < s
    <3>1. ring.cells[k] = n + j
      BY <2>2, <1>1, <1>11 DEF Holds, h, s
    <3>2. k \in 0 .. c - 1 /\ ~(t <= k /\ k < t + w) /\ ~(k < w - (c - t))
      BY <2>1, <2>2
    <3> HIDE DEF k
    <3>3. cells[k] = ring.cells[k]
      BY <3>2, <1>6
    <3> QED
      BY <3>1, <3>3, <1>1 DEF k
  <2>3. CASE j >= s
    <3>3. j - s + 1 \in 1 .. w /\ j \in Int /\ s \in Int
      BY <2>3, <1>1
    <3>4. data[j - s + 1] = n + s + (j - s + 1) - 1
      BY <3>3, <1>11 DEF s
    <3>1. data[j - s + 1] = n + j
      BY <3>3, <3>4
    <3> HIDE DEF k
    <3>2. cells[k] = data[j - s + 1]
      BY <2>1, <2>3, <1>6
    <3> QED
      BY <3>1, <3>2, <3>3 DEF k
  <2> QED
    BY <2>2, <2>3, <1>1
<1> QED
  BY <1>9, <1>10, <1>11 DEF new, h, s

(* fetch copies out the oldest samples and leaves the others.              *)
LEMMA FetchKeeps ==
  ASSUME NEW c \in Nat \ {0}, NEW ring \in Rings(c), IsLinked(ring),
         NEW w \in 0 .. ring.size
  PROVE  /\ AfterFetch(ring, w) \in Rings(c) /\ IsLinked(AfterFetch(ring, w))
         /\ AfterFetch(ring, w).size = ring.size - w
         /\ Fetched(ring, w) \in [1 .. w -> Words]
         /\ \A n \in Int : Holds(ring, n) =>
              /\ \A i \in 1 .. w : Fetched(ring, w)[i] = n + i - 1
              /\ Holds(AfterFetch(ring, w), n + w)
<1> DEFINE h == ring.head
           s == ring.size
           new == AfterFetch(ring, w)
           out == Fetched(ring, w)
<1>1. /\ ring.capacity = c /\ h \in 0 .. c - 1 /\ ring.tail \in 0 .. c - 1
      /\ s \in 0 .. c /\ ring.cells \in [0 .. c - 1 -> Words] /\ w \in Nat /\ w <= s
  BY DEF Rings
<1>2. ring.tail = Wrapped(h + s, c)
  BY <1>1 DEF IsLinked
<1>3. (h + w) % c = Wrapped(h + w, c) /\ Wrapped(h + w, c) \in 0 .. c - 1
  <2>1. h + w \in 0 .. 2 * c - 1
    BY <1>1
  <2>2. (h + w) % c = Wrapped(h + w, c)
    BY <2>1, WrappedIsMod
  <2>3. Wrapped(h + w, c) \in 0 .. c - 1
    BY <1>1 DEF Wrapped
  <2> QED
    BY <2>2, <2>3
<1>4. Wrapped(Wrapped(h + w, c) + (s - w), c) = Wrapped(h + s, c)
  BY <1>1 DEF Wrapped
<1>5. new = [ring EXCEPT !.head = Wrapped(h + w, c), !.size = s - w]
  BY <1>1, <1>3 DEF AfterFetch
<1>6. s - w \in 0 .. c
  BY <1>1
<1>7. \A i \in 1 .. w : /\ Wrapped(h + (i - 1), c) \in 0 .. c - 1
                        /\ out[i] = ring.cells[Wrapped(h + (i - 1), c)]
  <2> SUFFICES ASSUME NEW i \in 1 .. w
               PROVE  /\ Wrapped(h + (i - 1), c) \in 0 .. c - 1
                      /\ out[i] = ring.cells[Wrapped(h + (i - 1), c)]
    OBVIOUS
  <2>1. out[i] = IF i <= c - h THEN ring.cells[h + i - 1] ELSE ring.cells[i - (c - h) - 1]
    BY <1>1 DEF Fetched
  <2>2. i <= c - h => Wrapped(h + (i - 1), c) = h + i - 1
    BY <1>1 DEF Wrapped
  <2>3. i > c - h => Wrapped(h + (i - 1), c) = i - (c - h) - 1
    BY <1>1 DEF Wrapped
  <2>4. Wrapped(h + (i - 1), c) \in 0 .. c - 1
    BY <1>1 DEF Wrapped
  <2> HIDE DEF out, h
  <2> QED
    BY <1>1, <2>1, <2>2, <2>3, <2>4
<1>8. out = [i \in 1 .. w |-> out[i]]
  BY <1>1 DEF Fetched
<1> HIDE DEF new, out, h, s
<1>9. out \in [1 .. w -> Words]
  BY <1>1, <1>7, <1>8
<1>10. /\ new \in Rings(c) /\ new.cells = ring.cells /\ new.capacity = c
       /\ new.head = Wrapped(h + w, c) /\ new.tail = ring.tail /\ new.size = s - w
  BY <1>3, <1>5, <1>6 DEF Rings
<1>11. IsLinked(new)
  BY <1>2, <1>4, <1>10 DEF IsLinked
<1>12. ASSUME NEW n \in Int, Holds(ring, n)
       PROVE  (\A i \in 1 .. w : out[i] = n + i - 1) /\ Holds(new, n + w)
  <2>1. \A j \in 0 .. s - 1 : ring.cells[Wrapped(h + j, c)] = n + j
    BY <1>1, <1>12 DEF Holds, h, s
  <2>2. \A i \in 1 .. w : out[i] = n + i - 1
    <3> SUFFICES ASSUME NEW i \in 1 .. w
                 PROVE  out[i] = n + i - 1
      OBVIOUS
    <3>1. i - 1 \in 0 .. s - 1
      BY <1>1
    <3>2. ring.cells[Wrapped(h + (i - 1), c)] = n + (i - 1)
      BY <3>1, <2>1
    <3> QED
      BY <3>2, <1>7
  <2>3. Holds(new, n + w)
    <3> SUFFICES ASSUME NEW j \in 0 .. (s - w) - 1
                 PROVE  ring.cells[Wrapped(Wrapped(h + w, c) + j, c)] = n + w + j
      BY <1>10 DEF Holds
    <3>1. w + j \in 0 .. s - 1 /\ Wrapped(Wrapped(h + w, c) + j, c) = Wrapped(h + (w + j), c)
      BY <1>1 DEF Wrapped
    <3>2. ring.cells[Wrapped(h + (w + j), c)] = n + (w + j)
      BY <3>1, <2>1
    <3> QED
      BY <3>1, <3>2, <1>1
  <2> QED
    BY <2>2, <2>3
<1> QED
  BY <1>9, <1>10, <1>11, <1>12 DEF new, out, s

-----------------------------------------------------------------------------
(* The reframer.                                                           *)

(* The formats and the channels of a worker.                               *)
LEMMA SetupTypes ==
  ASSUME NEW s \in Setups
  PROVE  s[1] \in Formats /\ s[2] \in BOOLEAN /\ s = << s[1], s[2] >>
BY PipelineAssumption

(* A ring has room for two frames of the encoder.                          *)
LEMMA RingRoom ==
  ASSUME NEW ch \in {1, 2}
  PROVE  /\ AacInput \in Nat \ {0} /\ AacOutput \in Nat \ {0}
         /\ AacInput * ch \in Nat \ {0} /\ AacOutput * ch \in Nat \ {0}
         /\ RingSize(ch) \in Nat \ {0}
         /\ AacInput * ch + AacOutput * ch <= RingSize(ch)
<1>1. AacInput \in Nat \ {0} /\ AacOutput \in Nat \ {0}
  BY PipelineAssumption
<1>2. CASE ch = 1
  BY <1>1, <1>2 DEF RingSize, Larger
<1>3. CASE ch = 2
  BY <1>1, <1>3 DEF RingSize, Larger
<1> QED
  BY <1>1, <1>2, <1>3

(* A new reframer is empty.                                                *)
LEMMA FreshAgrees ==
  ASSUME NEW ch \in {1, 2}
  PROVE  LET new == AudioReframer(AacInput, AacOutput, ch)
         IN /\ Agrees(new, ch) /\ ~HasMoreFrames(new)
            /\ new.buffer.size = 0 /\ \A n \in Int : Holds(new.buffer, n)
<1> DEFINE c == RingSize(ch)
           ring == EmptyRing(c)
           new == AudioReframer(AacInput, AacOutput, ch)
<1>1. c \in Nat \ {0} /\ AacOutput \in Nat \ {0}
  BY RingRoom
<1>2. new.buffer = ring /\ new.samplesAccumulated = 0 /\ new.outputSamplesPerFrame = AacOutput
  BY DEF AudioReframer, RingSize
<1>3. [i \in 0 .. c - 1 |-> Stray] \in [0 .. c - 1 -> Words]
  BY DEF Words
<1> HIDE DEF c
<1>4. ring \in Rings(c)
  BY <1>1, <1>3 DEF EmptyRing, Rings
<1>5. ring.head = 0 /\ ring.tail = 0 /\ ring.size = 0 /\ ring.capacity = c
  BY DEF EmptyRing
<1>6. IsLinked(ring) /\ \A n \in Int : Holds(ring, n)
  BY <1>1, <1>5 DEF IsLinked, Holds, Wrapped
<1> HIDE DEF ring
<1>7. new \in Reframers(ch)
  BY <1>2, <1>4 DEF Reframers, AudioReframer, RingSize, c
<1> QED
  BY <1>1, <1>2, <1>5, <1>6, <1>7 DEF Agrees, HasMoreFrames

(* addFrame finds room when less than a frame of the encoder is there.     *)
LEMMA AddFrameKeeps ==
  ASSUME NEW ch \in {1, 2}, NEW r, Agrees(r, ch), ~HasMoreFrames(r), NEW data \in Seq(Words)
  PROVE  /\ Fits(r.buffer, InputWords(r))
         /\ Agrees(AddFrame(r, data), ch)
         /\ AddFrame(r, data).buffer.size = r.buffer.size + AacInput * ch
         /\ \A n \in Int :
              /\ ch = 1 /\ Len(data) = AacInput /\ Holds(r.buffer, n)
              /\ \A i \in 1 .. AacInput : data[i] = n + r.buffer.size + i - 1
              => Holds(AddFrame(r, data).buffer, n)
<1> DEFINE w == AacInput * ch
           c == RingSize(ch)
           ring == r.buffer
           acc == r.samplesAccumulated
           read == WordsRead(data, w)
           new == AddFrame(r, data)
<1>1. /\ r \in Reframers(ch) /\ ring \in Rings(c) /\ acc \in Nat /\ IsLinked(ring)
      /\ ring.size = acc * ch
      /\ r.inputSamplesPerFrame = AacInput /\ r.outputSamplesPerFrame = AacOutput
      /\ r.channelCount = ch
  BY DEF Agrees, Reframers
<1>2. /\ AacInput \in Nat \ {0} /\ AacOutput \in Nat \ {0} /\ w \in Nat \ {0} /\ c \in Nat \ {0}
      /\ AacOutput * ch \in Nat /\ w + AacOutput * ch <= c
  BY RingRoom
<1>3. acc < AacOutput
  BY <1>1, <1>2 DEF HasMoreFrames
<1>4. InputWords(r) = w
  BY <1>1 DEF InputWords
<1> HIDE DEF w, c, ring
<1>5. ring.capacity = c /\ ring.size \in Nat
  <2>1. ring \in Rings(c)
    BY <1>1
  <2> QED
    BY <2>1, <1>2 DEF Rings
<1>6. ring.size <= AacOutput * ch /\ ring.size + w = (acc + AacInput) * ch
  <2>1. CASE ch = 1
    BY <2>1, <1>1, <1>2, <1>3 DEF w
  <2>2. CASE ch = 2
    BY <2>2, <1>1, <1>2, <1>3 DEF w
  <2> QED
    BY <2>1, <2>2
<1>7. Fits(ring, w)
  <2>1. w <= c - ring.size
    BY <1>2, <1>5, <1>6
  <2> QED
    BY <1>5, <2>1 DEF Fits
<1>8. read \in [1 .. w -> Words] /\ Len(read) = w
  <2>1. \A i \in 1 .. w : i <= Len(data) => data[i] \in Words
    BY <1>2
  <2>2. \A i \in 1 .. w : (IF i <= Len(data) THEN data[i] ELSE Stray) \in Words
    BY <2>1 DEF Words
  <2>3. read \in [1 .. w -> Words]
    BY <2>2 DEF WordsRead
  <2>4. Len(read) = w
    BY <1>2 DEF WordsRead
  <2> QED
    BY <2>3, <2>4
<1>9. \A i \in 1 .. w : i <= Len(data) => read[i] = data[i]
  BY DEF WordsRead
<1> DEFINE pushed == Push(ring, read)
<1> HIDE DEF read
<1>10. /\ pushed \in Rings(c) /\ IsLinked(pushed) /\ pushed.size = ring.size + w
       /\ \A n \in Int :
            Holds(ring, n) /\ (\A i \in 1 .. w : read[i] = n + ring.size + i - 1)
              => Holds(pushed, n)
  <2>1. c \in Nat \ {0} /\ w \in Nat
    BY <1>2
  <2>2. ring \in Rings(c) /\ IsLinked(ring)
    BY <1>1
  <2> HIDE DEF pushed
  <2>3. pushed = Push(ring, read)
    BY DEF pushed
  <2> QED
    BY <2>1, <2>2, <2>3, <1>7, <1>8, PushKeeps
<1>11. new = [r EXCEPT !.buffer = pushed, !.samplesAccumulated = acc + AacInput]
  BY <1>1, <1>4 DEF AddFrame, read, ring
<1> HIDE DEF pushed, new, acc
<1>12. Agrees(new, ch) /\ new.buffer = pushed
  <2>1. acc + AacInput \in Nat
    BY <1>1, <1>2
  <2>2. /\ new \in Reframers(ch) /\ new.buffer = pushed
        /\ new.samplesAccumulated = acc + AacInput
    BY <1>1, <1>10, <1>11, <2>1 DEF Reframers, c
  <2> QED
    BY <1>6, <1>10, <2>2 DEF Agrees
<1>13. ASSUME ch = 1, Len(data) = AacInput, NEW n \in Int, Holds(ring, n),
              \A i \in 1 .. AacInput : data[i] = n + ring.size + i - 1
       PROVE  Holds(pushed, n)
  <2>1. w = AacInput
    BY <1>2, <1>13 DEF w
  <2>2. \A i \in 1 .. w : read[i] = n + ring.size + i - 1
    BY <2>1, <1>9, <1>13
  <2> QED
    BY <2>2, <1>10, <1>13
<1> QED
  BY <1>4, <1>7, <1>10, <1>12, <1>13 DEF ring, new, w

(* A frame of the encoder, and what stays.                                 *)
LEMMA ReframedKeeps ==
  ASSUME NEW ch \in {1, 2}, NEW r, Agrees(r, ch), HasMoreFrames(r)
  PROVE  /\ Agrees(AfterReframed(r), ch)
         /\ AfterReframed(r).buffer.size = r.buffer.size - AacOutput * ch
         /\ ReframedFrame(r) \in [1 .. AacOutput * ch -> Words]
         /\ \A n \in Int : Holds(r.buffer, n) =>
              /\ \A i \in 1 .. AacOutput * ch : ReframedFrame(r)[i] = n + i - 1
              /\ Holds(AfterReframed(r).buffer, n + AacOutput * ch)
<1> DEFINE w == AacOutput * ch
           c == RingSize(ch)
           ring == r.buffer
           acc == r.samplesAccumulated
           new == AfterReframed(r)
           left == AfterFetch(ring, w)
<1>1. /\ r \in Reframers(ch) /\ ring \in Rings(c) /\ acc \in Nat /\ IsLinked(ring)
      /\ ring.size = acc * ch
      /\ r.inputSamplesPerFrame = AacInput /\ r.outputSamplesPerFrame = AacOutput
      /\ r.channelCount = ch
  BY DEF Agrees, Reframers
<1>2. AacOutput \in Nat \ {0} /\ w \in Nat \ {0} /\ c \in Nat \ {0}
  BY RingRoom
<1>3. acc - AacOutput \in Nat
  BY <1>1, <1>2 DEF HasMoreFrames
<1>4. OutputWords(r) = w
  BY <1>1 DEF OutputWords
<1>5. w \in 0 .. ring.size /\ ring.size - w = (acc - AacOutput) * ch
  <2>1. CASE ch = 1
    BY <2>1, <1>1, <1>2, <1>3
  <2>2. CASE ch = 2
    BY <2>2, <1>1, <1>2, <1>3
  <2> QED
    BY <2>1, <2>2
<1>6. new = [r EXCEPT !.buffer = left, !.samplesAccumulated = acc - AacOutput]
  BY <1>1, <1>4 DEF AfterReframed
<1>7. ReframedFrame(r) = Fetched(ring, w)
  BY <1>4 DEF ReframedFrame
<1> HIDE DEF w, c, ring
<1>8. /\ left \in Rings(c) /\ IsLinked(left) /\ left.size = ring.size - w
      /\ Fetched(ring, w) \in [1 .. w -> Words]
      /\ \A n \in Int : Holds(ring, n) =>
           /\ \A i \in 1 .. w : Fetched(ring, w)[i] = n + i - 1
           /\ Holds(left, n + w)
  <2>1. c \in Nat \ {0}
    BY <1>2
  <2>2. ring \in Rings(c) /\ IsLinked(ring)
    BY <1>1
  <2>3. w \in 0 .. ring.size
    BY <1>5
  <2> QED
    BY <2>1, <2>2, <2>3, FetchKeeps
<1> HIDE DEF new, left, acc
<1>9. Agrees(new, ch) /\ new.buffer = left
  <2>1. /\ new \in Reframers(ch) /\ new.buffer = left
        /\ new.samplesAccumulated = acc - AacOutput
    BY <1>1, <1>3, <1>6, <1>8 DEF Reframers, c
  <2> QED
    BY <1>5, <1>8, <2>1 DEF Agrees
<1> QED
  BY <1>7, <1>8, <1>9 DEF new, w, ring

-----------------------------------------------------------------------------
(* One frame goes to the encoder.                                          *)

LEMMA ChannelsTypes ==
  ASSUME Types
  PROVE  /\ Format \in Formats /\ setup[2] \in BOOLEAN /\ setup = << Format, setup[2] >>
         /\ Channels \in {1, 2} /\ Copies \in {1, 2}
         /\ setup[2] => Channels = 2
         /\ ~setup[2] => Channels = 1
BY SetupTypes DEF Types, Format, Channels, Copies

LEMMA StereoAac ==
  ASSUME setup = << "AAC", TRUE >>
  PROVE  Format = "AAC" /\ setup[2] /\ Format # "OPUS" /\ Format # "PCM"
<1>1. setup[1] = "AAC" /\ setup[2] = TRUE
  OBVIOUS
<1> QED
  BY <1>1 DEF Format

LEMMA FrameFields ==
  ASSUME NEW fs \in Seq(Frame), NEW k \in DOMAIN fs
  PROVE  /\ fs[k].words \in Seq(Words) /\ fs[k].words # << >>
         /\ Len(fs[k].words) \in Nat \ {0} /\ fs[k].time \in Nat
<1>1. fs[k] \in Frame
  BY ElementOfSeq
<1>2. fs[k].words \in Seq(Words) /\ fs[k].words # << >> /\ fs[k].time \in Nat
  BY <1>1 DEF Frame
<1> QED
  BY <1>2, EmptySeq

(* A frame lasts one unit at least.                                        *)
LEMMA DurationType ==
  ASSUME Types, NEW words \in Seq(Words)
  PROVE  Len(words) \div Channels \in Nat /\ Duration(words) \in Nat \ {0}
<1>1. Len(words) \div Channels \in Nat
  BY ChannelsTypes
<1>2. Ticks(Len(words) \div Channels) \in Nat
  BY <1>1, TicksAdd
<1> QED
  BY <1>1, <1>2 DEF Duration, Larger

(* process_audio_frame_direct: the time is later than any before, and that *)
(* of the time line unless this is its first frame.                        *)
LEMMA DirectEffect ==
  ASSUME Types, Times, NEW words \in Seq(Words) \ {<< >>}, Direct(words)
  PROVE  \E time \in Nat \ {0} :
           /\ time > lastTime
           /\ frames # << >> => time = timeline
           /\ lastTime' = time /\ origin' \in Nat
           /\ timeline' = time + Duration(words) /\ Duration(words) \in Nat \ {0}
           /\ frames' = Append(frames, [words |-> words, time |-> time])
           /\ seen' \in [Subscribers -> Nat]
           /\ \A s \in Subscribers :
                seen'[s] \in {seen[s], time} /\ (s \notin subscribers => seen'[s] = seen[s])
<1>1. PICK video \in VideoTimes, encoded \in BOOLEAN :
        LET time == TimeFor(words, video)
        IN /\ origin' = OriginFor(words, video)
           /\ timeline' = time + Duration(words)
           /\ lastTime' = time
           /\ frames' = Append(frames, [words |-> words, time |-> time])
           /\ seen' = [s \in Subscribers |->
                         IF encoded /\ s \in subscribers THEN time ELSE seen[s]]
  BY DEF Direct
<1>2. /\ video \in Nat /\ Duration(words) \in Nat \ {0}
      /\ timeline \in Nat /\ lastTime \in Nat /\ origin \in Nat /\ seen \in [Subscribers -> Nat]
  BY PipelineAssumption, DurationType DEF Types
<1>3. OriginFor(words, video) \in Nat /\ (origin = 0 => OriginFor(words, video) > 0)
  BY <1>2 DEF OriginFor, Larger
<1>4. CASE frames = << >>
  <2>1. TimeFor(words, video) = OriginFor(words, video)
    BY <1>4 DEF TimeFor, Times
  <2> QED
    BY <1>1, <1>2, <1>3, <1>4, <2>1 DEF Times
<1>5. CASE frames # << >>
  <2>1. timeline > lastTime /\ timeline # 0
    BY <1>2, <1>5 DEF Times
  <2>2. TimeFor(words, video) = timeline
    BY <2>1, <1>2 DEF TimeFor
  <2> QED
    BY <1>1, <1>2, <1>3, <1>5, <2>1, <2>2
<1> QED
  BY <1>4, <1>5

(* What holds of the clock and of the subscribers afterwards.              *)
LEMMA PublishedTimes ==
  ASSUME Types, Times, had, UNCHANGED << had, subscribers >>,
         NEW words \in Seq(Words) \ {<< >>}, Direct(words)
  PROVE  /\ timeline' \in Nat /\ lastTime' \in Nat /\ origin' \in Nat
         /\ frames' \in Seq(Frame) /\ seen' \in [Subscribers -> Nat]
         /\ Times'
         /\ \A s \in Subscribers :
              seen[s] # 0 /\ seen'[s] \notin {0, seen[s]} => seen'[s] > seen[s]
<1>1. PICK time \in Nat \ {0} :
        /\ time > lastTime
        /\ lastTime' = time /\ origin' \in Nat
        /\ timeline' = time + Duration(words) /\ Duration(words) \in Nat \ {0}
        /\ frames' = Append(frames, [words |-> words, time |-> time])
        /\ seen' \in [Subscribers -> Nat]
        /\ \A s \in Subscribers :
             seen'[s] \in {seen[s], time} /\ (s \notin subscribers => seen'[s] = seen[s])
  BY DirectEffect
<1>2. frames' \in Seq(Frame) /\ frames' # << >>
  <2>1. [words |-> words, time |-> time] \in Frame
    BY DEF Frame
  <2> QED
    BY <1>1, <2>1, AppendProperties DEF Types
<1>3. /\ lastTime \in Nat /\ seen \in [Subscribers -> Nat]
      /\ \A s \in Subscribers : seen[s] <= lastTime /\ (s \notin subscribers => seen[s] = 0)
  BY DEF Types, Times
<1>4. timeline' > lastTime' /\ lastTime' > 0 /\ timeline' \in Nat /\ lastTime' \in Nat
  BY <1>1
<1>5. \A s \in Subscribers :
        /\ seen'[s] <= lastTime' /\ (s \notin subscribers => seen'[s] = 0)
        /\ seen[s] # 0 /\ seen'[s] \notin {0, seen[s]} => seen'[s] > seen[s]
  BY <1>1, <1>3
<1>6. Times'
  BY <1>2, <1>4, <1>5 DEF Times
<1> QED
  BY <1>1, <1>2, <1>4, <1>5, <1>6

LEMMA AppendedFrame ==
  ASSUME Types, Times, NEW words \in Seq(Words) \ {<< >>}, Direct(words)
  PROVE  /\ Len(frames) \in Nat /\ DOMAIN frames = 1 .. Len(frames)
         /\ Len(frames') = Len(frames) + 1 /\ DOMAIN frames' = 1 .. Len(frames) + 1
         /\ \A k \in 1 .. Len(frames) : frames'[k] = frames[k]
         /\ frames'[Len(frames) + 1].words = words
         /\ frames'[Len(frames) + 1].time = lastTime'
<1>1. PICK time \in Nat \ {0} :
        /\ lastTime' = time
        /\ frames' = Append(frames, [words |-> words, time |-> time])
  BY DirectEffect
<1> DEFINE f == [words |-> words, time |-> time]
<1>2. f \in Frame /\ f.words = words /\ f.time = time
  BY DEF Frame
<1>3. frames \in Seq(Frame)
  BY DEF Types
<1> HIDE DEF f
<1>4. frames' = Append(frames, f)
  BY <1>1 DEF f
<1>5. /\ frames' \in Seq(Frame) /\ Len(frames') = Len(frames) + 1
      /\ \A k \in 1 .. Len(frames) : frames'[k] = frames[k]
      /\ frames'[Len(frames) + 1] = f
  BY <1>2, <1>3, <1>4, AppendProperties
<1>6. Len(frames) \in Nat /\ DOMAIN frames = 1 .. Len(frames) /\ DOMAIN frames' = 1 .. Len(frames')
  BY <1>3, <1>5, LenProperties
<1> QED
  BY <1>1, <1>2, <1>5, <1>6

(* The encoder is given m samples from the next one on.                    *)
IsNext(words, m) ==
  /\ \A i \in DOMAIN words : words[i] = NextWord + (i - 1) \div Copies
  /\ words[Len(words)] = NextWord + m - 1

LEMMA PublishedOrder ==
  ASSUME Types, Times, had, Contiguous, SamplesInOrder, UNCHANGED setup,
         NEW words \in Seq(Words) \ {<< >>}, Direct(words), NEW m \in Nat \ {0},
         setup # << "AAC", TRUE >> =>
           NextWord \in Int /\ NextWord' = NextWord + m /\ IsNext(words, m)
  PROVE  /\ SamplesInOrder'
         /\ setup # << "AAC", TRUE >> => LastWord(frames'[Len(frames')]) = NextWord' - 1
<1> DEFINE n == Len(frames)
<1>1. /\ n \in Nat /\ DOMAIN frames = 1 .. n
      /\ Len(frames') = n + 1 /\ DOMAIN frames' = 1 .. n + 1
      /\ \A k \in 1 .. n : frames'[k] = frames[k]
      /\ frames'[n + 1].words = words
  BY AppendedFrame
<1>2. words \in Seq(Words) /\ Len(words) \in Nat \ {0} /\ DOMAIN words = 1 .. Len(words)
  BY EmptySeq, LenProperties
<1>3. Copies' = Copies /\ Copies \in {1, 2}
  BY ChannelsTypes DEF Copies, Format, Channels
<1>4. ASSUME setup # << "AAC", TRUE >>
      PROVE  LastWord(frames'[Len(frames')]) = NextWord' - 1
  BY <1>1, <1>4 DEF LastWord, IsNext
<1>5. ASSUME setup # << "AAC", TRUE >>, NEW k \in 1 .. n + 1
      PROVE  LET new == frames'[k].words
                 first == IF k = 1 THEN new[1]
                          ELSE frames'[k - 1].words[Len(frames'[k - 1].words)] + 1
             IN \A i \in DOMAIN new : new[i] = first + (i - 1) \div Copies
  <2>1. CASE k \in 1 .. n
    <3>1. frames'[k] = frames[k] /\ (k # 1 => frames'[k - 1] = frames[k - 1])
      BY <1>1, <2>1
    <3>2. LET old == frames[k].words
              first == IF k = 1 THEN old[1]
                       ELSE frames[k - 1].words[Len(frames[k - 1].words)] + 1
          IN \A i \in DOMAIN old : old[i] = first + (i - 1) \div Copies
      BY <1>1, <1>5, <2>1 DEF SamplesInOrder
    <3>3. CASE k = 1
      BY <3>1, <3>2, <3>3
    <3>4. CASE k # 1
      BY <3>1, <3>2, <3>4
    <3> QED
      BY <3>3, <3>4
  <2>2. CASE k = n + 1 /\ n = 0
    <3>1. words[1] = NextWord
      <4>1. (1 - 1) \div Copies = 0
        BY <1>3
      <4>2. words[1] = NextWord + (1 - 1) \div Copies
        BY <1>2, <1>5 DEF IsNext
      <4> QED
        BY <4>1, <4>2, <1>5
    <3> QED
      BY <1>1, <1>5, <2>2, <3>1 DEF IsNext
  <2>3. CASE k = n + 1 /\ n > 0
    <3>1. frames # << >> /\ frames'[k - 1] = frames[n]
      BY <1>1, <2>3
    <3>2. frames[n].words[Len(frames[n].words)] = NextWord - 1
      BY <1>5, <3>1 DEF Contiguous, LastWord
    <3>3. frames'[k - 1].words[Len(frames'[k - 1].words)] + 1 = NextWord
      BY <1>5, <3>1, <3>2
    <3>4. k # 1 /\ frames'[k].words = words
      BY <1>1, <2>3
    <3> QED
      BY <1>5, <3>3, <3>4 DEF IsNext
  <2> QED
    BY <1>1, <2>1, <2>2, <2>3
<1>6. SamplesInOrder'
  BY <1>1, <1>3, <1>5 DEF SamplesInOrder
<1> QED
  BY <1>4, <1>6

(* The time line moves on with the samples.                                *)
LEMMA PublishedPace ==
  ASSUME Types, Times, had, OnPace, PaceOfMono, UNCHANGED << had, setup >>,
         NEW words \in Seq(Words) \ {<< >>}, Direct(words), NEW m \in Nat \ {0},
         IsPaced => /\ NextWord \in Int /\ NextWord' = NextWord + m /\ IsNext(words, m)
                    /\ Len(words) \div Channels = m /\ m * Second >= SampleRate
  PROVE  OnPace' /\ PaceOfMono'
<1> SUFFICES ASSUME IsPaced
             PROVE  OnPace' /\ PaceOfMono'
  BY DEF OnPace, PaceOfMono, IsPaced, Format
<1> DEFINE n == Len(frames)
           time == lastTime'
           passed == timeline - frames[1].time
           given == NextWord - frames[1].words[1]
<1>1. /\ n \in Nat /\ DOMAIN frames = 1 .. n
      /\ Len(frames') = n + 1 /\ DOMAIN frames' = 1 .. n + 1
      /\ \A k \in 1 .. n : frames'[k] = frames[k]
      /\ frames'[n + 1].words = words /\ frames'[n + 1].time = time
  BY AppendedFrame
<1>2. words[1] = NextWord
  <2>1. Copies \in {1, 2} /\ (1 - 1) \div Copies = 0
    BY ChannelsTypes
  <2>2. Len(words) \in Nat \ {0} /\ DOMAIN words = 1 .. Len(words)
    BY EmptySeq, LenProperties
  <2>3. words[1] = NextWord + (1 - 1) \div Copies
    BY <2>2 DEF IsNext
  <2> QED
    BY <2>1, <2>3
<1>3. /\ time \in Nat /\ timeline \in Nat
      /\ timeline' = time + Duration(words)
      /\ frames # << >> => time = timeline
  <2>1. timeline \in Nat
    BY DEF Types
  <2>2. PICK t \in Nat \ {0} :
          /\ frames # << >> => t = timeline
          /\ lastTime' = t /\ timeline' = t + Duration(words)
    BY DirectEffect
  <2> QED
    BY <2>1, <2>2
<1>4. Duration(words) = Ticks(m) /\ Ticks(m) \in Nat \ {0}
  <2>1. Ticks(m) \in Nat \ {0}
    BY TicksOfFrame
  <2> QED
    BY <2>1 DEF Duration, Larger
<1>5. CASE n = 0
  <2>1. Ticks(0) = 0
    <3>1. SampleRate \in Nat \ {0} /\ Second \in Nat
      BY PipelineAssumption
    <3> QED
      BY <3>1 DEF Ticks
  <2>2. frames'[1].words[1] = NextWord /\ frames'[1].time = time /\ DOMAIN frames' = {1}
    BY <1>1, <1>2, <1>5
  <2>3. OnPace'
    BY <1>1, <1>3, <1>4, <1>5, <2>2 DEF OnPace
  <2>4. PaceOfMono'
    BY <1>3, <2>1, <2>2 DEF PaceOfMono, KeepsPace
  <2> QED
    BY <2>3, <2>4
<1>6. CASE n # 0
  <2>1. /\ frames[1].words[1] \in Int /\ given \in Nat
        /\ passed <= Ticks(given) /\ Ticks(given) <= passed + n
        /\ frames # << >> /\ time = timeline
    BY <1>1, <1>3, <1>6 DEF OnPace
  <2>2. frames[1].time \in Nat /\ passed \in Int
    BY <1>1, <1>3, <1>6, FrameFields DEF Types
  <2>3. frames'[1] = frames[1]
    BY <1>1, <1>6
  <2>4. OnPace'
    <3>1. /\ Ticks(given) \in Nat /\ Ticks(given) + Ticks(m) <= Ticks(given + m)
          /\ Ticks(given + m) <= Ticks(given) + Ticks(m) + 1
      BY <2>1, TicksAdd
    <3>2. NextWord' - frames'[1].words[1] = given + m
      BY <2>1, <2>3
    <3>3. timeline' - frames'[1].time = passed + Ticks(m)
      BY <1>3, <1>4, <2>1, <2>2, <2>3
    <3>4. frames'[1].words[1] \in Int
      BY <2>1, <2>3
    <3> HIDE DEF given, passed
    <3>5. /\ given + m \in Nat /\ passed + Ticks(m) <= Ticks(given + m)
          /\ Ticks(given + m) <= passed + Ticks(m) + Len(frames')
      <4>1. given + m \in Nat
        BY <2>1
      <4>2. Ticks(given + m) \in Nat
        BY <4>1, TicksType
      <4>3. n \in Nat /\ Len(frames') = n + 1
        BY <1>1
      <4>4. Ticks(m) \in Nat
        BY <1>4
      <4>5. passed <= Ticks(given) /\ Ticks(given) <= passed + n
        BY <2>1
      <4> HIDE DEF n
      <4>6. passed + Ticks(m) <= Ticks(given + m)
        BY <2>2, <3>1, <4>2, <4>4, <4>5
      <4>7. Ticks(given + m) <= passed + n + Ticks(m) + 1
        BY <2>2, <3>1, <4>2, <4>3, <4>4, <4>5
      <4> QED
        BY <2>2, <4>1, <4>3, <4>4, <4>6, <4>7
    <3> QED
      BY <3>2, <3>3, <3>4, <3>5 DEF OnPace
  <2>5. ASSUME NEW k \in 1 .. n + 1
        PROVE  LET since == frames'[k].time - frames'[1].time
                   due == Ticks(frames'[k].words[1] - frames'[1].words[1])
               IN since <= due /\ due < since + k
    <3>1. CASE k \in 1 .. n
      BY <1>1, <2>3, <3>1 DEF PaceOfMono, KeepsPace, IsPaced
    <3>2. CASE k = n + 1
      <4>1. frames'[k].time - frames'[1].time = passed
        BY <1>1, <2>1, <2>3, <3>2
      <4>2. frames'[k].words[1] - frames'[1].words[1] = given
        BY <1>1, <1>2, <2>3, <3>2
      <4>3. Ticks(given) \in Nat
        BY <2>1, TicksAdd
      <4> HIDE DEF given, passed
      <4> QED
        BY <1>1, <2>1, <2>2, <3>2, <4>1, <4>2, <4>3
    <3> QED
      BY <1>1, <3>1, <3>2
  <2>6. PaceOfMono'
    BY <1>1, <2>5 DEF PaceOfMono, KeepsPace
  <2> QED
    BY <2>4, <2>6
<1> QED
  BY <1>5, <1>6

-----------------------------------------------------------------------------
(* The invariant holds at the beginning, and every step keeps it.          *)

LEMMA Begins == Init => IInv
<1> SUFFICES ASSUME Init
             PROVE  IInv
  OBVIOUS
<1>1. setup \in Setups /\ Channels \in {1, 2}
  BY SetupTypes DEF Init, Channels
<1>2. Agrees(reframer, Channels) /\ ~HasMoreFrames(reframer)
  BY <1>1, FreshAgrees DEF Init, FreshReframer
<1>3. frames = << >> /\ frameBuffer = << >> /\ frames \in Seq(Frame) /\ frameBuffer \in Seq(Words)
  BY DEF Init
<1>4. Types
  BY <1>1, <1>2, <1>3 DEF Init, Types
<1>5. Backlog
  <2>1. ~MoreOpus
    BY <1>1, <1>3, PipelineAssumption DEF MoreOpus
  <2> QED
    BY <1>2, <2>1 DEF Init, Backlog
<1>6. Contiguous /\ OnPace
  BY DEF Init, Contiguous, OnPace
<1>7. Times
  BY DEF Init, Times
<1>8. SamplesInOrder /\ PaceOfMono
  BY <1>3 DEF SamplesInOrder, PaceOfMono, KeepsPace
<1> QED
  BY <1>4, <1>5, <1>6, <1>7, <1>8 DEF IInv

(* On a new time line there is nothing to show.                            *)
LEMMA NoFrames ==
  ASSUME frames' = << >>
  PROVE  SamplesInOrder' /\ PaceOfMono'
<1>1. DOMAIN frames' = {}
  OBVIOUS
<1> QED
  BY <1>1 DEF SamplesInOrder, PaceOfMono, KeepsPace

(* A step that leaves the worker's data alone.                             *)
LEMMA SameData ==
  ASSUME IInv, UNCHANGED << setup, had, reframer, frameBuffer, clock, captured >>
  PROVE  Contiguous' /\ OnPace' /\ SamplesInOrder' /\ PaceOfMono'
<1>1. /\ Format' = Format /\ Channels' = Channels /\ Copies' = Copies
      /\ IsPaced' = IsPaced /\ KeepsPace' = KeepsPace
  BY DEF Format, Channels, Copies, IsPaced, KeepsPace, clock
<1>2. NextWord' = NextWord
  BY <1>1 DEF NextWord
<1>3. Contiguous'
  BY <1>1, <1>2 DEF IInv, Contiguous, clock
<1>4. OnPace'
  BY <1>1, <1>2 DEF IInv, OnPace, clock
<1>5. SamplesInOrder' /\ PaceOfMono'
  BY <1>1 DEF IInv, SamplesInOrder, PaceOfMono, clock
<1> QED
  BY <1>3, <1>4, <1>5

(* The fields of the worker keep their types and less than a frame.        *)
LEMMA SameWorker ==
  ASSUME IInv, UNCHANGED << setup, reframer, frameBuffer, dropped >>
  PROVE  /\ Agrees(reframer, Channels)' /\ setup' \in Setups /\ frameBuffer' \in Seq(Words)
         /\ HasMoreFrames(reframer)' = HasMoreFrames(reframer) /\ MoreOpus' = MoreOpus
         /\ Format' = Format /\ dropped' = 0
<1>1. Channels' = Channels /\ Format' = Format /\ MoreOpus' = MoreOpus
  BY DEF Channels, Format, MoreOpus
<1>2. Agrees(reframer, Channels)' = Agrees(reframer, Channels)
  BY <1>1 DEF Agrees, IsLinked, Reframers, RingSize
<1> QED
  BY <1>1, <1>2 DEF IInv, Types, Backlog, HasMoreFrames

LEMMA JoinKeeps ==
  ASSUME IInv, NEW s \in Subscribers, Join(s)
  PROVE  IInv'
<1>1. UNCHANGED << loop, clock, captured, seen >>
  BY DEF Join
<1>2. Contiguous' /\ OnPace' /\ SamplesInOrder' /\ PaceOfMono'
  BY <1>1, SameData DEF loop
<1>3. Types' /\ Backlog'
  BY <1>1, SameWorker DEF IInv, Types, Backlog, loop, clock
<1>4. Times'
  BY <1>1 DEF IInv, Times, Join, loop, clock
<1> QED
  BY <1>2, <1>3, <1>4 DEF IInv

LEMMA LeaveKeeps ==
  ASSUME IInv, NEW s \in Subscribers, Leave(s)
  PROVE  IInv'
<1>1. UNCHANGED << loop, clock, captured >> /\ seen' = [seen EXCEPT ![s] = 0]
  BY DEF Leave
<1>2. Contiguous' /\ OnPace' /\ SamplesInOrder' /\ PaceOfMono'
  BY <1>1, SameData DEF loop
<1>3. seen \in [Subscribers -> Nat] /\ seen' \in [Subscribers -> Nat] /\ lastTime \in Nat
  BY <1>1 DEF IInv, Types
<1>4. Types' /\ Backlog'
  BY <1>1, <1>3, SameWorker DEF IInv, Types, Backlog, loop, clock
<1>5. Times'
  BY <1>1, <1>3 DEF IInv, Times, Leave, loop, clock
<1> QED
  BY <1>2, <1>4, <1>5 DEF IInv

(* The head of the loop, for the first subscriber and otherwise.           *)
LEMMA SampleKeeps ==
  ASSUME IInv, Sample
  PROVE  IInv'
<1>1. /\ pc' = "poll" /\ had' = (subscribers # {}) /\ had' \in BOOLEAN
      /\ UNCHANGED << setup, dropped, captured, seen, subscribers >>
  BY DEF Sample, others
<1>2. Channels' = Channels /\ Format' = Format /\ Channels \in {1, 2}
  BY <1>1, ChannelsTypes DEF Channels, Format, IInv
<1>3. CASE had' /\ ~had
  <2>1. /\ timeline' = 0 /\ lastTime' = 0 /\ origin' = 0 /\ frames' = << >>
        /\ frameBuffer' = << >> /\ reframer' = FreshReframer
    BY <1>3 DEF Sample, ResetTimeline
  <2>2. /\ Agrees(reframer', Channels) /\ ~HasMoreFrames(reframer')
        /\ \A n \in Int : Holds(reframer'.buffer, n)
        /\ reframer'.buffer.size = 0
    BY <1>2, <2>1, FreshAgrees DEF FreshReframer
  <2>3. frames' \in Seq(Frame) /\ frameBuffer' \in Seq(Words)
    BY <2>1
  <2>4. Types'
    BY <1>1, <1>2, <2>1, <2>2, <2>3 DEF IInv, Types
  <2>5. ~MoreOpus'
    BY <1>2, <2>1, PipelineAssumption DEF MoreOpus
  <2>6. Backlog'
    BY <1>1, <2>2, <2>5 DEF IInv, Backlog
  <2>7. NextWord' \in Int
    BY <1>1, <2>1, <2>2 DEF NextWord, IInv, Types
  <2>8. Contiguous' /\ OnPace' /\ SamplesInOrder' /\ PaceOfMono'
    <3>1. Contiguous'
      BY <2>1, <2>2, <2>7 DEF Contiguous
    <3>2. OnPace'
      BY <2>1 DEF OnPace
    <3> QED
      BY <2>1, <3>1, <3>2, NoFrames
  <2>9. Times'
    <3>1. \A s \in Subscribers : seen'[s] = 0
      BY <1>1, <1>3 DEF IInv, Times
    <3> QED
      BY <1>1, <2>1, <3>1 DEF Times
  <2> QED
    BY <2>4, <2>6, <2>8, <2>9 DEF IInv
<1>4. CASE ~(had' /\ ~had)
  <2>1. UNCHANGED << clock, frameBuffer, reframer >>
    BY <1>4 DEF Sample
  <2>2. had' => had
    BY <1>1, <1>4
  <2>3. Contiguous' /\ OnPace' /\ SamplesInOrder' /\ PaceOfMono'
    <3>1. CASE had' = had
      BY <1>1, <2>1, <3>1, SameData
    <3>2. CASE ~had'
      <4>1. SamplesInOrder' /\ PaceOfMono'
        <5>1. Copies' = Copies /\ KeepsPace' = KeepsPace
          BY <1>1, <1>2, <2>1 DEF Copies, KeepsPace, clock
        <5> QED
          BY <1>1, <1>2, <2>1, <5>1 DEF IInv, SamplesInOrder, PaceOfMono, clock
      <4> QED
        BY <3>2, <4>1 DEF Contiguous, OnPace
    <3> QED
      BY <1>1, <2>2, <3>1, <3>2 DEF IInv, Types
  <2>4. Types' /\ Backlog'
    BY <1>1, <2>1, SameWorker DEF IInv, Types, Backlog, Sample, clock
  <2>5. Times'
    BY <1>1, <2>1, <2>2 DEF IInv, Times, clock
  <2> QED
    BY <2>3, <2>4, <2>5 DEF IInv
<1> QED
  BY <1>3, <1>4

LEMMA PollTimeoutKeeps ==
  ASSUME IInv, PollTimeout
  PROVE  IInv'
<1>1. /\ pc = "poll" /\ pc' = "sample"
      /\ UNCHANGED << had, reframer, frameBuffer, setup, dropped, clock, captured, seen,
                      subscribers >>
  BY DEF PollTimeout, others
<1>2. Contiguous' /\ OnPace' /\ SamplesInOrder' /\ PaceOfMono'
  BY <1>1, SameData
<1>3. Types' /\ Backlog'
  BY <1>1, SameWorker DEF IInv, Types, Backlog, clock
<1>4. Times'
  BY <1>1 DEF IInv, Times, clock
<1> QED
  BY <1>2, <1>3, <1>4 DEF IInv

LEMMA EmitDoneKeeps ==
  ASSUME IInv, EmitDone
  PROVE  IInv'
<1>1. /\ pc = "emit" /\ pc' = "sample"
      /\ UNCHANGED << had, reframer, frameBuffer, setup, dropped, clock, captured, seen,
                      subscribers >>
  BY DEF EmitDone, others
<1>2. Contiguous' /\ OnPace' /\ SamplesInOrder' /\ PaceOfMono'
  BY <1>1, SameData
<1>3. ~HasMoreFrames(reframer) /\ ~MoreOpus
  BY DEF EmitDone, IInv, Backlog
<1>4. Types' /\ Backlog'
  BY <1>1, <1>3, SameWorker DEF IInv, Types, Backlog, clock
<1>5. Times'
  BY <1>1 DEF IInv, Times, clock
<1> QED
  BY <1>2, <1>4, <1>5 DEF IInv

(* A new worker begins with nothing.                                       *)
LEMMA RestartKeeps ==
  ASSUME IInv, NEW new \in Setups, Restart(new)
  PROVE  IInv'
<1>1. /\ pc' = pc /\ setup' = new /\ had' = FALSE /\ dropped' = 0 /\ pc = "sample"
      /\ timeline' = 0 /\ lastTime' = 0 /\ origin' = 0 /\ frames' = << >>
      /\ frameBuffer' = << >> /\ captured' = captured
      /\ reframer' = AudioReframer(AacInput, AacOutput, IF new[2] THEN 2 ELSE 1)
      /\ seen' = [s \in Subscribers |-> 0]
  BY DEF Restart
<1>2. Channels' \in {1, 2} /\ reframer' = AudioReframer(AacInput, AacOutput, Channels')
  BY <1>1, SetupTypes DEF Channels
<1>3. Agrees(reframer', Channels') /\ ~HasMoreFrames(reframer')
  BY <1>2, FreshAgrees
<1>4. frames' \in Seq(Frame) /\ frameBuffer' \in Seq(Words)
  BY <1>1
<1>5. Types'
  BY <1>1, <1>3, <1>4 DEF IInv, Types
<1>6. ~MoreOpus'
  BY <1>1, <1>2, PipelineAssumption DEF MoreOpus
<1>7. Backlog'
  BY <1>1, <1>3, <1>6 DEF Backlog
<1>8. Contiguous' /\ OnPace' /\ SamplesInOrder' /\ PaceOfMono'
  <2>1. Contiguous' /\ OnPace'
    BY <1>1 DEF Contiguous, OnPace
  <2> QED
    BY <1>1, <2>1, NoFrames
<1>9. Times'
  BY <1>1 DEF Times
<1> QED
  BY <1>5, <1>7, <1>8, <1>9 DEF IInv

(* The device gives the n samples that follow those captured.              *)
LEMMA CapturedWords ==
  ASSUME Types, NEW n \in Nat \ {0}
  PROVE  /\ Captured(n) \in Seq(Words) /\ Len(Captured(n)) = n /\ DOMAIN Captured(n) = 1 .. n
         /\ \A i \in 1 .. n : Captured(n)[i] = captured + i
<1>1. captured \in Nat
  BY DEF Types
<1>2. \A i \in 1 .. n : captured + i \in Words
  BY <1>1 DEF Words
<1>3. Captured(n) \in [1 .. n -> Words]
  BY <1>2 DEF Captured
<1>4. Len(Captured(n)) = n
  BY DEF Captured
<1> QED
  BY <1>3, <1>4 DEF Captured

LEMMA UpmixedWords ==
  ASSUME NEW words \in Seq(Words), words # << >>
  PROVE  /\ Upmixed(words) \in Seq(Words) /\ Upmixed(words) # << >>
         /\ Len(Upmixed(words)) = 2 * Len(words) /\ DOMAIN Upmixed(words) = 1 .. 2 * Len(words)
         /\ \A i \in 1 .. 2 * Len(words) :
              (i + 1) \div 2 \in 1 .. Len(words) /\ Upmixed(words)[i] = words[(i + 1) \div 2]
<1>1. Len(words) \in Nat \ {0}
  BY EmptySeq
<1>2. \A i \in 1 .. 2 * Len(words) : (i + 1) \div 2 \in 1 .. Len(words)
  BY <1>1
<1>3. \A i \in 1 .. 2 * Len(words) : words[(i + 1) \div 2] \in Words
  BY <1>2, ElementOfSeq
<1>4. Upmixed(words) \in [1 .. 2 * Len(words) -> Words]
  BY <1>3 DEF Upmixed
<1>5. Len(Upmixed(words)) = 2 * Len(words) /\ Upmixed(words) \in Seq(Words)
  BY <1>1, <1>4 DEF Upmixed
<1>6. Upmixed(words) # << >>
  BY <1>1, <1>5
<1> QED
  BY <1>2, <1>5, <1>6 DEF Upmixed

(* The frames of the device are those the assumptions speak of.            *)
LEMMA DeviceFrameTypes ==
  ASSUME Types, NEW n \in DeviceFrames[Format]
  PROVE  /\ n \in Nat \ {0}
         /\ Format = "AAC" => n = AacInput
         /\ Format = "OPUS" => n + OpusTarget <= CapFrames * OpusTarget + 1
         /\ Format = "PCM" => n * Second >= SampleRate
<1>1. Format \in Formats
  BY ChannelsTypes
<1>2. DeviceFrames[Format] \subseteq Nat \ {0}
  BY <1>1, PipelineAssumption
<1> QED
  BY <1>2, FrameAssumption

(* No subscribers: the frame is dropped.                                   *)
LEMMA GetFrameDropped ==
  ASSUME IInv, NEW n \in Nat \ {0}, ~had, pc' = "sample", captured' = captured + n, pc = "poll",
         UNCHANGED << clock, seen, reframer, frameBuffer, dropped, had, setup, others >>
  PROVE  IInv'
<1>1. Contiguous' /\ OnPace'
  BY DEF Contiguous, OnPace
<1>2. Copies' = Copies /\ KeepsPace' = KeepsPace
  BY DEF Copies, Channels, Format, KeepsPace, clock
<1>3. SamplesInOrder' /\ PaceOfMono'
  BY <1>2 DEF IInv, SamplesInOrder, PaceOfMono, Format, clock
<1>4. captured' \in Nat
  BY DEF IInv, Types
<1>5. Types' /\ Backlog'
  BY <1>4, SameWorker DEF IInv, Types, Backlog, clock
<1>6. Times'
  BY DEF IInv, Times, clock, others
<1> QED
  BY <1>1, <1>3, <1>5, <1>6 DEF IInv

(* What the steps have in common that only take samples in.                *)
LEMMA TakenIn ==
  ASSUME IInv, NEW n \in Nat \ {0}, captured' = captured + n, had, pc' = "emit",
         UNCHANGED << clock, seen, had, setup, others >>,
         setup # << "AAC", TRUE >> => NextWord' = NextWord
  PROVE  /\ Times' /\ OnPace' /\ SamplesInOrder' /\ PaceOfMono'
         /\ setup' \in Setups /\ captured' \in Nat
         /\ frames' \in Seq(Frame) /\ seen' \in [Subscribers -> Nat]
         /\ timeline' \in Nat /\ lastTime' \in Nat /\ origin' \in Nat
         /\ Format' = Format /\ Channels' = Channels /\ Channels \in {1, 2}
<1>1. /\ Format' = Format /\ Channels' = Channels /\ Copies' = Copies
      /\ IsPaced' = IsPaced /\ KeepsPace' = KeepsPace
  BY DEF Format, Channels, Copies, IsPaced, KeepsPace, clock
<1>2. OnPace'
  <2>1. IsPaced => NextWord' = NextWord
    BY StereoAac DEF IsPaced
  <2> QED
    BY <1>1, <2>1 DEF IInv, OnPace, clock
<1>3. SamplesInOrder' /\ PaceOfMono'
  BY <1>1 DEF IInv, SamplesInOrder, PaceOfMono, clock
<1>4. Times'
  BY DEF IInv, Times, clock, others
<1>5. /\ setup' \in Setups /\ captured' \in Nat
      /\ frames' \in Seq(Frame) /\ seen' \in [Subscribers -> Nat]
      /\ timeline' \in Nat /\ lastTime' \in Nat /\ origin' \in Nat
  BY DEF IInv, Types, clock
<1> QED
  BY <1>1, <1>2, <1>3, <1>4, <1>5, ChannelsTypes DEF IInv

LEMMA GetFrameAac ==
  ASSUME IInv, NEW n \in DeviceFrames[Format], had, pc = "poll", pc' = "emit",
         Format = "AAC", Reframe(Captured(n)), captured' = captured + n,
         UNCHANGED << clock, seen, frameBuffer, dropped, had, setup, others >>
  PROVE  IInv'
<1>1. n \in Nat \ {0} /\ n = AacInput /\ captured \in Nat
  BY DeviceFrameTypes DEF IInv, Types
<1>2. Agrees(reframer, Channels) /\ Channels \in {1, 2} /\ ~HasMoreFrames(reframer)
  BY ChannelsTypes DEF IInv, Types, Backlog
<1>3. /\ Captured(n) \in Seq(Words) /\ Len(Captured(n)) = n
      /\ \A i \in 1 .. n : Captured(n)[i] = captured + i
  BY <1>1, CapturedWords DEF IInv
<1>4. /\ Fits(reframer.buffer, InputWords(reframer))
      /\ Agrees(AddFrame(reframer, Captured(n)), Channels)
      /\ AddFrame(reframer, Captured(n)).buffer.size = reframer.buffer.size + AacInput * Channels
      /\ \A first \in Int :
           /\ Channels = 1 /\ Len(Captured(n)) = AacInput /\ Holds(reframer.buffer, first)
           /\ \A i \in 1 .. AacInput : Captured(n)[i] = first + reframer.buffer.size + i - 1
           => Holds(AddFrame(reframer, Captured(n)).buffer, first)
  BY <1>2, <1>3, AddFrameKeeps
<1>5. reframer' = AddFrame(reframer, Captured(n))
  BY <1>4 DEF Reframe
<1>6. reframer.buffer.size \in Nat
  BY <1>2, RingRoom DEF Agrees, Reframers, Rings
<1>7. Format' = "AAC" /\ Channels' = Channels
  BY DEF Format, Channels
<1>8. setup # << "AAC", TRUE >> => Channels = 1 /\ NextWord' = NextWord /\ NextWord \in Int
  <2>1. setup # << "AAC", TRUE >> => Channels = 1
    BY ChannelsTypes DEF IInv
  <2> QED
    BY <1>1, <1>4, <1>5, <1>6, <1>7, <2>1 DEF NextWord
<1>9. /\ Times' /\ OnPace' /\ SamplesInOrder' /\ PaceOfMono'
      /\ setup' \in Setups /\ captured' \in Nat
      /\ frames' \in Seq(Frame) /\ seen' \in [Subscribers -> Nat]
      /\ timeline' \in Nat /\ lastTime' \in Nat /\ origin' \in Nat
  BY <1>1, <1>8, TakenIn
<1>10. Contiguous'
  <2> SUFFICES ASSUME setup # << "AAC", TRUE >>
               PROVE  /\ Holds(reframer'.buffer, NextWord)
                      /\ frames # << >> => LastWord(frames[Len(frames)]) = NextWord - 1
    BY <1>7, <1>8 DEF Contiguous, clock, LastWord
  <2>1. /\ Holds(reframer.buffer, NextWord)
        /\ frames # << >> => LastWord(frames[Len(frames)]) = NextWord - 1
    BY DEF IInv, Contiguous
  <2>2. \A i \in 1 .. AacInput : Captured(n)[i] = NextWord + reframer.buffer.size + i - 1
    BY <1>1, <1>3, <1>6 DEF NextWord
  <2>3. Holds(AddFrame(reframer, Captured(n)).buffer, NextWord)
    BY <1>1, <1>3, <1>4, <1>8, <2>1, <2>2
  <2> QED
    BY <1>5, <2>1, <2>3
<1>11. Types'
  BY <1>4, <1>5, <1>7, <1>9 DEF IInv, Types
<1>12. Backlog'
  BY <1>7 DEF IInv, Backlog, MoreOpus
<1> QED
  BY <1>9, <1>10, <1>11, <1>12 DEF IInv

LEMMA GetFrameOpus ==
  ASSUME IInv, NEW n \in DeviceFrames[Format], had, pc = "poll", pc' = "emit",
         Format = "OPUS", captured' = captured + n,
         frameBuffer' = Accumulated(Captured(n)),
         dropped' = IF Overflows(Captured(n)) THEN dropped + 1 ELSE dropped,
         UNCHANGED << clock, seen, reframer, had, setup, others >>
  PROVE  IInv'
<1>1. n \in Nat \ {0} /\ n + OpusTarget <= CapFrames * OpusTarget + 1 /\ captured \in Nat
  BY DeviceFrameTypes DEF IInv, Types
<1>2. /\ Captured(n) \in Seq(Words) /\ Len(Captured(n)) = n
      /\ \A i \in 1 .. n : Captured(n)[i] = captured + i
  BY <1>1, CapturedWords DEF IInv
<1>3. Channels \in {1, 2} /\ frameBuffer \in Seq(Words) /\ Len(frameBuffer) \in Nat
  BY ChannelsTypes, LenProperties DEF IInv, Types
<1>4. ~Overflows(Captured(n))
  <2>1. OpusTarget \in Nat /\ CapFrames * OpusTarget \in Nat
    BY PipelineAssumption
  <2>2. Len(frameBuffer) \div Channels < OpusTarget
    BY <1>3, <2>1 DEF IInv, Backlog, MoreOpus
  <2>3. n \div Channels <= n
    BY <1>1, <1>3
  <2> DEFINE cap == CapFrames * OpusTarget
             has == Len(frameBuffer) \div Channels
             adds == n \div Channels
  <2>4. has \in Int /\ adds \in Int /\ cap \in Int
    BY <1>1, <1>3, <2>1
  <2> HIDE DEF cap, has, adds
  <2>5. ~(has + adds > cap)
    BY <1>1, <2>1, <2>2, <2>3, <2>4 DEF cap, has, adds
  <2> QED
    BY <1>2, <2>5 DEF Overflows, Predicted, cap, has, adds
<1>5. frameBuffer' = frameBuffer \o Captured(n) /\ dropped' = dropped
  BY <1>4 DEF Accumulated
<1>6. /\ frameBuffer' \in Seq(Words) /\ Len(frameBuffer') = Len(frameBuffer) + n
      /\ DOMAIN frameBuffer = 1 .. Len(frameBuffer)
      /\ DOMAIN frameBuffer' = 1 .. Len(frameBuffer) + n
      /\ \A i \in 1 .. Len(frameBuffer) + n :
           frameBuffer'[i] = IF i <= Len(frameBuffer) THEN frameBuffer[i]
                             ELSE Captured(n)[i - Len(frameBuffer)]
  <2> DEFINE data == Captured(n)
  <2> HIDE DEF data
  <2>1. /\ frameBuffer \o data \in Seq(Words)
        /\ Len(frameBuffer \o data) = Len(frameBuffer) + Len(data)
        /\ \A i \in 1 .. Len(frameBuffer) + Len(data) : (frameBuffer \o data)[i] =
             IF i <= Len(frameBuffer) THEN frameBuffer[i] ELSE data[i - Len(frameBuffer)]
    BY <1>2, <1>3, ConcatProperties DEF data
  <2>2. frameBuffer' = frameBuffer \o data /\ Len(data) = n
    BY <1>2, <1>5 DEF data
  <2>3. DOMAIN frameBuffer = 1 .. Len(frameBuffer) /\ DOMAIN frameBuffer' = 1 .. Len(frameBuffer')
    BY <1>3, <2>1, <2>2, LenProperties
  <2> QED
    BY <2>1, <2>2, <2>3 DEF data
<1>7. Format' = "OPUS" /\ Channels' = Channels
  BY DEF Format, Channels
<1>8. NextWord' = NextWord /\ NextWord = captured - Len(frameBuffer) + 1
  BY <1>1, <1>3, <1>6, <1>7 DEF NextWord
<1>9. /\ Times' /\ OnPace' /\ SamplesInOrder' /\ PaceOfMono'
      /\ setup' \in Setups /\ captured' \in Nat
      /\ frames' \in Seq(Frame) /\ seen' \in [Subscribers -> Nat]
      /\ timeline' \in Nat /\ lastTime' \in Nat /\ origin' \in Nat
  BY <1>1, <1>8, TakenIn
<1>10. Contiguous'
  <2>1. setup # << "AAC", TRUE >>
    BY StereoAac
  <2>2. /\ \A i \in 1 .. Len(frameBuffer) : frameBuffer[i] = NextWord + i - 1
        /\ frames # << >> => LastWord(frames[Len(frames)]) = NextWord - 1
    BY <1>6, <2>1 DEF IInv, Contiguous
  <2>3. ASSUME NEW i \in 1 .. Len(frameBuffer) + n
        PROVE  frameBuffer'[i] = NextWord + i - 1
    <3>1. CASE i <= Len(frameBuffer)
      BY <1>3, <1>6, <2>2, <3>1
    <3>2. CASE i > Len(frameBuffer)
      <4>1. i - Len(frameBuffer) \in 1 .. n
        BY <1>1, <1>3, <3>2
      <4>2. frameBuffer'[i] = captured + (i - Len(frameBuffer))
        BY <1>2, <1>3, <1>6, <3>2, <4>1
      <4> QED
        BY <1>1, <1>3, <1>8, <4>2
    <3> QED
      BY <1>3, <3>1, <3>2
  <2> QED
    BY <1>6, <1>7, <1>8, <2>2, <2>3 DEF Contiguous, clock, LastWord
<1>11. Agrees(reframer, Channels)' /\ ~HasMoreFrames(reframer)' /\ dropped = 0
  <2>1. Agrees(reframer, Channels) /\ ~HasMoreFrames(reframer) /\ dropped = 0
    BY DEF IInv, Types, Backlog
  <2> QED
    BY <1>7, <2>1 DEF Agrees, IsLinked, Reframers, RingSize, HasMoreFrames
<1>12. Types'
  BY <1>6, <1>9, <1>11 DEF IInv, Types
<1>13. Backlog'
  BY <1>5, <1>7, <1>11 DEF Backlog
<1> QED
  BY <1>9, <1>10, <1>12, <1>13 DEF IInv

(* What the steps have in common that give m samples to the encoder.       *)
LEMMA Published ==
  ASSUME IInv, had, UNCHANGED << had, setup, subscribers >>, captured' \in Nat,
         NEW words \in Seq(Words) \ {<< >>}, Direct(words), NEW m \in Nat \ {0},
         setup # << "AAC", TRUE >> =>
           NextWord \in Int /\ NextWord' = NextWord + m /\ IsNext(words, m),
         IsPaced => Len(words) \div Channels = m /\ m * Second >= SampleRate
  PROVE  /\ Times' /\ OnPace' /\ SamplesInOrder' /\ PaceOfMono'
         /\ setup # << "AAC", TRUE >> => LastWord(frames'[Len(frames')]) = NextWord' - 1
         /\ frames' \in Seq(Frame) /\ seen' \in [Subscribers -> Nat]
         /\ timeline' \in Nat /\ lastTime' \in Nat /\ origin' \in Nat
         /\ Format' = Format /\ Channels' = Channels /\ setup' \in Setups
<1>1. Types /\ Times /\ Contiguous /\ OnPace /\ SamplesInOrder /\ PaceOfMono
  BY DEF IInv
<1>2. /\ timeline' \in Nat /\ lastTime' \in Nat /\ origin' \in Nat
      /\ frames' \in Seq(Frame) /\ seen' \in [Subscribers -> Nat]
      /\ Times'
  BY <1>1, PublishedTimes
<1>3. /\ SamplesInOrder'
      /\ setup # << "AAC", TRUE >> => LastWord(frames'[Len(frames')]) = NextWord' - 1
  BY <1>1, PublishedOrder
<1>4. OnPace' /\ PaceOfMono'
  <2>1. IsPaced => setup # << "AAC", TRUE >>
    BY StereoAac DEF IsPaced
  <2> QED
    BY <1>1, <2>1, PublishedPace
<1>5. Format' = Format /\ Channels' = Channels /\ setup' \in Setups
  BY <1>1 DEF Format, Channels, Types
<1> QED
  BY <1>2, <1>3, <1>4, <1>5

LEMMA GetFramePcm ==
  ASSUME IInv, NEW n \in DeviceFrames[Format], had, pc = "poll", pc' = "sample",
         Format = "PCM", captured' = captured + n,
         Direct(IF Channels = 2 THEN Upmixed(Captured(n)) ELSE Captured(n)),
         UNCHANGED << reframer, frameBuffer, dropped, had, setup, others >>
  PROVE  IInv'
<1> DEFINE words == IF Channels = 2 THEN Upmixed(Captured(n)) ELSE Captured(n)
<1>1. n \in Nat \ {0} /\ n * Second >= SampleRate /\ captured \in Nat /\ captured' \in Nat
  BY DeviceFrameTypes DEF IInv, Types
<1>2. /\ Captured(n) \in Seq(Words) /\ Len(Captured(n)) = n /\ DOMAIN Captured(n) = 1 .. n
      /\ \A i \in 1 .. n : Captured(n)[i] = captured + i
  BY <1>1, CapturedWords DEF IInv
<1>3. Captured(n) # << >>
  BY <1>1, <1>2
<1>4. Channels \in {1, 2} /\ Copies = Channels
  BY ChannelsTypes DEF IInv, Copies
<1>5. /\ words \in Seq(Words) \ {<< >>} /\ Len(words) \div Channels = n
      /\ \A i \in DOMAIN words : words[i] = captured + 1 + (i - 1) \div Copies
      /\ words[Len(words)] = captured + n
  <2>1. CASE Channels = 1
    <3>1. words = Captured(n)
      BY <2>1
    <3>2. n \div 1 = n /\ \A i \in 1 .. n : (i - 1) \div 1 = i - 1
      BY <1>1
    <3>3. \A i \in 1 .. n : Captured(n)[i] = captured + 1 + (i - 1) \div 1
      BY <1>1, <1>2, <3>2
    <3> QED
      BY <1>1, <1>2, <1>3, <1>4, <2>1, <3>1, <3>2, <3>3
  <2>2. CASE Channels = 2
    <3>1. words = Upmixed(Captured(n))
      BY <2>2
    <3>2. /\ Upmixed(Captured(n)) \in Seq(Words) /\ Upmixed(Captured(n)) # << >>
          /\ Len(Upmixed(Captured(n))) = 2 * n /\ DOMAIN Upmixed(Captured(n)) = 1 .. 2 * n
          /\ \A i \in 1 .. 2 * n :
               /\ (i + 1) \div 2 \in 1 .. n
               /\ Upmixed(Captured(n))[i] = Captured(n)[(i + 1) \div 2]
      BY <1>2, <1>3, UpmixedWords
    <3>3. \A i \in 1 .. 2 * n : Upmixed(Captured(n))[i] = captured + (i + 1) \div 2
      BY <1>2, <3>2
    <3>4. \A i \in 1 .. 2 * n : captured + (i + 1) \div 2 = captured + 1 + (i - 1) \div 2
      BY <1>1
    <3>5. (2 * n) \div 2 = n /\ (2 * n + 1) \div 2 = n /\ 2 * n \in 1 .. 2 * n
      BY <1>1
    <3> QED
      BY <1>4, <2>2, <3>1, <3>2, <3>3, <3>4, <3>5
  <2> QED
    BY <1>4, <2>1, <2>2
<1>6. Format' = "PCM" /\ Channels' = Channels
  BY DEF Format, Channels
<1>7. NextWord = captured + 1 /\ NextWord' = captured + n + 1
  BY <1>6 DEF NextWord
<1> HIDE DEF words
<1>8. NextWord \in Int /\ NextWord' = NextWord + n /\ IsNext(words, n)
  BY <1>1, <1>5, <1>7 DEF IsNext
<1>9. Direct(words)
  BY DEF words
<1>10. /\ Times' /\ OnPace' /\ SamplesInOrder' /\ PaceOfMono'
       /\ setup # << "AAC", TRUE >> => LastWord(frames'[Len(frames')]) = NextWord' - 1
       /\ frames' \in Seq(Frame) /\ seen' \in [Subscribers -> Nat]
       /\ timeline' \in Nat /\ lastTime' \in Nat /\ origin' \in Nat /\ setup' \in Setups
  BY <1>1, <1>5, <1>8, <1>9, Published DEF others
<1>11. Contiguous'
  BY <1>6, <1>10 DEF Contiguous
<1>12. Types' /\ Backlog'
  BY <1>1, <1>10, SameWorker DEF IInv, Types, Backlog
<1> QED
  BY <1>10, <1>11, <1>12 DEF IInv

LEMMA EmitAacKeeps ==
  ASSUME IInv, EmitAac
  PROVE  IInv'
<1> DEFINE out == ReframedFrame(reframer)
           words == IF Channels = 2 THEN Upmixed(out) ELSE out
           w == AacOutput * Channels
<1>1. /\ pc = "emit" /\ had /\ Format = "AAC" /\ HasMoreFrames(reframer)
      /\ Direct(words) /\ reframer' = AfterReframed(reframer)
      /\ UNCHANGED << pc, had, frameBuffer, setup, dropped, captured, subscribers >>
  BY DEF EmitAac, IInv, Times, others
<1>2. /\ Agrees(reframer, Channels) /\ Channels \in {1, 2} /\ captured \in Nat
      /\ reframer.buffer.size \in Nat
  <2>1. Agrees(reframer, Channels) /\ Channels \in {1, 2} /\ captured \in Nat
    BY ChannelsTypes DEF IInv, Types
  <2> QED
    BY <2>1, RingRoom DEF Agrees, Reframers, Rings
<1>3. AacOutput \in Nat \ {0} /\ w \in Nat \ {0}
  BY <1>2, RingRoom
<1>4. /\ Agrees(AfterReframed(reframer), Channels)
      /\ AfterReframed(reframer).buffer.size = reframer.buffer.size - w
      /\ out \in [1 .. w -> Words]
      /\ \A n \in Int : Holds(reframer.buffer, n) =>
           /\ \A i \in 1 .. w : out[i] = n + i - 1
           /\ Holds(AfterReframed(reframer).buffer, n + w)
  BY <1>1, <1>2, ReframedKeeps
<1> HIDE DEF out
<1>5. out \in Seq(Words) /\ Len(out) = w /\ out # << >> /\ DOMAIN out = 1 .. w
  BY <1>3, <1>4
<1>6. words \in Seq(Words) \ {<< >>}
  BY <1>5, UpmixedWords
<1>7. Format' = "AAC" /\ Channels' = Channels
  BY <1>1 DEF Format, Channels
<1>8. ASSUME setup # << "AAC", TRUE >>
      PROVE  /\ Channels = 1 /\ Copies = 1 /\ w = AacOutput /\ words = out
             /\ NextWord \in Int /\ NextWord' = NextWord + AacOutput
             /\ IsNext(words, AacOutput) /\ Holds(reframer'.buffer, NextWord')
  <2>1. Channels = 1 /\ Copies = 1 /\ w = AacOutput /\ words = out
    <3>1. Channels = 1
      BY <1>1, <1>8, ChannelsTypes DEF IInv
    <3>2. Copies = 1
      BY <1>1 DEF Copies
    <3> QED
      BY <1>3, <3>1, <3>2
  <2>2. NextWord \in Int /\ NextWord' = NextWord + AacOutput
    BY <1>1, <1>2, <1>3, <1>4, <1>7, <2>1 DEF NextWord
  <2>3. Holds(reframer.buffer, NextWord)
    BY <1>1, <1>8 DEF IInv, Contiguous
  <2>4. \A i \in 1 .. AacOutput : out[i] = NextWord + i - 1
    BY <1>4, <2>1, <2>2, <2>3
  <2>5. \A i \in 1 .. AacOutput : (i - 1) \div 1 = i - 1
    BY <1>3
  <2>6. \A i \in DOMAIN words : words[i] = NextWord + (i - 1) \div Copies
    BY <1>3, <1>5, <2>1, <2>2, <2>4, <2>5
  <2>7. words[Len(words)] = NextWord + AacOutput - 1
    BY <1>3, <1>5, <2>1, <2>4
  <2> QED
    BY <1>1, <1>4, <2>1, <2>2, <2>3, <2>6, <2>7 DEF IsNext
<1>9. IsPaced => Len(words) \div Channels = AacOutput /\ AacOutput * Second >= SampleRate
  <2> SUFFICES ASSUME IsPaced
               PROVE  Len(words) \div Channels = AacOutput /\ AacOutput * Second >= SampleRate
    OBVIOUS
  <2>1. setup # << "AAC", TRUE >>
    BY StereoAac DEF IsPaced
  <2>2. Len(words) = AacOutput /\ Channels = 1
    BY <1>5, <1>8, <2>1
  <2> QED
    BY <1>3, <2>2, FrameAssumption
<1> HIDE DEF words
<1>10. /\ Times' /\ OnPace' /\ SamplesInOrder' /\ PaceOfMono'
       /\ setup # << "AAC", TRUE >> => LastWord(frames'[Len(frames')]) = NextWord' - 1
       /\ frames' \in Seq(Frame) /\ seen' \in [Subscribers -> Nat]
       /\ timeline' \in Nat /\ lastTime' \in Nat /\ origin' \in Nat /\ setup' \in Setups
  BY <1>1, <1>2, <1>3, <1>6, <1>8, <1>9, Published
<1>11. Contiguous'
  BY <1>1, <1>7, <1>8, <1>10 DEF Contiguous
<1>12. Types'
  BY <1>1, <1>2, <1>4, <1>7, <1>10 DEF IInv, Types
<1>13. Backlog'
  BY <1>1, <1>7 DEF IInv, Backlog, MoreOpus
<1> QED
  BY <1>10, <1>11, <1>12, <1>13 DEF IInv

LEMMA EmitOpusKeeps ==
  ASSUME IInv, EmitOpus
  PROVE  IInv'
<1> DEFINE w == OpusTarget * Channels
           len == Len(frameBuffer)
           words == SubSeq(frameBuffer, 1, w)
           rest == SubSeq(frameBuffer, w + 1, len)
<1>1. /\ pc = "emit" /\ had /\ Format = "OPUS" /\ MoreOpus
      /\ Direct(words) /\ frameBuffer' = rest
      /\ UNCHANGED << pc, had, reframer, setup, dropped, captured, subscribers >>
  BY DEF EmitOpus, IInv, Times, others, OpusWords
<1>2. /\ frameBuffer \in Seq(Words) /\ len \in Nat /\ DOMAIN frameBuffer = 1 .. len
      /\ Channels \in {1, 2} /\ captured \in Nat
  BY ChannelsTypes, LenProperties DEF IInv, Types
<1>3. OpusTarget \in Nat \ {0} /\ w \in Nat \ {0} /\ w <= len
  <2>1. OpusTarget \in Nat \ {0} /\ len \div Channels >= OpusTarget
    BY <1>1, PipelineAssumption DEF MoreOpus
  <2>2. CASE Channels = 1
    BY <1>2, <2>1, <2>2
  <2>3. CASE Channels = 2
    BY <1>2, <2>1, <2>3
  <2> QED
    BY <1>2, <2>1, <2>2, <2>3
<1> HIDE DEF w, len
<1>4. \A i \in 1 .. len : frameBuffer[i] \in Words
  BY <1>2, ElementOfSeq DEF len
<1>5. /\ words \in Seq(Words) /\ Len(words) = w /\ DOMAIN words = 1 .. w
      /\ \A i \in 1 .. w : words[i] = frameBuffer[i]
  <2>1. \A i \in 1 .. w : frameBuffer[i] \in Words
    BY <1>2, <1>3, <1>4
  <2>2. /\ words \in Seq(Words) /\ Len(words) = (IF 1 <= w THEN w - 1 + 1 ELSE 0)
        /\ \A i \in 1 .. w - 1 + 1 : words[i] = frameBuffer[1 + i - 1]
    BY <1>3, <2>1, SubSeqProperties
  <2> HIDE DEF words
  <2>3. Len(words) = w /\ w - 1 + 1 = w /\ \A i \in 1 .. w : 1 + i - 1 = i
    BY <1>3, <2>2
  <2> QED
    BY <2>2, <2>3, LenProperties
<1>6. /\ rest \in Seq(Words) /\ Len(rest) = len - w /\ DOMAIN rest = 1 .. len - w
      /\ \A i \in 1 .. len - w : rest[i] = frameBuffer[w + i]
  <2>1. \A i \in w + 1 .. len : frameBuffer[i] \in Words
    BY <1>2, <1>3, <1>4
  <2>2. /\ rest \in Seq(Words) /\ Len(rest) = (IF w + 1 <= len THEN len - (w + 1) + 1 ELSE 0)
        /\ \A i \in 1 .. len - (w + 1) + 1 : rest[i] = frameBuffer[w + 1 + i - 1]
    <3>1. w + 1 \in Int /\ len \in Int
      BY <1>2, <1>3
    <3> QED
      BY <2>1, <3>1, SubSeqProperties
  <2> HIDE DEF rest
  <2>3. /\ Len(rest) = len - w /\ len - (w + 1) + 1 = len - w
        /\ \A i \in 1 .. len - w : w + 1 + i - 1 = w + i
    BY <1>2, <1>3, <2>2
  <2> QED
    BY <2>2, <2>3, LenProperties
<1> HIDE DEF words, rest
<1>7. Format' = "OPUS" /\ Channels' = Channels /\ setup # << "AAC", TRUE >> /\ Copies = 1
  BY <1>1, StereoAac DEF Format, Channels, Copies
<1>8. /\ NextWord = captured - len + 1 /\ NextWord \in Int
      /\ NextWord' = NextWord + w
  BY <1>1, <1>2, <1>3, <1>6, <1>7 DEF NextWord, len
<1>9. /\ \A i \in 1 .. len : frameBuffer[i] = NextWord + i - 1
  BY <1>1, <1>2, <1>7 DEF IInv, Contiguous
<1>10. IsNext(words, w)
  <2>1. \A i \in 1 .. w : words[i] = NextWord + i - 1
    BY <1>2, <1>3, <1>5, <1>9
  <2>2. \A i \in 1 .. w : (i - 1) \div 1 = i - 1
    BY <1>3
  <2> QED
    BY <1>3, <1>5, <1>7, <1>8, <2>1, <2>2 DEF IsNext
<1>11. IsPaced => Len(words) \div Channels = w /\ w * Second >= SampleRate
  <2> SUFFICES ASSUME IsPaced
               PROVE  Len(words) \div Channels = w /\ w * Second >= SampleRate
    OBVIOUS
  <2>1. Channels = 1
    BY <1>1, ChannelsTypes DEF IsPaced, IInv
  <2>2. w = OpusTarget /\ OpusTarget * Second >= SampleRate
    BY <1>3, <2>1, FrameAssumption DEF w
  <2> QED
    BY <1>3, <1>5, <2>1, <2>2
<1>12. /\ Times' /\ OnPace' /\ SamplesInOrder' /\ PaceOfMono'
       /\ setup # << "AAC", TRUE >> => LastWord(frames'[Len(frames')]) = NextWord' - 1
       /\ frames' \in Seq(Frame) /\ seen' \in [Subscribers -> Nat]
       /\ timeline' \in Nat /\ lastTime' \in Nat /\ origin' \in Nat /\ setup' \in Setups
  <2>1. words \in Seq(Words) \ {<< >>}
    BY <1>3, <1>5
  <2> QED
    BY <1>1, <1>2, <1>3, <1>8, <1>10, <1>11, <2>1, Published
<1>13. Contiguous'
  <2>1. \A i \in 1 .. len - w : rest[i] = NextWord' + i - 1
    <3> SUFFICES ASSUME NEW i \in 1 .. len - w
                 PROVE  rest[i] = NextWord' + i - 1
      OBVIOUS
    <3>1. w + i \in 1 .. len
      BY <1>2, <1>3
    <3>2. frameBuffer[w + i] = NextWord + (w + i) - 1
      BY <1>9, <3>1
    <3> QED
      BY <1>3, <1>6, <1>8, <3>2
  <2> QED
    BY <1>1, <1>6, <1>7, <1>12, <2>1 DEF Contiguous
<1>14. Agrees(reframer, Channels)' /\ ~HasMoreFrames(reframer)' /\ dropped = 0
  <2>1. Agrees(reframer, Channels) /\ ~HasMoreFrames(reframer) /\ dropped = 0
    BY <1>1 DEF IInv, Types, Backlog
  <2> QED
    BY <1>1, <1>7, <2>1 DEF Agrees, IsLinked, Reframers, RingSize, HasMoreFrames
<1>15. Types'
  BY <1>1, <1>2, <1>6, <1>12, <1>14 DEF IInv, Types
<1>16. Backlog'
  BY <1>1, <1>7, <1>14 DEF Backlog
<1> QED
  BY <1>12, <1>13, <1>15, <1>16 DEF IInv

LEMMA GetFrameKeeps ==
  ASSUME IInv, NEW n \in DeviceFrames[Format], GetFrame(n)
  PROVE  IInv'
<1>1. n \in Nat \ {0} /\ Format \in Formats
  BY DeviceFrameTypes, ChannelsTypes DEF IInv
<1>2. pc = "poll" /\ captured' = captured + n /\ UNCHANGED << had, setup, others >>
  BY DEF GetFrame
<1>3. CASE /\ ~had /\ pc' = "sample"
           /\ UNCHANGED << clock, seen, reframer, frameBuffer, dropped >>
  BY <1>1, <1>2, <1>3, GetFrameDropped
<1>4. CASE /\ had /\ Format = "AAC" /\ pc' = "emit" /\ Reframe(Captured(n))
           /\ UNCHANGED << clock, seen, frameBuffer, dropped >>
  BY <1>2, <1>4, GetFrameAac
<1>5. CASE /\ had /\ Format = "OPUS" /\ pc' = "emit"
           /\ frameBuffer' = Accumulated(Captured(n))
           /\ dropped' = IF Overflows(Captured(n)) THEN dropped + 1 ELSE dropped
           /\ UNCHANGED << clock, seen, reframer >>
  BY <1>2, <1>5, GetFrameOpus
<1>6. CASE /\ had /\ Format = "PCM" /\ pc' = "sample"
           /\ Direct(IF Channels = 2 THEN Upmixed(Captured(n)) ELSE Captured(n))
           /\ UNCHANGED << reframer, frameBuffer, dropped >>
  BY <1>2, <1>6, GetFramePcm
<1> QED
  BY <1>3, <1>4, <1>5, <1>6 DEF GetFrame

LEMMA Steps == IInv /\ [Next]_vars => IInv'
<1> SUFFICES ASSUME IInv, [Next]_vars
             PROVE  IInv'
  OBVIOUS
<1>1. CASE \E s \in Subscribers : Join(s) \/ Leave(s)
  BY <1>1, JoinKeeps, LeaveKeeps
<1>2. CASE Sample
  BY <1>2, SampleKeeps
<1>3. CASE PollTimeout
  BY <1>3, PollTimeoutKeeps
<1>4. CASE \E n \in DeviceFrames[Format] : GetFrame(n)
  BY <1>4, GetFrameKeeps
<1>5. CASE EmitAac
  BY <1>5, EmitAacKeeps
<1>6. CASE EmitOpus
  BY <1>6, EmitOpusKeeps
<1>7. CASE EmitDone
  BY <1>7, EmitDoneKeeps
<1>8. CASE \E new \in Setups : Restart(new)
  BY <1>8, RestartKeeps
<1>9. CASE UNCHANGED vars
  <2>1. UNCHANGED << loop, clock, captured, seen, others >>
    BY <1>9 DEF vars
  <2>2. Contiguous' /\ OnPace' /\ SamplesInOrder' /\ PaceOfMono'
    BY <2>1, SameData DEF loop
  <2>3. Types' /\ Backlog'
    BY <2>1, SameWorker DEF IInv, Types, Backlog, loop, clock
  <2>4. Times'
    BY <2>1 DEF IInv, Times, loop, clock, others
  <2> QED
    BY <2>2, <2>3, <2>4 DEF IInv
<1> QED
  BY <1>1, <1>2, <1>3, <1>4, <1>5, <1>6, <1>7, <1>8, <1>9 DEF Next

(* The invariant holds throughout, whatever the lengths of frames and the  *)
(* rate of samples are.                                                    *)
THEOREM Invariant == Spec => []IInv
  BY Begins, Steps, PTL DEF Spec

-----------------------------------------------------------------------------
(* The properties.                                                         *)

(* The words in the ring of the reframer are the samples it counts; when   *)
(* the worker asks the device for a frame both accumulators hold less than *)
(* an encoder frame, so addFrame never throws and no sample is dropped.    *)
THEOREM BacklogStaysBelowOneFrame == Spec => []BacklogBelowOneFrame
<1>1. IInv => BacklogBelowOneFrame
  <2> SUFFICES ASSUME IInv
               PROVE  BacklogBelowOneFrame
    OBVIOUS
  <2>1. Agrees(reframer, Channels) /\ Channels \in {1, 2}
    BY ChannelsTypes DEF IInv, Types
  <2>2. reframer.buffer.size = reframer.samplesAccumulated * reframer.channelCount
    BY <2>1 DEF Agrees, Reframers
  <2>3. pc # "emit" => ~HasMoreFrames(reframer) /\ ~MoreOpus
    BY DEF IInv, Backlog
  <2>4. Fits(reframer.buffer, InputWords(reframer)) \/ pc = "emit"
    <3>1. << >> \in Seq(Words)
      OBVIOUS
    <3> QED
      BY <2>1, <2>3, <3>1, AddFrameKeeps
  <2> QED
    BY <2>2, <2>3, <2>4 DEF IInv, Backlog, BacklogBelowOneFrame
<1> QED
  BY <1>1, Invariant, PTL

(* However the frames of the device are cut, the encoder is given every    *)
(* sample of a time line once and in order.                                *)
THEOREM EncoderGetsSamplesInOrder == Spec => []SamplesInOrder
<1>1. IInv => SamplesInOrder
  BY DEF IInv
<1> QED
  BY <1>1, Invariant, PTL

(* The published times follow the samples, up to a unit of time for every  *)
(* frame, for it is rounded on its own.                                    *)
THEOREM TimesKeepPace == Spec => []PaceOfMono
<1>1. IInv => PaceOfMono
  BY DEF IInv
<1> QED
  BY <1>1, Invariant, PTL

(* A step gives a subscriber a time later than the last it was given.      *)
LEMMA LaterForEverybody ==
  ASSUME IInv, [Next]_vars, NEW s \in Subscribers, seen[s] # 0, seen'[s] \notin {0, seen[s]}
  PROVE  seen'[s] > seen[s]
<1>1. Types /\ Times
  BY DEF IInv
<1>2. seen \in [Subscribers -> Nat]
  BY <1>1 DEF Types
<1>3. CASE seen' = seen
  BY <1>3
<1>4. CASE \E t \in Subscribers : Leave(t)
  BY <1>2, <1>4 DEF Leave
<1>5. CASE \E new \in Setups : Restart(new)
  BY <1>5 DEF Restart
<1>6. CASE EmitAac
  <2> DEFINE out == ReframedFrame(reframer)
             words == IF Channels = 2 THEN Upmixed(out) ELSE out
  <2>1. had /\ UNCHANGED << had, subscribers >> /\ Direct(words)
    BY <1>1, <1>6 DEF EmitAac, Times, others
  <2>2. Agrees(reframer, Channels) /\ Channels \in {1, 2} /\ HasMoreFrames(reframer)
    BY <1>1, <1>6, ChannelsTypes DEF EmitAac, Types
  <2>3. out \in [1 .. AacOutput * Channels -> Words] /\ AacOutput * Channels \in Nat \ {0}
    BY <2>2, ReframedKeeps, RingRoom
  <2> HIDE DEF out
  <2>4. out \in Seq(Words) /\ out # << >>
    BY <2>3
  <2>5. words \in Seq(Words) \ {<< >>}
    BY <2>4, UpmixedWords
  <2> HIDE DEF words
  <2> QED
    BY <1>1, <2>1, <2>5, PublishedTimes
<1>7. CASE EmitOpus
  <2> DEFINE words == SubSeq(frameBuffer, 1, OpusWords)
  <2>1. had /\ UNCHANGED << had, subscribers >> /\ Direct(words) /\ MoreOpus
    BY <1>1, <1>7 DEF EmitOpus, Times, others
  <2>2. /\ frameBuffer \in Seq(Words) /\ Len(frameBuffer) \in Nat /\ Channels \in {1, 2}
        /\ OpusTarget \in Nat \ {0} /\ Len(frameBuffer) \div Channels >= OpusTarget
    BY <1>1, <2>1, ChannelsTypes, LenProperties, PipelineAssumption DEF Types, MoreOpus
  <2>3. OpusWords \in Nat \ {0} /\ OpusWords <= Len(frameBuffer)
    <3>1. CASE Channels = 1
      BY <2>2, <3>1 DEF OpusWords
    <3>2. CASE Channels = 2
      BY <2>2, <3>2 DEF OpusWords
    <3> QED
      BY <2>2, <3>1, <3>2
  <2>4. \A i \in 1 .. OpusWords : frameBuffer[i] \in Words
    <3>1. \A i \in 1 .. OpusWords : i \in 1 .. Len(frameBuffer)
      BY <2>2, <2>3
    <3> QED
      BY <2>2, <3>1, ElementOfSeq
  <2>5. words \in Seq(Words) /\ Len(words) = (IF 1 <= OpusWords THEN OpusWords - 1 + 1 ELSE 0)
    BY <2>3, <2>4, SubSeqProperties
  <2> HIDE DEF words
  <2>6. words \in Seq(Words) \ {<< >>}
    BY <2>3, <2>5
  <2> QED
    BY <1>1, <2>1, <2>6, PublishedTimes
<1>8. CASE \E n \in DeviceFrames[Format] : GetFrame(n)
  <2>1. PICK n \in DeviceFrames[Format] : GetFrame(n)
    BY <1>8
  <2>2. CASE seen' = seen
    BY <2>2
  <2> DEFINE words == IF Channels = 2 THEN Upmixed(Captured(n)) ELSE Captured(n)
  <2>3. CASE had /\ Direct(words)
    <3>1. Captured(n) \in Seq(Words) /\ Len(Captured(n)) = n /\ n \in Nat \ {0}
      BY <1>1, DeviceFrameTypes, CapturedWords
    <3>2. Captured(n) # << >>
      BY <3>1
    <3>3. words \in Seq(Words) \ {<< >>}
      BY <3>1, <3>2, UpmixedWords
    <3>4. UNCHANGED << had, subscribers >>
      BY <2>1 DEF GetFrame, others
    <3> HIDE DEF words
    <3> QED
      BY <1>1, <2>3, <3>3, <3>4, PublishedTimes
  <2> QED
    BY <2>1, <2>2, <2>3 DEF GetFrame
<1>9. seen' = seen \/ ~UNCHANGED vars
  BY DEF vars
<1>10. Next => \/ seen' = seen
               \/ \E t \in Subscribers : Leave(t)
               \/ \E new \in Setups : Restart(new)
               \/ EmitAac \/ EmitOpus \/ \E n \in DeviceFrames[Format] : GetFrame(n)
  BY DEF Next, Join, Sample, PollTimeout, EmitDone
<1> QED
  BY <1>3, <1>4, <1>5, <1>6, <1>7, <1>8, <1>9, <1>10

(* Whoever else comes and goes, no subscriber that stays is sent back.     *)
THEOREM NobodyGoesBackInTime == Spec => NeverBackInTime
<1>1. IInv /\ [Next]_vars =>
        [\A s \in Subscribers :
           seen[s] # 0 /\ seen'[s] \notin {0, seen[s]} => seen'[s] > seen[s]]_vars
  BY LaterForEverybody
<1> QED
  BY <1>1, Invariant, PTL DEF Spec, NeverBackInTime

=============================================================================
