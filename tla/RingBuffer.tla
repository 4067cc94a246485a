----------------------------- MODULE RingBuffer -----------------------------
(***************************************************************************)
(* RingBuffer.hpp and AudioReframer.cpp as operators on values: a byte     *)
(* ring with head, tail and size, and on top of it the reframer that turns *)
(* device frames of one length into encoder frames of another.  The unit   *)
(* is a 16-bit word, for every call of the code moves whole words.         *)
(***************************************************************************)
EXTENDS Integers, Sequences

CONSTANTS Stray    \* a word read from beyond the end of a device frame

Larger(a, b) == IF a > b THEN a ELSE b

-----------------------------------------------------------------------------
(* The ring.                                                               *)

EmptyRing(capacity) ==
  [cells |-> [i \in 0 .. capacity - 1 |-> Stray],
   capacity |-> capacity, head |-> 0, tail |-> 0, size |-> 0]

(* push throws when the data does not fit.                                 *)
Fits(ring, n) == n <= ring.capacity - ring.size

MutantPushUnwrapped(ring, data) ==
  [ring EXCEPT
     !.cells = [i \in DOMAIN ring.cells |->
                  IF ring.tail <= i /\ i < ring.tail + Len(data)
                  THEN data[i - ring.tail + 1] ELSE ring.cells[i]],
     !.tail = (@ + Len(data)) % ring.capacity,
     !.size = @ + Len(data)]

(* Two copies: up to the end of the array, and the rest at its beginning.  *)
Push(ring, data) ==
  LET spaceAtEnd == ring.capacity - ring.tail
  IN [ring EXCEPT
        !.cells = [i \in DOMAIN ring.cells |->
                     IF ring.tail <= i /\ i < ring.tail + Len(data)
                     THEN data[i - ring.tail + 1]
                     ELSE IF i < Len(data) - spaceAtEnd
                          THEN data[spaceAtEnd + i + 1]
                          ELSE ring.cells[i]],
        !.tail = (@ + Len(data)) % ring.capacity,
        !.size = @ + Len(data)]

(* What fetch copies out, in two parts as well, and what it leaves.        *)
Fetched(ring, n) ==
  LET spaceAtEnd == ring.capacity - ring.head
  IN [i \in 1 .. n |-> IF i <= spaceAtEnd
                       THEN ring.cells[ring.head + i - 1]
                       ELSE ring.cells[i - spaceAtEnd - 1]]

AfterFetch(ring, n) ==
  [ring EXCEPT !.head = (@ + n) % ring.capacity, !.size = @ - n]

-----------------------------------------------------------------------------
(* The reframer.  Its time stamps end in a field nobody reads and are left *)
(* out; the published times come from the worker's own time line.          *)

AudioReframer(inputSamples, outputSamples, channels) ==
  [inputSamplesPerFrame |-> inputSamples,
   outputSamplesPerFrame |-> outputSamples,
   channelCount |-> channels,
   samplesAccumulated |-> 0,
   buffer |-> EmptyRing(2 * Larger(inputSamples, outputSamples) * channels)]

(* addFrame reads as many words as it was told a frame has, whatever the   *)
(* device delivered.                                                       *)
WordsRead(data, n) == [i \in 1 .. n |-> IF i <= Len(data) THEN data[i] ELSE Stray]

InputWords(reframer)  == reframer.inputSamplesPerFrame * reframer.channelCount
OutputWords(reframer) == reframer.outputSamplesPerFrame * reframer.channelCount

AddFrame(reframer, data) ==
  [reframer EXCEPT
     !.buffer = Push(@, WordsRead(data, InputWords(reframer))),
     !.samplesAccumulated = @ + reframer.inputSamplesPerFrame]

HasMoreFrames(reframer) ==
  reframer.samplesAccumulated >= reframer.outputSamplesPerFrame

ReframedFrame(reframer) == Fetched(reframer.buffer, OutputWords(reframer))

AfterReframed(reframer) ==
  [reframer EXCEPT
     !.buffer = AfterFetch(@, OutputWords(reframer)),
     !.samplesAccumulated = @ - reframer.outputSamplesPerFrame]
=============================================================================
